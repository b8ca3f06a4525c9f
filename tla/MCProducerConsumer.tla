-------------------------- MODULE MCProducerConsumer --------------------------
(* Two producers and two consumers, as in the source.  There the buffer    *)
(* has as many slots as items are produced and nobody ever waits for a     *)
(* slot; here it is smaller, so that both waits happen.                    *)
EXTENDS ProducerConsumer
=============================================================================
