----------------------------- MODULE BoundedFIFO -----------------------------
(***************************************************************************)
(* What a bounded buffer promises: items leave in the order they came,     *)
(* each exactly once, and at most Capacity are inside.                     *)
(***************************************************************************)
EXTENDS Integers, Sequences

CONSTANTS Capacity, Items

VARIABLE queue

Init == queue = <<>>

Put(item) == Len(queue) < Capacity /\ queue' = Append(queue, item)

Get == queue # <<>> /\ queue' = Tail(queue)

Next == Get \/ \E item \in Items : Put(item)

Spec == Init /\ [][Next]_queue
=============================================================================
