--------------------------- MODULE ProducerConsumer ---------------------------
(***************************************************************************)
(* The class ProducerConsumer of Lab5/synchronization_tools.cpp: a ring    *)
(* buffer, one mutex, a condition variable for "not full" and one for "not *)
(* empty", producers and consumers that make a fixed number of rounds, and *)
(* main, which joins them and then sets done.                              *)
(*                                                                         *)
(* Threads that have the mutex are between the lock and the unlock that    *)
(* ends the round or starts a wait; as in Semaphore, woken threads compete *)
(* with newcomers.                                                         *)
(***************************************************************************)
EXTENDS Integers, Sequences, FiniteSets

CONSTANTS Producers, Consumers, \* the threads
          NoThread,             \* owner of an unlocked mutex
          Items,                \* what is produced (the program draws 1..100)
          Size,                 \* BUFFER_SIZE
          Produced, Consumed    \* rounds of a producer and of a consumer

Threads == Producers \union Consumers

ASSUME ThreadsAssumption ==
  /\ IsFiniteSet(Producers) /\ IsFiniteSet(Consumers)
  /\ Producers \intersect Consumers = {}
  /\ NoThread \notin Threads
ASSUME SizeAssumption == Size \in Nat \ {0}
ASSUME RoundsAssumption == Produced \in Nat /\ Consumed \in Nat
ASSUME ItemsAssumption == Items # {}

VARIABLES buffer, in, out, count, \* the ring
          mtx,                    \* who holds buffer_mutex
          pc, round,              \* where each thread is
          done                    \* set by main after the joins

ring == <<buffer, in, out, count>>
vars == <<buffer, in, out, count, mtx, pc, round, done>>

PC == {"outside",  \* about to lock
       "testing",  \* holds the mutex, about to test the predicate of its wait
       "waiting",  \* blocked in wait
       "woken"}    \* left the wait, about to relock

Rounds(t) == IF t \in Producers THEN Produced ELSE Consumed

Finished(t) == round[t] = Rounds(t) /\ pc[t] = "outside"

WaitingOn(group) == {t \in group : pc[t] = "waiting"}

\* Those of a group that are on their way to test the predicate again.
Coming(group) == {t \in group : pc[t] \in {"woken", "testing"}}

Init ==
  /\ buffer \in [0..Size - 1 -> Items] \* whatever an earlier run left there
  /\ in = 0 /\ out = 0 /\ count = 0
  /\ mtx = NoThread
  /\ pc = [t \in Threads |-> "outside"]
  /\ round = [t \in Threads |-> 0]
  /\ done = FALSE

\* pc after t ends its round and notify_one wakes some waiter of group.
EndRoundNotifying(t, group) ==
  \/ /\ WaitingOn(group) = {}
     /\ pc' = [pc EXCEPT ![t] = "outside"]
  \/ \E w \in WaitingOn(group) :
       pc' = [pc EXCEPT ![t] = "outside", ![w] = "woken"]

-----------------------------------------------------------------------------
(* Mutated forms of the operations below.                                  *)

\* The consumer forgets to advance out.
ConsumeSameSlot(t) ==
  /\ t \in Consumers
  /\ mtx = t
  /\ count > 0
  /\ count' = count - 1
  /\ EndRoundNotifying(t, Producers)
  /\ mtx' = NoThread
  /\ round' = [round EXCEPT ![t] = @ + 1]
  /\ UNCHANGED <<buffer, in, out, done>>

\* The consumer notifies its own condition variable.
ConsumeWrongSignal(t) ==
  /\ t \in Consumers
  /\ mtx = t
  /\ count > 0
  /\ out' = (out + 1) % Size
  /\ count' = count - 1
  /\ EndRoundNotifying(t, Consumers)
  /\ mtx' = NoThread
  /\ round' = [round EXCEPT ![t] = @ + 1]
  /\ UNCHANGED <<buffer, in, done>>

\* The producer notifies only when the buffer was empty.
ProduceNotifyAtEmpty(t, item) ==
  /\ t \in Producers
  /\ mtx = t
  /\ count < Size
  /\ buffer' = [buffer EXCEPT ![in] = item]
  /\ in' = (in + 1) % Size
  /\ count' = count + 1
  /\ IF count = 0 THEN EndRoundNotifying(t, Consumers)
                  ELSE pc' = [pc EXCEPT ![t] = "outside"]
  /\ mtx' = NoThread
  /\ round' = [round EXCEPT ![t] = @ + 1]
  /\ UNCHANGED <<out, done>>

-----------------------------------------------------------------------------
\* unique_lock<mutex> lock(buffer_mutex), or the relock inside wait.
Lock(t) ==
  /\ \/ pc[t] = "outside" /\ round[t] < Rounds(t)
     \/ pc[t] = "woken"
  /\ mtx = NoThread
  /\ mtx' = t
  /\ pc' = [pc EXCEPT ![t] = "testing"]
  /\ UNCHANGED <<ring, round, done>>

\* The predicate fails: wait unlocks the mutex and blocks, atomically.
Block(t) ==
  /\ mtx = t
  /\ \/ t \in Producers /\ ~(count < Size)
     \/ t \in Consumers /\ ~(count > 0 \/ done)
  /\ mtx' = NoThread
  /\ pc' = [pc EXCEPT ![t] = "waiting"]
  /\ UNCHANGED <<ring, round, done>>

SpuriousWakeup(t) ==
  /\ pc[t] = "waiting"
  /\ pc' = [pc EXCEPT ![t] = "woken"]
  /\ UNCHANGED <<ring, mtx, round, done>>

\* The rest of a producer's round: store the item, not_empty.notify_one,
\* unlock.
Produce(t, item) ==
  /\ t \in Producers
  /\ mtx = t
  /\ count < Size
  /\ buffer' = [buffer EXCEPT ![in] = item]
  /\ in' = (in + 1) % Size
  /\ count' = count + 1
  /\ EndRoundNotifying(t, Consumers)
  /\ mtx' = NoThread
  /\ round' = [round EXCEPT ![t] = @ + 1]
  /\ UNCHANGED <<out, done>>

\* The rest of a consumer's round: take the item and not_full.notify_one, or
\* nothing when it was done that ended the wait; unlock.
Consume(t) ==
  /\ t \in Consumers
  /\ mtx = t
  /\ count > 0 \/ done
  /\ IF count > 0
     THEN /\ out' = (out + 1) % Size
          /\ count' = count - 1
          /\ EndRoundNotifying(t, Producers)
     ELSE /\ pc' = [pc EXCEPT ![t] = "outside"]
          /\ UNCHANGED <<out, count>>
  /\ mtx' = NoThread
  /\ round' = [round EXCEPT ![t] = @ + 1]
  /\ UNCHANGED <<buffer, in, done>>

\* main, after the joins: done = true, not_empty.notify_all.
Finish ==
  /\ ~done
  /\ \A t \in Threads : Finished(t)
  /\ done' = TRUE
  /\ pc' = [t \in Threads |-> IF t \in WaitingOn(Consumers) THEN "woken" ELSE pc[t]]
  /\ UNCHANGED <<buffer, in, out, count, mtx, round>>

Step(t) ==
  \/ Lock(t) \/ Block(t) \/ Consume(t)
  \/ \E item \in Items : Produce(t, item)

Completed == done /\ UNCHANGED vars

Next == (\E t \in Threads : Step(t) \/ SpuriousWakeup(t)) \/ Finish \/ Completed

\* As in Semaphore: runnable threads are scheduled, spurious wakeups end.
Fairness ==
  /\ \A t \in Threads : WF_vars(Step(t))
  /\ WF_vars(Finish)
  /\ <>[][~ \E t \in Threads : SpuriousWakeup(t)]_vars

Spec == Init /\ [][Next]_vars /\ Fairness

-----------------------------------------------------------------------------
TypeOK ==
  /\ buffer \in [0..Size - 1 -> Items]
  /\ in \in 0..Size - 1 /\ out \in 0..Size - 1 /\ count \in 0..Size
  /\ mtx \in Threads \union {NoThread}
  /\ pc \in [Threads -> PC]
  /\ \A t \in Threads : round[t] \in 0..Rounds(t)
  /\ done \in BOOLEAN

\* What is in the ring, oldest first.
Content == [i \in 1..count |-> buffer[(out + i - 1) % Size]]

\* ImplementsFIFO: the ring with its wrapping indices, whatever the threads
\* do, is a queue: nothing is overwritten, skipped or taken twice.
FIFO == INSTANCE BoundedFIFO WITH queue <- Content, Capacity <- Size
ImplementsFIFO == FIFO!Spec

\* NoLostWakeup: consumers sleep only while every item in the buffer has
\* another consumer on its way to it, and producers only while every free
\* slot has a producer coming, although each round notifies one thread and
\* that thread may be overtaken.
NoLostWakeup ==
  /\ ~done /\ WaitingOn(Consumers) # {} => count <= Cardinality(Coming(Consumers))
  /\ WaitingOn(Producers) # {} => Size - count <= Cardinality(Coming(Producers))

\* DemonstrationCompletes: the producers' rounds match the consumers', so
\* everyone is joined ("Producer-Consumer demonstration completed!").
DemonstrationCompletes == <>done
=============================================================================
