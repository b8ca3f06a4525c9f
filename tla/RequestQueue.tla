----------------------------- MODULE RequestQueue -----------------------------
(***************************************************************************)
(* Lab6/starvation.cpp: processes queue up for a resource "until first in  *)
(* the queue" (line 19), so that none starves.  A process uses the         *)
(* resource without letting go of the mutex.                               *)
(***************************************************************************)
EXTENDS Sequences

CONSTANT Requesters

Free == "free"
ASSUME RequestersAssumption == Free \notin Requesters

VARIABLES resource_mutex,  \* its owner
          request_queue,
          does             \* where a process is

requestVars == <<resource_mutex, request_queue, does>>

RequestInit ==
  /\ resource_mutex = Free
  /\ request_queue = <<>>
  /\ does = [r \in Requesters |-> "starting"]

-----------------------------------------------------------------------------
(* Mutated forms of the operations below.                                  *)

\* A process does not take itself off the queue.
ServedStays(r) == request_queue

-----------------------------------------------------------------------------
\* The mutex is locked, at the start and after each wakeup.
LockResource(r) ==
  /\ does[r] \in {"starting", "woken"} /\ resource_mutex = Free
  /\ resource_mutex' = r
  /\ request_queue' =
       IF does[r] = "starting" THEN Append(request_queue, r) ELSE request_queue
  /\ does' = [does EXCEPT ![r] = "testing"]

\* The queue when r has become its first and takes itself off.
Served(r) == Tail(request_queue)

\* The predicate of the wait: go on, or let go of the mutex and sleep.
TestFirst(r) ==
  LET first == Head(request_queue) = r
  IN /\ does[r] = "testing"
     /\ request_queue' = IF first THEN Served(r) ELSE request_queue
     /\ does' = [does EXCEPT ![r] = IF first THEN "using" ELSE "waiting"]
     /\ resource_mutex' = IF first THEN r ELSE Free

\* notify_all, and the mutex is unlocked at the end of the function.
FinishUse(r) ==
  /\ does[r] = "using"
  /\ resource_mutex' = Free
  /\ does' = [q \in Requesters |->
                IF q = r THEN "ended" ELSE IF does[q] = "waiting" THEN "woken" ELSE does[q]]
  /\ UNCHANGED request_queue

RequestStep(r) == LockResource(r) \/ TestFirst(r) \/ FinishUse(r)

RequestNext == \E r \in Requesters : RequestStep(r)

RequestSpec == RequestInit /\ [][RequestNext]_requestVars

-----------------------------------------------------------------------------
\* The queue decides nothing: a process that locks the mutex is its first, so
\* that nobody ever waits for his turn, and processes are served in the order
\* in which they get the mutex, which promises no order.
QueueNeverDecides ==
  /\ \A r \in Requesters : does[r] \notin {"waiting", "woken"}
  /\ resource_mutex = Free => request_queue = <<>>

RequestsServed == \A r \in Requesters : does[r] = "ended"
=============================================================================
