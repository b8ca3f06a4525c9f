------------------------------ MODULE Semaphore ------------------------------
(***************************************************************************)
(* The class Semaphore of Lab5/synchronization_tools.cpp (a mutex, a       *)
(* condition variable and a count) used by the threads of SemaphoreDemo.   *)
(* Each thread runs process_task once: it takes a permit, works, gives the *)
(* permit back.  A thread may call try_acquire instead of acquire and, as  *)
(* the call does not block, ends when it is refused.                       *)
(*                                                                         *)
(* A critical section is two steps, taking mtx and then the body with the  *)
(* unlock that ends it, so that threads queue for the mutex, and a woken   *)
(* thread competes for it with the threads that call acquire for the first *)
(* time.                                                                   *)
(***************************************************************************)
EXTENDS Integers, FiniteSets

CONSTANTS Threads,  \* the threads of demonstrate_semaphore
          Permits,  \* initial_count
          NoThread  \* owner of an unlocked mutex

ASSUME ThreadsAssumption == IsFiniteSet(Threads) /\ NoThread \notin Threads
ASSUME PermitsAssumption == Permits \in Nat

VARIABLES mtx,   \* the thread that holds Semaphore::mtx, or NoThread
          count, \* Semaphore::count
          pc     \* where each thread is in process_task

vars == <<mtx, count, pc>>

PC == {"acquire",    \* about to call acquire or try_acquire
       "testing",    \* in acquire, holds mtx, about to test count > 0
       "trying",     \* in try_acquire, holds mtx
       "waiting",    \* blocked in cv.wait, mtx released
       "woken",      \* left the wait, must retake mtx
       "retesting",  \* retook mtx, about to test count > 0 again
       "working",    \* holds a permit
       "releasing",  \* in release, holds mtx and still its permit
       "done"}

At(labels) == {t \in Threads : pc[t] \in labels}

\* The threads that hold a permit.
Holders == At({"working", "releasing"})

\* The threads blocked in cv.wait, and those that left it and have not yet
\* tested the count again.
Waiters == At({"waiting"})
Woken   == At({"woken", "retesting"})

Init ==
  /\ mtx = NoThread
  /\ count = Permits
  /\ pc = [t \in Threads |-> "acquire"]

\* Taking mtx: a thread enters the critical section of the next call.
Lock(t, from, to) ==
  /\ pc[t] = from
  /\ mtx = NoThread
  /\ mtx' = t
  /\ pc' = [pc EXCEPT ![t] = to]
  /\ UNCHANGED count

BeginAcquire(t)    == Lock(t, "acquire", "testing")
BeginTryAcquire(t) == Lock(t, "acquire", "trying")
Relock(t)          == Lock(t, "woken", "retesting")
BeginRelease(t)    == Lock(t, "working", "releasing")

-----------------------------------------------------------------------------
(* Mutated forms of the operations below, as plausible bugs in that code.  *)

\* acquire that tests the count with `if` instead of waiting in a loop: a
\* woken thread takes a permit without looking again.
TakePermitUnchecked(t) ==
  /\ \/ pc[t] = "testing" /\ count > 0
     \/ pc[t] = "retesting"
  /\ count' = count - 1
  /\ mtx' = NoThread
  /\ pc' = [pc EXCEPT ![t] = "working"]

\* release that does not notify.
ReleaseSilently(t) ==
  /\ pc[t] = "releasing"
  /\ count' = count + 1
  /\ mtx' = NoThread
  /\ pc' = [pc EXCEPT ![t] = "done"]

\* release that notifies only when it finds the count at zero, to save a
\* system call: two releases in a row wake one thread.
ReleaseNotifyAtZero(t) ==
  /\ pc[t] = "releasing"
  /\ count' = count + 1
  /\ mtx' = NoThread
  /\ \/ /\ Waiters = {} \/ count > 0
        /\ pc' = [pc EXCEPT ![t] = "done"]
     \/ \E w \in Waiters :
          /\ count = 0
          /\ pc' = [pc EXCEPT ![t] = "done", ![w] = "woken"]

-----------------------------------------------------------------------------
\* The predicate of cv.wait holds: --count, and ~unique_lock unlocks mtx.
TakePermit(t) ==
  /\ pc[t] \in {"testing", "retesting"}
  /\ count > 0
  /\ count' = count - 1
  /\ mtx' = NoThread
  /\ pc' = [pc EXCEPT ![t] = "working"]

\* The predicate fails: cv.wait unlocks mtx and blocks, atomically.
Block(t) ==
  /\ pc[t] \in {"testing", "retesting"}
  /\ count <= 0
  /\ mtx' = NoThread
  /\ pc' = [pc EXCEPT ![t] = "waiting"]
  /\ UNCHANGED count

\* A waiter may leave cv.wait without a notification.
SpuriousWakeup(t) ==
  /\ pc[t] = "waiting"
  /\ pc' = [pc EXCEPT ![t] = "woken"]
  /\ UNCHANGED <<mtx, count>>

TryAcquire(t) ==
  /\ pc[t] = "trying"
  /\ mtx' = NoThread
  /\ \/ /\ count > 0
        /\ count' = count - 1
        /\ pc' = [pc EXCEPT ![t] = "working"]
     \/ /\ count <= 0
        /\ pc' = [pc EXCEPT ![t] = "done"]
        /\ UNCHANGED count

\* ++count, then notify_one wakes some waiter if there is one.
Release(t) ==
  /\ pc[t] = "releasing"
  /\ count' = count + 1
  /\ mtx' = NoThread
  /\ \/ /\ Waiters = {}
        /\ pc' = [pc EXCEPT ![t] = "done"]
     \/ \E w \in Waiters :
          pc' = [pc EXCEPT ![t] = "done", ![w] = "woken"]

\* Every step of t that the code takes by itself.
Step(t) ==
  \/ BeginAcquire(t) \/ Relock(t) \/ BeginRelease(t)
  \/ TakePermit(t) \/ Block(t) \/ TryAcquire(t) \/ Release(t)

\* demonstrate_semaphore has joined every thread.
Finished == (\A t \in Threads : pc[t] = "done") /\ UNCHANGED vars

Next ==
  \/ \E t \in Threads : Step(t) \/ BeginTryAcquire(t) \/ SpuriousWakeup(t)
  \/ Finished

\* A thread that can run is scheduled.  Nothing forces a spurious wakeup, and
\* they do not go on for ever (a waiter that left cv.wait again and again
\* could keep mtx from the thread that wants to release).
Fairness ==
  /\ \A t \in Threads : WF_vars(Step(t))
  /\ <>[][~ \E t \in Threads : SpuriousWakeup(t)]_vars

Spec == Init /\ [][Next]_vars /\ Fairness

-----------------------------------------------------------------------------
TypeOK ==
  /\ mtx \in Threads \union {NoThread}
  /\ count \in Nat
  /\ pc \in [Threads -> PC]

\* PermitsConserved: the permits in the pool and those held by threads add
\* up to initial_count, through every interleaving of acquire, try_acquire,
\* release and wakeups: no permit is lost, none is handed out twice.
PermitsConserved == count + Cardinality(Holders) = Permits

\* NoLostWakeup: while threads sleep in cv.wait, every free permit has a
\* woken thread on its way to take it, also when a newcomer overtakes the
\* woken thread and when notify_one hits a thread that goes back to sleep.
NoLostWakeup == Waiters # {} => count <= Cardinality(Woken)

\* Implementation: the mutex, the wait set and the wakeups implement a
\* counting semaphore whose pool is count.
Abstract == INSTANCE CountingSemaphore WITH avail <- count, holders <- Holders
ImplementsCountingSemaphore == Abstract!Spec

\* AllProcessesComplete: every thread of the demonstration comes to an end
\* ("All processes completed!"), although no thread has priority at mtx.
AllProcessesComplete == <>(\A t \in Threads : pc[t] = "done")
=============================================================================
