------------------------ MODULE ThreadScheduler_proofs ------------------------
(***************************************************************************)
(* Proofs about ThreadScheduler for any sequence of submissions and any    *)
(* priorities.                                                             *)
(***************************************************************************)
EXTENDS ThreadScheduler, FiniteSetTheorems, TLAPS

\* What is in the queue has been submitted.
QueueSubmitted ==
  ready_queue \subseteq {Submissions[i] : i \in 1..submitted_threads}

\* current is set exactly while it executes.
CurrentExecutes == spc = "executing" <=> current # Nobody

\* How far main is with its submissions.
MainProgress ==
  /\ mpc = "adding" => submitted_threads < Len(Submissions)
  /\ mpc \notin {"adding", "add_notify"} => submitted_threads = Len(Submissions)

IInv ==
  /\ TypeOK
  /\ QueueSubmitted
  /\ CurrentExecutes
  /\ MainProgress
  /\ Accounting
  /\ CompletionMeansIdle

-----------------------------------------------------------------------------
LEMMA SubmissionsFinite ==
  /\ Len(Submissions) \in Nat \ {0}
  /\ \A i \in 1..Len(Submissions) : Submissions[i] \in Simulated
  /\ IsFiniteSet(Simulated)
<1>1. Submissions \in Seq(Simulated) /\ Submissions # <<>>
  BY SubmissionsAssumption
<1>2. Len(Submissions) \in Nat \ {0} /\ \A i \in 1..Len(Submissions) : Submissions[i] \in Simulated
  BY <1>1
<1>3. IsFiniteSet(Simulated)
  <2>1. IsFiniteSet(1..Len(Submissions))
    BY <1>2, FS_Interval
  <2>2. Submissions \in [1..Len(Submissions) -> Simulated]
    BY <1>1
  <2>3. Submissions \in Surjection(1..Len(Submissions), Simulated)
    BY <2>2 DEF Surjection, Simulated
  <2>4. QED
    BY <2>1, <2>3, FS_Surjection
<1>4. QED
  BY <1>2, <1>3

LEMMA QueueFinite ==
  ASSUME TypeOK
  PROVE  IsFiniteSet(ready_queue) /\ Cardinality(ready_queue) \in Nat
BY SubmissionsFinite, FS_Subset, FS_CardinalityType DEF TypeOK

LEMMA InitInv == Init => IInv
<1> SUFFICES ASSUME Init PROVE IInv
    OBVIOUS
<1>1. Cardinality(ready_queue) = 0
  BY FS_EmptySet DEF Init
<1>2. QED
  BY <1>1, SubmissionsFinite
  DEF Init, IInv, TypeOK, SchedulerPC, MainPC, QueueSubmitted, CurrentExecutes,
      MainProgress, Accounting, CompletionMeansIdle

LEMMA SchedulerInv == IInv /\ (SchedulerStep \/ SpuriousWakeup) => IInv'
<1> SUFFICES ASSUME IInv, SchedulerStep \/ SpuriousWakeup PROVE IInv'
    OBVIOUS
<1> USE DEF IInv, SchedulerPC, MainPC
<1>0. /\ IsFiniteSet(ready_queue) /\ Cardinality(ready_queue) \in Nat
      /\ Len(Submissions) \in Nat /\ Nobody \notin Simulated
  BY QueueFinite, SubmissionsFinite, NobodyAssumption
<1>1. CASE LockQueue \/ TestPredicate \/ Block \/ NotifyWaiters \/ SpuriousWakeup
  <2>1. /\ UNCHANGED <<ready_queue, running, submitted_threads, completed_threads, current, mpc>>
        /\ spc # "executing" /\ spc' # "executing"
    BY <1>1 DEF LockQueue, TestPredicate, Block, NotifyWaiters, SpuriousWakeup, shared
  <2>2. TypeOK'
    BY <1>1, <2>1 DEF TypeOK, LockQueue, TestPredicate, Block, NotifyWaiters,
                      SpuriousWakeup, shared
  <2>3. QED
    BY <2>1, <2>2 DEF QueueSubmitted, CurrentExecutes, MainProgress, Accounting,
                      CompletionMeansIdle
<1>2. CASE Exit
  BY <1>2 DEF Exit, TypeOK, QueueSubmitted, CurrentExecutes, MainProgress,
              Accounting, CompletionMeansIdle
<1>3. CASE Dispatch
  <2>1. /\ current' \in ready_queue /\ ready_queue' = ready_queue \ {current'}
        /\ spc = "deciding" /\ spc' = "executing"
        /\ UNCHANGED <<running, submitted_threads, completed_threads, mpc>>
    BY <1>3 DEF Dispatch, Top
  <2>2. TypeOK'
    BY <1>3, <2>1 DEF Dispatch, TypeOK
  <2>3. Cardinality(ready_queue') = Cardinality(ready_queue) - 1
    BY <1>0, <2>1, FS_RemoveElement
  <2>4. Accounting'
    BY <1>0, <2>1, <2>3 DEF Accounting, TypeOK
  <2>5. QueueSubmitted' /\ CurrentExecutes' /\ MainProgress' /\ CompletionMeansIdle'
    BY <1>0, <2>1 DEF TypeOK, QueueSubmitted, CurrentExecutes, MainProgress,
                      CompletionMeansIdle
  <2>6. QED
    BY <2>2, <2>4, <2>5
<1>4. CASE Complete
  <2>1. submitted_threads - completed_threads >= 1
    BY <1>0, <1>4 DEF Complete, Accounting, TypeOK
  <2>2. TypeOK'
    BY <1>0, <1>4, <2>1 DEF Complete, TypeOK
  <2>3. Accounting'
    BY <1>0, <1>4 DEF Complete, Accounting, TypeOK
  <2>4. QueueSubmitted' /\ CurrentExecutes' /\ MainProgress' /\ CompletionMeansIdle'
    BY <1>4 DEF Complete, TypeOK, QueueSubmitted, CurrentExecutes, MainProgress,
                CompletionMeansIdle
  <2>5. QED
    BY <2>2, <2>3, <2>4
<1>5. QED
  BY <1>1, <1>2, <1>3, <1>4 DEF SchedulerStep

LEMMA MainInv == IInv /\ MainStep => IInv'
<1> SUFFICES ASSUME IInv, MainStep PROVE IInv'
    OBVIOUS
<1> USE DEF IInv, SchedulerPC, MainPC
<1>0. /\ IsFiniteSet(ready_queue) /\ Cardinality(ready_queue) \in Nat
      /\ Len(Submissions) \in Nat /\ Nobody \notin Simulated
      /\ \A i \in 1..Len(Submissions) : Submissions[i] \in Simulated
  BY QueueFinite, SubmissionsFinite, NobodyAssumption
<1>1. CASE AddThread
  <2> DEFINE new == Submissions[submitted_threads + 1]
  <2>1. /\ submitted_threads + 1 \in 1..Len(Submissions)
        /\ submitted_threads' = submitted_threads + 1
        /\ ready_queue' = ready_queue \union {new}
        /\ UNCHANGED <<running, completed_threads, queue_mutex, current, spc>>
    BY <1>1 DEF AddThread, MainProgress, TypeOK
  <2>2. TypeOK'
    BY <1>0, <1>1, <2>1 DEF AddThread, TypeOK
  <2>3. new \notin ready_queue
    BY <2>1, SubmissionsAssumption DEF QueueSubmitted, TypeOK
  <2>4. Cardinality(ready_queue') = Cardinality(ready_queue) + 1
    BY <1>0, <2>1, <2>3, FS_AddElement
  <2>5. Accounting'
    BY <1>0, <2>1, <2>4 DEF Accounting, TypeOK
  <2>6. QueueSubmitted'
    <3>1. \A i \in 1..submitted_threads : i \in 1..submitted_threads'
      BY <2>1 DEF TypeOK
    <3>2. submitted_threads + 1 \in 1..submitted_threads'
      BY <2>1
    <3>3. QED
      BY <2>1, <3>1, <3>2 DEF QueueSubmitted
  <2>7. CurrentExecutes' /\ MainProgress' /\ CompletionMeansIdle'
    BY <1>1, <2>1 DEF AddThread, CurrentExecutes, MainProgress, CompletionMeansIdle
  <2>8. QED
    BY <2>2, <2>5, <2>6, <2>7
<1>2. CASE AddNotify \/ StopNotify
  <2>1. UNCHANGED shared /\ UNCHANGED current /\ (spc' = "executing" <=> spc = "executing")
    BY <1>2 DEF AddNotify, StopNotify, NotifyScheduler
  <2>2. TypeOK'
    BY <1>2 DEF AddNotify, StopNotify, NotifyScheduler, TypeOK, shared
  <2>3. QueueSubmitted' /\ CurrentExecutes' /\ Accounting'
    BY <2>1 DEF QueueSubmitted, CurrentExecutes, Accounting, shared
  <2>4. MainProgress' /\ CompletionMeansIdle'
    BY <1>0, <1>2, <2>1 DEF AddNotify, StopNotify, MainProgress, CompletionMeansIdle,
                            shared, TypeOK
  <2>5. QED
    BY <2>2, <2>3, <2>4
<1>3. CASE CompletionSeen
  <2>1. submitted_threads = Len(Submissions) /\ ~(completed_threads < submitted_threads)
    BY <1>3 DEF CompletionSeen, MainProgress
  <2>2. Cardinality(ready_queue) = 0 /\ spc # "executing"
        /\ completed_threads = Len(Submissions)
    BY <1>0, <2>1 DEF Accounting, TypeOK
  <2>3. ready_queue = {} /\ current = Nobody
    BY <1>0, <2>2, FS_EmptySet DEF CurrentExecutes
  <2>4. QED
    BY <1>3, <2>1, <2>2, <2>3
    DEF CompletionSeen, shared, TypeOK, QueueSubmitted, CurrentExecutes,
        MainProgress, Accounting, CompletionMeansIdle
<1>4. CASE StopRunning \/ Join
  BY <1>4 DEF StopRunning, Join, shared, TypeOK, QueueSubmitted, CurrentExecutes,
              MainProgress, Accounting, CompletionMeansIdle
<1>5. QED
  BY <1>1, <1>2, <1>3, <1>4 DEF MainStep

LEMMA Invariance == Spec => []IInv
<1>1. IInv /\ UNCHANGED vars => IInv'
  BY DEF IInv, vars, shared, TypeOK, QueueSubmitted, CurrentExecutes,
         MainProgress, Accounting, CompletionMeansIdle
<1>2. IInv /\ [Next]_vars => IInv'
  BY <1>1, SchedulerInv, MainInv DEF Next, Joined
<1>3. QED
  BY InitInv, <1>2, PTL DEF Spec

\* SchedulerTyped: the counters stay within the number of submissions.
THEOREM SchedulerTyped == Spec => []TypeOK
BY Invariance, PTL DEF IInv

\* NothingLostOrRepeated: what was submitted and has not completed is queued
\* or executing.
THEOREM NothingLostOrRepeated == Spec => []Accounting
BY Invariance, PTL DEF IInv

\* WaitIsSound: comparing two counters without the mutex is enough for
\* waitForCompletion: when it returns everything has run.
THEOREM WaitIsSound == Spec => []CompletionMeansIdle
BY Invariance, PTL DEF IInv
=============================================================================
