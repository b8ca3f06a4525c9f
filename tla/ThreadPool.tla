------------------------------ MODULE ThreadPool ------------------------------
(***************************************************************************)
(* The thread pool of Lab3/Advanced5.cpp.  A worker tests done without the *)
(* mutex at the top of its loop, and once more with it in the predicate of *)
(* its wait; main stores done and notifies without the mutex.              *)
(***************************************************************************)
EXTENDS Integers, Sequences, FiniteSets, SequencesExt

CONSTANTS Workers,
          NumTasks

NoWorker == "none"
ASSUME PoolAssumption ==
  /\ NumTasks \in Nat
  /\ IsFiniteSet(Workers) /\ NoWorker \notin Workers

VARIABLES tasks,       \* the queue: numbers of tasks
          done,
          mtx,         \* its owner
          doing,       \* where a worker is
          task,        \* what it has taken from the queue, or 0
          executed,    \* history: the tasks that have been executed, in order
          mainAt, added,
          missed       \* history: who stood between test and wait at notify_all

poolVars == <<tasks, done, mtx, doing, task, executed, mainAt, added, missed>>

PoolInit ==
  /\ tasks = <<>> /\ done = FALSE /\ mtx = NoWorker
  /\ doing = [w \in Workers |-> "loop"]
  /\ task = [w \in Workers |-> 0]
  /\ executed = <<>>
  /\ mainAt = "adding" /\ added = 0 /\ missed = {}

Asleep == {w \in Workers : doing[w] = "asleep"}

Does(w, what) == doing' = [doing EXCEPT ![w] = what]

-----------------------------------------------------------------------------
(* Mutated forms of the operations below.                                  *)

\* main wakes one worker at the end.
NotifiedAtEndOne == IF Asleep = {} THEN {} ELSE {CHOOSE w \in Asleep : TRUE}

\* A worker is woken only for the first task in the queue.
NotifiedIfFirst == IF tasks = <<>> THEN {{w} : w \in Asleep} \union {{}} ELSE {{}}

-----------------------------------------------------------------------------
(* The workers.                                                            *)

\* while (!done)
TestDone(w) ==
  /\ doing[w] = "loop"
  /\ Does(w, IF done THEN "ended" ELSE "locking")
  /\ UNCHANGED <<tasks, done, mtx, task, executed, mainAt, added, missed>>

\* At first, and after each wakeup.
LockQueue(w) ==
  /\ doing[w] = "locking" /\ mtx = NoWorker
  /\ mtx' = w
  /\ Does(w, "testing")
  /\ UNCHANGED <<tasks, done, task, executed, mainAt, added, missed>>

TakeTask(w) ==
  /\ doing[w] = "testing" /\ tasks # <<>>
  /\ task' = [task EXCEPT ![w] = Head(tasks)]
  /\ tasks' = Tail(tasks)
  /\ mtx' = NoWorker
  /\ Does(w, "executing")
  /\ UNCHANGED <<done, executed, mainAt, added, missed>>

\* if (done && tasks.empty()) break
LeaveLoop(w) ==
  /\ doing[w] = "testing" /\ tasks = <<>> /\ done
  /\ mtx' = NoWorker
  /\ Does(w, "ended")
  /\ UNCHANGED <<tasks, done, task, executed, mainAt, added, missed>>

PredicateFalse(w) ==
  /\ doing[w] = "testing" /\ tasks = <<>> /\ ~done
  /\ Does(w, "blocking")
  /\ UNCHANGED <<tasks, done, mtx, task, executed, mainAt, added, missed>>

FallAsleep(w) ==
  /\ doing[w] = "blocking"
  /\ mtx' = NoWorker
  /\ Does(w, "asleep")
  /\ UNCHANGED <<tasks, done, task, executed, mainAt, added, missed>>

WakeSpuriously(w) ==
  /\ doing[w] = "asleep"
  /\ Does(w, "locking")
  /\ UNCHANGED <<tasks, done, mtx, task, executed, mainAt, added, missed>>

Execute(w) ==
  /\ doing[w] = "executing"
  /\ executed' = Append(executed, task[w])
  /\ task' = [task EXCEPT ![w] = 0]
  /\ Does(w, "loop")
  /\ UNCHANGED <<tasks, done, mtx, mainAt, added, missed>>

WorkerStep(w) ==
  \/ TestDone(w) \/ LockQueue(w) \/ TakeTask(w) \/ LeaveLoop(w)
  \/ PredicateFalse(w) \/ FallAsleep(w) \/ Execute(w)

-----------------------------------------------------------------------------
(* main.                                                                   *)

\* The sets of workers that notify_one and notify_all may wake.
NotifiedForTask == IF Asleep = {} THEN {{}} ELSE {{w} : w \in Asleep}
NotifiedAtEnd == Asleep

Wake(S) == doing' = [w \in Workers |-> IF w \in S THEN "locking" ELSE doing[w]]

\* One iteration: push and notify_one under the mutex.
AddTask ==
  /\ mainAt = "adding" /\ added < NumTasks /\ mtx = NoWorker
  /\ added' = added + 1
  /\ tasks' = Append(tasks, added')
  /\ \E S \in NotifiedForTask : Wake(S)
  /\ UNCHANGED <<done, mtx, task, executed, mainAt, missed>>

\* How long main sleeps before it does this decides nothing.
StoreDone ==
  /\ mainAt = "adding" /\ added = NumTasks
  /\ done' = TRUE
  /\ mainAt' = "notifying"
  /\ UNCHANGED <<tasks, mtx, doing, task, executed, added, missed>>

NotifyEnd ==
  /\ mainAt = "notifying"
  /\ Wake(NotifiedAtEnd)
  /\ missed' = {w \in Workers : doing[w] = "blocking"}
  /\ mainAt' = "joining"
  /\ UNCHANGED <<tasks, done, mtx, task, executed, added>>

JoinWorkers ==
  /\ mainAt = "joining"
  /\ \A w \in Workers : doing[w] = "ended"
  /\ mainAt' = "returned"
  /\ UNCHANGED <<tasks, done, mtx, doing, task, executed, added, missed>>

PoolMain == AddTask \/ StoreDone \/ NotifyEnd \/ JoinWorkers

PoolNext == PoolMain \/ \E w \in Workers : WorkerStep(w) \/ WakeSpuriously(w)

PoolSpec == PoolInit /\ [][PoolNext]_poolVars

-----------------------------------------------------------------------------
InHand == {task[w] : w \in Workers} \ {0}

\* Each task is in the queue, in the hands of one worker or executed, once; and
\* while some workers sleep, every task in the queue has another worker that
\* will look for one, whoever notify_one wakes and whoever comes first.  (Once
\* done is stored, the workers may end and leave tasks in the queue.)
PoolLosesNothing ==
  /\ ToSet(tasks) \union InHand \union ToSet(executed) = 1..added
  /\ Len(tasks) + Cardinality({w \in Workers : task[w] # 0}) + Len(executed) = added
  /\ Asleep # {} /\ ~done =>
       Len(tasks) <= Cardinality({w \in Workers : doing[w] \notin {"asleep", "blocking"}})

\* main has returned, or waits for a worker that has missed the end.
PoolOver ==
  \/ mainAt = "returned"
  \/ \E w \in missed : doing[w] = "asleep"
=============================================================================
