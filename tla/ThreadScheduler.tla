--------------------------- MODULE ThreadScheduler ---------------------------
(***************************************************************************)
(* The class ThreadScheduler of Lab4/thread-scheduling-simulation.cpp and  *)
(* the part of main that uses it.  Two threads of control: main submits    *)
(* simulated threads, waits until all have completed, stops the scheduler  *)
(* and joins it; the scheduler runs the simulated threads one at a time,   *)
(* the highest priority first.                                             *)
(*                                                                         *)
(* stop() changes running without queue_mutex, so the test of the wait     *)
(* predicate and the blocking that follows it are two steps here.          *)
(***************************************************************************)
EXTENDS Integers, Sequences, FiniteSets

CONSTANTS Submissions, \* the simulated threads, in the order main adds them
          Priority,    \* the priority of each
          Nobody       \* no thread

Simulated == {Submissions[i] : i \in 1..Len(Submissions)}

ASSUME SubmissionsAssumption ==
  /\ Submissions # <<>>
  /\ Submissions \in Seq(Simulated)
  /\ \A i, j \in 1..Len(Submissions) : Submissions[i] = Submissions[j] => i = j
ASSUME PriorityAssumption == Priority \in [Simulated -> Int]
ASSUME NobodyAssumption == Nobody \notin Simulated

VARIABLES ready_queue, running, submitted_threads, completed_threads,
          queue_mutex, \* "scheduler" or "free": main holds it within one step
          current,     \* current_thread, while it executes
          spc,         \* where the scheduler is
          mpc          \* where main is

shared == <<ready_queue, running, submitted_threads, completed_threads, queue_mutex>>
vars == <<shared, current, spc, mpc>>

SchedulerPC ==
  {"top",       \* about to lock
   "testing",   \* holds the mutex, about to test the predicate of cv.wait
   "blocking",  \* found it false, still holds the mutex
   "waiting",   \* blocked, mutex released
   "woken",     \* left the wait, about to relock
   "deciding",  \* found it true, holds the mutex
   "executing", \* simulates current
   "notifying", \* has counted it, about to notify_all
   "stopped"}
MainPC ==
  {"adding", "add_notify",   \* in addThread: before the lock, after the unlock
   "completion",             \* in waitForCompletion
   "stop", "stop_notify",    \* in stop: before the store, after it
   "joining", "joined"}

Init ==
  /\ ready_queue = {}
  /\ running = TRUE
  /\ submitted_threads = 0
  /\ completed_threads = 0
  /\ queue_mutex = "free"
  /\ current = Nobody
  /\ spc = "top"
  /\ mpc = "adding"

\* notify_one and notify_all: the scheduler is the only thread that waits.
NotifyScheduler == spc' = IF spc = "waiting" THEN "woken" ELSE spc

-----------------------------------------------------------------------------
(* Mutated forms of the operations below.                                  *)

\* A simulated thread is counted when it is taken, not when it has run.
DispatchCounting ==
  /\ spc = "deciding"
  /\ ready_queue # {}
  /\ current' \in ready_queue
  /\ ready_queue' = ready_queue \ {current'}
  /\ completed_threads' = completed_threads + 1
  /\ queue_mutex' = "free"
  /\ spc' = "executing"
  /\ UNCHANGED <<running, submitted_threads, mpc>>

\* The simulated thread stays in the queue.
DispatchWithoutPop ==
  /\ spc = "deciding"
  /\ ready_queue # {}
  /\ current' \in ready_queue
  /\ queue_mutex' = "free"
  /\ spc' = "executing"
  /\ UNCHANGED <<ready_queue, running, submitted_threads, completed_threads, mpc>>

\* notify_one is left out of addThread.
AddWithoutNotify ==
  /\ mpc = "add_notify"
  /\ mpc' = IF submitted_threads < Len(Submissions) THEN "adding" ELSE "completion"
  /\ UNCHANGED <<shared, current, spc>>

\* stop does not store running.
StopWithoutStore ==
  /\ mpc = "stop"
  /\ mpc' = "stop_notify"
  /\ UNCHANGED <<shared, current, spc>>

-----------------------------------------------------------------------------
(* The scheduler.                                                          *)

\* ThreadComparator and top(): what may be on top of the priority queue.
Top(queue) == {s \in queue : \A other \in queue : Priority[other] <= Priority[s]}

LockQueue ==
  /\ spc \in {"top", "woken"}
  /\ queue_mutex = "free"
  /\ queue_mutex' = "scheduler"
  /\ spc' = "testing"
  /\ UNCHANGED <<ready_queue, running, submitted_threads, completed_threads, current, mpc>>

TestPredicate ==
  /\ spc = "testing"
  /\ spc' = IF ready_queue # {} \/ ~running THEN "deciding" ELSE "blocking"
  /\ UNCHANGED <<shared, current, mpc>>

Block ==
  /\ spc = "blocking"
  /\ queue_mutex' = "free"
  /\ spc' = "waiting"
  /\ UNCHANGED <<ready_queue, running, submitted_threads, completed_threads, current, mpc>>

SpuriousWakeup ==
  /\ spc = "waiting"
  /\ spc' = "woken"
  /\ UNCHANGED <<shared, current, mpc>>

\* break, and ~unique_lock unlocks.
Exit ==
  /\ spc = "deciding"
  /\ ~running /\ ready_queue = {}
  /\ queue_mutex' = "free"
  /\ spc' = "stopped"
  /\ UNCHANGED <<ready_queue, running, submitted_threads, completed_threads, current, mpc>>

\* top(), pop(), unlock().
Dispatch ==
  /\ spc = "deciding"
  /\ ready_queue # {}
  /\ current' \in Top(ready_queue)
  /\ ready_queue' = ready_queue \ {current'}
  /\ queue_mutex' = "free"
  /\ spc' = "executing"
  /\ UNCHANGED <<running, submitted_threads, completed_threads, mpc>>

\* The simulated execution ends: completed_threads++.
Complete ==
  /\ spc = "executing"
  /\ completed_threads' = completed_threads + 1
  /\ current' = Nobody
  /\ spc' = "notifying"
  /\ UNCHANGED <<ready_queue, running, submitted_threads, queue_mutex, mpc>>

\* cv.notify_all(): nobody but the scheduler itself ever waits on cv.
NotifyWaiters ==
  /\ spc = "notifying"
  /\ spc' = "top"
  /\ UNCHANGED <<shared, current, mpc>>

SchedulerStep ==
  \/ LockQueue \/ TestPredicate \/ Block \/ Exit
  \/ Dispatch \/ Complete \/ NotifyWaiters

-----------------------------------------------------------------------------
(* main.                                                                   *)

\* addThread up to the end of its critical section.
AddThread ==
  /\ mpc = "adding"
  /\ queue_mutex = "free"
  /\ ready_queue' = ready_queue \union {Submissions[submitted_threads + 1]}
  /\ submitted_threads' = submitted_threads + 1
  /\ mpc' = "add_notify"
  /\ UNCHANGED <<running, completed_threads, queue_mutex, current, spc>>

\* The notify_one that ends addThread.
AddNotify ==
  /\ mpc = "add_notify"
  /\ NotifyScheduler
  /\ mpc' = IF submitted_threads < Len(Submissions) THEN "adding" ELSE "completion"
  /\ UNCHANGED <<shared, current>>

\* waitForCompletion returns.
CompletionSeen ==
  /\ mpc = "completion"
  /\ ~(completed_threads < submitted_threads)
  /\ mpc' = "stop"
  /\ UNCHANGED <<shared, current, spc>>

\* stop(): the store.
StopRunning ==
  /\ mpc = "stop"
  /\ running' = FALSE
  /\ mpc' = "stop_notify"
  /\ UNCHANGED <<ready_queue, submitted_threads, completed_threads, queue_mutex, current, spc>>

\* stop(): notify_all, which a scheduler that has tested the predicate and is
\* not yet blocked does not hear.
StopNotify ==
  /\ mpc = "stop_notify"
  /\ NotifyScheduler
  /\ mpc' = "joining"
  /\ UNCHANGED <<shared, current>>

Join ==
  /\ mpc = "joining"
  /\ spc = "stopped"
  /\ mpc' = "joined"
  /\ UNCHANGED <<shared, current, spc>>

MainStep ==
  \/ AddThread \/ AddNotify \/ CompletionSeen
  \/ StopRunning \/ StopNotify \/ Join

Joined == mpc = "joined" /\ UNCHANGED vars

Next == SchedulerStep \/ MainStep \/ SpuriousWakeup \/ Joined

\* Both threads are scheduled; spurious wakeups are not relied upon: they
\* come to an end.  main gets queue_mutex although the scheduler takes it
\* again and again, since the scheduler blocks when there is nothing to run.
Spec ==
  /\ Init /\ [][Next]_vars
  /\ WF_vars(SchedulerStep) /\ WF_vars(MainStep)
  /\ <>[][~SpuriousWakeup]_vars

-----------------------------------------------------------------------------
TypeOK ==
  /\ ready_queue \subseteq Simulated
  /\ running \in BOOLEAN
  /\ submitted_threads \in 0..Len(Submissions)
  /\ completed_threads \in 0..Len(Submissions)
  /\ queue_mutex \in {"scheduler", "free"}
  /\ current \in Simulated \union {Nobody}
  /\ spc \in SchedulerPC
  /\ mpc \in MainPC

\* Accounting: what was submitted and has not completed is in the queue or
\* executing: no simulated thread is lost between queue and execution, none
\* is executed twice.
Accounting ==
  submitted_threads - completed_threads
    = Cardinality(ready_queue) + (IF spc = "executing" THEN 1 ELSE 0)

\* CompletionMeansIdle: when waitForCompletion has returned, nothing is left
\* in the queue and nothing executes.
CompletionMeansIdle ==
  mpc \in {"stop", "stop_notify", "joining", "joined"} =>
    ready_queue = {} /\ current = Nobody /\ completed_threads = Len(Submissions)

\* AllThreadsExecuted: no notification of addThread is lost: whatever the
\* scheduler is doing meanwhile, every simulated thread completes.
AllThreadsExecuted == <>(completed_threads = Len(Submissions))

\* StopHeard: once stop() has stored running, the scheduler stops, unless it
\* stands between its test and its wait at that moment.
StopHeard == (mpc = "stop_notify" /\ spc # "blocking") ~> (spc = "stopped")

\* SchedulerStops: main joins the scheduler thread ("Stop the scheduler and
\* wait for scheduler thread to finish").
SchedulerStops == <>(mpc = "joined")
=============================================================================
