---------------------------- MODULE MultiProcessor ----------------------------
(***************************************************************************)
(* The classes CPUCore and MultiProcessorScheduler of                      *)
(* Lab4/multi-processor-scheduling-simulation.cpp and the part of main     *)
(* that uses them: a thread per core that takes tasks from its own queue,  *)
(* from the global queue or from another core, a load balancer that moves  *)
(* tasks between cores, and main, which adds the tasks, waits until they   *)
(* have run, stops the threads and joins them.                             *)
(*                                                                         *)
(* Each queue has its mutex, held for one operation: an operation is one   *)
(* step.  Nothing is held between operations, so what a thread has read of *)
(* a queue may be out of date when it uses it.                             *)
(***************************************************************************)
EXTENDS Integers, Sequences, FiniteSets

CONSTANTS NumCores,               \* num_cores
          Tasks,                  \* the tasks, in the order main adds them
          Affinities,             \* possible values of preferred_cpu
          LOAD_BALANCE_THRESHOLD,
          NoTask

Cores == 0..NumCores - 1
NoCore == -1
Everything == {Tasks[i] : i \in 1..Len(Tasks)}

ASSUME NumCoresAssumption == NumCores \in Nat \ {0}
ASSUME TasksAssumption ==
  /\ Tasks \in Seq(Everything)
  /\ \A i, j \in 1..Len(Tasks) : Tasks[i] = Tasks[j] => i = j
  /\ NoTask \notin Everything
ASSUME AffinitiesAssumption == Affinities \subseteq [Everything -> Cores \union {NoCore}]
ASSUME ThresholdAssumption == LOAD_BALANCE_THRESHOLD \in Nat

VARIABLES preferred_cpu,
          local_queue, global_queue,
          running, active_tasks, completed_tasks,
          added,    \* how many tasks main has put in a queue
          executed, \* history: the tasks whose executeTask has slept its burst
          mpc,      \* where main is
          pc,       \* where the thread of each core is
          task,     \* current_task, while a core has one
          look,     \* the locals of workStealing in each core
          bpc,      \* where the load balancer is
          balance,  \* its locals
          migrated  \* the task it has taken from a queue

queues   == <<local_queue, global_queue>>
counters == <<running, active_tasks, completed_tasks>>
main     == <<added, mpc>>
threads  == <<pc, task, look, executed>>
balancer == <<bpc, balance, migrated>>
vars == <<preferred_cpu, queues, counters, main, threads, balancer>>

CorePC == {"test", "local", "global", "scan", "rescan", "steal",
           "executing", "counting", "stopped"}
MainPC == {"adding", "count", "waiting", "stop", "joining", "joined"}
BalancerPC == {"test", "scan", "migrate", "put", "stopped"}

\* max_load, victim_core and the loop variable before the loop of workStealing.
NoLook == [i |-> 0, max_load |-> 0, victim |-> NoCore]

\* The locals of the balancer before its loop; min_load starts at INT_MAX,
\* which here is the load of no core.
NoBalance == [i |-> 0, max_load |-> 0, max_core |-> NoCore,
              min_load |-> Len(Tasks) + 1, min_core |-> NoCore]

Init ==
  /\ preferred_cpu \in Affinities
  /\ local_queue = [c \in Cores |-> <<>>] /\ global_queue = <<>>
  /\ running = TRUE /\ active_tasks = 0 /\ completed_tasks = 0
  /\ added = 0 /\ mpc = IF Tasks = <<>> THEN "waiting" ELSE "adding"
  /\ pc = [c \in Cores |-> "test"]
  /\ task = [c \in Cores |-> NoTask]
  /\ look = [c \in Cores |-> NoLook] /\ executed = {}
  /\ bpc = "test" /\ balance = NoBalance /\ migrated = NoTask

Goto(c, label) == pc' = [pc EXCEPT ![c] = label]

-----------------------------------------------------------------------------
(* Mutated forms of the operations below.                                  *)

\* The task is counted before it runs, where it is taken.
TakeLocalCounting(c) ==
  /\ pc[c] = "local"
  /\ local_queue[c] # <<>>
  /\ task' = [task EXCEPT ![c] = Head(local_queue[c])]
  /\ local_queue' = [local_queue EXCEPT ![c] = Tail(@)]
  /\ active_tasks' = active_tasks - 1
  /\ Goto(c, "executing")
  /\ UNCHANGED <<preferred_cpu, global_queue, running, completed_tasks, main, look, executed, balancer>>

\* The balancer copies the task and leaves it in its queue.
MigrateTakeCopying ==
  /\ bpc = "migrate"
  /\ local_queue[balance.max_core] # <<>>
  /\ migrated' = Head(local_queue[balance.max_core])
  /\ bpc' = "put"
  /\ UNCHANGED <<preferred_cpu, queues, counters, main, threads, balance>>

\* active_tasks is not counted down.
FinishUncounted(c) ==
  /\ pc[c] = "executing"
  /\ executed' = executed \union {task[c]}
  /\ task' = [task EXCEPT ![c] = NoTask]
  /\ Goto(c, "counting")
  /\ UNCHANGED <<preferred_cpu, queues, counters, main, look, balancer>>

-----------------------------------------------------------------------------
(* cpuScheduler.                                                           *)

\* while (running || active_tasks > 0): running is never set again, so the
\* two loads are one step.
KeepRunning(c) ==
  /\ pc[c] = "test"
  /\ Goto(c, IF running \/ active_tasks > 0 THEN "local" ELSE "stopped")
  /\ UNCHANGED <<preferred_cpu, queues, counters, main, task, look, executed, balancer>>

\* cores[c]->getTask
TakeLocal(c) ==
  /\ pc[c] = "local"
  /\ local_queue[c] # <<>>
  /\ task' = [task EXCEPT ![c] = Head(local_queue[c])]
  /\ local_queue' = [local_queue EXCEPT ![c] = Tail(@)]
  /\ Goto(c, "executing")
  /\ UNCHANGED <<preferred_cpu, global_queue, counters, main, look, executed, balancer>>

NoLocal(c) ==
  /\ pc[c] = "local"
  /\ local_queue[c] = <<>>
  /\ Goto(c, "global")
  /\ UNCHANGED <<preferred_cpu, queues, counters, main, task, look, executed, balancer>>

TakeGlobal(c) ==
  /\ pc[c] = "global"
  /\ global_queue # <<>>
  /\ task' = [task EXCEPT ![c] = Head(global_queue)]
  /\ global_queue' = Tail(global_queue)
  /\ Goto(c, "executing")
  /\ UNCHANGED <<preferred_cpu, local_queue, counters, main, look, executed, balancer>>

NoGlobal(c) ==
  /\ pc[c] = "global"
  /\ global_queue = <<>>
  /\ Goto(c, "scan")
  /\ UNCHANGED <<preferred_cpu, queues, counters, main, task, look, executed, balancer>>

\* workStealing: getQueueSize of the next core is compared with the greatest
\* so far; a core that is more loaded is asked for its size once more.
Scan(c) ==
  LET i == look[c].i
      candidate == /\ i # c
                   /\ Len(local_queue[i]) > look[c].max_load + LOAD_BALANCE_THRESHOLD
  IN /\ pc[c] = "scan"
     /\ i < NumCores
     /\ IF candidate
        THEN Goto(c, "rescan") /\ UNCHANGED look
        ELSE look' = [look EXCEPT ![c].i = i + 1] /\ UNCHANGED pc
     /\ UNCHANGED <<preferred_cpu, queues, counters, main, task, executed, balancer>>

Rescan(c) ==
  /\ pc[c] = "rescan"
  /\ look' = [look EXCEPT ![c] =
       [i |-> @.i + 1, max_load |-> Len(local_queue[@.i]), victim |-> @.i]]
  /\ Goto(c, "scan")
  /\ UNCHANGED <<preferred_cpu, queues, counters, main, task, executed, balancer>>

ScanEnds(c) ==
  /\ pc[c] = "scan"
  /\ look[c].i = NumCores
  /\ Goto(c, "steal")
  /\ UNCHANGED <<preferred_cpu, queues, counters, main, task, look, executed, balancer>>

\* getTask of the victim, whose queue may have changed since.
Steal(c) ==
  LET victim == look[c].victim
  IN /\ pc[c] = "steal"
     /\ victim # NoCore
     /\ local_queue[victim] # <<>>
     /\ task' = [task EXCEPT ![c] = Head(local_queue[victim])]
     /\ local_queue' = [local_queue EXCEPT ![victim] = Tail(@)]
     /\ look' = [look EXCEPT ![c] = NoLook]
     /\ Goto(c, "executing")
     /\ UNCHANGED <<preferred_cpu, global_queue, counters, main, executed, balancer>>

StealNothing(c) ==
  /\ pc[c] = "steal"
  /\ look[c].victim # NoCore => local_queue[look[c].victim] = <<>>
  /\ look' = [look EXCEPT ![c] = NoLook]
  /\ Goto(c, "test")
  /\ UNCHANGED <<preferred_cpu, queues, counters, main, task, executed, balancer>>

\* executeTask ends: active_tasks--, and then completed_tasks++.
Finish(c) ==
  /\ pc[c] = "executing"
  /\ active_tasks' = active_tasks - 1
  /\ executed' = executed \union {task[c]}
  /\ task' = [task EXCEPT ![c] = NoTask]
  /\ Goto(c, "counting")
  /\ UNCHANGED <<preferred_cpu, queues, running, completed_tasks, main, look, balancer>>

CountCompleted(c) ==
  /\ pc[c] = "counting"
  /\ completed_tasks' = completed_tasks + 1
  /\ Goto(c, "test")
  /\ UNCHANGED <<preferred_cpu, queues, running, active_tasks, main, task, look, executed, balancer>>

CoreStep(c) ==
  \/ KeepRunning(c) \/ TakeLocal(c) \/ NoLocal(c) \/ TakeGlobal(c) \/ NoGlobal(c)
  \/ Scan(c) \/ Rescan(c) \/ ScanEnds(c) \/ Steal(c) \/ StealNothing(c)
  \/ Finish(c) \/ CountCompleted(c)

-----------------------------------------------------------------------------
(* loadBalancer.                                                           *)

BalancerTest ==
  /\ bpc = "test"
  /\ bpc' = IF running THEN "scan" ELSE "stopped"
  /\ UNCHANGED <<preferred_cpu, queues, counters, main, threads, balance, migrated>>

\* getQueueSize of the next core, for the smallest and for the greatest.
BalancerScan ==
  LET i == balance.i
      load == Len(local_queue[i])
      less == load < balance.min_load
      more == load > balance.max_load
  IN /\ bpc = "scan"
     /\ i < NumCores
     /\ balance' = [i |-> i + 1,
                    min_load |-> IF less THEN load ELSE balance.min_load,
                    min_core |-> IF less THEN i ELSE balance.min_core,
                    max_load |-> IF more THEN load ELSE balance.max_load,
                    max_core |-> IF more THEN i ELSE balance.max_core]
     /\ UNCHANGED <<preferred_cpu, queues, counters, main, threads, bpc, migrated>>

BalancerDecides ==
  /\ bpc = "scan"
  /\ balance.i = NumCores
  /\ \/ /\ balance.max_load - balance.min_load > LOAD_BALANCE_THRESHOLD
        /\ bpc' = "migrate"
        /\ UNCHANGED balance
     \/ /\ balance.max_load - balance.min_load <= LOAD_BALANCE_THRESHOLD
        /\ bpc' = "test"
        /\ balance' = NoBalance
  /\ UNCHANGED <<preferred_cpu, queues, counters, main, threads, migrated>>

\* getTask of the most loaded core; the task is then in no queue.
MigrateTake ==
  /\ bpc = "migrate"
  /\ local_queue[balance.max_core] # <<>>
  /\ migrated' = Head(local_queue[balance.max_core])
  /\ local_queue' = [local_queue EXCEPT ![balance.max_core] = Tail(@)]
  /\ bpc' = "put"
  /\ UNCHANGED <<preferred_cpu, global_queue, counters, main, threads, balance>>

MigrateNothing ==
  /\ bpc = "migrate"
  /\ local_queue[balance.max_core] = <<>>
  /\ bpc' = "test"
  /\ balance' = NoBalance
  /\ UNCHANGED <<preferred_cpu, queues, counters, main, threads, migrated>>

\* addTask of the least loaded core.
MigratePut ==
  /\ bpc = "put"
  /\ local_queue' = [local_queue EXCEPT ![balance.min_core] = Append(@, migrated)]
  /\ migrated' = NoTask
  /\ bpc' = "test"
  /\ balance' = NoBalance
  /\ UNCHANGED <<preferred_cpu, global_queue, counters, main, threads>>

BalancerStep ==
  \/ BalancerTest \/ BalancerScan \/ BalancerDecides
  \/ MigrateTake \/ MigrateNothing \/ MigratePut

-----------------------------------------------------------------------------
(* main.                                                                   *)

\* addTask up to the end of its critical section.
AddTask ==
  LET t == Tasks[added + 1]
      cpu == preferred_cpu[t]
  IN /\ mpc = "adding"
     /\ \/ /\ cpu \in Cores
           /\ local_queue' = [local_queue EXCEPT ![cpu] = Append(@, t)]
           /\ UNCHANGED global_queue
        \/ /\ cpu \notin Cores
           /\ global_queue' = Append(global_queue, t)
           /\ UNCHANGED local_queue
     /\ added' = added + 1
     /\ mpc' = "count"
     /\ UNCHANGED <<preferred_cpu, counters, threads, balancer>>

\* active_tasks++: the task may have run already.  Nobody waits on cv, so
\* that notify_all has no effect.
CountActive ==
  /\ mpc = "count"
  /\ active_tasks' = active_tasks + 1
  /\ mpc' = IF added < Len(Tasks) THEN "adding" ELSE "waiting"
  /\ UNCHANGED <<preferred_cpu, queues, running, completed_tasks, added, threads, balancer>>

\* waitForCompletion returns.
CompletionSeen ==
  /\ mpc = "waiting"
  /\ ~(active_tasks > 0)
  /\ mpc' = "stop"
  /\ UNCHANGED <<preferred_cpu, queues, counters, added, threads, balancer>>

Stop ==
  /\ mpc = "stop"
  /\ running' = FALSE
  /\ mpc' = "joining"
  /\ UNCHANGED <<preferred_cpu, queues, active_tasks, completed_tasks, added, threads, balancer>>

Join ==
  /\ mpc = "joining"
  /\ bpc = "stopped" /\ \A c \in Cores : pc[c] = "stopped"
  /\ mpc' = "joined"
  /\ UNCHANGED <<preferred_cpu, queues, counters, added, threads, balancer>>

MainStep == AddTask \/ CountActive \/ CompletionSeen \/ Stop \/ Join

Joined == mpc = "joined" /\ UNCHANGED vars

Next == (\E c \in Cores : CoreStep(c)) \/ BalancerStep \/ MainStep \/ Joined

\* Every thread is scheduled.
Spec ==
  /\ Init /\ [][Next]_vars
  /\ \A c \in Cores : WF_vars(CoreStep(c))
  /\ WF_vars(BalancerStep) /\ WF_vars(MainStep)

-----------------------------------------------------------------------------
TypeOK ==
  /\ preferred_cpu \in Affinities
  /\ local_queue \in [Cores -> Seq(Everything)]
  /\ global_queue \in Seq(Everything)
  /\ running \in BOOLEAN
  /\ active_tasks \in -1..Len(Tasks) /\ completed_tasks \in 0..Len(Tasks)
  /\ added \in 0..Len(Tasks)
  /\ mpc \in MainPC
  /\ pc \in [Cores -> CorePC]
  /\ task \in [Cores -> Everything \union {NoTask}]
  /\ look \in [Cores -> [i : 0..NumCores, max_load : 0..Len(Tasks),
                         victim : Cores \union {NoCore}]]
  /\ bpc \in BalancerPC
  /\ balance \in [i : 0..NumCores,
                  max_load : 0..Len(Tasks), max_core : Cores \union {NoCore},
                  min_load : 0..Len(Tasks) + 1, min_core : Cores \union {NoCore}]
  /\ migrated \in Everything \union {NoTask}
  /\ executed \subseteq Everything

\* The places that hold the task t: positions of the queues, cores that
\* execute it, the balancer's migrated_task.
Places(t) ==
  (UNION {{<<"local", c, i>> : i \in {j \in DOMAIN local_queue[c] : local_queue[c][j] = t}} :
            c \in Cores})
  \union {<<"global", i>> : i \in {j \in DOMAIN global_queue : global_queue[j] = t}}
  \union {<<"core", c>> : c \in {d \in Cores : task[d] = t}}
  \union {<<"balancer">> : m \in {migrated} \intersect {t}}

\* However the cores, the thieves and the balancer interleave, a task that
\* main has added is in one place until it has been executed, and in none
\* afterwards: none is lost when two of them want it, and none runs twice.
EachTaskOnce ==
  \A n \in 1..Len(Tasks) :
    LET t == Tasks[n]
    IN Cardinality(Places(t)) = (IF n <= added /\ t \notin executed THEN 1 ELSE 0)

\* When waitForCompletion returns, and ever after, every task has been
\* executed: the counter it polls never reaches zero early, although a core
\* may finish a task before addTask has counted it.  completed_tasks, which
\* displayStats prints, may lag behind by the cores between their two counters.
CompletionMeansExecuted ==
  mpc \in {"stop", "joining", "joined"} =>
    /\ executed = Everything
    /\ completed_tasks + Cardinality({c \in Cores : pc[c] = "counting"}) = Len(Tasks)

\* main sees the tasks completed, and the threads it then stops end, so that
\* the joins at the end of main return: the balancer and the thieves do not
\* pass a task round for ever.
ThreadsEnd == <>(mpc = "joined")

=============================================================================
