--------------------------- MODULE MCDemonstrations ---------------------------
(***************************************************************************)
(* The lock programs of MCMutexPrograms, and Peterson's algorithm, the     *)
(* monitor, the thread pool and the request queue beside them.  They are   *)
(* programs of their own: the initial state picks one, and the others stay *)
(* as they are.                                                            *)
(***************************************************************************)
EXTENDS MCMutexPrograms, Peterson, ResourceMonitor, ThreadPool, RequestQueue

VARIABLE demo         \* the program that runs

demoVars == <<demo, vars, petersonVars, monitorVars, poolVars, requestVars>>

Demos == {"locks", "peterson", "monitor", "pool", "requests"}

DemoInit ==
  /\ demo \in Demos
  /\ Init /\ (demo # "locks" => prog = Lab6Deadlock)
  /\ PetersonInit /\ (demo # "peterson" => build = "in_order")
  /\ MonitorInit /\ PoolInit /\ RequestInit

LockAct(t) ==
  /\ demo = "locks" /\ Step(t)
  /\ UNCHANGED <<demo, petersonVars, monitorVars, poolVars, requestVars>>
PetersonAct(A) ==
  /\ demo = "peterson" /\ A
  /\ UNCHANGED <<demo, vars, monitorVars, poolVars, requestVars>>
MonitorAct(A) ==
  /\ demo = "monitor" /\ A
  /\ UNCHANGED <<demo, vars, petersonVars, poolVars, requestVars>>
PoolAct(A) ==
  /\ demo = "pool" /\ A
  /\ UNCHANGED <<demo, vars, petersonVars, monitorVars, requestVars>>
RequestAct(A) ==
  /\ demo = "requests" /\ A
  /\ UNCHANGED <<demo, vars, petersonVars, monitorVars, poolVars>>

DemoNext ==
  \/ \E t \in Threads : LockAct(t)
  \/ PetersonAct(PetersonNext)
  \/ MonitorAct(MonitorNext)
  \/ PoolAct(PoolNext)
  \/ RequestAct(RequestNext)

\* Every thread that can run is scheduled, and the hardware drains its stores.
\* Spurious wakeups come to an end.  No mutex and no notification is fair.
DemoFairness ==
  /\ \A t \in Threads : WF_demoVars(LockAct(t))
  /\ \A p \in Both : /\ WF_demoVars(PetersonAct(PetersonStep(p)))
                     /\ WF_demoVars(PetersonAct(Drain(p)))
  /\ \A u \in Users : WF_demoVars(MonitorAct(MonitorStep(u)))
  /\ WF_demoVars(PoolAct(PoolMain))
  /\ \A w \in Workers : WF_demoVars(PoolAct(WorkerStep(w)))
  /\ <>[][~ \E w \in Workers : WakeSpuriously(w)]_poolVars
  /\ \A r \in Requesters : WF_demoVars(RequestAct(RequestStep(r)))

DemoSpec == DemoInit /\ [][DemoNext]_demoVars /\ DemoFairness

-----------------------------------------------------------------------------
\* How the demonstrations end.  Peterson's processes both finish, unless the
\* compiler has hoisted the reads of their loops (line 109).  The monitor ends
\* in a thread that blocks itself, always (line 434).  main of the thread pool
\* returns unless a worker has missed the end (Advanced5.cpp, line 43).  And
\* every process of starvation.cpp is served.
DemosEnd ==
  /\ demo = "peterson" /\ build # "hoisted" => <>PetersonJoined
  /\ demo = "monitor" => <>[]SelfBlocked
  /\ demo = "pool" => <>[]PoolOver
  /\ demo = "requests" => <>RequestsServed
=============================================================================
