---------------------------- MODULE CPUScheduling ----------------------------
(***************************************************************************)
(* Lab4/complete-scheduling-algorithms.cpp: main runs first come first     *)
(* served, shortest job first, shortest remaining time first, round robin  *)
(* and priority scheduling one after the other, each on a fresh copy of    *)
(* the process table.  A step is one iteration of a policy's main loop.    *)
(***************************************************************************)
EXTENDS Integers, Sequences, FiniteSets, SequencesExt, FiniteSetsExt, Functions

CONSTANTS Tables,     \* the process tables: sequences of processes
          Quantum     \* main passes 2

Process(arrival, burst, prio) ==
  [arrival_time |-> arrival, burst_time |-> burst, priority |-> prio]

Processes == [arrival_time : Nat, burst_time : Nat, priority : Nat]

ASSUME CPUAssumption ==
  /\ Quantum \in Nat \ {0}
  /\ Tables \subseteq Seq(Processes) \ {<<>>}

Policies == <<"FCFS", "SJF", "SRTF", "RoundRobin", "PriorityScheduling">>

VARIABLES processes,        \* the table
          results,          \* the completion times of the policies that have ended
          current_time,
          remaining_time,
          completion_time,
          completed,        \* the processes counted as completed
          arrival_order,    \* the processes sorted by arrival time
          ready_queue,      \* of round robin
          since             \* history: when a process arrived or had its last slice

cpuVars == <<processes, results, current_time, remaining_time, completion_time,
             completed, arrival_order, ready_queue, since>>

All == DOMAIN processes
Arrival(p) == processes[p].arrival_time
Burst(p)   == processes[p].burst_time

Running(policy) == Len(results) < Len(Policies) /\ Policies[Len(results) + 1] = policy

\* What std::sort may produce: it need not keep equal elements in order.
ArrivalOrders(t) ==
  {s \in SetToSeqs(DOMAIN t) :
     \A i \in 1..Len(s) - 1 : t[s[i]].arrival_time <= t[s[i + 1]].arrival_time}

\* Round robin starts with the first process, if it is there.
FirstInQueue(t, order) ==
  IF t[order[1]].arrival_time = 0 THEN <<order[1]>> ELSE <<>>

\* A policy's locals, on a fresh copy of the table.
StartPolicy(t) ==
  /\ current_time' = 0
  /\ remaining_time' = [p \in DOMAIN t |-> t[p].burst_time]
  /\ completion_time' = [p \in DOMAIN t |-> 0]
  /\ completed' = {}
  /\ \E order \in ArrivalOrders(t) :
       arrival_order' = order /\ ready_queue' = FirstInQueue(t, order)
  /\ since' = [p \in DOMAIN t |-> t[p].arrival_time]

CPUInit ==
  /\ processes \in Tables
  /\ results = <<>>
  /\ current_time = 0
  /\ remaining_time = [p \in All |-> Burst(p)]
  /\ completion_time = [p \in All |-> 0]
  /\ completed = {}
  /\ arrival_order \in ArrivalOrders(processes)
  /\ ready_queue = FirstInQueue(processes, arrival_order)
  /\ since = [p \in All |-> Arrival(p)]

\* The loop of a policy ends, and main calls the next one.
EndPolicy ==
  /\ completed = All
  /\ Len(results) < Len(Policies)
  /\ results' = Append(results, completion_time)
  /\ StartPolicy(processes)
  /\ UNCHANGED processes

-----------------------------------------------------------------------------
(* Mutated forms of the operations below.                                  *)

\* A process is served before it has arrived.
StartUnarrived(p) == current_time

\* The preemptive policy looks at whole bursts.
ShortestByBurst(S) ==
  CHOOSE p \in S : \A q \in S : Burst(p) < Burst(q) \/ (Burst(p) = Burst(q) /\ p <= q)

\* A process that has used up its slice goes ahead of those that have come.
CurrentFirst(rest, arrived, p, unfinished) ==
  rest \o (IF unfinished THEN <<p>> ELSE <<>>) \o arrived

\* A process that has used up its slice is not put back.
CurrentForgotten(rest, arrived, p, unfinished) == rest \o arrived

-----------------------------------------------------------------------------
\* The process in S with the least key, and the first of several.
Least(S, key(_)) ==
  CHOOSE p \in S : \A q \in S : key(p) < key(q) \/ (key(p) = key(q) /\ p <= q)

Present == {p \in All \ completed : Arrival(p) <= current_time}

\* Process p runs from `start` to its end.
RunToEnd(p, start) ==
  /\ current_time' = start + Burst(p)
  /\ completion_time' = [completion_time EXCEPT ![p] = start + Burst(p)]
  /\ completed' = completed \union {p}
  /\ UNCHANGED <<processes, results, remaining_time, arrival_order, ready_queue, since>>

StartTime(p) == Max({current_time, Arrival(p)})

FCFS ==
  /\ Running("FCFS")
  /\ completed # All
  /\ LET p == arrival_order[Cardinality(completed) + 1]
     IN RunToEnd(p, StartTime(p))

SJF ==
  /\ Running("SJF")
  /\ Present # {}
  /\ RunToEnd(Least(Present, Burst), current_time)

PriorityScheduling ==
  /\ Running("PriorityScheduling")
  /\ Present # {}
  /\ RunToEnd(Least(Present, LAMBDA p : processes[p].priority), current_time)

\* What the preemptive policy chooses from.
Unfinished == {p \in Present : remaining_time[p] > 0}
Shortest(S) == Least(S, LAMBDA p : remaining_time[p])

\* One unit of time.  Only who gets down to 0 here is counted as completed: a
\* process whose burst time is 0 never is, and the loop does not end.
SRTF ==
  /\ Running("SRTF")
  /\ Unfinished # {}
  /\ LET p == Shortest(Unfinished)
         ends == remaining_time[p] = 1
     IN /\ remaining_time' = [remaining_time EXCEPT ![p] = @ - 1]
        /\ current_time' = current_time + 1
        /\ completed' = IF ends THEN completed \union {p} ELSE completed
        /\ completion_time' =
             IF ends THEN [completion_time EXCEPT ![p] = current_time + 1]
             ELSE completion_time
  /\ UNCHANGED <<processes, results, arrival_order, ready_queue, since>>

\* Nobody is there: the clock advances.  The bound leaves out the clock of an
\* SRTF that goes on with nobody left to come.
Tick ==
  /\ \/ (Running("SJF") \/ Running("PriorityScheduling")) /\ Present = {}
     \/ Running("SRTF") /\ Unfinished = {}
  /\ \E p \in All : Arrival(p) > current_time
  /\ current_time' = current_time + 1
  /\ UNCHANGED <<processes, results, remaining_time, completion_time, completed,
                 arrival_order, ready_queue, since>>

\* Who came during the slice goes ahead of the process that had it.
Requeue(rest, arrived, p, unfinished) ==
  rest \o arrived \o (IF unfinished THEN <<p>> ELSE <<>>)

\* The processes in S, as a loop over the arrival order finds them.
InOrder(order, S) ==
  LET Found[n \in 0..Len(order)] ==
        IF n = 0 THEN <<>>
        ELSE IF order[n] \in S THEN Append(Found[n - 1], order[n])
        ELSE Found[n - 1]
  IN Found[Len(order)]

\* One slice.  With an empty queue the clock jumps to the next arrival.  (When
\* none is left either, the loop breaks off: no table in which that happens
\* gets past SRTF.)
RoundRobin ==
  /\ Running("RoundRobin")
  /\ completed # All
  /\ LET Coming == {i \in DOMAIN arrival_order :
                      /\ remaining_time[arrival_order[i]] > 0
                      /\ Arrival(arrival_order[i]) > current_time}
         idle == ready_queue = <<>>
         p == IF idle THEN arrival_order[Min(Coming)] ELSE Head(ready_queue)
         rest == IF idle THEN <<>> ELSE Tail(ready_queue)
         exec_time == Min({Quantum, remaining_time[p]})
         end == (IF idle THEN Arrival(p) ELSE current_time) + exec_time
         arrived == InOrder(arrival_order,
                            {q \in All \ (ToSet(rest) \union {p}) :
                               remaining_time[q] > 0 /\ Arrival(q) <= end})
         unfinished == remaining_time[p] > exec_time
     IN /\ idle => Coming # {}
        /\ current_time' = end
        /\ remaining_time' = [remaining_time EXCEPT ![p] = @ - exec_time]
        /\ ready_queue' = Requeue(rest, arrived, p, unfinished)
        /\ since' = [since EXCEPT ![p] = end]
        /\ completed' = IF unfinished THEN completed ELSE completed \union {p}
        /\ completion_time' =
             IF unfinished THEN completion_time ELSE [completion_time EXCEPT ![p] = end]
  /\ UNCHANGED <<processes, results, arrival_order>>

CPUNext ==
  FCFS \/ SJF \/ SRTF \/ RoundRobin \/ PriorityScheduling \/ Tick \/ EndPolicy

CPUSpec == CPUInit /\ [][CPUNext]_cpuVars /\ WF_cpuVars(CPUNext)

-----------------------------------------------------------------------------
Bursts == [p \in All |-> Burst(p)]

\* The times C are those of one CPU that is never idle while somebody is
\* there: no interval has to hold more work than it is long, and the last
\* process ends when the work that comes from some arrival on, done without a
\* break, does.
IsReal(C) ==
  /\ \A p \in All : C[p] >= Arrival(p) + Burst(p)
  /\ \A a \in {Arrival(p) : p \in All}, c \in {C[p] : p \in All} :
       a <= c =>
         SumFunctionOnSet(Bursts, {p \in All : a <= Arrival(p) /\ C[p] <= c}) <= c - a
  /\ Max({C[p] : p \in All}) =
       Max({Arrival(p) + SumFunctionOnSet(Bursts, {q \in All : Arrival(p) <= Arrival(q)}) :
              p \in All})

\* Every policy reports completion times that a CPU could have produced (the
\* loops of lines 82-90, 100-125, 140-166, 198-240 and 250-277).
SchedulesAreReal == \A k \in DOMAIN results : IsReal(results[k])

\* Shortest remaining time first makes the processes wait least: no other
\* policy of the program has a smaller sum of waiting times (lines 129-167).
SRTFWaitsLeast ==
  LET Waiting(k) ==
        SumFunction([p \in All |-> results[k][p] - Arrival(p) - Burst(p)])
  IN \A k \in DOMAIN results : Len(results) >= 3 => Waiting(3) <= Waiting(k)

\* Round robin starves nobody: a process that is there and unfinished has
\* waited at most one quantum for each other process, since it came or since
\* its last slice (lines 198-240).
TurnWithin ==
  Running("RoundRobin") =>
    \A p \in Present :
      current_time - since[p] <= (Cardinality(All) - 1) * Quantum

Printed == Len(results) = Len(Policies)

\* main prints all five tables if and only if every process has something to
\* do: with a burst time of 0, SRTF counts for ever (line 140).
EndsUnlessEmptyBurst ==
  /\ (\A p \in All : Burst(p) > 0) => <>Printed
  /\ (\E p \in All : Burst(p) = 0) => []~Printed
=============================================================================
