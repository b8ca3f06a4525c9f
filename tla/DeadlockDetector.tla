--------------------------- MODULE DeadlockDetector ---------------------------
(***************************************************************************)
(* The class DeadlockDetector of Lab7/deadlock-detection.cpp and its main: *)
(* a wait-for graph is built, a depth-first search looks for a cycle, the  *)
(* first process of the cycle is terminated, and the search is repeated.   *)
(*                                                                         *)
(* The recursion of hasCycleDFS is run step by step.  The calls in         *)
(* progress are those of the nodes of `cycle`, to which a call appends its *)
(* node first and from which it removes it last.  An adjacency list is the *)
(* set of its entries: a call comes to them in any order, whatever the     *)
(* order in which the edges were added.                                    *)
(***************************************************************************)
EXTENDS Integers, Sequences, FiniteSets

CONSTANTS NumProcesses,
          MaxEdges       \* bound on the edges there are

Processes == 0..NumProcesses - 1

ASSUME NumProcessesAssumption == NumProcesses \in Nat
ASSUME MaxEdgesAssumption == MaxEdges \in Nat

VARIABLES waitForGraph, \* the adjacency list of each process
          phase,        \* where main is
          checked,      \* the calls of detectDeadlock that main has begun
          i,            \* the loop variable of detectDeadlock
          visited, recStack, cycle,
          passed,       \* per call, the neighbors it is done with
          deadlocked    \* the result that main reads

search == <<i, visited, recStack, cycle, passed>>
vars == <<waitForGraph, phase, checked, search, deadlocked>>

Phases == {"building", "searching", "detected", "clear"}

WaitsFor(p, q) == q \in waitForGraph[p]

\* The node of the innermost call of hasCycleDFS, and the neighbors this call
\* has still to come to.
node == cycle[Len(cycle)]
NeighborsLeft == IF cycle = <<>> THEN {} ELSE waitForGraph[node] \ passed[node]

\* The local variables of detectDeadlock, and those of a call not yet made.
BeginSearch ==
  /\ i' = 0
  /\ visited' = {}
  /\ recStack' = {}
  /\ cycle' = <<>>
  /\ passed' = [p \in Processes |-> {}]

Init ==
  /\ waitForGraph = [p \in Processes |-> {}]
  /\ phase = "building"
  /\ checked = 0
  /\ i = 0 /\ visited = {} /\ recStack = {} /\ cycle = <<>>
  /\ passed = [p \in Processes |-> {}]
  /\ deadlocked = <<>>

\* hasCycleDFS(p) is called: it marks the node and puts it on the path.
Enter(p) ==
  /\ visited' = visited \union {p}
  /\ recStack' = recStack \union {p}
  /\ cycle' = Append(cycle, p)

-----------------------------------------------------------------------------
(* Mutated forms of the operations below.                                  *)

\* The search starts from process 0 only.
SkipRootAlways ==
  /\ phase = "searching" /\ cycle = <<>>
  /\ i < NumProcesses /\ visited # {}
  /\ i' = i + 1
  /\ UNCHANGED <<waitForGraph, phase, checked, visited, recStack, cycle, passed, deadlocked>>

\* The path is not trimmed to the loop.
FindCycleUntrimmed(neighbor) ==
  /\ phase = "searching"
  /\ neighbor \in NeighborsLeft /\ neighbor \in recStack
  /\ phase' = "detected"
  /\ deadlocked' = cycle
  /\ UNCHANGED <<waitForGraph, checked, search>>

-----------------------------------------------------------------------------
addWaitEdge(p, q) ==
  /\ phase = "building"
  /\ waitForGraph' = [waitForGraph EXCEPT ![p] = @ \union {q}]
  /\ UNCHANGED <<phase, checked, search, deadlocked>>

\* main calls detectDeadlock when the graph is built.
BeginDetect ==
  /\ phase = "building"
  /\ phase' = "searching"
  /\ checked' = 1
  /\ BeginSearch
  /\ UNCHANGED <<waitForGraph, deadlocked>>

\* detectDeadlock goes to the next process, and calls hasCycleDFS with it
\* unless an earlier call has visited it.
SkipRoot ==
  /\ phase = "searching" /\ cycle = <<>>
  /\ i < NumProcesses /\ i \in visited
  /\ i' = i + 1
  /\ UNCHANGED <<waitForGraph, phase, checked, visited, recStack, cycle, passed, deadlocked>>

CallRoot ==
  /\ phase = "searching" /\ cycle = <<>>
  /\ i < NumProcesses /\ i \notin visited
  /\ Enter(i)
  /\ UNCHANGED <<waitForGraph, phase, checked, i, passed, deadlocked>>

\* The loop over the neighbors calls hasCycleDFS with an unvisited one.
CallNeighbor(neighbor) ==
  /\ phase = "searching"
  /\ neighbor \in NeighborsLeft /\ neighbor \notin visited
  /\ Enter(neighbor)
  /\ passed' = [passed EXCEPT ![node] = @ \union {neighbor}]
  /\ UNCHANGED <<waitForGraph, phase, checked, i, deadlocked>>

\* A neighbor whose call has returned false is passed over.
PassNeighbor(neighbor) ==
  /\ phase = "searching"
  /\ neighbor \in NeighborsLeft /\ neighbor \in visited \ recStack
  /\ passed' = [passed EXCEPT ![node] = @ \union {neighbor}]
  /\ UNCHANGED <<waitForGraph, phase, checked, i, visited, recStack, cycle, deadlocked>>

\* A neighbor on the path closes a cycle: the path is cut before it, and all
\* calls return true.
FindCycle(neighbor) ==
  /\ phase = "searching"
  /\ neighbor \in NeighborsLeft /\ neighbor \in recStack
  /\ phase' = "detected"
  /\ \E start \in 1..Len(cycle) :
       /\ cycle[start] = neighbor
       /\ \A k \in 1..start - 1 : cycle[k] # neighbor
       /\ deadlocked' = SubSeq(cycle, start, Len(cycle))
  /\ UNCHANGED <<waitForGraph, checked, search>>

\* No neighbor is left: the call takes its node off the path and returns
\* false.
Return ==
  /\ phase = "searching"
  /\ cycle # <<>> /\ NeighborsLeft = {}
  /\ recStack' = recStack \ {node}
  /\ cycle' = SubSeq(cycle, 1, Len(cycle) - 1)
  /\ UNCHANGED <<waitForGraph, phase, checked, i, visited, passed, deadlocked>>

\* No process is left: detectDeadlock returns false.
FindNothing ==
  /\ phase = "searching" /\ cycle = <<>>
  /\ i >= NumProcesses
  /\ phase' = "clear"
  /\ UNCHANGED <<waitForGraph, checked, search, deadlocked>>

\* The graph when main has removed every edge from and to the victim.
removeWaitEdges(victim) ==
  [p \in Processes |-> IF p = victim THEN {} ELSE waitForGraph[p] \ {victim}]

\* main's recovery: all edges from and to the first deadlocked process are
\* removed, the result is cleared, and detectDeadlock is called once more.
Recover ==
  /\ phase = "detected" /\ checked = 1
  /\ waitForGraph' = removeWaitEdges(deadlocked[1])
  /\ deadlocked' = <<>>
  /\ phase' = "searching"
  /\ checked' = 2
  /\ BeginSearch

\* main returns.
Ended ==
  /\ phase = "clear" \/ (phase = "detected" /\ checked = 2)
  /\ UNCHANGED vars

SearchStep ==
  \/ SkipRoot \/ CallRoot \/ Return \/ FindNothing
  \/ \E neighbor \in Processes :
       CallNeighbor(neighbor) \/ PassNeighbor(neighbor) \/ FindCycle(neighbor)

Edges == {edge \in Processes \X Processes : WaitsFor(edge[1], edge[2])}

Next ==
  \/ \E p, q \in Processes :
       Cardinality(Edges) < MaxEdges /\ addWaitEdge(p, q)
  \/ BeginDetect \/ SearchStep \/ Recover \/ Ended

Spec == Init /\ [][Next]_vars 

-----------------------------------------------------------------------------
DetectorTypeOK ==
  /\ waitForGraph \in [Processes -> SUBSET Processes]
  /\ phase \in Phases
  /\ checked \in 0..2
  /\ i \in 0..NumProcesses
  /\ recStack \subseteq visited /\ visited \subseteq Processes
  /\ cycle \in Seq(Processes)
  /\ passed \in [Processes -> SUBSET Processes]
  /\ deadlocked \in Seq(Processes)

\* ReportedCycleIsReal: the processes of a reported deadlock wait for each
\* other in a circle, each for the next and the last for the first, and no
\* process is named twice: the part of the path before the circle is not
\* reported.
ReportedCycleIsReal ==
  phase = "detected" =>
    /\ deadlocked # <<>>
    /\ \A k \in 1..Len(deadlocked) - 1 : WaitsFor(deadlocked[k], deadlocked[k + 1])
    /\ WaitsFor(deadlocked[Len(deadlocked)], deadlocked[1])
    /\ \A j, k \in 1..Len(deadlocked) : deadlocked[j] = deadlocked[k] => j = k

\* The processes of S can only wait for each other in circles: each of them
\* waits for one of them.
Entangled(S) == S # {} /\ \A p \in S : \E q \in S : WaitsFor(p, q)

\* NoDeadlockMissed: when detectDeadlock returns false ("No deadlock
\* detected", "Deadlock resolved!") there is no cycle in the graph, although
\* every process is visited only once.
NoDeadlockMissed == phase = "clear" => ~ \E S \in SUBSET Processes : Entangled(S)
=============================================================================
