------------------------------- MODULE Banker -------------------------------
(***************************************************************************)
(* The class BankersAlgorithm of Lab7/deadlock-avoidance.cpp.  main sets   *)
(* up the three matrices, then calls isSafeState and requestResources.     *)
(***************************************************************************)
EXTENDS Integers, Sequences, FiniteSets

CONSTANTS NumCustomers,  \* numProcesses
          NumResources,
          Requests,  \* the request vectors that are tried
          Scenarios  \* what main sets up: available, maximum, allocation

Customers == 0..NumCustomers - 1
Resources == 1..NumResources
Vectors == [Resources -> Nat]

ASSUME SizesAssumption == NumCustomers \in Nat /\ NumResources \in Nat
ASSUME RequestsAssumption == Requests \subseteq Vectors
Situations == [available : Vectors,
               maximum : [Customers -> Vectors],
               allocation : [Customers -> Vectors]]
\* main allocates no more than it declares as maximum.
ASSUME ScenariosAssumption ==
  /\ Scenarios \subseteq Situations
  /\ \A s \in Scenarios : \A p \in Customers : \A r \in Resources :
       s.allocation[p][r] <= s.maximum[p][r]

VARIABLES scenario,     \* history: what main set up
          available, maximum, allocation,
          answer,       \* the last call: its process, request and outcome
          safeSequence  \* what its call of isSafeState has found

bankerVars == <<scenario, available, maximum, allocation, answer, safeSequence>>

Plus(v, w)  == [r \in Resources |-> v[r] + w[r]]
Minus(v, w) == [r \in Resources |-> v[r] - w[r]]
AtMost(v, w) == \A r \in Resources : v[r] <= w[r]

BankerInit ==
  /\ scenario \in Scenarios
  /\ available = scenario.available
  /\ maximum = scenario.maximum
  /\ allocation = scenario.allocation
  /\ answer = "none"
  /\ safeSequence = <<>>

calculateNeed(alloc) == [p \in Customers |-> Minus(maximum[p], alloc[p])]

-----------------------------------------------------------------------------
(* Mutated forms of the operations below.                                  *)

\* A process that can finish is thought to give back its maximum.
VisitReturningMaximum(alloc, search, p) ==
  IF p \in search.finish \/ ~AtMost(calculateNeed(alloc)[p], search.work)
  THEN search
  ELSE [search EXCEPT !.work = Plus(@, maximum[p]),
                      !.finish = @ \union {p},
                      !.sequence = Append(@, p)]

\* The search ends with the first pass that finds nothing, successfully.
isSafeStateOptimistic(avail, alloc) ==
  [safe |-> TRUE, sequence |-> <<>>]

\* The rollback gives back the resources and forgets the allocation.
HalfRollback(p, request) ==
  /\ available' = available
  /\ allocation' = [allocation EXCEPT ![p] = Plus(@, request)]

-----------------------------------------------------------------------------
\* One step of the inner loop of isSafeState: process p finishes if it has
\* not yet and its need is covered.
Visit(alloc, search, p) ==
  IF p \in search.finish \/ ~AtMost(calculateNeed(alloc)[p], search.work)
  THEN search
  ELSE [search EXCEPT !.work = Plus(@, alloc[p]),
                      !.finish = @ \union {p},
                      !.sequence = Append(@, p)]

\* One round of the outer loop: every process is visited once, in order, and
\* the search goes on if one of them was found.
Round(alloc, search) ==
  LET Visited[n \in 0..NumCustomers] ==
        IF n = 0 THEN search ELSE Visit(alloc, Visited[n - 1], n - 1)
  IN [Visited[NumCustomers] EXCEPT !.found = Visited[NumCustomers].finish # search.finish]

\* isSafeState: NumCustomers rounds, of which none may come back with nothing
\* found, also when an earlier one has found the last process.
isSafeState(avail, alloc) ==
  LET After[n \in 0..NumCustomers] ==
        IF n = 0
        THEN [work |-> avail, finish |-> {}, sequence |-> <<>>, found |-> TRUE]
        ELSE IF After[n - 1].found THEN Round(alloc, After[n - 1])
                                   ELSE After[n - 1]
  IN [safe |-> After[NumCustomers].found, sequence |-> After[NumCustomers].sequence]

\* main's own call of isSafeState.
CheckState ==
  LET result == isSafeState(available, allocation)
  IN /\ answer' = IF result.safe THEN "safe" ELSE "unsafe"
     /\ safeSequence' = result.sequence
     /\ UNCHANGED <<scenario, available, maximum, allocation>>

ExceedsNeed(p, request) == ~AtMost(request, calculateNeed(allocation)[p])

\* requestResources turns a request down before it tries anything.
TurnDown(p, request) ==
  /\ \/ ExceedsNeed(p, request) /\ answer' = "exceeded"
     \/ /\ ~ExceedsNeed(p, request) /\ ~AtMost(request, available)
        /\ answer' = "wait"
  /\ UNCHANGED <<scenario, available, maximum, allocation, safeSequence>>

\* What the rollback of requestResources leaves.
Rollback(p, request) ==
  /\ available' = Plus(Minus(available, request), request)
  /\ allocation' = [allocation EXCEPT ![p] = Minus(Plus(@, request), request)]

\* requestResources pretends to allocate, and keeps the allocation if
\* isSafeState finds the state safe.
TryRequest(p, request) ==
  LET avail  == Minus(available, request)
      alloc  == [allocation EXCEPT ![p] = Plus(@, request)]
      result == isSafeState(avail, alloc)
  IN /\ ~ExceedsNeed(p, request) /\ AtMost(request, available)
     /\ \/ /\ result.safe
           /\ answer' = "granted"
           /\ available' = avail /\ allocation' = alloc
        \/ /\ ~result.safe
           /\ answer' = "denied"
           /\ Rollback(p, request)
     /\ safeSequence' = result.sequence
     /\ UNCHANGED <<scenario, maximum>>

BankerNext ==
  \/ CheckState
  \/ \E p \in Customers, request \in Requests :
       TurnDown(p, request) \/ TryRequest(p, request)

BankerSpec == BankerInit /\ [][BankerNext]_bankerVars

-----------------------------------------------------------------------------
BankerTypeOK ==
  /\ scenario \in Situations
  /\ available \in Vectors
  /\ maximum \in [Customers -> Vectors]
  /\ allocation \in [Customers -> Vectors]
  /\ \A p \in Customers : AtMost(allocation[p], maximum[p])
  /\ answer \in {"none", "safe", "unsafe", "exceeded", "wait", "granted", "denied"}
  /\ safeSequence \in Seq(Customers)

\* What the processes of S hold of the resource r.
Held(S, alloc, r) ==
  LET Sum[n \in 0..NumCustomers] ==
        IF n = 0 THEN 0
        ELSE Sum[n - 1] + IF n - 1 \in S THEN alloc[n - 1][r] ELSE 0
  IN Sum[NumCustomers]

\* Conserved: what is available and what the processes hold is always what
\* there was at the start, whatever is granted, denied or rolled back.
Conserved ==
  \A r \in Resources :
    available[r] + Held(Customers, allocation, r)
      = scenario.available[r] + Held(Customers, scenario.allocation, r)

\* The processes can finish in this order: each finds what it may still ask
\* for in what is available and what those before it held.
FinishInOrder(order, avail, alloc) ==
  \A i \in 1..Len(order) : \A r \in Resources :
    maximum[order[i]][r] - alloc[order[i]][r]
      <= avail[r] + Held({order[j] : j \in 1..i - 1}, alloc, r)

\* Every order of all the processes.
Orders == {order \in [1..NumCustomers -> Customers] :
             \A i, j \in 1..NumCustomers : order[i] = order[j] => i = j}

Safe(avail, alloc) == \E order \in Orders : FinishInOrder(order, avail, alloc)

\* StaysSafe: from a safe state the banker only reaches safe states: every
\* process can still get all it may ask for.
StaysSafe ==
  Safe(scenario.available, scenario.allocation) => Safe(available, allocation)

\* SequenceIsSafe: the sequence that is printed with "Request granted!" or
\* "Safe sequence" names every process, in an order in which they can finish.
SequenceIsSafe ==
  answer \in {"granted", "safe"} =>
    /\ safeSequence \in Orders
    /\ FinishInOrder(safeSequence, available, allocation)

\* SafeStateFound: isSafeState says false only when "No safe sequence exists".
SafeStateFound == answer = "unsafe" => ~Safe(available, allocation)
=============================================================================
