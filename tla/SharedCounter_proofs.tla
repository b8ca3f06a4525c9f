------------------------- MODULE SharedCounter_proofs -------------------------
(***************************************************************************)
(* Proofs about the disciplines of SharedCounter, for any threads, any     *)
(* number of rounds and any amounts.                                       *)
(***************************************************************************)
EXTENDS SharedCounter, TLAPS

\* What makes NothingLost inductive: a thread is alone between lock and
\* unlock, so that what it loaded is still there when it stores.
Fresh == Locked => \A t \in Threads : pc[t] = "store" => reg[t] = shared

\* A thread in the middle of an update has a round to make.
RoundLeft == \A t \in Threads : pc[t] \in {"load", "store"} => round[t] < Rounds

IInv == TypeOK /\ RoundLeft /\ Exclusive /\ Fresh /\ NothingLost

\* The value an update makes is a natural number.
LEMMA UpdatedType ==
  ASSUME TypeOK, NEW t \in Threads, NEW v \in Nat
  PROVE  Updated(t, v) \in Nat
<1>1. case.adds[t] \in Int
  BY CasesAssumption DEF TypeOK
<1>2. QED
  BY <1>1 DEF Updated

LEMMA InitInv == Init => IInv
<1> SUFFICES ASSUME Init PROVE IInv
    OBVIOUS
<1>1. case.start \in Nat
  BY CasesAssumption DEF Init
<1>2. TypeOK
  BY <1>1, RoundsAssumption DEF Init, TypeOK, PC
<1>3. RoundLeft /\ Exclusive /\ Fresh /\ NothingLost
  BY DEF Init, RoundLeft, Exclusive, Fresh, NothingLost, Critical
<1>4. QED
  BY <1>2, <1>3 DEF IInv

LEMMA StepInv == IInv /\ [Next]_vars => IInv'
<1> SUFFICES ASSUME IInv, [Next]_vars PROVE IInv'
    OBVIOUS
<1> USE DEF IInv, Goto, PC, Critical
<1>r. Rounds \in Nat /\ NoThread \notin Threads
  BY RoundsAssumption, ThreadsAssumption
<1>1. ASSUME NEW t \in Threads, TestAndSet(t) \/ Lock(t) PROVE IInv'
  <2>1. case' = case /\ Locked /\ (Locked' <=> Locked)
    BY <1>1 DEF TestAndSet, Lock, Locked
  <2>2. \A u \in Threads : ~Critical(u)
    BY <1>1, <1>r, <2>1 DEF TestAndSet, Lock, Exclusive
  <2>3. TypeOK'
    BY <1>1 DEF TestAndSet, Lock, TypeOK
  <2>4. RoundLeft' /\ Exclusive' /\ Fresh'
    BY <1>1, <2>1, <2>2 DEF TestAndSet, Lock, RoundLeft, Exclusive, Fresh, TypeOK
  <2>5. NothingLost'
    BY <1>1, <2>1 DEF TestAndSet, Lock, NothingLost
  <2>6. QED
    BY <2>3, <2>4, <2>5
<1>2. ASSUME NEW t \in Threads, Load(t) PROVE IInv'
  <2>1. TypeOK'
    BY <1>2 DEF Load, TypeOK
  <2>2. case' = case /\ (Locked' <=> Locked)
    BY <1>2 DEF Load, Locked
  <2>3. RoundLeft' /\ Exclusive' /\ Fresh' /\ NothingLost'
    BY <1>2, <2>2 DEF Load, RoundLeft, Exclusive, Fresh, NothingLost, TypeOK
  <2>4. QED
    BY <2>1, <2>3
<1>3. ASSUME NEW t \in Threads, Store(t) PROVE IInv'
  <2>1. case' = case /\ Locked /\ (Locked' <=> Locked)
    BY <1>3 DEF Store, Locked
  <2>2. holder = t /\ \A u \in Threads : u # t => ~Critical(u)
    BY <1>3, <2>1 DEF Store, Exclusive
  <2>3. reg[t] = shared /\ shared = due
    BY <1>3, <2>1 DEF Store, Fresh, NothingLost, Locked
  <2>4. Updated(t, reg[t]) \in Nat
    BY UpdatedType DEF TypeOK
  <2>5. round[t] < Rounds
    BY <1>3 DEF Store, RoundLeft
  <2>6. TypeOK'
    BY <1>3, <1>r, <2>3, <2>4, <2>5 DEF Store, TypeOK
  <2>7. RoundLeft' /\ Exclusive' /\ Fresh' /\ NothingLost'
    BY <1>3, <2>1, <2>2, <2>3 DEF Store, RoundLeft, Exclusive, Fresh, NothingLost, TypeOK
  <2>8. QED
    BY <2>6, <2>7
<1>4. ASSUME NEW t \in Threads, Release(t) PROVE IInv'
  <2>1. case' = case /\ (Locked' <=> Locked)
    BY <1>4 DEF Release, Locked
  <2>2. Locked => holder = t /\ \A u \in Threads : u # t => ~Critical(u)
    BY <1>4 DEF Release, Exclusive
  <2>3. QED
    BY <1>4, <2>1, <2>2 DEF Release, TypeOK, RoundLeft, Exclusive, Fresh, NothingLost
<1>5. ASSUME NEW t \in Threads, StoreRacing(t) PROVE IInv'
  BY <1>5, <1>r DEF StoreRacing, TypeOK, RoundLeft, Exclusive, Fresh, NothingLost, Locked
<1>6. ASSUME NEW t \in Threads, CompareAndSwap(t) PROVE IInv'
  BY <1>6, <1>r DEF CompareAndSwap, TypeOK, RoundLeft, Exclusive, Fresh, NothingLost, Locked
<1>7. ASSUME NEW t \in Threads, CompareFails(t) \/ SpuriousFailure(t) PROVE IInv'
  BY <1>7 DEF CompareFails, SpuriousFailure, TypeOK, RoundLeft, Exclusive, Fresh,
              NothingLost, Locked
<1>8. CASE UNCHANGED vars
  BY <1>8 DEF vars, TypeOK, RoundLeft, Exclusive, Fresh, NothingLost, Locked
<1>9. QED
  BY <1>1, <1>2, <1>3, <1>4, <1>5, <1>6, <1>7, <1>8 DEF Next, Step, Joined

LEMMA Invariance == Spec => []IInv
BY InitInv, StepInv, PTL DEF Spec

\* CounterTyped: the shared number never goes below zero, also when threads
\* withdraw.
THEOREM CounterTyped == Spec => []TypeOK
BY Invariance, PTL DEF IInv

\* MutualExclusion: test-and-set and the mutex let one thread at a time into
\* the critical section.
THEOREM MutualExclusion == Spec => []Exclusive
BY Invariance, PTL DEF IInv

\* NoUpdateLost: with test-and-set, compare-and-swap or a mutex no update is
\* lost, whatever the number of threads.
THEOREM NoUpdateLost == Spec => []NothingLost
BY Invariance, PTL DEF IInv

-----------------------------------------------------------------------------
\* Without a discipline nobody locks; nobody has loaded more than what is due, and a thread
\* that has stored once has left a positive number, which is what it loads the
\* next time at least.
Racing ==
  case.discipline = "none" =>
    /\ \A t \in Threads : pc[t] \in {"enter", "store"}
    /\ shared <= due
    /\ \A t \in Threads : pc[t] = "store" => reg[t] <= due
    /\ \A t \in Threads : round[t] > 0 => shared > 0
    /\ \A t \in Threads : pc[t] = "store" /\ round[t] > 0 => reg[t] > 0

RaceInv == Racing /\ RaceBounds

LEMMA RaceInit == Init => RaceInv
<1> SUFFICES ASSUME Init PROVE RaceInv
  OBVIOUS
<1>1. case.start \in Nat /\ shared = due /\ shared \in Nat
  BY CasesAssumption DEF Init
<1>2. Racing
  BY <1>1 DEF Init, Racing
<1>3. AllDone => Rounds = 0
  BY ThreadsAssumption DEF Init, AllDone, Done
<1>4. RaceBounds
  BY <1>1, <1>3 DEF RaceBounds
<1> QED
  BY <1>2, <1>4 DEF RaceInv

LEMMA RaceStep == IInv /\ IInv' /\ RaceInv /\ [Next]_vars => RaceInv'
<1> SUFFICES ASSUME IInv, IInv', RaceInv, [Next]_vars
             PROVE  RaceInv'
  OBVIOUS
<1>0. /\ TypeOK /\ TypeOK' /\ RoundLeft /\ NothingLost' /\ Racing /\ RaceBounds
      /\ Rounds \in Nat /\ case' = case
  BY RoundsAssumption DEF IInv, RaceInv, Next, Step, Joined, vars, TestAndSet, Lock, Load, Store,
     Release, StoreRacing, CompareAndSwap, CompareFails, SpuriousFailure
<1>1. CASE case.discipline # "none"
  <2>1. shared' = due'
    BY <1>0, <1>1 DEF NothingLost
  <2> QED
    BY <1>0, <1>1, <2>1 DEF RaceInv, Racing, RaceBounds, TypeOK
<1>2. CASE case.discipline = "none"
  <2>1. ASSUME NEW t \in Threads, Load(t)
        PROVE  RaceInv'
    <3>1. pc'[t] = "store" /\ ~AllDone'
      BY <1>0, <2>1 DEF Load, Goto, TypeOK, AllDone, Done
    <3>2. Racing'
      BY <1>0, <1>2, <2>1 DEF Load, Goto, TypeOK, Racing
    <3> QED
      BY <3>1, <3>2 DEF RaceInv, RaceBounds
  <2>2. ASSUME NEW t \in Threads, StoreRacing(t)
        PROVE  RaceInv'
    <3>1. PICK k \in 1..Rounds - round[t] :
            /\ shared' = reg[t] + k /\ due' = due + k
            /\ round' = [round EXCEPT ![t] = round[t] + k]
      BY <2>2 DEF StoreRacing
    <3>2. /\ reg[t] \in Nat /\ k \in Nat \ {0} /\ due \in Int /\ round[t] \in Nat
          /\ pc[t] = "store" /\ reg' = reg /\ pc' = [pc EXCEPT ![t] = "enter"]
      BY <1>0, <2>2, <3>1 DEF TypeOK, StoreRacing, Goto
    <3>3. shared' <= due' /\ shared' > 0
      BY <1>0, <1>2, <3>1, <3>2 DEF Racing
    <3>4. \A u \in Threads : pc'[u] = "store" =>
            u # t /\ pc[u] = "store" /\ reg'[u] <= due' /\ round'[u] = round[u]
      BY <1>0, <1>2, <3>1, <3>2 DEF Racing, TypeOK
    <3>5. Racing'
      BY <1>0, <1>2, <3>2, <3>3, <3>4 DEF Racing
    <3>6. AllDone' => round[t] + k = Rounds
      BY <1>0, <3>1, <3>2 DEF AllDone, Done, TypeOK
    <3>7. round[t] + k = Rounds => shared' >= IF Rounds < 2 THEN Rounds ELSE 2
      BY <1>0, <1>2, <3>1, <3>2 DEF Racing
    <3> QED
      BY <3>3, <3>5, <3>6, <3>7 DEF RaceInv, RaceBounds
  <2>3. \A t \in Threads : Step(t) \/ SpuriousFailure(t) => Load(t) \/ StoreRacing(t)
    BY <1>0, <1>2 DEF Racing, Step, SpuriousFailure, TestAndSet, Lock, Store, Release, CompareAndSwap,
                CompareFails, Locked
  <2>4. CASE UNCHANGED vars
    BY <1>0, <2>4 DEF vars, RaceInv, Racing, RaceBounds, AllDone, Done
  <2> QED
    BY <2>1, <2>2, <2>3, <2>4 DEF Next, Joined
<1> QED
  BY <1>1, <1>2

\* RacesAreBounded: whatever the number of threads and of rounds, an
\* unprotected counter ends up at 2 at least (at 1 after one round), and never
\* above what was counted.
THEOREM RacesAreBounded == Spec => []RaceBounds
<1>1. IInv /\ RaceInv /\ [Next]_vars => (IInv /\ RaceInv)'
  BY StepInv, RaceStep
<1> QED
  BY InitInv, RaceInit, <1>1, PTL DEF Spec, RaceInv
=============================================================================
