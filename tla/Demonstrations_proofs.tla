------------------------ MODULE Demonstrations_proofs ------------------------
(***************************************************************************)
(* What the programs that MCDemonstrations runs guarantee for every number *)
(* of threads, mutexes, processes, iterations, workers and tasks: threads  *)
(* that lock and unlock mutexes, the request queue, Peterson's lock and    *)
(* the thread pool.                                                        *)
(***************************************************************************)
EXTENDS MutexPrograms, LabMutexPrograms, RequestQueue, Peterson, ThreadPool,
        FiniteSetTheorems, SequenceTheorems, WellFoundedInduction, TLAPS

-----------------------------------------------------------------------------
(* Threads that lock and unlock mutexes.                                   *)

\* What a thread that calls something is about to execute.
LEMMA CallFacts ==
  ASSUME TypeOK, NEW t \in Threads, ~Finished(t)
  PROVE  /\ prog[t] \in Seq(Instruction)
         /\ pc[t] \in 1..Len(prog[t])
         /\ prog[t][pc[t]] \in Instruction
<1>1. prog[t] \in Seq(Instruction)
  BY ProgramsAssumption DEF TypeOK
<1>2. pc[t] \in 1..Len(prog[t])
  BY <1>1 DEF TypeOK, Finished
<1>3. QED
  BY <1>1, <1>2

LEMMA TypeStep == TypeOK /\ [Next]_vars => TypeOK'
<1> SUFFICES ASSUME TypeOK, [Next]_vars PROVE TypeOK'
    OBVIOUS
<1>0. \A t \in Threads : prog[t] \in Seq(Instruction) /\ Len(prog[t]) \in Nat
  BY ProgramsAssumption DEF TypeOK
<1>1. ASSUME NEW t \in Threads, NEW m \in Mutexes, Lock(t, m) \/ Unlock(t, m)
      PROVE  TypeOK'
  <2>1. ~Finished(t) /\ t \notin trying
    BY <1>1 DEF Lock, Unlock, Calls, TypeOK
  <2>2. pc[t] + 1 <= Len(prog[t]) + 1 /\ pc[t] + 1 \in Nat \ {0}
    BY <2>1, CallFacts
  <2>3. owner' \in [Mutexes -> Threads \union {NoThread}]
    BY <1>1 DEF TypeOK, Lock, Unlock
  <2>4. pc' \in [Threads -> Nat \ {0}] /\ \A u \in Threads : pc'[u] <= Len(prog[u]) + 1
    BY <1>1, <2>2 DEF TypeOK, Lock, Unlock, Advance
  <2>5. prog' = prog /\ lead' = lead /\ trying' = trying
    BY <1>1 DEF Lock, Unlock
  <2>6. \A u \in trying : u # t /\ pc'[u] = pc[u]
    BY <1>1, <2>1 DEF TypeOK, Lock, Unlock, Advance
  <2>7. QED
    BY <2>3, <2>4, <2>5, <2>6 DEF TypeOK, Finished
<1>2. ASSUME NEW t \in Threads, NEW pair \in Mutexes \X Mutexes, LockFirst(t, pair)
      PROVE  TypeOK'
  <2>1. Leading(t, pair) \in Mutexes
    BY DEF TypeOK, Leading
  <2>2. owner' \in [Mutexes -> Threads \union {NoThread}]
    BY <1>2, <2>1 DEF TypeOK, LockFirst
  <2>3. ~Finished(t) /\ prog[t][pc[t]].op = "lock_all"
    BY <1>2 DEF LockFirst, Calls
  <2>4. QED
    BY <1>2, <2>2, <2>3 DEF TypeOK, LockFirst, Finished
<1>3. ASSUME NEW t \in Threads, NEW pair \in Mutexes \X Mutexes, TryOther(t, pair)
      PROVE  TypeOK'
  <2>1. ~Finished(t)
    BY <1>3 DEF TryOther, Calls
  <2>2. pc[t] + 1 <= Len(prog[t]) + 1 /\ pc[t] + 1 \in Nat \ {0}
    BY <2>1, CallFacts
  <2>3. owner' \in [Mutexes -> Threads \union {NoThread}]
    BY <1>3 DEF TypeOK, TryOther
  <2>4. pc' \in [Threads -> Nat \ {0}] /\ \A u \in Threads : pc'[u] <= Len(prog[u]) + 1
    BY ZenonT(30), <1>3, <2>2 DEF TypeOK, TryOther, Advance
  <2>5. lead' \in [Threads -> {1, 2}]
    BY <1>3 DEF TypeOK, TryOther
  <2>6. prog' = prog /\ trying' = trying \ {t}
    BY <1>3 DEF TryOther
  <2>7. \A u \in trying : u # t => pc'[u] = pc[u]
    BY <1>3 DEF TypeOK, TryOther, Advance
  <2>8. QED
    BY <2>3, <2>4, <2>5, <2>6, <2>7 DEF TypeOK, Finished
<1>4. CASE UNCHANGED vars
  BY <1>4 DEF vars, TypeOK, Finished
<1>5. QED
  BY <1>1, <1>2, <1>3, <1>4 DEF Next, Step, Joined

\* TypeCorrect: no thread leaves its program, and std::lock is only half way
\* in threads that are calling it.
THEOREM TypeCorrect == Spec => []TypeOK
<1>1. Init => TypeOK
  <2> SUFFICES ASSUME Init PROVE TypeOK
      OBVIOUS
  <2>1. \A t \in Threads : Len(prog[t]) \in Nat
    BY ProgramsAssumption DEF Init
  <2>2. QED
    BY <2>1 DEF Init, TypeOK
<1>2. QED
  BY <1>1, TypeStep, PTL DEF Spec

-----------------------------------------------------------------------------
\* How one instruction changes the set of mutexes a sequence holds.
LEMMA HeldAfterLocking ==
  ASSUME NEW p \in Seq(Instruction), NEW i \in 1..Len(p), p[i].op # "unlock"
  PROVE  HeldBefore(p, i + 1) =
           HeldBefore(p, i) \union {m \in Mutexes : Locks(p[i], m)}
<1>1. \A m \in Mutexes : p[i] # [op |-> "unlock", on |-> m]
  OBVIOUS
<1>2. ASSUME NEW m \in HeldBefore(p, i) PROVE m \in HeldBefore(p, i + 1)
  BY <1>1, <1>2 DEF HeldBefore
<1>3. ASSUME NEW m \in Mutexes, Locks(p[i], m) PROVE m \in HeldBefore(p, i + 1)
  <2>1. i \in 1..(i + 1) - 1 /\ i + 1..(i + 1) - 1 = {}
    OBVIOUS
  <2>2. QED
    BY <1>3, <2>1 DEF HeldBefore
<1>4. ASSUME NEW m \in HeldBefore(p, i + 1)
      PROVE  m \in HeldBefore(p, i) \/ Locks(p[i], m)
  BY <1>4 DEF HeldBefore
<1>5. HeldBefore(p, i) \subseteq Mutexes /\ HeldBefore(p, i + 1) \subseteq Mutexes
  BY DEF HeldBefore
<1>6. QED
  BY <1>2, <1>3, <1>4, <1>5

LEMMA HeldAfterUnlocking ==
  ASSUME NEW p \in Seq(Instruction), NEW i \in 1..Len(p), NEW m \in Mutexes,
         p[i] = [op |-> "unlock", on |-> m]
  PROVE  HeldBefore(p, i + 1) = HeldBefore(p, i) \ {m}
<1>1. \A l \in Mutexes : ~Locks(p[i], l)
  BY DEF Locks
<1>2. \A l \in Mutexes : l # m => p[i] # [op |-> "unlock", on |-> l]
  <2>1. p[i].on = m
    OBVIOUS
  <2>2. QED
    BY <2>1
<1>3. ASSUME NEW l \in HeldBefore(p, i), l # m PROVE l \in HeldBefore(p, i + 1)
  BY <1>2, <1>3 DEF HeldBefore
<1>4. ASSUME NEW l \in HeldBefore(p, i + 1) PROVE l \in HeldBefore(p, i) /\ l # m
  BY <1>1, <1>4 DEF HeldBefore
<1>5. QED
  BY <1>3, <1>4

-----------------------------------------------------------------------------
\* HoldsWhatItLocked for one thread.
Settled(u) ==
  /\ OwnedBy(u) = HeldBefore(prog[u], pc[u]) \union Tentative(u)
  /\ HeldBefore(prog[u], pc[u]) \intersect Tentative(u) = {}

\* A step of t changes neither what another thread owns nor what its calls
\* have locked, if it takes only free mutexes and gives back only its own.
LEMMA OthersKeepTheirs ==
  ASSUME TypeOK, HoldsWhatItLocked, NEW t \in Threads, NEW u \in Threads, u # t,
         prog' = prog, pc'[u] = pc[u], lead'[u] = lead[u],
         u \in trying' <=> u \in trying, OwnedBy(u)' = OwnedBy(u)
  PROVE  Settled(u)'
BY DEF HoldsWhatItLocked, Settled, Tentative, Leading, HeldBefore

LEMMA HoldsStep == TypeOK /\ HoldsWhatItLocked /\ [Next]_vars => HoldsWhatItLocked'
<1> SUFFICES ASSUME TypeOK, HoldsWhatItLocked, [Next]_vars PROVE HoldsWhatItLocked'
    OBVIOUS
<1>0. NoThread \notin Threads
  BY ThreadsAssumption
<1>a. \A t \in Threads :
        /\ OwnedBy(t) = HeldBefore(prog[t], pc[t]) \union Tentative(t)
        /\ HeldBefore(prog[t], pc[t]) \intersect Tentative(t) = {}
  BY DEF HoldsWhatItLocked, Settled
<1>1. ASSUME NEW t \in Threads, NEW m \in Mutexes, Lock(t, m)
      PROVE  HoldsWhatItLocked'
  <2>1. ~Finished(t) /\ t \notin trying /\ prog[t][pc[t]] = [op |-> "lock", on |-> m]
    BY <1>1 DEF Lock, Calls, TypeOK
  <2>2. OwnedBy(t)' = OwnedBy(t) \union {m}
    BY <1>1 DEF Lock, OwnedBy, TypeOK
  <2>3. \A u \in Threads : u # t => OwnedBy(u)' = OwnedBy(u)
    BY <1>0, <1>1 DEF Lock, OwnedBy, TypeOK
  <2>4. HeldBefore(prog[t], pc[t] + 1) = HeldBefore(prog[t], pc[t]) \union {m}
    <3>1. {l \in Mutexes : Locks(prog[t][pc[t]], l)} = {m}
      BY <2>1 DEF Locks
    <3>2. prog[t][pc[t]].op # "unlock"
      BY <2>1
    <3>3. QED
      BY <2>1, <3>1, <3>2, CallFacts, HeldAfterLocking
  <2>5. pc'[t] = pc[t] + 1 /\ prog' = prog /\ trying' = trying
    BY <1>1 DEF Lock, Advance, TypeOK
  <2>6. HeldBefore(prog[t], pc[t])' = HeldBefore(prog[t], pc[t] + 1)
    BY <2>5 DEF HeldBefore
  <2>7. Tentative(t) = {} /\ Tentative(t)' = {}
    BY <2>1, <2>5 DEF Tentative
  <2>8. \A u \in Threads : u # t => Settled(u)'
    <3>1. \A u \in Threads : u # t => pc'[u] = pc[u] /\ lead'[u] = lead[u]
      BY <1>1 DEF Lock, Advance, TypeOK
    <3>2. QED
      BY <2>3, <2>5, <3>1, OthersKeepTheirs
  <2>9. Settled(t)'
    BY <1>a, <2>2, <2>4, <2>6, <2>7 DEF Settled
  <2>10. QED
    BY <2>8, <2>9 DEF HoldsWhatItLocked, Settled
<1>2. ASSUME NEW t \in Threads, NEW m \in Mutexes, Unlock(t, m)
      PROVE  HoldsWhatItLocked'
  <2>1. ~Finished(t) /\ t \notin trying /\ prog[t][pc[t]] = [op |-> "unlock", on |-> m]
    BY <1>2 DEF Unlock, Calls, TypeOK
  <2>2. OwnedBy(t)' = OwnedBy(t) \ {m}
    BY <1>0, <1>2 DEF Unlock, OwnedBy, TypeOK
  <2>3. \A u \in Threads : u # t => OwnedBy(u)' = OwnedBy(u)
    BY <1>0, <1>2 DEF Unlock, OwnedBy, TypeOK
  <2>4. HeldBefore(prog[t], pc[t] + 1) = HeldBefore(prog[t], pc[t]) \ {m}
    <3> DEFINE p == prog[t]
               i == pc[t]
    <3>1. p \in Seq(Instruction) /\ i \in 1..Len(p)
      BY <2>1, CallFacts
    <3>2. p[i] = [op |-> "unlock", on |-> m]
      BY <2>1
    <3> HIDE DEF p, i
    <3>3. HeldBefore(p, i + 1) = HeldBefore(p, i) \ {m}
      BY <3>1, <3>2, HeldAfterUnlocking
    <3>4. QED
      BY <3>3 DEF p, i
  <2>5. pc'[t] = pc[t] + 1 /\ prog' = prog /\ trying' = trying
    BY <1>2 DEF Unlock, Advance, TypeOK
  <2>6. HeldBefore(prog[t], pc[t])' = HeldBefore(prog[t], pc[t] + 1)
    BY <2>5 DEF HeldBefore
  <2>7. Tentative(t) = {} /\ Tentative(t)' = {}
    BY <2>1, <2>5 DEF Tentative
  <2>8. \A u \in Threads : u # t => Settled(u)'
    <3>1. \A u \in Threads : u # t => pc'[u] = pc[u] /\ lead'[u] = lead[u]
      BY <1>2 DEF Unlock, Advance, TypeOK
    <3>2. QED
      BY <2>3, <2>5, <3>1, OthersKeepTheirs
  <2>9. Settled(t)'
    BY <1>a, <2>2, <2>4, <2>6, <2>7 DEF Settled
  <2>10. QED
    BY <2>8, <2>9 DEF HoldsWhatItLocked, Settled
<1>3. ASSUME NEW t \in Threads, NEW pair \in Mutexes \X Mutexes, LockFirst(t, pair)
      PROVE  HoldsWhatItLocked'
  <2>1. t \notin trying /\ prog[t][pc[t]].on = pair /\ Leading(t, pair) \in Mutexes
    BY <1>3 DEF LockFirst, Calls, TypeOK, Leading
  <2>2. OwnedBy(t)' = OwnedBy(t) \union {Leading(t, pair)}
    BY <1>3, <2>1 DEF LockFirst, OwnedBy, TypeOK
  <2>3. \A u \in Threads : u # t => OwnedBy(u)' = OwnedBy(u)
    BY <1>0, <1>3, <2>1 DEF LockFirst, OwnedBy, TypeOK
  <2>4. prog' = prog /\ pc' = pc /\ lead' = lead /\ trying' = trying \union {t}
    BY <1>3 DEF LockFirst
  <2>5. Tentative(t) = {} /\ Tentative(t)' = {Leading(t, pair)}
    BY <2>1, <2>4 DEF Tentative, Leading
  <2>6. HeldBefore(prog[t], pc[t])' = HeldBefore(prog[t], pc[t])
    BY <2>4 DEF HeldBefore
  <2>7. \A u \in Threads : u # t => Settled(u)'
    BY <2>3, <2>4, OthersKeepTheirs
  <2>8. Settled(t)'
    <3>1. Leading(t, pair) \notin OwnedBy(t)
      BY <1>0, <1>3 DEF LockFirst, OwnedBy
    <3>2. QED
      BY <1>a, <2>2, <2>5, <2>6, <3>1 DEF Settled
  <2>9. QED
    BY <2>7, <2>8 DEF HoldsWhatItLocked, Settled
<1>4. ASSUME NEW t \in Threads, NEW pair \in Mutexes \X Mutexes, TryOther(t, pair)
      PROVE  HoldsWhatItLocked'
  <2>1. /\ ~Finished(t) /\ t \in trying
        /\ prog[t][pc[t]] = [op |-> "lock_all", on |-> pair]
        /\ Leading(t, pair) \in Mutexes /\ Other(t, pair) \in Mutexes
        /\ {pair[1], pair[2]} = {Leading(t, pair), Other(t, pair)}
    BY <1>4 DEF TryOther, Calls, TypeOK, Leading, Other
  <2>2. prog' = prog /\ trying' = trying \ {t}
    BY <1>4 DEF TryOther
  <2>3. Tentative(t) = {Leading(t, pair)} /\ Tentative(t)' = {}
    BY <2>1, <2>2 DEF Tentative
  <2>4. owner[Leading(t, pair)] = t
    BY <1>a, <2>1, <2>3 DEF OwnedBy
  <2>5. \A u \in Threads : u # t => OwnedBy(u)' = OwnedBy(u)
    BY <1>0, <1>4, <2>1, <2>4 DEF TryOther, OwnedBy, TypeOK
  <2>6. \A u \in Threads : u # t => Settled(u)'
    <3>1. \A u \in Threads : u # t => pc'[u] = pc[u] /\ lead'[u] = lead[u]
      BY <1>4 DEF TryOther, Advance, TypeOK
    <3>2. QED
      BY <2>2, <2>5, <3>1, OthersKeepTheirs
  <2>7. Settled(t)'
    <3>1. CASE owner[Other(t, pair)] = NoThread
      <4>1. OwnedBy(t)' = OwnedBy(t) \union {Other(t, pair)} /\ pc'[t] = pc[t] + 1
        BY <1>4, <2>1, <3>1 DEF TryOther, Advance, OwnedBy, TypeOK
      <4>2. {m \in Mutexes : Locks(prog[t][pc[t]], m)}
              = {Leading(t, pair), Other(t, pair)}
        BY <2>1 DEF Locks
      <4>3. prog[t][pc[t]].op # "unlock"
        BY <2>1
      <4>4. HeldBefore(prog[t], pc[t] + 1)
              = HeldBefore(prog[t], pc[t]) \union {Leading(t, pair), Other(t, pair)}
        BY <2>1, <4>2, <4>3, CallFacts, HeldAfterLocking
      <4>5. HeldBefore(prog[t], pc[t])' = HeldBefore(prog[t], pc[t] + 1)
        BY <2>2, <4>1 DEF HeldBefore
      <4>6. QED
        BY <1>a, <2>3, <4>1, <4>4, <4>5 DEF Settled
    <3>2. CASE owner[Other(t, pair)] # NoThread
      <4>1. OwnedBy(t)' = OwnedBy(t) \ {Leading(t, pair)} /\ pc' = pc
        BY <1>0, <1>4, <2>1, <3>2 DEF TryOther, OwnedBy, TypeOK
      <4>2. HeldBefore(prog[t], pc[t])' = HeldBefore(prog[t], pc[t])
        BY <2>2, <4>1 DEF HeldBefore
      <4>3. QED
        BY <1>a, <2>3, <4>1, <4>2 DEF Settled
    <3>3. QED
      BY <3>1, <3>2
  <2>8. QED
    BY <2>6, <2>7 DEF HoldsWhatItLocked, Settled
<1>5. CASE UNCHANGED vars
  BY <1>5 DEF vars, HoldsWhatItLocked, OwnedBy, HeldBefore, Tentative, Leading
<1>6. QED
  BY <1>1, <1>2, <1>3, <1>4, <1>5 DEF Next, Step, Joined

\* HoldingCorrect: the owner of a mutex is the thread whose calls locked it.
THEOREM HoldingCorrect == Spec => []HoldsWhatItLocked
<1>1. Init => HoldsWhatItLocked
  <2> SUFFICES ASSUME Init, NEW t \in Threads
               PROVE  Settled(t)
      BY DEF HoldsWhatItLocked, Settled
  <2>1. OwnedBy(t) = {} /\ Tentative(t) = {}
    BY ThreadsAssumption DEF Init, OwnedBy, Tentative
  <2>2. HeldBefore(prog[t], pc[t]) = {}
    BY DEF Init, HeldBefore
  <2>3. QED
    BY <2>1, <2>2 DEF Settled
<1>2. QED
  BY <1>1, HoldsStep, TypeCorrect, PTL DEF Spec

-----------------------------------------------------------------------------
\* A finite set of numbers that is not empty has a greatest one: the one that
\* the smallest set of others exceeds.
LEMMA GreatestExists ==
  ASSUME NEW S, IsFiniteSet(S), S \subseteq Nat, S # {}
  PROVE  \E m \in S : \A n \in S : n <= m
<1> DEFINE Above(m) == {n \in S : n > m}
           Family == {Above(m) : m \in S}
<1>1. IsWellFoundedOn(StrictSubsetOrdering(S), SUBSET S)
  BY FS_StrictSubsetOrderingWellFounded, FS_FiniteSubsetsOfFinite
<1>2. Family \subseteq SUBSET S /\ Family # {}
  OBVIOUS
<1>3. PICK A \in Family : \A B \in Family : <<B, A>> \notin StrictSubsetOrdering(S)
  <2> HIDE DEF Family
  <2>1. QED
    BY <1>1, <1>2, WFMin
<1>4. PICK m \in S : A = Above(m)
  BY <1>3
<1>5. ASSUME NEW n \in S, ~(n <= m) PROVE FALSE
  <2>1. n > m /\ n \in Nat /\ m \in Nat
    BY <1>5
  <2>2. Above(n) \subseteq Above(m) /\ n \in Above(m) /\ n \notin Above(n)
    <3>1. \A k \in S : k \in Nat /\ (k > n => k > m)
      BY <2>1
    <3>2. n \in Above(m) /\ n \notin Above(n)
      BY <2>1
    <3>3. QED
      BY <3>1, <3>2
  <2>3. Above(n) \in Family /\ Above(n) \in SUBSET S /\ Above(m) \in SUBSET S
    OBVIOUS
  <2> HIDE DEF Above, Family
  <2>4. <<Above(n), Above(m)>> \in StrictSubsetOrdering(S)
    BY <2>2, <2>3 DEF StrictSubsetOrdering
  <2>5. QED
    BY <1>3, <1>4, <2>3, <2>4
<1>6. QED
  BY <1>5

\* The owner of a mutex in a stuck, disciplined state waits for a higher one.
LEMMA OwnerWaitsHigher ==
  ASSUME TypeOK, HoldsWhatItLocked, Stuck, \A t \in Threads : Disciplined(prog[t]),
         NEW m \in Mutexes, owner[m] # NoThread
  PROVE  \E h \in Mutexes : owner[h] # NoThread /\ m < h
<1> DEFINE u == owner[m]
<1>1. u \in Threads /\ m \in OwnedBy(u)
  BY DEF TypeOK, OwnedBy
<1>2. /\ OwnedBy(u) = HeldBefore(prog[u], pc[u]) \union Tentative(u)
      /\ prog[u] \in Seq(Instruction)
  BY <1>1, ProgramsAssumption DEF HoldsWhatItLocked, TypeOK
<1>3. ~Finished(u)
  <2> SUFFICES ASSUME Finished(u) PROVE FALSE
      OBVIOUS
  <2>1. u \notin trying /\ pc[u] = Len(prog[u]) + 1
    BY <1>1, <1>2 DEF TypeOK, Finished
  <2>2. HeldBefore(prog[u], pc[u]) = {} /\ Tentative(u) = {}
    BY <1>1, <2>1 DEF Disciplined, Tentative
  <2>3. QED
    BY <1>1, <1>2, <2>2
<1>4. PICK h \in Mutexes : WaitsFor(u, h)
  BY <1>1, <1>3 DEF Stuck, Blocked
<1> DEFINE p == prog[u]
           i == pc[u]
<1>5. i \in 1..Len(p) /\ Disciplined(p)
  BY <1>1, <1>3, CallFacts
<1>6. u \in trying => p[i].op = "lock_all"
  BY DEF TypeOK
<1>7. Tentative(u) = {} <=> u \notin trying
  BY DEF Tentative
<1>8. \/ p[i] = [op |-> "lock", on |-> h]
      \/ u \notin trying /\ p[i].op = "lock_all"
  <2>1. CASE Calls(u, "lock", h)
    BY <2>1 DEF Calls
  <2>2. ASSUME NEW pair \in Mutexes \X Mutexes, Calls(u, "lock_all", pair)
        PROVE  p[i].op = "lock_all"
    BY <2>2 DEF Calls
  <2>3. QED
    BY <1>4, <2>1, <2>2 DEF WaitsFor
<1>9. owner[h] # NoThread
  BY <1>4 DEF WaitsFor
<1> HIDE DEF u, p, i
<1>a. \/ \E l \in Mutexes : p[i] = [op |-> "lock", on |-> l]
                             /\ \A k \in HeldBefore(p, i) : k < l
      \/ \E l \in HeldBefore(p, i) : p[i] = [op |-> "unlock", on |-> l]
      \/ p[i].op = "lock_all" /\ HeldBefore(p, i) = {}
  BY <1>5, Zenon DEF Disciplined
<1>b. ASSUME NEW l, p[i] = [op |-> "unlock", on |-> l] PROVE p[i].op = "unlock"
  BY <1>b
<1>c. ASSUME NEW l, p[i] = [op |-> "lock", on |-> l] PROVE p[i].op = "lock"
  BY <1>c
<1>10. CASE p[i] = [op |-> "lock", on |-> h]
  <2>1. u \notin trying
    BY <1>6, <1>10
  <2>2. m \in HeldBefore(p, i)
    BY <1>1, <1>2, <1>7, <2>1 DEF p, i
  <2>3. \E l \in Mutexes : p[i] = [op |-> "lock", on |-> l]
                           /\ \A k \in HeldBefore(p, i) : k < l
    <3>1. p[i].op = "lock"
      BY <1>10
    <3>2. ~ \E l \in HeldBefore(p, i) : p[i] = [op |-> "unlock", on |-> l]
      BY <1>b, <3>1
    <3>3. QED
      BY <1>a, <3>1, <3>2
  <2>4. m < h
    BY <1>10, <2>2, <2>3
  <2>5. QED
    BY <1>9, <2>4
<1>11. CASE u \notin trying /\ p[i].op = "lock_all"
  <2>1. HeldBefore(p, i) = {}
    <3>1. ~ \E l \in Mutexes : p[i] = [op |-> "lock", on |-> l]
      BY <1>c, <1>11
    <3>2. ~ \E l \in HeldBefore(p, i) : p[i] = [op |-> "unlock", on |-> l]
      BY <1>b, <1>11
    <3>3. QED
      BY <1>a, <3>1, <3>2
  <2>2. QED
    BY <1>1, <1>2, <1>7, <1>11, <2>1 DEF p, i
<1>12. QED
  BY <1>8, <1>10, <1>11

\* NoDeadlock: ascending order and std::lock, in any mixture, any number of
\* threads and mutexes, never deadlock.  Among the mutexes that are held take
\* the highest: its owner would have to wait for a higher one.
THEOREM NoDeadlock == Spec => []DisciplinePreventsDeadlock
<1>1. TypeOK /\ HoldsWhatItLocked => DisciplinePreventsDeadlock
  <2> SUFFICES ASSUME TypeOK, HoldsWhatItLocked, Stuck,
                      \A t \in Threads : Disciplined(prog[t])
               PROVE  FALSE
      BY DEF DisciplinePreventsDeadlock
  <2> DEFINE Held == {m \in Mutexes : owner[m] # NoThread}
  <2>1. IsFiniteSet(Held) /\ Held \subseteq Nat
    BY MutexesAssumption, FS_Subset
  <2>2. Held # {}
    BY DEF Stuck, AllFinished, Blocked, WaitsFor
  <2>3. PICK m \in Held : \A n \in Held : n <= m
    <3> HIDE DEF Held
    <3>1. QED
      BY <2>1, <2>2, GreatestExists
  <2>4. PICK h \in Held : m < h
    BY OwnerWaitsHigher
  <2>5. QED
    BY <2>1, <2>3, <2>4
<1>2. QED
  BY <1>1, TypeCorrect, HoldingCorrect, PTL

-----------------------------------------------------------------------------
\* A sequence of two nested sections, the lower mutex outside, is disciplined.
LEMMA NestedAscending ==
  ASSUME NEW low \in Mutexes, NEW high \in Mutexes, low < high
  PROVE  Disciplined(<<lock(low), lock(high), unlock(high), unlock(low)>>)
<1> DEFINE p == <<lock(low), lock(high), unlock(high), unlock(low)>>
<1> USE MutexesAssumption
<1>0. /\ p[1] = [op |-> "lock", on |-> low] /\ p[2] = [op |-> "lock", on |-> high]
      /\ p[3] = [op |-> "unlock", on |-> high] /\ p[4] = [op |-> "unlock", on |-> low]
      /\ Len(p) = 4 /\ p \in Seq(Instruction)
  BY DEF lock, unlock, Instruction
<1> HIDE DEF p
<1>a. ASSUME NEW i \in 1..Len(p), NEW m \in Mutexes, p[i] = [op |-> "unlock", on |-> m]
      PROVE  HeldBefore(p, i + 1) = HeldBefore(p, i) \ {m}
  BY ZenonT(30), <1>0, <1>a, HeldAfterUnlocking
<1>1. HeldBefore(p, 1) = {}
  BY DEF HeldBefore
<1>2. HeldBefore(p, 1 + 1) = {low}
  <2>1. {m \in Mutexes : Locks(p[1], m)} = {low}
    BY <1>0 DEF Locks
  <2>2. p[1].op # "unlock" /\ 1 \in 1..Len(p)
    BY <1>0
  <2>3. QED
    BY ZenonT(30), <1>0, <1>1, <2>1, <2>2, HeldAfterLocking
<1>3. HeldBefore(p, 2 + 1) = {low, high}
  <2>1. {m \in Mutexes : Locks(p[2], m)} = {high}
    BY <1>0 DEF Locks
  <2>2. p[2].op # "unlock" /\ 2 \in 1..Len(p)
    BY <1>0
  <2>3. HeldBefore(p, 2 + 1) = HeldBefore(p, 2) \union {m \in Mutexes : Locks(p[2], m)}
    BY <1>0, <2>2, HeldAfterLocking
  <2>4. QED
    BY <1>2, <2>1, <2>3
<1>4. HeldBefore(p, 3 + 1) = {low}
  <2>1. 3 \in 1..Len(p)
    BY <1>0
  <2>2. HeldBefore(p, 3 + 1) = HeldBefore(p, 3) \ {high}
    BY <1>0, <1>a, <2>1
  <2>3. low # high /\ HeldBefore(p, 3) = {low, high}
    BY <1>3
  <2>4. QED
    BY <2>2, <2>3
<1>5. HeldBefore(p, 4 + 1) = {}
  <2>1. 4 \in 1..Len(p)
    BY <1>0
  <2>2. HeldBefore(p, 4 + 1) = HeldBefore(p, 4) \ {low}
    BY <1>0, <1>a, <2>1
  <2>3. QED
    BY <1>4, <2>2
<1>6. /\ HeldBefore(p, 2) = {low} /\ HeldBefore(p, 3) = {low, high}
      /\ HeldBefore(p, 4) = {low} /\ HeldBefore(p, 5) = {}
  BY <1>2, <1>3, <1>4, <1>5
<1>7. ASSUME NEW i \in 1..Len(p)
      PROVE  \/ \E m \in Mutexes : /\ p[i] = [op |-> "lock", on |-> m]
                                   /\ \A h \in HeldBefore(p, i) : h < m
             \/ \E m \in HeldBefore(p, i) : p[i] = [op |-> "unlock", on |-> m]
  <2>1. CASE i = 1
    BY <1>0, <1>1, <2>1
  <2>2. CASE i = 2
    BY <1>0, <1>6, <2>2
  <2>3. CASE i = 3
    BY <1>0, <1>6, <2>3
  <2>4. CASE i = 4
    BY <1>0, <1>6, <2>4
  <2>5. i = 1 \/ i = 2 \/ i = 3 \/ i = 4
    BY <1>0
  <2> HIDE DEF HeldBefore
  <2>6. QED
    BY <2>1, <2>2, <2>3, <2>4, <2>5, Zenon
<1>8. Disciplined(p)
  BY <1>0, <1>6, <1>7 DEF Disciplined
<1>9. QED
  BY <1>8 DEF p

\* DiningDisciplined: the meal of every philosopher of Lab5 is disciplined,
\* whatever the size of the table, so that NoDeadlock applies to it.
THEOREM DiningDisciplined ==
  ASSUME NEW n \in Nat, n >= 2, 0..n - 1 \subseteq Mutexes, NEW id \in 0..n - 1
  PROVE  Disciplined(meal(id, n))
<1> DEFINE right == (id + 1) % n
<1>1. right \in 0..n - 1 /\ right # id
  <2>1. CASE id + 1 < n
    BY <2>1
  <2>2. CASE id + 1 = n
    BY <2>2
  <2>3. QED
    BY <2>1, <2>2
<1> HIDE DEF right
<1>2. CASE id > right
  <2>1. right < id /\ id \in Mutexes /\ right \in Mutexes
    BY <1>1, <1>2
  <2>2. meal(id, n) = <<lock(right), lock(id), unlock(id), unlock(right)>>
    BY <1>2 DEF meal, right
  <2>3. QED
    BY <2>1, <2>2, NestedAscending
<1>3. CASE ~(id > right)
  <2>1. id < right /\ id \in Mutexes /\ right \in Mutexes
    BY <1>1, <1>3
  <2>2. meal(id, n) = <<lock(id), lock(right), unlock(right), unlock(id)>>
    BY <1>3 DEF meal, right
  <2>3. QED
    BY <2>1, <2>2, NestedAscending
<1>4. QED
  BY <1>2, <1>3

-----------------------------------------------------------------------------
(* The request queue of Lab6/starvation.cpp.                               *)

\* Whoever is between lock and unlock owns the mutex; while he tests he is the
\* only one in the queue, and otherwise it is empty.  So nobody ever waits.
QueueInv ==
  /\ does \in [Requesters -> {"starting", "testing", "using", "ended"}]
  /\ \A r \in Requesters : does[r] \in {"testing", "using"} => resource_mutex = r
  /\ resource_mutex = Free => request_queue = <<>>
  /\ \A r \in Requesters :
       does[r] = "testing" => request_queue = <<r>>
  /\ \A r \in Requesters : does[r] = "using" => request_queue = <<>>

LEMMA QueueInvInit == RequestInit => QueueInv
  BY RequestersAssumption DEF RequestInit, QueueInv

LEMMA QueueInvNext == QueueInv /\ [RequestNext]_requestVars => QueueInv'
<1> SUFFICES ASSUME QueueInv, [RequestNext]_requestVars
             PROVE  QueueInv'
  OBVIOUS
<1>1. CASE UNCHANGED requestVars
  BY <1>1 DEF requestVars, QueueInv
<1>2. ASSUME NEW r \in Requesters, LockResource(r)
      PROVE  QueueInv'
  <2>1. /\ does[r] = "starting" /\ request_queue = <<>>
        /\ \A q \in Requesters : does[q] \in {"starting", "ended"}
    BY <1>2, RequestersAssumption DEF QueueInv, LockResource
  <2>2. /\ resource_mutex' = r
        /\ request_queue' = <<r>>
        /\ does' = [does EXCEPT ![r] = "testing"]
    BY <1>2, <2>1 DEF LockResource
  <2> QED
    BY <2>1, <2>2, RequestersAssumption DEF QueueInv
<1>3. ASSUME NEW r \in Requesters, TestFirst(r)
      PROVE  QueueInv'
  <2>1. /\ resource_mutex = r /\ request_queue = <<r>>
        /\ \A q \in Requesters \ {r} : does[q] \in {"starting", "ended"}
    BY <1>3 DEF QueueInv, TestFirst
  <2>2. /\ resource_mutex' = r
        /\ request_queue' = <<>>
        /\ does' = [does EXCEPT ![r] = "using"]
    BY <1>3, <2>1 DEF TestFirst, Served
  <2> QED
    BY <2>1, <2>2, RequestersAssumption DEF QueueInv
<1>4. ASSUME NEW r \in Requesters, FinishUse(r)
      PROVE  QueueInv'
  <2>1. /\ request_queue = <<>>
        /\ \A q \in Requesters \ {r} : does[q] \in {"starting", "ended"}
    BY <1>4 DEF QueueInv, FinishUse
  <2>2. /\ resource_mutex' = Free
        /\ request_queue' = <<>>
        /\ does' = [does EXCEPT ![r] = "ended"]
    BY <1>4, <2>1 DEF FinishUse, QueueInv
  <2> QED
    BY <2>1, <2>2, RequestersAssumption DEF QueueInv
<1> QED
  BY <1>1, <1>2, <1>3, <1>4 DEF RequestNext, RequestStep

\* However many processes queue up for the resource, none of them ever waits for
\* its turn: "until first in the queue" (starvation.cpp:19) decides nothing.
THEOREM QueueNeverDecidesAlways == RequestSpec => []QueueNeverDecides
<1>1. QueueInv => QueueNeverDecides
  BY DEF QueueInv, QueueNeverDecides
<1> QED
  BY QueueInvInit, QueueInvNext, <1>1, PTL DEF RequestSpec

-----------------------------------------------------------------------------
(* Peterson's lock.                                                        *)

Places ==
  {"flag", "turn", "testFlag", "testTurn", "spinning", "load", "store", "leave"}

Inside(p) == at[p] \in {"load", "store", "leave"}

\* The updates of shared_data that process p has made.
Updates(p) == ITERATIONS - left[p] + (IF at[p] = "leave" THEN 1 ELSE 0)

PetersonTypes ==
  /\ shared \in [flag : [Both -> BOOLEAN], turn : Both, data : Int]
  /\ at \in [Both -> Places]
  /\ temp \in [Both -> Int]
  /\ left \in [Both -> Nat]
  /\ stores = [p \in Both |-> <<>>]

\* The lock: the flag of a process is up from its announcement until it leaves,
\* and who is inside has the turn, unless its peer has still to give it away.
PetersonLock ==
  /\ \A p \in Both : shared.flag[p] <=> at[p] # "flag"
  /\ \A p \in Both :
       Inside(p) => at[Peer(p)] \in {"flag", "turn"} \/ shared.turn = p

\* The data: every update is in memory, and one about to be stored is based on
\* what is there.
PetersonData ==
  /\ \A p \in Both : at[p] # "flag" => left[p] > 0
  /\ \A p \in Both : at[p] = "store" => temp[p] = shared.data
  /\ shared.data = 1 + Updates(0) + Updates(1)

PetersonInv ==
  build # "buffered" => PetersonTypes /\ PetersonLock /\ PetersonData

\* A store that is not delayed is in memory at once, and is what is read.
LEMMA StoresAtOnce ==
  ASSUME build # "buffered", NEW p
  PROVE  /\ Seen(p) = shared
         /\ \A x, v : Store(p, x, v) <=> shared' = Written(shared, p, x, v)
                                         /\ UNCHANGED stores
  BY DEF Seen, Store

LEMMA PetersonInvInit == PetersonInit => PetersonInv
  BY IterationsAssumption
  DEF PetersonInit, PetersonInv, PetersonTypes, PetersonLock, PetersonData,
      Places, Inside, Updates, Both

LEMMA PetersonInvNext == PetersonInv /\ [PetersonNext]_petersonVars => PetersonInv'
<1> SUFFICES ASSUME PetersonInv, [PetersonNext]_petersonVars, (build # "buffered")'
             PROVE  (PetersonTypes /\ PetersonLock /\ PetersonData)'
  BY DEF PetersonInv
<1> USE DEF Peer, Both
<1>0. build # "buffered" /\ PetersonTypes /\ PetersonLock /\ PetersonData
  <2>1. build' = build
    BY DEF PetersonNext, PetersonStep, SetFlag, SetTurn, TestFlag, TestTurn,
           LoadData, StoreData, ClearFlag, Drain, petersonVars
  <2> QED
    BY <2>1 DEF PetersonInv
<1>1. CASE UNCHANGED petersonVars
  BY <1>0, <1>1
  DEF petersonVars, PetersonTypes, PetersonLock, PetersonData, Inside, Updates
<1>2. ASSUME NEW p \in Both, SetFlag(p)
      PROVE  (PetersonTypes /\ PetersonLock /\ PetersonData)'
  <2>1. /\ at[p] = "flag" /\ left[p] > 0
        /\ shared' = [shared EXCEPT !.flag = [@ EXCEPT ![p] = TRUE]]
        /\ at' = [at EXCEPT ![p] = "turn"]
        /\ UNCHANGED <<temp, left, stores>>
    BY <1>0, <1>2, StoresAtOnce DEF SetFlag, Written, Go
  <2>3. PetersonTypes'
    BY <1>0, <2>1 DEF PetersonTypes, Places
  <2>4. PetersonLock'
    BY <1>0, <2>1 DEF PetersonTypes, PetersonLock, Inside
  <2>5. PetersonData'
    BY <1>0, <2>1, IterationsAssumption DEF PetersonTypes, PetersonData, Updates
  <2> QED
    BY <2>3, <2>4, <2>5
<1>3. ASSUME NEW p \in Both, SetTurn(p)
      PROVE  (PetersonTypes /\ PetersonLock /\ PetersonData)'
  <2>1. /\ at[p] = "turn"
        /\ shared' = [shared EXCEPT !.turn = Peer(p)]
        /\ at' = [at EXCEPT ![p] = "testFlag"]
        /\ UNCHANGED <<temp, left, stores>>
    BY <1>0, <1>3, StoresAtOnce DEF SetTurn, Written, Go
  <2>3. PetersonTypes'
    BY <1>0, <2>1 DEF PetersonTypes, Places
  <2>4. PetersonLock'
    BY <1>0, <2>1 DEF PetersonTypes, PetersonLock, Inside
  <2>5. PetersonData'
    BY <1>0, <2>1, IterationsAssumption DEF PetersonTypes, PetersonData, Updates
  <2> QED
    BY <2>3, <2>4, <2>5
<1>4. ASSUME NEW p \in Both, TestFlag(p)
      PROVE  (PetersonTypes /\ PetersonLock /\ PetersonData)'
  <2>0. Seen(p) = shared
    BY <1>0, StoresAtOnce
  <2>1. /\ at[p] = "testFlag"
        /\ at' = [at EXCEPT ![p] =
                    IF shared.flag[Peer(p)] THEN "testTurn" ELSE "load"]
        /\ UNCHANGED <<shared, temp, left, stores>>
    BY <1>4, <2>0, <1>0 DEF TestFlag, Go
  <2>3. PetersonTypes'
    BY <1>0, <2>1 DEF PetersonTypes, Places
  <2>4. PetersonLock'
    BY <1>0, <2>1 DEF PetersonTypes, PetersonLock, Inside
  <2>5. PetersonData'
    BY <1>0, <2>1, IterationsAssumption DEF PetersonTypes, PetersonData, Updates
  <2> QED
    BY <2>3, <2>4, <2>5
<1>5. ASSUME NEW p \in Both, TestTurn(p)
      PROVE  (PetersonTypes /\ PetersonLock /\ PetersonData)'
  <2>0. Seen(p) = shared
    BY <1>0, StoresAtOnce
  <2>1. /\ at[p] = "testTurn"
        /\ \/ /\ shared.turn = p
              /\ at' = [at EXCEPT ![p] = "load"]
           \/ at' = [at EXCEPT ![p] = "spinning"]
           \/ at' = [at EXCEPT ![p] = "testFlag"]
        /\ UNCHANGED <<shared, temp, left, stores>>
    <3>1. shared.turn # p => shared.turn = Peer(p)
      BY <1>0 DEF PetersonTypes
    <3>2. CASE shared.turn # Peer(p)
      BY <1>5, <2>0, <3>1, <3>2 DEF TestTurn, Go
    <3>3. CASE shared.turn = Peer(p)
      BY <1>5, <2>0, <3>3 DEF TestTurn, Go
    <3> QED
      BY <3>2, <3>3
  <2>3. PetersonTypes'
    BY <1>0, <2>1 DEF PetersonTypes, Places
  <2>4. PetersonLock'
    BY <1>0, <2>1 DEF PetersonTypes, PetersonLock, Inside
  <2>5. PetersonData'
    BY <1>0, <2>1, IterationsAssumption DEF PetersonTypes, PetersonData, Updates
  <2> QED
    BY <2>3, <2>4, <2>5
<1>6. ASSUME NEW p \in Both, LoadData(p)
      PROVE  (PetersonTypes /\ PetersonLock /\ PetersonData)'
  <2>1. /\ at[p] = "load"
        /\ temp' = [temp EXCEPT ![p] = shared.data]
        /\ at' = [at EXCEPT ![p] = "store"]
        /\ UNCHANGED <<shared, left, stores>>
    BY <1>0, <1>6, StoresAtOnce DEF LoadData, Go
  <2>3. PetersonTypes'
    BY <1>0, <2>1 DEF PetersonTypes, Places
  <2>4. PetersonLock'
    BY <1>0, <2>1 DEF PetersonTypes, PetersonLock, Inside
  <2>5. PetersonData'
    BY <1>0, <2>1, IterationsAssumption DEF PetersonTypes, PetersonData, Updates
  <2> QED
    BY <2>3, <2>4, <2>5
<1>7. ASSUME NEW p \in Both, StoreData(p)
      PROVE  (PetersonTypes /\ PetersonLock /\ PetersonData)'
  <2>1. /\ at[p] = "store" /\ temp[p] = shared.data
        /\ shared' = [shared EXCEPT !.data = temp[p] + 1]
        /\ at' = [at EXCEPT ![p] = "leave"]
        /\ UNCHANGED <<temp, left, stores>>
    BY <1>0, <1>7, StoresAtOnce DEF StoreData, Written, Go, PetersonData
  <2>2. ~Inside(Peer(p))
    BY <1>0, <2>1 DEF PetersonLock, Inside, PetersonTypes
  <2>3. PetersonTypes'
    BY <1>0, <2>1, <2>2 DEF PetersonTypes, Places
  <2>4. PetersonLock'
    BY <1>0, <2>1, <2>2 DEF PetersonTypes, PetersonLock, Inside
  <2>5. PetersonData'
    BY <1>0, <2>1, <2>2, IterationsAssumption
    DEF PetersonTypes, PetersonData, Updates, Inside
  <2> QED
    BY <2>3, <2>4, <2>5
<1>8. ASSUME NEW p \in Both, ClearFlag(p)
      PROVE  (PetersonTypes /\ PetersonLock /\ PetersonData)'
  <2>1. /\ at[p] = "leave" /\ left[p] > 0
        /\ shared' = [shared EXCEPT !.flag = [@ EXCEPT ![p] = FALSE]]
        /\ at' = [at EXCEPT ![p] = "flag"]
        /\ left' = [left EXCEPT ![p] = @ - 1]
        /\ UNCHANGED <<temp, stores>>
    BY <1>0, <1>8, StoresAtOnce DEF ClearFlag, Written, Go, PetersonData
  <2>3. PetersonTypes'
    BY <1>0, <2>1 DEF PetersonTypes, Places
  <2>4. PetersonLock'
    BY <1>0, <2>1 DEF PetersonTypes, PetersonLock, Inside
  <2>5. PetersonData'
    BY <1>0, <2>1, IterationsAssumption DEF PetersonTypes, PetersonData, Updates
  <2> QED
    BY <2>3, <2>4, <2>5
<1>9. ASSUME NEW p \in Both, Drain(p)
      PROVE  FALSE
  BY <1>0, <1>9 DEF Drain, PetersonTypes
<1> QED
  BY <1>1, <1>2, <1>3, <1>4, <1>5, <1>6, <1>7, <1>8, <1>9
  DEF PetersonNext, PetersonStep

\* In a build that delays no store, Peterson's lock excludes and loses no update,
\* for any number of iterations: shared_data ends at 2 * ITERATIONS + 1, and the
\* test of line 143 prints FAILED.
THEOREM PetersonExcludesAlways == PetersonSpec => []PetersonExcludes
<1>1. PetersonInv => PetersonExcludes
  BY IterationsAssumption
  DEF PetersonInv, PetersonTypes, PetersonLock, PetersonData, PetersonExcludes,
      PetersonJoined, Inside, Updates, Peer, Both
<1> QED
  BY PetersonInvInit, PetersonInvNext, <1>1, PTL DEF PetersonSpec

-----------------------------------------------------------------------------
(* The thread pool of Lab3/Advanced5.cpp.                                  *)

\* The members of a sequence that has grown at its end or lost its head.
LEMMA ToSetAppend ==
  ASSUME NEW S, NEW s \in Seq(S), NEW e \in S
  PROVE  ToSet(Append(s, e)) = ToSet(s) \union {e}
<1>1. /\ Len(s) \in Nat /\ DOMAIN s = 1..Len(s)
      /\ DOMAIN Append(s, e) = 1..(Len(s) + 1)
      /\ \A i \in 1..Len(s) : Append(s, e)[i] = s[i]
      /\ Append(s, e)[Len(s) + 1] = e
  OBVIOUS
<1>2. ASSUME NEW x \in ToSet(Append(s, e)) PROVE x \in ToSet(s) \union {e}
  <2>1. PICK i \in 1..(Len(s) + 1) : x = Append(s, e)[i]
    BY <1>1 DEF ToSet
  <2>2. CASE i \in 1..Len(s)
    BY <1>1, <2>1, <2>2 DEF ToSet
  <2>3. CASE i = Len(s) + 1
    BY <1>1, <2>1, <2>3
  <2> QED
    BY <1>1, <2>1, <2>2, <2>3
<1>3. ASSUME NEW x \in ToSet(s) \union {e} PROVE x \in ToSet(Append(s, e))
  <2>1. CASE x = e
    <3>1. Len(s) + 1 \in 1..(Len(s) + 1)
      BY <1>1
    <3> QED
      BY <1>1, <2>1, <3>1 DEF ToSet
  <2>2. CASE x \in ToSet(s)
    <3>1. PICK i \in 1..Len(s) : x = s[i]
      BY <1>1, <2>2 DEF ToSet
    <3>2. i \in 1..(Len(s) + 1)
      BY <1>1
    <3> QED
      BY <1>1, <3>1, <3>2 DEF ToSet
  <2> QED
    BY <2>1, <2>2
<1> QED
  BY <1>2, <1>3

LEMMA ToSetHeadTail ==
  ASSUME NEW S, NEW s \in Seq(S), s # <<>>
  PROVE  ToSet(s) = {Head(s)} \union ToSet(Tail(s))
<1>1. /\ Len(s) \in Nat \ {0} /\ DOMAIN s = 1..Len(s)
      /\ Head(s) = s[1]
      /\ DOMAIN Tail(s) = 1..(Len(s) - 1)
      /\ \A i \in 1..(Len(s) - 1) : Tail(s)[i] = s[i + 1]
  OBVIOUS
<1>2. ASSUME NEW x \in ToSet(s) PROVE x \in {Head(s)} \union ToSet(Tail(s))
  <2>1. PICK i \in 1..Len(s) : x = s[i]
    BY <1>1 DEF ToSet
  <2>2. CASE i = 1
    BY <1>1, <2>1, <2>2
  <2>3. CASE i # 1
    <3>1. i - 1 \in 1..(Len(s) - 1) /\ (i - 1) + 1 = i
      BY <1>1, <2>3
    <3>2. Tail(s)[i - 1] = x
      BY <1>1, <2>1, <3>1
    <3> QED
      BY <1>1, <3>1, <3>2 DEF ToSet
  <2> QED
    BY <2>2, <2>3
<1>3. ASSUME NEW x \in {Head(s)} \union ToSet(Tail(s)) PROVE x \in ToSet(s)
  <2>1. CASE x = Head(s)
    BY <1>1, <2>1 DEF ToSet
  <2>2. CASE x \in ToSet(Tail(s))
    <3>1. PICK i \in 1..(Len(s) - 1) : x = Tail(s)[i]
      BY <1>1, <2>2 DEF ToSet
    <3>2. i + 1 \in 1..Len(s) /\ x = s[i + 1]
      BY <1>1, <3>1
    <3> QED
      BY <1>1, <3>2 DEF ToSet
  <2> QED
    BY <2>1, <2>2
<1> QED
  BY <1>2, <1>3

WorkerPlaces == {"loop", "locking", "testing", "executing", "blocking", "asleep", "ended"}

\* The workers that will look for a task, and those that have one.
Awake == {w \in Workers : doing[w] \notin {"asleep", "blocking"}}
Busy == {w \in Workers : task[w] # 0}

PoolTypes ==
  /\ tasks \in Seq(Nat \ {0}) /\ executed \in Seq(Nat \ {0})
  /\ done \in BOOLEAN /\ added \in Nat
  /\ doing \in [Workers -> WorkerPlaces]
  /\ task \in [Workers -> Nat]
  /\ mainAt # "adding" => done

\* The mutex keeps the queue empty while a worker that has found it so goes to
\* sleep: nothing can be added between its test and its wait.
PoolMutex ==
  /\ \A w \in Workers : doing[w] \in {"testing", "blocking"} => mtx = w
  /\ \A w \in Workers : doing[w] = "blocking" => tasks = <<>>
  /\ \A w \in Workers : task[w] # 0 <=> doing[w] = "executing"

PoolSet == ToSet(tasks) \union InHand \union ToSet(executed) = 1..added

PoolCount == Len(tasks) + Cardinality(Busy) + Len(executed) = added

PoolAwake == Asleep # {} /\ ~done => Len(tasks) <= Cardinality(Awake)

PoolInv == PoolTypes /\ PoolMutex /\ PoolSet /\ PoolCount /\ PoolAwake

LEMMA PoolInvInit == PoolInit => PoolInv
<1> SUFFICES ASSUME PoolInit PROVE PoolInv
  OBVIOUS
<1>0. /\ doing = [w \in Workers |-> "loop"]
      /\ task = [w \in Workers |-> 0]
      /\ tasks = <<>> /\ executed = <<>> /\ done = FALSE /\ added = 0
      /\ mainAt = "adding"
  BY DEF PoolInit
<1>1. PoolTypes /\ PoolMutex
  <2>1. PoolTypes
    <3>1. tasks \in Seq(Nat \ {0}) /\ executed \in Seq(Nat \ {0})
      BY <1>0
    <3>2. doing \in [Workers -> WorkerPlaces] /\ task \in [Workers -> Nat]
      BY <1>0 DEF WorkerPlaces
    <3> QED
      BY <1>0, <3>1, <3>2 DEF PoolTypes
  <2>2. PoolMutex
    BY <1>0 DEF PoolMutex
  <2> QED
    BY <2>1, <2>2
<1>2. Busy = {} /\ InHand = {} /\ Asleep = {} /\ added = 0
  BY DEF PoolInit, Busy, InHand, Asleep
<1>3. ToSet(tasks) = {} /\ ToSet(executed) = {} /\ Len(tasks) = 0 /\ Len(executed) = 0
  BY DEF PoolInit, ToSet
<1>4. PoolSet /\ PoolCount /\ PoolAwake
  BY <1>2, <1>3, FS_EmptySet DEF PoolSet, PoolCount, PoolAwake
<1> QED
  BY <1>1, <1>4 DEF PoolInv

\* The sets of workers are finite, and gain or lose one worker at a time.
LEMMA WorkerSets ==
  ASSUME NEW S \in SUBSET Workers
  PROVE  /\ IsFiniteSet(S) /\ Cardinality(S) \in Nat
         /\ \A w : w \notin S => Cardinality(S \union {w}) = Cardinality(S) + 1
         /\ \A w : w \in S => Cardinality(S \ {w}) = Cardinality(S) - 1
         /\ \A T \in SUBSET S : Cardinality(T) <= Cardinality(S)
<1>1. IsFiniteSet(S)
  BY PoolAssumption, FS_Subset
<1> QED
  BY <1>1, FS_CardinalityType, FS_AddElement, FS_RemoveElement, FS_Subset

LEMMA PoolInvNext == PoolInv /\ [PoolNext]_poolVars => PoolInv'
<1> SUFFICES ASSUME PoolInv, [PoolNext]_poolVars
             PROVE  PoolInv'
  OBVIOUS
<1>0. PoolTypes /\ PoolMutex /\ PoolSet /\ PoolCount /\ PoolAwake
  BY DEF PoolInv
<1> USE <1>0
<1>1. CASE UNCHANGED poolVars
  BY <1>1
  DEF PoolInv, poolVars, PoolTypes, PoolMutex, PoolSet, PoolCount, PoolAwake, Busy, InHand,
      Asleep, Awake
\* A worker goes on and neither takes nor executes a task.
<1>2. ASSUME NEW w \in Workers, NEW place \in WorkerPlaces \ {"executing"},
             doing[w] # "executing",
             doing' = [doing EXCEPT ![w] = place],
             UNCHANGED <<tasks, done, task, executed, mainAt, added>>,
             PoolMutex',
             place = "asleep" => tasks = <<>>,
             place = "blocking" => tasks = <<>>,
             place = "ended" => done
      PROVE  PoolInv'
  <2>1. PoolTypes'
    BY <1>2 DEF PoolTypes
  <2>2. PoolSet' /\ PoolCount'
    BY <1>2 DEF PoolSet, PoolCount, Busy, InHand
  <2>3. PoolAwake'
    <3> SUFFICES ASSUME Asleep' # {}, ~done', tasks # <<>>
                 PROVE  Len(tasks) <= Cardinality(Awake')
      BY <1>2, WorkerSets DEF PoolAwake, PoolTypes, Awake
    <3>1. place \notin {"asleep", "blocking"}
      BY <1>2
    <3>2. Asleep # {} /\ Awake \subseteq Awake'
      BY <1>2, <3>1 DEF Asleep, Awake, PoolTypes
    <3>3. Awake' \in SUBSET Workers /\ Awake \in SUBSET Workers
      BY DEF Awake
    <3>4. Cardinality(Awake) <= Cardinality(Awake')
      BY <3>2, <3>3, WorkerSets
    <3> QED
      BY <1>2, <3>2, <3>3, <3>4, WorkerSets DEF PoolAwake, PoolTypes
  <2> QED
    BY <1>2, <2>1, <2>2, <2>3 DEF PoolInv
<1>3. ASSUME NEW w \in Workers, TestDone(w)
      PROVE  PoolInv'
  <2>1. PICK place \in {"ended", "locking"} :
          /\ doing' = [doing EXCEPT ![w] = place]
          /\ place = "ended" => done
    BY <1>3 DEF TestDone, Does
  <2>2. PoolMutex'
    BY <1>3, <2>1 DEF TestDone, PoolMutex, PoolTypes
  <2>3. place \in WorkerPlaces \ {"executing"} /\ place \notin {"asleep", "blocking"}
    BY DEF WorkerPlaces
  <2>4. doing[w] # "executing" /\ UNCHANGED <<tasks, done, task, executed, mainAt, added>>
    BY <1>3 DEF TestDone
  <2> QED
    BY <1>2, <2>1, <2>2, <2>3, <2>4
<1>4. ASSUME NEW w \in Workers, LockQueue(w)
      PROVE  PoolInv'
  <2>1. PoolMutex'
    BY <1>4, PoolAssumption DEF LockQueue, Does, PoolMutex, PoolTypes
  <2>2. /\ doing[w] # "executing" /\ doing' = [doing EXCEPT ![w] = "testing"]
        /\ UNCHANGED <<tasks, done, task, executed, mainAt, added>>
    BY <1>4, <2>1 DEF LockQueue, Does
  <2>3. "testing" \in WorkerPlaces \ {"executing"}
    BY DEF WorkerPlaces
  <2> QED
    BY <1>2, <2>1, <2>2, <2>3
<1>5. ASSUME NEW w \in Workers, LeaveLoop(w)
      PROVE  PoolInv'
  <2>1. PoolMutex'
    BY <1>5 DEF LeaveLoop, Does, PoolMutex, PoolTypes
  <2>2. /\ doing[w] # "executing" /\ doing' = [doing EXCEPT ![w] = "ended"]
        /\ UNCHANGED <<tasks, done, task, executed, mainAt, added>>
        /\ done
    BY <1>5, <2>1 DEF LeaveLoop, Does
  <2>3. "ended" \in WorkerPlaces \ {"executing"}
    BY DEF WorkerPlaces
  <2> QED
    BY <1>2, <2>1, <2>2, <2>3
<1>6. ASSUME NEW w \in Workers, PredicateFalse(w)
      PROVE  PoolInv'
  <2>1. PoolMutex'
    BY <1>6 DEF PredicateFalse, Does, PoolMutex, PoolTypes
  <2>2. /\ doing[w] # "executing" /\ doing' = [doing EXCEPT ![w] = "blocking"]
        /\ UNCHANGED <<tasks, done, task, executed, mainAt, added>>
        /\ tasks = <<>>
    BY <1>6, <2>1 DEF PredicateFalse, Does
  <2>3. "blocking" \in WorkerPlaces \ {"executing"}
    BY DEF WorkerPlaces
  <2> QED
    BY <1>2, <2>1, <2>2, <2>3
<1>7. ASSUME NEW w \in Workers, FallAsleep(w)
      PROVE  PoolInv'
  <2>1. PoolMutex' /\ tasks = <<>>
    BY <1>7 DEF FallAsleep, Does, PoolMutex, PoolTypes
  <2>2. /\ doing[w] # "executing" /\ doing' = [doing EXCEPT ![w] = "asleep"]
        /\ UNCHANGED <<tasks, done, task, executed, mainAt, added>>
        /\ tasks = <<>>
    BY <1>7, <2>1 DEF FallAsleep, Does
  <2>3. "asleep" \in WorkerPlaces \ {"executing"}
    BY DEF WorkerPlaces
  <2> QED
    BY <1>2, <2>1, <2>2, <2>3
<1>8. ASSUME NEW w \in Workers, WakeSpuriously(w)
      PROVE  PoolInv'
  <2>1. PoolMutex'
    BY <1>8 DEF WakeSpuriously, Does, PoolMutex, PoolTypes
  <2>2. /\ doing[w] # "executing" /\ doing' = [doing EXCEPT ![w] = "locking"]
        /\ UNCHANGED <<tasks, done, task, executed, mainAt, added>>
    BY <1>8, <2>1 DEF WakeSpuriously, Does
  <2>3. "locking" \in WorkerPlaces \ {"executing"}
    BY DEF WorkerPlaces
  <2> QED
    BY <1>2, <2>1, <2>2, <2>3
<1>9. ASSUME NEW w \in Workers, TakeTask(w)
      PROVE  PoolInv'
  <2>1. /\ doing[w] = "testing" /\ task[w] = 0 /\ w \in Awake /\ w \notin Busy
        /\ tasks # <<>> /\ tasks' = Tail(tasks) /\ mtx = w
        /\ task' = [task EXCEPT ![w] = Head(tasks)]
        /\ doing' = [doing EXCEPT ![w] = "executing"]
        /\ UNCHANGED <<done, executed, mainAt, added>>
    BY <1>9 DEF TakeTask, Does, PoolMutex, PoolTypes, Awake, Busy
  <2>2. /\ Head(tasks) \in Nat \ {0} /\ Tail(tasks) \in Seq(Nat \ {0})
        /\ Len(tasks) \in Nat /\ Len(Tail(tasks)) = Len(tasks) - 1
    BY <2>1, HeadTailProperties, LenProperties DEF PoolTypes
  <2>3. PoolTypes'
    BY <2>1, <2>2 DEF PoolTypes, WorkerPlaces
  <2>4. PoolMutex'
    BY <2>1, <2>2, <1>9, PoolAssumption DEF PoolMutex, PoolTypes, TakeTask
  <2>5. PoolSet'
    <3>1. InHand' = InHand \union {Head(tasks)}
      BY <2>1, <2>2 DEF InHand, PoolTypes
    <3>2. ToSet(tasks) = {Head(tasks)} \union ToSet(tasks')
      BY <2>1, ToSetHeadTail DEF PoolTypes
    <3> QED
      BY <2>1, <3>1, <3>2 DEF PoolSet
  <2>6. PoolCount'
    <3>1. Busy' = Busy \union {w} /\ Busy \in SUBSET Workers
      BY <2>1, <2>2 DEF Busy, PoolTypes
    <3>2. Cardinality(Busy') = Cardinality(Busy) + 1 /\ Cardinality(Busy) \in Nat
      BY <2>1, <3>1, WorkerSets
    <3>3. Len(executed) \in Nat
      BY LenProperties DEF PoolTypes
    <3> QED
      BY <2>1, <2>2, <3>2, <3>3 DEF PoolCount
  <2>7. PoolAwake'
    <3>1. Asleep' = Asleep /\ Awake' = Awake /\ Awake \in SUBSET Workers
      BY <2>1 DEF Asleep, Awake, PoolTypes
    <3> QED
      BY <2>1, <2>2, <3>1, WorkerSets DEF PoolAwake
  <2> QED
    BY <2>3, <2>4, <2>5, <2>6, <2>7 DEF PoolInv
<1>10. ASSUME NEW w \in Workers, Execute(w)
       PROVE  PoolInv'
  <2>1. /\ doing[w] = "executing" /\ task[w] # 0 /\ w \in Busy
        /\ executed' = Append(executed, task[w])
        /\ task' = [task EXCEPT ![w] = 0]
        /\ doing' = [doing EXCEPT ![w] = "loop"]
        /\ UNCHANGED <<tasks, done, mtx, mainAt, added>>
    BY <1>10 DEF Execute, Does, PoolMutex, Busy
  <2>2. /\ task[w] \in Nat \ {0} /\ executed' \in Seq(Nat \ {0})
        /\ Len(executed) \in Nat /\ Len(executed') = Len(executed) + 1
    BY <2>1, AppendProperties, LenProperties DEF PoolTypes
  <2>3. PoolTypes'
    BY <2>1, <2>2 DEF PoolTypes, WorkerPlaces
  <2>4. PoolMutex'
    BY <2>1 DEF PoolMutex, PoolTypes
  <2>5. PoolSet'
    <3>1. InHand = InHand' \union {task[w]}
      BY <2>1, <2>2 DEF InHand, PoolTypes
    <3>2. ToSet(executed') = ToSet(executed) \union {task[w]}
      BY SMTT(30), <2>1, <2>2, ToSetAppend DEF PoolTypes
    <3> QED
      BY <2>1, <3>1, <3>2 DEF PoolSet
  <2>6. PoolCount'
    <3>1. Busy' = Busy \ {w} /\ Busy \in SUBSET Workers
      BY <2>1 DEF Busy, PoolTypes
    <3>2. Cardinality(Busy') = Cardinality(Busy) - 1 /\ Cardinality(Busy) \in Nat
      BY <2>1, <3>1, WorkerSets
    <3>3. Len(tasks) \in Nat
      BY LenProperties DEF PoolTypes
    <3>4. tasks' = tasks /\ added' = added
      BY <2>1
    <3> QED
      BY <2>2, <3>2, <3>3, <3>4 DEF PoolCount
  <2>7. PoolAwake'
    <3>1. Asleep' = Asleep /\ Awake' = Awake
      BY <2>1 DEF Asleep, Awake, PoolTypes
    <3> QED
      BY <2>1, <3>1 DEF PoolAwake
  <2> QED
    BY <2>3, <2>4, <2>5, <2>6, <2>7 DEF PoolInv
<1>11. CASE AddTask
  <2>1. PICK S \in NotifiedForTask : doing' = [w \in Workers |-> IF w \in S THEN "locking" ELSE doing[w]]
    BY <1>11 DEF AddTask, Wake
  <2>2. /\ mtx = NoWorker /\ added' = added + 1 /\ tasks' = Append(tasks, added + 1)
        /\ UNCHANGED <<done, mtx, task, executed, mainAt>>
        /\ added + 1 \in Nat \ {0}
    BY <1>11 DEF AddTask, PoolTypes
  <2>3. /\ tasks' \in Seq(Nat \ {0})
        /\ Len(tasks) \in Nat /\ Len(tasks') = Len(tasks) + 1 /\ Len(executed) \in Nat
    BY <2>2, AppendProperties, LenProperties DEF PoolTypes
  <2>4. S \subseteq Asleep
    BY DEF NotifiedForTask
  <2>5. PoolTypes'
    BY <2>1, <2>2, <2>3 DEF PoolTypes, WorkerPlaces
  <2>6. PoolMutex'
    BY <2>1, <2>2, <2>4, PoolAssumption DEF PoolMutex, PoolTypes, Asleep
  <2>7. PoolSet'
    <3>0. tasks \in Seq(Nat \ {0})
      BY DEF PoolTypes
    <3>1. ToSet(tasks') = ToSet(tasks) \union {added + 1}
      BY <2>2, <3>0, ToSetAppend
    <3>2. 1..(added + 1) = 1..added \union {added + 1}
      BY DEF PoolTypes
    <3>3. InHand' = InHand
      BY <2>2 DEF InHand
    <3> QED
      BY <2>2, <3>1, <3>2, <3>3 DEF PoolSet
  <2>8. PoolCount'
    <3>1. Busy' = Busy /\ Busy \in SUBSET Workers
      BY <2>2 DEF Busy
    <3>2. Cardinality(Busy) \in Nat
      BY <3>1, WorkerSets
    <3> QED
      BY <2>2, <2>3, <3>1, <3>2 DEF PoolCount, PoolTypes
  <2>9. PoolAwake'
    <3> SUFFICES ASSUME Asleep' # {}, ~done
                 PROVE  Len(tasks') <= Cardinality(Awake')
      BY <2>2 DEF PoolAwake
    <3>1. PICK v \in Asleep : S = {v}
      BY <2>1, <2>4 DEF NotifiedForTask, Asleep
    <3>2. v \notin Awake /\ Awake' = Awake \union {v} /\ Awake \in SUBSET Workers
      BY <2>1, <3>1 DEF Awake, Asleep
    <3>3. Cardinality(Awake') = Cardinality(Awake) + 1 /\ Cardinality(Awake) \in Nat
      BY <3>2, WorkerSets
    <3> QED
      BY <2>3, <3>1, <3>3 DEF PoolAwake
  <2> QED
    BY <2>5, <2>6, <2>7, <2>8, <2>9 DEF PoolInv
<1>12. CASE StoreDone
  BY <1>12
  DEF PoolInv, StoreDone, PoolTypes, PoolMutex, PoolSet, PoolCount, PoolAwake, Busy, InHand
<1>13. CASE NotifyEnd
  <2>1. /\ doing' = [w \in Workers |-> IF w \in Asleep THEN "locking" ELSE doing[w]]
        /\ mainAt' = "joining" /\ done = TRUE
        /\ UNCHANGED <<tasks, done, mtx, task, executed, added>>
    BY <1>13 DEF NotifyEnd, Wake, NotifiedAtEnd, PoolTypes
  <2>2. PoolTypes'
    BY <2>1 DEF PoolTypes, WorkerPlaces
  <2>3. PoolMutex'
    BY <2>1 DEF PoolMutex, PoolTypes, Asleep
  <2>4. PoolSet' /\ PoolCount' /\ PoolAwake'
    BY <2>1 DEF PoolSet, PoolCount, PoolAwake, Busy, InHand
  <2> QED
    BY <2>2, <2>3, <2>4 DEF PoolInv
<1>14. CASE JoinWorkers
  BY <1>14
  DEF PoolInv, JoinWorkers, PoolTypes, PoolMutex, PoolSet, PoolCount, PoolAwake, Busy, InHand,
      Asleep, Awake
<1> QED
  BY <1>1, <1>3, <1>4, <1>5, <1>6, <1>7, <1>8, <1>9, <1>10, <1>11, <1>12, <1>13, <1>14
  DEF PoolNext, PoolMain, WorkerStep

\* For any number of workers and tasks, the pool loses no task, executes none
\* twice, and until done is stored leaves none in the queue that no worker
\* outside the wait will look for, whoever each notify_one wakes.
THEOREM PoolLosesNothingAlways == PoolSpec => []PoolLosesNothing
<1>1. PoolInv => PoolLosesNothing
  BY DEF PoolInv, PoolSet, PoolCount, PoolAwake, PoolLosesNothing, Busy, Awake
<1> QED
  BY PoolInvInit, PoolInvNext, <1>1, PTL DEF PoolSpec
=============================================================================
