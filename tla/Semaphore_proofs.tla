-------------------------- MODULE Semaphore_proofs --------------------------
(***************************************************************************)
(* Proofs about the class Semaphore for any finite set of threads and any  *)
(* initial count.                                                          *)
(***************************************************************************)
EXTENDS Semaphore, FiniteSetTheorems, TLAPS

-----------------------------------------------------------------------------
\* Typing is inductive by itself: the count is only decremented when it is
\* positive, which is what keeps it a natural number.
LEMMA TypeStep == TypeOK /\ [Next]_vars => TypeOK'
<1> SUFFICES ASSUME TypeOK, [Next]_vars PROVE TypeOK'
    OBVIOUS
<1> USE DEF TypeOK, PC
<1>1. ASSUME NEW t \in Threads, NEW from, NEW to \in PC, Lock(t, from, to)
      PROVE TypeOK'
  BY <1>1 DEF Lock
<1>2. ASSUME NEW t \in Threads, Step(t) PROVE TypeOK'
  <2>1. CASE BeginAcquire(t) \/ Relock(t) \/ BeginRelease(t)
    BY <2>1, <1>1 DEF BeginAcquire, Relock, BeginRelease
  <2>2. CASE TakePermit(t)
    BY <2>2 DEF TakePermit
  <2>3. CASE Block(t)
    BY <2>3 DEF Block
  <2>4. CASE TryAcquire(t)
    BY <2>4 DEF TryAcquire
  <2>5. CASE Release(t)
    BY <2>5 DEF Release, Waiters, At
  <2>6. QED
    BY <1>2, <2>1, <2>2, <2>3, <2>4, <2>5 DEF Step
<1>3. ASSUME NEW t \in Threads, BeginTryAcquire(t) PROVE TypeOK'
  BY <1>3, <1>1 DEF BeginTryAcquire
<1>4. ASSUME NEW t \in Threads, SpuriousWakeup(t) PROVE TypeOK'
  BY <1>4 DEF SpuriousWakeup
<1>5. CASE UNCHANGED vars
  BY <1>5 DEF vars
<1>6. QED
  BY <1>2, <1>3, <1>4, <1>5 DEF Next, Finished

\* TypeCorrect: the count of the semaphore never goes below zero and every
\* thread stays inside the code of process_task.
THEOREM TypeCorrect == Spec => []TypeOK
<1>1. Init => TypeOK
  BY PermitsAssumption DEF Init, TypeOK, PC
<1>2. QED
  BY <1>1, TypeStep, PTL DEF Spec

-----------------------------------------------------------------------------
\* Every step of the class is, seen from outside, a P(), a V() or nothing.
LEMMA StepRefines ==
  TypeOK /\ [Next]_vars => [Abstract!Next]_<<count, Holders>>
<1> SUFFICES ASSUME TypeOK, [Next]_vars
             PROVE  Abstract!Next \/ UNCHANGED <<count, Holders>>
    OBVIOUS
<1> USE DEF TypeOK, Holders, At
<1>1. ASSUME NEW t \in Threads, NEW from, NEW to, Lock(t, from, to),
             from \in {"working", "releasing"} <=> to \in {"working", "releasing"}
      PROVE UNCHANGED <<count, Holders>>
  BY <1>1 DEF Lock
<1>2. ASSUME NEW t \in Threads, TakePermit(t) PROVE Abstract!Take(t)
  BY <1>2 DEF TakePermit, Abstract!Take
<1>3. ASSUME NEW t \in Threads, TryAcquire(t)
      PROVE Abstract!Take(t) \/ UNCHANGED <<count, Holders>>
  BY <1>3 DEF TryAcquire, Abstract!Take
<1>4. ASSUME NEW t \in Threads, Release(t) PROVE Abstract!Give(t)
  <2>1. /\ t \in Holders
        /\ Holders' = Holders \ {t}
    BY <1>4 DEF Release, Waiters
  <2>2. count' = count + 1
    BY <1>4 DEF Release
  <2>3. QED
    BY <2>1, <2>2 DEF Abstract!Give
<1>5. ASSUME NEW t \in Threads, Block(t) \/ SpuriousWakeup(t)
      PROVE UNCHANGED <<count, Holders>>
  BY <1>5 DEF Block, SpuriousWakeup
<1>6. ASSUME NEW t \in Threads, Step(t) \/ BeginTryAcquire(t)
      PROVE Abstract!Next \/ UNCHANGED <<count, Holders>>
  <2>1. CASE BeginAcquire(t)
    BY <2>1, <1>1 DEF BeginAcquire
  <2>2. CASE BeginTryAcquire(t)
    BY <2>2, <1>1 DEF BeginTryAcquire
  <2>3. CASE Relock(t)
    BY <2>3, <1>1 DEF Relock
  <2>4. CASE BeginRelease(t)
    BY <2>4, <1>1 DEF BeginRelease
  <2>5. QED
    BY <1>2, <1>3, <1>4, <1>5, <1>6, <2>1, <2>2, <2>3, <2>4
    DEF Step, Abstract!Next
<1>7. CASE UNCHANGED vars
  BY <1>7 DEF vars
<1>8. QED
  BY <1>5, <1>6, <1>7 DEF Next, Finished

\* ImplementationCorrect: with its mutex, its wait set, barging newcomers
\* and spurious wakeups, the class implements a counting semaphore.
THEOREM ImplementationCorrect == Spec => ImplementsCountingSemaphore
<1>1. Init => Abstract!Init
  BY DEF Init, Abstract!Init, Holders, At
<1>2. QED
  BY <1>1, StepRefines, TypeCorrect, PTL
  DEF Spec, ImplementsCountingSemaphore, Abstract!Spec

-----------------------------------------------------------------------------
\* The sets of threads counted below are finite.
LEMMA SetsFinite ==
  /\ IsFiniteSet(Holders) /\ Cardinality(Holders) \in Nat
  /\ IsFiniteSet(Woken) /\ Cardinality(Woken) \in Nat
BY ThreadsAssumption, FS_Subset, FS_CardinalityType DEF Holders, Woken, At

\* Conservation: P() and V() move one permit between the pool and a thread,
\* so the permits out and the permits left always add up to initial_count.
THEOREM Conservation == Spec => []PermitsConserved
<1>1. Init => PermitsConserved
  BY PermitsAssumption, FS_EmptySet DEF Init, PermitsConserved, Holders, At
<1>2. TypeOK /\ PermitsConserved /\ [Next]_vars => PermitsConserved'
  <2> SUFFICES ASSUME TypeOK, PermitsConserved, [Next]_vars
               PROVE  PermitsConserved'
      OBVIOUS
  <2>0. IsFiniteSet(Holders) /\ Cardinality(Holders) \in Nat /\ count \in Nat
    BY SetsFinite DEF TypeOK
  <2>1. ASSUME NEW t \in Threads, Abstract!Take(t) PROVE PermitsConserved'
    <3>1. Cardinality(Holders \union {t}) = Cardinality(Holders) + 1
      BY <2>0, <2>1, FS_AddElement DEF Abstract!Take
    <3>2. Holders' = Holders \union {t} /\ count' = count - 1
      BY <2>1 DEF Abstract!Take
    <3>3. QED
      BY <2>0, <3>1, <3>2 DEF PermitsConserved
  <2>2. ASSUME NEW t \in Threads, Abstract!Give(t) PROVE PermitsConserved'
    <3>1. Cardinality(Holders \ {t}) = Cardinality(Holders) - 1
      BY <2>0, <2>2, FS_RemoveElement DEF Abstract!Give
    <3>2. Holders' = Holders \ {t} /\ count' = count + 1
      BY <2>2 DEF Abstract!Give
    <3>3. QED
      BY <2>0, <3>1, <3>2 DEF PermitsConserved
  <2>3. CASE UNCHANGED <<count, Holders>>
    BY <2>3 DEF PermitsConserved
  <2>4. QED
    BY <2>1, <2>2, <2>3, StepRefines DEF Abstract!Next
<1>3. QED
  BY <1>1, <1>2, TypeCorrect, PTL DEF Spec

-----------------------------------------------------------------------------
\* WakeupPending: no wakeup is lost.  A release that finds a waiter puts one
\* more thread among the woken, a thread goes to sleep only when the count is
\* zero, and a woken thread leaves the woken with a permit or with the count
\* at zero.
THEOREM WakeupPending == Spec => []NoLostWakeup
<1>1. Init => NoLostWakeup
  BY DEF Init, NoLostWakeup, Waiters, At
<1>2. TypeOK /\ NoLostWakeup /\ [Next]_vars => NoLostWakeup'
  <2> SUFFICES ASSUME TypeOK, NoLostWakeup, [Next]_vars
               PROVE  NoLostWakeup'
      OBVIOUS
  <2>0. IsFiniteSet(Woken) /\ Cardinality(Woken) \in Nat /\ count \in Nat
    BY SetsFinite DEF TypeOK
  <2>1. ASSUME NEW t \in Threads, NEW from, NEW to, Lock(t, from, to),
               from \in {"woken", "retesting"} <=> to \in {"woken", "retesting"},
               from # "waiting", to # "waiting"
        PROVE NoLostWakeup'
    <3>1. UNCHANGED <<count, Woken, Waiters>>
      BY <2>1 DEF Lock, TypeOK, Woken, Waiters, At
    <3>2. QED
      BY <3>1 DEF NoLostWakeup
  <2>2. ASSUME NEW t \in Threads, Waiters' = Waiters, count' = count - 1,
               Woken' = Woken \/ (t \in Woken /\ Woken' = Woken \ {t})
        PROVE NoLostWakeup'
    <3>1. Cardinality(Woken') \in {Cardinality(Woken), Cardinality(Woken) - 1}
      BY <2>0, <2>2, FS_RemoveElement
    <3>2. QED
      BY <2>0, <2>2, <3>1 DEF NoLostWakeup
  <2>3. ASSUME NEW t \in Threads, TakePermit(t) PROVE NoLostWakeup'
    <3>1. Waiters' = Waiters /\ count' = count - 1
      BY <2>3 DEF TakePermit, TypeOK, Waiters, At
    <3>2. CASE pc[t] = "testing"
      <4>1. Woken' = Woken
        BY <2>3, <3>2 DEF TakePermit, TypeOK, Woken, At
      <4>2. QED
        BY <2>2, <3>1, <4>1
    <3>3. CASE pc[t] = "retesting"
      <4>1. t \in Woken /\ Woken' = Woken \ {t}
        BY <2>3, <3>3 DEF TakePermit, TypeOK, Woken, At
      <4>2. QED
        BY <2>2, <3>1, <4>1
    <3>4. QED
      BY <2>3, <3>2, <3>3 DEF TakePermit
  <2>4. ASSUME NEW t \in Threads, Block(t) PROVE NoLostWakeup'
    <3>1. count' = 0
      BY <2>0, <2>4 DEF Block
    <3>2. Cardinality(Woken)' \in Nat
      <4>1. IsFiniteSet(Woken')
        BY ThreadsAssumption, FS_Subset DEF Woken, At
      <4>2. QED
        BY <4>1, FS_CardinalityType
    <3>3. QED
      BY <3>1, <3>2 DEF NoLostWakeup
  <2>5. ASSUME NEW t \in Threads, TryAcquire(t) PROVE NoLostWakeup'
    <3>1. UNCHANGED <<Waiters, Woken>>
      BY <2>5 DEF TryAcquire, TypeOK, Waiters, Woken, At
    <3>2. count' = count - 1 \/ count' = count
      BY <2>5 DEF TryAcquire
    <3>3. QED
      BY <2>0, <3>1, <3>2 DEF NoLostWakeup
  <2>6. ASSUME NEW w, w \notin Woken, Woken' = Woken \union {w},
               Waiters' = Waiters \ {w}, w \in Waiters,
               count' \in {count, count + 1}
        PROVE NoLostWakeup'
    <3>1. Cardinality(Woken') = Cardinality(Woken) + 1
      BY <2>0, <2>6, FS_AddElement
    <3>2. Waiters # {}
      BY <2>6
    <3>3. QED
      BY <2>0, <2>6, <3>1, <3>2 DEF NoLostWakeup
  <2>7. ASSUME NEW t \in Threads, Release(t) PROVE NoLostWakeup'
    <3>1. CASE Waiters = {} /\ pc' = [pc EXCEPT ![t] = "done"]
      <4>1. Waiters' = {}
        BY <3>1 DEF TypeOK, Waiters, At
      <4>2. QED
        BY <4>1 DEF NoLostWakeup
    <3>2. ASSUME NEW w \in Waiters,
                 pc' = [pc EXCEPT ![t] = "done", ![w] = "woken"]
          PROVE NoLostWakeup'
      <4>1. pc[t] = "releasing" /\ count' = count + 1
        BY <2>7 DEF Release
      <4>2. /\ w \notin Woken /\ Woken' = Woken \union {w}
            /\ Waiters' = Waiters \ {w}
        BY <3>2, <4>1 DEF TypeOK, Waiters, Woken, At
      <4>3. QED
        BY <2>6, <4>1, <4>2
    <3>3. QED
      BY <2>7, <3>1, <3>2 DEF Release
  <2>8. ASSUME NEW t \in Threads, SpuriousWakeup(t) PROVE NoLostWakeup'
    <3>1. /\ t \in Waiters /\ t \notin Woken /\ Woken' = Woken \union {t}
          /\ Waiters' = Waiters \ {t} /\ count' = count
      BY <2>8 DEF SpuriousWakeup, TypeOK, Waiters, Woken, At
    <3>2. QED
      BY <2>6, <3>1
  <2>9. CASE UNCHANGED vars
    BY <2>9 DEF vars, NoLostWakeup, Waiters, Woken, At
  <2>10. QED
    <3>1. ASSUME NEW t \in Threads, Step(t) \/ BeginTryAcquire(t)
          PROVE NoLostWakeup'
      <4>1. CASE BeginAcquire(t) \/ BeginTryAcquire(t)
        BY <4>1, <2>1 DEF BeginAcquire, BeginTryAcquire
      <4>2. CASE Relock(t)
        BY <4>2, <2>1 DEF Relock
      <4>3. CASE BeginRelease(t)
        BY <4>3, <2>1 DEF BeginRelease
      <4>4. QED
        BY <3>1, <4>1, <4>2, <4>3, <2>3, <2>4, <2>5, <2>7 DEF Step
    <3>2. QED
      BY <3>1, <2>8, <2>9 DEF Next, Finished
<1>3. QED
  BY <1>1, <1>2, TypeCorrect, PTL DEF Spec
=============================================================================
