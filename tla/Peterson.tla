------------------------------- MODULE Peterson -------------------------------
(***************************************************************************)
(* PetersonSolution of Lab5/synchronization_tools.cpp.  flag and turn are  *)
(* plain variables, so that the program has a data race; the model has the *)
(* outcomes of three builds of it:                                         *)
(*   "in_order"  every access happens where it is written;                 *)
(*   "buffered"  the hardware keeps stores in a queue per thread and lets  *)
(*               later loads pass them, as x86 does;                       *)
(*   "hoisted"   the compiler reads flag and turn once before the loop and *)
(*               then repeats an empty loop for good.                      *)
(***************************************************************************)
EXTENDS Integers, Sequences, SequencesExt

CONSTANT ITERATIONS

ASSUME IterationsAssumption == ITERATIONS \in Nat \ {0}

Both == {0, 1}
Peer(p) == 1 - p
Builds == {"in_order", "buffered", "hoisted"}

VARIABLES build,
          shared,       \* memory: flag[0], flag[1], turn and shared_data
          stores,       \* the stores of each process that are not in memory yet
          at,           \* where a process is
          temp,
          left          \* the iterations a process has still to make

petersonVars == <<build, shared, stores, at, temp, left>>

PetersonInit ==
  /\ build \in Builds
  /\ shared = [flag |-> [p \in Both |-> FALSE], turn |-> 0, data |-> 1]
  /\ stores = [p \in Both |-> <<>>]
  /\ at = [p \in Both |-> "flag"]
  /\ temp = [p \in Both |-> 0]
  /\ left = [p \in Both |-> ITERATIONS]

-----------------------------------------------------------------------------
\* Memory when process p has stored value v in the variable x.
Written(memory_, p, x, v) ==
  IF x = "flag" THEN [memory_ EXCEPT !.flag[p] = v] ELSE [memory_ EXCEPT ![x] = v]

\* What process p reads: its own stores come first.
Seen(p) ==
  IF build = "buffered"
  THEN FoldLeft(LAMBDA m, s : Written(m, p, s.var, s.val), shared, stores[p])
  ELSE shared

Store(p, x, v) ==
  IF build = "buffered"
  THEN /\ stores' = [stores EXCEPT ![p] = Append(@, [var |-> x, val |-> v])]
       /\ UNCHANGED shared
  ELSE /\ shared' = Written(shared, p, x, v)
       /\ UNCHANGED stores

Drain(p) ==
  /\ stores[p] # <<>>
  /\ shared' = Written(shared, p, Head(stores[p]).var, Head(stores[p]).val)
  /\ stores' = [stores EXCEPT ![p] = Tail(@)]
  /\ UNCHANGED <<build, at, temp, left>>

Go(p, place) == at' = [at EXCEPT ![p] = place]

-----------------------------------------------------------------------------
(* Mutated forms of the operations below.                                  *)

\* A process leaves the turn to itself.
SetTurnToItself(p) ==
  /\ at[p] = "turn"
  /\ Store(p, "turn", p)
  /\ Go(p, "testFlag")
  /\ UNCHANGED <<build, temp, left>>

-----------------------------------------------------------------------------
SetFlag(p) ==
  /\ at[p] = "flag" /\ left[p] > 0
  /\ Store(p, "flag", TRUE)
  /\ Go(p, "turn")
  /\ UNCHANGED <<build, temp, left>>

SetTurn(p) ==
  /\ at[p] = "turn"
  /\ Store(p, "turn", Peer(p))
  /\ Go(p, "testFlag")
  /\ UNCHANGED <<build, temp, left>>

TestFlag(p) ==
  /\ at[p] = "testFlag"
  /\ Go(p, IF Seen(p).flag[Peer(p)] THEN "testTurn" ELSE "load")
  /\ UNCHANGED <<build, shared, stores, temp, left>>

TestTurn(p) ==
  /\ at[p] = "testTurn"
  /\ Go(p, IF Seen(p).turn # Peer(p) THEN "load"
           ELSE IF build = "hoisted" THEN "spinning" ELSE "testFlag")
  /\ UNCHANGED <<build, shared, stores, temp, left>>

LoadData(p) ==
  /\ at[p] = "load"
  /\ temp' = [temp EXCEPT ![p] = Seen(p).data]
  /\ Go(p, "store")
  /\ UNCHANGED <<build, shared, stores, left>>

StoreData(p) ==
  /\ at[p] = "store"
  /\ Store(p, "data", temp[p] + 1)
  /\ Go(p, "leave")
  /\ UNCHANGED <<build, temp, left>>

ClearFlag(p) ==
  /\ at[p] = "leave"
  /\ Store(p, "flag", FALSE)
  /\ left' = [left EXCEPT ![p] = @ - 1]
  /\ Go(p, "flag")
  /\ UNCHANGED <<build, temp>>

PetersonStep(p) ==
  \/ SetFlag(p) \/ SetTurn(p) \/ TestFlag(p) \/ TestTurn(p)
  \/ LoadData(p) \/ StoreData(p) \/ ClearFlag(p)

PetersonNext == \E p \in Both : PetersonStep(p) \/ Drain(p)

PetersonSpec == PetersonInit /\ [][PetersonNext]_petersonVars

-----------------------------------------------------------------------------
\* Both threads have been joined, which drains their stores.
PetersonJoined == \A p \in Both : left[p] = 0 /\ stores[p] = <<>>

\* If no store is delayed, at most one process is between its load and its
\* store of shared_data, and no update is lost: shared_data, which starts at 1,
\* ends one above the expected 2 * ITERATIONS, and line 143 prints FAILED.  It
\* prints SUCCESS only when the lock has failed.
PetersonExcludes ==
  build # "buffered" =>
    /\ ~ \A p \in Both : at[p] \in {"load", "store", "leave"}
    /\ PetersonJoined => shared.data = 2 * ITERATIONS + 1
=============================================================================
