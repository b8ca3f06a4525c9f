---------------------------- MODULE SharedCounter ----------------------------
(***************************************************************************)
(* Threads that update one shared number, each in its own way of being (or *)
(* not being) careful:                                                     *)
(*   "none"   Lab5 RaceConditionDemo, Lab5/test-thread.cpp: counter++      *)
(*   "tas"    Lab5 HardwareInstructions::safe_increment_tas                *)
(*   "cas"    Lab5 HardwareInstructions, the lambda cas_increment          *)
(*   "mutex"  Lab5 MutexDemo, Lab3/Practice3.cpp, and the bank account of  *)
(*            Lab3/Advanced1.cpp, where one thread deposits and one        *)
(*            withdraws what the balance allows                            *)
(* An update is a load and a store of the number.                          *)
(***************************************************************************)
EXTENDS Integers, FiniteSets

CONSTANTS Threads,  \* the threads of a demonstration
          NoThread, \* nobody
          Rounds,   \* ITERATIONS: updates each thread makes
          Cases     \* the demonstrations: their discipline, initial value
                    \* and what each thread adds

Disciplines == {"none", "tas", "cas", "mutex"}

ASSUME ThreadsAssumption ==
  IsFiniteSet(Threads) /\ Threads # {} /\ NoThread \notin Threads
ASSUME RoundsAssumption == Rounds \in Nat
ASSUME CasesAssumption ==
  Cases \subseteq [discipline : Disciplines, start : Nat, adds : [Threads -> Int]]

VARIABLES case,    \* the demonstration that runs
          shared,  \* shared_counter, cas_counter, counter or balance
          holder,  \* who set lock_var or holds mtx
          pc,      \* where each thread is in its loop
          reg,     \* the value each thread loaded
          round,   \* updates each thread has made
          due      \* history: the initial value and every update since

vars == <<case, shared, holder, pc, reg, round, due>>

PC == {"enter",  \* at the top of the loop
       "load", "store",
       "exit"}   \* about to unlock

Critical(t) == pc[t] \in {"load", "store", "exit"}

Locked == case.discipline \in {"tas", "mutex"}

Done(t) == round[t] = Rounds /\ pc[t] = "enter"

Init ==
  /\ case \in Cases
  /\ shared = case.start
  /\ holder = NoThread
  /\ pc = [t \in Threads |-> "enter"]
  /\ reg = [t \in Threads |-> 0]
  /\ round = [t \in Threads |-> 0]
  /\ due = case.start

Goto(t, label) == pc' = [pc EXCEPT ![t] = label]

-----------------------------------------------------------------------------
(* Mutated forms of the operations below.                                  *)

\* The exchange is made, and its result not looked at.
TestAndSetIgnored(t) ==
  /\ case.discipline = "tas"
  /\ pc[t] = "enter" /\ round[t] < Rounds
  /\ holder' = t
  /\ Goto(t, "load")
  /\ UNCHANGED <<case, shared, reg, round, due>>

\* A plain store in place of the compare-and-swap.
StoreWithoutCompare(t) ==
  /\ case.discipline = "cas"
  /\ pc[t] = "store"
  /\ shared' = reg[t] + 1
  /\ due' = due + 1
  /\ round' = [round EXCEPT ![t] = @ + 1]
  /\ Goto(t, "enter")
  /\ UNCHANGED <<case, holder, reg>>

\* The loop runs to i <= ITERATIONS.
StoreOneTooMany(t) ==
  /\ case.discipline = "none"
  /\ pc[t] = "store"
  /\ \E k \in 1..Rounds - round[t] :
       /\ shared' = reg[t] + k + (IF round[t] + k = Rounds THEN 1 ELSE 0)
       /\ due' = due + k
       /\ round' = [round EXCEPT ![t] = @ + k]
  /\ Goto(t, "enter")
  /\ UNCHANGED <<case, holder, reg>>

\* A lock that is not released after the last round.
ReleaseNotLast(t) ==
  /\ pc[t] = "exit"
  /\ holder' = IF round[t] = Rounds THEN holder ELSE NoThread
  /\ Goto(t, "enter")
  /\ UNCHANGED <<case, shared, reg, round, due>>

-----------------------------------------------------------------------------
\* What t makes of the value v: withdraw leaves a balance it would overdraw
\* alone ("insufficient funds"); the other threads add what is not negative.
Updated(t, v) ==
  IF v + case.adds[t] >= 0 THEN v + case.adds[t] ELSE v

\* while (test_and_set(lock_var)): the exchange that finds false ends the
\* loop, the others change nothing.
TestAndSet(t) ==
  /\ case.discipline = "tas"
  /\ pc[t] = "enter" /\ round[t] < Rounds
  /\ holder = NoThread
  /\ holder' = t
  /\ Goto(t, "load")
  /\ UNCHANGED <<case, shared, reg, round, due>>

\* mtx.lock()
Lock(t) ==
  /\ case.discipline = "mutex"
  /\ pc[t] = "enter" /\ round[t] < Rounds
  /\ holder = NoThread
  /\ holder' = t
  /\ Goto(t, "load")
  /\ UNCHANGED <<case, shared, reg, round, due>>

\* The load of an update: of counter++ in a critical section, of counter++
\* without one, or cas_counter.load().
Load(t) ==
  /\ \/ pc[t] = "load"
     \/ pc[t] = "enter" /\ round[t] < Rounds /\ ~Locked
  /\ reg' = [reg EXCEPT ![t] = shared]
  /\ Goto(t, "store")
  /\ UNCHANGED <<case, shared, holder, round, due>>

\* The store of an update in a critical section.
Store(t) ==
  /\ Locked
  /\ pc[t] = "store"
  /\ shared' = Updated(t, reg[t])
  /\ due' = Updated(t, due)
  /\ round' = [round EXCEPT ![t] = @ + 1]
  /\ Goto(t, "exit")
  /\ UNCHANGED <<case, holder, reg>>

\* lock_var.store(false), mtx.unlock()
Release(t) ==
  /\ pc[t] = "exit"
  /\ holder' = NoThread
  /\ Goto(t, "enter")
  /\ UNCHANGED <<case, shared, reg, round, due>>

\* The store of an unprotected counter++.  The counter is not atomic, so the
\* compiler may keep it in a register for any number k of rounds.
StoreRacing(t) ==
  /\ case.discipline = "none"
  /\ pc[t] = "store"
  /\ \E k \in 1..Rounds - round[t] :
       /\ shared' = reg[t] + k
       /\ due' = due + k
       /\ round' = [round EXCEPT ![t] = @ + k]
  /\ Goto(t, "enter")
  /\ UNCHANGED <<case, holder, reg>>

\* compare_exchange_weak succeeds: nobody changed the counter since the load
\* (or it has the same value again).
CompareAndSwap(t) ==
  /\ case.discipline = "cas"
  /\ pc[t] = "store"
  /\ shared = reg[t]
  /\ shared' = reg[t] + 1
  /\ due' = due + 1
  /\ round' = [round EXCEPT ![t] = @ + 1]
  /\ Goto(t, "enter")
  /\ UNCHANGED <<case, holder, reg>>

\* compare_exchange_weak fails, and the do loop loads again.
CompareFails(t) ==
  /\ case.discipline = "cas"
  /\ pc[t] = "store"
  /\ shared # reg[t]
  /\ Goto(t, "enter")
  /\ UNCHANGED <<case, shared, holder, reg, round, due>>

\* The weak form may fail although the values are equal.
SpuriousFailure(t) ==
  /\ case.discipline = "cas"
  /\ pc[t] = "store"
  /\ shared = reg[t]
  /\ Goto(t, "enter")
  /\ UNCHANGED <<case, shared, holder, reg, round, due>>

Step(t) ==
  \/ TestAndSet(t) \/ Lock(t) \/ Load(t) \/ Store(t) \/ Release(t)
  \/ StoreRacing(t) \/ CompareAndSwap(t) \/ CompareFails(t)

AllDone == \A t \in Threads : Done(t)
Joined == AllDone /\ UNCHANGED vars

Next == (\E t \in Threads : Step(t) \/ SpuriousFailure(t)) \/ Joined

\* A thread that can run is scheduled, and a compare-and-swap does not fail
\* without a reason for ever.
Fairness ==
  /\ \A t \in Threads : WF_vars(Step(t))
  /\ <>[][~ \E t \in Threads : SpuriousFailure(t)]_vars

Spec == Init /\ [][Next]_vars /\ Fairness

-----------------------------------------------------------------------------
TypeOK ==
  /\ case \in Cases
  /\ shared \in Nat
  /\ holder \in Threads \union {NoThread}
  /\ pc \in [Threads -> PC]
  /\ reg \in [Threads -> Nat]
  /\ round \in [Threads -> 0..Rounds]
  /\ due \in Int

\* Exclusive: between exchange and store(false), or lock and unlock, a thread
\* is alone.
Exclusive ==
  Locked => \A t \in Threads : Critical(t) => holder = t

\* NothingLost: under each of the three disciplines the number is at all
\* times what it would be if every update were one atomic step: none is lost
\* between its load and its store.
NothingLost == case.discipline # "none" => shared = due

\* RaceBounds: without one, two threads that finish leave at least 2 and at
\* most what they counted ("Difference" is never negative), and one round
\* each may leave 1.
RaceBounds ==
  AllDone => /\ shared <= due
             /\ case.discipline = "none" => shared >= (IF Rounds < 2 THEN Rounds ELSE 2)

\* EveryoneFinishes: the spinning and the retrying end.
EveryoneFinishes == <>AllDone
=============================================================================
