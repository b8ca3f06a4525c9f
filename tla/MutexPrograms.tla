---------------------------- MODULE MutexPrograms ----------------------------
(***************************************************************************)
(* Threads that lock and unlock std::mutex objects in a fixed order.       *)
(*                                                                         *)
(* Several programs of the labs share this shape: each thread is a         *)
(* straight-line sequence of lock, unlock and std::lock calls, and what    *)
(* may go wrong is decided by the order of the calls.  The sequences are   *)
(* data (the module LabMutexPrograms translates them from the sources);    *)
(* this module is the machine that runs them.                              *)
(***************************************************************************)
EXTENDS Integers, Sequences, FiniteSets

CONSTANTS Threads,  \* the threads of the programs
          Mutexes,  \* the mutexes, numbered
          NoThread, \* owner of an unlocked mutex
          Programs  \* the programs: what each of their threads executes

Instruction ==
       [op : {"lock", "unlock"}, on : Mutexes]
  \union [op : {"lock_all"}, on : Mutexes \X Mutexes]

ASSUME ThreadsAssumption == IsFiniteSet(Threads) /\ NoThread \notin Threads
ASSUME MutexesAssumption == IsFiniteSet(Mutexes) /\ Mutexes \subseteq Nat
ASSUME ProgramsAssumption == Programs \subseteq [Threads -> Seq(Instruction)]

VARIABLES prog,   \* the program that runs
          pc,     \* per thread, the index of its next instruction
          owner,  \* per mutex, the thread that holds it
          lead,   \* per thread, which of its two mutexes std::lock locks first
          trying  \* threads inside std::lock that have locked the first one

vars == <<prog, pc, owner, lead, trying>>

Init ==
  /\ prog \in Programs
  /\ pc = [t \in Threads |-> 1]
  /\ owner = [m \in Mutexes |-> NoThread]
  /\ lead = [t \in Threads |-> 1]
  /\ trying = {}

Finished(t) == pc[t] > Len(prog[t])

\* t is about to call op on `on`.
Calls(t, op, on) ==
  ~Finished(t) /\ prog[t][pc[t]] = [op |-> op, on |-> on]

Advance(t) == pc' = [pc EXCEPT ![t] = @ + 1]

\* The mutex that std::lock(pair) of t locks first, and the one it tries.
Leading(t, pair) == pair[lead[t]]
Other(t, pair)   == pair[3 - lead[t]]

-----------------------------------------------------------------------------
(* Mutated forms of the operations below, as plausible bugs.               *)

\* An unlock that is left out.
ForgetUnlock(t, m) ==
  /\ Calls(t, "unlock", m)
  /\ owner[m] = t
  /\ Advance(t)
  /\ UNCHANGED <<prog, owner, lead, trying>>

-----------------------------------------------------------------------------
\* m.lock(): blocks while m is held, also when t holds it itself (a
\* std::mutex is not recursive: glibc blocks the thread for good).
Lock(t, m) ==
  /\ Calls(t, "lock", m)
  /\ owner[m] = NoThread
  /\ owner' = [owner EXCEPT ![m] = t]
  /\ Advance(t)
  /\ UNCHANGED <<prog, lead, trying>>

Unlock(t, m) ==
  /\ Calls(t, "unlock", m)
  /\ owner[m] = t
  /\ owner' = [owner EXCEPT ![m] = NoThread]
  /\ Advance(t)
  /\ UNCHANGED <<prog, lead, trying>>

\* std::lock(a, b): lock one of the two, blocking, and try the other; when
\* that fails unlock the first and start again, from either of them (libstdc++
\* starts from a in its older versions and from the one that was taken in its
\* newer ones).
LockFirst(t, pair) ==
  /\ t \notin trying
  /\ Calls(t, "lock_all", pair)
  /\ owner[Leading(t, pair)] = NoThread
  /\ owner' = [owner EXCEPT ![Leading(t, pair)] = t]
  /\ trying' = trying \union {t}
  /\ UNCHANGED <<prog, pc, lead>>

TryOther(t, pair) ==
  /\ t \in trying
  /\ Calls(t, "lock_all", pair)
  /\ trying' = trying \ {t}
  /\ UNCHANGED prog
  /\ \/ /\ owner[Other(t, pair)] = NoThread
        /\ owner' = [owner EXCEPT ![Other(t, pair)] = t]
        /\ lead' = [lead EXCEPT ![t] = 1]
        /\ Advance(t)
     \/ /\ owner[Other(t, pair)] # NoThread
        /\ owner' = [owner EXCEPT ![Leading(t, pair)] = NoThread]
        /\ \E first \in {1, 2} : lead' = [lead EXCEPT ![t] = first]
        /\ UNCHANGED pc

Step(t) ==
  \/ \E m \in Mutexes : Lock(t, m) \/ Unlock(t, m)
  \/ \E pair \in Mutexes \X Mutexes : LockFirst(t, pair) \/ TryOther(t, pair)

\* main has joined every thread.
AllFinished == \A t \in Threads : Finished(t)
Joined == AllFinished /\ UNCHANGED vars

Next == (\E t \in Threads : Step(t)) \/ Joined

\* A thread that can run is scheduled; a mutex is not fair.
Spec == Init /\ [][Next]_vars /\ \A t \in Threads : WF_vars(Step(t))

-----------------------------------------------------------------------------
\* t is blocked on m: it calls lock, or starts std::lock, and the mutex it
\* asks for is held.
WaitsFor(t, m) ==
  /\ owner[m] # NoThread
  /\ \/ Calls(t, "lock", m)
     \/ /\ t \notin trying
        /\ \E pair \in Mutexes \X Mutexes :
             Calls(t, "lock_all", pair) /\ Leading(t, pair) = m

Blocked(t) == \E m \in Mutexes : WaitsFor(t, m)

\* Some thread is left, and no thread can move.
Stuck == ~AllFinished /\ \A t \in Threads : Finished(t) \/ Blocked(t)

\* Instruction c of a sequence locks m.
Locks(c, m) ==
  \/ c = [op |-> "lock", on |-> m]
  \/ c.op = "lock_all" /\ (c.on[1] = m \/ c.on[2] = m)

\* The mutexes held when the sequence p comes to its instruction i: those
\* locked by an earlier instruction and not unlocked since.
HeldBefore(p, i) ==
  {m \in Mutexes :
     \E j \in 1..i - 1 :
       /\ Locks(p[j], m)
       /\ \A k \in j + 1..i - 1 : p[k] # [op |-> "unlock", on |-> m]}

\* The sequence p locks a single mutex only if it is above all those it
\* holds, uses std::lock only when it holds none, unlocks only what it holds
\* and ends holding nothing.
Disciplined(p) ==
  /\ \A i \in 1..Len(p) :
       \/ \E m \in Mutexes :
            /\ p[i] = [op |-> "lock", on |-> m]
            /\ \A h \in HeldBefore(p, i) : h < m
       \/ \E m \in HeldBefore(p, i) : p[i] = [op |-> "unlock", on |-> m]
       \/ p[i].op = "lock_all" /\ HeldBefore(p, i) = {}
  /\ HeldBefore(p, Len(p) + 1) = {}

OwnedBy(t) == {m \in Mutexes : owner[m] = t}

\* What std::lock of t has locked so far.
Tentative(t) ==
  IF t \in trying THEN {Leading(t, prog[t][pc[t]].on)} ELSE {}

-----------------------------------------------------------------------------
TypeOK ==
  /\ prog \in Programs
  /\ pc \in [Threads -> Nat \ {0}]
  /\ \A t \in Threads : pc[t] <= Len(prog[t]) + 1
  /\ owner \in [Mutexes -> Threads \union {NoThread}]
  /\ lead \in [Threads -> {1, 2}]
  /\ \A t \in trying : t \in Threads /\ ~Finished(t)
                       /\ prog[t][pc[t]].op = "lock_all"

\* HoldsWhatItLocked: the mutexes a thread owns are those its finished calls
\* have locked and not unlocked, and the one std::lock holds for the moment:
\* nobody else took one of them meanwhile, and none stays behind, or is given
\* back too much, when std::lock backs off.
HoldsWhatItLocked ==
  \A t \in Threads :
    /\ OwnedBy(t) = HeldBefore(prog[t], pc[t]) \union Tentative(t)
    /\ HeldBefore(prog[t], pc[t]) \intersect Tentative(t) = {}

\* DisciplinePreventsDeadlock: threads that lock in ascending order (Lab5,
\* "avoid deadlock by ordering") or all at once with std::lock (Lab3) never
\* reach a state in which none of them can move, in any mixture.
DisciplinePreventsDeadlock ==
  (\A t \in Threads : Disciplined(prog[t])) => ~Stuck
=============================================================================
