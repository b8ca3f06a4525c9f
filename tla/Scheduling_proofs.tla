--------------------------- MODULE Scheduling_proofs ---------------------------
(***************************************************************************)
(* The two schedulers of Lab4.  MultiProcessor, for any number of cores,   *)
(* any tasks and affinities and any threshold: no task is lost or run      *)
(* twice, however cores, thieves and the balancer interleave, and main     *)
(* stops the threads only when all tasks have run.  CPUScheduling, for any *)
(* tables and any quantum: every policy reports times one CPU could have   *)
(* produced, and round robin lets nobody wait longer than a quantum for    *)
(* each other process.                                                     *)
(***************************************************************************)
EXTENDS MultiProcessor, CPUScheduling, FiniteSetTheorems, SequenceTheorems,
        WellFoundedInduction, TLAPS

-----------------------------------------------------------------------------
(* Queues without repetition.                                              *)

Once(q) == \A i, j \in 1..Len(q) : q[i] = q[j] => i = j

LEMMA TailTakes ==
  ASSUME NEW S, NEW q \in Seq(S), q # <<>>, Once(q)
  PROVE  /\ Head(q) \in S /\ Head(q) \in Range(q)
         /\ Tail(q) \in Seq(S) /\ Once(Tail(q))
         /\ Range(Tail(q)) = Range(q) \ {Head(q)}
<1>1. /\ Head(q) \in S /\ Tail(q) \in Seq(S)
      /\ Len(q) \in Nat \ {0} /\ Len(Tail(q)) = Len(q) - 1
      /\ \A i \in 1..Len(Tail(q)) : Tail(q)[i] = q[i + 1]
      /\ Head(q) = q[1]
  BY HeadTailProperties, EmptySeq
<1>2. Range(q) = {q[i] : i \in 1..Len(q)}
  BY RangeEquality
<1>3. Range(Tail(q)) = {Tail(q)[i] : i \in 1..Len(Tail(q))}
  BY <1>1, RangeEquality
<1>4. Once(Tail(q))
  <2> SUFFICES ASSUME NEW i \in 1..Len(Tail(q)), NEW j \in 1..Len(Tail(q)),
                      Tail(q)[i] = Tail(q)[j]
               PROVE  i = j
    BY DEF Once
  <2>1. i + 1 \in 1..Len(q) /\ j + 1 \in 1..Len(q) /\ q[i + 1] = q[j + 1]
    BY <1>1
  <2> QED
    BY <2>1 DEF Once
<1>5. ASSUME NEW x \in Range(Tail(q))
      PROVE  x \in Range(q) \ {Head(q)}
  <2>1. PICK i \in 1..Len(Tail(q)) : x = Tail(q)[i]
    BY <1>3
  <2>2. i + 1 \in 1..Len(q) /\ i + 1 # 1 /\ 1 \in 1..Len(q) /\ x = q[i + 1]
    BY <1>1, <2>1
  <2> QED
    BY <1>1, <1>2, <2>2 DEF Once
<1>6. ASSUME NEW x \in Range(q) \ {Head(q)}
      PROVE  x \in Range(Tail(q))
  <2>1. PICK i \in 1..Len(q) : x = q[i]
    BY <1>2
  <2>2. i - 1 \in 1..Len(Tail(q)) /\ (i - 1) + 1 = i
    BY <1>1, <2>1
  <2>3. x = Tail(q)[i - 1]
    BY <1>1, <2>1, <2>2
  <2> QED
    BY <1>3, <2>2, <2>3
<1>7. Head(q) \in Range(q)
  BY <1>1, <1>2
<1> QED
  BY <1>1, <1>4, <1>5, <1>6, <1>7

LEMMA AppendPuts ==
  ASSUME NEW S, NEW q \in Seq(S), NEW x \in S, x \notin Range(q), Once(q)
  PROVE  /\ Append(q, x) \in Seq(S) /\ Once(Append(q, x))
         /\ Range(Append(q, x)) = Range(q) \union {x}
<1>1. /\ Append(q, x) \in Seq(S)
      /\ Len(q) \in Nat /\ Len(Append(q, x)) = Len(q) + 1
      /\ \A i \in 1..Len(q) : Append(q, x)[i] = q[i]
      /\ Append(q, x)[Len(q) + 1] = x
  BY AppendProperties, LenProperties
<1>2. Range(q) = {q[i] : i \in 1..Len(q)}
  BY RangeEquality
<1>3. Range(Append(q, x)) = {Append(q, x)[i] : i \in 1..Len(q) + 1}
  BY <1>1, RangeEquality
<1>4. \A i \in 1..Len(q) + 1 : i \in 1..Len(q) \/ i = Len(q) + 1
  BY <1>1
<1>5. Once(Append(q, x))
  <2> SUFFICES ASSUME NEW i \in 1..Len(q) + 1, NEW j \in 1..Len(q) + 1,
                      Append(q, x)[i] = Append(q, x)[j]
               PROVE  i = j
    BY <1>1 DEF Once
  <2>1. \A k \in 1..Len(q) : q[k] # x
    BY <1>2
  <2> QED
    BY <1>1, <1>4, <2>1 DEF Once
<1>6. \A k \in 1..Len(q) : k \in 1..Len(q) + 1
  BY <1>1
<1>7. Len(q) + 1 \in 1..Len(q) + 1
  BY <1>1
<1>8. Range(Append(q, x)) \subseteq Range(q) \union {x}
  BY <1>1, <1>2, <1>3, <1>4
<1>9. Range(q) \union {x} \subseteq Range(Append(q, x))
  BY <1>1, <1>2, <1>3, <1>6, <1>7
<1> QED
  BY <1>1, <1>5, <1>8, <1>9

-----------------------------------------------------------------------------
(* What main has added.                                                    *)

Added(n) == {Tasks[i] : i \in 1..n}

LEMMA AddedCardinality ==
  ASSUME NEW n \in 0..Len(Tasks)
  PROVE  IsFiniteSet(Added(n)) /\ Cardinality(Added(n)) = n
<1>1. Len(Tasks) \in Nat
  BY TasksAssumption, LenProperties
<1>2. DEFINE f == [i \in 1..n |-> Tasks[i]]
<1>3. f \in Bijection(1..n, Added(n))
  <2>1. \A i, j \in 1..n : f[i] = f[j] => i = j
    BY <1>1, TasksAssumption
  <2> QED
    BY <2>1 DEF Bijection, Injection, Surjection, IsInjective, Added
<1>4. IsFiniteSet(1..n) /\ Cardinality(1..n) = n
  BY FS_Interval
<1> QED
  BY <1>3, <1>4, FS_Bijection DEF ExistsBijection

LEMMA EverythingAdded ==
  /\ Everything = Added(Len(Tasks)) /\ Len(Tasks) \in Nat
  /\ IsFiniteSet(Everything) /\ Cardinality(Everything) = Len(Tasks)
<1>1. Len(Tasks) \in Nat
  BY TasksAssumption, LenProperties
<1>2. Everything = Added(Len(Tasks))
  BY DEF Everything, Added
<1>3. IsFiniteSet(Added(Len(Tasks))) /\ Cardinality(Added(Len(Tasks))) = Len(Tasks)
  BY <1>1, AddedCardinality
<1> QED
  BY <1>1, <1>2, <1>3

\* A queue without repetition is not longer than Tasks.
LEMMA OnceIsShort ==
  ASSUME NEW q \in Seq(Everything), Once(q)
  PROVE  Len(q) \in 0..Len(Tasks)
<1>1. Len(q) \in Nat /\ q \in [1..Len(q) -> Everything]
  BY LenProperties
<1>2. q \in Injection(1..Len(q), Everything)
  BY <1>1 DEF Once, Injection, IsInjective
<1>3. Cardinality(1..Len(q)) <= Len(Tasks)
  BY <1>2, EverythingAdded, FS_Injection
<1> QED
  BY <1>1, <1>3, EverythingAdded, FS_Interval

-----------------------------------------------------------------------------
(* Who holds which task.                                                   *)

\* No element is held twice; and what is held at all.
Apart(H, held) == \A h1, h2 \in H : h1 # h2 => held[h1] \intersect held[h2] = {}
Union(H, held) == UNION {held[h] : h \in H}

\* The element x goes from a to b.
Moved(H, held, new, x, a, b) ==
  /\ a \in H /\ b \in H /\ a # b /\ x \in held[a]
  /\ \A h \in H : new[h] = IF h = a THEN held[h] \ {x}
                           ELSE IF h = b THEN held[h] \union {x} ELSE held[h]

LEMMA MoveKeeps ==
  ASSUME NEW H, NEW held, NEW new, NEW x, NEW a, NEW b,
         Apart(H, held), Moved(H, held, new, x, a, b)
  PROVE  Apart(H, new) /\ Union(H, new) = Union(H, held)
<1> USE DEF Moved
<1>1. \A h \in H : \A y : y \in new[h] => y \in held[h] \/ (h = b /\ y = x)
  OBVIOUS
<1>2. \A h \in H : x \in new[h] => h = b
  BY DEF Apart
<1>3. Apart(H, new)
  BY <1>1, <1>2 DEF Apart
<1>4. \A y : (\E h \in H : y \in new[h]) <=> (\E h \in H : y \in held[h])
  OBVIOUS
<1> QED
  BY <1>3, <1>4 DEF Union

\* b gets x, which nobody held.
Put(H, held, new, x, b) ==
  /\ b \in H /\ \A h \in H : x \notin held[h]
  /\ \A h \in H : new[h] = IF h = b THEN held[h] \union {x} ELSE held[h]

LEMMA AddKeeps ==
  ASSUME NEW H, NEW held, NEW new, NEW x, NEW b,
         Apart(H, held), Put(H, held, new, x, b)
  PROVE  Apart(H, new) /\ Union(H, new) = Union(H, held) \union {x}
<1> USE DEF Put
<1>2. Apart(H, new)
  BY DEF Apart
<1>3. \A y : (\E h \in H : y \in new[h]) <=> (y = x \/ \E h \in H : y \in held[h])
  OBVIOUS
<1>4. \A y : y \in Union(H, new) <=> (y \in Union(H, held) \/ y = x)
  BY <1>3 DEF Union
<1> QED
  BY <1>2, <1>4

\* a gives x away.
Removed(H, held, new, x, a) ==
  /\ a \in H /\ x \in held[a]
  /\ \A h \in H : new[h] = IF h = a THEN held[h] \ {x} ELSE held[h]

LEMMA RemoveKeeps ==
  ASSUME NEW H, NEW held, NEW new, NEW x, NEW a,
         Apart(H, held), Removed(H, held, new, x, a)
  PROVE  Apart(H, new) /\ Union(H, new) = Union(H, held) \ {x}
<1> USE DEF Removed
<1>1. \A h \in H : x \notin new[h]
  BY DEF Apart
<1>2. Apart(H, new)
  BY DEF Apart
<1>3. \A y : (\E h \in H : y \in new[h]) <=> (y # x /\ \E h \in H : y \in held[h])
  BY <1>1
<1> QED
  BY <1>2, <1>3 DEF Union

Local(c) == <<"local", c>>
Core(c)  == <<"core", c>>
Global   == <<"global", NoCore>>
Balancer == <<"balancer", NoCore>>

Holders == {Local(c) : c \in Cores} \union {Core(c) : c \in Cores}
           \union {Global, Balancer}

Held ==
  [h \in Holders |->
     CASE h[1] = "local"  -> Range(local_queue[h[2]])
       [] h[1] = "core"   -> {task[h[2]]} \ {NoTask}
       [] h[1] = "global" -> Range(global_queue)
       [] OTHER           -> {migrated} \ {NoTask}]

\* Held, holder by holder.
HeldIs ==
  /\ \A c \in Cores : /\ Held[Local(c)] = Range(local_queue[c])
                      /\ Held[Core(c)] = {task[c]} \ {NoTask}
  /\ Held[Global] = Range(global_queue)
  /\ Held[Balancer] = {migrated} \ {NoTask}

LEMMA HeldFacts == HeldIs
  BY DEF HeldIs, Held, Holders, Local, Core, Global, Balancer

LEMMA HeldFactsNext == HeldIs'
  BY HeldFacts, PTL

LEMMA HoldersDiffer ==
  /\ \A c, d : /\ Local(c) # Core(d) /\ Local(c) # Global /\ Local(c) # Balancer
               /\ Core(c) # Global /\ Core(c) # Balancer
               /\ (Local(c) = Local(d) => c = d) /\ (Core(c) = Core(d) => c = d)
  /\ Global # Balancer
  BY DEF Local, Core, Global, Balancer

-----------------------------------------------------------------------------
(* The inductive invariant.                                                *)

\* The tasks that main has added and that have not been executed are held,
\* each by one holder, once.
PlaceInv ==
  /\ \A c \in Cores : Once(local_queue[c])
  /\ Once(global_queue)
  /\ Apart(Holders, Held)
  /\ Union(Holders, Held) = Added(added) \ executed
  /\ executed \subseteq Added(added)

\* Who is where holds what; a scan stays within the cores; the balancer
\* migrates between cores that it has seen.
PcInv ==
  /\ \A c \in Cores : /\ pc[c] = "executing" <=> task[c] # NoTask
                      /\ pc[c] = "rescan" => look[c].i < NumCores
  /\ bpc = "put" <=> migrated # NoTask
  /\ mpc = "adding" => added < Len(Tasks)
  /\ mpc = "count" => added > 0
  /\ mpc \notin {"adding", "count"} => added = Len(Tasks)

BalanceInv ==
  /\ balance.max_load > 0 => balance.max_core \in Cores
  /\ IF balance.i = 0 THEN balance.min_load = Len(Tasks) + 1 ELSE balance.min_core \in Cores
  /\ bpc \in {"migrate", "put"} => balance.max_core \in Cores /\ balance.min_core \in Cores

\* active_tasks and completed_tasks, with what is on the way to them.
Counting == {c \in Cores : pc[c] = "counting"}

CountInv ==
  /\ active_tasks = added - (IF mpc = "count" THEN 1 ELSE 0) - Cardinality(executed)
  /\ completed_tasks + Cardinality(Counting) = Cardinality(executed)

IInv == TypeOK /\ PlaceInv /\ PcInv /\ BalanceInv /\ CountInv /\ CompletionMeansExecuted

LEMMA IInvInit == Init => IInv
<1> SUFFICES ASSUME Init PROVE IInv
  OBVIOUS
<1>0. Len(Tasks) \in Nat /\ NumCores \in Nat \ {0} /\ 0 \in Cores
  BY EverythingAdded, NumCoresAssumption DEF Cores
<1>1. TypeOK
  <2>1. /\ local_queue \in [Cores -> Seq(Everything)]
        /\ global_queue \in Seq(Everything)
    BY EmptySeq DEF Init
  <2>2. /\ look \in [Cores -> [i : 0..NumCores, max_load : 0..Len(Tasks),
                               victim : Cores \union {NoCore}]]
        /\ balance \in [i : 0..NumCores,
                        max_load : 0..Len(Tasks), max_core : Cores \union {NoCore},
                        min_load : 0..Len(Tasks) + 1, min_core : Cores \union {NoCore}]
    BY <1>0 DEF Init, NoLook, NoBalance
  <2>3. mpc \in MainPC /\ pc \in [Cores -> CorePC] /\ bpc \in BalancerPC
    BY DEF Init, MainPC, CorePC, BalancerPC
  <2> QED
    BY <1>0, <2>1, <2>2, <2>3 DEF Init, TypeOK
<1>2. PlaceInv
  <2>1. /\ \A c \in Cores : Range(local_queue[c]) = {} /\ task[c] = NoTask
        /\ Range(global_queue) = {} /\ migrated = NoTask
    BY DEF Init, Range
  <2>2. \A h \in Holders : Held[h] = {}
    BY <2>1, HeldFacts DEF HeldIs, Holders
  <2>3. Apart(Holders, Held) /\ Union(Holders, Held) = {}
    BY <2>2 DEF Apart, Union
  <2>4. Added(added) = {} /\ executed = {}
    BY DEF Init, Added
  <2> QED
    BY <2>3, <2>4 DEF PlaceInv, Init, Once
<1>3. PcInv /\ BalanceInv
  BY <1>0, EmptySeq DEF Init, PcInv, BalanceInv, NoBalance
<1>4. CountInv
  <2>1. Counting = {} /\ executed = {} /\ mpc # "count"
    BY DEF Init, Counting
  <2> QED
    BY <2>1, FS_EmptySet DEF CountInv, Init
<1> QED
  BY <1>1, <1>2, <1>3, <1>4 DEF IInv, CompletionMeansExecuted, Init

-----------------------------------------------------------------------------
(* Every step moves at most one task from one holder to another.           *)

LEMMA HolderCases ==
  ASSUME NEW h \in Holders
  PROVE  \/ h = Global \/ h = Balancer
         \/ \E d \in Cores : h = Local(d) \/ h = Core(d)
  BY DEF Holders

\* A core that has no task takes one.
LEMMA CoreTakes ==
  ASSUME TypeOK, NEW c \in Cores, NEW x, x # NoTask, task[c] = NoTask,
         task' = [task EXCEPT ![c] = x]
  PROVE  \A d \in Cores :
           Held'[Core(d)] = IF d = c THEN Held[Core(d)] \union {x} ELSE Held[Core(d)]
<1>1. Held[Core(c)] = {} /\ Held'[Core(c)] = {x}
  <2>1. task'[c] = x
    BY DEF TypeOK
  <2>2. Held[Core(c)] = {task[c]} \ {NoTask} /\ Held'[Core(c)] = {task'[c]} \ {NoTask}
    BY HeldFacts, HeldFactsNext DEF HeldIs
  <2> QED
    BY <2>1, <2>2
<1>2. ASSUME NEW d \in Cores, d # c
      PROVE  Held'[Core(d)] = Held[Core(d)]
  <2>1. task'[d] = task[d]
    BY <1>2 DEF TypeOK
  <2>2. Held[Core(d)] = {task[d]} \ {NoTask} /\ Held'[Core(d)] = {task'[d]} \ {NoTask}
    BY HeldFacts, HeldFactsNext DEF HeldIs
  <2> QED
    BY <2>1, <2>2
<1> QED
  BY <1>1, <1>2

\* The moves that start at the head of a local queue.
LEMMA TakeFromLocal ==
  ASSUME IInv, NEW c \in Cores, NEW b \in Holders, b # Local(c),
         local_queue[c] # <<>>,
         local_queue' = [local_queue EXCEPT ![c] = Tail(@)],
         UNCHANGED <<global_queue, added, executed>>,
         \A h \in Holders : h # Local(c) =>
            Held'[h] = IF h = b THEN Held[h] \union {Head(local_queue[c])} ELSE Held[h]
  PROVE  PlaceInv'
<1> DEFINE x == Head(local_queue[c])
<1>1. local_queue \in [Cores -> Seq(Everything)]
  BY DEF IInv, TypeOK
<1>2. /\ x \in Range(local_queue[c]) /\ Once(Tail(local_queue[c]))
      /\ Range(Tail(local_queue[c])) = Range(local_queue[c]) \ {x}
  BY <1>1, TailTakes DEF IInv, PlaceInv
<1>3. Local(c) \in Holders
  BY DEF Holders
<1>4. x \in Held[Local(c)] /\ Held'[Local(c)] = Held[Local(c)] \ {x}
  BY <1>1, <1>2, HeldFacts, HeldFactsNext DEF HeldIs
<1>5. Apart(Holders, Held') /\ Union(Holders, Held') = Union(Holders, Held)
  <2>1. \A h \in Holders : Held'[h] = IF h = Local(c) THEN Held[h] \ {x}
                                     ELSE IF h = b THEN Held[h] \union {x} ELSE Held[h]
    BY <1>4
  <2>2. Moved(Holders, Held, Held', x, Local(c), b)
    BY <1>3, <1>4, <2>1 DEF Moved
  <2>3. Apart(Holders, Held)
    BY DEF IInv, PlaceInv
  <2> QED
    BY <2>2, <2>3, MoveKeeps
<1>6. (\A d \in Cores : Once(local_queue[d]))'
  BY <1>1, <1>2 DEF IInv, PlaceInv
<1> QED
  BY <1>5, <1>6 DEF IInv, PlaceInv

LEMMA TakeLocalPlaces ==
  ASSUME IInv, NEW c \in Cores, TakeLocal(c)
  PROVE  PlaceInv'
<1>1. task[c] = NoTask /\ task \in [Cores -> Everything \union {NoTask}]
  BY DEF IInv, PcInv, TypeOK, TakeLocal
<1>2. Head(local_queue[c]) # NoTask
  BY TailTakes, TasksAssumption DEF IInv, TypeOK, PlaceInv, TakeLocal
<1>3. \A h \in Holders : h # Local(c) =>
        Held'[h] = IF h = Core(c) THEN Held[h] \union {Head(local_queue[c])} ELSE Held[h]
  <2>1. \A d \in Cores : Held'[Core(d)] =
          IF d = c THEN Held[Core(d)] \union {Head(local_queue[c])} ELSE Held[Core(d)]
    BY <1>1, <1>2, CoreTakes DEF TakeLocal, IInv
  <2>2. /\ \A d \in Cores : d # c => local_queue'[d] = local_queue[d]
        /\ UNCHANGED <<global_queue, migrated>>
    BY DEF IInv, TypeOK, TakeLocal, balancer
  <2>3. ASSUME NEW d \in Cores, d # c
        PROVE  Held'[Local(d)] = Held[Local(d)]
    BY <2>2, <2>3, HeldFacts, HeldFactsNext DEF HeldIs
  <2>4. Held'[Global] = Held[Global] /\ Held'[Balancer] = Held[Balancer]
    BY <2>2, HeldFacts, HeldFactsNext DEF HeldIs
  <2> QED
    BY <2>1, <2>3, <2>4, HolderCases, HoldersDiffer
<1>4. Core(c) \in Holders /\ Core(c) # Local(c)
  BY HoldersDiffer DEF Holders
<1> QED
  BY <1>3, <1>4, TakeFromLocal DEF TakeLocal, main

LEMMA StealPlaces ==
  ASSUME IInv, NEW c \in Cores, Steal(c)
  PROVE  PlaceInv'
<1> DEFINE victim == look[c].victim
<1>0. victim \in Cores /\ local_queue[victim] # <<>>
  BY DEF IInv, TypeOK, Steal
<1>1. task[c] = NoTask /\ task \in [Cores -> Everything \union {NoTask}]
  BY DEF IInv, PcInv, TypeOK, Steal
<1>2. Head(local_queue[victim]) # NoTask
  BY <1>0, TailTakes, TasksAssumption DEF IInv, TypeOK, PlaceInv
<1>3. \A h \in Holders : h # Local(victim) =>
        Held'[h] = IF h = Core(c) THEN Held[h] \union {Head(local_queue[victim])} ELSE Held[h]
  <2>1. \A d \in Cores : Held'[Core(d)] =
          IF d = c THEN Held[Core(d)] \union {Head(local_queue[victim])} ELSE Held[Core(d)]
    BY <1>1, <1>2, CoreTakes DEF Steal, IInv
  <2>2. /\ \A d \in Cores : d # victim => local_queue'[d] = local_queue[d]
        /\ UNCHANGED <<global_queue, migrated>>
    BY <1>0 DEF IInv, TypeOK, Steal, balancer
  <2>3. ASSUME NEW d \in Cores, d # victim
        PROVE  Held'[Local(d)] = Held[Local(d)]
    BY <2>2, <2>3, HeldFacts, HeldFactsNext DEF HeldIs
  <2>4. Held'[Global] = Held[Global] /\ Held'[Balancer] = Held[Balancer]
    BY <2>2, HeldFacts, HeldFactsNext DEF HeldIs
  <2> QED
    BY <2>1, <2>3, <2>4, HolderCases, HoldersDiffer
<1>4. Core(c) \in Holders /\ Core(c) # Local(victim)
  BY HoldersDiffer DEF Holders
<1>5. /\ local_queue' = [local_queue EXCEPT ![victim] = Tail(@)]
      /\ UNCHANGED <<global_queue, added, executed>>
  BY DEF Steal, main
<1> HIDE DEF victim
<1> QED
  BY <1>0, <1>3, <1>4, <1>5, TakeFromLocal

LEMMA MigrateTakePlaces ==
  ASSUME IInv, MigrateTake
  PROVE  PlaceInv'
<1> DEFINE c == balance.max_core
<1>0. c \in Cores /\ local_queue[c] # <<>>
  BY DEF IInv, BalanceInv, MigrateTake
<1>1. migrated = NoTask
  BY DEF IInv, PcInv, MigrateTake
<1>2. Head(local_queue[c]) # NoTask
  BY <1>0, TailTakes, TasksAssumption DEF IInv, TypeOK, PlaceInv
<1>3. \A h \in Holders : h # Local(c) =>
        Held'[h] = IF h = Balancer THEN Held[h] \union {Head(local_queue[c])} ELSE Held[h]
  <2>1. {migrated'} \ {NoTask} = ({migrated} \ {NoTask}) \union {Head(local_queue[c])}
    BY <1>1, <1>2 DEF MigrateTake
  <2>2. /\ \A d \in Cores : d # c => local_queue'[d] = local_queue[d]
        /\ UNCHANGED <<global_queue, task>>
    BY <1>0 DEF IInv, TypeOK, MigrateTake, threads
  <2>3. ASSUME NEW d \in Cores, d # c
        PROVE  Held'[Local(d)] = Held[Local(d)]
    BY <2>2, <2>3, HeldFacts, HeldFactsNext DEF HeldIs
  <2>4. ASSUME NEW d \in Cores
        PROVE  Held'[Core(d)] = Held[Core(d)]
    BY <2>2, HeldFacts, HeldFactsNext DEF HeldIs
  <2>5. /\ Held'[Global] = Held[Global]
        /\ Held'[Balancer] = Held[Balancer] \union {Head(local_queue[c])}
    BY <2>1, <2>2, HeldFacts, HeldFactsNext DEF HeldIs
  <2> QED
    BY <2>3, <2>4, <2>5, HolderCases, HoldersDiffer
<1>4. Balancer \in Holders /\ Balancer # Local(c)
  BY HoldersDiffer DEF Holders
<1>5. /\ local_queue' = [local_queue EXCEPT ![c] = Tail(@)]
      /\ UNCHANGED <<global_queue, added, executed>>
  BY DEF MigrateTake, main, threads
<1> HIDE DEF c
<1> QED
  BY <1>0, <1>3, <1>4, <1>5, TakeFromLocal

LEMMA TakeGlobalPlaces ==
  ASSUME IInv, NEW c \in Cores, TakeGlobal(c)
  PROVE  PlaceInv'
<1> DEFINE x == Head(global_queue)
<1>0. task[c] = NoTask
  BY DEF IInv, PcInv, TakeGlobal
<1>1. /\ x \in Everything /\ x \in Range(global_queue) /\ Once(Tail(global_queue))
      /\ Range(Tail(global_queue)) = Range(global_queue) \ {x}
  BY TailTakes DEF IInv, TypeOK, PlaceInv, TakeGlobal
<1>2. x # NoTask
  BY <1>1, TasksAssumption
<1>3. \A d \in Cores :
        Held'[Core(d)] = IF d = c THEN Held[Core(d)] \union {x} ELSE Held[Core(d)]
  BY <1>0, <1>2, CoreTakes DEF TakeGlobal, IInv
<1>4. Held'[Global] = Held[Global] \ {x} /\ x \in Held[Global]
  BY <1>1, HeldFacts, HeldFactsNext DEF HeldIs, TakeGlobal
<1>5. /\ Held'[Balancer] = Held[Balancer]
      /\ \A d \in Cores : Held'[Local(d)] = Held[Local(d)]
  BY HeldFacts, HeldFactsNext DEF HeldIs, TakeGlobal, balancer
<1> HIDE DEF x
<1>6. \A h \in Holders : Held'[h] = IF h = Global THEN Held[h] \ {x}
                                   ELSE IF h = Core(c) THEN Held[h] \union {x} ELSE Held[h]
  BY <1>3, <1>4, <1>5, HolderCases, HoldersDiffer
<1>7. Moved(Holders, Held, Held', x, Global, Core(c))
  BY <1>4, <1>6, HoldersDiffer DEF Moved, Holders
<1>8. Apart(Holders, Held') /\ Union(Holders, Held') = Union(Holders, Held)
  BY <1>7, MoveKeeps DEF IInv, PlaceInv
<1>9. Once(global_queue)' /\ UNCHANGED <<local_queue, added, executed>>
  BY <1>1 DEF TakeGlobal, main, x
<1> QED
  BY <1>8, <1>9 DEF IInv, PlaceInv

LEMMA MigratePutPlaces ==
  ASSUME IInv, MigratePut
  PROVE  PlaceInv'
<1> DEFINE c == balance.min_core
           x == migrated
<1>0. /\ c \in Cores /\ x # NoTask /\ x \in Everything
      /\ local_queue \in [Cores -> Seq(Everything)]
  BY DEF IInv, TypeOK, PcInv, BalanceInv, MigratePut
<1>1. Held[Balancer] = {x} /\ Held'[Balancer] = {}
  BY <1>0, HeldFacts, HeldFactsNext DEF HeldIs, MigratePut
<1>2. Balancer \in Holders /\ Local(c) \in Holders /\ Balancer # Local(c)
  BY <1>0, HoldersDiffer DEF Holders
<1>3. x \notin Held[Local(c)] /\ Held[Local(c)] = Range(local_queue[c])
  BY <1>0, <1>1, <1>2, HeldFacts DEF HeldIs, IInv, PlaceInv, Apart
<1>4. /\ Once(Append(local_queue[c], x))
      /\ Range(Append(local_queue[c], x)) = Range(local_queue[c]) \union {x}
  BY <1>0, <1>3, AppendPuts DEF IInv, PlaceInv
<1>5. /\ local_queue' = [local_queue EXCEPT ![c] = Append(local_queue[c], x)]
      /\ UNCHANGED <<global_queue, task, added, executed>>
  BY DEF MigratePut, main, threads
<1>6. /\ Held'[Global] = Held[Global]
      /\ \A d \in Cores : Held'[Core(d)] = Held[Core(d)]
  BY <1>5, HeldFacts, HeldFactsNext DEF HeldIs
<1>7. \A d \in Cores : Held'[Local(d)] = IF d = c THEN Held[Local(d)] \union {x}
                                        ELSE Held[Local(d)]
  BY <1>0, <1>4, <1>5, HeldFacts, HeldFactsNext DEF HeldIs
<1>8. (\A d \in Cores : Once(local_queue[d]))' /\ Once(global_queue)'
  BY <1>0, <1>4, <1>5 DEF IInv, PlaceInv
<1> HIDE DEF c, x
<1>9. \A h \in Holders : Held'[h] = IF h = Balancer THEN Held[h] \ {x}
                                   ELSE IF h = Local(c) THEN Held[h] \union {x} ELSE Held[h]
  BY <1>1, <1>6, <1>7, HolderCases, HoldersDiffer
<1>10. Moved(Holders, Held, Held', x, Balancer, Local(c))
  BY <1>1, <1>2, <1>9 DEF Moved
<1>11. Apart(Holders, Held') /\ Union(Holders, Held') = Union(Holders, Held)
  BY <1>10, MoveKeeps DEF IInv, PlaceInv
<1> QED
  BY <1>5, <1>8, <1>11 DEF IInv, PlaceInv

\* The next task is not in the hands of anybody.
LEMMA NextIsNew ==
  ASSUME IInv, added < Len(Tasks)
  PROVE  /\ Tasks[added + 1] \in Everything \ {NoTask}
         /\ Tasks[added + 1] \notin Added(added)
         /\ Added(added + 1) = Added(added) \union {Tasks[added + 1]}
         /\ \A h \in Holders : Tasks[added + 1] \notin Held[h]
<1>1. added \in Nat /\ Len(Tasks) \in Nat /\ added + 1 \in 1..Len(Tasks)
  BY EverythingAdded DEF IInv, TypeOK
<1>2. Tasks[added + 1] \in Everything \ {NoTask}
  BY <1>1, TasksAssumption DEF Everything
<1>3. Tasks[added + 1] \notin Added(added)
  BY <1>1, TasksAssumption DEF Added
<1>4. Added(added + 1) = Added(added) \union {Tasks[added + 1]}
  <2>1. \A i \in 1..added + 1 : i \in 1..added \/ i = added + 1
    BY <1>1
  <2>2. \A i \in 1..added : i \in 1..added + 1
    BY <1>1
  <2>3. added + 1 \in 1..added + 1
    BY <1>1
  <2> QED
    BY <2>1, <2>2, <2>3 DEF Added
<1> QED
  BY <1>2, <1>3, <1>4 DEF IInv, PlaceInv, Union

LEMMA AddTaskPlaces ==
  ASSUME IInv, AddTask
  PROVE  PlaceInv'
<1> DEFINE x == Tasks[added + 1]
           c == preferred_cpu[x]
<1>0. added < Len(Tasks)
  BY DEF AddTask, IInv, PcInv
<1>1. /\ x \in Everything \ {NoTask} /\ x \notin Added(added)
      /\ Added(added + 1) = Added(added) \union {x}
      /\ \A h \in Holders : x \notin Held[h]
  BY <1>0, NextIsNew
<1>2. /\ local_queue \in [Cores -> Seq(Everything)] /\ global_queue \in Seq(Everything)
      /\ (\A d \in Cores : Once(local_queue[d])) /\ Once(global_queue)
      /\ Apart(Holders, Held)
  BY DEF IInv, TypeOK, PlaceInv
<1>3. added' = added + 1 /\ UNCHANGED <<task, executed, migrated>>
  BY DEF AddTask, threads, balancer
<1>4. /\ Held'[Balancer] = Held[Balancer]
      /\ \A d \in Cores : Held'[Core(d)] = Held[Core(d)]
  BY <1>3, HeldFacts, HeldFactsNext DEF HeldIs
<1>5. \E b \in Holders : \A h \in Holders :
         Held'[h] = IF h = b THEN Held[h] \union {x} ELSE Held[h]
  <2>1. CASE c \in Cores
    <3>1. local_queue' = [local_queue EXCEPT ![c] = Append(@, x)] /\ UNCHANGED global_queue
      BY <2>1 DEF AddTask
    <3>2. Local(c) \in Holders
      BY <2>1 DEF Holders
    <3>3. Range(Append(local_queue[c], x)) = Range(local_queue[c]) \union {x}
      BY <1>1, <1>2, <2>1, <3>2, AppendPuts, HeldFacts DEF HeldIs
    <3>4. \A d \in Cores : Held'[Local(d)] = IF d = c THEN Held[Local(d)] \union {x}
                                            ELSE Held[Local(d)]
      BY <1>2, <2>1, <3>1, <3>3, HeldFacts, HeldFactsNext DEF HeldIs
    <3>5. Held'[Global] = Held[Global]
      BY <3>1, HeldFacts, HeldFactsNext DEF HeldIs
    <3> HIDE DEF x, c
    <3>6. \A h \in Holders : Held'[h] = IF h = Local(c) THEN Held[h] \union {x} ELSE Held[h]
      BY <1>4, <3>4, <3>5, HolderCases, HoldersDiffer
    <3> QED
      BY <3>2, <3>6
  <2>2. CASE c \notin Cores
    <3>1. global_queue' = Append(global_queue, x) /\ UNCHANGED local_queue
      BY <2>2 DEF AddTask
    <3>2. Global \in Holders
      BY DEF Holders
    <3>3. Range(Append(global_queue, x)) = Range(global_queue) \union {x}
      BY <1>1, <1>2, <3>2, AppendPuts, HeldFacts DEF HeldIs
    <3>4. Held'[Global] = Held[Global] \union {x}
      BY <3>1, <3>3, HeldFacts, HeldFactsNext DEF HeldIs
    <3>5. \A d \in Cores : Held'[Local(d)] = Held[Local(d)]
      BY <3>1, HeldFacts, HeldFactsNext DEF HeldIs
    <3> HIDE DEF x, c
    <3>6. \A h \in Holders : Held'[h] = IF h = Global THEN Held[h] \union {x} ELSE Held[h]
      BY <1>4, <3>4, <3>5, HolderCases, HoldersDiffer
    <3> QED
      BY <3>2, <3>6
  <2> QED
    BY <2>1, <2>2
<1>6. Apart(Holders, Held') /\ Union(Holders, Held') = Union(Holders, Held) \union {x}
  <2>1. PICK b \in Holders : \A h \in Holders :
          Held'[h] = IF h = b THEN Held[h] \union {x} ELSE Held[h]
    BY <1>5
  <2>2. Put(Holders, Held, Held', x, b)
    BY <1>1, <2>1 DEF Put
  <2> QED
    BY <1>2, <2>2, AddKeeps
<1>7. (\A d \in Cores : Once(local_queue[d]))' /\ Once(global_queue)'
  <2>1. \A d \in Cores : x \notin Range(local_queue[d])
    BY <1>1, HeldFacts DEF HeldIs, Holders
  <2>2. x \notin Range(global_queue)
    BY <1>1, HeldFacts DEF HeldIs, Holders
  <2>3. \A d \in Cores : Once(Append(local_queue[d], x))
    BY <1>1, <1>2, <2>1, AppendPuts
  <2>4. Once(Append(global_queue, x))
    BY <1>1, <1>2, <2>2, AppendPuts
  <2> QED
    BY <1>2, <2>3, <2>4 DEF AddTask
<1> QED
  BY <1>1, <1>3, <1>6, <1>7 DEF IInv, PlaceInv

LEMMA FinishPlaces ==
  ASSUME IInv, NEW c \in Cores, Finish(c)
  PROVE  /\ PlaceInv'
         /\ task[c] \in Added(added) \ executed
<1> DEFINE x == task[c]
<1>1. /\ x # NoTask /\ task' = [task EXCEPT ![c] = NoTask]
      /\ UNCHANGED <<local_queue, global_queue, migrated, added>>
      /\ executed' = executed \union {x}
      /\ task \in [Cores -> Everything \union {NoTask}]
  BY DEF IInv, TypeOK, PcInv, Finish, queues, balancer, main
<1>2. Held[Core(c)] = {x} /\ Held'[Core(c)] = {} /\ Core(c) \in Holders
  BY <1>1, HeldFacts, HeldFactsNext DEF HeldIs, Holders
<1>3. /\ Held'[Balancer] = Held[Balancer] /\ Held'[Global] = Held[Global]
      /\ \A d \in Cores : /\ Held'[Local(d)] = Held[Local(d)]
                          /\ d # c => Held'[Core(d)] = Held[Core(d)]
  BY <1>1, HeldFacts, HeldFactsNext DEF HeldIs
<1>4. \A h \in Holders : Held'[h] = IF h = Core(c) THEN Held[h] \ {x} ELSE Held[h]
  BY <1>2, <1>3, HolderCases, HoldersDiffer
<1> HIDE DEF x
<1>5. Removed(Holders, Held, Held', x, Core(c))
  BY <1>2, <1>4 DEF Removed
<1>6. Apart(Holders, Held') /\ Union(Holders, Held') = Union(Holders, Held) \ {x}
  BY <1>5, RemoveKeeps DEF IInv, PlaceInv
<1>7. x \in Added(added) \ executed
  BY <1>2 DEF IInv, PlaceInv, Union
<1>8. PlaceInv'
  BY <1>1, <1>6, <1>7 DEF IInv, PlaceInv
<1> QED
  BY <1>7, <1>8 DEF x

LEMMA PlaceNext ==
  ASSUME IInv, [Next]_vars
  PROVE  PlaceInv'
<1>1. CASE UNCHANGED <<local_queue, global_queue, task, migrated, added, executed>>
  BY <1>1 DEF IInv, PlaceInv, Held
<1>2. ASSUME NEW c \in Cores, CoreStep(c)
      PROVE  PlaceInv'
  <2>1. TakeLocal(c) \/ TakeGlobal(c) \/ Steal(c) \/ Finish(c) => PlaceInv'
    BY TakeLocalPlaces, TakeGlobalPlaces, StealPlaces, FinishPlaces
  <2>2. (\/ KeepRunning(c) \/ NoLocal(c) \/ NoGlobal(c) \/ Scan(c) \/ Rescan(c)
         \/ ScanEnds(c) \/ StealNothing(c) \/ CountCompleted(c)) => PlaceInv'
    BY <1>1 DEF KeepRunning, NoLocal, NoGlobal, Scan, Rescan, ScanEnds, StealNothing,
                CountCompleted, queues, main, balancer
  <2> QED
    BY <1>2, <2>1, <2>2 DEF CoreStep
<1>3. ASSUME BalancerStep
      PROVE  PlaceInv'
  <2>1. BalancerTest \/ BalancerScan \/ BalancerDecides \/ MigrateNothing => PlaceInv'
    BY <1>1 DEF BalancerTest, BalancerScan, BalancerDecides, MigrateNothing,
                queues, main, threads
  <2> QED
    BY <1>3, <2>1, MigrateTakePlaces, MigratePutPlaces DEF BalancerStep
<1>4. ASSUME MainStep
      PROVE  PlaceInv'
  <2>1. CountActive \/ CompletionSeen \/ Stop \/ Join => PlaceInv'
    BY <1>1 DEF CountActive, CompletionSeen, Stop, Join, queues, threads, balancer
  <2> QED
    BY <1>4, <2>1, AddTaskPlaces DEF MainStep
<1>5. CASE UNCHANGED vars
  BY <1>1, <1>5 DEF vars, queues, main, threads, balancer
<1> QED
  BY <1>2, <1>3, <1>4, <1>5 DEF Next, Joined

\* Where the threads are.
LEMMA PcNext ==
  ASSUME IInv, [Next]_vars
  PROVE  PcInv'
<1>0. /\ pc \in [Cores -> CorePC] /\ task \in [Cores -> Everything \union {NoTask}]
      /\ look \in [Cores -> [i : 0..NumCores, max_load : 0..Len(Tasks),
                             victim : Cores \union {NoCore}]]
      /\ NoTask \notin Everything /\ added \in 0..Len(Tasks) /\ Len(Tasks) \in Nat
      /\ PcInv /\ PlaceInv
  BY TasksAssumption, EverythingAdded DEF IInv, TypeOK
<1>1. CASE UNCHANGED vars
  BY <1>0, <1>1 DEF PcInv, vars, main, threads, balancer
<1>2. ASSUME NEW c \in Cores, CoreStep(c)
      PROVE  PcInv'
  <2>1. UNCHANGED <<bpc, migrated, mpc, added>>
    BY <1>2 DEF CoreStep, KeepRunning, TakeLocal, NoLocal, TakeGlobal, NoGlobal, Scan,
       Rescan, ScanEnds, Steal, StealNothing, Finish, CountCompleted, main, balancer
  <2>2. ASSUME NEW x \in Everything, pc[c] # "executing",
               task' = [task EXCEPT ![c] = x], Goto(c, "executing"),
               look' = look \/ look' = [look EXCEPT ![c] = NoLook]
        PROVE  PcInv'
    BY <1>0, <2>1, <2>2 DEF PcInv, Goto
  <2>3. ASSUME NEW label, label \notin {"executing", "rescan"}, pc[c] # "executing",
               Goto(c, label), UNCHANGED task,
               \A d \in Cores : d # c => look'[d] = look[d]
        PROVE  PcInv'
    BY <1>0, <2>1, <2>3 DEF PcInv, Goto
  <2>4. TakeLocal(c) => PcInv'
    BY <2>2, TailTakes, <1>0 DEF TakeLocal, IInv, TypeOK, PlaceInv
  <2>5. TakeGlobal(c) => PcInv'
    BY <2>2, TailTakes, <1>0 DEF TakeGlobal, IInv, TypeOK, PlaceInv
  <2>6. Steal(c) => PcInv'
    <3> SUFFICES ASSUME Steal(c) PROVE PcInv'
      OBVIOUS
    <3>1. look[c].victim \in Cores /\ local_queue[look[c].victim] # <<>>
      BY <1>0 DEF Steal
    <3>2. Head(local_queue[look[c].victim]) \in Everything
      BY <3>1, TailTakes, <1>0 DEF IInv, TypeOK, PlaceInv
    <3> QED
      BY <2>2, <3>2 DEF Steal
  <2>7. (KeepRunning(c) \/ NoLocal(c) \/ NoGlobal(c) \/ ScanEnds(c) \/ CountCompleted(c))
          => PcInv'
    BY <2>3 DEF KeepRunning, NoLocal, NoGlobal, ScanEnds, CountCompleted
  <2>8. (StealNothing(c) \/ Rescan(c)) => PcInv'
    BY <1>0, <2>3 DEF StealNothing, Rescan
  <2>9. Scan(c) => PcInv'
    <3> SUFFICES ASSUME Scan(c) PROVE PcInv'
      OBVIOUS
    <3>1. CASE Goto(c, "rescan") /\ UNCHANGED look
      BY <1>0, <2>1, <3>1 DEF PcInv, Goto, Scan
    <3>2. CASE look' = [look EXCEPT ![c].i = look[c].i + 1] /\ UNCHANGED pc
      BY <1>0, <2>1, <3>2 DEF PcInv, Scan
    <3> QED
      BY <3>1, <3>2 DEF Scan
  <2>10. Finish(c) => PcInv'
    BY <1>0, <2>1 DEF PcInv, Goto, Finish
  <2> QED
    BY <1>2, <2>4, <2>5, <2>6, <2>7, <2>8, <2>9, <2>10 DEF CoreStep
<1>3. ASSUME BalancerStep
      PROVE  PcInv'
  <2>1. UNCHANGED <<pc, task, look, mpc, added>>
    BY <1>3 DEF BalancerStep, BalancerTest, BalancerScan, BalancerDecides, MigrateTake,
                MigrateNothing, MigratePut, main, threads
  <2>2. MigrateTake => Head(local_queue[balance.max_core]) # NoTask
    BY <1>0, TailTakes DEF IInv, TypeOK, PlaceInv, BalanceInv, MigrateTake
  <2>3. bpc' = "put" <=> migrated' # NoTask
    BY <1>3, <1>0, <2>2
    DEF PcInv, BalancerStep, BalancerTest, BalancerScan, BalancerDecides, MigrateTake,
        MigrateNothing, MigratePut
  <2> QED
    BY <1>0, <2>1, <2>3 DEF PcInv
<1>4. ASSUME MainStep
      PROVE  PcInv'
  <2>1. UNCHANGED <<pc, task, look, bpc, migrated>>
    BY <1>4 DEF MainStep, AddTask, CountActive, CompletionSeen, Stop, Join, threads, balancer
  <2>2. /\ mpc' = "adding" => added' < Len(Tasks)
        /\ mpc' = "count" => added' > 0
        /\ mpc' \notin {"adding", "count"} => added' = Len(Tasks)
    BY <1>4, <1>0 DEF PcInv, MainStep, AddTask, CountActive, CompletionSeen, Stop, Join
  <2> QED
    BY <1>0, <2>1, <2>2 DEF PcInv
<1> QED
  BY <1>1, <1>2, <1>3, <1>4 DEF Next, Joined

\* The balancer migrates between cores that it has seen.
LEMMA BalanceNext ==
  ASSUME IInv, [Next]_vars
  PROVE  /\ BalanceInv'
         /\ bpc' \in BalancerPC
         /\ balance' \in [i : 0..NumCores,
                          max_load : 0..Len(Tasks), max_core : Cores \union {NoCore},
                          min_load : 0..Len(Tasks) + 1, min_core : Cores \union {NoCore}]
<1>0. /\ BalanceInv /\ bpc \in BalancerPC
      /\ balance \in [i : 0..NumCores,
                      max_load : 0..Len(Tasks), max_core : Cores \union {NoCore},
                      min_load : 0..Len(Tasks) + 1, min_core : Cores \union {NoCore}]
      /\ Len(Tasks) \in Nat /\ NumCores \in Nat \ {0}
  BY EverythingAdded, NumCoresAssumption DEF IInv, TypeOK
<1>1. CASE UNCHANGED <<bpc, balance>>
  BY <1>0, <1>1 DEF BalanceInv
<1>2. CASE BalancerScan
  <2>1. balance.i \in Cores
    BY <1>0, <1>2 DEF BalancerScan, Cores
  <2>2. Len(local_queue[balance.i]) \in 0..Len(Tasks)
    BY <2>1, OnceIsShort DEF IInv, TypeOK, PlaceInv
  <2> QED
    BY <1>0, <1>2, <2>1, <2>2 DEF BalancerScan, BalanceInv
<1>3. CASE BalancerDecides
  BY <1>0, <1>3, ThresholdAssumption DEF BalancerDecides, BalanceInv, NoBalance, BalancerPC
<1>4. CASE BalancerTest \/ MigrateTake \/ MigrateNothing \/ MigratePut
  BY <1>0, <1>4 DEF BalancerTest, MigrateTake, MigrateNothing, MigratePut, BalanceInv,
                    NoBalance, BalancerPC
<1>5. ASSUME NEW c \in Cores, CoreStep(c)
      PROVE  UNCHANGED <<bpc, balance>>
  BY <1>5 DEF CoreStep, KeepRunning, TakeLocal, NoLocal, TakeGlobal, NoGlobal, Scan,
     Rescan, ScanEnds, Steal, StealNothing, Finish, CountCompleted, balancer
<1>6. MainStep \/ UNCHANGED vars => UNCHANGED <<bpc, balance>>
  BY DEF MainStep, AddTask, CountActive, CompletionSeen, Stop, Join, vars, balancer
<1> QED
  BY <1>1, <1>2, <1>3, <1>4, <1>5, <1>6 DEF Next, Joined, BalancerStep

-----------------------------------------------------------------------------
(* The counters.                                                           *)

LEMMA CoresFinite == IsFiniteSet(Cores)
  BY FS_Interval, NumCoresAssumption DEF Cores

\* What the counting equations say of the counters' ranges.
LEMMA CountersBounded ==
  ASSUME NEW n \in 0..Len(Tasks), NEW done, done \subseteq Added(n),
         NEW C \in SUBSET Cores, NEW pending \in {0, 1},
         NEW a, a = n - pending - Cardinality(done),
         NEW b \in Int, b + Cardinality(C) = Cardinality(done),
         b >= 0
  PROVE  a \in -1..Len(Tasks) /\ b \in 0..Len(Tasks)
<1>1. /\ IsFiniteSet(Added(n)) /\ Cardinality(Added(n)) = n
      /\ n \in Nat /\ Len(Tasks) \in Nat
  BY AddedCardinality, EverythingAdded
<1>2. Cardinality(done) \in Nat /\ Cardinality(done) <= n
  BY <1>1, FS_Subset, FS_CardinalityType
<1>3. Cardinality(C) \in Nat
  BY CoresFinite, FS_Subset, FS_CardinalityType
<1> QED
  BY <1>1, <1>2, <1>3

LEMMA CountNext ==
  ASSUME IInv, [Next]_vars
  PROVE  CountInv' /\ active_tasks' \in Int /\ completed_tasks' \in Nat
<1>0. /\ CountInv /\ pc \in [Cores -> CorePC] /\ added \in 0..Len(Tasks)
      /\ active_tasks \in Int /\ completed_tasks \in Nat /\ Len(Tasks) \in Nat
  BY EverythingAdded DEF IInv, TypeOK
<1>1. /\ IsFiniteSet(executed) /\ Cardinality(executed) \in Nat
      /\ IsFiniteSet(Counting) /\ Cardinality(Counting) \in Nat
  <2>1. executed \subseteq Everything /\ Counting \subseteq Cores
    BY DEF IInv, TypeOK, Counting
  <2> QED
    BY <2>1, EverythingAdded, CoresFinite, FS_Subset, FS_CardinalityType
<1>2. ASSUME UNCHANGED <<active_tasks, completed_tasks, executed, added, Counting>>,
             mpc' = "count" <=> mpc = "count"
      PROVE  CountInv' /\ active_tasks' \in Int /\ completed_tasks' \in Nat
  BY <1>0, <1>2 DEF CountInv
<1>3. ASSUME NEW c \in Cores, CoreStep(c)
      PROVE  CountInv' /\ active_tasks' \in Int /\ completed_tasks' \in Nat
  <2>1. CASE Finish(c)
    <3>1. task[c] \notin executed
      BY <2>1, FinishPlaces
    <3>2. Cardinality(executed') = Cardinality(executed) + 1
      BY <1>1, <2>1, <3>1, FS_AddElement DEF Finish
    <3>3. c \notin Counting /\ Counting' = Counting \union {c}
      BY <1>0, <2>1 DEF Finish, Counting, Goto
    <3>4. Cardinality(Counting') = Cardinality(Counting) + 1
      BY <1>1, <3>3, FS_AddElement
    <3>5. /\ active_tasks' = active_tasks - 1
          /\ UNCHANGED <<completed_tasks, added, mpc>>
      BY <2>1 DEF Finish, main
    <3>6. added \in Int
      BY <1>0
    <3>7. active_tasks' = added' - (IF mpc' = "count" THEN 1 ELSE 0) - Cardinality(executed')
      BY <1>0, <1>1, <3>2, <3>5, <3>6 DEF CountInv
    <3>8. completed_tasks' + Cardinality(Counting') = Cardinality(executed')
      BY <1>0, <1>1, <3>2, <3>4, <3>5 DEF CountInv
    <3> QED
      BY <1>0, <3>5, <3>7, <3>8 DEF CountInv
  <2>2. CASE CountCompleted(c)
    <3>1. c \in Counting /\ Counting' = Counting \ {c}
      BY <1>0, <2>2 DEF CountCompleted, Counting, Goto
    <3>2. Cardinality(Counting') = Cardinality(Counting) - 1
      BY <1>1, <3>1, FS_RemoveElement
    <3>3. /\ completed_tasks' = completed_tasks + 1
          /\ UNCHANGED <<active_tasks, executed, added, mpc>>
      BY <2>2 DEF CountCompleted, main
    <3> QED
      BY <1>0, <1>1, <3>2, <3>3 DEF CountInv
  <2>3. ASSUME ~Finish(c), ~CountCompleted(c)
        PROVE  UNCHANGED <<active_tasks, completed_tasks, executed, added, mpc>>
    BY <1>3, <2>3 DEF CoreStep, KeepRunning, TakeLocal, NoLocal, TakeGlobal, NoGlobal,
       Scan, Rescan, ScanEnds, Steal, StealNothing, counters, main
  <2>4. ASSUME ~Finish(c), ~CountCompleted(c)
        PROVE  UNCHANGED Counting
    <3>1. \A d \in Cores : pc'[d] = "counting" <=> pc[d] = "counting"
      BY <1>0, <1>3, <2>4 DEF CoreStep, KeepRunning, TakeLocal, NoLocal, TakeGlobal,
         NoGlobal, Scan, Rescan, ScanEnds, Steal, StealNothing, Goto
    <3> QED
      BY <3>1 DEF Counting
  <2> QED
    BY <1>2, <2>1, <2>2, <2>3, <2>4
<1>4. BalancerStep => CountInv' /\ active_tasks' \in Int /\ completed_tasks' \in Nat
  BY <1>2 DEF BalancerStep, BalancerTest, BalancerScan, BalancerDecides, MigrateTake,
     MigrateNothing, MigratePut, counters, main, threads, Counting
<1>5. ASSUME MainStep
      PROVE  CountInv' /\ active_tasks' \in Int /\ completed_tasks' \in Nat
  <2>1. CASE AddTask
    <3>1. /\ added' = added + 1 /\ mpc = "adding" /\ mpc' = "count"
          /\ UNCHANGED <<active_tasks, completed_tasks, executed, pc>>
      BY <2>1 DEF AddTask, counters, threads
    <3>2. UNCHANGED Counting
      BY <3>1 DEF Counting
    <3> QED
      BY <1>0, <1>1, <3>1, <3>2 DEF CountInv
  <2>2. CASE CountActive
    <3>1. /\ active_tasks' = active_tasks + 1 /\ mpc = "count" /\ mpc' # "count"
          /\ UNCHANGED <<added, completed_tasks, executed, pc>>
      BY <2>2 DEF CountActive, threads
    <3>2. UNCHANGED Counting
      BY <3>1 DEF Counting
    <3> QED
      BY <1>0, <1>1, <3>1, <3>2 DEF CountInv
  <2>3. CompletionSeen \/ Stop \/ Join => CountInv' /\ active_tasks' \in Int /\ completed_tasks' \in Nat
    BY <1>2 DEF CompletionSeen, Stop, Join, counters, threads, Counting
  <2> QED
    BY <1>5, <2>1, <2>2, <2>3 DEF MainStep
<1>6. UNCHANGED vars => CountInv' /\ active_tasks' \in Int /\ completed_tasks' \in Nat
  BY <1>2 DEF vars, counters, main, threads, Counting
<1> QED
  BY <1>3, <1>4, <1>5, <1>6 DEF Next, Joined

\* waitForCompletion returns only when all tasks have run, and no task runs
\* twice afterwards.
LEMMA CompletionNext ==
  ASSUME IInv, CountInv', [Next]_vars
  PROVE  CompletionMeansExecuted'
<1> DEFINE After == {"stop", "joining", "joined"}
<1>1. ASSUME mpc \in After, mpc' \in After
      PROVE  executed' = Everything
  <2>1. executed = Everything
    BY <1>1 DEF IInv, CompletionMeansExecuted
  <2>2. \A c \in Cores : ~Finish(c)
    BY <2>1, FinishPlaces DEF IInv, TypeOK, PcInv, Finish
  <2>3. executed' = executed
    BY <2>2 DEF Next, CoreStep, KeepRunning, TakeLocal, NoLocal, TakeGlobal, NoGlobal,
       Scan, Rescan, ScanEnds, Steal, StealNothing, CountCompleted,
       BalancerStep, BalancerTest, BalancerScan, BalancerDecides, MigrateTake,
       MigrateNothing, MigratePut, MainStep, AddTask, CountActive, CompletionSeen, Stop,
       Join, Joined, threads, vars
  <2> QED
    BY <2>1, <2>3
<1>2. ASSUME mpc \notin After, mpc' \in After
      PROVE  executed' = Everything
  <2>1. CompletionSeen
    BY <1>2 DEF Next, CoreStep, KeepRunning, TakeLocal, NoLocal, TakeGlobal, NoGlobal,
       Scan, Rescan, ScanEnds, Steal, StealNothing, Finish, CountCompleted,
       BalancerStep, BalancerTest, BalancerScan, BalancerDecides, MigrateTake,
       MigrateNothing, MigratePut, MainStep, AddTask, CountActive, Stop,
       Join, Joined, main, vars
  <2>2. /\ mpc = "waiting" /\ added = Len(Tasks) /\ ~(active_tasks > 0)
        /\ executed' = executed /\ active_tasks \in Int
    BY <2>1 DEF CompletionSeen, IInv, PcInv, TypeOK, threads
  <2>3. executed \subseteq Everything /\ Cardinality(executed) \in Nat
    BY EverythingAdded, FS_Subset, FS_CardinalityType DEF IInv, TypeOK
  <2>4. Cardinality(executed) >= Len(Tasks)
    BY <2>2, <2>3, EverythingAdded DEF IInv, CountInv
  <2>5. Cardinality(executed) <= Len(Tasks)
    BY <2>3, EverythingAdded, FS_Subset
  <2>6. Cardinality(executed) = Cardinality(Everything)
    BY <2>3, <2>4, <2>5, EverythingAdded
  <2>7. executed = Everything
    BY <2>3, <2>6, EverythingAdded, FS_Subset
  <2> QED
    BY <2>2, <2>7
<1>3. executed' = Everything => completed_tasks' + Cardinality(Counting') = Len(Tasks)
  BY EverythingAdded DEF CountInv
<1> QED
  BY <1>1, <1>2, <1>3 DEF CompletionMeansExecuted, Counting

-----------------------------------------------------------------------------
LEMMA TypeNext ==
  ASSUME IInv, PlaceInv', CountInv', BalanceInv', [Next]_vars
  PROVE  TypeOK'
<1>0. TypeOK /\ Len(Tasks) \in Nat
  BY EverythingAdded DEF IInv
<1>1. /\ preferred_cpu' \in Affinities /\ running' \in BOOLEAN /\ mpc' \in MainPC
      /\ added' \in 0..Len(Tasks)
  <2>1. /\ preferred_cpu \in Affinities /\ running \in BOOLEAN /\ mpc \in MainPC
        /\ added \in 0..Len(Tasks) /\ (AddTask => added < Len(Tasks))
    BY <1>0 DEF TypeOK, AddTask, IInv, PcInv
  <2>2. ASSUME NEW c \in Cores, CoreStep(c)
        PROVE  UNCHANGED <<preferred_cpu, running, mpc, added>>
    BY <2>2 DEF CoreStep, KeepRunning, TakeLocal, NoLocal, TakeGlobal, NoGlobal,
       Scan, Rescan, ScanEnds, Steal, StealNothing, Finish, CountCompleted, main, counters
  <2>3. BalancerStep \/ UNCHANGED vars => UNCHANGED <<preferred_cpu, running, mpc, added>>
    BY DEF BalancerStep, BalancerTest, BalancerScan, BalancerDecides, MigrateTake,
       MigrateNothing, MigratePut, main, counters, vars
  <2>4. ASSUME MainStep
        PROVE  /\ preferred_cpu' \in Affinities /\ running' \in BOOLEAN /\ mpc' \in MainPC
               /\ added' \in 0..Len(Tasks)
    <3>1. AddTask => /\ UNCHANGED <<preferred_cpu, running>>
                     /\ added' = added + 1 /\ mpc' = "count"
      BY DEF AddTask, counters
    <3>2. CountActive \/ CompletionSeen \/ Stop \/ Join
            => UNCHANGED <<preferred_cpu, added>> /\ (running' = running \/ running' = FALSE) /\ mpc' \in MainPC
      BY DEF CountActive, CompletionSeen, Stop, Join, MainPC, counters
    <3>3. AddTask => added' \in 0..Len(Tasks) /\ mpc' \in MainPC
      BY <1>0, <2>1, <3>1 DEF MainPC
    <3>4. AddTask \/ CountActive \/ CompletionSeen \/ Stop \/ Join
      BY <2>4 DEF MainStep
    <3>5. CASE AddTask
      BY <2>1, <3>1, <3>3, <3>5
    <3>6. CASE CountActive \/ CompletionSeen \/ Stop \/ Join
      BY <2>1, <3>2, <3>6
    <3> QED
      BY <3>4, <3>5, <3>6
  <2> QED
    BY <2>1, <2>2, <2>3, <2>4 DEF Next, Joined
<1>2. active_tasks' \in -1..Len(Tasks) /\ completed_tasks' \in 0..Len(Tasks)
  <2>1. /\ active_tasks' \in Int /\ completed_tasks' \in Nat
        /\ executed' \subseteq Added(added') /\ Counting' \subseteq Cores
    BY CountNext DEF PlaceInv, Counting, Added
  <2> DEFINE pending == IF mpc' = "count" THEN 1 ELSE 0
  <2>2. pending \in {0, 1}
    OBVIOUS
  <2>3. /\ active_tasks' = added' - pending - Cardinality(executed')
        /\ completed_tasks' + Cardinality(Counting') = Cardinality(executed')
    BY DEF CountInv
  <2>4. completed_tasks' \in Int /\ completed_tasks' >= 0
    BY <2>1
  <2> HIDE DEF pending
  <2> QED
    BY <1>1, <2>1, <2>2, <2>3, <2>4, CountersBounded
<1>3. executed' \subseteq Everything
  <2>1. Added(added') \subseteq Everything
    BY <1>0, <1>1 DEF Added, Everything
  <2> QED
    BY <2>1 DEF PlaceInv, Added
<1>4. /\ bpc' \in BalancerPC
      /\ balance' \in [i : 0..NumCores,
                       max_load : 0..Len(Tasks), max_core : Cores \union {NoCore},
                       min_load : 0..Len(Tasks) + 1, min_core : Cores \union {NoCore}]
  BY BalanceNext
<1>5. /\ pc' \in [Cores -> CorePC]
      /\ look' \in [Cores -> [i : 0..NumCores, max_load : 0..Len(Tasks),
                              victim : Cores \union {NoCore}]]
  <2>0. /\ pc \in [Cores -> CorePC]
        /\ look \in [Cores -> [i : 0..NumCores, max_load : 0..Len(Tasks),
                               victim : Cores \union {NoCore}]]
        /\ NoLook \in [i : 0..NumCores, max_load : 0..Len(Tasks),
                       victim : Cores \union {NoCore}]
        /\ NumCores \in Nat \ {0}
    BY <1>0, NumCoresAssumption DEF TypeOK, NoLook
  <2>1. ASSUME NEW c \in Cores, CoreStep(c)
        PROVE  pc' \in [Cores -> CorePC]
    BY <2>0, <2>1 DEF CorePC, CoreStep, KeepRunning, TakeLocal, NoLocal, TakeGlobal, NoGlobal,
       Scan, Rescan, ScanEnds, Steal, StealNothing, Finish, CountCompleted, Goto
  <2>2. ASSUME NEW c \in Cores, CoreStep(c), ~Rescan(c), ~Scan(c)
        PROVE  look' = look \/ look' = [look EXCEPT ![c] = NoLook]
    BY <2>2 DEF CoreStep, KeepRunning, TakeLocal, NoLocal, TakeGlobal, NoGlobal,
       ScanEnds, Steal, StealNothing, Finish, CountCompleted
  <2>3. ASSUME NEW c \in Cores, Scan(c)
        PROVE  look' \in [Cores -> [i : 0..NumCores, max_load : 0..Len(Tasks),
                                    victim : Cores \union {NoCore}]]
    BY <2>0, <2>3 DEF Scan
  <2>4. ASSUME NEW c \in Cores, Rescan(c)
        PROVE  look' \in [Cores -> [i : 0..NumCores, max_load : 0..Len(Tasks),
                                    victim : Cores \union {NoCore}]]
    <3>1. look[c].i \in 0..NumCores /\ look[c].i < NumCores
      BY <2>0, <2>4 DEF Rescan, IInv, PcInv
    <3>2. look[c].i \in Cores /\ look[c].i + 1 \in 0..NumCores
      BY <2>0, <3>1 DEF Cores
    <3>3. Len(local_queue[look[c].i]) \in 0..Len(Tasks)
      BY <3>2, OnceIsShort DEF IInv, TypeOK, PlaceInv
    <3> QED
      BY <2>0, <2>4, <3>2, <3>3 DEF Rescan
  <2>5. BalancerStep \/ MainStep \/ UNCHANGED vars => UNCHANGED <<pc, look>>
    BY DEF BalancerStep, BalancerTest, BalancerScan, BalancerDecides, MigrateTake,
       MigrateNothing, MigratePut, MainStep, AddTask, CountActive, CompletionSeen, Stop,
       Join, vars, threads
  <2> QED
    BY <2>0, <2>1, <2>2, <2>3, <2>4, <2>5 DEF Next, Joined
<1>6. /\ local_queue' \in [Cores -> Seq(Everything)] /\ global_queue' \in Seq(Everything)
      /\ task' \in [Cores -> Everything \union {NoTask}]
      /\ migrated' \in Everything \union {NoTask}
  <2>0. /\ local_queue \in [Cores -> Seq(Everything)] /\ global_queue \in Seq(Everything)
        /\ task \in [Cores -> Everything \union {NoTask}]
        /\ migrated \in Everything \union {NoTask}
    BY <1>0 DEF TypeOK
  <2>1. \A q \in Seq(Everything) :
          q # <<>> => Head(q) \in Everything /\ Tail(q) \in Seq(Everything)
    BY HeadTailProperties
  <2>2. \A q \in Seq(Everything), x \in Everything : Append(q, x) \in Seq(Everything)
    BY AppendProperties
  <2>3. ASSUME NEW c \in Cores, Steal(c)
        PROVE  /\ local_queue' \in [Cores -> Seq(Everything)]
               /\ task' \in [Cores -> Everything \union {NoTask}]
    <3>1. look[c].victim \in Cores
      BY <1>0, <2>3 DEF TypeOK, Steal
    <3> QED
      BY <2>0, <2>1, <2>3, <3>1 DEF Steal
  <2>4. ASSUME NEW c \in Cores, CoreStep(c), ~Steal(c)
        PROVE  /\ local_queue' \in [Cores -> Seq(Everything)]
               /\ global_queue' \in Seq(Everything)
               /\ task' \in [Cores -> Everything \union {NoTask}]
    <3>1. TakeLocal(c) => /\ local_queue' \in [Cores -> Seq(Everything)]
                          /\ global_queue' = global_queue
                          /\ task' \in [Cores -> Everything \union {NoTask}]
      BY <2>0, <2>1 DEF TakeLocal
    <3>2. TakeGlobal(c) => /\ local_queue' = local_queue
                           /\ global_queue' \in Seq(Everything)
                           /\ task' \in [Cores -> Everything \union {NoTask}]
      BY <2>0, <2>1 DEF TakeGlobal
    <3>3. Finish(c) => /\ local_queue' = local_queue
                       /\ global_queue' = global_queue
                       /\ task' \in [Cores -> Everything \union {NoTask}]
      BY <2>0 DEF Finish, queues
    <3>4. ASSUME ~TakeLocal(c), ~TakeGlobal(c), ~Finish(c)
          PROVE  UNCHANGED <<local_queue, global_queue, task>>
      BY <2>4, <3>4 DEF CoreStep, KeepRunning, NoLocal, NoGlobal,
         Scan, Rescan, ScanEnds, StealNothing, CountCompleted, queues
    <3> QED
      BY <2>0, <3>1, <3>2, <3>3, <3>4
  <2>5. ASSUME NEW c \in Cores, CoreStep(c)
        PROVE  migrated' = migrated /\ (Steal(c) => global_queue' = global_queue)
    BY <2>5 DEF CoreStep, KeepRunning, TakeLocal, NoLocal, TakeGlobal, NoGlobal,
       Scan, Rescan, ScanEnds, Steal, StealNothing, Finish, CountCompleted, balancer
  <2>6. ASSUME BalancerStep
        PROVE  /\ local_queue' \in [Cores -> Seq(Everything)]
               /\ UNCHANGED <<global_queue, task>>
               /\ migrated' \in Everything \union {NoTask}
    <3>1. /\ bpc \in {"migrate", "put"} => balance.max_core \in Cores /\ balance.min_core \in Cores
          /\ bpc = "put" => migrated \in Everything
      BY <2>0 DEF IInv, BalanceInv, PcInv
    <3>2. MigrateTake => /\ local_queue' \in [Cores -> Seq(Everything)]
                         /\ UNCHANGED <<global_queue, task>>
                         /\ migrated' \in Everything \union {NoTask}
      BY <2>0, <2>1, <3>1 DEF MigrateTake, threads
    <3>3. MigratePut => /\ local_queue' \in [Cores -> Seq(Everything)]
                        /\ UNCHANGED <<global_queue, task>>
                        /\ migrated' \in Everything \union {NoTask}
      BY <2>0, <2>2, <3>1 DEF MigratePut, threads
    <3>4. BalancerTest \/ BalancerScan \/ BalancerDecides \/ MigrateNothing
            => UNCHANGED <<local_queue, global_queue, task, migrated>>
      BY DEF BalancerTest, BalancerScan, BalancerDecides, MigrateNothing, queues, threads
    <3> QED
      BY <2>0, <2>6, <3>2, <3>3, <3>4 DEF BalancerStep
  <2>7. ASSUME MainStep
        PROVE  /\ local_queue' \in [Cores -> Seq(Everything)]
               /\ global_queue' \in Seq(Everything)
               /\ UNCHANGED <<task, migrated>>
    <3>1. AddTask => Tasks[added + 1] \in Everything
      BY NextIsNew DEF AddTask, IInv, PcInv
    <3>2. AddTask => /\ local_queue' \in [Cores -> Seq(Everything)]
                     /\ global_queue' \in Seq(Everything)
                     /\ UNCHANGED <<task, migrated>>
      <4> DEFINE x == Tasks[added + 1]
      <4>1. ASSUME AddTask
            PROVE  /\ UNCHANGED <<task, migrated>>
                   /\ \/ /\ local_queue' = [local_queue EXCEPT ![preferred_cpu[x]] =
                                              Append(local_queue[preferred_cpu[x]], x)]
                         /\ preferred_cpu[x] \in Cores
                         /\ UNCHANGED global_queue
                      \/ global_queue' = Append(global_queue, x) /\ UNCHANGED local_queue
        BY <4>1 DEF AddTask, threads, balancer
      <4>2. AddTask => x \in Everything
        BY <3>1
      <4> HIDE DEF x
      <4>3. \A c \in Cores : x \in Everything => Append(local_queue[c], x) \in Seq(Everything)
        BY <2>0, <2>2
      <4>4. x \in Everything => Append(global_queue, x) \in Seq(Everything)
        BY <2>0, <2>2
      <4> QED
        BY <2>0, <4>1, <4>2, <4>3, <4>4
    <3>3. CountActive \/ CompletionSeen \/ Stop \/ Join
            => UNCHANGED <<local_queue, global_queue, task, migrated>>
      BY DEF CountActive, CompletionSeen, Stop, Join, queues, threads, balancer
    <3> QED
      BY <2>0, <2>7, <3>2, <3>3 DEF MainStep
  <2>8. UNCHANGED vars => UNCHANGED <<local_queue, global_queue, task, migrated>>
    BY DEF vars, queues, threads, balancer
  <2> QED
    BY <2>0, <2>3, <2>4, <2>5, <2>6, <2>7, <2>8 DEF Next, Joined
<1> QED
  BY <1>1, <1>2, <1>3, <1>4, <1>5, <1>6 DEF TypeOK

LEMMA IInvNext == IInv /\ [Next]_vars => IInv'
<1> SUFFICES ASSUME IInv, [Next]_vars
             PROVE  IInv'
  OBVIOUS
<1>1. PlaceInv' /\ PcInv' /\ BalanceInv' /\ CountInv'
  BY PlaceNext, PcNext, BalanceNext, CountNext
<1>2. TypeOK' /\ CompletionMeansExecuted'
  BY <1>1, TypeNext, CompletionNext
<1> QED
  BY <1>1, <1>2 DEF IInv

\* The counters, the queues and the locals of all threads stay in their
\* ranges: active_tasks gets to -1 at worst, a scan never asks a core that
\* does not exist, the balancer never migrates to or from one.
THEOREM MultiProcessorTyped == Spec => []TypeOK
  BY IInvInit, IInvNext, PTL DEF Spec, IInv

\* Completion is counted right for any number of cores and tasks: what
\* waitForCompletion polls does not reach zero before every task has run,
\* although tasks may run before they are counted.
THEOREM CompletionIsSound == Spec => []CompletionMeansExecuted
  BY IInvInit, IInvNext, PTL DEF Spec, IInv

-----------------------------------------------------------------------------
\* The places of t by the kind of their holder.
InQueue(q, t) == {j \in DOMAIN q : q[j] = t}

LEMMA PlacesByHolder ==
  ASSUME NEW t
  PROVE  \A p : p \in Places(t) <=>
           \/ \E c \in Cores : \E i \in InQueue(local_queue[c], t) : p = <<"local", c, i>>
           \/ \E i \in InQueue(global_queue, t) : p = <<"global", i>>
           \/ \E c \in Cores : task[c] = t /\ p = <<"core", c>>
           \/ migrated = t /\ p = <<"balancer">>
<1> DEFINE inLocal == UNION {{<<"local", c, i>> :
                               i \in {j \in DOMAIN local_queue[c] : local_queue[c][j] = t}} :
                             c \in Cores}
           inGlobal == {<<"global", i>> : i \in {j \in DOMAIN global_queue : global_queue[j] = t}}
           inCore == {<<"core", c>> : c \in {d \in Cores : task[d] = t}}
           inBalancer == {<<"balancer">> : m \in {migrated} \intersect {t}}
<1> SUFFICES ASSUME NEW p
             PROVE  p \in Places(t) <=>
                      \/ \E c \in Cores : \E i \in InQueue(local_queue[c], t) : p = <<"local", c, i>>
                      \/ \E i \in InQueue(global_queue, t) : p = <<"global", i>>
                      \/ \E c \in Cores : task[c] = t /\ p = <<"core", c>>
                      \/ migrated = t /\ p = <<"balancer">>
  OBVIOUS
<1>1. p \in inLocal <=>
        \E c \in Cores : \E i \in InQueue(local_queue[c], t) : p = <<"local", c, i>>
  BY DEF InQueue
<1>2. p \in inGlobal <=> \E i \in InQueue(global_queue, t) : p = <<"global", i>>
  BY DEF InQueue
<1>3. p \in inCore <=> \E c \in Cores : task[c] = t /\ p = <<"core", c>>
  OBVIOUS
<1>4. p \in inBalancer <=> migrated = t /\ p = <<"balancer">>
  OBVIOUS
<1>5. Places(t) = inLocal \union inGlobal \union inCore \union inBalancer
  BY DEF Places
<1> HIDE DEF inLocal, inGlobal, inCore, inBalancer
<1> QED
  BY <1>1, <1>2, <1>3, <1>4, <1>5

\* What a task's holders say of the queues, the cores and the balancer.
LEMMA PlacesByHeld ==
  ASSUME IInv, NEW t \in Everything
  PROVE  /\ \A c \in Cores : t \notin Held[Local(c)] => InQueue(local_queue[c], t) = {}
         /\ \A c \in Cores : t \in Held[Local(c)] => \E i : InQueue(local_queue[c], t) = {i}
         /\ t \notin Held[Global] => InQueue(global_queue, t) = {}
         /\ t \in Held[Global] => \E i : InQueue(global_queue, t) = {i}
         /\ \A c \in Cores : t \in Held[Core(c)] <=> task[c] = t
         /\ t \in Held[Balancer] <=> migrated = t
<1>1. ASSUME NEW q \in Seq(Everything), Once(q)
      PROVE  /\ t \notin Range(q) => InQueue(q, t) = {}
             /\ t \in Range(q) => \E i : InQueue(q, t) = {i}
  <2>1. DOMAIN q = 1..Len(q)
    BY LenProperties
  <2>2. ASSUME t \in Range(q) PROVE \E i : InQueue(q, t) = {i}
    <3>1. PICK i \in DOMAIN q : q[i] = t
      BY <2>2 DEF Range
    <3>2. InQueue(q, t) = {i}
      BY <1>1, <2>1, <3>1 DEF Once, InQueue
    <3> QED
      BY <3>2
  <2> QED
    BY <2>2 DEF Range, InQueue
<1>2. /\ local_queue \in [Cores -> Seq(Everything)] /\ global_queue \in Seq(Everything)
      /\ (\A c \in Cores : Once(local_queue[c])) /\ Once(global_queue) /\ t # NoTask
  BY TasksAssumption DEF IInv, TypeOK, PlaceInv
<1>3. /\ \A c \in Cores : Held[Local(c)] = Range(local_queue[c])
      /\ \A c \in Cores : Held[Core(c)] = {task[c]} \ {NoTask}
      /\ Held[Global] = Range(global_queue)
      /\ Held[Balancer] = {migrated} \ {NoTask}
  BY HeldFacts DEF HeldIs
<1>4. ASSUME NEW c \in Cores
      PROVE  /\ t \notin Held[Local(c)] => InQueue(local_queue[c], t) = {}
             /\ t \in Held[Local(c)] => \E i : InQueue(local_queue[c], t) = {i}
  BY <1>1, <1>2, <1>3
<1>5. /\ t \notin Held[Global] => InQueue(global_queue, t) = {}
      /\ t \in Held[Global] => \E i : InQueue(global_queue, t) = {i}
  BY <1>1, <1>2, <1>3
<1>6. /\ \A c \in Cores : t \in Held[Core(c)] <=> task[c] = t
      /\ t \in Held[Balancer] <=> migrated = t
  BY <1>2, <1>3
<1> QED
  BY <1>4, <1>5, <1>6

\* The holder of t is its one place.
LEMMA OnePlace ==
  ASSUME IInv, NEW t \in Everything, NEW h \in Holders, t \in Held[h]
  PROVE  \E p : Places(t) = {p}
<1>1. \A g \in Holders : g # h => t \notin Held[g]
  BY DEF IInv, PlaceInv, Apart
<1>2. /\ \A c \in Cores : Local(c) \in Holders /\ Core(c) \in Holders
      /\ Global \in Holders /\ Balancer \in Holders
  BY DEF Holders
<1>3. /\ \A c \in Cores : Local(c) # h => InQueue(local_queue[c], t) = {}
      /\ Global # h => InQueue(global_queue, t) = {}
      /\ \A c \in Cores : Core(c) # h => task[c] # t
      /\ Balancer # h => migrated # t
  BY <1>1, <1>2, PlacesByHeld
<1>4. CASE h = Global
  <2>1. PICK i : InQueue(global_queue, t) = {i}
    BY <1>4, PlacesByHeld
  <2>2. \A p : p \in Places(t) <=> p = <<"global", i>>
    BY <1>3, <1>4, <2>1, HoldersDiffer, PlacesByHolder
  <2>3. Places(t) = {<<"global", i>>}
    BY <2>2
  <2> QED
    BY <2>3
<1>5. CASE h = Balancer
  <2>1. migrated = t
    BY <1>5, PlacesByHeld
  <2>2. \A p : p \in Places(t) <=> p = <<"balancer">>
    BY <1>3, <1>5, <2>1, HoldersDiffer, PlacesByHolder
  <2>3. Places(t) = {<<"balancer">>}
    BY <2>2
  <2> QED
    BY <2>3
<1>6. ASSUME NEW d \in Cores, h = Core(d)
      PROVE  \E p : Places(t) = {p}
  <2>1. \A c \in Cores : task[c] = t <=> c = d
    BY <1>3, <1>6, PlacesByHeld, HoldersDiffer
  <2>2. \A p : p \in Places(t) <=> p = <<"core", d>>
    BY <1>3, <1>6, <2>1, HoldersDiffer, PlacesByHolder
  <2>3. Places(t) = {<<"core", d>>}
    BY <2>2
  <2> QED
    BY <2>3
<1>7. ASSUME NEW d \in Cores, h = Local(d)
      PROVE  \E p : Places(t) = {p}
  <2>1. PICK i : InQueue(local_queue[d], t) = {i}
    BY <1>7, PlacesByHeld
  <2>2. \A c \in Cores : c # d => InQueue(local_queue[c], t) = {}
    BY <1>3, <1>7, HoldersDiffer
  <2>3. \A p : p \in Places(t) <=> p = <<"local", d, i>>
    BY <1>3, <1>7, <2>1, <2>2, HoldersDiffer, PlacesByHolder
  <2>4. Places(t) = {<<"local", d, i>>}
    BY <2>3
  <2> QED
    BY <2>4
<1> QED
  BY <1>4, <1>5, <1>6, <1>7, HolderCases

LEMMA NoPlace ==
  ASSUME IInv, NEW t \in Everything, \A h \in Holders : t \notin Held[h]
  PROVE  Places(t) = {}
<1>1. /\ \A c \in Cores : InQueue(local_queue[c], t) = {} /\ task[c] # t
      /\ InQueue(global_queue, t) = {} /\ migrated # t
  BY PlacesByHeld DEF Holders
<1> QED
  BY <1>1, PlacesByHolder

LEMMA EachTaskOnceHolds == IInv => EachTaskOnce
<1> SUFFICES ASSUME IInv, NEW n \in 1..Len(Tasks)
             PROVE  Cardinality(Places(Tasks[n])) =
                      IF n <= added /\ Tasks[n] \notin executed THEN 1 ELSE 0
  BY DEF EachTaskOnce
<1>a. Len(Tasks) \in Nat
  BY EverythingAdded
<1>b. added \in 0..Len(Tasks)
  BY DEF IInv, TypeOK
<1>c. Tasks[n] \in Everything
  BY DEF Everything
<1>0. /\ Tasks[n] \in Everything /\ n \in Nat /\ added \in Nat
      /\ added <= Len(Tasks) /\ Len(Tasks) \in Nat
  BY <1>a, <1>b, <1>c
<1>1. Tasks[n] \in Added(added) <=> n <= added
  <2>1. ASSUME NEW i \in 1..added, Tasks[i] = Tasks[n] PROVE i = n
    BY <1>0, <2>1, TasksAssumption
  <2>2. n <= added => n \in 1..added
    BY <1>0
  <2> QED
    BY <1>0, <2>1, <2>2 DEF Added
<1>2. (\E h \in Holders : Tasks[n] \in Held[h]) <=> n <= added /\ Tasks[n] \notin executed
  BY <1>1 DEF IInv, PlaceInv, Union
<1>3. CASE n <= added /\ Tasks[n] \notin executed
  BY <1>0, <1>2, <1>3, OnePlace, FS_Singleton
<1>4. CASE ~(n <= added /\ Tasks[n] \notin executed)
  BY <1>0, <1>2, <1>4, NoPlace, FS_EmptySet
<1> QED
  BY <1>3, <1>4

\* However many cores, thieves and tasks there are: no task is lost, and none
\* is in two queues, on two cores, or on a core and in a queue.
THEOREM TasksRunOnce == Spec => []EachTaskOnce
  BY IInvInit, IInvNext, EachTaskOnceHolds, PTL DEF Spec

-----------------------------------------------------------------------------
(* Induction and iteration.                                                *)

LEMMA LeastExists ==
  ASSUME NEW S \in SUBSET Nat, S # {}
  PROVE  \E m \in S : \A k \in S : m <= k
<1> DEFINE less == OpToRel(<, Nat)
<1>1. IsWellFoundedOn(less, Nat)
  BY NatLessThanWellFounded
<1>2. \A k, m \in Nat : k < m => <<k, m>> \in less
  BY DEF OpToRel
<1> HIDE DEF less
<1>3. PICK m \in S : \A k \in S : <<k, m>> \notin less
  BY <1>1, WFMin
<1>4. ASSUME NEW k \in S PROVE m <= k
  <2>1. k \in Nat /\ m \in Nat /\ ~(k < m)
    BY <1>2, <1>3
  <2> QED
    BY <2>1
<1> QED
  BY <1>4

LEMMA SetInduction ==
  ASSUME NEW S \in SUBSET Nat, 0 \in S, \A n \in S : n + 1 \in S
  PROVE  S = Nat
<1> SUFFICES ASSUME Nat \ S # {} PROVE FALSE
  OBVIOUS
<1>1. PICK m \in Nat \ S : \A k \in Nat \ S : m <= k
  BY LeastExists
<1>2. m # 0 /\ m - 1 \in Nat /\ m - 1 \notin S
  OBVIOUS
<1> QED
  BY <1>1, <1>2

\* The same up to a bound.
LEMMA BoundedInduction ==
  ASSUME NEW N \in Nat, NEW S, 0 \in S,
         \A n \in 0..N - 1 : n \in S => n + 1 \in S
  PROVE  0..N \subseteq S
<1> DEFINE T == {n \in Nat : n <= N => n \in S}
<1>1. 0 \in T
  OBVIOUS
<1>2. \A n \in T : n + 1 \in T
  OBVIOUS
<1>3. T = Nat
  <2> HIDE DEF T
  <2>1. T \in SUBSET Nat
    BY DEF T
  <2> QED
    BY <1>1, <1>2, <2>1, SetInduction
<1> QED
  BY <1>3

\* f starts from s, and each of its values follows from the one before by F.
Iterates(f, N, s, F) == f[0] = s /\ \A n \in 1..N : f[n] = F[n - 1][f[n - 1]]

\* There is such a function for every s and F.
LEMMA IterationExists ==
  ASSUME NEW N \in Nat, NEW S, NEW s \in S, NEW F \in [0..N - 1 -> [S -> S]]
  PROVE  \E f \in [0..N -> S] : Iterates(f, N, s, F)
<1> DEFINE Upto(m) == \E f \in [0..m -> S] :
                        f[0] = s /\ \A n \in 1..m : f[n] = F[n - 1][f[n - 1]]
           T == {m \in 0..N : Upto(m)}
<1>1. Upto(0)
  <2> DEFINE f == [n \in 0..0 |-> s]
  <2>1. f \in [0..0 -> S] /\ f[0] = s /\ \A n \in 1..0 : f[n] = F[n - 1][f[n - 1]]
    OBVIOUS
  <2> HIDE DEF f
  <2> QED
    BY <2>1
<1>2. ASSUME NEW m \in 0..N - 1, Upto(m)
      PROVE  Upto(m + 1)
  <2>1. PICK f \in [0..m -> S] : f[0] = s /\ \A n \in 1..m : f[n] = F[n - 1][f[n - 1]]
    BY <1>2
  <2> DEFINE g == [n \in 0..m + 1 |-> IF n = m + 1 THEN F[m][f[m]] ELSE f[n]]
  <2>2. g \in [0..m + 1 -> S]
    OBVIOUS
  <2>3. g[0] = s
    BY <2>1
  <2>4. ASSUME NEW n \in 1..m + 1
        PROVE  g[n] = F[n - 1][g[n - 1]]
    <3>1. CASE n = m + 1
      <4>1. n - 1 = m /\ g[n - 1] = f[m]
        BY <3>1
      <4> QED
        BY <3>1, <4>1
    <3>2. CASE n # m + 1
      <4>1. n \in 1..m /\ n - 1 \in 0..m /\ n - 1 # m + 1 /\ n \in 0..m
        BY <3>2
      <4> QED
        BY <2>1, <3>2, <4>1
    <3> QED
      BY <3>1, <3>2
  <2> HIDE DEF g
  <2> QED
    BY <2>2, <2>3, <2>4
<1>3. 0..N \subseteq T
  <2> HIDE DEF Upto
  <2>1. 0 \in T
    BY <1>1
  <2>2. \A m \in 0..N - 1 : m \in T => m + 1 \in T
    BY <1>2
  <2> HIDE DEF T
  <2> QED
    BY <2>1, <2>2, BoundedInduction
<1>4. N \in T
  <2> HIDE DEF T
  <2> QED
    BY <1>3
<1> QED
  BY <1>4 DEF Iterates


-----------------------------------------------------------------------------
(* The scheduling policies: what their state is.                           *)

CPUTypeOK ==
  /\ processes \in Tables
  /\ results \in Seq([All -> Nat])
  /\ current_time \in Nat
  /\ remaining_time \in [All -> Nat]
  /\ completion_time \in [All -> Nat]
  /\ completed \subseteq All
  /\ arrival_order \in ArrivalOrders(processes)
  /\ ready_queue \in Seq(All)
  /\ since \in [All -> Nat]

LEMMA TableFacts ==
  ASSUME NEW t \in Tables
  PROVE  /\ t \in Seq(Processes) /\ Len(t) \in Nat \ {0} /\ DOMAIN t = 1..Len(t)
         /\ IsFiniteSet(DOMAIN t) /\ Cardinality(DOMAIN t) = Len(t)
         /\ \A p \in DOMAIN t : /\ t[p].arrival_time \in Nat
                                /\ t[p].burst_time \in Nat
                                /\ t[p].priority \in Nat
<1>1. t \in Seq(Processes) /\ t # <<>>
  BY CPUAssumption
<1>2. Len(t) \in Nat \ {0} /\ DOMAIN t = 1..Len(t)
  BY <1>1
<1>3. \A p \in DOMAIN t : t[p] \in Processes
  BY <1>1, <1>2
<1>4. IsFiniteSet(1..Len(t)) /\ Cardinality(1..Len(t)) = Len(t)
  BY <1>2, FS_Interval
<1> QED
  BY <1>1, <1>2, <1>3, <1>4 DEF Processes

LEMMA PolicyOrder ==
  ASSUME CPUTypeOK
  PROVE  /\ Running("FCFS") <=> Len(results) = 0
         /\ Running("SJF") <=> Len(results) = 1
         /\ Running("SRTF") <=> Len(results) = 2
         /\ Running("RoundRobin") <=> Len(results) = 3
         /\ Running("PriorityScheduling") <=> Len(results) = 4
         /\ Len(results) \in Nat /\ Len(Policies) = 5
<1>1. Len(results) \in Nat
  BY DEF CPUTypeOK
<1>2. Len(Policies) = 5
  BY DEF Policies
<1>3. /\ Policies[1] = "FCFS" /\ Policies[2] = "SJF" /\ Policies[3] = "SRTF"
      /\ Policies[4] = "RoundRobin" /\ Policies[5] = "PriorityScheduling"
  BY DEF Policies
<1> DEFINE n == Len(results)
<1>4. \A policy : Running(policy) <=> n < 5 /\ Policies[n + 1] = policy
  BY <1>2 DEF Running
<1>5. n = 0 \/ n = 1 \/ n = 2 \/ n = 3 \/ n = 4 \/ (n > 4 /\ ~(n < 5))
  <2>1. \A k \in Nat : k = 0 \/ k = 1 \/ k = 2 \/ k = 3 \/ k = 4 \/ (k > 4 /\ ~(k < 5))
    OBVIOUS
  <2> HIDE DEF n
  <2>2. n \in Nat
    BY <1>1 DEF n
  <2> QED
    BY <2>1, <2>2
<1> HIDE DEF n
<1>6. /\ n = 0 => n < 5 /\ n + 1 = 1
      /\ n = 1 => n < 5 /\ n + 1 = 2
      /\ n = 2 => n < 5 /\ n + 1 = 3
      /\ n = 3 => n < 5 /\ n + 1 = 4
      /\ n = 4 => n < 5 /\ n + 1 = 5
  OBVIOUS
<1>7. /\ Running("FCFS") <=> n = 0
      /\ Running("SJF") <=> n = 1
      /\ Running("SRTF") <=> n = 2
      /\ Running("RoundRobin") <=> n = 3
      /\ Running("PriorityScheduling") <=> n = 4
  BY <1>3, <1>4, <1>5, <1>6
<1> QED
  BY <1>1, <1>2, <1>7 DEF n

LEMMA OnlyOnePolicy ==
  ASSUME CPUTypeOK
  PROVE  /\ Running("FCFS") => /\ ~Running("SJF") /\ ~Running("SRTF")
                               /\ ~Running("RoundRobin") /\ ~Running("PriorityScheduling")
         /\ Running("SJF") => /\ ~Running("FCFS") /\ ~Running("SRTF")
                              /\ ~Running("RoundRobin") /\ ~Running("PriorityScheduling")
         /\ Running("SRTF") => /\ ~Running("FCFS") /\ ~Running("SJF")
                               /\ ~Running("RoundRobin") /\ ~Running("PriorityScheduling")
                               /\ ~(Len(results) >= 3)
         /\ Running("RoundRobin") => /\ ~Running("FCFS") /\ ~Running("SJF")
                                     /\ ~Running("SRTF") /\ ~Running("PriorityScheduling")
                                     /\ Len(results) >= 3
         /\ Running("PriorityScheduling") => /\ ~Running("FCFS") /\ ~Running("SJF")
                                             /\ ~Running("SRTF") /\ ~Running("RoundRobin")
<1> DEFINE n == Len(results)
<1>1. /\ Running("FCFS") <=> n = 0
      /\ Running("SJF") <=> n = 1
      /\ Running("SRTF") <=> n = 2
      /\ Running("RoundRobin") <=> n = 3
      /\ Running("PriorityScheduling") <=> n = 4
  BY PolicyOrder
<1>2. ~(2 >= 3) /\ 3 >= 3
  OBVIOUS
<1> HIDE DEF n
<1>3. /\ n = 0 => n # 1 /\ n # 2 /\ n # 3 /\ n # 4
      /\ n = 1 => n # 2 /\ n # 3 /\ n # 4
      /\ n = 2 => n # 3 /\ n # 4
      /\ n = 3 => n # 4
  OBVIOUS
<1>4. /\ Running("SRTF") => ~(n >= 3)
      /\ Running("RoundRobin") => n >= 3
  BY <1>1, <1>2
<1> QED
  BY <1>1, <1>3, <1>4, Zenon DEF n

\* An arrival order lists every process once, the earlier ones first.
LEMMA OrderFacts ==
  ASSUME NEW t \in Tables, NEW s \in ArrivalOrders(t)
  PROVE  /\ s \in Seq(DOMAIN t) /\ Len(s) = Len(t) /\ DOMAIN s = 1..Len(t)
         /\ \A i, j \in 1..Len(t) : s[i] = s[j] => i = j
         /\ \A p \in DOMAIN t : \E i \in 1..Len(t) : s[i] = p
         /\ \A i, j \in 1..Len(t) : i <= j => t[s[i]].arrival_time <= t[s[j]].arrival_time
<1> DEFINE N == Len(t)
<1>1. /\ N \in Nat \ {0} /\ DOMAIN t = 1..N /\ IsFiniteSet(DOMAIN t)
      /\ Cardinality(DOMAIN t) = N
      /\ \A p \in DOMAIN t : t[p].arrival_time \in Nat
  BY TableFacts
<1>2. /\ s \in [1..N -> DOMAIN t] /\ \A i, j \in 1..N : i # j => s[i] # s[j]
      /\ \A i \in 1..Len(s) - 1 : t[s[i]].arrival_time <= t[s[i + 1]].arrival_time
  BY <1>1 DEF ArrivalOrders, SetToSeqs
<1>3. s \in Seq(DOMAIN t) /\ Len(s) = N
  BY <1>1, <1>2
<1>4. \A p \in DOMAIN t : \E i \in 1..N : s[i] = p
  <2>1. s \in Injection(1..N, DOMAIN t)
    BY <1>2 DEF Injection, IsInjective
  <2>2. IsFiniteSet(1..N) /\ Cardinality(1..N) = N
    BY <1>1, FS_Interval
  <2>3. s \in Surjection(1..N, DOMAIN t)
    BY <1>1, <2>1, <2>2, FS_Injection
  <2> QED
    BY <2>3 DEF Surjection
<1>5. ASSUME NEW i \in 1..N, NEW j \in 1..N, i <= j
      PROVE  t[s[i]].arrival_time <= t[s[j]].arrival_time
  <2> DEFINE Later == {k \in Nat : i + k <= N =>
                         t[s[i]].arrival_time <= t[s[i + k]].arrival_time}
  <2>1. 0 \in Later
    BY <1>1, <1>2
  <2>2. ASSUME NEW k \in Later PROVE k + 1 \in Later
    <3>1. SUFFICES ASSUME i + (k + 1) <= N
                   PROVE  t[s[i]].arrival_time <= t[s[i + (k + 1)]].arrival_time
      OBVIOUS
    <3>2. i + k \in 1..N /\ i + (k + 1) \in 1..N /\ i + k \in 1..Len(s) - 1
          /\ (i + k) + 1 = i + (k + 1)
      BY <3>1, <1>1, <1>3
    <3>3. t[s[i]].arrival_time <= t[s[i + k]].arrival_time
      BY <3>2, <1>1
    <3>4. t[s[i + k]].arrival_time <= t[s[i + (k + 1)]].arrival_time
      BY <3>2, <1>2
    <3>5. /\ t[s[i]].arrival_time \in Nat /\ t[s[i + k]].arrival_time \in Nat
          /\ t[s[i + (k + 1)]].arrival_time \in Nat
      BY <3>2, <1>1, <1>2
    <3> QED
      BY <3>3, <3>4, <3>5
  <2>3. Later = Nat
    <3>1. Later \in SUBSET Nat
      OBVIOUS
    <3> HIDE DEF Later
    <3> QED
      BY <2>1, <2>2, <3>1, SetInduction
  <2>4. j - i \in Later /\ i + (j - i) = j
    <3> HIDE DEF Later
    <3>1. j - i \in Nat /\ i + (j - i) = j
      BY <1>1, <1>5
    <3> QED
      BY <2>3, <3>1
  <2> QED
    BY <2>4, <1>1
<1>6. DOMAIN s = 1..N
  BY <1>2
<1> QED
  BY <1>2, <1>3, <1>4, <1>5, <1>6

-----------------------------------------------------------------------------
(* Who came during a slice.                                                *)

\* found lists the members of S among the first n of order, each once.
Finds(found, order, n, S, D) ==
  /\ found \in Seq(D)
  /\ \A i, j \in 1..Len(found) : found[i] = found[j] => i = j
  /\ \A i \in 1..Len(found) : found[i] \in S /\ \E k \in 1..n : order[k] = found[i]
  /\ \A k \in 1..n : order[k] \in S => \E i \in 1..Len(found) : found[i] = order[k]

LEMMA FindsNext ==
  ASSUME NEW D, NEW S, NEW order \in Seq(D), NEW n \in 0..Len(order) - 1,
         \A i, j \in 1..Len(order) : order[i] = order[j] => i = j,
         NEW found, Finds(found, order, n, S, D)
  PROVE  Finds(IF order[n + 1] \in S THEN Append(found, order[n + 1]) ELSE found,
               order, n + 1, S, D)
<1> DEFINE p == order[n + 1]
<1>1. n \in Nat /\ n + 1 \in 1..Len(order) /\ p \in D /\ Len(order) \in Nat
  OBVIOUS
<1>2. /\ found \in Seq(D) /\ Len(found) \in Nat
      /\ \A i, j \in 1..Len(found) : found[i] = found[j] => i = j
      /\ \A i \in 1..Len(found) : found[i] \in S /\ \E k \in 1..n : order[k] = found[i]
      /\ \A k \in 1..n : order[k] \in S => \E i \in 1..Len(found) : found[i] = order[k]
  BY DEF Finds
<1>3. CASE p \notin S
  <2>1. \A k \in 1..n + 1 : k \in 1..n \/ k = n + 1
    BY <1>1
  <2>2. \A k \in 1..n : k \in 1..n + 1
    BY <1>1
  <2>3. Finds(found, order, n + 1, S, D)
    BY <1>2, <1>3, <2>1, <2>2 DEF Finds
  <2> QED
    BY <1>3, <2>3
<1>4. CASE p \in S
  <2> DEFINE more == Append(found, p)
             L == Len(found)
  <2>1. /\ more \in Seq(D) /\ Len(more) = L + 1 /\ more[L + 1] = p
        /\ \A i \in 1..L : more[i] = found[i]
    BY <1>1, <1>2, AppendProperties
  <2>2. \A i \in 1..L + 1 : i \in 1..L \/ i = L + 1
    BY <1>2
  <2>3. \A k \in 1..n + 1 : k \in 1..n \/ k = n + 1
    BY <1>1
  <2>4. /\ \A k \in 1..n : k \in 1..n + 1 /\ k \in 1..Len(order) /\ k # n + 1
        /\ n + 1 \in 1..n + 1
        /\ \A i \in 1..L : i \in 1..L + 1
        /\ L + 1 \in 1..L + 1
    BY <1>1, <1>2
  <2>5. \A i \in 1..L : found[i] # p
    BY <1>1, <1>2, <2>4
  <2> HIDE DEF more, L, p
  <2>6. \A i, j \in 1..L + 1 : more[i] = more[j] => i = j
    BY <1>2, <2>1, <2>2, <2>5 DEF L
  <2>7. \A i \in 1..L + 1 : more[i] \in S /\ \E k \in 1..n + 1 : order[k] = more[i]
    <3>1. SUFFICES ASSUME NEW i \in 1..L + 1
                   PROVE  more[i] \in S /\ \E k \in 1..n + 1 : order[k] = more[i]
      OBVIOUS
    <3>2. CASE i \in 1..L
      BY <3>2, <1>2, <2>1, <2>4 DEF L
    <3>3. CASE i = L + 1
      BY <3>3, <1>4, <2>1, <2>4 DEF p
    <3> QED
      BY <2>2, <3>2, <3>3
  <2>8. \A k \in 1..n + 1 : order[k] \in S => \E i \in 1..L + 1 : more[i] = order[k]
    <3>1. SUFFICES ASSUME NEW k \in 1..n + 1, order[k] \in S
                   PROVE  \E i \in 1..L + 1 : more[i] = order[k]
      OBVIOUS
    <3>2. CASE k \in 1..n
      <4>1. PICK i \in 1..L : found[i] = order[k]
        BY <3>1, <3>2, <1>2 DEF L
      <4> QED
        BY <4>1, <2>1, <2>4
    <3>3. CASE k = n + 1
      BY <3>3, <2>1, <2>4 DEF p
    <3> QED
      BY <2>3, <3>2, <3>3
  <2>9. Finds(more, order, n + 1, S, D)
    BY <2>1, <2>6, <2>7, <2>8 DEF Finds
  <2> QED
    BY <1>4, <2>9 DEF more, p
<1> QED
  BY <1>3, <1>4

LEMMA InOrderFinds ==
  ASSUME NEW D, NEW S, NEW order \in Seq(D),
         \A i, j \in 1..Len(order) : order[i] = order[j] => i = j
  PROVE  Finds(InOrder(order, S), order, Len(order), S, D)
<1> DEFINE N == Len(order)
           Lists == Seq(D)
           Next1(n, found) == IF order[n + 1] \in S THEN Append(found, order[n + 1]) ELSE found
           F == [n \in 0..N - 1 |-> [found \in Lists |-> Next1(n, found)]]
           Found[n \in 0..N] ==
             IF n = 0 THEN <<>>
             ELSE IF order[n] \in S THEN Append(Found[n - 1], order[n])
             ELSE Found[n - 1]
<1>0. N \in Nat /\ <<>> \in Lists
  OBVIOUS
<1>1. F \in [0..N - 1 -> [Lists -> Lists]]
  <2>1. ASSUME NEW n \in 0..N - 1, NEW found \in Lists
        PROVE  Next1(n, found) \in Lists
    <3>1. n + 1 \in 1..N /\ order[n + 1] \in D
      BY <1>0
    <3> QED
      BY <3>1, AppendProperties
  <2> HIDE DEF Lists, Next1
  <2> QED
    BY <2>1
<1>2. PICK f \in [0..N -> Lists] : Iterates(f, N, <<>>, F)
  <2> HIDE DEF F, Lists, N, Found
  <2> QED
    BY <1>0, <1>1, IterationExists
<1>3. ASSUME NEW n \in 1..N
      PROVE  f[n] = IF order[n] \in S THEN Append(f[n - 1], order[n]) ELSE f[n - 1]
  <2> HIDE DEF Lists, N, Found
  <2>1. n - 1 \in 0..N - 1 /\ n - 1 \in 0..N /\ f[n - 1] \in Lists /\ (n - 1) + 1 = n
    BY <1>0
  <2>2. F[n - 1][f[n - 1]] = Next1(n - 1, f[n - 1])
    <3> HIDE DEF Next1
    <3> QED
      BY <2>1
  <2>3. f[n] = F[n - 1][f[n - 1]]
    <3> HIDE DEF F
    <3> QED
      BY <1>2 DEF Iterates
  <2> QED
    BY <2>1, <2>2, <2>3
<1>4. f = [n \in 0..N |->
             IF n = 0 THEN <<>>
             ELSE IF order[n] \in S THEN Append(f[n - 1], order[n])
             ELSE f[n - 1]]
  <2> HIDE DEF Lists, N, Found, F
  <2>1. f = [n \in 0..N |-> f[n]]
    OBVIOUS
  <2>2. f[0] = <<>>
    BY <1>2 DEF Iterates
  <2>3. \A n \in 0..N : f[n] = IF n = 0 THEN <<>>
                               ELSE IF order[n] \in S THEN Append(f[n - 1], order[n])
                               ELSE f[n - 1]
    <3>1. \A n \in 0..N : n = 0 \/ n \in 1..N
      BY <1>0
    <3> QED
      BY <1>3, <2>2, <3>1
  <2> QED
    BY <2>1, <2>3
<1>5. Found = [n \in 0..N |->
                 IF n = 0 THEN <<>>
                 ELSE IF order[n] \in S THEN Append(Found[n - 1], order[n])
                 ELSE Found[n - 1]]
  BY <1>4
<1>6. InOrder(order, S) = Found[N]
  BY DEF InOrder
<1> HIDE DEF Found, F, Lists, N
<1>7. /\ Found[0] = <<>>
      /\ \A n \in 1..N : Found[n] = IF order[n] \in S THEN Append(Found[n - 1], order[n])
                                    ELSE Found[n - 1]
  <2>1. 0 \in 0..N /\ \A n \in 1..N : n \in 0..N /\ n # 0
    BY <1>0
  <2>2. Found[0] = <<>>
    BY <1>5, <2>1, Zenon
  <2>3. ASSUME NEW n \in 1..N
        PROVE  Found[n] = IF order[n] \in S THEN Append(Found[n - 1], order[n])
                          ELSE Found[n - 1]
    BY <1>5, <2>1, Zenon
  <2> QED
    BY <2>2, <2>3
<1> DEFINE Fine == {n \in 0..N : Finds(Found[n], order, n, S, D)}
<1>8. 0 \in Fine
  <2>1. Found[0] \in Seq(D) /\ Len(Found[0]) = 0
    BY <1>7
  <2>2. Finds(Found[0], order, 0, S, D)
    BY <2>1 DEF Finds
  <2> QED
    BY <1>0, <2>2
<1>9. ASSUME NEW n \in 0..N - 1, n \in Fine PROVE n + 1 \in Fine
  <2>1. n + 1 \in 1..N /\ n + 1 \in 0..N /\ (n + 1) - 1 = n
    BY <1>0
  <2>2. Found[n + 1] = IF order[n + 1] \in S THEN Append(Found[n], order[n + 1]) ELSE Found[n]
    BY <1>7, <2>1
  <2>3. Finds(Found[n + 1], order, n + 1, S, D)
    BY <1>9, <2>2, FindsNext DEF N
  <2> QED
    BY <2>1, <2>3
<1>10. N \in Fine
  <2> HIDE DEF Fine
  <2>1. 0..N \subseteq Fine
    BY <1>0, <1>8, <1>9, BoundedInduction
  <2> QED
    BY <1>0, <2>1
<1> QED
  BY <1>6, <1>10 DEF N

-----------------------------------------------------------------------------
(* Sums.                                                                   *)

\* Induction over the subsets of a finite set.
LEMMA FiniteInduction ==
  ASSUME NEW S, IsFiniteSet(S), NEW G, {} \in G,
         \A T \in SUBSET S : \A x \in S \ T : T \in G => T \union {x} \in G
  PROVE  SUBSET S \subseteq G
<1> DEFINE Reached == {n \in Nat : \A T \in SUBSET S : Cardinality(T) = n => T \in G}
<1>1. \A T \in SUBSET S : IsFiniteSet(T) /\ Cardinality(T) \in Nat
  BY FS_Subset, FS_CardinalityType
<1>2. 0 \in Reached
  <2>1. \A T \in SUBSET S : Cardinality(T) = 0 => T = {}
    BY <1>1, FS_EmptySet
  <2> QED
    BY <2>1
<1>3. ASSUME NEW n \in Reached PROVE n + 1 \in Reached
  <2>0. n \in Nat /\ \A T \in SUBSET S : Cardinality(T) = n => T \in G
    OBVIOUS
  <2>1. SUFFICES ASSUME NEW T \in SUBSET S, Cardinality(T) = n + 1 PROVE T \in G
    BY <2>0
  <2> HIDE DEF Reached
  <2>2. T # {}
    BY <2>0, <2>1, FS_EmptySet
  <2>3. PICK x \in T : TRUE
    BY <2>2
  <2>4. T \ {x} \in SUBSET S /\ Cardinality(T \ {x}) = n
    <3>1. IsFiniteSet(T) /\ x \in T
      BY <1>1, <2>3
    <3>2. Cardinality(T \ {x}) = Cardinality(T) - 1
      BY <3>1, FS_RemoveElement
    <3> QED
      BY <2>0, <2>1, <3>2
  <2>5. T \ {x} \in G
    BY <2>0, <2>4
  <2>6. x \in S \ (T \ {x}) /\ T = (T \ {x}) \union {x}
    OBVIOUS
  <2> QED
    BY <2>4, <2>5, <2>6
<1>4. Reached = Nat
  <2>1. Reached \in SUBSET Nat
    OBVIOUS
  <2> HIDE DEF Reached
  <2> QED
    BY <1>2, <1>3, <2>1, SetInduction
<1>5. \A n \in Nat : \A T \in SUBSET S : Cardinality(T) = n => T \in G
  BY <1>4
<1> QED
  BY <1>1, <1>5

\* total gives the sum of f over each subset of S: the member of a set that
\* is added last is the one CHOOSE picks.
Sums(total, f, S) ==
  /\ total \in [SUBSET S -> Int]
  /\ total[{}] = 0
  /\ \A T \in SUBSET S :
       T # {} => total[T] = f[CHOOSE x \in T : TRUE] + total[T \ {CHOOSE x \in T : TRUE}]

LEMMA SumsExist ==
  ASSUME NEW S, IsFiniteSet(S), NEW f, \A x \in S : f[x] \in Int
  PROVE  \E total : Sums(total, f, S)
<1> DEFINE Upto(n) == {T \in SUBSET S : Cardinality(T) <= n}
           Defined(n) == \E total \in [Upto(n) -> Int] :
                           /\ total[{}] = 0
                           /\ \A T \in Upto(n) : T # {} =>
                                total[T] = f[CHOOSE x \in T : TRUE]
                                           + total[T \ {CHOOSE x \in T : TRUE}]
           Reached == {n \in Nat : Defined(n)}
<1>1. \A T \in SUBSET S : IsFiniteSet(T) /\ Cardinality(T) \in Nat
  BY FS_Subset, FS_CardinalityType
<1>2. \A T \in SUBSET S : T # {} =>
        /\ (CHOOSE x \in T : TRUE) \in T
        /\ T \ {CHOOSE x \in T : TRUE} \in SUBSET S
        /\ Cardinality(T \ {CHOOSE x \in T : TRUE}) = Cardinality(T) - 1
        /\ f[CHOOSE x \in T : TRUE] \in Int
  <2>1. SUFFICES ASSUME NEW T \in SUBSET S, T # {}
                 PROVE  LET x == CHOOSE x \in T : TRUE
                        IN /\ x \in T /\ T \ {x} \in SUBSET S
                           /\ Cardinality(T \ {x}) = Cardinality(T) - 1 /\ f[x] \in Int
    OBVIOUS
  <2>2. (CHOOSE x \in T : TRUE) \in T
    BY <2>1
  <2> QED
    BY <1>1, <2>2, FS_RemoveElement
<1>3. 0 \in Reached
  <2>1. Cardinality({}) = 0 /\ {} \in Upto(0)
    BY FS_EmptySet
  <2>2. \A T \in Upto(0) : T = {}
    <3>1. ASSUME NEW T \in Upto(0) PROVE T = {}
      <4>1. IsFiniteSet(T) /\ Cardinality(T) = 0
        BY <1>1
      <4> QED
        BY <4>1, FS_EmptySet
    <3> QED
      BY <3>1
  <2> DEFINE total == [T \in Upto(0) |-> 0]
  <2>3. total \in [Upto(0) -> Int] /\ total[{}] = 0
    BY <2>1
  <2>4. Defined(0)
    <3> HIDE DEF total, Upto
    <3> QED
      BY <2>2, <2>3
  <2> QED
    BY <2>4
<1>4. ASSUME NEW n \in Reached PROVE n + 1 \in Reached
  <2>0. n \in Nat
    OBVIOUS
  <2>1. PICK total \in [Upto(n) -> Int] :
          /\ total[{}] = 0
          /\ \A T \in Upto(n) : T # {} =>
               total[T] = f[CHOOSE x \in T : TRUE] + total[T \ {CHOOSE x \in T : TRUE}]
    BY <1>4
  <2> DEFINE more == [T \in Upto(n + 1) |->
                        IF T \in Upto(n) THEN total[T]
                        ELSE f[CHOOSE x \in T : TRUE] + total[T \ {CHOOSE x \in T : TRUE}]]
  <2>2. {} \in Upto(n) /\ \A T \in Upto(n) : T \in Upto(n + 1)
    BY <1>1, <2>0, FS_EmptySet
  <2>3. \A T \in Upto(n + 1) : T # {} => T \ {CHOOSE x \in T : TRUE} \in Upto(n)
    <3>1. ASSUME NEW T \in Upto(n + 1), T # {}
          PROVE  T \ {CHOOSE x \in T : TRUE} \in Upto(n)
      BY <1>1, <1>2, <2>0, <3>1
    <3> QED
      BY <3>1
  <2>4. \A T \in Upto(n + 1) : T # {} => f[CHOOSE x \in T : TRUE] \in Int
    BY <1>2
  <2> HIDE DEF Upto
  <2>5. more \in [Upto(n + 1) -> Int]
    <3>1. \A T \in Upto(n + 1) : T \notin Upto(n) => T # {}
      BY <2>2
    <3> QED
      BY <2>3, <2>4, <3>1
  <2>6. more[{}] = 0
    BY <2>1, <2>2
  <2>7. \A T \in Upto(n + 1) : T # {} =>
          more[T] = f[CHOOSE x \in T : TRUE] + more[T \ {CHOOSE x \in T : TRUE}]
    <3>1. SUFFICES ASSUME NEW T \in Upto(n + 1), T # {}
                   PROVE  more[T] = f[CHOOSE x \in T : TRUE]
                                    + more[T \ {CHOOSE x \in T : TRUE}]
      OBVIOUS
    <3>2. T \ {CHOOSE x \in T : TRUE} \in Upto(n)
      BY <2>3, <3>1
    <3>3. more[T \ {CHOOSE x \in T : TRUE}] = total[T \ {CHOOSE x \in T : TRUE}]
      BY <2>2, <3>2
    <3>4. CASE T \in Upto(n)
      <4>1. total[T] = f[CHOOSE x \in T : TRUE] + total[T \ {CHOOSE x \in T : TRUE}]
        BY <2>1, <3>1, <3>4
      <4> QED
        BY <3>3, <3>4, <4>1
    <3>5. CASE T \notin Upto(n)
      <4>1. more[T] = f[CHOOSE x \in T : TRUE] + total[T \ {CHOOSE x \in T : TRUE}]
        BY <3>5
      <4> QED
        BY <3>3, <4>1
    <3> QED
      BY <3>4, <3>5
  <2> HIDE DEF more
  <2>8. Defined(n + 1)
    BY <2>5, <2>6, <2>7
  <2> HIDE DEF Defined
  <2> QED
    BY <2>0, <2>8
<1>5. Reached = Nat
  <2>1. Reached \in SUBSET Nat
    OBVIOUS
  <2> HIDE DEF Reached
  <2> QED
    BY <1>3, <1>4, <2>1, SetInduction
<1>6. Cardinality(S) \in Nat /\ Upto(Cardinality(S)) = SUBSET S
  <2>1. \A T \in SUBSET S : Cardinality(T) <= Cardinality(S)
    BY FS_Subset
  <2> QED
    BY <1>1, <2>1
<1>7. Defined(Cardinality(S))
  <2> HIDE DEF Defined, Upto
  <2> QED
    BY <1>5, <1>6
<1>8. PICK total \in [SUBSET S -> Int] :
          /\ total[{}] = 0
          /\ \A T \in SUBSET S : T # {} =>
               total[T] = f[CHOOSE x \in T : TRUE] + total[T \ {CHOOSE x \in T : TRUE}]
  <2> HIDE DEF Upto
  <2> QED
    BY <1>6, <1>7
<1> QED
  BY <1>8 DEF Sums

\* Which member is added last does not matter.
AddsUp(total, f, T, x) == total[T] = f[x] + total[T \ {x}]

LEMMA SumsAdd ==
  ASSUME NEW S, IsFiniteSet(S), NEW f, \A x \in S : f[x] \in Int,
         NEW total, Sums(total, f, S), NEW R \in SUBSET S, NEW r \in R
  PROVE  AddsUp(total, f, R, r)
<1> DEFINE Last1(T) == CHOOSE x \in T : TRUE
           Reached == {n \in Nat : \A T \in SUBSET S : Cardinality(T) = n =>
                         \A x \in T : AddsUp(total, f, T, x)}
<1>1. \A T \in SUBSET S : IsFiniteSet(T) /\ Cardinality(T) \in Nat
  BY FS_Subset, FS_CardinalityType
<1>2. 0 \in Reached
  <2>1. \A T \in SUBSET S : Cardinality(T) = 0 => T = {}
    BY <1>1, FS_EmptySet
  <2> QED
    BY <2>1
<1>3. ASSUME NEW n \in Reached PROVE n + 1 \in Reached
  <2>0. n \in Nat /\ \A T \in SUBSET S : Cardinality(T) = n =>
                        \A x \in T : AddsUp(total, f, T, x)
    OBVIOUS
  <2>1. SUFFICES ASSUME NEW T \in SUBSET S, Cardinality(T) = n + 1, NEW x \in T
                 PROVE  AddsUp(total, f, T, x)
    BY <2>0
  <2> HIDE DEF Reached
  <2> DEFINE c == Last1(T)
  <2>2. c \in T /\ total[T] = f[c] + total[T \ {c}]
    BY DEF Sums
  <2> HIDE DEF c
  <2>3. SUFFICES ASSUME c # x PROVE AddsUp(total, f, T, x)
    BY <2>2 DEF AddsUp
  <2>4. /\ T \ {c} \in SUBSET S /\ Cardinality(T \ {c}) = n
        /\ T \ {x} \in SUBSET S /\ Cardinality(T \ {x}) = n
        /\ x \in T \ {c} /\ c \in T \ {x} /\ (T \ {c}) \ {x} = (T \ {x}) \ {c}
    <3>1. IsFiniteSet(T) /\ x \in T /\ c \in T /\ Cardinality(T) - 1 = n
      BY <1>1, <2>0, <2>1, <2>2
    <3>2. Cardinality(T \ {c}) = n /\ Cardinality(T \ {x}) = n
      BY <3>1, FS_RemoveElement
    <3> QED
      BY <2>2, <2>3, <3>2
  <2> DEFINE rest == (T \ {x}) \ {c}
  <2>5. total[T \ {c}] = f[x] + total[rest]
    <3>1. AddsUp(total, f, T \ {c}, x)
      BY <2>0, <2>4
    <3> QED
      BY <2>4, <3>1 DEF AddsUp
  <2>6. total[T \ {x}] = f[c] + total[rest]
    <3>1. AddsUp(total, f, T \ {x}, c)
      BY <2>0, <2>4
    <3> QED
      BY <3>1 DEF AddsUp
  <2>7. f[x] \in Int /\ f[c] \in Int /\ total[rest] \in Int
    BY <2>2 DEF Sums
  <2> HIDE DEF rest
  <2>8. total[T] = f[c] + total[T \ {c}]
    BY <2>2
  <2> QED
    BY <2>5, <2>6, <2>7, <2>8 DEF AddsUp
<1>4. Reached = Nat
  <2>1. Reached \in SUBSET Nat
    OBVIOUS
  <2> HIDE DEF Reached
  <2> QED
    BY <1>2, <1>3, <2>1, SetInduction
<1>5. \A n \in Nat : \A T \in SUBSET S : Cardinality(T) = n =>
        \A x \in T : AddsUp(total, f, T, x)
  BY <1>4
<1> HIDE DEF Reached
<1> QED
  BY <1>1, <1>5

\* Sums over two sets agree where both are defined.
LEMMA SumsAgree ==
  ASSUME NEW S, IsFiniteSet(S), NEW f, \A x \in S : f[x] \in Int,
         NEW R, R \subseteq S,
         NEW whole, Sums(whole, f, S), NEW part, Sums(part, f, R)
  PROVE  \A T \in SUBSET R : part[T] = whole[T]
<1> DEFINE G == {T \in SUBSET R : part[T] = whole[T]}
<1>1. IsFiniteSet(R)
  BY FS_Subset
<1>2. {} \in G
  BY DEF Sums
<1>3. ASSUME NEW T \in SUBSET R, NEW x \in R \ T, T \in G PROVE T \union {x} \in G
  <2> DEFINE U == T \union {x}
  <2>1. U \in SUBSET R /\ U \in SUBSET S /\ x \in U /\ U \ {x} = T /\ part[T] = whole[T]
    BY <1>3
  <2>2. \A y \in R : f[y] \in Int
    OBVIOUS
  <2> HIDE DEF U, G
  <2>3. AddsUp(part, f, U, x)
    BY <1>1, <2>1, <2>2, SumsAdd
  <2>4. AddsUp(whole, f, U, x)
    BY <2>1, SumsAdd
  <2> QED
    BY <2>1, <2>3, <2>4 DEF U, G, AddsUp
<1>4. SUBSET R \subseteq G
  <2> HIDE DEF G
  <2> QED
    BY <1>1, <1>2, <1>3, FiniteInduction
<1> QED
  BY <1>4

LEMMA SumIsTotal ==
  ASSUME NEW S, IsFiniteSet(S), NEW f, \A x \in S : f[x] \in Int
  PROVE  \E total : Sums(total, f, S) /\ SumFunctionOnSet(f, S) = total[S]
<1> DEFINE iter[T \in SUBSET S] ==
             IF T = {} THEN 0
             ELSE LET x == CHOOSE x \in T : TRUE IN f[x] + iter[T \ {x}]
<1>1. SumFunctionOnSet(f, S) = iter[S]
  BY DEF SumFunctionOnSet, FoldFunctionOnSet, MapThenFoldSet
<1>2. PICK total : Sums(total, f, S)
  BY SumsExist
<1>3. total = [T \in SUBSET S |->
                 IF T = {} THEN 0
                 ELSE LET x == CHOOSE x \in T : TRUE IN f[x] + total[T \ {x}]]
  <2> HIDE DEF iter
  <2>1. total = [T \in SUBSET S |-> total[T]]
    BY <1>2 DEF Sums
  <2>2. \A T \in SUBSET S : total[T] = IF T = {} THEN 0
                 ELSE LET x == CHOOSE x \in T : TRUE IN f[x] + total[T \ {x}]
    BY <1>2 DEF Sums
  <2> QED
    BY <2>1, <2>2
<1>4. iter = [T \in SUBSET S |->
                IF T = {} THEN 0
                ELSE LET x == CHOOSE x \in T : TRUE IN f[x] + iter[T \ {x}]]
  BY <1>3
<1> HIDE DEF iter
<1>5. \A T \in SUBSET S : iter[T] = IF T = {} THEN 0
                 ELSE LET x == CHOOSE x \in T : TRUE IN f[x] + iter[T \ {x}]
  BY <1>4, Zenon
<1> DEFINE Reached == {n \in Nat : \A T \in SUBSET S : Cardinality(T) = n => iter[T] = total[T]}
<1>6. \A T \in SUBSET S : IsFiniteSet(T) /\ Cardinality(T) \in Nat
  BY FS_Subset, FS_CardinalityType
<1>7. 0 \in Reached
  <2>1. \A T \in SUBSET S : Cardinality(T) = 0 => T = {}
    BY <1>6, FS_EmptySet
  <2>2. iter[{}] = total[{}]
    BY <1>2, <1>5 DEF Sums
  <2> QED
    BY <2>1, <2>2
<1>8. ASSUME NEW n \in Reached PROVE n + 1 \in Reached
  <2>0. n \in Nat /\ \A T \in SUBSET S : Cardinality(T) = n => iter[T] = total[T]
    OBVIOUS
  <2>1. SUFFICES ASSUME NEW T \in SUBSET S, Cardinality(T) = n + 1 PROVE iter[T] = total[T]
    BY <2>0
  <2> HIDE DEF Reached
  <2>2. T # {}
    <3>1. Cardinality(T) # 0
      BY <2>0, <2>1
    <3> QED
      BY <3>1, FS_EmptySet
  <2> DEFINE x == CHOOSE x \in T : TRUE
  <2>3. x \in T
    BY <2>2
  <2>4. iter[T] = f[x] + iter[T \ {x}]
    BY <1>5, <2>2
  <2>5. total[T] = f[x] + total[T \ {x}]
    BY <1>2, <2>2 DEF Sums
  <2> HIDE DEF x
  <2>6. Cardinality(T \ {x}) = n
    <3>1. IsFiniteSet(T) /\ Cardinality(T) - 1 = n
      BY <1>6, <2>0, <2>1
    <3> QED
      BY <2>3, <3>1, FS_RemoveElement
  <2>7. iter[T \ {x}] = total[T \ {x}]
    BY <2>0, <2>6
  <2> QED
    BY <2>4, <2>5, <2>7
<1>9. Reached = Nat
  <2>1. Reached \in SUBSET Nat
    OBVIOUS
  <2> HIDE DEF Reached
  <2> QED
    BY <1>7, <1>8, <2>1, SetInduction
<1>10. \A n \in Nat : \A T \in SUBSET S : Cardinality(T) = n => iter[T] = total[T]
  BY <1>9
<1> QED
  BY <1>1, <1>2, <1>6, <1>10

Total(f, S) == SumFunctionOnSet(f, S)

LEMMA TotalEmpty ==
  ASSUME NEW f
  PROVE  Total(f, {}) = 0
<1>1. IsFiniteSet({}) /\ \A x \in {} : f[x] \in Int
  BY FS_EmptySet
<1>2. PICK total : Sums(total, f, {}) /\ SumFunctionOnSet(f, {}) = total[{}]
  BY <1>1, SumIsTotal
<1> QED
  BY <1>2 DEF Sums, Total

LEMMA TotalType ==
  ASSUME NEW S, IsFiniteSet(S), NEW f, \A x \in S : f[x] \in Int
  PROVE  Total(f, S) \in Int
<1>1. PICK total : Sums(total, f, S) /\ SumFunctionOnSet(f, S) = total[S]
  BY SumIsTotal
<1> QED
  BY <1>1 DEF Sums, Total

LEMMA TotalAdds ==
  ASSUME NEW S, IsFiniteSet(S), NEW f, \A x \in S : f[x] \in Int, NEW y \in S
  PROVE  Total(f, S) = f[y] + Total(f, S \ {y})
<1> DEFINE R == S \ {y}
<1>1. R \subseteq S /\ IsFiniteSet(R) /\ \A x \in R : f[x] \in Int
  BY FS_Subset
<1> HIDE DEF R
<1>2. PICK whole : Sums(whole, f, S) /\ SumFunctionOnSet(f, S) = whole[S]
  BY SumIsTotal
<1>3. PICK part : Sums(part, f, R) /\ SumFunctionOnSet(f, R) = part[R]
  BY <1>1, SumIsTotal
<1>4. part[R] = whole[R]
  BY <1>1, <1>2, <1>3, SumsAgree
<1>5. AddsUp(whole, f, S, y)
  BY <1>2, SumsAdd
<1> QED
  BY <1>2, <1>3, <1>4, <1>5 DEF AddsUp, Total, R

\* Larger summands, larger sum.
LEMMA TotalMonotone ==
  ASSUME NEW S, IsFiniteSet(S), NEW f, NEW g,
         \A x \in S : f[x] \in Int /\ g[x] \in Int /\ f[x] <= g[x]
  PROVE  Total(f, S) <= Total(g, S)
<1> DEFINE G == {T \in SUBSET S : Total(f, T) <= Total(g, T)}
<1>1. {} \in G
  BY TotalEmpty
<1>2. ASSUME NEW T \in SUBSET S, NEW x \in S \ T, T \in G PROVE T \union {x} \in G
  <2> DEFINE U == T \union {x}
  <2>1. /\ U \in SUBSET S /\ IsFiniteSet(U) /\ IsFiniteSet(T) /\ x \in U /\ U \ {x} = T
        /\ Total(f, T) <= Total(g, T)
        /\ \A y \in U : f[y] \in Int /\ g[y] \in Int
        /\ \A y \in T : f[y] \in Int /\ g[y] \in Int
        /\ f[x] \in Int /\ g[x] \in Int /\ f[x] <= g[x]
    BY <1>2, FS_Subset
  <2> HIDE DEF U, G
  <2>2. Total(f, U) = f[x] + Total(f, T)
    <3>1. Total(f, U) = f[x] + Total(f, U \ {x})
      BY <2>1, TotalAdds
    <3>2. U \ {x} = T
      BY <2>1
    <3> QED
      BY <3>1, <3>2
  <2>3. Total(g, U) = g[x] + Total(g, T)
    <3>1. Total(g, U) = g[x] + Total(g, U \ {x})
      BY <2>1, TotalAdds
    <3>2. U \ {x} = T
      BY <2>1
    <3> QED
      BY <3>1, <3>2
  <2>4. Total(f, T) \in Int
    BY <2>1, TotalType
  <2>5. Total(g, T) \in Int
    BY <2>1, TotalType
  <2>6. Total(f, U) <= Total(g, U)
    BY <2>1, <2>2, <2>3, <2>4, <2>5
  <2> QED
    BY <2>1, <2>6 DEF U, G
<1>3. SUBSET S \subseteq G
  <2> HIDE DEF G
  <2> QED
    BY <1>1, <1>2, FiniteInduction
<1> QED
  BY <1>3

LEMMA TotalSame ==
  ASSUME NEW S, IsFiniteSet(S), NEW f, NEW g, \A x \in S : f[x] \in Int /\ f[x] = g[x]
  PROVE  Total(f, S) = Total(g, S)
<1>1. \A x \in S : f[x] \in Int /\ g[x] \in Int /\ f[x] <= g[x] /\ g[x] <= f[x]
  OBVIOUS
<1>2. Total(f, S) <= Total(g, S)
  BY <1>1, TotalMonotone
<1>3. Total(g, S) <= Total(f, S)
  BY <1>1, TotalMonotone
<1>4. Total(f, S) \in Int
  BY <1>1, TotalType
<1>5. Total(g, S) \in Int
  BY <1>1, TotalType
<1> QED
  BY <1>2, <1>3, <1>4, <1>5

LEMMA TotalNat ==
  ASSUME NEW S, IsFiniteSet(S), NEW f, \A x \in S : f[x] \in Nat
  PROVE  Total(f, S) \in Nat
<1> DEFINE G == {T \in SUBSET S : Total(f, T) \in Nat}
<1>1. {} \in G
  BY TotalEmpty
<1>2. ASSUME NEW T \in SUBSET S, NEW x \in S \ T, T \in G PROVE T \union {x} \in G
  <2> DEFINE U == T \union {x}
  <2>1. /\ U \in SUBSET S /\ IsFiniteSet(U) /\ x \in U /\ U \ {x} = T
        /\ Total(f, T) \in Nat /\ f[x] \in Nat /\ \A y \in U : f[y] \in Int
    BY <1>2, FS_Subset
  <2> HIDE DEF U, G
  <2>2. Total(f, U) = f[x] + Total(f, T)
    <3>1. Total(f, U) = f[x] + Total(f, U \ {x})
      BY <2>1, TotalAdds
    <3>2. U \ {x} = T
      BY <2>1
    <3> QED
      BY <3>1, <3>2
  <2>3. Total(f, U) \in Nat
    BY <2>1, <2>2
  <2> QED
    BY <2>1, <2>3 DEF U, G
<1>3. SUBSET S \subseteq G
  <2> HIDE DEF G
  <2> QED
    BY <1>1, <1>2, FiniteInduction
<1> QED
  BY <1>3

\* Natural numbers: the sum over a part is at most the whole.
LEMMA TotalPart ==
  ASSUME NEW S, IsFiniteSet(S), NEW f, \A x \in S : f[x] \in Nat, NEW R, R \subseteq S
  PROVE  Total(f, R) <= Total(f, S)
<1> DEFINE Rest == S \ R
           G == {T \in SUBSET Rest : Total(f, R) <= Total(f, R \union T)}
<1>0. IsFiniteSet(R) /\ IsFiniteSet(Rest) /\ \A x \in R : f[x] \in Nat
  BY FS_Subset
<1>1. Total(f, R) \in Nat
  BY <1>0, TotalNat
<1>2. {} \in G
  <2>1. R \union {} = R
    OBVIOUS
  <2> QED
    BY <1>1, <2>1
<1>3. ASSUME NEW T \in SUBSET Rest, NEW x \in Rest \ T, T \in G PROVE T \union {x} \in G
  <2> DEFINE U == R \union (T \union {x})
             V == R \union T
  <2>1. /\ U \in SUBSET S /\ V \in SUBSET S /\ IsFiniteSet(U) /\ IsFiniteSet(V)
        /\ x \in U /\ U \ {x} = V
        /\ Total(f, R) <= Total(f, V) /\ f[x] \in Nat
        /\ \A y \in U : f[y] \in Int
        /\ \A y \in V : f[y] \in Nat
        /\ T \union {x} \in SUBSET Rest
    BY <1>3, FS_Subset
  <2> HIDE DEF U, V
  <2>2. Total(f, U) = f[x] + Total(f, V)
    <3>1. Total(f, U) = f[x] + Total(f, U \ {x})
      BY <2>1, TotalAdds
    <3>2. U \ {x} = V
      BY <2>1
    <3> QED
      BY <3>1, <3>2
  <2>3. Total(f, V) \in Nat
    BY <2>1, TotalNat
  <2>4. Total(f, R) <= Total(f, U)
    BY <1>1, <2>1, <2>2, <2>3
  <2> QED
    BY <2>1, <2>4 DEF U
<1>4. SUBSET Rest \subseteq G
  <2> HIDE DEF G, Rest
  <2> QED
    BY <1>0, <1>2, <1>3, FiniteInduction
<1>5. Rest \in G /\ R \union Rest = S
  BY <1>4
<1> QED
  BY <1>5

\* One summand becomes larger.
LEMMA TotalUpdate ==
  ASSUME NEW S, IsFiniteSet(S), NEW f, NEW g, NEW y \in S, NEW d \in Int,
         \A x \in S : f[x] \in Int /\ g[x] = (IF x = y THEN f[x] + d ELSE f[x])
  PROVE  Total(g, S) = Total(f, S) + d
<1> DEFINE R == S \ {y}
<1>1. /\ IsFiniteSet(R)
      /\ \A x \in S : f[x] \in Int /\ g[x] \in Int
      /\ \A x \in R : f[x] \in Int /\ f[x] = g[x]
      /\ g[y] = f[y] + d /\ f[y] \in Int
  BY FS_Subset
<1>2. Total(f, S) = f[y] + Total(f, S \ {y})
  BY <1>1, TotalAdds
<1>3. Total(g, S) = g[y] + Total(g, S \ {y})
  BY <1>1, TotalAdds
<1> HIDE DEF R
<1>4. Total(f, R) = Total(g, R)
  BY <1>1, TotalSame
<1>5. Total(f, R) \in Int
  BY <1>1, TotalType
<1> QED
  BY <1>1, <1>2, <1>3, <1>4, <1>5 DEF R

LEMMA TotalZero ==
  ASSUME NEW S, IsFiniteSet(S), NEW f, \A x \in S : f[x] = 0
  PROVE  Total(f, S) = 0
<1> DEFINE G == {T \in SUBSET S : Total(f, T) = 0}
<1>1. {} \in G
  BY TotalEmpty
<1>2. ASSUME NEW T \in SUBSET S, NEW x \in S \ T, T \in G PROVE T \union {x} \in G
  <2> DEFINE U == T \union {x}
  <2>1. /\ U \in SUBSET S /\ IsFiniteSet(U) /\ x \in U /\ U \ {x} = T
        /\ Total(f, T) = 0 /\ f[x] = 0 /\ \A y \in U : f[y] \in Int
    BY <1>2, FS_Subset
  <2> HIDE DEF U, G
  <2>2. Total(f, U) = f[x] + Total(f, T)
    <3>1. Total(f, U) = f[x] + Total(f, U \ {x})
      BY <2>1, TotalAdds
    <3>2. U \ {x} = T
      BY <2>1
    <3> QED
      BY <3>1, <3>2
  <2>3. Total(f, U) = 0
    BY <2>1, <2>2
  <2> QED
    BY <2>1, <2>3 DEF U, G
<1>3. SUBSET S \subseteq G
  <2> HIDE DEF G
  <2> QED
    BY <1>1, <1>2, FiniteInduction
<1> QED
  BY <1>3

LEMMA TotalMember ==
  ASSUME NEW S, IsFiniteSet(S), NEW f, \A x \in S : f[x] \in Nat, NEW y \in S
  PROVE  f[y] <= Total(f, S)
<1> DEFINE R == S \ {y}
<1>1. IsFiniteSet(R) /\ (\A x \in R : f[x] \in Nat) /\ \A x \in S : f[x] \in Int
  BY FS_Subset
<1>2. Total(f, S) = f[y] + Total(f, S \ {y})
  BY <1>1, TotalAdds
<1> HIDE DEF R
<1>3. Total(f, R) \in Nat
  BY <1>1, TotalNat
<1> QED
  BY <1>2, <1>3 DEF R

-----------------------------------------------------------------------------
(* What every policy keeps.                                                *)

\* Who may still be served.
Waiting == {q \in All \ completed : Running("SRTF") => remaining_time[q] > 0}

\* The work done for each process, and the processes that come from a on.
served == [q \in All |->
             IF q \in completed THEN Burst(q) ELSE Burst(q) - remaining_time[q]]
From(a) == {q \in All : a <= Arrival(q)}

\* The CPU has worked without a break since r came.
BusySince(r) ==
  /\ current_time = Arrival(r) + Total(served, From(Arrival(r)))
  /\ \A q \in Waiting : Arrival(r) <= Arrival(q)

\* Nobody who has come before now waits, and somebody is still to come.
IdleNow ==
  /\ \A q \in Waiting : current_time <= Arrival(q)
  /\ \E q \in All \ completed : current_time <= Arrival(q)

\* The processes completed when q was that came from a on.
Before(a, q) ==
  {p \in completed : a <= Arrival(p) /\ completion_time[p] <= completion_time[q]}

WorkInv ==
  /\ \A q \in All : remaining_time[q] <= Burst(q)
  /\ \A q \in All : served[q] > 0 => Arrival(q) < current_time
  /\ \A q \in completed :
       /\ Arrival(q) + Burst(q) <= completion_time[q]
       /\ completion_time[q] <= current_time
  /\ \A a \in Nat : a <= current_time => Total(served, From(a)) <= current_time - a
  /\ \A q \in completed : \A a \in Nat :
       a <= completion_time[q] => Total(Bursts, Before(a, q)) <= completion_time[q] - a
  /\ completed = All => \E q \in All : completion_time[q] = current_time
  /\ IdleNow \/ \E r \in All : BusySince(r)

\* What single policies keep.  First come first served goes along the arrival
\* order; shortest remaining time first completes nobody without a burst, and
\* so it ends only if there is none.
PolicyInv ==
  /\ Running("FCFS") \/ Running("SJF") \/ Running("PriorityScheduling") =>
       remaining_time = Bursts
  /\ Running("FCFS") =>
       completed = {arrival_order[i] : i \in 1..Cardinality(completed)}
  /\ Running("SRTF") => \A q \in completed : Burst(q) > 0
  /\ Len(results) >= 3 => \A q \in All : Burst(q) > 0

\* Round robin: who has come is in the queue, but for those who come at 0
\* behind the first; and who has i - 1 others ahead of him has waited at most
\* the slices of the rest.
QueueInv ==
  /\ \A i, j \in 1..Len(ready_queue) : ready_queue[i] = ready_queue[j] => i = j
  /\ completed = {q \in All : remaining_time[q] = 0}
  /\ \A i \in 1..Len(ready_queue) :
       /\ remaining_time[ready_queue[i]] > 0
       /\ Arrival(ready_queue[i]) <= current_time
       /\ current_time - since[ready_queue[i]] <= (Len(processes) - i) * Quantum
  /\ \A q \in All :
       remaining_time[q] > 0 /\ (\A i \in 1..Len(ready_queue) : ready_queue[i] # q) =>
         /\ since[q] = Arrival(q)
         /\ \/ current_time < Arrival(q)
            \/ current_time = 0 /\ Arrival(q) = 0 /\ ready_queue # <<>>

CPUInv ==
  /\ CPUTypeOK
  /\ WorkInv
  /\ PolicyInv
  /\ Running("RoundRobin") => QueueInv
  /\ SchedulesAreReal

-----------------------------------------------------------------------------
(* What each step does to the work.                                        *)

LEMMA CPUFacts ==
  ASSUME CPUTypeOK
  PROVE  /\ processes \in Tables /\ Len(processes) \in Nat \ {0}
         /\ All = 1..Len(processes) /\ IsFiniteSet(All)
         /\ Cardinality(All) = Len(processes)
         /\ \A p \in All : Arrival(p) \in Nat /\ Burst(p) \in Nat
         /\ \A p \in All : processes[p].priority \in Nat
         /\ current_time \in Nat
         /\ \A p \in All : remaining_time[p] \in Nat /\ completion_time[p] \in Nat
         /\ completed \subseteq All /\ IsFiniteSet(completed)
<1>1. processes \in Tables
  BY DEF CPUTypeOK
<1>2. completed \subseteq All
  BY DEF CPUTypeOK
<1>3. /\ Len(processes) \in Nat \ {0} /\ All = 1..Len(processes) /\ IsFiniteSet(All)
      /\ Cardinality(All) = Len(processes)
      /\ \A p \in All : Arrival(p) \in Nat /\ Burst(p) \in Nat
      /\ \A p \in All : processes[p].priority \in Nat
  BY <1>1, TableFacts DEF All, Arrival, Burst
<1> QED
  BY <1>1, <1>2, <1>3, FS_Subset DEF CPUTypeOK

LEMMA MaxIs ==
  ASSUME NEW S \in SUBSET Nat, NEW m \in S, \A x \in S : x <= m
  PROVE  Max(S) = m
<1>1. \A x \in S : x \in Nat /\ m \in Nat
  OBVIOUS
<1>2. \A x \in S : m >= x
  BY <1>1
<1>3. Max(S) \in S /\ \A x \in S : Max(S) >= x
  BY <1>2 DEF Max
<1>4. Max(S) \in Nat /\ m \in Nat /\ Max(S) >= m /\ Max(S) <= m
  BY <1>1, <1>3
<1> QED
  BY <1>4

LEMMA MinIs ==
  ASSUME NEW S \in SUBSET Nat, S # {}
  PROVE  Min(S) \in S /\ \A x \in S : Min(S) <= x
<1>1. PICK m \in S : \A x \in S : m <= x
  BY LeastExists
<1> QED
  BY <1>1 DEF Min

LEMMA MinOfTwo ==
  ASSUME NEW a \in Nat, NEW b \in Nat
  PROVE  /\ Min({a, b}) \in Nat /\ Min({a, b}) \in {a, b}
         /\ Min({a, b}) <= a /\ Min({a, b}) <= b
BY MinIs

LEMMA MaxOfTwo ==
  ASSUME NEW a \in Nat, NEW b \in Nat
  PROVE  Max({a, b}) = IF a < b THEN b ELSE a
<1>1. CASE a < b
  BY <1>1, MaxIs
<1>2. CASE ~(a < b)
  BY <1>2, MaxIs
<1> QED
  BY <1>1, <1>2

\* The first of the members with the least key.
LEMMA LeastKey ==
  ASSUME NEW S \in SUBSET Nat, S # {}, NEW key, \A x \in S : key[x] \in Nat
  PROVE  \E p \in S : \A q \in S : key[p] < key[q] \/ (key[p] = key[q] /\ p <= q)
<1> DEFINE Keys == {key[x] : x \in S}
<1>1. PICK k \in Keys : \A j \in Keys : k <= j
  <2>1. Keys \in SUBSET Nat /\ Keys # {}
    OBVIOUS
  <2> HIDE DEF Keys
  <2> QED
    BY <2>1, LeastExists
<1> DEFINE Those == {x \in S : key[x] = k}
<1>2. Those \in SUBSET Nat /\ Those # {}
  OBVIOUS
<1>3. PICK p \in Those : \A x \in Those : p <= x
  <2> HIDE DEF Those
  <2> QED
    BY <1>2, LeastExists
<1>4. ASSUME NEW q \in S PROVE key[p] < key[q] \/ (key[p] = key[q] /\ p <= q)
  <2>1. key[p] = k /\ k <= key[q] /\ k \in Nat /\ key[q] \in Nat
    BY <1>1
  <2>2. CASE key[q] = k
    BY <2>1, <2>2, <1>3
  <2>3. CASE key[q] # k
    BY <2>1, <2>3
  <2> QED
    BY <2>2, <2>3
<1> QED
  BY <1>4

\* Whom the policies choose.
ShortestBurst == Least(Present, Burst)
MostUrgent == Least(Present, LAMBDA p : processes[p].priority)

LEMMA ShortestBurstThere ==
  ASSUME CPUTypeOK, Present # {}
  PROVE  ShortestBurst \in Present
<1>1. Present \subseteq All /\ All \subseteq Nat
  BY CPUFacts DEF Present
<1> DEFINE length == [x \in Present |-> Burst(x)]
<1>2. \A x \in Present : length[x] \in Nat
  BY <1>1, CPUFacts
<1>3. \E p \in Present : \A q \in Present :
        length[p] < length[q] \/ (length[p] = length[q] /\ p <= q)
  <2> HIDE DEF length
  <2> QED
    BY <1>1, <1>2, LeastKey
<1>4. \E p \in Present : \A q \in Present :
        Burst(p) < Burst(q) \/ (Burst(p) = Burst(q) /\ p <= q)
  BY <1>3
<1> QED
  BY <1>4 DEF Least, ShortestBurst

LEMMA MostUrgentThere ==
  ASSUME CPUTypeOK, Present # {}
  PROVE  MostUrgent \in Present
<1>1. Present \subseteq All /\ All \subseteq Nat
  BY CPUFacts DEF Present
<1> DEFINE prio == [x \in Present |-> processes[x].priority]
<1>2. \A x \in Present : prio[x] \in Nat
  BY <1>1, CPUFacts
<1>3. \E p \in Present : \A q \in Present :
        prio[p] < prio[q] \/ (prio[p] = prio[q] /\ p <= q)
  <2> HIDE DEF prio
  <2> QED
    BY <1>1, <1>2, LeastKey
<1>4. \E p \in Present : \A q \in Present :
        \/ processes[p].priority < processes[q].priority
        \/ processes[p].priority = processes[q].priority /\ p <= q
  BY <1>3
<1> QED
  BY <1>4 DEF Least, MostUrgent

LEMMA ShortestThere ==
  ASSUME CPUTypeOK, Unfinished # {}
  PROVE  Shortest(Unfinished) \in Unfinished
<1>1. Unfinished \subseteq All /\ All \subseteq Nat
  BY CPUFacts DEF Present, Unfinished
<1>2. \A x \in Unfinished : remaining_time[x] \in Nat
  BY <1>1, CPUFacts
<1>3. \E p \in Unfinished : \A q \in Unfinished :
        \/ remaining_time[p] < remaining_time[q]
        \/ remaining_time[p] = remaining_time[q] /\ p <= q
  BY <1>1, <1>2, LeastKey
<1> QED
  BY <1>3 DEF Least, Shortest

\* Process p, which waits, is served for some time from start on: the CPU was
\* not kept waiting longer than until the next arrival.
Slice(p, start, amount) ==
  /\ p \in Waiting /\ start \in Nat /\ amount \in Nat
  /\ Arrival(p) <= start /\ current_time <= start
  /\ start > current_time => start = Arrival(p) /\ \A q \in Waiting : start <= Arrival(q)
  /\ current_time' = start + amount
  /\ served' = [served EXCEPT ![p] = served[p] + amount]
  /\ \/ completed' = completed /\ completion_time' = completion_time
     \/ /\ completed' = completed \union {p}
        /\ completion_time' = [completion_time EXCEPT ![p] = start + amount]
  /\ Waiting' \subseteq Waiting
  /\ processes' = processes /\ results' = results
  /\ \A q \in All : remaining_time'[q] <= Burst(q)

LEMMA Frame ==
  ASSUME processes' = processes
  PROVE  /\ All' = All
         /\ \A p : Arrival(p)' = Arrival(p) /\ Burst(p)' = Burst(p)
         /\ Bursts' = Bursts
         /\ \A a : From(a)' = From(a)
BY DEF All, Arrival, Burst, Bursts, From

LEMMA FrameRunning ==
  ASSUME results' = results
  PROVE  \A policy : Running(policy)' <=> Running(policy)
BY DEF Running

\* Who is present or yet to come, and the work done for him.
LEMMA ServedFacts ==
  ASSUME CPUTypeOK, WorkInv
  PROVE  /\ \A q \in All : served[q] \in Nat
         /\ DOMAIN served = All
         /\ \A q \in All : served[q] = IF q \in completed THEN Burst(q)
                                       ELSE Burst(q) - remaining_time[q]
         /\ \A q \in All : served[q] > 0 => Arrival(q) < current_time
         /\ Waiting \subseteq All \ completed
<1>1. \A q \in All : remaining_time[q] \in Nat /\ Burst(q) \in Nat
                     /\ remaining_time[q] <= Burst(q)
  BY CPUFacts DEF WorkInv
<1>2. /\ DOMAIN served = All
      /\ \A q \in All : served[q] = IF q \in completed THEN Burst(q)
                                    ELSE Burst(q) - remaining_time[q]
  BY DEF served
<1>3. \A q \in All : served[q] \in Nat
  BY <1>1, <1>2
<1>4. \A q \in All : served[q] > 0 => Arrival(q) < current_time
  BY DEF WorkInv
<1> QED
  BY <1>2, <1>3, <1>4 DEF Waiting

LEMMA RunToEndSlice ==
  ASSUME CPUTypeOK, WorkInv, PolicyInv,
         Running("FCFS") \/ Running("SJF") \/ Running("PriorityScheduling"),
         NEW p \in All \ completed, NEW start \in Nat, RunToEnd(p, start),
         Arrival(p) <= start, current_time <= start,
         start > current_time => start = Arrival(p) /\ \A q \in Waiting : start <= Arrival(q)
  PROVE  Slice(p, start, Burst(p))
<1>1. /\ current_time' = start + Burst(p)
      /\ completion_time' = [completion_time EXCEPT ![p] = start + Burst(p)]
      /\ completed' = completed \union {p}
      /\ processes' = processes /\ results' = results /\ remaining_time' = remaining_time
  BY DEF RunToEnd
<1>2. All' = All /\ \A q : Burst(q)' = Burst(q)
  BY <1>1, Frame
<1>3. ~Running("SRTF") /\ remaining_time = Bursts
  <2>1. ~Running("SRTF")
    BY OnlyOnePolicy
  <2> QED
    BY <2>1 DEF PolicyInv
<1>4. \A q \in All : Burst(q) \in Nat /\ remaining_time[q] = Burst(q)
  BY <1>3, CPUFacts DEF Bursts
<1>5. p \in Waiting
  BY <1>3 DEF Waiting
<1>6. Waiting' \subseteq Waiting
  BY <1>1, <1>2, <1>3, FrameRunning DEF Waiting
<1>7. served' = [q \in All |-> IF q \in completed \union {p} THEN Burst(q)
                               ELSE Burst(q) - remaining_time[q]]
  BY <1>1, <1>2 DEF served
<1>8. served' = [served EXCEPT ![p] = served[p] + Burst(p)]
  <2> DEFINE more == [served EXCEPT ![p] = served[p] + Burst(p)]
  <2>1. DOMAIN more = All /\ \A q \in All : more[q] = IF q = p THEN served[p] + Burst(p)
                                                     ELSE served[q]
    BY ServedFacts
  <2>2. served[p] = 0 /\ Burst(p) \in Nat
    BY <1>4, ServedFacts
  <2>3. \A q \in All : more[q] = served'[q]
    BY <1>7, <2>1, <2>2, ServedFacts
  <2>4. more = [q \in All |-> more[q]]
    BY ServedFacts
  <2> HIDE DEF more
  <2>5. served' = [q \in All |-> served'[q]]
    BY <1>7
  <2>6. more = served'
    BY <2>3, <2>4, <2>5
  <2> QED
    BY <2>6 DEF more
<1>9. \A q \in All : remaining_time'[q] <= Burst(q)
  BY <1>1, <1>4
<1> QED
  BY <1>1, <1>4, <1>5, <1>6, <1>8, <1>9 DEF Slice

\* What has been done of the work that comes from a on.
LEMMA DoneFrom ==
  ASSUME CPUTypeOK, WorkInv, NEW a \in Nat
  PROVE  /\ Total(served, From(a)) \in Nat
         /\ a <= current_time => Total(served, From(a)) <= current_time - a
         /\ a >= current_time => Total(served, From(a)) = 0
         /\ IsFiniteSet(From(a)) /\ From(a) \subseteq All
<1>1. IsFiniteSet(From(a)) /\ From(a) \subseteq All
  BY CPUFacts, FS_Subset DEF From
<1>2. \A q \in From(a) : served[q] \in Nat
  BY <1>1, ServedFacts
<1>3. Total(served, From(a)) \in Nat
  BY <1>1, <1>2, TotalNat
<1>4. a <= current_time => Total(served, From(a)) <= current_time - a
  BY DEF WorkInv
<1>5. ASSUME a >= current_time PROVE Total(served, From(a)) = 0
  <2>1. \A q \in From(a) : Arrival(q) \in Nat /\ a <= Arrival(q) /\ current_time \in Nat
    BY CPUFacts DEF From
  <2>2. \A q \in From(a) : served[q] \in Nat /\ (served[q] > 0 => Arrival(q) < current_time)
    BY <1>1, ServedFacts
  <2>3. \A q \in From(a) : served[q] = 0
    BY <1>5, <2>1, <2>2
  <2> QED
    BY <1>1, <2>3, TotalZero
<1> QED
  BY <1>1, <1>3, <1>4, <1>5

\* A slice adds to the work of those that come from a on if p does.
LEMMA SliceAdds ==
  ASSUME CPUTypeOK, WorkInv, NEW p, NEW start, NEW amount, Slice(p, start, amount),
         NEW a \in Nat
  PROVE  Total(served', From(a)) =
           Total(served, From(a)) + (IF a <= Arrival(p) THEN amount ELSE 0)
<1>1. /\ p \in All /\ amount \in Nat
      /\ served' = [served EXCEPT ![p] = served[p] + amount]
  BY ServedFacts DEF Slice
<1>2. IsFiniteSet(From(a)) /\ \A q \in From(a) : q \in All /\ served[q] \in Int
  BY DoneFrom, ServedFacts
<1>3. \A q \in From(a) : served'[q] = IF q = p THEN served[q] + amount ELSE served[q]
  BY <1>1, <1>2, ServedFacts
<1>4. Total(served, From(a)) \in Int
  BY DoneFrom
<1>5. CASE a <= Arrival(p)
  <2>1. p \in From(a)
    BY <1>1, <1>5 DEF From
  <2>2. \A q \in From(a) : /\ served[q] \in Int
                           /\ served'[q] = IF q = p THEN served[q] + amount ELSE served[q]
    BY <1>2, <1>3
  <2>3. amount \in Int
    BY <1>1
  <2>4. Total(served', From(a)) = Total(served, From(a)) + amount
    BY <1>2, <2>1, <2>2, <2>3, TotalUpdate
  <2> QED
    BY <1>5, <2>4
<1>6. CASE ~(a <= Arrival(p))
  <2>1. p \notin From(a)
    BY <1>6 DEF From
  <2>2. \A q \in From(a) : served[q] \in Int /\ served[q] = served'[q]
    BY <1>2, <1>3, <2>1
  <2>3. Total(served, From(a)) = Total(served', From(a))
    BY <1>2, <2>2, TotalSame
  <2> QED
    BY <1>4, <1>6, <2>3
<1> QED
  BY <1>5, <1>6

LEMMA SliceInterval ==
  ASSUME CPUTypeOK, WorkInv, NEW p, NEW start, NEW amount, Slice(p, start, amount),
         NEW a \in Nat, a <= current_time'
  PROVE  Total(served', From(a)) <= current_time' - a
<1>1. /\ start \in Nat /\ amount \in Nat /\ Arrival(p) <= start /\ current_time <= start
      /\ current_time' = start + amount /\ p \in All
  BY ServedFacts DEF Slice
<1>2. current_time \in Nat /\ Arrival(p) \in Nat
  BY <1>1, CPUFacts
<1> DEFINE done == Total(served, From(a))
<1>3. /\ done \in Nat
      /\ a <= current_time => done <= current_time - a
      /\ a >= current_time => done = 0
  BY DoneFrom
<1>4. Total(served', From(a)) = done + (IF a <= Arrival(p) THEN amount ELSE 0)
  BY SliceAdds
<1> HIDE DEF done
<1>5. CASE a <= Arrival(p)
  BY <1>1, <1>2, <1>3, <1>4, <1>5
<1>6. CASE ~(a <= Arrival(p))
  BY <1>1, <1>2, <1>3, <1>4, <1>6
<1> QED
  BY <1>5, <1>6

LEMMA SliceBusy ==
  ASSUME CPUTypeOK, WorkInv, NEW p, NEW start, NEW amount, Slice(p, start, amount)
  PROVE  \E r \in All : BusySince(r)'
<1>1. /\ start \in Nat /\ amount \in Nat /\ Arrival(p) <= start /\ current_time <= start
      /\ current_time' = start + amount /\ p \in All /\ p \in Waiting
      /\ start > current_time => start = Arrival(p) /\ \A q \in Waiting : start <= Arrival(q)
      /\ Waiting' \subseteq Waiting /\ processes' = processes
  BY ServedFacts DEF Slice
<1>2. current_time \in Nat /\ Arrival(p) \in Nat /\ \A q \in Waiting : Arrival(q) \in Nat
  BY <1>1, CPUFacts, ServedFacts
<1>3. ASSUME NEW r \in All, Arrival(r) <= Arrival(p),
             \A q \in Waiting : Arrival(r) <= Arrival(q),
             start = Arrival(r) + Total(served, From(Arrival(r)))
      PROVE  BusySince(r)'
  <2>1. Arrival(r) \in Nat
    BY CPUFacts
  <2>2. Total(served', From(Arrival(r))) = Total(served, From(Arrival(r))) + amount
    BY <1>3, <2>1, SliceAdds
  <2>3. Total(served, From(Arrival(r))) \in Nat
    BY <2>1, DoneFrom
  <2>4. current_time' = Arrival(r) + Total(served', From(Arrival(r)))
    BY <1>1, <1>3, <2>1, <2>2, <2>3
  <2>5. From(Arrival(r))' = From(Arrival(r)) /\ \A q : Arrival(q)' = Arrival(q)
    BY <1>1, Frame DEF From
  <2>6. current_time' = Arrival(r)' + Total(served, From(Arrival(r)))'
    BY <2>4, <2>5 DEF Total
  <2>7. \A q \in Waiting' : Arrival(r)' <= Arrival(q)'
    BY <1>1, <1>3, <2>5
  <2> QED
    BY <2>6, <2>7 DEF BusySince
<1>4. CASE start > current_time
  <2>1. Total(served, From(Arrival(p))) = 0
    BY <1>1, <1>2, <1>4, DoneFrom
  <2>2. BusySince(p)'
    BY <1>1, <1>2, <1>3, <1>4, <2>1
  <2> QED
    BY <1>1, <2>2
<1>5. CASE start = current_time /\ \E r \in All : BusySince(r)
  <2>1. PICK r \in All : BusySince(r)
    BY <1>5
  <2>2. BusySince(r)'
    BY <1>1, <1>3, <1>5, <2>1 DEF BusySince
  <2> QED
    BY <2>2
<1>6. CASE start = current_time /\ IdleNow
  <2>1. Arrival(p) = start /\ \A q \in Waiting : Arrival(p) <= Arrival(q)
    BY <1>1, <1>2, <1>6 DEF IdleNow
  <2>2. Total(served, From(Arrival(p))) = 0
    BY <1>2, <1>6, <2>1, DoneFrom
  <2>3. BusySince(p)'
    BY <1>1, <1>2, <1>3, <2>1, <2>2
  <2> QED
    BY <1>1, <2>3
<1> QED
  BY <1>1, <1>2, <1>4, <1>5, <1>6 DEF WorkInv

\* Who has completed after a slice, and when.
LEMMA SliceEnds ==
  ASSUME CPUTypeOK, WorkInv, NEW p, NEW start, NEW amount, Slice(p, start, amount),
         NEW q \in completed'
  PROVE  /\ q \in All /\ served'[q] = Burst(q)
         /\ \/ q \in completed /\ completion_time'[q] = completion_time[q]
            \/ q = p /\ q \notin completed /\ completion_time'[q] = current_time'
         /\ completion_time'[q] \in Nat /\ completion_time'[q] <= current_time'
<1>1. /\ start \in Nat /\ amount \in Nat /\ p \in All /\ p \notin completed
      /\ current_time' = start + amount /\ current_time <= start
      /\ \/ completed' = completed /\ completion_time' = completion_time
         \/ /\ completed' = completed \union {p}
            /\ completion_time' = [completion_time EXCEPT ![p] = start + amount]
      /\ processes' = processes
  BY ServedFacts DEF Slice
<1>2. All' = All /\ \A x : Burst(x)' = Burst(x)
  BY <1>1, Frame
<1>3. /\ completed \subseteq All /\ completion_time \in [All -> Nat] /\ current_time \in Nat
      /\ \A x \in completed : completion_time[x] <= current_time
  BY CPUFacts DEF CPUTypeOK, WorkInv
<1>4. q \in All
  BY <1>1, <1>3
<1>5. served'[q] = Burst(q)
  BY <1>2, <1>4 DEF served
<1>6. \/ q \in completed /\ completion_time'[q] = completion_time[q]
      \/ q = p /\ q \notin completed /\ completion_time'[q] = current_time'
  BY <1>1, <1>3
<1>7. completion_time'[q] \in Nat /\ completion_time'[q] <= current_time'
  BY <1>1, <1>3, <1>4, <1>6
<1> QED
  BY <1>4, <1>5, <1>6, <1>7

LEMMA SliceMeets ==
  ASSUME CPUTypeOK, WorkInv, NEW p, NEW start, NEW amount, Slice(p, start, amount),
         NEW q \in completed'
  PROVE  Arrival(q) + Burst(q) <= completion_time'[q]
<1>1. CASE q \in completed /\ completion_time'[q] = completion_time[q]
  BY <1>1 DEF WorkInv
<1>2. CASE q = p /\ q \notin completed /\ completion_time'[q] = current_time'
  <2>1. /\ q \in All /\ Arrival(q) \in Nat /\ Burst(q) \in Nat /\ served'[q] = Burst(q)
        /\ IsFiniteSet(From(Arrival(q))) /\ From(Arrival(q)) \subseteq All
    <3>1. q \in All /\ served'[q] = Burst(q)
      BY SliceEnds
    <3>2. Arrival(q) \in Nat /\ Burst(q) \in Nat
      BY <3>1, CPUFacts
    <3> QED
      BY <3>1, <3>2, DoneFrom
  <2>2. /\ start \in Nat /\ amount \in Nat /\ Arrival(q) <= start
        /\ current_time' = start + amount
        /\ served' = [served EXCEPT ![p] = served[p] + amount]
    BY <1>2 DEF Slice
  <2>3. Total(served', From(Arrival(q))) <= current_time' - Arrival(q)
    <3>1. Arrival(q) <= current_time'
      BY <2>1, <2>2
    <3> QED
      BY <2>1, <3>1, SliceInterval
  <2>4. served'[q] <= Total(served', From(Arrival(q)))
    <3>1. \A x \in From(Arrival(q)) : served'[x] \in Nat
      BY <2>1, <2>2, ServedFacts
    <3>2. q \in From(Arrival(q))
      BY <2>1 DEF From
    <3> QED
      BY <2>1, <3>1, <3>2, TotalMember
  <2>5. Total(served', From(Arrival(q))) \in Int
    <3>1. Total(served, From(Arrival(q))) \in Nat
      BY <2>1, DoneFrom
    <3>2. Total(served', From(Arrival(q))) = Total(served, From(Arrival(q)))
                                 + (IF Arrival(q) <= Arrival(p) THEN amount ELSE 0)
      BY <2>1, SliceAdds
    <3> QED
      BY <2>2, <3>1, <3>2
  <2> QED
    BY <1>2, <2>1, <2>2, <2>3, <2>4, <2>5
<1> QED
  BY <1>1, <1>2, SliceEnds

LEMMA SliceLoad ==
  ASSUME CPUTypeOK, WorkInv, NEW p, NEW start, NEW amount, Slice(p, start, amount),
         NEW q \in completed', NEW a \in Nat, a <= completion_time'[q]
  PROVE  Total(Bursts, {x \in completed' : a <= Arrival(x)
                                           /\ completion_time'[x] <= completion_time'[q]})
           <= completion_time'[q] - a
<1> DEFINE B == {x \in completed' : a <= Arrival(x)
                                    /\ completion_time'[x] <= completion_time'[q]}
<1>0. /\ start \in Nat /\ amount \in Nat /\ current_time' = start + amount /\ p \in All
      /\ served' = [served EXCEPT ![p] = served[p] + amount]
  BY ServedFacts DEF Slice
<1>1. CASE completion_time'[q] = current_time'
  <2>1. B \subseteq From(a) /\ \A x \in B : x \in All /\ served'[x] = Burst(x)
    BY SliceEnds DEF From
  <2>2. IsFiniteSet(From(a)) /\ From(a) \subseteq All
    BY DoneFrom
  <2>3. IsFiniteSet(B)
    BY <2>1, <2>2, FS_Subset
  <2>4. \A x \in From(a) : served'[x] \in Nat
    BY <1>0, <2>2, ServedFacts
  <2>5. \A x \in B : Bursts[x] \in Int /\ Bursts[x] = served'[x]
    BY <2>1, CPUFacts DEF Bursts
  <2> HIDE DEF B
  <2>6. Total(Bursts, B) = Total(served', B)
    BY <2>3, <2>5, TotalSame
  <2>7. Total(served', B) <= Total(served', From(a))
    BY <2>1, <2>2, <2>4, TotalPart
  <2>8. Total(served', From(a)) <= current_time' - a
    BY <1>1, SliceInterval
  <2>9. Total(served', B) \in Nat /\ Total(served', From(a)) \in Nat
    <3>1. \A x \in B : served'[x] \in Nat
      BY <2>1, <2>4
    <3> QED
      BY <2>2, <2>3, <2>4, <3>1, TotalNat
  <2>10. Total(Bursts, B) <= completion_time'[q] - a
    BY <1>0, <1>1, <2>6, <2>7, <2>8, <2>9
  <2> QED
    BY <2>10 DEF B
<1>2. CASE completion_time'[q] # current_time'
  <2>1. q \in completed /\ completion_time'[q] = completion_time[q]
    BY <1>2, SliceEnds
  <2>2. B = Before(a, q)
    <3>1. \A x \in completed : x \in completed' /\ completion_time'[x] = completion_time[x]
      <4>1. completed \subseteq completed'
        BY DEF Slice
      <4> QED
        BY <4>1, SliceEnds
    <3>2. ASSUME NEW x \in completed', completion_time'[x] <= completion_time'[q]
          PROVE  x \in completed
      <4>1. /\ completion_time'[q] \in Nat /\ completion_time'[q] <= current_time'
            /\ current_time' \in Nat
        BY <1>0, SliceEnds
      <4>2. completion_time'[x] # current_time'
        BY <1>2, <3>2, <4>1
      <4> QED
        BY <4>2, SliceEnds
    <3> QED
      BY <2>1, <3>1, <3>2 DEF Before
  <2>3. Total(Bursts, Before(a, q)) <= completion_time[q] - a
    BY <2>1 DEF WorkInv
  <2> QED
    BY <2>1, <2>2, <2>3
<1> QED
  BY <1>1, <1>2

LEMMA SliceKeepsWork ==
  ASSUME CPUTypeOK, WorkInv, NEW p, NEW start, NEW amount, Slice(p, start, amount)
  PROVE  WorkInv'
<1>1. /\ start \in Nat /\ amount \in Nat /\ current_time' = start + amount /\ p \in All
      /\ p \notin completed
      /\ Arrival(p) <= start /\ current_time <= start
      /\ served' = [served EXCEPT ![p] = served[p] + amount]
      /\ processes' = processes /\ \A q \in All : remaining_time'[q] <= Burst(q)
      /\ \/ completed' = completed
         \/ /\ completed' = completed \union {p}
            /\ completion_time' = [completion_time EXCEPT ![p] = start + amount]
  BY ServedFacts DEF Slice
<1>2. /\ All' = All /\ \A x : Burst(x)' = Burst(x) /\ Arrival(x)' = Arrival(x)
      /\ Bursts' = Bursts /\ \A a : From(a)' = From(a)
  BY <1>1, Frame
<1>3. \A q \in All' : remaining_time'[q] <= Burst(q)'
  BY <1>1, <1>2
<1>4. \A q \in All' : served'[q] > 0 => Arrival(q)' < current_time'
  <2>1. SUFFICES ASSUME NEW q \in All, served'[q] > 0 PROVE Arrival(q) < current_time'
    BY <1>2
  <2>2. /\ Arrival(q) \in Nat /\ current_time \in Nat /\ served[q] \in Nat
        /\ (served[q] > 0 => Arrival(q) < current_time)
    BY CPUFacts, ServedFacts
  <2>3. served'[q] = IF q = p THEN served[q] + amount ELSE served[q]
    BY <1>1, ServedFacts
  <2> QED
    BY <1>1, <2>1, <2>2, <2>3
<1>5. \A q \in completed' : /\ Arrival(q)' + Burst(q)' <= completion_time'[q]
                            /\ completion_time'[q] <= current_time'
  BY <1>2, SliceMeets, SliceEnds
<1>6. \A a \in Nat : a <= current_time' => Total(served, From(a))' <= current_time' - a
  BY <1>2, SliceInterval DEF Total
<1>7. \A q \in completed' : \A a \in Nat :
        a <= completion_time'[q] => Total(Bursts, Before(a, q))' <= completion_time'[q] - a
  <2>1. SUFFICES ASSUME NEW q \in completed', NEW a \in Nat, a <= completion_time'[q]
                 PROVE  Total(Bursts, Before(a, q))' <= completion_time'[q] - a
    OBVIOUS
  <2>2. Before(a, q)' = {x \in completed' : a <= Arrival(x)
                                     /\ completion_time'[x] <= completion_time'[q]}
    BY <1>2 DEF Before
  <2>3. Total(Bursts, Before(a, q))' = Total(Bursts, Before(a, q)')
    BY <1>2 DEF Total
  <2> QED
    BY <2>1, <2>2, <2>3, SliceLoad
<1>8. completed' = All' => \E q \in All' : completion_time'[q] = current_time'
  BY <1>1, <1>2, SliceEnds
<1>9. \E r \in All' : BusySince(r)'
  BY <1>2, SliceBusy
<1> QED
  BY <1>3, <1>4, <1>5, <1>6, <1>7, <1>8, <1>9 DEF WorkInv

-----------------------------------------------------------------------------
(* The policies that serve without a queue.                                *)

\* What IsReal says, of any table.
RealFor(t, C) ==
  /\ \A p \in DOMAIN t : C[p] >= t[p].arrival_time + t[p].burst_time
  /\ \A a \in {t[p].arrival_time : p \in DOMAIN t}, c \in {C[p] : p \in DOMAIN t} :
       a <= c =>
         SumFunctionOnSet([p \in DOMAIN t |-> t[p].burst_time],
                          {p \in DOMAIN t : a <= t[p].arrival_time /\ C[p] <= c}) <= c - a
  /\ Max({C[p] : p \in DOMAIN t}) =
       Max({t[p].arrival_time
              + SumFunctionOnSet([q \in DOMAIN t |-> t[q].burst_time],
                  {q \in DOMAIN t : t[p].arrival_time <= t[q].arrival_time}) :
              p \in DOMAIN t})

AllReal == \A k \in DOMAIN results : RealFor(processes, results[k])

LEMMA RealForIs ==
  SchedulesAreReal <=> AllReal
BY DEF AllReal, SchedulesAreReal, IsReal, RealFor, Bursts, All, Arrival, Burst

LEMMA RealForNext ==
  SchedulesAreReal' <=> AllReal'
BY RealForIs, PTL

LEMMA RealStays ==
  ASSUME SchedulesAreReal, processes' = processes, results' = results
  PROVE  SchedulesAreReal'
BY RealForIs, RealForNext DEF AllReal

\* The types after a step that serves p.
LEMMA SliceTypes ==
  ASSUME CPUTypeOK, WorkInv, NEW p, NEW start, NEW amount, Slice(p, start, amount),
         remaining_time' \in [All -> Nat], arrival_order' = arrival_order,
         ready_queue' \in Seq(All), since' \in [All -> Nat]
  PROVE  CPUTypeOK'
<1>1. /\ start \in Nat /\ amount \in Nat /\ p \in All /\ current_time' = start + amount
      /\ processes' = processes /\ results' = results
      /\ \/ completed' = completed /\ completion_time' = completion_time
         \/ /\ completed' = completed \union {p}
            /\ completion_time' = [completion_time EXCEPT ![p] = start + amount]
  BY ServedFacts DEF Slice
<1>2. All' = All /\ ArrivalOrders(processes)' = ArrivalOrders(processes)
  BY <1>1, Frame DEF ArrivalOrders
<1>3. /\ processes \in Tables /\ results \in Seq([All -> Nat])
      /\ completion_time \in [All -> Nat] /\ completed \subseteq All
      /\ arrival_order \in ArrivalOrders(processes)
  BY DEF CPUTypeOK
<1>4. current_time' \in Nat /\ completed' \subseteq All /\ completion_time' \in [All -> Nat]
  <2>1. current_time' \in Nat /\ start + amount \in Nat
    BY <1>1
  <2>2. CASE completed' = completed /\ completion_time' = completion_time
    BY <1>3, <2>1, <2>2
  <2>3. CASE /\ completed' = completed \union {p}
             /\ completion_time' = [completion_time EXCEPT ![p] = start + amount]
    <3>1. completed' \subseteq All
      BY <1>1, <1>3, <2>3
    <3>2. completion_time' \in [All -> Nat]
      BY <1>1, <1>3, <2>1, <2>3
    <3> QED
      BY <2>1, <3>1, <3>2
  <2> QED
    BY <1>1, <2>2, <2>3
<1>5. arrival_order' \in ArrivalOrders(processes)' /\ results' \in Seq([All -> Nat]')
  BY <1>1, <1>2, <1>3
<1> QED
  BY <1>1, <1>2, <1>3, <1>4, <1>5 DEF CPUTypeOK

LEMMA StartFacts ==
  ASSUME CPUTypeOK, NEW p \in All
  PROVE  /\ StartTime(p) \in Nat /\ Arrival(p) <= StartTime(p)
         /\ current_time <= StartTime(p)
         /\ StartTime(p) > current_time => StartTime(p) = Arrival(p)
<1>1. current_time \in Nat /\ Arrival(p) \in Nat
  BY CPUFacts
<1>2. StartTime(p) = IF current_time < Arrival(p) THEN Arrival(p) ELSE current_time
  BY <1>1, MaxOfTwo DEF StartTime
<1> QED
  BY <1>1, <1>2

\* First come first served takes the next in the arrival order.
LEMMA FCFSTakes ==
  ASSUME CPUTypeOK, PolicyInv, Running("FCFS"), completed # All
  PROVE  LET p == arrival_order[Cardinality(completed) + 1]
         IN /\ p \in All \ completed
            /\ \A q \in Waiting : Arrival(p) <= Arrival(q)
            /\ completed \union {p} =
                 {arrival_order[i] : i \in 1..Cardinality(completed \union {p})}
<1> DEFINE n == Cardinality(completed)
           N == Len(processes)
           p == arrival_order[n + 1]
<1>1. /\ N \in Nat /\ IsFiniteSet(completed) /\ completed \subseteq All
      /\ processes \in Tables /\ IsFiniteSet(All) /\ Cardinality(All) = N
  BY CPUFacts
<1>2. arrival_order \in ArrivalOrders(processes)
  BY DEF CPUTypeOK
<1>3. /\ \A i, j \in 1..N : arrival_order[i] = arrival_order[j] => i = j
      /\ \A q \in All : \E i \in 1..N : arrival_order[i] = q
      /\ \A i, j \in 1..N : i <= j => Arrival(arrival_order[i]) <= Arrival(arrival_order[j])
      /\ \A i \in 1..N : arrival_order[i] \in All
  <2>1. \A i \in 1..N : arrival_order[i] \in All
    BY <1>1, <1>2, OrderFacts DEF All
  <2> QED
    BY <1>1, <1>2, <2>1, OrderFacts DEF All, Arrival
<1>4. n \in Nat /\ n < N
  BY <1>1, FS_Subset, FS_CardinalityType
<1>5. completed = {arrival_order[i] : i \in 1..n}
  BY DEF PolicyInv
<1>6. Cardinality(completed \union {p}) =
        IF p \in completed THEN n ELSE n + 1
  BY <1>1, FS_AddElement
<1> HIDE DEF n, N
<1>7. n + 1 \in 1..N /\ \A i \in 1..n : i \in 1..N /\ i # n + 1
  BY <1>4, <1>1
<1>8. p \in All \ completed
  BY <1>3, <1>5, <1>7
<1>9. ASSUME NEW q \in Waiting PROVE Arrival(p) <= Arrival(q)
  <2>1. q \in All /\ q \notin completed
    BY DEF Waiting
  <2>2. PICK j \in 1..N : arrival_order[j] = q
    BY <1>3, <2>1
  <2>3. j \notin 1..n
    BY <1>5, <2>1, <2>2
  <2>4. n + 1 <= j
    BY <1>4, <2>3
  <2> QED
    BY <1>3, <1>7, <2>2, <2>4
<1>10. completed \union {p} = {arrival_order[i] : i \in 1..n + 1}
  <2>1. 1..n + 1 = 1..n \union {n + 1}
    BY <1>4
  <2> QED
    BY <1>5, <2>1
<1> QED
  BY <1>6, <1>8, <1>9, <1>10 DEF n

LEMMA RunToEndKeeps ==
  ASSUME CPUInv, Running("FCFS") \/ Running("SJF") \/ Running("PriorityScheduling"),
         NEW p \in All \ completed, NEW start \in Nat, RunToEnd(p, start),
         Arrival(p) <= start, current_time <= start,
         start > current_time => start = Arrival(p) /\ \A q \in Waiting : start <= Arrival(q),
         Running("FCFS") => completed \union {p} =
                              {arrival_order[i] : i \in 1..Cardinality(completed \union {p})}
  PROVE  CPUInv'
<1>0. CPUTypeOK /\ WorkInv /\ PolicyInv /\ SchedulesAreReal
  BY DEF CPUInv
<1>1. Slice(p, start, Burst(p))
  BY <1>0, RunToEndSlice
<1>2. /\ completed' = completed \union {p} /\ remaining_time' = remaining_time
      /\ processes' = processes /\ results' = results /\ arrival_order' = arrival_order
      /\ ready_queue' = ready_queue /\ since' = since
  BY DEF RunToEnd
<1>3. CPUTypeOK'
  <2>1. /\ remaining_time' \in [All -> Nat] /\ ready_queue' \in Seq(All)
        /\ since' \in [All -> Nat]
    BY <1>0, <1>2 DEF CPUTypeOK
  <2> QED
    BY <1>0, <1>1, <1>2, <2>1, SliceTypes
<1>4. WorkInv'
  BY <1>0, <1>1, SliceKeepsWork
<1>5. ~Running("SRTF") /\ ~Running("RoundRobin")
  BY <1>0, OnlyOnePolicy
<1>6. ~Running("SRTF")' /\ ~Running("RoundRobin")' /\ (Running("FCFS")' => Running("FCFS"))
  BY <1>2, <1>5, FrameRunning
<1>7. remaining_time' = Bursts'
  BY <1>0, <1>2, Frame DEF PolicyInv
<1>8. Running("FCFS")' =>
        completed' = {arrival_order'[i] : i \in 1..Cardinality(completed')}
  BY <1>2, <1>6
<1>9. Len(results)' >= 3 => \A q \in All' : Burst(q)' > 0
  BY <1>0, <1>2, Frame DEF PolicyInv
<1>10. PolicyInv'
  BY <1>6, <1>7, <1>8, <1>9 DEF PolicyInv
<1> QED
  BY <1>0, <1>2, <1>3, <1>4, <1>6, <1>10, RealStays DEF CPUInv

LEMMA FCFSKeeps ==
  ASSUME CPUInv, FCFS
  PROVE  CPUInv'
<1>0. CPUTypeOK /\ WorkInv /\ PolicyInv
  BY DEF CPUInv
<1> DEFINE p == arrival_order[Cardinality(completed) + 1]
<1>1. Running("FCFS") /\ completed # All /\ RunToEnd(p, StartTime(p))
  BY DEF FCFS
<1>2. /\ p \in All \ completed /\ \A q \in Waiting : Arrival(p) <= Arrival(q)
      /\ completed \union {p} =
           {arrival_order[i] : i \in 1..Cardinality(completed \union {p})}
  BY <1>0, <1>1, FCFSTakes
<1> HIDE DEF p
<1>3. /\ StartTime(p) \in Nat /\ Arrival(p) <= StartTime(p) /\ current_time <= StartTime(p)
      /\ StartTime(p) > current_time => StartTime(p) = Arrival(p)
  BY <1>0, <1>2, StartFacts
<1> QED
  BY <1>1, <1>2, <1>3, RunToEndKeeps

LEMMA PresentRunKeeps ==
  ASSUME CPUInv, Running("SJF") \/ Running("PriorityScheduling"),
         NEW p \in Present, RunToEnd(p, current_time)
  PROVE  CPUInv'
<1>0. CPUTypeOK
  BY DEF CPUInv
<1>1. p \in All \ completed /\ Arrival(p) <= current_time /\ current_time \in Nat
  BY <1>0, CPUFacts DEF Present
<1>2. ~Running("FCFS") /\ ~(current_time > current_time) /\ current_time <= current_time
  BY <1>0, <1>1, OnlyOnePolicy
<1> QED
  BY <1>1, <1>2, RunToEndKeeps

LEMMA SJFKeeps ==
  ASSUME CPUInv, SJF
  PROVE  CPUInv'
<1>1. CPUTypeOK
  BY DEF CPUInv
<1>2. Running("SJF") /\ Present # {} /\ RunToEnd(ShortestBurst, current_time)
  BY DEF SJF, ShortestBurst
<1> QED
  BY <1>1, <1>2, ShortestBurstThere, PresentRunKeeps

LEMMA PriorityKeeps ==
  ASSUME CPUInv, PriorityScheduling
  PROVE  CPUInv'
<1>1. CPUTypeOK
  BY DEF CPUInv
<1>2. /\ Running("PriorityScheduling") /\ Present # {}
      /\ RunToEnd(MostUrgent, current_time)
  BY DEF PriorityScheduling, MostUrgent
<1> QED
  BY <1>1, <1>2, MostUrgentThere, PresentRunKeeps

LEMMA SRTFSlice ==
  ASSUME CPUInv, SRTF
  PROVE  Slice(Shortest(Unfinished), current_time, 1)
<1>0. CPUTypeOK /\ WorkInv
  BY DEF CPUInv
<1> DEFINE p == Shortest(Unfinished)
           ends == remaining_time[p] = 1
<1>1. /\ Running("SRTF") /\ Unfinished # {}
      /\ remaining_time' = [remaining_time EXCEPT ![p] = remaining_time[p] - 1]
      /\ current_time' = current_time + 1
      /\ completed' = IF ends THEN completed \union {p} ELSE completed
      /\ completion_time' = IF ends THEN [completion_time EXCEPT ![p] = current_time + 1]
                            ELSE completion_time
      /\ processes' = processes /\ results' = results
  BY DEF SRTF
<1>2. p \in Unfinished
  BY <1>0, <1>1, ShortestThere
<1> HIDE DEF p
<1>3. /\ p \in All \ completed /\ Arrival(p) <= current_time /\ remaining_time[p] > 0
      /\ p \in Waiting
  BY <1>2 DEF Unfinished, Present, Waiting
<1>4. /\ current_time \in Nat
      /\ remaining_time \in [All -> Nat]
      /\ \A q \in All : Burst(q) \in Nat /\ remaining_time[q] <= Burst(q)
  BY <1>0, CPUFacts DEF CPUTypeOK, WorkInv
<1>5. All' = All /\ (\A q : Burst(q)' = Burst(q)) /\ Running("SRTF")'
  BY <1>1, Frame, FrameRunning
<1>6. \A q \in All : remaining_time'[q] = IF q = p THEN remaining_time[p] - 1
                                          ELSE remaining_time[q]
  BY <1>1, <1>4
<1>7. served' = [served EXCEPT ![p] = served[p] + 1]
  <2> DEFINE more == [served EXCEPT ![p] = served[p] + 1]
  <2>1. served' = [q \in All |-> served'[q]]
        /\ \A q \in All : served'[q] = IF q \in completed' THEN Burst(q)
                                       ELSE Burst(q) - remaining_time'[q]
    BY <1>5 DEF served
  <2>2. more = [q \in All |-> more[q]]
        /\ \A q \in All : more[q] = IF q = p THEN served[p] + 1 ELSE served[q]
    BY <1>0, ServedFacts
  <2>3. \A q \in All : served'[q] = more[q]
    <3>1. SUFFICES ASSUME NEW q \in All PROVE served'[q] = more[q]
      OBVIOUS
    <3>2. CASE q = p
      <4>1. served[p] = Burst(p) - remaining_time[p]
        BY <1>0, <1>3, ServedFacts
      <4>2. served'[p] = IF ends THEN Burst(p) ELSE Burst(p) - (remaining_time[p] - 1)
        BY <1>1, <1>3, <1>6, <2>1
      <4>3. served'[p] = served[p] + 1
        BY <1>3, <1>4, <4>1, <4>2
      <4> QED
        BY <2>2, <3>2, <4>3
    <3>3. CASE q # p
      <4>1. q \in completed' <=> q \in completed
        BY <1>1, <3>3
      <4> QED
        BY <1>0, <1>6, <2>1, <2>2, <3>3, <4>1, ServedFacts
    <3> QED
      BY <3>2, <3>3
  <2> HIDE DEF more
  <2>4. served' = more
    BY <2>1, <2>2, <2>3
  <2> QED
    BY <2>4 DEF more
<1>8. Waiting' \subseteq Waiting
  <2>1. \A q \in All : remaining_time'[q] > 0 => remaining_time[q] > 0
    BY <1>3, <1>4, <1>6
  <2>2. completed \subseteq completed'
    BY <1>1
  <2> QED
    BY <1>5, <2>1, <2>2 DEF Waiting
<1>9. \A q \in All : remaining_time'[q] <= Burst(q)
  BY <1>3, <1>4, <1>6
<1>10. \/ completed' = completed /\ completion_time' = completion_time
       \/ /\ completed' = completed \union {p}
          /\ completion_time' = [completion_time EXCEPT ![p] = current_time + 1]
  BY <1>1
<1>11. Slice(p, current_time, 1)
  BY <1>1, <1>3, <1>4, <1>7, <1>8, <1>9, <1>10 DEF Slice
<1> QED
  BY <1>11 DEF p

LEMMA SRTFKeeps ==
  ASSUME CPUInv, SRTF
  PROVE  CPUInv'
<1>0. CPUTypeOK /\ WorkInv /\ PolicyInv /\ SchedulesAreReal
  BY DEF CPUInv
<1> DEFINE p == Shortest(Unfinished)
<1>1. Slice(p, current_time, 1)
  BY SRTFSlice
<1>2. /\ Running("SRTF")
      /\ remaining_time' = [remaining_time EXCEPT ![p] = remaining_time[p] - 1]
      /\ completed' = IF remaining_time[p] = 1 THEN completed \union {p} ELSE completed
      /\ processes' = processes /\ results' = results /\ arrival_order' = arrival_order
      /\ ready_queue' = ready_queue /\ since' = since
      /\ p \in Unfinished
  BY <1>0, ShortestThere DEF SRTF
<1> HIDE DEF p
<1>3. /\ p \in All /\ remaining_time[p] > 0 /\ remaining_time \in [All -> Nat]
      /\ Burst(p) \in Nat /\ remaining_time[p] <= Burst(p)
  BY <1>0, <1>2, CPUFacts DEF Unfinished, Present, CPUTypeOK, WorkInv
<1>4. CPUTypeOK'
  <2>1. /\ remaining_time' \in [All -> Nat] /\ ready_queue' \in Seq(All)
        /\ since' \in [All -> Nat]
    BY <1>0, <1>2, <1>3 DEF CPUTypeOK
  <2> QED
    BY <1>0, <1>1, <1>2, <2>1, SliceTypes
<1>5. WorkInv'
  BY <1>0, <1>1, SliceKeepsWork
<1>6. /\ ~(Len(results) >= 3)
      /\ ~Running("FCFS") /\ ~Running("SJF") /\ ~Running("PriorityScheduling")
      /\ ~Running("RoundRobin")
  BY <1>0, <1>2, OnlyOnePolicy
<1>7. /\ ~Running("FCFS")' /\ ~Running("SJF")' /\ ~Running("PriorityScheduling")'
      /\ ~Running("RoundRobin")'
  BY <1>2, <1>6, FrameRunning
<1>8. \A q \in completed' : Burst(q)' > 0
  <2>1. \A q \in completed : Burst(q) > 0
    BY <1>0, <1>2 DEF PolicyInv
  <2>2. Burst(p) > 0
    BY <1>3
  <2> QED
    BY <1>2, <2>1, <2>2, Frame
<1>9. ~(Len(results)' >= 3)
  BY <1>2, <1>6
<1>10. PolicyInv'
  BY <1>7, <1>8, <1>9 DEF PolicyInv
<1> QED
  BY <1>0, <1>2, <1>4, <1>5, <1>7, <1>10, RealStays DEF CPUInv

LEMMA TickWork ==
  ASSUME CPUTypeOK, WorkInv, Tick
  PROVE  WorkInv'
<1>1. /\ current_time' = current_time + 1
      /\ processes' = processes /\ results' = results /\ remaining_time' = remaining_time
      /\ completion_time' = completion_time /\ completed' = completed
  BY DEF Tick
<1>2. /\ All' = All /\ \A x : Burst(x)' = Burst(x) /\ Arrival(x)' = Arrival(x)
      /\ Bursts' = Bursts /\ \A a : From(a)' = From(a)
      /\ \A policy : Running(policy)' <=> Running(policy)
  BY <1>1, Frame, FrameRunning
<1>3. served' = served
  BY <1>1, <1>2 DEF served
<1>4. \A a, q : Before(a, q)' = Before(a, q)
  BY <1>1, <1>2 DEF Before
<1>5. Waiting' = Waiting
  BY <1>1, <1>2 DEF Waiting
<1>6. /\ current_time \in Nat
      /\ \A q \in All : Arrival(q) \in Nat /\ Burst(q) \in Nat /\ completion_time[q] \in Nat
      /\ completed \subseteq All
  BY CPUFacts
<1>7. \A q \in Waiting : current_time + 1 <= Arrival(q)
  <2>1. SUFFICES ASSUME NEW q \in Waiting PROVE ~(Arrival(q) <= current_time)
    BY <1>6 DEF Waiting
  <2>2. q \in All \ completed /\ (Running("SRTF") => remaining_time[q] > 0)
    BY DEF Waiting
  <2>3. CASE Present = {}
    BY <2>2, <2>3 DEF Present
  <2>4. CASE Running("SRTF") /\ Unfinished = {}
    BY <2>2, <2>4 DEF Present, Unfinished
  <2> QED
    BY <2>3, <2>4 DEF Tick
<1>8. PICK p \in All : Arrival(p) > current_time
  BY DEF Tick
<1>9. p \notin completed
  <2>1. \A q \in completed : Arrival(q) + Burst(q) <= completion_time[q]
                             /\ completion_time[q] <= current_time
    BY DEF WorkInv
  <2>2. Arrival(p) \in Nat /\ Burst(p) \in Nat /\ completion_time[p] \in Nat
    BY <1>6
  <2> QED
    BY <1>6, <1>8, <2>1, <2>2
<1>10. IdleNow'
  <2>1. \A q \in Waiting' : current_time' <= Arrival(q)'
    BY <1>1, <1>2, <1>5, <1>7
  <2>2. current_time' <= Arrival(p)'
    BY <1>1, <1>2, <1>6, <1>8
  <2> QED
    BY <1>1, <1>2, <1>9, <2>1, <2>2 DEF IdleNow
<1>11. \A q \in All' : remaining_time'[q] <= Burst(q)'
  BY <1>1, <1>2 DEF WorkInv
<1>12. \A q \in All' : served'[q] > 0 => Arrival(q)' < current_time'
  <2>1. \A q \in All : served[q] > 0 => Arrival(q) < current_time
    BY DEF WorkInv
  <2>2. \A q \in All : served[q] > 0 => Arrival(q) < current_time + 1
    BY <1>6, <2>1
  <2> QED
    BY <1>1, <1>2, <1>3, <2>2
<1>13. \A q \in completed' : /\ Arrival(q)' + Burst(q)' <= completion_time'[q]
                             /\ completion_time'[q] <= current_time'
  <2>1. \A q \in completed : /\ Arrival(q) + Burst(q) <= completion_time[q]
                             /\ completion_time[q] <= current_time
    BY DEF WorkInv
  <2>2. \A q \in completed : completion_time[q] <= current_time + 1
    BY <1>6, <2>1
  <2> QED
    BY <1>1, <1>2, <2>1, <2>2
<1>14. \A a \in Nat : a <= current_time' => Total(served, From(a))' <= current_time' - a
  <2>1. SUFFICES ASSUME NEW a \in Nat, a <= current_time + 1
                 PROVE  Total(served, From(a)) <= (current_time + 1) - a
    BY <1>1, <1>2, <1>3 DEF Total
  <2>2. /\ Total(served, From(a)) \in Nat
        /\ a <= current_time => Total(served, From(a)) <= current_time - a
        /\ a >= current_time => Total(served, From(a)) = 0
    BY DoneFrom
  <2> QED
    BY <1>6, <2>1, <2>2
<1>15. \A q \in completed' : \A a \in Nat :
         a <= completion_time'[q] => Total(Bursts, Before(a, q))' <= completion_time'[q] - a
  <2>1. \A q \in completed : \A a \in Nat :
         a <= completion_time[q] => Total(Bursts, Before(a, q)) <= completion_time[q] - a
    BY DEF WorkInv
  <2> QED
    BY <1>1, <1>2, <1>4, <2>1 DEF Total
<1>16. completed' # All'
  BY <1>1, <1>2, <1>8, <1>9
<1> QED
  BY <1>10, <1>11, <1>12, <1>13, <1>14, <1>15, <1>16 DEF WorkInv

LEMMA TickKeeps ==
  ASSUME CPUInv, Tick
  PROVE  CPUInv'
<1>0. CPUTypeOK /\ WorkInv /\ PolicyInv /\ SchedulesAreReal
  BY DEF CPUInv
<1>1. /\ current_time' = current_time + 1
      /\ Running("SJF") \/ Running("PriorityScheduling") \/ Running("SRTF")
      /\ processes' = processes /\ results' = results /\ remaining_time' = remaining_time
      /\ completion_time' = completion_time /\ completed' = completed
      /\ arrival_order' = arrival_order /\ ready_queue' = ready_queue /\ since' = since
  BY DEF Tick
<1>2. /\ All' = All /\ \A x : Burst(x)' = Burst(x)
      /\ Bursts' = Bursts
      /\ \A policy : Running(policy)' <=> Running(policy)
  BY <1>1, Frame, FrameRunning
<1>3. CPUTypeOK'
  <2>1. current_time' \in Nat
    BY <1>0, <1>1, CPUFacts
  <2>2. ArrivalOrders(processes)' = ArrivalOrders(processes)
    BY <1>1 DEF ArrivalOrders
  <2> QED
    BY <1>0, <1>1, <1>2, <2>1, <2>2 DEF CPUTypeOK
<1>4. WorkInv'
  BY <1>0, TickWork
<1>5. PolicyInv'
  BY <1>0, <1>1, <1>2 DEF PolicyInv
<1>6. ~Running("RoundRobin")'
  BY <1>0, <1>1, <1>2, OnlyOnePolicy
<1> QED
  BY <1>0, <1>1, <1>3, <1>4, <1>5, <1>6, RealStays DEF CPUInv

-----------------------------------------------------------------------------
(* A policy ends, and the next one starts.                                 *)

LEMMA EndIsReal ==
  ASSUME CPUTypeOK, WorkInv, completed = All
  PROVE  RealFor(processes, completion_time)
<1>1. /\ All = DOMAIN processes /\ current_time \in Nat /\ IsFiniteSet(All) /\ All # {}
      /\ \A p \in All : Arrival(p) \in Nat /\ Burst(p) \in Nat /\ completion_time[p] \in Nat
  <2>1. All # {}
    BY CPUFacts
  <2> QED
    BY <2>1, CPUFacts DEF All
<1>2. \A p \in All : /\ Arrival(p) + Burst(p) <= completion_time[p]
                     /\ completion_time[p] <= current_time
  BY DEF WorkInv
<1>3. \A q \in All : \A a \in Nat :
        a <= completion_time[q] => Total(Bursts, Before(a, q)) <= completion_time[q] - a
  BY DEF WorkInv
<1>4. PICK last \in All : completion_time[last] = current_time
  BY DEF WorkInv
<1>5. PICK r \in All : BusySince(r)
  <2>1. ~IdleNow
    BY DEF IdleNow
  <2> QED
    BY <2>1 DEF WorkInv
<1>6. served = Bursts
  BY DEF served, Bursts
<1>7. \A p \in All : completion_time[p] >= Arrival(p) + Burst(p)
  BY <1>1, <1>2
<1>8. \A a \in {Arrival(p) : p \in All}, c \in {completion_time[p] : p \in All} :
        a <= c => Total(Bursts, {p \in All : a <= Arrival(p) /\ completion_time[p] <= c}) <= c - a
  <2>1. SUFFICES ASSUME NEW a \in Nat, NEW q \in All, a <= completion_time[q]
                 PROVE  Total(Bursts, {p \in All : a <= Arrival(p) /\ completion_time[p]
                                                     <= completion_time[q]})
                          <= completion_time[q] - a
    BY <1>1
  <2>2. Before(a, q) = {p \in All : a <= Arrival(p) /\ completion_time[p] <= completion_time[q]}
    BY DEF Before
  <2> QED
    BY <1>3, <2>1, <2>2
<1>9. Max({completion_time[p] : p \in All}) = current_time
  <2> DEFINE Ends == {completion_time[p] : p \in All}
  <2>1. Ends \in SUBSET Nat /\ current_time \in Ends /\ \A c \in Ends : c <= current_time
    BY <1>1, <1>2, <1>4
  <2> HIDE DEF Ends
  <2>2. Max(Ends) = current_time
    BY <2>1, MaxIs
  <2> QED
    BY <2>2 DEF Ends
<1>10. Max({Arrival(p) + Total(Bursts, From(Arrival(p))) : p \in All}) = current_time
  <2> DEFINE Ends == {Arrival(p) + Total(Bursts, From(Arrival(p))) : p \in All}
  <2>1. ASSUME NEW p \in All
        PROVE  /\ Arrival(p) + Total(Bursts, From(Arrival(p))) \in Nat
               /\ Arrival(p) + Total(Bursts, From(Arrival(p))) <= current_time
    <3>1. Arrival(p) \in Nat /\ Arrival(p) <= current_time
      BY <1>1, <1>2
    <3>2. /\ Total(Bursts, From(Arrival(p))) \in Nat
          /\ Total(Bursts, From(Arrival(p))) <= current_time - Arrival(p)
      BY <1>6, <3>1, DoneFrom
    <3> QED
      BY <1>1, <3>1, <3>2
  <2>2. current_time = Arrival(r) + Total(Bursts, From(Arrival(r)))
    BY <1>5, <1>6 DEF BusySince
  <2>3. Ends \in SUBSET Nat /\ current_time \in Ends /\ \A c \in Ends : c <= current_time
    BY <2>1, <2>2
  <2> HIDE DEF Ends
  <2>4. Max(Ends) = current_time
    BY <2>3, MaxIs
  <2> QED
    BY <2>4 DEF Ends
<1>11. Max({completion_time[p] : p \in All}) =
         Max({Arrival(p) + Total(Bursts, {q \in All : Arrival(p) <= Arrival(q)}) : p \in All})
  BY <1>9, <1>10 DEF From
<1>12. IsReal(completion_time)
  BY <1>7, <1>8, <1>11 DEF IsReal, Total
<1> QED
  BY <1>12 DEF IsReal, RealFor, Bursts, All, Arrival, Burst

\* The state in which a policy starts, and what is known of the results then.
Fresh ==
  /\ processes \in Tables
  /\ current_time = 0 /\ remaining_time = Bursts /\ completion_time = [p \in All |-> 0]
  /\ completed = {}
  /\ arrival_order \in ArrivalOrders(processes)
  /\ ready_queue = FirstInQueue(processes, arrival_order)
  /\ since = [p \in All |-> Arrival(p)]

ResultsFine ==
  /\ results \in Seq([All -> Nat])
  /\ Len(results) >= 3 => \A q \in All : Burst(q) > 0
  /\ SchedulesAreReal

LEMMA FreshTypes ==
  ASSUME Fresh, ResultsFine
  PROVE  /\ CPUTypeOK
         /\ ready_queue = <<>> \/ ready_queue = <<arrival_order[1]>>
         /\ ready_queue = <<>> => \A q \in All : Arrival(q) > 0
         /\ ready_queue # <<>> => arrival_order[1] \in All /\ Arrival(arrival_order[1]) = 0
<1>1. /\ processes \in Tables /\ All = 1..Len(processes) /\ Len(processes) \in Nat \ {0}
      /\ \A p \in All : Arrival(p) \in Nat /\ Burst(p) \in Nat
  BY TableFacts DEF Fresh, All, Arrival, Burst
<1>2. arrival_order \in ArrivalOrders(processes)
  BY DEF Fresh
<1>3. /\ arrival_order[1] \in All
      /\ \A q \in All : Arrival(arrival_order[1]) <= Arrival(q)
  <2>1. /\ arrival_order \in Seq(All) /\ Len(arrival_order) = Len(processes)
        /\ \A p \in All : \E i \in 1..Len(processes) : arrival_order[i] = p
        /\ \A i, j \in 1..Len(processes) :
             i <= j => Arrival(arrival_order[i]) <= Arrival(arrival_order[j])
    BY <1>1, <1>2, OrderFacts DEF All, Arrival
  <2>2. 1 \in 1..Len(processes) /\ \A i \in 1..Len(processes) : 1 <= i
    BY <1>1
  <2> QED
    BY <2>1, <2>2
<1>4. ready_queue = IF Arrival(arrival_order[1]) = 0 THEN <<arrival_order[1]>> ELSE <<>>
  BY DEF Fresh, FirstInQueue, Arrival
<1>5. ready_queue \in Seq(All)
  BY <1>3, <1>4
<1>6. CPUTypeOK
  BY <1>1, <1>5 DEF Fresh, ResultsFine, CPUTypeOK, Bursts
<1>7. ready_queue = <<>> => \A q \in All : Arrival(q) > 0
  BY <1>1, <1>3, <1>4
<1> QED
  BY <1>3, <1>4, <1>6, <1>7

LEMMA FreshWork ==
  ASSUME Fresh, CPUTypeOK
  PROVE  WorkInv
<1>1. /\ All # {} /\ IsFiniteSet(All)
      /\ \A p \in All : Arrival(p) \in Nat /\ Burst(p) \in Nat
  <2>1. 1 \in All
    BY CPUFacts
  <2> QED
    BY <2>1, CPUFacts
<1>2. /\ current_time = 0 /\ completed = {} /\ \A q \in All : remaining_time[q] = Burst(q)
  BY DEF Fresh, Bursts
<1>3. \A q \in All : served[q] = 0
  BY <1>1, <1>2 DEF served
<1>4. ASSUME NEW a \in Nat, a <= 0 PROVE Total(served, From(a)) <= 0 - a
  <2>1. IsFiniteSet(From(a)) /\ \A q \in From(a) : served[q] = 0
    BY <1>1, <1>3, FS_Subset DEF From
  <2>2. Total(served, From(a)) = 0
    BY <2>1, TotalZero
  <2> QED
    BY <1>4, <2>2
<1>5. IdleNow
  BY <1>1, <1>2 DEF IdleNow, Waiting
<1>6. \A q \in All : remaining_time[q] <= Burst(q) /\ ~(served[q] > 0)
  BY <1>1, <1>2, <1>3
<1> QED
  BY <1>1, <1>2, <1>4, <1>5, <1>6 DEF WorkInv

LEMMA FreshQueue ==
  ASSUME Fresh, ResultsFine, Running("RoundRobin")
  PROVE  QueueInv
<1>1. /\ CPUTypeOK
      /\ ready_queue = <<>> \/ ready_queue = <<arrival_order[1]>>
      /\ ready_queue = <<>> => \A q \in All : Arrival(q) > 0
      /\ ready_queue # <<>> => arrival_order[1] \in All /\ Arrival(arrival_order[1]) = 0
  BY FreshTypes
<1>2. /\ \A q \in All : Burst(q) > 0 /\ Burst(q) \in Nat /\ Arrival(q) \in Nat
      /\ Len(processes) \in Nat \ {0}
  BY <1>1, OnlyOnePolicy, CPUFacts DEF ResultsFine
<1>3. /\ current_time = 0 /\ completed = {}
      /\ \A q \in All : remaining_time[q] = Burst(q) /\ since[q] = Arrival(q)
  BY DEF Fresh, Bursts
<1>4. completed = {q \in All : remaining_time[q] = 0}
  BY <1>2, <1>3
<1>5. /\ Len(ready_queue) = 0 \/ Len(ready_queue) = 1
      /\ Len(ready_queue) = 1 => ready_queue[1] = arrival_order[1] /\ ready_queue # <<>>
  BY <1>1
<1>6. \A i, j \in 1..Len(ready_queue) : ready_queue[i] = ready_queue[j] => i = j
  BY <1>5
<1>7. ASSUME NEW i \in 1..Len(ready_queue)
      PROVE  /\ remaining_time[ready_queue[i]] > 0
             /\ Arrival(ready_queue[i]) <= current_time
             /\ current_time - since[ready_queue[i]] <= (Len(processes) - i) * Quantum
  <2>1. i = 1 /\ Len(ready_queue) = 1
    <3>1. CASE Len(ready_queue) = 0
      BY <3>1
    <3>2. CASE Len(ready_queue) = 1
      BY <3>2
    <3> QED
      BY <1>5, <3>1, <3>2
  <2>2. ready_queue[i] \in All /\ Arrival(ready_queue[i]) = 0
    BY <1>1, <1>5, <2>1
  <2>3. (Len(processes) - 1) * Quantum >= 0
    <3>1. Len(processes) - 1 \in Nat /\ Quantum \in Nat
      BY <1>2, CPUAssumption
    <3>2. \A m, n \in Nat : m * n >= 0
      OBVIOUS
    <3> QED
      BY <3>1, <3>2
  <2>4. current_time - since[ready_queue[i]] = 0
    BY <1>3, <2>2
  <2>5. (Len(processes) - 1) * Quantum \in Int
    BY <1>2, CPUAssumption
  <2> QED
    BY <1>2, <1>3, <2>1, <2>2, <2>3, <2>4, <2>5
<1>8. ASSUME NEW q \in All
      PROVE  /\ since[q] = Arrival(q)
             /\ \/ current_time < Arrival(q)
                \/ current_time = 0 /\ Arrival(q) = 0 /\ ready_queue # <<>>
  <2>1. CASE Arrival(q) = 0
    BY <1>1, <1>3, <2>1
  <2>2. CASE Arrival(q) # 0
    BY <1>2, <1>3, <2>2
  <2> QED
    BY <2>1, <2>2
<1> QED
  BY <1>4, <1>6, <1>7, <1>8 DEF QueueInv

LEMMA FreshCPU ==
  Fresh /\ ResultsFine => CPUInv
<1> SUFFICES ASSUME Fresh, ResultsFine PROVE CPUInv
  OBVIOUS
<1>1. CPUTypeOK
  BY FreshTypes
<1>2. WorkInv
  BY <1>1, FreshWork
<1>3. PolicyInv
  <2>1. Cardinality({}) = 0
    BY FS_EmptySet
  <2>2. remaining_time = Bursts /\ completed = {}
    BY DEF Fresh
  <2>3. {arrival_order[i] : i \in 1..0} = {}
    OBVIOUS
  <2> QED
    BY <2>1, <2>2, <2>3 DEF PolicyInv, ResultsFine
<1>4. Running("RoundRobin") => QueueInv
  BY FreshQueue
<1> QED
  BY <1>1, <1>2, <1>3, <1>4 DEF CPUInv, ResultsFine

LEMMA FreshNext ==
  Fresh' /\ ResultsFine' => CPUInv'
BY FreshCPU, PTL

LEMMA CPUInvInit ==
  CPUInit => CPUInv
<1> SUFFICES ASSUME CPUInit PROVE CPUInv
  OBVIOUS
<1>1. Fresh
  BY DEF CPUInit, Fresh, Bursts
<1>2. results = <<>> /\ Len(results) = 0 /\ DOMAIN results = {}
  BY DEF CPUInit
<1>3. SchedulesAreReal
  BY <1>2 DEF SchedulesAreReal
<1>4. results \in Seq([All -> Nat])
  BY <1>2
<1>5. ~(0 >= 3)
  OBVIOUS
<1>6. ResultsFine
  BY <1>2, <1>3, <1>4, <1>5 DEF ResultsFine
<1> QED
  BY <1>1, <1>6, FreshCPU

LEMMA EndPolicyKeeps ==
  ASSUME CPUInv, EndPolicy
  PROVE  CPUInv'
<1>0. CPUTypeOK /\ WorkInv /\ PolicyInv /\ SchedulesAreReal
  BY DEF CPUInv
<1>1. /\ completed = All /\ results' = Append(results, completion_time)
      /\ StartPolicy(processes) /\ processes' = processes
  BY DEF EndPolicy
<1>2. /\ All' = All /\ Bursts' = Bursts /\ \A p : Arrival(p)' = Arrival(p) /\ Burst(p)' = Burst(p)
      /\ DOMAIN processes = All
  BY <1>1, Frame DEF All
<1>3. Fresh'
  <2>1. processes \in Tables
    BY <1>0 DEF CPUTypeOK
  <2>2. /\ current_time' = 0
        /\ remaining_time' = [p \in All |-> Burst(p)]
        /\ completion_time' = [p \in All |-> 0]
        /\ completed' = {}
        /\ since' = [p \in All |-> Arrival(p)]
    BY <1>1 DEF StartPolicy, All, Arrival, Burst
  <2>3. /\ arrival_order' \in ArrivalOrders(processes)
        /\ ready_queue' = FirstInQueue(processes, arrival_order')
    BY <1>1 DEF StartPolicy
  <2>4. /\ ArrivalOrders(processes)' = ArrivalOrders(processes)
        /\ FirstInQueue(processes, arrival_order)' = FirstInQueue(processes, arrival_order')
    BY <1>1 DEF ArrivalOrders, FirstInQueue
  <2>5. remaining_time' = Bursts'
    BY <1>2, <2>2 DEF Bursts
  <2>6. completion_time' = [p \in All' |-> 0] /\ since' = [p \in All' |-> Arrival(p)']
    BY <1>2, <2>2
  <2> QED
    BY <1>1, <2>1, <2>2, <2>3, <2>4, <2>5, <2>6 DEF Fresh
<1>4. /\ results \in Seq([All -> Nat]) /\ completion_time \in [All -> Nat]
      /\ Len(results) \in Nat
  BY <1>0 DEF CPUTypeOK
<1>5. /\ results' \in Seq([All -> Nat]) /\ Len(results') = Len(results) + 1
      /\ \A k \in 1..Len(results) : results'[k] = results[k]
      /\ results'[Len(results) + 1] = completion_time
      /\ DOMAIN results' = 1..Len(results) + 1 /\ DOMAIN results = 1..Len(results)
  BY <1>1, <1>4, AppendProperties
<1>6. ASSUME Len(results') >= 3, NEW q \in All PROVE Burst(q) > 0
  <2>1. CASE Len(results) >= 3
    BY <1>0, <2>1 DEF PolicyInv
  <2>2. CASE Len(results) = 2
    <3>1. Running("SRTF")
      BY <1>0, <2>2, PolicyOrder
    <3> QED
      BY <1>0, <1>1, <3>1 DEF PolicyInv
  <2> QED
    BY <1>4, <1>5, <1>6, <2>1, <2>2
<1>7. SchedulesAreReal'
  <2>1. \A k \in DOMAIN results : RealFor(processes, results[k])
    BY <1>0, RealForIs DEF AllReal
  <2>2. RealFor(processes, completion_time)
    BY <1>0, <1>1, EndIsReal
  <2>3. \A k \in DOMAIN results' : RealFor(processes, results'[k])
    <3>1. \A k \in 1..Len(results) + 1 : k \in 1..Len(results) \/ k = Len(results) + 1
      BY <1>4
    <3> QED
      BY <1>5, <2>1, <2>2, <3>1
  <2>4. AllReal'
    BY <1>1, <2>3 DEF AllReal
  <2> QED
    BY <2>4, RealForNext
<1>8. ResultsFine'
  <2>1. results' \in Seq([All' -> Nat])
    BY <1>2, <1>5
  <2>2. Len(results') >= 3 => \A q \in All' : Burst(q)' > 0
    BY <1>2, <1>6
  <2> QED
    BY <1>7, <2>1, <2>2 DEF ResultsFine
<1> QED
  BY <1>3, <1>8, FreshNext

-----------------------------------------------------------------------------
(* Round robin.                                                            *)

\* A turn of process p, from start on; rest is the queue behind p, and arrived
\* lists those who have come by the end of it.
Coming1(p, rest, start, exec) ==
  {q \in All \ (ToSet(rest) \union {p}) :
     remaining_time[q] > 0 /\ Arrival(q) <= start + exec}

Turn(p, rest, arrived, start, exec) ==
  /\ p \in All /\ remaining_time[p] > 0 /\ rest \in Seq(All)
  /\ \/ /\ ready_queue # <<>> /\ start = current_time /\ p = ready_queue[1]
        /\ rest = Tail(ready_queue)
     \/ /\ ready_queue = <<>> /\ rest = <<>> /\ start = Arrival(p) /\ start > current_time
        /\ \A q \in All : remaining_time[q] > 0 => start <= Arrival(q)
  /\ start \in Nat
  /\ exec \in Nat /\ exec > 0 /\ exec <= Quantum /\ exec <= remaining_time[p]
  /\ Finds(arrived, arrival_order, Len(arrival_order), Coming1(p, rest, start, exec), All)
  /\ current_time' = start + exec
  /\ remaining_time' = [remaining_time EXCEPT ![p] = remaining_time[p] - exec]
  /\ ready_queue' = rest \o arrived \o (IF remaining_time[p] > exec THEN <<p>> ELSE <<>>)
  /\ since' = [since EXCEPT ![p] = start + exec]
  /\ completed' = IF remaining_time[p] > exec THEN completed ELSE completed \union {p}
  /\ completion_time' = IF remaining_time[p] > exec THEN completion_time
                        ELSE [completion_time EXCEPT ![p] = start + exec]
  /\ processes' = processes /\ results' = results /\ arrival_order' = arrival_order

LEMMA IdleJump ==
  ASSUME CPUTypeOK, QueueInv, ready_queue = <<>>,
         NEW Coming,
         Coming = {i \in DOMAIN arrival_order :
                     /\ remaining_time[arrival_order[i]] > 0
                     /\ Arrival(arrival_order[i]) > current_time},
         Coming # {}
  PROVE  LET p == arrival_order[Min(Coming)]
         IN /\ p \in All /\ remaining_time[p] > 0 /\ Arrival(p) > current_time
            /\ \A q \in All : remaining_time[q] > 0 => Arrival(p) <= Arrival(q)
<1>1. /\ processes \in Tables /\ arrival_order \in ArrivalOrders(processes)
      /\ DOMAIN processes = All /\ current_time \in Nat
      /\ \A q \in All : Arrival(q) \in Nat
  BY CPUFacts DEF CPUTypeOK, All
<1>2. /\ arrival_order \in Seq(All) /\ DOMAIN arrival_order = 1..Len(processes)
      /\ \A q \in All : \E i \in 1..Len(processes) : arrival_order[i] = q
      /\ \A i, j \in 1..Len(processes) :
           i <= j => Arrival(arrival_order[i]) <= Arrival(arrival_order[j])
  BY <1>1, OrderFacts DEF Arrival
<1>3. Coming \in SUBSET Nat
  BY <1>2
<1>4. Min(Coming) \in Coming /\ \A i \in Coming : Min(Coming) <= i
  BY <1>3, MinIs
<1> DEFINE m == Min(Coming)
<1>5. /\ m \in 1..Len(processes) /\ arrival_order[m] \in All
      /\ remaining_time[arrival_order[m]] > 0
      /\ Arrival(arrival_order[m]) > current_time
  BY <1>2, <1>4
<1>6. ASSUME NEW q \in All, remaining_time[q] > 0
      PROVE  Arrival(arrival_order[m]) <= Arrival(q)
  <2>1. Len(ready_queue) = 0 /\ \A i \in 1..Len(ready_queue) : ready_queue[i] # q
    OBVIOUS
  <2>2. current_time < Arrival(q)
    BY <1>6, <2>1 DEF QueueInv
  <2>3. Arrival(q) > current_time
    BY <1>1, <2>2
  <2>4. PICK i \in 1..Len(processes) : arrival_order[i] = q
    BY <1>2
  <2>5. i \in Coming
    BY <1>2, <1>6, <2>3, <2>4
  <2>6. m <= i
    BY <1>4, <2>5
  <2> HIDE DEF m
  <2> QED
    BY <1>2, <1>5, <2>4, <2>6
<1> QED
  BY <1>5, <1>6

LEMMA TurnTaken ==
  ASSUME CPUInv, RoundRobin
  PROVE  \E p, rest, arrived, start, exec : Turn(p, rest, arrived, start, exec)
<1>0. CPUTypeOK /\ QueueInv /\ Running("RoundRobin")
  BY DEF CPUInv, RoundRobin
<1> DEFINE Coming == {i \in DOMAIN arrival_order :
                        /\ remaining_time[arrival_order[i]] > 0
                        /\ Arrival(arrival_order[i]) > current_time}
           idle == ready_queue = <<>>
           p == IF idle THEN arrival_order[Min(Coming)] ELSE Head(ready_queue)
           rest == IF idle THEN <<>> ELSE Tail(ready_queue)
           exec == Min({Quantum, remaining_time[p]})
           start == IF idle THEN Arrival(p) ELSE current_time
           arrived == InOrder(arrival_order, Coming1(p, rest, start, exec))
<1>1. /\ idle => Coming # {}
      /\ current_time' = start + exec
      /\ remaining_time' = [remaining_time EXCEPT ![p] = remaining_time[p] - exec]
      /\ ready_queue' = Requeue(rest, arrived, p, remaining_time[p] > exec)
      /\ since' = [since EXCEPT ![p] = start + exec]
      /\ completed' = IF remaining_time[p] > exec THEN completed ELSE completed \union {p}
      /\ completion_time' = IF remaining_time[p] > exec THEN completion_time
                            ELSE [completion_time EXCEPT ![p] = start + exec]
      /\ processes' = processes /\ results' = results /\ arrival_order' = arrival_order
  BY DEF RoundRobin, Coming1
<1>2. /\ p \in All /\ remaining_time[p] > 0 /\ rest \in Seq(All)
      /\ \/ /\ ready_queue # <<>> /\ start = current_time /\ p = ready_queue[1]
            /\ rest = Tail(ready_queue)
         \/ /\ ready_queue = <<>> /\ rest = <<>> /\ start = Arrival(p) /\ start > current_time
            /\ \A q \in All : remaining_time[q] > 0 => start <= Arrival(q)
  <2>1. ready_queue \in Seq(All)
    BY <1>0 DEF CPUTypeOK
  <2>2. CASE idle
    <3> DEFINE first == arrival_order[Min(Coming)]
    <3>1. /\ first \in All /\ remaining_time[first] > 0 /\ Arrival(first) > current_time
          /\ \A q \in All : remaining_time[q] > 0 => Arrival(first) <= Arrival(q)
      BY <1>0, <1>1, <2>2, IdleJump
    <3>2. p = first /\ rest = <<>> /\ start = Arrival(first)
      BY <2>2
    <3> HIDE DEF first, p, rest, start
    <3> QED
      BY <2>2, <3>1, <3>2
  <2>3. CASE ~idle
    <3>1. /\ Len(ready_queue) > 0 /\ ready_queue[1] \in All /\ Head(ready_queue) = ready_queue[1]
          /\ Tail(ready_queue) \in Seq(All) /\ 1 \in 1..Len(ready_queue)
      BY <2>1, <2>3
    <3>2. remaining_time[ready_queue[1]] > 0
      BY <1>0, <3>1 DEF QueueInv
    <3>3. p = ready_queue[1] /\ rest = Tail(ready_queue) /\ start = current_time
      BY <2>3, <3>1
    <3> HIDE DEF p, rest, start
    <3> QED
      BY <2>3, <3>1, <3>2, <3>3
  <2> QED
    BY <2>2, <2>3
<1> HIDE DEF p, rest, Coming
<1>3. start \in Nat
  BY <1>0, <1>2, CPUFacts
<1>4. exec \in Nat /\ exec > 0 /\ exec <= Quantum /\ exec <= remaining_time[p]
  <2>1. /\ remaining_time[p] \in Nat /\ Quantum \in Nat /\ Quantum > 0
        /\ remaining_time[p] > 0
    BY <1>0, <1>2, CPUFacts, CPUAssumption
  <2> DEFINE rem == remaining_time[p]
  <2>2. rem \in Nat /\ rem > 0 /\ exec = Min({Quantum, rem})
    BY <2>1
  <2> HIDE DEF rem, exec
  <2>3. /\ exec \in Nat /\ exec \in {Quantum, rem} /\ exec <= Quantum /\ exec <= rem
    BY <2>1, <2>2, MinOfTwo
  <2> QED
    BY <2>1, <2>2, <2>3 DEF rem
<1>5. Finds(arrived, arrival_order, Len(arrival_order), Coming1(p, rest, start, exec), All)
  <2>1. processes \in Tables /\ arrival_order \in ArrivalOrders(processes)
        /\ DOMAIN processes = All
    BY <1>0 DEF CPUTypeOK, All
  <2>2. /\ arrival_order \in Seq(All)
        /\ \A i, j \in 1..Len(arrival_order) : arrival_order[i] = arrival_order[j] => i = j
    BY <2>1, OrderFacts
  <2> QED
    BY <2>2, InOrderFinds
<1>6. ready_queue' = rest \o arrived \o (IF remaining_time[p] > exec THEN <<p>> ELSE <<>>)
  BY <1>1 DEF Requeue
<1> HIDE DEF exec, start, arrived
<1>7. Turn(p, rest, arrived, start, exec)
  BY <1>1, <1>2, <1>3, <1>4, <1>5, <1>6 DEF Turn
<1> QED
  BY <1>7

LEMMA TurnSlice ==
  ASSUME CPUInv, Running("RoundRobin"), NEW p, NEW rest, NEW arrived, NEW start, NEW exec,
         Turn(p, rest, arrived, start, exec)
  PROVE  Slice(p, start, exec)
<1>0. CPUTypeOK /\ WorkInv /\ QueueInv
  BY DEF CPUInv
<1> DEFINE ends == ~(remaining_time[p] > exec)
<1>1. /\ p \in All /\ remaining_time[p] > 0 /\ start \in Nat
      /\ exec \in Nat /\ exec > 0 /\ exec <= remaining_time[p]
      /\ current_time' = start + exec
      /\ remaining_time' = [remaining_time EXCEPT ![p] = remaining_time[p] - exec]
      /\ completed' = IF ends THEN completed \union {p} ELSE completed
      /\ completion_time' = IF ends THEN [completion_time EXCEPT ![p] = start + exec]
                            ELSE completion_time
      /\ processes' = processes /\ results' = results
  BY DEF Turn
<1>2. /\ completed = {q \in All : remaining_time[q] = 0}
      /\ ~Running("SRTF") /\ ~Running("SRTF")'
  BY <1>0, <1>1, OnlyOnePolicy, FrameRunning DEF QueueInv
<1>3. /\ current_time \in Nat /\ remaining_time \in [All -> Nat]
      /\ \A q \in All : /\ Burst(q) \in Nat /\ remaining_time[q] <= Burst(q)
                        /\ Arrival(q) \in Nat
  BY <1>0, CPUFacts DEF CPUTypeOK, WorkInv
<1>4. p \in Waiting /\ p \notin completed
  BY <1>1, <1>2 DEF Waiting
<1>5. /\ Arrival(p) <= start /\ current_time <= start
      /\ start > current_time => start = Arrival(p) /\ \A q \in Waiting : start <= Arrival(q)
  <2>1. CASE ready_queue # <<>> /\ start = current_time /\ p = ready_queue[1]
    <3>1. 1 \in 1..Len(ready_queue)
      BY <1>0, <2>1 DEF CPUTypeOK
    <3>2. Arrival(p) <= current_time
      BY <1>0, <2>1, <3>1 DEF QueueInv
    <3> QED
      BY <1>3, <2>1, <3>2
  <2>2. CASE /\ ready_queue = <<>> /\ start = Arrival(p) /\ start > current_time
             /\ \A q \in All : remaining_time[q] > 0 => start <= Arrival(q)
    <3>1. \A q \in Waiting : q \in All /\ remaining_time[q] > 0
      BY <1>2, <1>3 DEF Waiting
    <3> QED
      BY <1>1, <1>3, <2>2, <3>1
  <2> QED
    BY <2>1, <2>2 DEF Turn
<1>6. All' = All /\ (\A q : Burst(q)' = Burst(q))
  BY <1>1, Frame
<1>7. \A q \in All : remaining_time'[q] = IF q = p THEN remaining_time[p] - exec
                                          ELSE remaining_time[q]
  BY <1>1, <1>3
<1>8. served' = [served EXCEPT ![p] = served[p] + exec]
  <2> DEFINE more == [served EXCEPT ![p] = served[p] + exec]
  <2>1. served' = [q \in All |-> served'[q]]
        /\ \A q \in All : served'[q] = IF q \in completed' THEN Burst(q)
                                       ELSE Burst(q) - remaining_time'[q]
    BY <1>6 DEF served
  <2>2. more = [q \in All |-> more[q]]
        /\ \A q \in All : more[q] = IF q = p THEN served[p] + exec ELSE served[q]
    BY <1>0, ServedFacts
  <2>3. \A q \in All : served'[q] = more[q]
    <3>1. SUFFICES ASSUME NEW q \in All PROVE served'[q] = more[q]
      OBVIOUS
    <3>2. CASE q = p
      <4>1. served[p] = Burst(p) - remaining_time[p]
        BY <1>0, <1>1, <1>4, ServedFacts
      <4>2. served'[p] = IF ends THEN Burst(p) ELSE Burst(p) - (remaining_time[p] - exec)
        BY <1>1, <1>4, <1>7, <2>1
      <4>3. remaining_time[p] \in Nat /\ Burst(p) \in Nat
        BY <1>1, <1>3
      <4>4. served'[p] = served[p] + exec
        BY <1>1, <4>1, <4>2, <4>3
      <4> QED
        BY <2>2, <3>2, <4>4
    <3>3. CASE q # p
      <4>1. q \in completed' <=> q \in completed
        BY <1>1, <3>3
      <4> QED
        BY <1>0, <1>7, <2>1, <2>2, <3>3, <4>1, ServedFacts
    <3> QED
      BY <3>2, <3>3
  <2> HIDE DEF more
  <2>4. served' = more
    BY <2>1, <2>2, <2>3
  <2> QED
    BY <2>4 DEF more
<1>9. Waiting' \subseteq Waiting
  <2>1. completed \subseteq completed'
    BY <1>1
  <2> QED
    BY <1>2, <1>6, <2>1 DEF Waiting
<1>10. \A q \in All : remaining_time'[q] <= Burst(q)
  BY <1>1, <1>3, <1>7
<1>11. \/ completed' = completed /\ completion_time' = completion_time
       \/ /\ completed' = completed \union {p}
          /\ completion_time' = [completion_time EXCEPT ![p] = start + exec]
  BY <1>1
<1> QED
  BY <1>1, <1>4, <1>5, <1>8, <1>9, <1>10, <1>11 DEF Slice

\* The queue ahead of who had the turn: nobody twice, and never everybody.
LEMMA QueueAhead ==
  ASSUME CPUTypeOK, QueueInv, NEW p, NEW rest, NEW arrived, NEW start, NEW exec,
         Turn(p, rest, arrived, start, exec)
  PROVE  LET list == rest \o arrived
         IN /\ list \in Seq(All) /\ Len(list) \in Nat
            /\ \A i, j \in 1..Len(list) : list[i] = list[j] => i = j
            /\ \A i \in 1..Len(list) : list[i] # p
            /\ Len(list) <= Len(processes) - 1
            /\ \A i \in 1..Len(rest) :
                 /\ i \in 1..Len(list) /\ list[i] = rest[i]
                 /\ i + 1 \in 1..Len(ready_queue) /\ rest[i] = ready_queue[i + 1]
                 /\ ready_queue # <<>> /\ start = current_time
            /\ \A i \in 1..Len(list) :
                 i \in 1..Len(rest) \/ list[i] \in Coming1(p, rest, start, exec)
            /\ \A q \in Coming1(p, rest, start, exec) : \E i \in 1..Len(list) : list[i] = q
            /\ \A i \in 1..Len(ready_queue) :
                 \/ ready_queue[i] = p
                 \/ \E j \in 1..Len(rest) : rest[j] = ready_queue[i]
<1> DEFINE L == Len(rest)
           M == Len(arrived)
           S == Coming1(p, rest, start, exec)
           list == rest \o arrived
<1>1. /\ p \in All /\ rest \in Seq(All) /\ arrived \in Seq(All)
      /\ \A i, j \in 1..M : arrived[i] = arrived[j] => i = j
      /\ \A i \in 1..M : arrived[i] \in S
  BY DEF Turn, Finds
<1>2. \A q \in S : \E i \in 1..M : arrived[i] = q
  <2>1. processes \in Tables /\ arrival_order \in ArrivalOrders(processes)
        /\ DOMAIN processes = All
    BY DEF CPUTypeOK, All
  <2>2. \A q \in All : \E k \in 1..Len(arrival_order) : arrival_order[k] = q
    BY <2>1, OrderFacts
  <2>3. \A k \in 1..Len(arrival_order) : arrival_order[k] \in S
                                         => \E i \in 1..M : arrived[i] = arrival_order[k]
    BY DEF Turn, Finds
  <2>4. \A q \in S : q \in All
    BY DEF Coming1
  <2> HIDE DEF S
  <2> QED
    BY <2>2, <2>3, <2>4
<1>3. /\ L \in Nat /\ M \in Nat /\ list \in Seq(All) /\ Len(list) = L + M
      /\ \A i \in 1..L : list[i] = rest[i]
      /\ \A i \in 1..M : list[L + i] = arrived[i]
  BY <1>1, ConcatProperties
<1>4. \A q \in S : q # p /\ \A i \in 1..L : rest[i] # q
  BY <1>1 DEF Coming1, ToSet
<1>5. \A i, j \in 1..Len(ready_queue) : ready_queue[i] = ready_queue[j] => i = j
  BY DEF QueueInv
<1>6. /\ \A i \in 1..L : /\ i + 1 \in 1..Len(ready_queue) /\ rest[i] = ready_queue[i + 1]
                         /\ ready_queue # <<>> /\ start = current_time /\ rest[i] # p
      /\ \A i, j \in 1..L : rest[i] = rest[j] => i = j
      /\ \A i \in 1..Len(ready_queue) :
           ready_queue[i] = p \/ \E j \in 1..L : rest[j] = ready_queue[i]
  <2>1. CASE /\ ready_queue # <<>> /\ start = current_time /\ p = ready_queue[1]
             /\ rest = Tail(ready_queue)
    <3>1. ready_queue \in Seq(All) /\ Len(ready_queue) \in Nat /\ Len(ready_queue) > 0
      BY <2>1 DEF CPUTypeOK
    <3>2. L = Len(ready_queue) - 1 /\ \A i \in 1..L : rest[i] = ready_queue[i + 1]
      BY <2>1, <3>1
    <3> HIDE DEF L
    <3>3. \A i \in 1..L : i + 1 \in 1..Len(ready_queue) /\ 1 \in 1..Len(ready_queue)
                          /\ i + 1 # 1
      BY <3>1, <3>2
    <3>4. \A i \in 1..L : rest[i] # p
      BY <1>5, <2>1, <3>2, <3>3
    <3>5. ASSUME NEW i \in 1..L, NEW j \in 1..L, rest[i] = rest[j] PROVE i = j
      <4>1. ready_queue[i + 1] = ready_queue[j + 1]
        BY <3>2, <3>5
      <4>2. i + 1 = j + 1
        BY <1>5, <3>3, <4>1
      <4> QED
        BY <4>2
    <3>6. ASSUME NEW i \in 1..Len(ready_queue)
          PROVE  ready_queue[i] = p \/ \E j \in 1..L : rest[j] = ready_queue[i]
      <4>1. CASE i = 1
        BY <2>1, <4>1
      <4>2. CASE i # 1
        <5>1. i - 1 \in 1..L /\ (i - 1) + 1 = i
          BY <3>1, <3>2, <4>2
        <5> QED
          BY <3>2, <5>1
      <4> QED
        BY <4>1, <4>2
    <3> QED
      BY <2>1, <3>2, <3>3, <3>4, <3>5, <3>6
  <2>2. CASE ready_queue = <<>> /\ rest = <<>>
    BY <2>2
  <2> QED
    BY <2>1, <2>2 DEF Turn
<1>7. \A i \in 1..L + M : i \in 1..L \/ (i - L \in 1..M /\ L + (i - L) = i)
  BY <1>3
<1> HIDE DEF L, M, S
<1>8. \A i \in 1..L + M :
        \/ i \in 1..L /\ list[i] = rest[i]
        \/ i - L \in 1..M /\ list[i] = arrived[i - L] /\ list[i] \in S
  BY <1>1, <1>3, <1>7
<1> HIDE DEF list
<1>9. \A i, j \in 1..L + M : list[i] = list[j] => i = j
  <2>1. SUFFICES ASSUME NEW i \in 1..L + M, NEW j \in 1..L + M, list[i] = list[j]
                 PROVE  i = j
    OBVIOUS
  <2>2. CASE i \in 1..L /\ list[i] = rest[i]
    <3>1. j \in 1..L /\ list[j] = rest[j]
      BY <1>4, <1>8, <2>1, <2>2
    <3> QED
      BY <1>6, <2>1, <2>2, <3>1
  <2>3. CASE i - L \in 1..M /\ list[i] = arrived[i - L] /\ list[i] \in S
    <3>1. j - L \in 1..M /\ list[j] = arrived[j - L]
      BY <1>4, <1>8, <2>1, <2>3
    <3>2. i - L = j - L
      BY <1>1, <2>1, <2>3, <3>1
    <3> QED
      BY <1>3, <3>2
  <2> QED
    BY <1>8, <2>2, <2>3
<1>10. \A i \in 1..L + M : list[i] # p
  BY <1>4, <1>6, <1>8
<1>11. L + M <= Len(processes) - 1
  <2>1. list \in Injection(1..L + M, All \ {p})
    <3>1. list \in [1..L + M -> All]
      BY <1>3
    <3>2. list \in [1..L + M -> All \ {p}]
      BY <1>10, <3>1
    <3> QED
      BY <1>9, <3>2 DEF Injection, IsInjective
  <2>2. IsFiniteSet(All \ {p}) /\ Cardinality(All \ {p}) = Len(processes) - 1
    BY <1>1, CPUFacts, FS_RemoveElement
  <2>3. Cardinality(1..L + M) = L + M
    <3>1. 1 \in Int /\ L + M \in Int /\ (1 > L + M => L + M = 0)
      BY <1>3
    <3>2. Cardinality(1..L + M) = IF 1 > L + M THEN 0 ELSE (L + M) - 1 + 1
      BY <3>1, FS_Interval
    <3> QED
      BY <1>3, <3>1, <3>2
  <2> QED
    BY <2>1, <2>2, <2>3, FS_Injection
<1>12. \A q \in S : \E i \in 1..L + M : list[i] = q
  <2>1. SUFFICES ASSUME NEW q \in S PROVE \E i \in 1..L + M : list[i] = q
    OBVIOUS
  <2>2. PICK k \in 1..M : arrived[k] = q
    BY <1>2
  <2>3. L + k \in 1..L + M
    BY <1>3
  <2> QED
    BY <1>3, <2>2, <2>3
<1>13. \A i \in 1..L : i \in 1..L + M
  BY <1>3
<1>14. Len(list) \in Nat /\ Len(list) <= Len(processes) - 1
  BY <1>3, <1>11
<1>15. \A i \in 1..L : /\ i \in 1..Len(list) /\ list[i] = rest[i]
                       /\ i + 1 \in 1..Len(ready_queue) /\ rest[i] = ready_queue[i + 1]
                       /\ ready_queue # <<>> /\ start = current_time
  BY <1>3, <1>6, <1>13
<1>16. \A i \in 1..Len(list) : i \in 1..L \/ list[i] \in S
  BY <1>3, <1>8
<1>17. /\ \A i, j \in 1..Len(list) : list[i] = list[j] => i = j
       /\ \A i \in 1..Len(list) : list[i] # p
       /\ \A q \in S : \E i \in 1..Len(list) : list[i] = q
  BY <1>3, <1>9, <1>10, <1>12
<1>18. list \in Seq(All)
  BY <1>3
<1>19. \A i \in 1..Len(ready_queue) : ready_queue[i] = p \/ \E j \in 1..L : rest[j] = ready_queue[i]
  BY <1>6
<1> QED
  BY <1>14, <1>15, <1>16, <1>17, <1>18, <1>19, Zenon DEF list, L, S

LEMMA Turns ==
  ASSUME NEW n \in Nat, NEW k \in Nat
  PROVE  /\ n * k \in Nat /\ (n + 1) * k = n * k + k /\ (n + 1) * k >= k
<1>1. (n + 1) * k = n * k + k
  OBVIOUS
<1>2. n * k \in Nat
  OBVIOUS
<1> QED
  BY <1>1, <1>2

\* The queue after a turn: nobody twice, and all of them have work left.
LEMMA TurnKeepsQueue ==
  ASSUME CPUInv, Running("RoundRobin"), NEW p, NEW rest, NEW arrived, NEW start, NEW exec,
         Turn(p, rest, arrived, start, exec)
  PROVE  QueueInv'
<1>0. CPUTypeOK /\ WorkInv /\ QueueInv
  BY DEF CPUInv
<1> DEFINE list == rest \o arrived
           N == Len(processes)
           L == Len(list)
           unfinished == remaining_time[p] > exec
           S == Coming1(p, rest, start, exec)
           end == start + exec
<1>1. /\ p \in All /\ remaining_time[p] > 0 /\ start \in Nat
      /\ exec \in Nat /\ exec > 0 /\ exec <= Quantum /\ exec <= remaining_time[p]
      /\ current_time' = end
      /\ remaining_time' = [remaining_time EXCEPT ![p] = remaining_time[p] - exec]
      /\ ready_queue' = list \o (IF unfinished THEN <<p>> ELSE <<>>)
      /\ since' = [since EXCEPT ![p] = end]
      /\ completed' = IF unfinished THEN completed ELSE completed \union {p}
      /\ processes' = processes
  BY DEF Turn
<1>2. /\ list \in Seq(All) /\ L \in Nat
      /\ \A i, j \in 1..L : list[i] = list[j] => i = j
      /\ \A i \in 1..L : list[i] # p
      /\ L <= N - 1
  BY <1>0, QueueAhead
<1>3. /\ \A i \in 1..Len(rest) : /\ i \in 1..L /\ list[i] = rest[i]
                                 /\ i + 1 \in 1..Len(ready_queue)
                                 /\ rest[i] = ready_queue[i + 1]
                                 /\ ready_queue # <<>> /\ start = current_time
      /\ \A i \in 1..L : i \in 1..Len(rest) \/ list[i] \in S
      /\ \A q \in S : \E i \in 1..L : list[i] = q
      /\ \A i \in 1..Len(ready_queue) :
           ready_queue[i] = p \/ \E j \in 1..Len(rest) : rest[j] = ready_queue[i]
  BY <1>0, QueueAhead
<1>4. /\ N \in Nat \ {0} /\ current_time \in Nat
      /\ Quantum \in Nat /\ Quantum > 0
      /\ remaining_time \in [All -> Nat] /\ since \in [All -> Nat]
      /\ \A q \in All : Arrival(q) \in Nat
  BY <1>0, CPUFacts, CPUAssumption DEF CPUTypeOK
<1>5. /\ \A q \in All : remaining_time'[q] = IF q = p THEN remaining_time[p] - exec
                                             ELSE remaining_time[q]
      /\ \A q \in All : since'[q] = IF q = p THEN end ELSE since[q]
  BY <1>1, <1>4
<1>6. All' = All /\ (\A q : Arrival(q)' = Arrival(q)) /\ Len(processes)' = N
  BY <1>1, Frame
<1>7. start >= current_time
  <2>1. Slice(p, start, exec)
    BY TurnSlice
  <2>2. current_time <= start
    BY <2>1 DEF Slice
  <2> QED
    BY <1>1, <1>4, <2>2
<1>8. /\ Len(ready_queue') = IF unfinished THEN L + 1 ELSE L
      /\ \A i \in 1..L : ready_queue'[i] = list[i] /\ i \in 1..Len(ready_queue')
      /\ unfinished => ready_queue'[L + 1] = p /\ L + 1 \in 1..Len(ready_queue')
      /\ \A i \in 1..Len(ready_queue') : i \in 1..L \/ (i = L + 1 /\ unfinished)
  <2> HIDE DEF list, unfinished
  <2>1. CASE unfinished
    <3>1. ready_queue' = list \o <<p>>
      BY <1>1, <2>1
    <3>2. /\ Len(ready_queue') = L + 1 /\ ready_queue'[L + 1] = p
          /\ \A i \in 1..L : ready_queue'[i] = list[i]
      BY <1>1, <1>2, <3>1
    <3> HIDE DEF L
    <3> QED
      BY <1>2, <2>1, <3>2
  <2>2. CASE ~unfinished
    <3>1. ready_queue' = list
      BY <1>1, <1>2, <2>2
    <3> QED
      BY <1>2, <2>2, <3>1
  <2> QED
    BY <2>1, <2>2
<1>9. \A q \in All : (\A i \in 1..Len(ready_queue) : ready_queue[i] # q)
                     /\ remaining_time[q] > 0 =>
        /\ since[q] = Arrival(q)
        /\ \/ current_time < Arrival(q)
           \/ current_time = 0 /\ Arrival(q) = 0 /\ ready_queue # <<>>
  BY <1>0 DEF QueueInv
<1>10. \A q \in All : q # p /\ (\A j \in 1..Len(rest) : rest[j] # q) =>
         \A i \in 1..Len(ready_queue) : ready_queue[i] # q
  BY <1>3
<1>11. \A q \in S : /\ q \in All /\ q # p /\ remaining_time[q] > 0 /\ Arrival(q) <= end
                    /\ \A j \in 1..Len(rest) : rest[j] # q
  <2>1. rest \in Seq(All)
    BY DEF Turn
  <2> QED
    BY <2>1 DEF Coming1, ToSet
<1> HIDE DEF list, N, L, S, unfinished
<1>12. \A i, j \in 1..Len(ready_queue') : ready_queue'[i] = ready_queue'[j] => i = j
  <2>1. SUFFICES ASSUME NEW i \in 1..Len(ready_queue'), NEW j \in 1..Len(ready_queue'),
                        ready_queue'[i] = ready_queue'[j]
                 PROVE  i = j
    OBVIOUS
  <2>2. CASE i \in 1..L /\ j \in 1..L
    BY <1>2, <1>8, <2>1, <2>2
  <2>3. CASE i = L + 1 /\ j = L + 1
    BY <2>3
  <2>4. CASE i \in 1..L /\ j = L + 1 /\ unfinished
    BY <1>2, <1>8, <2>1, <2>4
  <2>5. CASE i = L + 1 /\ j \in 1..L /\ unfinished
    BY <1>2, <1>8, <2>1, <2>5
  <2> QED
    BY <1>8, <2>2, <2>3, <2>4, <2>5
<1>13. completed' = {q \in All' : remaining_time'[q] = 0}
  <2>1. completed = {q \in All : remaining_time[q] = 0}
    BY <1>0 DEF QueueInv
  <2>2. unfinished <=> remaining_time[p] - exec # 0
    BY <1>1, <1>4 DEF unfinished
  <2>3. p \notin completed
    BY <1>1, <2>1
  <2>4. CASE unfinished
    BY <1>1, <1>5, <1>6, <2>1, <2>2, <2>3, <2>4 DEF unfinished
  <2>5. CASE ~unfinished
    BY <1>1, <1>5, <1>6, <2>1, <2>2, <2>3, <2>5 DEF unfinished
  <2> QED
    BY <2>4, <2>5
<1>14. ASSUME NEW i \in 1..Len(ready_queue')
       PROVE  /\ remaining_time'[ready_queue'[i]] > 0
              /\ Arrival(ready_queue'[i]) <= current_time'
              /\ current_time' - since'[ready_queue'[i]] <= (N - i) * Quantum
  <2>1. CASE i \in 1..Len(rest)
    <3> DEFINE q == rest[i]
    <3>1. /\ i \in 1..L /\ ready_queue'[i] = q /\ q # p
          /\ i + 1 \in 1..Len(ready_queue) /\ q = ready_queue[i + 1]
          /\ start = current_time
      BY <1>2, <1>3, <1>8, <2>1
    <3>2. /\ remaining_time[q] > 0 /\ Arrival(q) <= current_time
          /\ current_time - since[q] <= (Len(processes) - (i + 1)) * Quantum
      BY <1>0, <3>1 DEF QueueInv
    <3>3. q \in All
      <4>1. rest \in Seq(All)
        BY DEF Turn
      <4> QED
        BY <2>1, <4>1
    <3> HIDE DEF q
    <3>4. i \in Nat /\ i <= N - 1 /\ N - (i + 1) \in Nat /\ N - i = (N - (i + 1)) + 1
      BY <1>2, <1>4, <3>1
    <3>5. /\ (N - i) * Quantum = (N - (i + 1)) * Quantum + Quantum
          /\ (N - (i + 1)) * Quantum \in Nat
      BY <1>4, <3>4, Turns
    <3>6. remaining_time'[q] = remaining_time[q] /\ since'[q] = since[q]
      BY <1>5, <3>1, <3>3
    <3>7. since[q] \in Nat /\ Arrival(q) \in Nat
      BY <1>4, <3>3
    <3>8. end - since[q] <= (N - i) * Quantum
      <4> DEFINE more == (N - (i + 1)) * Quantum
      <4>1. current_time - since[q] <= more /\ more \in Nat
        BY <3>2, <3>5 DEF N
      <4>2. (N - i) * Quantum = more + Quantum
        BY <3>5
      <4> HIDE DEF more
      <4>3. end = current_time + exec
        BY <3>1
      <4> HIDE DEF end
      <4>4. end - since[q] <= more + Quantum
        BY <1>1, <1>4, <3>7, <4>1, <4>3
      <4> QED
        BY <4>2, <4>4
    <3>9. Arrival(q) <= end
      BY <1>1, <1>4, <3>1, <3>2, <3>7
    <3> QED
      BY <1>1, <3>1, <3>2, <3>6, <3>8, <3>9
  <2>2. CASE i \in 1..L /\ list[i] \in S
    <3> DEFINE q == list[i]
    <3>1. /\ q \in All /\ q # p /\ remaining_time[q] > 0 /\ Arrival(q) <= end
          /\ ready_queue'[i] = q /\ \A j \in 1..Len(ready_queue) : ready_queue[j] # q
      BY <1>8, <1>10, <1>11, <2>2
    <3> HIDE DEF q
    <3>2. /\ since[q] = Arrival(q)
          /\ \/ current_time < Arrival(q)
             \/ current_time = 0 /\ Arrival(q) = 0 /\ ready_queue # <<>>
      BY <1>9, <3>1
    <3>3. remaining_time'[q] = remaining_time[q] /\ since'[q] = since[q]
      BY <1>5, <3>1
    <3>4. start <= Arrival(q)
      <4>1. CASE ready_queue # <<>> /\ start = current_time
        BY <1>4, <3>1, <3>2, <4>1
      <4>2. CASE /\ ready_queue = <<>>
                 /\ \A x \in All : remaining_time[x] > 0 => start <= Arrival(x)
        BY <3>1, <4>2
      <4> QED
        BY <4>1, <4>2 DEF Turn
    <3>5. end - since[q] <= exec
      <4>1. Arrival(q) \in Nat
        BY <1>4, <3>1
      <4> QED
        BY <1>1, <3>2, <3>4, <4>1
    <3>6. exec <= (N - i) * Quantum
      <4>1. i \in Nat /\ i <= N - 1 /\ N - (i + 1) \in Nat /\ N - i = (N - (i + 1)) + 1
        BY <1>2, <1>4, <2>2
      <4>2. (N - i) * Quantum >= Quantum /\ (N - i) * Quantum \in Nat
        BY <1>4, <4>1, Turns
      <4> DEFINE more == (N - i) * Quantum
      <4>3. more >= Quantum /\ more \in Nat
        BY <4>2
      <4> HIDE DEF more
      <4>4. exec <= more
        BY <1>1, <1>4, <4>3
      <4> QED
        BY <4>4 DEF more
    <3>7. end - since[q] <= (N - i) * Quantum
      <4>1. end - since[q] \in Int
        BY <1>1, <1>4, <3>1
      <4>2. (N - i) * Quantum \in Int
        BY <1>2, <1>4
      <4> QED
        BY <1>1, <3>5, <3>6, <4>1, <4>2
    <3> QED
      BY <1>1, <3>1, <3>3, <3>7
  <2>3. CASE i = L + 1 /\ unfinished
    <3>1. ready_queue'[i] = p
      BY <1>8, <2>3
    <3>2. remaining_time'[p] = remaining_time[p] - exec /\ since'[p] = end
      BY <1>1, <1>5
    <3>3. remaining_time[p] - exec > 0
      BY <1>1, <1>4, <2>3 DEF unfinished
    <3>4. Arrival(p) <= end
      <4>1. Slice(p, start, exec)
        BY TurnSlice
      <4>2. Arrival(p) <= start /\ Arrival(p) \in Nat
        BY <1>1, <1>4, <4>1 DEF Slice
      <4> QED
        BY <1>1, <4>2
    <3>5. N - i \in Nat
      BY <1>2, <1>4, <2>3
    <3>6. (N - i) * Quantum \in Nat
      BY <1>4, <3>5, Turns
    <3>7. end - end <= (N - i) * Quantum
      BY <1>1, <3>6
    <3> QED
      BY <1>1, <3>1, <3>2, <3>3, <3>4, <3>7
  <2> QED
    BY <1>3, <1>8, <2>1, <2>2, <2>3
<1>15. ASSUME NEW q \in All, remaining_time'[q] > 0,
              \A i \in 1..Len(ready_queue') : ready_queue'[i] # q
       PROVE  since'[q] = Arrival(q) /\ current_time' < Arrival(q)
  <2>1. q # p
    <3>1. SUFFICES ASSUME q = p PROVE FALSE
      OBVIOUS
    <3>2. unfinished
      BY <1>1, <1>4, <1>5, <1>15, <3>1 DEF unfinished
    <3> QED
      BY <1>8, <1>15, <3>1, <3>2
  <2>2. remaining_time[q] > 0 /\ since'[q] = since[q]
    BY <1>5, <1>15, <2>1
  <2>3. \A i \in 1..L : list[i] # q
    BY <1>8, <1>15
  <2>4. q \notin S /\ \A j \in 1..Len(rest) : rest[j] # q
    BY <1>3, <2>3
  <2>5. ~(Arrival(q) <= end)
    <3>1. rest \in Seq(All)
      BY DEF Turn
    <3>2. q \notin ToSet(rest)
      BY <2>4, <3>1 DEF ToSet
    <3> QED
      BY <2>1, <2>2, <2>4, <3>2 DEF S, Coming1
  <2>6. since[q] = Arrival(q)
    BY <1>9, <1>10, <2>1, <2>2, <2>4
  <2> QED
    BY <1>1, <1>4, <2>2, <2>5, <2>6
<1> QED
  BY <1>6, <1>12, <1>13, <1>14, <1>15 DEF QueueInv, N

LEMMA RoundRobinKeeps ==
  ASSUME CPUInv, RoundRobin
  PROVE  CPUInv'
<1>0. /\ CPUTypeOK /\ WorkInv /\ PolicyInv /\ QueueInv /\ SchedulesAreReal
      /\ Running("RoundRobin")
  BY DEF CPUInv, RoundRobin
<1>1. PICK p, rest, arrived, start, exec : Turn(p, rest, arrived, start, exec)
  BY TurnTaken
<1> DEFINE list == rest \o arrived
<1>2. /\ p \in All /\ exec \in Nat /\ exec <= remaining_time[p] /\ start \in Nat
      /\ remaining_time' = [remaining_time EXCEPT ![p] = remaining_time[p] - exec]
      /\ ready_queue' = list \o (IF remaining_time[p] > exec THEN <<p>> ELSE <<>>)
      /\ since' = [since EXCEPT ![p] = start + exec]
      /\ processes' = processes /\ results' = results /\ arrival_order' = arrival_order
  BY <1>1 DEF Turn
<1>3. Slice(p, start, exec)
  BY <1>0, <1>1, TurnSlice
<1>4. CPUTypeOK'
  <2>1. remaining_time \in [All -> Nat] /\ since \in [All -> Nat]
    BY <1>0 DEF CPUTypeOK
  <2>2. remaining_time' \in [All -> Nat] /\ since' \in [All -> Nat]
    <3>1. remaining_time[p] - exec \in Nat /\ start + exec \in Nat
      BY <1>2, <2>1
    <3> QED
      BY <1>2, <2>1, <3>1
  <2>3. ready_queue' \in Seq(All)
    <3>1. list \in Seq(All)
      BY <1>0, <1>1, QueueAhead
    <3>2. <<p>> \in Seq(All) /\ <<>> \in Seq(All)
      BY <1>2
    <3> HIDE DEF list
    <3> QED
      BY <1>2, <3>1, <3>2, ConcatProperties
  <2> QED
    BY <1>0, <1>2, <1>3, <2>2, <2>3, SliceTypes
<1>5. WorkInv'
  BY <1>0, <1>3, SliceKeepsWork
<1>6. PolicyInv'
  <2>1. /\ ~Running("FCFS")' /\ ~Running("SJF")' /\ ~Running("PriorityScheduling")'
        /\ ~Running("SRTF")'
    BY <1>0, <1>2, OnlyOnePolicy, FrameRunning
  <2>2. Len(results)' >= 3 => \A q \in All' : Burst(q)' > 0
    BY <1>0, <1>2, Frame DEF PolicyInv
  <2> QED
    BY <2>1, <2>2 DEF PolicyInv
<1>7. QueueInv'
  BY <1>0, <1>1, TurnKeepsQueue
<1> QED
  BY <1>0, <1>2, <1>4, <1>5, <1>6, <1>7, RealStays DEF CPUInv

LEMMA CPUStutters ==
  ASSUME CPUInv, UNCHANGED cpuVars
  PROVE  CPUInv'
<1>1. /\ processes' = processes /\ results' = results /\ current_time' = current_time
      /\ remaining_time' = remaining_time /\ completion_time' = completion_time
      /\ completed' = completed /\ arrival_order' = arrival_order
      /\ ready_queue' = ready_queue /\ since' = since
  BY DEF cpuVars
<1>2. /\ All' = All /\ Bursts' = Bursts /\ \A a : From(a)' = From(a)
      /\ \A q : Arrival(q)' = Arrival(q) /\ Burst(q)' = Burst(q)
      /\ \A policy : Running(policy)' <=> Running(policy)
  BY <1>1, Frame, FrameRunning
<1>3. served' = served /\ Waiting' = Waiting /\ \A a, q : Before(a, q)' = Before(a, q)
  BY <1>1, <1>2 DEF served, Waiting, Before
<1>4. CPUTypeOK'
  BY <1>1, <1>2 DEF CPUInv, CPUTypeOK, ArrivalOrders
<1>5. IdleNow' = IdleNow /\ \A r : BusySince(r)' = BusySince(r)
  BY <1>1, <1>2, <1>3 DEF IdleNow, BusySince, Total
<1>6. WorkInv'
  BY <1>1, <1>2, <1>3, <1>5 DEF CPUInv, WorkInv, Total
<1>7. PolicyInv'
  BY <1>1, <1>2 DEF CPUInv, PolicyInv
<1>8. Running("RoundRobin")' => QueueInv'
  BY <1>1, <1>2 DEF CPUInv, QueueInv
<1>9. SchedulesAreReal'
  BY <1>1, RealStays DEF CPUInv
<1> QED
  BY <1>4, <1>6, <1>7, <1>8, <1>9 DEF CPUInv

\* What the steps of the policies keep: the work that has been done fits into
\* the time that has gone by, and round robin's queue keeps its promise.
THEOREM CPUInvHolds == CPUSpec => []CPUInv
<1>1. CPUInit => CPUInv
  BY CPUInvInit
<1>2. CPUInv /\ [CPUNext]_cpuVars => CPUInv'
  BY FCFSKeeps, SJFKeeps, SRTFKeeps, RoundRobinKeeps, PriorityKeeps, TickKeeps,
     EndPolicyKeeps, CPUStutters DEF CPUNext
<1> QED
  BY <1>1, <1>2, PTL DEF CPUSpec

\* Every policy reports completion times that one CPU, never idle while somebody
\* is there, could have produced (the five policy loops).
THEOREM SchedulesAreRealHolds == CPUSpec => []SchedulesAreReal
<1>1. CPUInv => SchedulesAreReal
  BY DEF CPUInv
<1> QED
  BY <1>1, CPUInvHolds, PTL

\* Round robin makes nobody wait longer than one quantum for each other process
\* (lines 198-240).
THEOREM TurnWithinHolds == CPUSpec => []TurnWithin
<1>1. CPUInv => TurnWithin
  <2>1. SUFFICES ASSUME CPUInv, Running("RoundRobin"), NEW p \in Present
                 PROVE  current_time - since[p] <= (Cardinality(All) - 1) * Quantum
    BY DEF TurnWithin
  <2>2. CPUTypeOK /\ QueueInv
    BY <2>1 DEF CPUInv
  <2> DEFINE N == Len(processes)
  <2>3. /\ Cardinality(All) = N /\ N \in Nat \ {0} /\ current_time \in Nat
        /\ remaining_time \in [All -> Nat] /\ since \in [All -> Nat]
        /\ Quantum \in Nat /\ \A q \in All : Arrival(q) \in Nat
    BY <2>2, CPUFacts, CPUAssumption DEF CPUTypeOK
  <2>4. p \in All /\ Arrival(p) <= current_time /\ remaining_time[p] > 0
    BY <2>1, <2>2, <2>3 DEF Present, QueueInv
  <2>5. (N - 1) * Quantum \in Nat
    <3>1. N - 1 \in Nat
      BY <2>3
    <3> QED
      BY <2>3, <3>1, Turns
  <2>6. CASE \E i \in 1..Len(ready_queue) : ready_queue[i] = p
    <3>1. PICK i \in 1..Len(ready_queue) : ready_queue[i] = p
      BY <2>6
    <3>2. current_time - since[p] <= (N - i) * Quantum /\ remaining_time[p] > 0
      BY <2>2, <3>1 DEF QueueInv
    <3>3. i - 1 \in Nat /\ i \in Nat
      BY <2>2, <3>1 DEF CPUTypeOK
    <3>4. (N - 1) * Quantum = (N - i) * Quantum + (i - 1) * Quantum
      <4>1. N - 1 = (N - i) + (i - 1) /\ N - i \in Int /\ i - 1 \in Int
        BY <2>3, <3>3
      <4>2. \A a, b, k \in Int : (a + b) * k = a * k + b * k
        OBVIOUS
      <4> QED
        BY <2>3, <4>1, <4>2
    <3>5. (i - 1) * Quantum \in Nat
      BY <2>3, <3>3, Turns
    <3>6. (N - i) * Quantum \in Int
      BY <2>3, <3>3
    <3>7. current_time - since[p] \in Int
      BY <2>3, <2>4
    <3> DEFINE a == (N - i) * Quantum
               b == (i - 1) * Quantum
    <3>8. current_time - since[p] <= a /\ a \in Int /\ b \in Nat /\ (N - 1) * Quantum = a + b
      BY <3>2, <3>4, <3>5, <3>6
    <3> HIDE DEF a, b
    <3>9. current_time - since[p] <= a + b
      BY <3>7, <3>8
    <3> QED
      BY <2>3, <3>8, <3>9
  <2>7. CASE \A i \in 1..Len(ready_queue) : ready_queue[i] # p
    <3>1. since[p] = Arrival(p) /\ (current_time < Arrival(p)
                                    \/ (current_time = 0 /\ Arrival(p) = 0))
      BY <2>2, <2>4, <2>7 DEF QueueInv
    <3>2. current_time - since[p] = 0
      BY <2>3, <2>4, <3>1
    <3> QED
      BY <2>3, <2>5, <3>2
  <2> QED
    BY <2>6, <2>7
<1> QED
  BY <1>1, CPUInvHolds, PTL
=============================================================================
