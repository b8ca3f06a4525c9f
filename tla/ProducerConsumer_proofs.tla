------------------------ MODULE ProducerConsumer_proofs ------------------------
(***************************************************************************)
(* The ring buffer of ProducerConsumer for any finite sets of producers    *)
(* and consumers, any size and any numbers of rounds: it is a bounded      *)
(* queue, and no wakeup is lost.                                           *)
(***************************************************************************)
EXTENDS ProducerConsumer, FiniteSetTheorems, SequenceTheorems, TLAPS

-----------------------------------------------------------------------------
\* The index that is reached when a sum of indices wraps, once at most.
Wrap(x) == IF x < Size THEN x ELSE x - Size

LEMMA WrapIsMod ==
  ASSUME NEW x \in 0..2 * Size - 1
  PROVE  x % Size = Wrap(x)
  BY SizeAssumption, SMTT(30) DEF Wrap

-----------------------------------------------------------------------------
\* Who is between lock and unlock owns the mutex; in is where out gets by
\* advancing count times; and after done nobody moves.
MutexInv == \A t \in Threads : pc[t] = "testing" <=> mtx = t

RingInv == in = Wrap(out + count)

DoneInv == done => \A t \in Threads : Finished(t)

RoundInv ==
  /\ round \in [Threads -> Nat]
  /\ \A t \in Threads : pc[t] # "outside" => round[t] < Rounds(t)

IInv == TypeOK /\ MutexInv /\ RingInv /\ DoneInv /\ RoundInv

\* notify_one moves t out of its round and at most one waiter to "woken".
LEMMA NotifyingMoves ==
  ASSUME TypeOK, NEW t \in Threads, NEW group \in SUBSET Threads,
         pc[t] = "testing", EndRoundNotifying(t, group)
  PROVE  /\ pc' \in [Threads -> PC]
         /\ pc'[t] = "outside"
         /\ \A u \in Threads \ {t} :
              pc'[u] = pc[u] \/ (u \in group /\ pc[u] = "waiting" /\ pc'[u] = "woken")
  BY DEF TypeOK, PC, EndRoundNotifying, WaitingOn

LEMMA IInvInit == Init => IInv
<1> SUFFICES ASSUME Init PROVE IInv
  OBVIOUS
<1>1. TypeOK
  <2>1. /\ in \in 0..Size - 1 /\ out \in 0..Size - 1 /\ count \in 0..Size
        /\ buffer \in [0..Size - 1 -> Items] /\ mtx = NoThread /\ done = FALSE
    BY SizeAssumption DEF Init
  <2>2. pc \in [Threads -> PC]
    BY DEF Init, PC
  <2>3. \A t \in Threads : round[t] \in 0..Rounds(t)
    BY RoundsAssumption DEF Init, Rounds
  <2> QED
    BY <2>1, <2>2, <2>3 DEF TypeOK
<1>2. MutexInv /\ RingInv /\ DoneInv /\ RoundInv
  BY ThreadsAssumption, SizeAssumption
  DEF Init, MutexInv, RingInv, DoneInv, RoundInv, Wrap
<1> QED
  BY <1>1, <1>2 DEF IInv

LEMMA IInvNext == IInv /\ [Next]_vars => IInv'
<1> SUFFICES ASSUME IInv, [Next]_vars
             PROVE  IInv'
  OBVIOUS
<1>0. TypeOK /\ MutexInv /\ RingInv /\ DoneInv /\ RoundInv
  BY DEF IInv
<1> USE <1>0
<1>1. CASE UNCHANGED vars
  BY <1>1 DEF vars, IInv, TypeOK, MutexInv, RingInv, DoneInv, RoundInv,
      Finished
<1>2. ASSUME NEW t \in Threads, Lock(t)
      PROVE  IInv'
  <2>1. TypeOK' /\ RoundInv'
    BY <1>2 DEF RoundInv, Lock, ring, TypeOK, PC
  <2>2. MutexInv'
    BY <1>2, ThreadsAssumption DEF Lock, TypeOK, MutexInv
  <2>3. ~done
    BY <1>2, RoundsAssumption DEF Lock, DoneInv, Finished, TypeOK, Rounds
  <2> QED
    BY <1>2, <2>1, <2>2, <2>3 DEF IInv, Lock, ring, RingInv, DoneInv
<1>3. ASSUME NEW t \in Threads, Block(t)
      PROVE  IInv'
  <2>1. TypeOK' /\ RoundInv'
    BY <1>3 DEF RoundInv, MutexInv, Block, ring, TypeOK, PC
  <2>2. pc[t] = "testing" /\ ~done
    BY <1>3 DEF Block, MutexInv, DoneInv, Finished
  <2>3. MutexInv'
    BY <1>3, <2>2, ThreadsAssumption DEF Block, TypeOK, MutexInv
  <2> QED
    BY <1>3, <2>1, <2>2, <2>3 DEF IInv, Block, ring, RingInv, DoneInv
<1>4. ASSUME NEW t \in Threads, SpuriousWakeup(t)
      PROVE  IInv'
  <2>1. TypeOK' /\ MutexInv' /\ RoundInv'
    BY <1>4 DEF RoundInv, SpuriousWakeup, ring, TypeOK, PC, MutexInv
  <2>2. ~done
    BY <1>4 DEF SpuriousWakeup, DoneInv, Finished
  <2> QED
    BY <1>4, <2>1, <2>2 DEF IInv, SpuriousWakeup, ring, RingInv, DoneInv
\* The end of a round, with or without a notification.
<1>5. ASSUME NEW t \in Threads, NEW group \in SUBSET Threads,
             mtx = t, EndRoundNotifying(t, group),
             mtx' = NoThread, round' = [round EXCEPT ![t] = @ + 1], done' = done,
             buffer' \in [0..Size - 1 -> Items],
             in' \in 0..Size - 1, out' \in 0..Size - 1, count' \in 0..Size
      PROVE  TypeOK' /\ MutexInv' /\ DoneInv' /\ RoundInv'
  <2>1. pc[t] = "testing" /\ ~done
    BY <1>5 DEF MutexInv, DoneInv, Finished
  <2>2. /\ pc' \in [Threads -> PC] /\ pc'[t] = "outside"
        /\ \A u \in Threads \ {t} :
             pc'[u] # "testing" /\ (pc'[u] # "outside" => pc[u] # "outside")
    BY <1>5, <2>1, NotifyingMoves DEF MutexInv
  <2>3. \A u \in Threads : round'[u] \in 0..Rounds(u)
    BY <1>5, <2>1, RoundsAssumption DEF TypeOK, Rounds, RoundInv
  <2>4. RoundInv'
    BY <1>5, <2>2 DEF TypeOK, RoundInv, Rounds
  <2> QED
    BY <1>5, <2>1, <2>2, <2>3, <2>4, ThreadsAssumption DEF TypeOK, MutexInv, DoneInv
<1>6. ASSUME NEW t \in Threads, NEW item \in Items, Produce(t, item)
      PROVE  IInv'
  <2>1. /\ buffer' \in [0..Size - 1 -> Items]
        /\ in' = Wrap(in + 1) /\ in' \in 0..Size - 1
        /\ out' = out /\ count' = count + 1 /\ count' \in 0..Size
    <3>1. in + 1 \in 0..2 * Size - 1 /\ Wrap(in + 1) \in 0..Size - 1
      BY SizeAssumption DEF TypeOK, Wrap
    <3>2. in' = Wrap(in + 1)
      BY <1>6, <3>1, WrapIsMod DEF Produce
    <3>3. count' \in 0..Size
      BY <1>6, SizeAssumption DEF Produce, TypeOK
    <3> QED
      BY <1>6, <3>1, <3>2, <3>3 DEF Produce, TypeOK
  <2>2. RingInv'
    BY <2>1, SizeAssumption DEF RingInv, Wrap, TypeOK
  <2> QED
    BY <1>5, <1>6, <2>1, <2>2 DEF Produce, IInv, Threads, TypeOK
<1>7. ASSUME NEW t \in Threads, Consume(t)
      PROVE  IInv'
  <2>1. count > 0
    BY <1>7 DEF Consume, MutexInv, DoneInv, Finished
  <2>2. /\ out' = Wrap(out + 1) /\ out' \in 0..Size - 1
        /\ in' = in /\ buffer' = buffer /\ count' = count - 1 /\ count' \in 0..Size
    <3>1. out + 1 \in 0..2 * Size - 1 /\ Wrap(out + 1) \in 0..Size - 1
      BY SizeAssumption DEF TypeOK, Wrap
    <3>2. out' = Wrap(out + 1)
      BY <1>7, <2>1, <3>1, WrapIsMod DEF Consume
    <3>3. count' \in 0..Size
      BY <1>7, <2>1, SizeAssumption DEF Consume, TypeOK
    <3> QED
      BY <1>7, <2>1, <3>1, <3>2, <3>3 DEF Consume, TypeOK
  <2>3. RingInv'
    BY <2>1, <2>2, SizeAssumption DEF RingInv, Wrap, TypeOK
  <2> QED
    BY <1>5, <1>7, <2>1, <2>2, <2>3 DEF Consume, IInv, Threads, TypeOK
<1>8. CASE Finish
  <2>1. pc' = pc
    BY <1>8 DEF Finish, TypeOK, WaitingOn, Finished, Threads
  <2> QED
    BY <1>8, <2>1 DEF Finish, IInv, TypeOK, MutexInv, RingInv, DoneInv, RoundInv, Finished
<1> QED
  BY <1>1, <1>2, <1>3, <1>4, <1>6, <1>7, <1>8 DEF Next, Step, Completed

\* The state of the ring, the mutex and the threads is what the code means it to
\* be, for every instance.
THEOREM RingTyped == Spec => []TypeOK
  BY IInvInit, IInvNext, PTL DEF Spec, IInv

LEMMA IInvHolds == Spec => []IInv
  BY IInvInit, IInvNext, PTL DEF Spec

-----------------------------------------------------------------------------
(* No wakeup is lost.                                                      *)

\* What is there for the threads of a group to take.
Enough(group, n) == WaitingOn(group) # {} => n <= Cardinality(Coming(group))

LEMMA ComingFinite ==
  ASSUME NEW group \in {Producers, Consumers}
  PROVE  /\ IsFiniteSet(Coming(group)) /\ Cardinality(Coming(group)) \in Nat
         /\ IsFiniteSet(Coming(group)') /\ Cardinality(Coming(group)') \in Nat
<1>1. IsFiniteSet(group)
  BY ThreadsAssumption
<1>2. Coming(group) \subseteq group /\ Coming(group)' \subseteq group
  BY DEF Coming
<1>3. IsFiniteSet(Coming(group)) /\ IsFiniteSet(Coming(group)')
  BY <1>1, <1>2, FS_Subset
<1> QED
  BY <1>3, FS_CardinalityType

\* More of a group are on their way and no more asleep.
LEMMA EnoughGrows ==
  ASSUME NEW group \in {Producers, Consumers}, NEW n \in Int, Enough(group, n),
         Coming(group) \subseteq Coming(group)',
         WaitingOn(group)' \subseteq WaitingOn(group)
  PROVE  WaitingOn(group)' # {} => n <= Cardinality(Coming(group)')
<1>1. Cardinality(Coming(group)) <= Cardinality(Coming(group)')
  BY ComingFinite, FS_Subset
<1> QED
  BY <1>1, ComingFinite DEF Enough

\* One of the group ends its round, having taken one.
LEMMA EnoughAfterTaking ==
  ASSUME NEW group \in {Producers, Consumers}, NEW n \in Int, Enough(group, n),
         NEW t \in Coming(group),
         Coming(group)' = Coming(group) \ {t},
         WaitingOn(group)' = WaitingOn(group)
  PROVE  WaitingOn(group)' # {} => n - 1 <= Cardinality(Coming(group)')
<1>1. Cardinality(Coming(group)') = Cardinality(Coming(group)) - 1
  BY ComingFinite, FS_RemoveElement
<1> QED
  BY <1>1, ComingFinite DEF Enough

\* There is one more, and notify_one has woken somebody if it could.
LEMMA EnoughAfterNotifying ==
  ASSUME TypeOK, NEW group \in {Producers, Consumers}, NEW n \in Int,
         Enough(group, n),
         NEW t \in Threads \ group, EndRoundNotifying(t, group)
  PROVE  WaitingOn(group)' # {} => n + 1 <= Cardinality(Coming(group)')
<1>1. CASE WaitingOn(group) = {} /\ pc' = [pc EXCEPT ![t] = "outside"]
  BY <1>1 DEF WaitingOn, TypeOK, Threads
<1>2. ASSUME NEW w \in WaitingOn(group),
             pc' = [pc EXCEPT ![t] = "outside", ![w] = "woken"]
      PROVE  WaitingOn(group)' # {} => n + 1 <= Cardinality(Coming(group)')
  <2>1. w \notin Coming(group) /\ Coming(group)' = Coming(group) \union {w}
    BY <1>2 DEF WaitingOn, Coming, TypeOK, Threads
  <2>2. Cardinality(Coming(group)') = Cardinality(Coming(group)) + 1
    BY <2>1, ComingFinite, FS_AddElement
  <2> QED
    BY <1>2, <2>2, ComingFinite DEF Enough
<1> QED
  BY <1>1, <1>2 DEF EndRoundNotifying

LEMMA NoLostWakeupNext ==
  IInv /\ NoLostWakeup /\ [Next]_vars => NoLostWakeup'
<1> SUFFICES ASSUME IInv, NoLostWakeup, [Next]_vars
             PROVE  NoLostWakeup'
  OBVIOUS
<1>0. /\ TypeOK /\ MutexInv /\ DoneInv
      /\ ~done => Enough(Consumers, count)
      /\ Enough(Producers, Size - count)
      /\ count \in Int /\ Size - count \in Int
  BY SizeAssumption DEF IInv, NoLostWakeup, Enough, TypeOK
<1> USE <1>0
<1>1. CASE UNCHANGED vars
  BY <1>1 DEF vars, NoLostWakeup, WaitingOn, Coming
<1>2. ASSUME NEW t \in Threads, Lock(t) \/ SpuriousWakeup(t)
      PROVE  NoLostWakeup'
  <2>1. ASSUME NEW group \in {Producers, Consumers}
        PROVE  /\ Coming(group) \subseteq Coming(group)'
               /\ WaitingOn(group)' \subseteq WaitingOn(group)
    BY <1>2 DEF Lock, SpuriousWakeup, Coming, WaitingOn, TypeOK, Threads
  <2>2. UNCHANGED <<count, done>>
    BY <1>2 DEF Lock, SpuriousWakeup, ring
  <2> QED
    BY <2>1, <2>2, EnoughGrows DEF NoLostWakeup
<1>3. ASSUME NEW t \in Threads, Block(t)
      PROVE  NoLostWakeup'
  <2>1. UNCHANGED <<count, done>> /\ pc' = [pc EXCEPT ![t] = "waiting"]
    BY <1>3 DEF Block, ring
  <2>2. ASSUME NEW group \in {Producers, Consumers}, t \notin group
        PROVE  Coming(group)' = Coming(group) /\ WaitingOn(group)' = WaitingOn(group)
    BY <2>1, <2>2 DEF Coming, WaitingOn, TypeOK, Threads
  <2>3. CASE t \in Producers
    <3>1. count = Size /\ t \notin Consumers
      BY <1>3, <2>3, SizeAssumption, ThreadsAssumption DEF Block, TypeOK
    <3> QED
      BY <2>1, <2>2, <3>1, SizeAssumption, ComingFinite DEF NoLostWakeup, Enough
  <2>4. CASE t \in Consumers
    <3>1. count = 0 /\ t \notin Producers
      BY <1>3, <2>4, ThreadsAssumption DEF Block, TypeOK
    <3> QED
      BY <2>1, <2>2, <3>1, ComingFinite DEF NoLostWakeup, Enough
  <2> QED
    BY <2>3, <2>4 DEF Threads
<1>4. ASSUME NEW t \in Threads, NEW group \in {Producers, Consumers},
             t \in group, pc[t] = "testing",
             NEW others \in {Producers, Consumers}, t \notin others, others # group,
             EndRoundNotifying(t, others)
      PROVE  /\ t \in Coming(group) /\ Coming(group)' = Coming(group) \ {t}
             /\ WaitingOn(group)' = WaitingOn(group)
  BY <1>4, ThreadsAssumption
  DEF EndRoundNotifying, Coming, WaitingOn, TypeOK, Threads
<1>5. ASSUME NEW t \in Threads, NEW item \in Items, Produce(t, item)
      PROVE  NoLostWakeup'
  <2>1. /\ t \in Producers /\ t \notin Consumers /\ pc[t] = "testing"
        /\ count' = count + 1 /\ done' = done
        /\ EndRoundNotifying(t, Consumers)
    BY <1>5, ThreadsAssumption DEF Produce, MutexInv
  <2>2. WaitingOn(Producers)' # {} => Size - count - 1 <= Cardinality(Coming(Producers)')
    BY <1>4, <2>1, EnoughAfterTaking
  <2>3. ~done /\ WaitingOn(Consumers)' # {} => count + 1 <= Cardinality(Coming(Consumers)')
    BY <2>1, EnoughAfterNotifying
  <2> QED
    BY <2>1, <2>2, <2>3, SizeAssumption DEF NoLostWakeup, TypeOK
<1>6. ASSUME NEW t \in Threads, Consume(t)
      PROVE  NoLostWakeup'
  <2>1. /\ t \in Consumers /\ t \notin Producers /\ pc[t] = "testing"
        /\ count' = count - 1 /\ done' = done /\ ~done
        /\ EndRoundNotifying(t, Producers)
    BY <1>6, ThreadsAssumption DEF Consume, MutexInv, DoneInv, Finished
  <2>2. WaitingOn(Consumers)' # {} => count - 1 <= Cardinality(Coming(Consumers)')
    BY <1>4, <2>1, EnoughAfterTaking
  <2>3. WaitingOn(Producers)' # {} => Size - count + 1 <= Cardinality(Coming(Producers)')
    BY <2>1, EnoughAfterNotifying
  <2> QED
    BY <2>1, <2>2, <2>3, SizeAssumption DEF NoLostWakeup, TypeOK
<1>7. CASE Finish
  <2>1. WaitingOn(Producers)' = {} /\ WaitingOn(Consumers)' = {}
    BY <1>7 DEF Finish, WaitingOn, Finished, Threads, TypeOK
  <2> QED
    BY <2>1 DEF NoLostWakeup
<1> QED
  BY <1>1, <1>2, <1>3, <1>5, <1>6, <1>7 DEF Next, Step, Completed

\* One notify_one per round is enough, for any numbers of producers and
\* consumers: nobody sleeps on unless somebody of the same group is on the way
\* to every item or slot that is there, whoever is woken and whoever overtakes.
THEOREM WakeupsSuffice == Spec => []NoLostWakeup
<1>1. Init => NoLostWakeup
  BY DEF Init, NoLostWakeup, WaitingOn, Threads
<1> QED
  BY <1>1, NoLostWakeupNext, IInvHolds, PTL DEF Spec

-----------------------------------------------------------------------------
(* The ring is a bounded queue.                                            *)

\* The slot of the i-th item in the ring.
Slot(i) == Wrap(out + i - 1)

\* Content is the filled part of the ring, oldest item first.
ContentIsRing ==
  /\ Content \in Seq(Items) /\ Len(Content) = count
  /\ \A i \in 1..count : Slot(i) \in 0..Size - 1 /\ Content[i] = buffer[Slot(i)]

LEMMA ContentFacts == TypeOK => ContentIsRing
<1> SUFFICES ASSUME TypeOK
             PROVE  ContentIsRing
  OBVIOUS
<1>1. \A i \in 1..count : /\ out + i - 1 \in 0..2 * Size - 1
                         /\ Slot(i) \in 0..Size - 1
  BY SizeAssumption DEF TypeOK, Slot, Wrap
<1>2. \A i \in 1..count : (out + i - 1) % Size = Slot(i)
  BY <1>1, WrapIsMod DEF Slot
<1>3. Content \in [1..count -> Items]
  BY <1>1, <1>2 DEF Content, TypeOK
<1>4. count \in Nat
  BY SizeAssumption DEF TypeOK
<1>5. Content \in Seq(Items) /\ Len(Content) = count
  BY <1>3, <1>4
<1>6. \A i \in 1..count : Content[i] = buffer[Slot(i)]
  BY <1>2 DEF Content
<1> QED
  BY <1>1, <1>5, <1>6 DEF ContentIsRing

LEMMA ContentFactsNext == TypeOK' => ContentIsRing'
  BY ContentFacts, PTL

LEMMA ProducePuts ==
  ASSUME IInv, IInv', NEW t \in Threads, NEW item \in Items, Produce(t, item)
  PROVE  FIFO!Put(item)
<1>0. TypeOK /\ TypeOK' /\ RingInv
  BY DEF IInv
<1>1. /\ count < Size /\ count \in Nat /\ count' = count + 1
      /\ out' = out /\ out \in 0..Size - 1 /\ in = Slot(count + 1)
      /\ buffer' = [buffer EXCEPT ![in] = item]
  BY <1>0, SizeAssumption DEF Produce, TypeOK, RingInv, Slot
<1>2. /\ Content \in Seq(Items) /\ Len(Content) = count
      /\ \A i \in 1..count : Slot(i) \in 0..Size - 1 /\ Content[i] = buffer[Slot(i)]
  BY <1>0, ContentFacts DEF ContentIsRing
<1>3. /\ Content' \in Seq(Items) /\ Len(Content') = count + 1
      /\ \A i \in 1..count + 1 : Content'[i] = buffer'[Slot(i)']
  BY <1>0, <1>1, ContentFactsNext DEF ContentIsRing
<1>4. /\ Append(Content, item) \in Seq(Items)
      /\ Len(Append(Content, item)) = count + 1
      /\ \A i \in 1..count : Append(Content, item)[i] = Content[i]
      /\ Append(Content, item)[count + 1] = item
  BY <1>2, AppendProperties
<1>5. \A i \in 1..count + 1 : Slot(i)' = Slot(i)
  BY <1>1 DEF Slot, Wrap
<1>6. Content'[count + 1] = item
  BY <1>0, <1>1, <1>3, <1>5 DEF TypeOK
<1>7. ASSUME NEW i \in 1..count
      PROVE  Content'[i] = Content[i]
  <2>1. Slot(i) # in
    BY <1>1, SizeAssumption DEF Slot, Wrap
  <2>2. Content'[i] = buffer'[Slot(i)]
    BY <1>1, <1>3, <1>5
  <2>3. buffer'[Slot(i)] = buffer[Slot(i)]
    BY <1>0, <1>1, <1>2, <2>1 DEF TypeOK
  <2> QED
    BY <1>2, <2>2, <2>3
<1>8. Content' = Append(Content, item)
  <2>1. \A i \in 1..count + 1 : Content'[i] = Append(Content, item)[i]
    BY <1>1, <1>4, <1>6, <1>7
  <2> QED
    BY <1>3, <1>4, <2>1, SeqEqual
<1> QED
  BY <1>1, <1>2, <1>8 DEF FIFO!Put

LEMMA ConsumeGets ==
  ASSUME IInv, IInv', NEW t \in Threads, Consume(t)
  PROVE  FIFO!Get
<1>0. TypeOK /\ TypeOK'
  BY DEF IInv
<1>1. count > 0
  BY DEF Consume, IInv, MutexInv, DoneInv, Finished
<1>2. /\ count \in Nat \ {0} /\ count <= Size /\ count' = count - 1
      /\ out \in 0..Size - 1 /\ out' = Wrap(out + 1) /\ buffer' = buffer
  <2>1. /\ count \in Nat \ {0} /\ count <= Size
        /\ out \in 0..Size - 1 /\ out + 1 \in 0..2 * Size - 1
    BY <1>0, <1>1, SizeAssumption DEF TypeOK
  <2>2. count' = count - 1 /\ out' = (out + 1) % Size /\ buffer' = buffer
    BY <1>1 DEF Consume
  <2>3. (out + 1) % Size = Wrap(out + 1)
    BY <2>1, WrapIsMod
  <2> QED
    BY <2>1, <2>2, <2>3
<1>3. /\ Content \in Seq(Items) /\ Len(Content) = count
      /\ \A i \in 1..count : Content[i] = buffer[Slot(i)]
  BY <1>0, ContentFacts DEF ContentIsRing
<1>4. /\ Content' \in Seq(Items) /\ Len(Content') = count - 1
      /\ \A i \in 1..count - 1 : Content'[i] = buffer[Slot(i)']
  BY <1>0, <1>2, ContentFactsNext DEF ContentIsRing
<1>5. Content # <<>>
  BY <1>1, <1>3
<1>6. /\ Tail(Content) \in Seq(Items) /\ Len(Tail(Content)) = count - 1
      /\ \A i \in 1..count - 1 : Tail(Content)[i] = Content[i + 1]
  BY <1>3, <1>5, HeadTailProperties
<1>7. \A i \in 1..count - 1 : Slot(i)' = Slot(i + 1)
  BY <1>2, SizeAssumption DEF Slot, Wrap
<1>8. \A i \in 1..count - 1 : Content'[i] = Tail(Content)[i]
  BY <1>2, <1>3, <1>4, <1>6, <1>7
<1>9. Content' = Tail(Content)
  BY <1>4, <1>6, <1>8, SeqEqual
<1> QED
  BY <1>5, <1>9 DEF FIFO!Get

\* Every other step leaves the ring alone.
LEMMA StepRefines == IInv /\ IInv' /\ [Next]_vars => [FIFO!Next]_Content
<1> SUFFICES ASSUME IInv, IInv', [Next]_vars
             PROVE  [FIFO!Next]_Content
  OBVIOUS
<1>1. CASE UNCHANGED ring
  BY <1>1 DEF ring, Content
<1>2. ASSUME NEW t \in Threads, Consume(t)
      PROVE  FIFO!Next
  BY <1>2, ConsumeGets DEF FIFO!Next
<1>3. ASSUME NEW t \in Threads, NEW item \in Items, Produce(t, item)
      PROVE  FIFO!Next
  BY <1>3, ProducePuts DEF FIFO!Next
<1>4. ASSUME NEW t \in Threads, Lock(t) \/ Block(t) \/ SpuriousWakeup(t)
      PROVE  UNCHANGED ring
  BY <1>4 DEF Lock, Block, SpuriousWakeup
<1>5. Finish \/ UNCHANGED vars => UNCHANGED ring
  BY DEF Finish, vars, ring
<1> QED
  BY <1>1, <1>2, <1>3, <1>4, <1>5 DEF Next, Step, Completed

\* For any numbers of threads and any size, what the ring holds changes as a
\* bounded queue does: items are taken in the order in which they were put,
\* each once, and none is overwritten.
THEOREM RingIsFIFO == Spec => ImplementsFIFO
<1>1. Init => FIFO!Init
  <2> SUFFICES ASSUME Init PROVE Content = <<>>
    BY DEF FIFO!Init
  <2>1. TypeOK /\ count = 0
    BY IInvInit DEF IInv, Init
  <2> QED
    BY <2>1, ContentFacts, EmptySeq DEF ContentIsRing
<1> QED
  BY <1>1, StepRefines, IInvHolds, PTL DEF Spec, ImplementsFIFO, FIFO!Spec
=============================================================================
