---------------------------- MODULE Deadlock_proofs ----------------------------
(***************************************************************************)
(* The two programs of Lab7 that reason about deadlock.  The banker: a     *)
(* search that answers true has found an order in which all processes can  *)
(* finish, so that the banker never leaves the safe states.  The detector: *)
(* what the search reports is a cycle of the wait-for graph, and when it   *)
(* reports nothing there is none.                                          *)
(***************************************************************************)
EXTENDS Banker, DeadlockDetector, FiniteSetTheorems, SequenceTheorems,
        WellFoundedInduction, TLAPS

-----------------------------------------------------------------------------
(* Induction over the natural numbers, for sets instead of predicates.     *)

LEMMA SetInduction ==
  ASSUME NEW S \in SUBSET Nat, 0 \in S, \A n \in S : n + 1 \in S
  PROVE  S = Nat
<1> SUFFICES ASSUME Nat \ S # {} PROVE FALSE
  OBVIOUS
<1>1. PICK m \in Nat \ S : \A y \in Nat \ S : <<y, m>> \notin OpToRel(<, Nat)
  BY NatLessThanWellFounded, WFMin
<1>2. \A y \in Nat \ S : ~(y < m)
  BY <1>1 DEF OpToRel
<1>3. m # 0 /\ m - 1 \in Nat /\ m - 1 \notin S
  OBVIOUS
<1> QED
  BY <1>2, <1>3

\* The same up to a bound.
LEMMA BoundedInduction ==
  ASSUME NEW N \in Nat, NEW S, 0 \in S,
         \A n \in 0..N - 1 : n \in S => n + 1 \in S
  PROVE  0..N \subseteq S
<1> DEFINE T == {n \in Nat : n <= N => n \in S}
<1>1. 0 \in T
  OBVIOUS
<1>2. \A n \in T : n + 1 \in T
  OBVIOUS
<1>3. T = Nat
  <2> HIDE DEF T
  <2>1. T \in SUBSET Nat
    BY DEF T
  <2> QED
    BY <1>1, <1>2, <2>1, SetInduction
<1> QED
  BY <1>3

\* f starts from s, and each of its values follows from the one before by F.
Iterates(f, N, s, F) == f[0] = s /\ \A n \in 1..N : f[n] = F[n - 1][f[n - 1]]

\* There is such a function for every s and F.
LEMMA IterationExists ==
  ASSUME NEW N \in Nat, NEW S, NEW s \in S, NEW F \in [0..N - 1 -> [S -> S]]
  PROVE  \E f \in [0..N -> S] : Iterates(f, N, s, F)
<1> DEFINE Upto(m) == \E f \in [0..m -> S] :
                        f[0] = s /\ \A n \in 1..m : f[n] = F[n - 1][f[n - 1]]
           T == {m \in 0..N : Upto(m)}
<1>1. Upto(0)
  <2> DEFINE f == [n \in 0..0 |-> s]
  <2>1. f \in [0..0 -> S] /\ f[0] = s /\ \A n \in 1..0 : f[n] = F[n - 1][f[n - 1]]
    OBVIOUS
  <2> HIDE DEF f
  <2> QED
    BY <2>1
<1>2. ASSUME NEW m \in 0..N - 1, Upto(m)
      PROVE  Upto(m + 1)
  <2>1. PICK f \in [0..m -> S] : f[0] = s /\ \A n \in 1..m : f[n] = F[n - 1][f[n - 1]]
    BY <1>2
  <2> DEFINE g == [n \in 0..m + 1 |-> IF n = m + 1 THEN F[m][f[m]] ELSE f[n]]
  <2>2. g \in [0..m + 1 -> S]
    OBVIOUS
  <2>3. g[0] = s
    BY <2>1
  <2>4. ASSUME NEW n \in 1..m + 1
        PROVE  g[n] = F[n - 1][g[n - 1]]
    <3>1. CASE n = m + 1
      <4>1. n - 1 = m /\ g[n - 1] = f[m]
        BY <3>1
      <4> QED
        BY <3>1, <4>1
    <3>2. CASE n # m + 1
      <4>1. n \in 1..m /\ n - 1 \in 0..m /\ n - 1 # m + 1 /\ n \in 0..m
        BY <3>2
      <4> QED
        BY <2>1, <3>2, <4>1
    <3> QED
      BY <3>1, <3>2
  <2> HIDE DEF g
  <2> QED
    BY <2>2, <2>3, <2>4
<1>3. 0..N \subseteq T
  <2> HIDE DEF Upto
  <2>1. 0 \in T
    BY <1>1
  <2>2. \A m \in 0..N - 1 : m \in T => m + 1 \in T
    BY <1>2
  <2> HIDE DEF T
  <2> QED
    BY <2>1, <2>2, BoundedInduction
<1>4. N \in T
  <2> HIDE DEF T
  <2> QED
    BY <1>3
<1> QED
  BY <1>4 DEF Iterates
-----------------------------------------------------------------------------
(* What processes hold together.                                           *)

\* What the first n processes add to Held.
Part(S, alloc, r, n) == IF n \in S THEN alloc[n][r] ELSE 0

\* f adds up what the processes of S hold.
AddsUp(f, S, alloc, r) ==
  /\ f \in [0..NumCustomers -> Nat]
  /\ f[0] = 0
  /\ \A n \in 1..NumCustomers : f[n] = f[n - 1] + Part(S, alloc, r, n - 1)

LEMMA HeldAddsUp ==
  ASSUME NEW S, NEW alloc \in [Customers -> Vectors], NEW r \in Resources
  PROVE  \E f : AddsUp(f, S, alloc, r) /\ Held(S, alloc, r) = f[NumCustomers]
<1> DEFINE Sum[n \in 0..NumCustomers] ==
             IF n = 0 THEN 0
             ELSE Sum[n - 1] + IF n - 1 \in S THEN alloc[n - 1][r] ELSE 0
<1> DEFINE F == [n \in 0..NumCustomers - 1 |-> [x \in Nat |-> x + Part(S, alloc, r, n)]]
<1>0. NumCustomers \in Nat /\ \A n \in 0..NumCustomers - 1 : Part(S, alloc, r, n) \in Nat
  BY SizesAssumption DEF Part, Customers, Vectors
<1>1. F \in [0..NumCustomers - 1 -> [Nat -> Nat]]
  BY <1>0
<1>2. PICK f \in [0..NumCustomers -> Nat] : Iterates(f, NumCustomers, 0, F)
  <2> HIDE DEF F, Sum
  <2>1. PICK Z, z : Z = Nat /\ z = 0
    OBVIOUS
  <2>2. NumCustomers \in Nat /\ z \in Z /\ F \in [0..NumCustomers - 1 -> [Z -> Z]]
    BY <1>0, <1>1, <2>1
  <2>3. \E f \in [0..NumCustomers -> Z] : Iterates(f, NumCustomers, z, F)
    BY <2>2, IterationExists
  <2> QED
    BY <2>1, <2>3
<1>3. f = [n \in 0..NumCustomers |->
             IF n = 0 THEN 0
             ELSE f[n - 1] + IF n - 1 \in S THEN alloc[n - 1][r] ELSE 0]
  <2>1. ASSUME NEW n \in 1..NumCustomers
        PROVE  f[n] = f[n - 1] + Part(S, alloc, r, n - 1)
    <3>1. n - 1 \in 0..NumCustomers - 1 /\ f[n - 1] \in Nat
      BY <1>0
    <3>2. F[n - 1][f[n - 1]] = f[n - 1] + Part(S, alloc, r, n - 1)
      BY <3>1
    <3> QED
      BY <1>2, <3>2 DEF Iterates
  <2> HIDE DEF F, Sum
  <2>2. f = [n \in 0..NumCustomers |->
               IF n = 0 THEN 0 ELSE f[n - 1] + Part(S, alloc, r, n - 1)]
    <3>1. f = [n \in 0..NumCustomers |-> f[n]]
      OBVIOUS
    <3>2. \A n \in 0..NumCustomers :
            f[n] = IF n = 0 THEN 0 ELSE f[n - 1] + Part(S, alloc, r, n - 1)
      BY <1>0, <1>2, <2>1 DEF Iterates
    <3> QED
      BY <3>1, <3>2
  <2> QED
    BY <2>2 DEF Part
<1>4. Sum = [n \in 0..NumCustomers |->
               IF n = 0 THEN 0
               ELSE Sum[n - 1] + IF n - 1 \in S THEN alloc[n - 1][r] ELSE 0]
  BY <1>3
<1>5. Held(S, alloc, r) = Sum[NumCustomers]
  BY DEF Held
<1> HIDE DEF Sum, F
<1>6. /\ Sum[0] = 0
      /\ \A n \in 1..NumCustomers : Sum[n] = Sum[n - 1] + Part(S, alloc, r, n - 1)
  BY <1>0, <1>4 DEF Part
<1>7. \A n \in 0..NumCustomers : Sum[n] \in Nat
  <2> DEFINE T == {n \in 0..NumCustomers : Sum[n] \in Nat}
  <2>1. 0 \in T
    BY <1>0, <1>6
  <2>2. ASSUME NEW n \in 0..NumCustomers - 1, n \in T
        PROVE  n + 1 \in T
    <3>1. n + 1 \in 1..NumCustomers /\ (n + 1) - 1 = n
      BY <1>0
    <3>2. Sum[n + 1] = Sum[n] + Part(S, alloc, r, n)
      BY <1>6, <3>1
    <3> QED
      BY <1>0, <2>2, <3>1, <3>2
  <2> HIDE DEF T
  <2>3. 0..NumCustomers \subseteq T
    BY <1>0, <2>1, <2>2, BoundedInduction
  <2> QED
    BY <2>3 DEF T
<1>8. Sum \in [0..NumCustomers -> Nat]
  BY <1>4, <1>7
<1> QED
  BY <1>5, <1>6, <1>8 DEF AddsUp

\* Two sums differ by d in what the process p adds, and in nothing else.
DifferBy(S, alloc, T, other, r, p, d) ==
  \A n \in Customers :
    Part(T, other, r, n) = Part(S, alloc, r, n) + IF n = p THEN d ELSE 0

LEMMA SumsDiffer ==
  ASSUME NEW S, NEW alloc \in [Customers -> Vectors], NEW T, NEW other,
         NEW r \in Resources,
         NEW f, AddsUp(f, S, alloc, r), NEW g, AddsUp(g, T, other, r),
         NEW p \in Nat, NEW d \in Int,
         DifferBy(S, alloc, T, other, r, p, d)
  PROVE  g[NumCustomers] = f[NumCustomers] + IF p < NumCustomers THEN d ELSE 0
<1> DEFINE Same == {n \in 0..NumCustomers : g[n] = f[n] + IF p < n THEN d ELSE 0}
<1>1. NumCustomers \in Nat
  BY SizesAssumption
<1>2. 0 \in Same
  BY <1>1 DEF AddsUp
<1>3. ASSUME NEW n \in 0..NumCustomers - 1, n \in Same
      PROVE  n + 1 \in Same
  <2>1. n \in Customers /\ n + 1 \in 1..NumCustomers /\ (n + 1) - 1 = n
    BY <1>1 DEF Customers
  <2>2. g[n + 1] = g[n] + Part(T, other, r, n) /\ f[n + 1] = f[n] + Part(S, alloc, r, n)
    BY <2>1 DEF AddsUp
  <2>3. f[n] \in Nat /\ f[n + 1] \in Nat /\ g[n] \in Nat /\ g[n + 1] \in Nat
    BY <2>1, <1>1 DEF AddsUp
  <2>4. g[n] = f[n] + IF p < n THEN d ELSE 0
    BY <1>3
  <2>5. Part(T, other, r, n) = Part(S, alloc, r, n) + IF n = p THEN d ELSE 0
    BY <2>1 DEF DifferBy
  <2>6. Part(S, alloc, r, n) \in Int
    BY <2>1 DEF Part, Vectors
  <2>7. CASE n = p
    BY <2>1, <2>2, <2>3, <2>4, <2>5, <2>6, <2>7
  <2>8. CASE n # p
    BY <2>1, <2>2, <2>3, <2>4, <2>5, <2>6, <2>8
  <2> QED
    BY <2>7, <2>8
<1>4. NumCustomers \in Same
  <2> HIDE DEF Same
  <2>1. NumCustomers \in Nat /\ 0 \in Same /\ \A n \in 0..NumCustomers - 1 : n \in Same => n + 1 \in Same
    BY <1>1, <1>2, <1>3
  <2>2. 0..NumCustomers \subseteq Same
    BY <2>1, BoundedInduction
  <2> QED
    BY <2>1, <2>2
<1> QED
  BY <1>4

LEMMA HeldIsNat ==
  ASSUME NEW S, NEW alloc \in [Customers -> Vectors], NEW r \in Resources
  PROVE  Held(S, alloc, r) \in Nat
BY HeldAddsUp, SizesAssumption DEF AddsUp

\* No process holds nothing.
LEMMA HeldByNone ==
  ASSUME NEW alloc \in [Customers -> Vectors], NEW r \in Resources
  PROVE  Held({}, alloc, r) = 0
<1> DEFINE Zero(f) == {n \in 0..NumCustomers : f[n] = 0}
<1>1. PICK f : AddsUp(f, {}, alloc, r) /\ Held({}, alloc, r) = f[NumCustomers]
  BY HeldAddsUp
<1>2. NumCustomers \in Nat /\ 0 \in Zero(f)
  BY <1>1, SizesAssumption DEF AddsUp
<1>3. ASSUME NEW n \in 0..NumCustomers - 1, n \in Zero(f)
      PROVE  n + 1 \in Zero(f)
  <2>1. n + 1 \in 1..NumCustomers /\ (n + 1) - 1 = n
    BY <1>2
  <2> QED
    BY <1>1, <1>3, <2>1 DEF AddsUp, Part
<1>4. NumCustomers \in Zero(f)
  <2> HIDE DEF Zero
  <2> QED
    BY <1>2, <1>3, BoundedInduction
<1> QED
  BY <1>1, <1>4

\* T has the processes of S and p.
OneMore(S, T, p) == p \in Customers \ S /\ T = S \union {p}

\* One more process adds what it holds.
LEMMA HeldByOneMore ==
  ASSUME NEW S, NEW T, NEW alloc \in [Customers -> Vectors], NEW r \in Resources,
         NEW p \in Customers, OneMore(S, T, p)
  PROVE  Held(T, alloc, r) = Held(S, alloc, r) + alloc[p][r]
<1> DEFINE d == alloc[p][r]
<1>1. PICK f : AddsUp(f, S, alloc, r) /\ Held(S, alloc, r) = f[NumCustomers]
  BY HeldAddsUp
<1>2. PICK g : AddsUp(g, T, alloc, r) /\ Held(T, alloc, r) = g[NumCustomers]
  BY HeldAddsUp
<1>3. p \in Nat /\ p < NumCustomers /\ d \in Int
  BY SizesAssumption DEF Customers, Vectors
<1>4. DifferBy(S, alloc, T, alloc, r, p, d)
  BY DEF DifferBy, OneMore, Part, Vectors
<1> HIDE DEF d
<1>5. g[NumCustomers] = f[NumCustomers] + IF p < NumCustomers THEN d ELSE 0
  BY <1>1, <1>2, <1>3, <1>4, SumsDiffer
<1>6. Held(T, alloc, r) = Held(S, alloc, r) + d
  BY <1>1, <1>2, <1>3, <1>5
<1> QED
  BY <1>6 DEF d

\* What all hold changes with what one holds.
LEMMA HeldChanges ==
  ASSUME NEW alloc \in [Customers -> Vectors], NEW other \in [Customers -> Vectors],
         NEW r \in Resources, NEW p \in Customers,
         \A q \in Customers \ {p} : other[q] = alloc[q]
  PROVE  Held(Customers, other, r)
           = Held(Customers, alloc, r) + (other[p][r] - alloc[p][r])
<1>1. PICK f : AddsUp(f, Customers, alloc, r) /\ Held(Customers, alloc, r) = f[NumCustomers]
  BY HeldAddsUp
<1>2. PICK g : AddsUp(g, Customers, other, r) /\ Held(Customers, other, r) = g[NumCustomers]
  BY HeldAddsUp
<1> DEFINE d == other[p][r] - alloc[p][r]
<1>3. p \in Nat /\ p < NumCustomers /\ d \in Int
  BY SizesAssumption DEF Customers, Vectors
<1>4. DifferBy(Customers, alloc, Customers, other, r, p, d)
  BY DEF DifferBy, Part, Vectors
<1> HIDE DEF d
<1>5. g[NumCustomers] = f[NumCustomers] + IF p < NumCustomers THEN d ELSE 0
  BY <1>1, <1>2, <1>3, <1>4, SumsDiffer
<1> QED
  BY <1>1, <1>2, <1>3, <1>5 DEF d

-----------------------------------------------------------------------------
(* The search of isSafeState.                                              *)

Searches == [work : Vectors, finish : SUBSET Customers,
             sequence : Seq(Customers), found : BOOLEAN]

\* The sequence lists the finished processes, each once.
Lists(state) ==
  /\ state.finish = {state.sequence[k] : k \in 1..Len(state.sequence)}
  /\ \A j, k \in 1..Len(state.sequence) :
       state.sequence[j] = state.sequence[k] => j = k
  /\ IsFiniteSet(state.finish)
  /\ Cardinality(state.finish) = Len(state.sequence)

\* Where a search of a state stands: the finished processes can finish in the
\* order of the sequence, and what they held is there to work with.
Sound(state, avail, alloc) ==
  /\ state \in Searches
  /\ Lists(state)
  /\ \A r \in Resources : state.work[r] = avail[r] + Held(state.finish, alloc, r)
  /\ FinishInOrder(state.sequence, avail, alloc)

Matrices == [Customers -> Vectors]

LEMMA VisitSound ==
  ASSUME maximum \in Matrices, NEW avail \in Vectors, NEW alloc \in Matrices,
         NEW state, Sound(state, avail, alloc), NEW p \in Customers
  PROVE  /\ Sound(Visit(alloc, state, p), avail, alloc)
         /\ state.finish \subseteq Visit(alloc, state, p).finish
         /\ Visit(alloc, state, p).found = state.found
<1> DEFINE next == Visit(alloc, state, p)
           n == Len(state.sequence)
<1>1. CASE p \in state.finish \/ ~AtMost(calculateNeed(alloc)[p], state.work)
  BY <1>1 DEF Visit
<1>2. CASE p \notin state.finish /\ AtMost(calculateNeed(alloc)[p], state.work)
  <2>1. /\ next = [state EXCEPT !.work = Plus(@, alloc[p]),
                                 !.finish = @ \union {p},
                                 !.sequence = Append(@, p)]
        /\ state \in Searches
    BY <1>2 DEF Visit, Sound
  <2> HIDE DEF next
  <2>2. /\ next.work = Plus(state.work, alloc[p])
        /\ next.finish = state.finish \union {p}
        /\ next.sequence = Append(state.sequence, p)
        /\ next.found = state.found
        /\ next = [work |-> next.work, finish |-> next.finish,
                   sequence |-> next.sequence, found |-> next.found]
    BY <2>1 DEF Searches
  <2>3. state.sequence \in Seq(Customers) /\ state.work \in Vectors /\ n \in Nat
    BY <2>1 DEF Searches
  <2>4. /\ next.sequence \in Seq(Customers)
        /\ Len(next.sequence) = n + 1
        /\ next.sequence[n + 1] = p
        /\ \A k \in 1..n : next.sequence[k] = state.sequence[k]
    BY <2>2, <2>3
  <2>5. next.work \in Vectors
    BY <2>2, <2>3 DEF Plus, Matrices, Vectors
  <2>6. next \in Searches
    BY <2>1, <2>2, <2>4, <2>5 DEF Searches
  <2>7. Lists(next)
    <3>1. next.finish = {next.sequence[k] : k \in 1..Len(next.sequence)}
      BY <2>2, <2>3, <2>4 DEF Sound, Lists
    <3>2. \A j, k \in 1..Len(next.sequence) : next.sequence[j] = next.sequence[k] => j = k
      <4>1. \A k \in 1..n : state.sequence[k] # p
        BY <1>2 DEF Sound, Lists
      <4> QED
        BY SMTT(30), <2>3, <2>4, <4>1 DEF Sound, Lists
    <3>3. IsFiniteSet(next.finish) /\ Cardinality(next.finish) = n + 1
      <4>1. IsFiniteSet(state.finish) /\ Cardinality(state.finish) = n /\ p \notin state.finish
        BY <1>2 DEF Sound, Lists
      <4>2. /\ IsFiniteSet(state.finish \union {p})
            /\ Cardinality(state.finish \union {p}) = Cardinality(state.finish) + 1
        BY <4>1, FS_AddElement
      <4> QED
        BY <2>2, <4>1, <4>2
    <3> QED
      BY <2>4, <3>1, <3>2, <3>3 DEF Lists
  <2>8. ASSUME NEW r \in Resources
        PROVE  next.work[r] = avail[r] + Held(next.finish, alloc, r)
    <3>1. Held(next.finish, alloc, r) = Held(state.finish, alloc, r) + alloc[p][r]
      <4>1. alloc \in [Customers -> Vectors]
        BY DEF Matrices
      <4>2. OneMore(state.finish, next.finish, p)
        BY <1>2, <2>2 DEF OneMore
      <4> QED
        BY <4>1, <4>2, HeldByOneMore
    <3>2. state.work[r] = avail[r] + Held(state.finish, alloc, r)
      BY DEF Sound
    <3>3. next.work[r] = state.work[r] + alloc[p][r]
      BY <2>2 DEF Plus
    <3>4. avail[r] \in Int /\ alloc[p][r] \in Int /\ Held(state.finish, alloc, r) \in Int
      BY HeldIsNat DEF Matrices, Vectors
    <3> QED
      BY <3>1, <3>2, <3>3, <3>4
  <2>9. FinishInOrder(next.sequence, avail, alloc)
    <3> SUFFICES ASSUME NEW k \in 1..n + 1, NEW r \in Resources
                 PROVE  maximum[next.sequence[k]][r] - alloc[next.sequence[k]][r]
                          <= avail[r] + Held({next.sequence[j] : j \in 1..k - 1}, alloc, r)
      BY <2>4 DEF FinishInOrder
    <3>1. {next.sequence[j] : j \in 1..k - 1} = {state.sequence[j] : j \in 1..k - 1}
      <4>1. \A j \in 1..k - 1 : j \in 1..n
        BY <2>3
      <4>2. \A j \in 1..k - 1 : next.sequence[j] = state.sequence[j]
        BY <2>4, <4>1
      <4> QED
        BY <4>2
    <3>2. CASE k \in 1..n
      BY <2>4, <3>1, <3>2 DEF Sound, FinishInOrder
    <3>3. CASE k = n + 1
      <4>1. {state.sequence[j] : j \in 1..k - 1} = state.finish
        BY <2>3, <3>3 DEF Sound, Lists
      <4>2. maximum[p][r] - alloc[p][r] <= state.work[r]
        BY <1>2 DEF AtMost, calculateNeed, Minus
      <4> QED
        BY <2>4, <3>1, <3>3, <4>1, <4>2 DEF Sound
    <3> QED
      BY <2>3, <3>2, <3>3
  <2> QED
    BY <2>2, <2>6, <2>7, <2>8, <2>9 DEF Sound, next
<1> QED
  BY <1>1, <1>2

LEMMA RoundSound ==
  ASSUME maximum \in Matrices, NEW avail \in Vectors, NEW alloc \in Matrices,
         NEW state, Sound(state, avail, alloc)
  PROVE  /\ Sound(Round(alloc, state), avail, alloc)
         /\ state.finish \subseteq Round(alloc, state).finish
         /\ Round(alloc, state).found <=> Round(alloc, state).finish # state.finish
<1> DEFINE Sounds == {s \in Searches : Sound(s, avail, alloc)}
           F == [n \in 0..NumCustomers - 1 |-> [s \in Sounds |-> Visit(alloc, s, n)]]
           Visited[n \in 0..NumCustomers] ==
             IF n = 0 THEN state ELSE Visit(alloc, Visited[n - 1], n - 1)
<1>0. NumCustomers \in Nat /\ state \in Sounds
  BY SizesAssumption DEF Sound
<1>1. F \in [0..NumCustomers - 1 -> [Sounds -> Sounds]]
  <2>1. ASSUME NEW n \in 0..NumCustomers - 1, NEW s \in Sounds
        PROVE  Visit(alloc, s, n) \in Sounds
    <3>1. n \in Customers /\ Sound(s, avail, alloc)
      BY DEF Customers
    <3>2. Sound(Visit(alloc, s, n), avail, alloc)
      BY <3>1, VisitSound
    <3> QED
      BY <3>2 DEF Sound
  <2> HIDE DEF Sounds
  <2> QED
    BY <2>1
<1>2. PICK f \in [0..NumCustomers -> Sounds] : Iterates(f, NumCustomers, state, F)
  <2> HIDE DEF F, Visited, Sounds
  <2> QED
    BY <1>0, <1>1, IterationExists
<1>3. f = [n \in 0..NumCustomers |->
             IF n = 0 THEN state ELSE Visit(alloc, f[n - 1], n - 1)]
  <2> HIDE DEF Visited, Sounds
  <2>1. ASSUME NEW n \in 1..NumCustomers
        PROVE  f[n] = Visit(alloc, f[n - 1], n - 1)
    <3>1. n - 1 \in 0..NumCustomers - 1 /\ f[n - 1] \in Sounds
      BY <1>0
    <3>2. F[n - 1][f[n - 1]] = Visit(alloc, f[n - 1], n - 1)
      BY <3>1
    <3> QED
      BY <1>2, <3>2 DEF Iterates
  <2> HIDE DEF F
  <2>2. f = [n \in 0..NumCustomers |-> f[n]]
    OBVIOUS
  <2>3. \A n \in 0..NumCustomers :
          f[n] = IF n = 0 THEN state ELSE Visit(alloc, f[n - 1], n - 1)
    BY <1>0, <1>2, <2>1 DEF Iterates
  <2> QED
    BY <2>2, <2>3
<1>4. Visited = [n \in 0..NumCustomers |->
                   IF n = 0 THEN state ELSE Visit(alloc, Visited[n - 1], n - 1)]
  BY <1>3
<1>5. Round(alloc, state)
        = [Visited[NumCustomers] EXCEPT !.found = Visited[NumCustomers].finish # state.finish]
  BY DEF Round
<1> HIDE DEF Visited, F, Sounds
<1>6. /\ Visited[0] = state
      /\ \A n \in 1..NumCustomers : Visited[n] = Visit(alloc, Visited[n - 1], n - 1)
  BY <1>0, <1>4
<1> DEFINE Fine == {n \in 0..NumCustomers :
                      /\ Sound(Visited[n], avail, alloc)
                      /\ state.finish \subseteq Visited[n].finish}
<1>7. 0 \in Fine
  BY <1>0, <1>6
<1>8. ASSUME NEW n \in 0..NumCustomers - 1, n \in Fine
      PROVE  n + 1 \in Fine
  <2>1. n \in Customers /\ n + 1 \in 1..NumCustomers /\ (n + 1) - 1 = n
    BY <1>0 DEF Customers
  <2>2. Visited[n + 1] = Visit(alloc, Visited[n], n)
    BY <1>6, <2>1
  <2>3. Sound(Visited[n], avail, alloc) /\ state.finish \subseteq Visited[n].finish
    BY <1>8
  <2>4. /\ Sound(Visited[n + 1], avail, alloc)
        /\ Visited[n].finish \subseteq Visited[n + 1].finish
    BY <2>1, <2>2, <2>3, VisitSound
  <2> QED
    BY <2>1, <2>3, <2>4
<1>9. NumCustomers \in Fine
  <2> HIDE DEF Fine
  <2>1. 0..NumCustomers \subseteq Fine
    BY <1>0, <1>7, <1>8, BoundedInduction
  <2> QED
    BY <1>0, <2>1
<1> DEFINE last == Visited[NumCustomers]
           round == Round(alloc, state)
<1>10. /\ round.work = last.work /\ round.finish = last.finish
       /\ round.sequence = last.sequence
       /\ round.found = (last.finish # state.finish)
       /\ round \in Searches
  BY <1>5, <1>9 DEF Sound, Searches
<1> HIDE DEF round
<1>11. Sound(round, avail, alloc)
  BY <1>9, <1>10 DEF Sound, Lists
<1> QED
  BY <1>9, <1>10, <1>11 DEF round

\* What isSafeState starts from.
NothingFinished(avail) ==
  [work |-> avail, finish |-> {}, sequence |-> <<>>, found |-> TRUE]

LEMMA StartSound ==
  ASSUME NEW avail \in Vectors, NEW alloc \in Matrices
  PROVE  Sound(NothingFinished(avail), avail, alloc)
<1> DEFINE start == NothingFinished(avail)
<1>1. /\ start \in Searches
      /\ start.work = avail /\ start.finish = {} /\ start.sequence = <<>>
  BY DEF NothingFinished, Searches
<1> HIDE DEF start
<1>2. Lists(start)
  BY <1>1, FS_EmptySet DEF Lists
<1>3. \A r \in Resources : avail[r] = avail[r] + Held({}, alloc, r)
  BY HeldByNone DEF Matrices, Vectors
<1>4. FinishInOrder(start.sequence, avail, alloc)
  BY <1>1 DEF FinishInOrder
<1> QED
  BY <1>1, <1>2, <1>3, <1>4 DEF Sound, start

\* A round that finds something finishes one more process at least.
LEMMA RoundGrows ==
  ASSUME maximum \in Matrices, NEW avail \in Vectors, NEW alloc \in Matrices,
         NEW state, Sound(state, avail, alloc), Round(alloc, state).found
  PROVE  Len(Round(alloc, state).sequence) > Len(state.sequence)
<1> DEFINE round == Round(alloc, state)
<1>1. /\ Sound(round, avail, alloc)
      /\ state.finish \subseteq round.finish
      /\ round.finish # state.finish
  BY RoundSound
<1> HIDE DEF round
<1>2. /\ IsFiniteSet(round.finish) /\ Cardinality(round.finish) = Len(round.sequence)
      /\ Cardinality(state.finish) = Len(state.sequence)
      /\ Len(round.sequence) \in Nat /\ Len(state.sequence) \in Nat
  BY <1>1 DEF Sound, Lists, Searches
<1>3. /\ Cardinality(state.finish) <= Cardinality(round.finish)
      /\ Cardinality(state.finish) # Cardinality(round.finish)
  <2>1. state.finish \in SUBSET round.finish
    BY <1>1
  <2> QED
    BY <1>1, <1>2, <2>1, FS_Subset
<1> QED
  BY <1>2, <1>3 DEF round

\* A sequence of all the processes.
LEMMA FullSequence ==
  ASSUME NEW state \in Searches, Lists(state),
         Len(state.sequence) >= NumCustomers
  PROVE  state.sequence \in Orders
<1> DEFINE order == state.sequence
<1>1. NumCustomers \in Nat /\ order \in Seq(Customers) /\ Len(order) \in Nat
  BY SizesAssumption DEF Searches
<1>2. IsFiniteSet(Customers) /\ Cardinality(Customers) = NumCustomers
  BY <1>1, FS_Interval DEF Customers
<1>3. state.finish \in SUBSET Customers
  BY DEF Searches
<1>4. Len(order) <= NumCustomers
  BY <1>1, <1>2, <1>3, FS_Subset DEF Lists
<1>5. order \in [1..NumCustomers -> Customers]
  BY <1>1, <1>4
<1> QED
  BY <1>1, <1>4, <1>5 DEF Orders, Lists

\* When isSafeState answers true its sequence is one of all the processes, in
\* an order in which they can finish.
LEMMA isSafeStateSound ==
  ASSUME maximum \in Matrices, NEW avail \in Vectors, NEW alloc \in Matrices
  PROVE  LET result == isSafeState(avail, alloc) IN
         /\ result.safe \in BOOLEAN
         /\ result.sequence \in Seq(Customers)
         /\ result.safe => /\ result.sequence \in Orders
                           /\ FinishInOrder(result.sequence, avail, alloc)
<1> DEFINE Sounds == {s \in Searches : Sound(s, avail, alloc)}
           start == NothingFinished(avail)
           Next_(s) == IF s.found THEN Round(alloc, s) ELSE s
           F == [n \in 0..NumCustomers - 1 |-> [s \in Sounds |-> Next_(s)]]
           After[n \in 0..NumCustomers] ==
             IF n = 0
             THEN [work |-> avail, finish |-> {}, sequence |-> <<>>, found |-> TRUE]
             ELSE IF After[n - 1].found THEN Round(alloc, After[n - 1])
                                        ELSE After[n - 1]
<1>0. NumCustomers \in Nat /\ start \in Sounds
  BY SizesAssumption, StartSound DEF Sound
<1>1. F \in [0..NumCustomers - 1 -> [Sounds -> Sounds]]
  <2> HIDE DEF start, After
  <2>1. ASSUME NEW s \in Sounds PROVE Next_(s) \in Sounds
    <3>1. Sound(Round(alloc, s), avail, alloc)
      BY RoundSound
    <3> QED
      BY <3>1 DEF Sound
  <2> HIDE DEF Sounds, Next_
  <2> QED
    BY <2>1
<1>2. PICK f \in [0..NumCustomers -> Sounds] : Iterates(f, NumCustomers, start, F)
  <2> HIDE DEF F, After, Sounds, start
  <2> QED
    BY <1>0, <1>1, IterationExists
<1>3. f = [n \in 0..NumCustomers |-> IF n = 0 THEN start ELSE Next_(f[n - 1])]
  <2> HIDE DEF After, Sounds, start, Next_
  <2>1. ASSUME NEW n \in 1..NumCustomers
        PROVE  f[n] = Next_(f[n - 1])
    <3>1. n - 1 \in 0..NumCustomers - 1 /\ f[n - 1] \in Sounds
      BY <1>0
    <3>2. F[n - 1][f[n - 1]] = Next_(f[n - 1])
      BY <3>1
    <3> QED
      BY <1>2, <3>2 DEF Iterates
  <2> HIDE DEF F
  <2>2. f = [n \in 0..NumCustomers |-> f[n]]
    OBVIOUS
  <2>3. \A n \in 0..NumCustomers : f[n] = IF n = 0 THEN start ELSE Next_(f[n - 1])
    BY <1>0, <1>2, <2>1 DEF Iterates
  <2> QED
    BY <2>2, <2>3
<1>4. After = [n \in 0..NumCustomers |-> IF n = 0 THEN start ELSE Next_(After[n - 1])]
  <2> HIDE DEF F, Sounds
  <2> QED
    BY <1>3 DEF NothingFinished
<1>5. isSafeState(avail, alloc)
        = [safe |-> After[NumCustomers].found, sequence |-> After[NumCustomers].sequence]
  BY DEF isSafeState
<1> HIDE DEF After, F, Sounds, start
<1>6. /\ After[0] = start
      /\ \A n \in 1..NumCustomers : After[n] = Next_(After[n - 1])
  <2> HIDE DEF Next_
  <2> QED
    BY <1>0, <1>4
<1> DEFINE Fine == {n \in 0..NumCustomers :
                      /\ Sound(After[n], avail, alloc)
                      /\ After[n].found => Len(After[n].sequence) >= n}
<1>7. 0 \in Fine
  <2>1. Sound(After[0], avail, alloc)
    BY <1>6, StartSound DEF start
  <2>2. Len(After[0].sequence) = 0
    BY <1>6 DEF start, NothingFinished
  <2> QED
    BY <1>0, <2>1, <2>2
<1>8. ASSUME NEW n \in 0..NumCustomers - 1, n \in Fine
      PROVE  n + 1 \in Fine
  <2>1. n + 1 \in 0..NumCustomers /\ n + 1 \in 1..NumCustomers /\ (n + 1) - 1 = n
    BY <1>0
  <2>2. After[n + 1] = Next_(After[n])
    <3> HIDE DEF Next_
    <3> QED
      BY <1>6, <2>1
  <2>3. /\ Sound(After[n], avail, alloc)
        /\ After[n].found => Len(After[n].sequence) >= n
        /\ Len(After[n].sequence) \in Nat
    BY <1>8 DEF Sound, Searches
  <2>4. CASE ~After[n].found
    BY <2>1, <2>2, <2>3, <2>4
  <2>5. CASE After[n].found
    <3>1. After[n + 1] = Round(alloc, After[n])
      BY <2>2, <2>5
    <3>2. Sound(After[n + 1], avail, alloc) /\ Len(After[n + 1].sequence) \in Nat
      BY <2>3, <3>1, RoundSound DEF Sound, Searches
    <3>3. After[n + 1].found => Len(After[n + 1].sequence) > Len(After[n].sequence)
      BY <2>3, <3>1, RoundGrows
    <3> QED
      BY <2>1, <2>3, <2>5, <3>2, <3>3
  <2> QED
    BY <2>4, <2>5
<1>9. NumCustomers \in Fine
  <2> HIDE DEF Fine
  <2>1. 0..NumCustomers \subseteq Fine
    BY <1>0, <1>7, <1>8, BoundedInduction
  <2> QED
    BY <1>0, <2>1
<1> DEFINE last == After[NumCustomers]
<1>10. /\ last \in Searches /\ Lists(last)
       /\ FinishInOrder(last.sequence, avail, alloc)
       /\ last.found => last.sequence \in Orders
  <2>1. Sound(last, avail, alloc) /\ (last.found => Len(last.sequence) >= NumCustomers)
    BY <1>9
  <2> QED
    BY <2>1, FullSequence DEF Sound
<1> HIDE DEF last
<1>11. /\ isSafeState(avail, alloc).safe = last.found
       /\ isSafeState(avail, alloc).sequence = last.sequence
  BY <1>5 DEF last
<1>12. last.found \in BOOLEAN /\ last.sequence \in Seq(Customers)
  BY <1>10 DEF Searches
<1> QED
  BY <1>10, <1>11, <1>12

-----------------------------------------------------------------------------
(* The operations of the banker.                                           *)

BankerInv == BankerTypeOK /\ Conserved /\ SequenceIsSafe /\ StaysSafe

LEMMA BankerInvInit == BankerInit => BankerInv
<1> SUFFICES ASSUME BankerInit PROVE BankerInv
  OBVIOUS
<1>1. BankerTypeOK
  BY ScenariosAssumption DEF BankerInit, BankerTypeOK, Situations, AtMost
<1>2. Conserved /\ SequenceIsSafe /\ StaysSafe
  BY DEF BankerInit, Conserved, SequenceIsSafe, StaysSafe
<1> QED
  BY <1>1, <1>2 DEF BankerInv

\* Whether a state is safe depends on the claims and the state only.
LEMMA SafeKept ==
  ASSUME UNCHANGED <<scenario, available, maximum, allocation>>
  PROVE  /\ Safe(available, allocation)' <=> Safe(available, allocation)
         /\ Safe(scenario.available, scenario.allocation)'
              <=> Safe(scenario.available, scenario.allocation)
<1>1. ASSUME NEW order
      PROVE  FinishInOrder(order, available, allocation)'
               <=> FinishInOrder(order, available, allocation)
  BY DEF FinishInOrder, Held
<1>2. ASSUME NEW order
      PROVE  FinishInOrder(order, scenario.available, scenario.allocation)'
               <=> FinishInOrder(order, scenario.available, scenario.allocation)
  BY DEF FinishInOrder, Held
<1> QED
  BY <1>1, <1>2 DEF Safe, Orders

\* A step that leaves the state of the bank alone and finds no sequence.
LEMMA BankerIdle ==
  ASSUME BankerInv, UNCHANGED <<scenario, available, maximum, allocation>>,
         answer' \in {"unsafe", "exceeded", "wait", "denied"},
         safeSequence' \in Seq(Customers)
  PROVE  BankerInv'
<1>1. BankerTypeOK'
  BY DEF BankerInv, BankerTypeOK
<1>2. Conserved'
  BY DEF BankerInv, Conserved, Held
<1>3. SequenceIsSafe'
  BY DEF SequenceIsSafe
<1>4. StaysSafe'
  BY SafeKept DEF BankerInv, StaysSafe
<1> QED
  BY <1>1, <1>2, <1>3, <1>4 DEF BankerInv

\* What a safe answer says of the state it is given for.
SafeFor(sequence, avail, alloc) ==
  sequence \in Orders /\ FinishInOrder(sequence, avail, alloc)

\* A step that ends in a state with a safe sequence.
LEMMA BankerSafe ==
  ASSUME BankerInv, BankerTypeOK', Conserved', UNCHANGED <<scenario, maximum>>,
         SafeFor(safeSequence', available', allocation')
  PROVE  BankerInv'
<1>1. FinishInOrder(safeSequence, available, allocation)'
  BY DEF SafeFor, FinishInOrder, Held
<1>2. (safeSequence \in Orders)'
  BY DEF SafeFor, Orders
<1>3. SequenceIsSafe'
  BY <1>1, <1>2 DEF SequenceIsSafe
<1>4. StaysSafe'
  BY <1>1, <1>2 DEF StaysSafe, Safe
<1> QED
  BY <1>3, <1>4 DEF BankerInv

LEMMA CheckStateInv ==
  ASSUME BankerInv, CheckState
  PROVE  BankerInv'
<1> DEFINE result == isSafeState(available, allocation)
<1>1. available \in Vectors /\ allocation \in Matrices /\ maximum \in Matrices
  BY DEF BankerInv, BankerTypeOK, Matrices
<1>2. /\ result.safe \in BOOLEAN
      /\ result.sequence \in Seq(Customers)
      /\ result.safe => SafeFor(result.sequence, available, allocation)
  BY <1>1, isSafeStateSound DEF SafeFor
<1>3. /\ answer' = IF result.safe THEN "safe" ELSE "unsafe"
      /\ safeSequence' = result.sequence
      /\ UNCHANGED <<scenario, available, maximum, allocation>>
  BY DEF CheckState
<1> HIDE DEF result
<1>4. CASE result.safe
  <2>1. BankerTypeOK'
    BY <1>2, <1>3 DEF BankerInv, BankerTypeOK
  <2>2. Conserved'
    BY <1>3 DEF BankerInv, Conserved, Held
  <2> QED
    BY <1>2, <1>3, <1>4, <2>1, <2>2, BankerSafe
<1>5. CASE ~result.safe
  BY <1>2, <1>3, <1>5, BankerIdle
<1> QED
  BY <1>4, <1>5

LEMMA TurnDownInv ==
  ASSUME BankerInv, NEW p \in Customers, NEW request \in Requests, TurnDown(p, request)
  PROVE  BankerInv'
BY BankerIdle DEF TurnDown, BankerInv, BankerTypeOK

LEMMA TryRequestInv ==
  ASSUME BankerInv, NEW p \in Customers, NEW request \in Requests, TryRequest(p, request)
  PROVE  BankerInv'
<1> DEFINE avail  == Minus(available, request)
           alloc  == [allocation EXCEPT ![p] = Plus(@, request)]
           result == isSafeState(avail, alloc)
<1>1. /\ request \in Vectors
      /\ available \in Vectors /\ allocation \in Matrices /\ maximum \in Matrices
      /\ \A r \in Resources : available[r] \in Nat /\ request[r] \in Nat
      /\ \A r \in Resources : allocation[p][r] \in Nat /\ maximum[p][r] \in Nat
  BY RequestsAssumption DEF BankerInv, BankerTypeOK, Matrices, Vectors
<1>2. /\ ~ExceedsNeed(p, request) /\ AtMost(request, available)
      /\ safeSequence' = result.sequence
      /\ UNCHANGED <<scenario, maximum>>
      /\ \/ /\ result.safe
            /\ answer' = "granted"
            /\ available' = avail /\ allocation' = alloc
         \/ /\ ~result.safe
            /\ answer' = "denied"
            /\ Rollback(p, request)
  BY DEF TryRequest
<1>3. /\ avail = [r \in Resources |-> available[r] - request[r]]
      /\ avail \in Vectors
  BY <1>1, <1>2 DEF Minus, AtMost, Vectors
<1>4. /\ alloc \in Matrices
      /\ alloc[p] = [r \in Resources |-> allocation[p][r] + request[r]]
      /\ \A q \in Customers \ {p} : alloc[q] = allocation[q]
  BY <1>1 DEF Plus, Matrices, Vectors
<1> HIDE DEF avail, alloc
<1>5. /\ result.safe \in BOOLEAN
      /\ result.sequence \in Seq(Customers)
      /\ result.safe => SafeFor(result.sequence, avail, alloc)
  BY <1>1, <1>3, <1>4, isSafeStateSound DEF SafeFor
<1> HIDE DEF result
<1>6. CASE result.safe
  <2>1. /\ answer' = "granted" /\ available' = avail /\ allocation' = alloc
    BY <1>2, <1>6
  <2>2. BankerTypeOK'
    <3>1. \A q \in Customers : AtMost(alloc[q], maximum[q])
      <4>1. AtMost(alloc[p], maximum[p])
        <5> SUFFICES ASSUME NEW r \in Resources
                     PROVE  allocation[p][r] + request[r] <= maximum[p][r]
          BY <1>4 DEF AtMost
        <5>1. request[r] <= maximum[p][r] - allocation[p][r]
          BY <1>2 DEF ExceedsNeed, AtMost, calculateNeed, Minus
        <5> QED
          BY <1>1, <5>1
      <4> QED
        BY <1>4, <4>1 DEF BankerInv, BankerTypeOK
    <3>2. (\A q \in Customers : AtMost(allocation[q], maximum[q]))'
      BY <1>2, <2>1, <3>1 DEF AtMost
    <3> QED
      BY <1>1, <1>2, <1>3, <1>4, <1>5, <2>1, <3>2 DEF BankerInv, BankerTypeOK, Matrices
  <2>3. Conserved'
    <3>1. ASSUME NEW r \in Resources
          PROVE  avail[r] + Held(Customers, alloc, r)
                   = scenario.available[r] + Held(Customers, scenario.allocation, r)
      <4>1. allocation \in [Customers -> Vectors] /\ alloc \in [Customers -> Vectors]
        BY <1>1, <1>4 DEF Matrices
      <4>2. Held(Customers, alloc, r)
              = Held(Customers, allocation, r) + (alloc[p][r] - allocation[p][r])
        BY <1>4, <4>1, HeldChanges
      <4>3. alloc[p][r] - allocation[p][r] = request[r] /\ avail[r] = available[r] - request[r]
        BY <1>1, <1>3, <1>4
      <4>4. available[r] + Held(Customers, allocation, r)
              = scenario.available[r] + Held(Customers, scenario.allocation, r)
        BY DEF BankerInv, Conserved
      <4>5. Held(Customers, allocation, r) \in Nat
        BY <4>1, HeldIsNat
      <4> QED
        BY <1>1, <4>2, <4>3, <4>4, <4>5
    <3> QED
      BY <1>2, <2>1, <3>1 DEF Conserved, Held
  <2> QED
    BY <1>2, <1>5, <1>6, <2>1, <2>2, <2>3, BankerSafe
<1>7. CASE ~result.safe
  <2>1. answer' = "denied" /\ Rollback(p, request)
    BY <1>2, <1>7
  <2>2. available' = available
    <3>1. available' = [r \in Resources |-> (available[r] - request[r]) + request[r]]
      BY <2>1 DEF Rollback, Plus, Minus
    <3>2. available = [r \in Resources |-> available[r]]
      BY <1>1 DEF Vectors
    <3> QED
      BY <1>1, <3>1, <3>2
  <2>3. allocation' = allocation
    <3>1. allocation[p] = [r \in Resources |-> allocation[p][r]]
      BY <1>1 DEF Matrices, Vectors
    <3>2. Minus(Plus(allocation[p], request), request)
            = [r \in Resources |-> (allocation[p][r] + request[r]) - request[r]]
      BY DEF Plus, Minus
    <3>3. Minus(Plus(allocation[p], request), request) = allocation[p]
      BY <1>1, <3>1, <3>2
    <3> QED
      BY <1>1, <2>1, <3>3 DEF Rollback, Matrices
  <2> QED
    BY <1>2, <1>5, <2>1, <2>2, <2>3, BankerIdle
<1> QED
  BY <1>6, <1>7

LEMMA BankerStep == BankerInv /\ [BankerNext]_bankerVars => BankerInv'
<1> SUFFICES ASSUME BankerInv, [BankerNext]_bankerVars PROVE BankerInv'
  OBVIOUS
<1>1. CASE CheckState
  BY <1>1, CheckStateInv
<1>2. ASSUME NEW p \in Customers, NEW request \in Requests,
             TurnDown(p, request) \/ TryRequest(p, request)
      PROVE  BankerInv'
  BY <1>2, TurnDownInv, TryRequestInv
<1>3. CASE UNCHANGED bankerVars
  <2>1. BankerTypeOK'
    BY <1>3 DEF bankerVars, BankerInv, BankerTypeOK
  <2>2. Conserved'
    BY <1>3 DEF bankerVars, BankerInv, Conserved, Held
  <2>3. FinishInOrder(safeSequence, available, allocation)'
          <=> FinishInOrder(safeSequence, available, allocation)
    BY <1>3 DEF bankerVars, FinishInOrder, Held
  <2>4. SequenceIsSafe'
    BY <1>3, <2>3 DEF bankerVars, BankerInv, SequenceIsSafe, Orders
  <2>5. StaysSafe'
    BY <1>3, SafeKept DEF bankerVars, BankerInv, StaysSafe
  <2> QED
    BY <2>1, <2>2, <2>4, <2>5 DEF BankerInv
<1> QED
  BY <1>1, <1>2, <1>3 DEF BankerNext

\* The matrices keep their types, no process holds more than its maximum, and
\* requestResources never makes an entry of Available negative.
THEOREM BankerTyped == BankerSpec => []BankerTypeOK
<1>1. BankerInv => BankerTypeOK
  BY DEF BankerInv
<1> QED
  BY BankerInvInit, BankerStep, <1>1, PTL DEF BankerSpec

\* requestResources neither loses nor makes a unit of a resource, whatever it
\* grants, denies or rolls back.
THEOREM ResourcesConserved == BankerSpec => []Conserved
<1>1. BankerInv => Conserved
  BY DEF BankerInv
<1> QED
  BY BankerInvInit, BankerStep, <1>1, PTL DEF BankerSpec

\* The sequence isSafeState has found when it answers true is one in which all
\* processes can finish.
THEOREM SafeAnswersAreSafe == BankerSpec => []SequenceIsSafe
<1>1. BankerInv => SequenceIsSafe
  BY DEF BankerInv
<1> QED
  BY BankerInvInit, BankerStep, <1>1, PTL DEF BankerSpec

\* The banker never leaves the safe states.
THEOREM BankerStaysSafe == BankerSpec => []StaysSafe
<1>1. BankerInv => StaysSafe
  BY DEF BankerInv
<1> QED
  BY BankerInvInit, BankerStep, <1>1, PTL DEF BankerSpec

-----------------------------------------------------------------------------
(* The search of the detector.                                             *)

\* The processes whose calls have returned false.
Returned == visited \ recStack

\* The path names the calls in progress, each once, and follows edges.
PathInv ==
  /\ recStack = {cycle[k] : k \in 1..Len(cycle)}
  /\ \A j, k \in 1..Len(cycle) : cycle[j] = cycle[k] => j = k
  /\ \A k \in 1..Len(cycle) - 1 : WaitsFor(cycle[k], cycle[k + 1])

\* A call in progress is done with neighbors that have returned, and with the
\* one whose call is the next of the path.
PassedInv ==
  /\ \A k \in 1..Len(cycle) : \A q \in passed[cycle[k]] :
       q \in Returned \/ (k < Len(cycle) /\ q = cycle[k + 1])
  /\ \A p \in Processes \ visited : passed[p] = {}

\* A process that has returned waits only for such processes, and there is no
\* cycle among them.
ReturnedInv ==
  /\ \A p \in Returned : waitForGraph[p] \subseteq Returned
  /\ \A S \in SUBSET Returned : ~Entangled(S)

\* detectDeadlock has visited the processes it has come past.
RootsInv == \A p \in Processes : p < i => p \in visited

SearchInv == PathInv /\ PassedInv /\ ReturnedInv /\ RootsInv

DetectorInv ==
  /\ DetectorTypeOK
  /\ phase = "searching" => SearchInv
  /\ ReportedCycleIsReal
  /\ NoDeadlockMissed

-----------------------------------------------------------------------------
\* What a fresh search starts from.
Fresh ==
  /\ i = 0 /\ visited = {} /\ recStack = {} /\ cycle = <<>>
  /\ passed = [p \in Processes |-> {}]

LEMMA FreshSearch == Fresh => SearchInv
<1> SUFFICES ASSUME Fresh PROVE SearchInv
    OBVIOUS
<1> USE DEF Fresh
<1>1. PathInv
  BY DEF PathInv
<1>2. PassedInv
  BY DEF PassedInv
<1>3. ReturnedInv
  BY DEF ReturnedInv, Returned, Entangled
<1>4. RootsInv
  BY NumProcessesAssumption DEF RootsInv, Processes
<1>5. QED
  BY <1>1, <1>2, <1>3, <1>4 DEF SearchInv

\* The innermost call is one of those in progress.
LEMMA NodeFacts ==
  ASSUME DetectorTypeOK, PathInv, cycle # <<>>
  PROVE  /\ Len(cycle) \in Nat \ {0}
         /\ node = cycle[Len(cycle)]
         /\ node \in recStack /\ node \in visited /\ node \in Processes
<1>1. Len(cycle) \in Nat \ {0} /\ cycle[Len(cycle)] \in Processes
  BY DEF DetectorTypeOK
<1>2. node \in recStack
  BY <1>1 DEF PathInv, node
<1>3. QED
  BY <1>1, <1>2 DEF node, DetectorTypeOK

\* A call of hasCycleDFS with a process p not visited yet, the neighbor of
\* the innermost call if there is one.
LEMMA EnterInv ==
  ASSUME DetectorTypeOK, SearchInv, NEW p \in Processes, p \notin visited,
         Enter(p),
         cycle # <<>> => /\ WaitsFor(node, p)
                         /\ passed' = [passed EXCEPT ![node] = @ \union {p}],
         cycle = <<>> => passed' = passed,
         UNCHANGED <<waitForGraph, i>>
  PROVE  SearchInv'
<1> DEFINE n == Len(cycle)
<1>1. /\ cycle \in Seq(Processes) /\ n \in Nat
      /\ cycle' \in Seq(Processes)
      /\ Len(cycle') = n + 1
      /\ cycle'[n + 1] = p
      /\ \A k \in 1..n : cycle'[k] = cycle[k]
  BY DEF DetectorTypeOK, Enter
<1>2. /\ visited' = visited \union {p} /\ recStack' = recStack \union {p}
      /\ p \notin recStack
      /\ Returned' = Returned
  BY DEF Enter, DetectorTypeOK, Returned
<1>3. \A k \in 1..n : cycle[k] \in recStack /\ cycle[k] # p
  BY <1>2 DEF SearchInv, PathInv
<1>4. PathInv'
  <2>1. recStack' = {cycle'[k] : k \in 1..Len(cycle')}
    BY <1>1, <1>2 DEF SearchInv, PathInv
  <2>2. \A j, k \in 1..Len(cycle') : cycle'[j] = cycle'[k] => j = k
    BY <1>1, <1>3 DEF SearchInv, PathInv
  <2>3. ASSUME NEW k \in 1..Len(cycle') - 1
        PROVE  WaitsFor(cycle[k], cycle'[k + 1])
    <3>1. CASE k < n
      BY <1>1, <3>1 DEF SearchInv, PathInv
    <3>2. CASE k = n
      BY <1>1, <3>2 DEF node
    <3>3. QED
      BY <1>1, <3>1, <3>2
  <2>4. \A k \in 1..Len(cycle') - 1 : cycle'[k] = cycle[k]
    BY <1>1
  <2>5. \A k \in 1..Len(cycle') - 1 : cycle'[k + 1] \in waitForGraph'[cycle'[k]]
    BY <2>3, <2>4 DEF WaitsFor
  <2>6. QED
    BY <2>1, <2>2, <2>5 DEF PathInv, WaitsFor
<1>5. PassedInv'
  <2>1. passed[p] = {}
    BY DEF SearchInv, PassedInv
  <2>2. ASSUME NEW k \in 1..Len(cycle'), NEW q \in passed'[cycle'[k]]
        PROVE  q \in Returned \/ (k < Len(cycle') /\ q = cycle'[k + 1])
    <3>1. CASE k = n + 1
      <4>1. passed'[p] = {}
        <5>1. CASE cycle = <<>>
          BY <2>1, <5>1
        <5>2. CASE cycle # <<>>
          BY <2>1, <5>2, <1>2, NodeFacts DEF SearchInv, DetectorTypeOK
        <5>3. QED
          BY <5>1, <5>2
      <4>2. QED
        BY <3>1, <4>1, <1>1
    <3>2. CASE k \in 1..n
      <4>1. cycle # <<>> /\ cycle'[k] = cycle[k] /\ cycle[k] \in Processes
        BY <1>1, <3>2
      <4>2. CASE q \in passed[cycle[k]]
        BY <1>1, <3>2, <4>2 DEF SearchInv, PassedInv
      <4>3. CASE q \notin passed[cycle[k]]
        <5>1. q = p /\ cycle[k] = node
          BY <4>1, <4>3 DEF DetectorTypeOK
        <5>2. k = n
          BY <5>1, <4>1, <3>2, NodeFacts DEF SearchInv, PathInv
        <5>3. QED
          BY <5>1, <5>2, <1>1
      <4>4. QED
        BY <4>2, <4>3
    <3>3. QED
      BY <1>1, <3>1, <3>2
  <2>3. ASSUME NEW r \in Processes \ visited'
        PROVE  passed'[r] = {}
    <3>1. r \notin visited /\ passed[r] = {}
      BY <1>2 DEF SearchInv, PassedInv
    <3>2. CASE cycle = <<>>
      BY <3>1, <3>2
    <3>3. CASE cycle # <<>>
      BY <3>1, <3>3, NodeFacts DEF SearchInv, DetectorTypeOK
    <3>4. QED
      BY <3>2, <3>3
  <2>4. QED
    BY <1>2, <2>2, <2>3 DEF PassedInv
<1>6. ReturnedInv'
  BY <1>2 DEF SearchInv, ReturnedInv, Entangled, WaitsFor
<1>7. RootsInv'
  BY <1>2 DEF SearchInv, RootsInv
<1>8. QED
  BY <1>4, <1>5, <1>6, <1>7 DEF SearchInv

\* A call passes over a neighbor that has returned.
LEMMA PassInv ==
  ASSUME DetectorTypeOK, SearchInv, NEW p \in Processes, PassNeighbor(p)
  PROVE  SearchInv'
<1>1. cycle # <<>> /\ p \in Returned
  BY DEF PassNeighbor, NeighborsLeft, Returned
<1>2. /\ UNCHANGED <<waitForGraph, i, visited, recStack, cycle>>
      /\ Returned' = Returned
  BY DEF PassNeighbor, Returned
<1>3. PassedInv'
  <2>1. ASSUME NEW k \in 1..Len(cycle), NEW q \in passed'[cycle[k]]
        PROVE  q \in Returned \/ (k < Len(cycle) /\ q = cycle[k + 1])
    <3>1. cycle[k] \in Processes
      BY DEF DetectorTypeOK
    <3>2. q \in passed[cycle[k]] \/ q = p
      BY <3>1 DEF PassNeighbor, DetectorTypeOK
    <3>3. QED
      BY <3>2, <1>1 DEF SearchInv, PassedInv
  <2>2. ASSUME NEW r \in Processes \ visited
        PROVE  passed'[r] = {}
    BY <1>1, NodeFacts DEF SearchInv, PassedInv, PassNeighbor, DetectorTypeOK
  <2>3. QED
    BY <1>2, <2>1, <2>2 DEF PassedInv
<1>4. PathInv' /\ ReturnedInv' /\ RootsInv'
  BY <1>2 DEF SearchInv, PathInv, ReturnedInv, RootsInv, WaitsFor, Entangled
<1>5. QED
  BY <1>3, <1>4 DEF SearchInv

\* A call returns false: all its neighbors have returned, so that no cycle can
\* go through its process.
LEMMA ReturnStep ==
  ASSUME DetectorTypeOK, SearchInv, Return
  PROVE  SearchInv'
<1> DEFINE n == Len(cycle)
<1>1. /\ n \in Nat \ {0} /\ node = cycle[n]
      /\ node \in recStack /\ node \in visited /\ node \in Processes
  BY NodeFacts DEF Return, SearchInv
<1>2. /\ cycle \in Seq(Processes)
      /\ Len(cycle') = n - 1
      /\ \A k \in 1..n - 1 : cycle'[k] = cycle[k]
  <2>1. cycle \in Seq(Processes) /\ cycle' = SubSeq(cycle, 1, n - 1)
    BY DEF DetectorTypeOK, Return
  <2>2. \A k \in 1..n - 1 : cycle[k] \in Processes
    BY <1>1, <2>1
  <2>3. Len(cycle') = n - 1
    <3>1. Len(SubSeq(cycle, 1, n - 1)) = IF 1 <= n - 1 THEN (n - 1) - 1 + 1 ELSE 0
      <4> HIDE DEF n
      <4>1. n \in Nat \ {0} /\ n - 1 \in Int
        BY <1>1
      <4>2. QED
        BY <4>1, <2>2, SubSeqProperties
    <3>2. (IF 1 <= n - 1 THEN (n - 1) - 1 + 1 ELSE 0) = n - 1
      <4> HIDE DEF n
      <4>1. n \in Nat \ {0}
        BY <1>1
      <4>2. QED
        BY <4>1
    <3>3. QED
      <4> HIDE DEF n
      <4>1. QED
        BY <2>1, <3>1, <3>2
  <2>4. \A k \in 1..n - 1 : cycle'[k] = cycle[k]
    <3> TAKE k \in 1..n - 1
    <3>1. 1 + k - 1 = k /\ k \in 1..(n - 1) - 1 + 1
      BY <1>1
    <3>2. SubSeq(cycle, 1, n - 1)[k] = cycle[1 + k - 1]
      BY <1>1, <2>1, <2>2, <3>1, SubSeqProperties
    <3>3. QED
      BY <2>1, <3>1, <3>2
  <2>5. QED
    BY <2>1, <2>3, <2>4
<1>3. /\ recStack' = recStack \ {node}
      /\ UNCHANGED <<waitForGraph, i, visited, passed>>
      /\ Returned' = Returned \union {node}
      /\ node \notin Returned
  BY <1>1 DEF Return, Returned
<1>4. waitForGraph[node] \subseteq Returned
  <2>1. waitForGraph[node] \subseteq passed[node]
    BY DEF Return, NeighborsLeft
  <2>2. \A q \in passed[node] : q \in Returned
    BY <1>1 DEF SearchInv, PassedInv
  <2>3. QED
    BY <2>1, <2>2
<1>5. PathInv'
  <2>1. recStack' = {cycle'[k] : k \in 1..Len(cycle')}
    <3>1. \A k \in 1..n : cycle[k] # node <=> k # n
      BY <1>1 DEF SearchInv, PathInv
    <3>2. recStack \ {node} = {cycle[k] : k \in 1..n - 1}
      BY <1>1, <3>1 DEF SearchInv, PathInv
    <3>3. QED
      BY <1>2, <1>3, <3>2
  <2>2. \A j, k \in 1..Len(cycle') : cycle'[j] = cycle'[k] => j = k
    BY <1>1, <1>2 DEF SearchInv, PathInv
  <2>3. \A k \in 1..Len(cycle') - 1 : WaitsFor(cycle'[k], cycle'[k + 1])
    BY <1>1, <1>2 DEF SearchInv, PathInv
  <2>4. QED
    BY <1>3, <2>1, <2>2, <2>3 DEF PathInv, WaitsFor
<1>6. PassedInv'
  <2>1. ASSUME NEW k \in 1..n - 1, NEW q \in passed[cycle[k]]
        PROVE  q \in Returned' \/ (k < n - 1 /\ q = cycle'[k + 1])
    <3>1. q \in Returned \/ q = cycle[k + 1]
      BY <1>1 DEF SearchInv, PassedInv
    <3>2. CASE k = n - 1
      BY <1>1, <1>3, <3>1, <3>2
    <3>3. CASE k < n - 1
      BY <1>1, <1>2, <1>3, <3>1, <3>3
    <3>4. QED
      BY <1>1, <3>2, <3>3
  <2>2. QED
    BY <1>1, <1>2, <1>3, <2>1 DEF SearchInv, PassedInv
<1>7. ReturnedInv'
  <2>1. \A p \in Returned' : waitForGraph[p] \subseteq Returned'
    BY <1>3, <1>4 DEF SearchInv, ReturnedInv
  <2>2. ASSUME NEW S \in SUBSET Returned', Entangled(S)
        PROVE  FALSE
    <3>1. ASSUME NEW p \in S
          PROVE  \E q \in S \ {node} : WaitsFor(p, q)
      <4>1. PICK q \in S : WaitsFor(p, q)
        BY <2>2 DEF Entangled
      <4>2. q \in Returned
        BY <1>3, <1>4, <4>1 DEF SearchInv, ReturnedInv, WaitsFor
      <4>3. QED
        BY <4>1, <4>2, <1>3
    <3>2. Entangled(S \ {node})
      BY <3>1, <2>2 DEF Entangled
    <3>3. S \ {node} \in SUBSET Returned
      BY <1>3
    <3>4. QED
      BY <3>2, <3>3 DEF SearchInv, ReturnedInv
  <2>3. QED
    BY <1>3, <2>1, <2>2 DEF ReturnedInv, Entangled, WaitsFor
<1>8. RootsInv'
  BY <1>3 DEF SearchInv, RootsInv
<1>9. QED
  BY <1>5, <1>6, <1>7, <1>8 DEF SearchInv

\* The neighbor that ends the search and the path from it on are a cycle.
LEMMA FindCycleReports ==
  ASSUME DetectorTypeOK, SearchInv, NEW p \in Processes, FindCycle(p)
  PROVE  ReportedCycleIsReal' /\ deadlocked' \in Seq(Processes)
<1>1. cycle # <<>> /\ WaitsFor(node, p)
  BY DEF FindCycle, NeighborsLeft, WaitsFor
<1> DEFINE n == Len(cycle)
<1>2. n \in Nat \ {0} /\ node = cycle[n] /\ cycle \in Seq(Processes)
  BY <1>1, NodeFacts DEF SearchInv, DetectorTypeOK
<1>3. PICK start \in 1..n : /\ cycle[start] = p
                            /\ deadlocked' = SubSeq(cycle, start, n)
  BY DEF FindCycle
<1> DEFINE m == n - start + 1
<1>4. /\ m \in Nat \ {0}
      /\ deadlocked' \in Seq(Processes)
      /\ Len(deadlocked') = m
      /\ \A k \in 1..m : deadlocked'[k] = cycle[start + k - 1]
  BY <1>2, <1>3, SubSeqProperties
<1>5. waitForGraph' = waitForGraph
  BY DEF FindCycle
<1>6. \A k \in 1..m - 1 : WaitsFor(deadlocked'[k], deadlocked'[k + 1])
  <2> TAKE k \in 1..m - 1
  <2>1. start + k - 1 \in 1..n - 1 /\ start + (k + 1) - 1 = (start + k - 1) + 1
    BY <1>2
  <2>2. WaitsFor(cycle[start + k - 1], cycle[start + k])
    BY <1>2, <2>1 DEF SearchInv, PathInv
  <2>3. QED
    BY <1>2, <1>4, <2>2
<1>7. WaitsFor(deadlocked'[m], deadlocked'[1])
  BY <1>1, <1>2, <1>3, <1>4
<1>8. \A j, k \in 1..m : deadlocked'[j] = deadlocked'[k] => j = k
  <2> TAKE j, k \in 1..m
  <2>1. start + j - 1 \in 1..n /\ start + k - 1 \in 1..n
    BY <1>2
  <2>2. cycle[start + j - 1] = cycle[start + k - 1]
          => start + j - 1 = start + k - 1
    BY <2>1 DEF SearchInv, PathInv
  <2>3. QED
    BY <1>4, <2>2
<1>9. QED
  BY <1>4, <1>5, <1>6, <1>7, <1>8 DEF ReportedCycleIsReal, WaitsFor

\* No call is in progress and every process was visited: all have returned.
LEMMA FindNothingRight ==
  ASSUME DetectorTypeOK, SearchInv, FindNothing
  PROVE  NoDeadlockMissed'
<1>1. cycle = <<>> /\ i >= NumProcesses /\ waitForGraph' = waitForGraph
  BY DEF FindNothing
<1>2. recStack = {}
  BY <1>1 DEF SearchInv, PathInv
<1>3. Processes \subseteq Returned
  BY <1>1, <1>2, NumProcessesAssumption
    DEF SearchInv, RootsInv, Returned, Processes, DetectorTypeOK
<1>4. \A S \in SUBSET Processes : ~Entangled(S)
  BY <1>3 DEF SearchInv, ReturnedInv
<1>5. QED
  BY <1>1, <1>4 DEF NoDeadlockMissed, Entangled, WaitsFor

-----------------------------------------------------------------------------
LEMMA TypeInit == Init => DetectorTypeOK
BY NumProcessesAssumption
  DEF Init, DetectorTypeOK, Phases, Processes

\* The two calls of detectDeadlock begin alike.
LEMMA TypeBegin ==
  ASSUME DetectorTypeOK, BeginSearch, phase' = "searching", checked' \in 0..2,
         waitForGraph' \in [Processes -> SUBSET Processes],
         deadlocked' \in Seq(Processes)
  PROVE  DetectorTypeOK'
<1>1. i' \in 0..NumProcesses
  BY NumProcessesAssumption DEF BeginSearch
<1>2. cycle' \in Seq(Processes)
  BY DEF BeginSearch
<1>3. passed' \in [Processes -> SUBSET Processes]
  BY DEF BeginSearch
<1>4. recStack' \subseteq visited' /\ visited' \subseteq Processes
  BY DEF BeginSearch
<1>5. QED
  BY <1>1, <1>2, <1>3, <1>4 DEF DetectorTypeOK, Phases

LEMMA TypeStep ==
  ASSUME DetectorTypeOK, phase = "searching" => SearchInv, Next
  PROVE  DetectorTypeOK'
<1>1. ASSUME NEW p \in Processes, NEW q \in Processes, addWaitEdge(p, q)
      PROVE  DetectorTypeOK'
  BY <1>1 DEF addWaitEdge, search, DetectorTypeOK
<1>2. CASE BeginDetect
  BY <1>2, TypeBegin DEF BeginDetect, DetectorTypeOK
<1>3. CASE Recover
  <2>1. waitForGraph' \in [Processes -> SUBSET Processes]
    BY <1>3 DEF Recover, removeWaitEdges, DetectorTypeOK
  <2>2. deadlocked' \in Seq(Processes)
    BY <1>3 DEF Recover
  <2>3. QED
    BY <1>3, <2>1, <2>2, TypeBegin DEF Recover
<1>4. CASE SkipRoot
  BY <1>4, NumProcessesAssumption DEF SkipRoot, DetectorTypeOK
<1>5. CASE CallRoot
  <2>1. i \in Processes
    BY <1>5, NumProcessesAssumption DEF CallRoot, Processes, DetectorTypeOK
  <2>2. QED
    BY <1>5, <2>1 DEF CallRoot, Enter, DetectorTypeOK
<1>6. ASSUME NEW p \in Processes, CallNeighbor(p)
      PROVE  DetectorTypeOK'
  <2>1. cycle' \in Seq(Processes) /\ recStack' \subseteq visited'
        /\ visited' \subseteq Processes
    BY <1>6 DEF CallNeighbor, Enter, DetectorTypeOK
  <2>2. passed' \in [Processes -> SUBSET Processes]
    BY <1>6 DEF CallNeighbor, DetectorTypeOK
  <2>3. QED
    BY <1>6, <2>1, <2>2 DEF CallNeighbor, DetectorTypeOK
<1>7. ASSUME NEW p \in Processes, PassNeighbor(p)
      PROVE  DetectorTypeOK'
  BY <1>7 DEF PassNeighbor, DetectorTypeOK
<1>8. ASSUME NEW p \in Processes, FindCycle(p)
      PROVE  DetectorTypeOK'
  <2>1. deadlocked' \in Seq(Processes)
    BY <1>8, FindCycleReports DEF FindCycle
  <2>2. QED
    BY <1>8, <2>1 DEF FindCycle, search, DetectorTypeOK, Phases
<1>9. CASE Return
  <2>1. cycle # <<>> /\ Len(cycle) \in Nat \ {0}
    BY <1>9, NodeFacts DEF Return, SearchInv
  <2>2. cycle' \in Seq(Processes)
    BY <1>9, <2>1, SubSeqProperties DEF Return, DetectorTypeOK
  <2>3. QED
    BY <1>9, <2>2 DEF Return, DetectorTypeOK
<1>10. CASE FindNothing
  BY <1>10 DEF FindNothing, search, DetectorTypeOK, Phases
<1>11. CASE Ended
  BY <1>11 DEF Ended, vars, search, DetectorTypeOK
<1>12. QED
  BY <1>1, <1>2, <1>3, <1>4, <1>5, <1>6, <1>7, <1>8, <1>9, <1>10, <1>11
    DEF Next, SearchStep

\* Every step of a search keeps SearchInv, and the two steps that end one
\* have the right result.
LEMMA InvStep == DetectorInv /\ [Next]_vars => DetectorInv'
<1> SUFFICES ASSUME DetectorInv, [Next]_vars PROVE DetectorInv'
    OBVIOUS
<1> USE DEF DetectorInv
<1>1. CASE UNCHANGED vars
  BY <1>1 DEF vars, search, DetectorTypeOK, SearchInv, PathInv, PassedInv,
    ReturnedInv, RootsInv, Returned, NeighborsLeft, WaitsFor, Entangled,
    ReportedCycleIsReal, NoDeadlockMissed
<1>2. CASE Next
  <2>1. DetectorTypeOK'
    BY <1>2, TypeStep
  <2>2. ASSUME NEW p \in Processes, NEW q \in Processes, addWaitEdge(p, q)
        PROVE  DetectorInv'
    BY <2>1, <2>2 DEF addWaitEdge, ReportedCycleIsReal, NoDeadlockMissed
  <2>3. CASE BeginDetect \/ Recover
    <3>1. Fresh' /\ phase' = "searching"
      BY <2>3 DEF BeginDetect, Recover, BeginSearch, Fresh
    <3>2. (Fresh => SearchInv)'
      BY FreshSearch, PTL
    <3>3. QED
      BY <2>1, <3>1, <3>2 DEF ReportedCycleIsReal, NoDeadlockMissed
  <2>4. CASE SkipRoot
    <3>1. SearchInv'
      <4>1. PathInv' /\ PassedInv' /\ ReturnedInv'
        BY <2>4 DEF SkipRoot, SearchInv, PathInv, PassedInv, ReturnedInv,
          Returned, WaitsFor, Entangled
      <4>2. RootsInv'
        BY SMTT(30), <2>4, NumProcessesAssumption
          DEF SkipRoot, SearchInv, RootsInv, DetectorTypeOK, Processes
      <4>3. QED
        BY <4>1, <4>2 DEF SearchInv
    <3>2. QED
      BY <2>1, <2>4, <3>1 DEF SkipRoot, ReportedCycleIsReal, NoDeadlockMissed
  <2>5. CASE CallRoot
    <3>1. i \in Processes
      BY <2>5, NumProcessesAssumption DEF CallRoot, Processes, DetectorTypeOK
    <3>2. SearchInv'
      BY <2>5, <3>1, EnterInv DEF CallRoot
    <3>3. QED
      BY <2>1, <2>5, <3>2 DEF CallRoot, ReportedCycleIsReal, NoDeadlockMissed
  <2>6. ASSUME NEW p \in Processes, CallNeighbor(p)
        PROVE  DetectorInv'
    <3>1. cycle # <<>> /\ WaitsFor(node, p)
      BY <2>6 DEF CallNeighbor, NeighborsLeft, WaitsFor
    <3>2. SearchInv'
      BY <2>6, <3>1, EnterInv DEF CallNeighbor
    <3>3. QED
      BY <2>1, <2>6, <3>2 DEF CallNeighbor, ReportedCycleIsReal, NoDeadlockMissed
  <2>7. ASSUME NEW p \in Processes, PassNeighbor(p)
        PROVE  DetectorInv'
    BY <2>1, <2>7, PassInv DEF PassNeighbor, ReportedCycleIsReal, NoDeadlockMissed
  <2>8. ASSUME NEW p \in Processes, FindCycle(p)
        PROVE  DetectorInv'
    BY <2>1, <2>8, FindCycleReports DEF FindCycle, NoDeadlockMissed
  <2>9. CASE Return
    BY <2>1, <2>9, ReturnStep DEF Return, ReportedCycleIsReal, NoDeadlockMissed
  <2>10. CASE FindNothing
    BY <2>1, <2>10, FindNothingRight DEF FindNothing, ReportedCycleIsReal
  <2>11. CASE Ended
    BY <1>1, <2>11 DEF Ended
  <2>12. QED
    BY <1>2, <2>2, <2>3, <2>4, <2>5, <2>6, <2>7, <2>8, <2>9, <2>10, <2>11
      DEF Next, SearchStep
<1>3. QED
  BY <1>1, <1>2

LEMMA InvHolds == Spec => []DetectorInv
<1>1. Init => DetectorInv
  BY TypeInit DEF DetectorInv, Init, ReportedCycleIsReal, NoDeadlockMissed
<1>2. QED
  BY <1>1, InvStep, PTL DEF Spec

\* The search stays within the processes and the path is made of them.
THEOREM DetectorTyped == Spec => []DetectorTypeOK
<1>1. DetectorInv => DetectorTypeOK
  BY DEF DetectorInv
<1>2. QED
  BY <1>1, InvHolds, PTL

\* detectDeadlock is sound: what it reports as deadlocked is a cycle of the
\* wait-for graph, for every graph.
THEOREM DetectionSound == Spec => []ReportedCycleIsReal
<1>1. DetectorInv => ReportedCycleIsReal
  BY DEF DetectorInv
<1>2. QED
  BY <1>1, InvHolds, PTL

\* detectDeadlock is complete: when it reports nothing the graph has no
\* cycle.
THEOREM DetectionComplete == Spec => []NoDeadlockMissed
<1>1. DetectorInv => NoDeadlockMissed
  BY DEF DetectorInv
<1>2. QED
  BY <1>1, InvHolds, PTL
=============================================================================
