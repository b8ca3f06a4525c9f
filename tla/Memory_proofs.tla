---------------------------- MODULE Memory_proofs ----------------------------
(***************************************************************************)
(* Proofs for Memory: the FIFOs of Lab8 and Lab9 agree, the LRUs and the   *)
(* TLBs keep the pages that were referenced last, MemoryManager and        *)
(* BuddyAllocator implement the abstract allocator and fail only when they *)
(* must, BuddySystem refuses only what it has no block for and shares a    *)
(* block only after it made it twice, and page tables and segments lead no *)
(* two addresses to one.  Each program has an inductive invariant of its   *)
(* own.                                                                    *)
(***************************************************************************)
EXTENDS Memory, FiniteSetTheorems, SequenceTheorems, WellFoundedInduction, TLAPS

-----------------------------------------------------------------------------
(* Induction and iteration.                                                *)

\* Every set of natural numbers has a least one.
LEMMA LeastExists ==
  ASSUME NEW S \in SUBSET Nat, S # {}
  PROVE  \E m \in S : \A k \in S : m <= k
<1> DEFINE less == OpToRel(<, Nat)
<1>1. IsWellFoundedOn(less, Nat)
  BY NatLessThanWellFounded
<1>2. \A k, m \in Nat : k < m => <<k, m>> \in less
  BY DEF OpToRel
<1> HIDE DEF less
<1>3. PICK m \in S : \A k \in S : <<k, m>> \notin less
  BY <1>1, WFMin
<1>4. ASSUME NEW k \in S PROVE m <= k
  <2>1. k \in Nat /\ m \in Nat /\ ~(k < m)
    BY <1>2, <1>3
  <2> QED
    BY <2>1
<1> QED
  BY <1>4

LEMMA SetInduction ==
  ASSUME NEW S \in SUBSET Nat, 0 \in S, \A n \in S : n + 1 \in S
  PROVE  S = Nat
<1> SUFFICES ASSUME Nat \ S # {} PROVE FALSE
  OBVIOUS
<1>1. PICK m \in Nat \ S : \A k \in Nat \ S : m <= k
  BY LeastExists
<1>2. m # 0 /\ m - 1 \in Nat /\ m - 1 \notin S
  OBVIOUS
<1> QED
  BY <1>1, <1>2

\* The same up to a bound.
LEMMA BoundedInduction ==
  ASSUME NEW N \in Nat, NEW S, 0 \in S,
         \A n \in 0..N - 1 : n \in S => n + 1 \in S
  PROVE  0..N \subseteq S
<1> DEFINE T == {n \in Nat : n <= N => n \in S}
<1>1. 0 \in T
  OBVIOUS
<1>2. \A n \in T : n + 1 \in T
  OBVIOUS
<1>3. T = Nat
  <2> HIDE DEF T
  <2>1. T \in SUBSET Nat
    BY DEF T
  <2> QED
    BY <1>1, <1>2, <2>1, SetInduction
<1> QED
  BY <1>3

\* f starts from s, and each of its values follows from the one before by F.
Iterates(f, N, s, F) == f[0] = s /\ \A n \in 1..N : f[n] = F[n - 1][f[n - 1]]

\* There is such a function for every s and F.
LEMMA IterationExists ==
  ASSUME NEW N \in Nat, NEW S, NEW s \in S, NEW F \in [0..N - 1 -> [S -> S]]
  PROVE  \E f \in [0..N -> S] : Iterates(f, N, s, F)
<1> DEFINE Upto(m) == \E f \in [0..m -> S] :
                        f[0] = s /\ \A n \in 1..m : f[n] = F[n - 1][f[n - 1]]
           T == {m \in 0..N : Upto(m)}
<1>1. Upto(0)
  <2> DEFINE f == [n \in 0..0 |-> s]
  <2>1. f \in [0..0 -> S] /\ f[0] = s /\ \A n \in 1..0 : f[n] = F[n - 1][f[n - 1]]
    OBVIOUS
  <2> HIDE DEF f
  <2> QED
    BY <2>1
<1>2. ASSUME NEW m \in 0..N - 1, Upto(m)
      PROVE  Upto(m + 1)
  <2>1. PICK f \in [0..m -> S] : f[0] = s /\ \A n \in 1..m : f[n] = F[n - 1][f[n - 1]]
    BY <1>2
  <2> DEFINE g == [n \in 0..m + 1 |-> IF n = m + 1 THEN F[m][f[m]] ELSE f[n]]
  <2>2. g \in [0..m + 1 -> S]
    OBVIOUS
  <2>3. g[0] = s
    BY <2>1
  <2>4. ASSUME NEW n \in 1..m + 1
        PROVE  g[n] = F[n - 1][g[n - 1]]
    <3>1. CASE n = m + 1
      <4>1. n - 1 = m /\ g[n - 1] = f[m]
        BY <3>1
      <4> QED
        BY <3>1, <4>1
    <3>2. CASE n # m + 1
      <4>1. n \in 1..m /\ n - 1 \in 0..m /\ n - 1 # m + 1 /\ n \in 0..m
        BY <3>2
      <4> QED
        BY <2>1, <3>2, <4>1
    <3> QED
      BY <3>1, <3>2
  <2> HIDE DEF g
  <2> QED
    BY <2>2, <2>3, <2>4
<1>3. 0..N \subseteq T
  <2> HIDE DEF Upto
  <2>1. 0 \in T
    BY <1>1
  <2>2. \A m \in 0..N - 1 : m \in T => m + 1 \in T
    BY <1>2
  <2> HIDE DEF T
  <2> QED
    BY <2>1, <2>2, BoundedInduction
<1>4. N \in T
  <2> HIDE DEF T
  <2> QED
    BY <1>3
<1> QED
  BY <1>4 DEF Iterates


-----------------------------------------------------------------------------
(* MemoryManager: the memory map.                                          *)

FitBlocks == [startAddress : Nat, size : Nat \ {0}, processID : ProcessIDs \union {NoProcess}]

EndOfBlock(block) == block.startAddress + block.size

\* One block begins where the one before it ends.
Adjacent(map) ==
  \A k \in 1..Len(map) - 1 : map[k + 1].startAddress = EndOfBlock(map[k])

Ordered(map) ==
  \A j, k \in 1..Len(map) : j < k => EndOfBlock(map[j]) <= map[k].startAddress

\* Every unit below the address is in some block.
Covers(map, address) ==
  \A u \in 0..address - 1 : \E k \in 1..Len(map) :
    map[k].startAddress <= u /\ u < EndOfBlock(map[k])

\* The blocks follow each other up to the address.
Tiles(map, address) ==
  /\ map \in Seq(FitBlocks)
  /\ map # <<>>
  /\ Adjacent(map)
  /\ Ordered(map)
  /\ EndOfBlock(map[Len(map)]) = address
  /\ Covers(map, address)

NoFreeNeighbors(map) ==
  \A k \in 1..Len(map) - 1 : ~ (isFree(map[k]) /\ isFree(map[k + 1]))

\* The blocks in use.
Used(map) == {map[k] : k \in {k \in 1..Len(map) : ~isFree(map[k])}}

LEMMA NoProcessID == NoProcess \notin ProcessIDs
  BY FitAssumption DEF NoProcess

-----------------------------------------------------------------------------
(* MemoryManager: merging.                                                 *)

\* What the merged blocks are after the first n blocks of the map.
MergedInv(merged, map, n) ==
  IF n = 0 THEN merged = <<>>
  ELSE /\ Tiles(merged, EndOfBlock(map[n]))
       /\ NoFreeNeighbors(merged)
       /\ Used(merged) = {map[k] : k \in {k \in 1..n : ~isFree(map[k])}}

LEMMA FitBlockFacts ==
  ASSUME NEW block \in FitBlocks
  PROVE  /\ block.startAddress \in Nat /\ block.size \in Nat \ {0}
         /\ EndOfBlock(block) \in Nat /\ block.startAddress < EndOfBlock(block)
         /\ isFree(block) \/ block.processID \in ProcessIDs
  BY DEF FitBlocks, EndOfBlock, isFree

\* A block that goes into the last one makes that one longer.
LEMMA AbsorbJoins ==
  ASSUME NEW merged \in Seq(FitBlocks), NEW block \in FitBlocks,
         merged # <<>>, isFree(merged[Len(merged)]), isFree(block)
  PROVE  LET joined == Absorb(merged, block)
             n == Len(merged)
         IN /\ joined \in Seq(FitBlocks) /\ Len(joined) = n /\ n \in Nat \ {0}
            /\ \A k \in 1..n - 1 : joined[k] = merged[k]
            /\ joined[n].startAddress = merged[n].startAddress
            /\ joined[n].size = merged[n].size + block.size
            /\ isFree(joined[n])
<1> DEFINE joined == Absorb(merged, block)
           n == Len(merged)
           last == [merged[n] EXCEPT !.size = merged[n].size + block.size]
<1>1. n \in Nat \ {0} /\ n \in DOMAIN merged /\ merged[n] \in FitBlocks
  OBVIOUS
<1>2. /\ last \in FitBlocks
      /\ last.startAddress = merged[n].startAddress
      /\ last.size = merged[n].size + block.size
      /\ isFree(last)
  <2>1. PICK b \in FitBlocks : b = merged[n]
    BY <1>1
  <2>2. last = [startAddress |-> b.startAddress, size |-> b.size + block.size,
                processID |-> b.processID]
    BY <2>1 DEF FitBlocks
  <2>3. b.size + block.size \in Nat \ {0} /\ b.startAddress \in Nat /\ b.processID = NoProcess
    BY <2>1, FitBlockFacts DEF isFree
  <2> HIDE DEF last
  <2> QED
    BY <2>1, <2>2, <2>3 DEF FitBlocks, isFree
<1>3. joined = [merged EXCEPT ![n] = last]
  BY DEF Absorb, Last
<1> HIDE DEF joined, last
<1>4. joined \in Seq(FitBlocks) /\ Len(joined) = n
  BY <1>1, <1>2, <1>3
<1>5. joined[n] = last /\ \A k \in 1..n - 1 : joined[k] = merged[k]
  BY <1>1, <1>3
<1> QED
  BY <1>1, <1>2, <1>4, <1>5 DEF joined

LEMMA AbsorbTyped ==
  ASSUME NEW merged \in Seq(FitBlocks), NEW block \in FitBlocks
  PROVE  Absorb(merged, block) \in Seq(FitBlocks)
<1>1. CASE merged # <<>> /\ isFree(merged[Len(merged)]) /\ isFree(block)
  BY <1>1, AbsorbJoins
<1>2. CASE ~ (merged # <<>> /\ isFree(merged[Len(merged)]) /\ isFree(block))
  BY <1>2 DEF Absorb, Last
<1> QED
  BY <1>1, <1>2

\* The first block.
LEMMA AbsorbFirst ==
  ASSUME NEW block \in FitBlocks, block.startAddress = 0
  PROVE  /\ Absorb(<<>>, block) = <<block>>
         /\ Tiles(<<block>>, EndOfBlock(block))
<1> DEFINE map == <<block>>
<1>1. Absorb(<<>>, block) = map
  BY DEF Absorb
<1>2. map \in Seq(FitBlocks) /\ Len(map) = 1 /\ map[1] = block
  OBVIOUS
<1>3. EndOfBlock(block) \in Nat
  BY FitBlockFacts
<1> HIDE DEF map
<1>4. Adjacent(map) /\ Ordered(map)
  BY <1>2 DEF Adjacent, Ordered
<1>5. Covers(map, EndOfBlock(block))
  BY <1>2, <1>3 DEF Covers
<1> QED
  BY <1>1, <1>2, <1>4, <1>5 DEF Tiles, map

\* A block behind the last one goes to the end.
LEMMA AppendTiles ==
  ASSUME NEW map, NEW address \in Nat, Tiles(map, address),
         NEW block \in FitBlocks, block.startAddress = address
  PROVE  /\ Tiles(Append(map, block), EndOfBlock(block))
         /\ Used(Append(map, block)) = Used(map) \union (IF isFree(block) THEN {} ELSE {block})
<1> DEFINE n == Len(map)
           more == Append(map, block)
<1>1. /\ map \in Seq(FitBlocks) /\ n \in Nat \ {0}
      /\ more \in Seq(FitBlocks) /\ Len(more) = n + 1 /\ more[n + 1] = block
      /\ \A k \in 1..n : more[k] = map[k]
  BY DEF Tiles
<1> HIDE DEF more
<1>2. \A k \in 1..n : map[k] \in FitBlocks
  BY <1>1
<1>3. block.startAddress \in Nat /\ block.size \in Nat \ {0}
  BY DEF FitBlocks
<1>4. EndOfBlock(map[n]) = address /\ \A k \in 1..n : EndOfBlock(map[k]) <= address
  <2>1. EndOfBlock(map[n]) = address /\ map[n].startAddress < address
    BY <1>1, <1>2, FitBlockFacts DEF Tiles
  <2>2. \A k \in 1..n - 1 : EndOfBlock(map[k]) <= map[n].startAddress
    BY <1>1 DEF Tiles, Ordered
  <2>3. \A k \in 1..n : map[k].startAddress \in Nat /\ EndOfBlock(map[k]) \in Nat
    BY <1>2, FitBlockFacts
  <2> QED
    BY <1>1, <2>1, <2>2, <2>3
<1>5. Adjacent(more)
  BY <1>1, <1>4 DEF Tiles, Adjacent
<1>6. Ordered(more)
  BY <1>1, <1>4 DEF Tiles, Ordered
<1>7. Covers(more, EndOfBlock(block))
  <2> SUFFICES ASSUME NEW u \in 0..EndOfBlock(block) - 1
               PROVE  \E k \in 1..n + 1 : more[k].startAddress <= u /\ u < EndOfBlock(more[k])
    BY <1>1 DEF Covers
  <2>1. CASE u < address
    BY <1>1, <2>1 DEF Tiles, Covers
  <2>2. CASE u >= address
    BY <1>1, <1>3, <2>2 DEF EndOfBlock
  <2> QED
    BY <2>1, <2>2
<1>8. Used(more) = Used(map) \union (IF isFree(block) THEN {} ELSE {block})
  BY <1>1 DEF Used
<1> QED
  BY <1>1, <1>5, <1>6, <1>7, <1>8 DEF Tiles, more

\* A free block behind a free last one.
LEMMA JoinTiles ==
  ASSUME NEW map, NEW address \in Nat, Tiles(map, address), NoFreeNeighbors(map),
         NEW block \in FitBlocks, block.startAddress = address,
         isFree(map[Len(map)]), isFree(block)
  PROVE  /\ Tiles(Absorb(map, block), EndOfBlock(block))
         /\ NoFreeNeighbors(Absorb(map, block))
         /\ Used(Absorb(map, block)) = Used(map)
<1> DEFINE joined == Absorb(map, block)
           n == Len(map)
<1>1. /\ joined \in Seq(FitBlocks) /\ Len(joined) = n /\ n \in Nat \ {0}
      /\ \A k \in 1..n - 1 : joined[k] = map[k]
      /\ joined[n].startAddress = map[n].startAddress
      /\ joined[n].size = map[n].size + block.size
      /\ isFree(joined[n])
  BY AbsorbJoins DEF Tiles
<1> HIDE DEF joined
<1>2. \A k \in 1..n : joined[k] \in FitBlocks /\ map[k] \in FitBlocks
  BY <1>1 DEF Tiles
<1>3. \A k \in 1..n : /\ joined[k].startAddress = map[k].startAddress
                      /\ isFree(joined[k]) <=> isFree(map[k])
  BY <1>1
<1>4. /\ EndOfBlock(map[n]) = address
      /\ EndOfBlock(joined[n]) = EndOfBlock(block) /\ address < EndOfBlock(block)
      /\ EndOfBlock(block) \in Nat
  <2>1. EndOfBlock(map[n]) = address
    BY DEF Tiles
  <2>2. map[n].startAddress \in Nat /\ map[n].size \in Nat /\ block.size \in Nat \ {0}
    BY <1>1, <1>2, FitBlockFacts
  <2>3. /\ EndOfBlock(joined[n]) = map[n].startAddress + (map[n].size + block.size)
        /\ address = map[n].startAddress + map[n].size
        /\ EndOfBlock(block) = address + block.size
    BY <1>1, <2>1 DEF EndOfBlock
  <2> HIDE DEF n
  <2> QED
    BY <2>1, <2>2, <2>3
<1>5. Adjacent(joined)
  BY <1>1, <1>3 DEF Tiles, Adjacent
<1>6. Ordered(joined)
  BY <1>1, <1>3 DEF Tiles, Ordered
<1>7. NoFreeNeighbors(joined)
  <2>1. \A k \in 1..n - 1 : /\ isFree(joined[k]) <=> isFree(map[k])
                           /\ isFree(joined[k + 1]) <=> isFree(map[k + 1])
    BY <1>1, <1>3
  <2> QED
    BY <1>1, <2>1 DEF NoFreeNeighbors
<1>8. Covers(joined, EndOfBlock(block))
  <2> SUFFICES ASSUME NEW u \in 0..EndOfBlock(block) - 1
               PROVE  \E k \in 1..n : joined[k].startAddress <= u /\ u < EndOfBlock(joined[k])
    BY <1>1 DEF Covers
  <2>1. CASE u < address
    <3>1. PICK k \in 1..n : map[k].startAddress <= u /\ u < EndOfBlock(map[k])
      BY <2>1 DEF Tiles, Covers
    <3>2. CASE k = n
      BY <1>1, <1>3, <1>4, <3>1, <3>2
    <3>3. CASE k # n
      BY <1>1, <3>1, <3>3
    <3> QED
      BY <3>2, <3>3
  <2>2. CASE u >= address
    <3>1. map[n].startAddress < address /\ map[n].startAddress \in Nat
      BY <1>1, <1>2, <1>4, FitBlockFacts
    <3> QED
      BY <1>1, <1>4, <2>2, <3>1
  <2> QED
    BY <2>1, <2>2
<1>9. Used(joined) = Used(map)
  <2>1. \A k \in 1..n : ~isFree(map[k]) => k \in 1..n - 1
    BY <1>1
  <2>2. \A k \in 1..n : ~isFree(map[k]) => joined[k] = map[k]
    BY <1>1, <2>1
  <2> QED
    BY <1>1, <1>3, <2>2 DEF Used
<1> QED
  BY <1>1, <1>4, <1>5, <1>6, <1>7, <1>8, <1>9 DEF Tiles, joined

LEMMA MergeStep ==
  ASSUME NEW map, Tiles(map, TOTAL_MEMORY), NEW n \in 0..Len(map) - 1,
         map[1].startAddress = 0,
         NEW merged, MergedInv(merged, map, n)
  PROVE  MergedInv(Absorb(merged, map[n + 1]), map, n + 1)
<1> DEFINE block == map[n + 1]
           next == Absorb(merged, block)
           UsedUpto(m) == {map[k] : k \in {k \in 1..m : ~isFree(map[k])}}
<1>1. map \in Seq(FitBlocks) /\ n + 1 \in 1..Len(map) /\ Len(map) \in Nat /\ block \in FitBlocks
  BY DEF Tiles
<1>2. UsedUpto(n + 1) = UsedUpto(n) \union (IF isFree(block) THEN {} ELSE {block})
  BY <1>1
<1>3. CASE n = 0
  <2>1. merged = <<>> /\ block.startAddress = 0
    BY <1>3 DEF MergedInv
  <2>2. next = <<block>> /\ Tiles(<<block>>, EndOfBlock(block))
    BY <1>1, <2>1, AbsorbFirst
  <2>3. NoFreeNeighbors(<<block>>)
    BY DEF NoFreeNeighbors
  <2>4. UsedUpto(n) = {}
    BY <1>3
  <2>5. Used(<<block>>) = IF isFree(block) THEN {} ELSE {block}
    BY DEF Used
  <2> HIDE DEF next, UsedUpto, block
  <2>6. Used(<<block>>) = UsedUpto(n + 1)
    BY <1>2, <2>4, <2>5
  <2> QED
    BY <1>3, <2>2, <2>3, <2>6 DEF MergedInv, next, UsedUpto, block
<1>4. CASE n # 0
  <2>1. /\ n \in 1..Len(map) - 1 /\ map[n] \in FitBlocks /\ n + 1 # 0
        /\ block.startAddress = EndOfBlock(map[n])
    BY <1>1, <1>4 DEF Tiles, Adjacent
  <2>2. /\ Tiles(merged, EndOfBlock(map[n])) /\ NoFreeNeighbors(merged)
        /\ Used(merged) = UsedUpto(n)
    BY <1>4 DEF MergedInv
  <2>3. EndOfBlock(map[n]) \in Nat /\ merged # <<>>
    BY <2>1, <2>2, FitBlockFacts DEF Tiles
  <2> HIDE DEF UsedUpto, block
  <2>4. CASE isFree(merged[Len(merged)]) /\ isFree(block)
    <3>1. /\ Tiles(next, EndOfBlock(block)) /\ NoFreeNeighbors(next)
          /\ Used(next) = Used(merged)
      BY <1>1, <2>1, <2>2, <2>3, <2>4, JoinTiles
    <3>2. Used(next) = UsedUpto(n + 1)
      BY <1>2, <2>2, <2>4, <3>1
    <3> HIDE DEF next
    <3> QED
      BY <2>1, <3>1, <3>2 DEF MergedInv, next, UsedUpto, block
  <2>5. CASE ~ (isFree(merged[Len(merged)]) /\ isFree(block))
    <3>1. next = Append(merged, block)
      BY <2>3, <2>5 DEF Absorb, Last
    <3>2. /\ Tiles(next, EndOfBlock(block))
          /\ Used(next) = Used(merged) \union (IF isFree(block) THEN {} ELSE {block})
      BY <1>1, <2>1, <2>2, <2>3, <3>1, AppendTiles
    <3>3. NoFreeNeighbors(next)
      <4>1. merged \in Seq(FitBlocks) /\ Len(merged) \in Nat
        BY <2>2 DEF Tiles
      <4>2. /\ Len(next) = Len(merged) + 1 /\ next[Len(merged) + 1] = block
            /\ \A k \in 1..Len(merged) : next[k] = merged[k]
        BY <1>1, <3>1, <4>1
      <4> HIDE DEF next
      <4> QED
        BY SMTT(30), <2>2, <2>5, <4>1, <4>2 DEF NoFreeNeighbors
    <3>4. Used(next) = UsedUpto(n + 1)
      BY <1>2, <2>2, <3>2
    <3> HIDE DEF next
    <3> QED
      BY <2>1, <3>2, <3>3, <3>4 DEF MergedInv, next, UsedUpto, block
  <2> QED
    BY <2>4, <2>5
<1> QED
  BY <1>3, <1>4

\* What merging does to a map whose blocks tile the memory.
LEMMA MergeTiles ==
  ASSUME NEW map, Tiles(map, TOTAL_MEMORY), map[1].startAddress = 0
  PROVE  LET merged == mergeAdjacentFreeBlocks(map) IN
         /\ Tiles(merged, TOTAL_MEMORY)
         /\ NoFreeNeighbors(merged)
         /\ Used(merged) = Used(map)
<1> DEFINE L == Len(map)
           Maps == Seq(FitBlocks)
           F == [n \in 0..L - 1 |-> [merged \in Maps |-> Absorb(merged, map[n + 1])]]
           Merged[n \in 0..L] ==
             IF n = 0 THEN <<>> ELSE Absorb(Merged[n - 1], map[n])
<1>0. /\ L \in Nat \ {0} /\ \A n \in 1..L : map[n] \in FitBlocks
      /\ <<>> \in Maps /\ EndOfBlock(map[L]) = TOTAL_MEMORY
  BY DEF Tiles
<1>1. F \in [0..L - 1 -> [Maps -> Maps]]
  <2>1. ASSUME NEW n \in 0..L - 1, NEW merged \in Maps
        PROVE  Absorb(merged, map[n + 1]) \in Maps
    <3>1. map[n + 1] \in FitBlocks
      BY <1>0
    <3> QED
      BY <3>1, AbsorbTyped
  <2> HIDE DEF Maps
  <2> QED
    BY <2>1
<1>2. PICK f \in [0..L -> Maps] : Iterates(f, L, <<>>, F)
  <2> HIDE DEF F, Merged, Maps, L
  <2>1. L \in Nat /\ <<>> \in Maps
    BY <1>0
  <2> QED
    BY <1>1, <2>1, IterationExists
<1>3. f = [n \in 0..L |-> IF n = 0 THEN <<>> ELSE Absorb(f[n - 1], map[n])]
  <2> HIDE DEF Merged, Maps, L
  <2>1. ASSUME NEW n \in 1..L
        PROVE  f[n] = Absorb(f[n - 1], map[n])
    <3>1. n - 1 \in 0..L - 1 /\ f[n - 1] \in Maps /\ (n - 1) + 1 = n
      BY <1>0
    <3>2. F[n - 1][f[n - 1]] = Absorb(f[n - 1], map[n])
      BY <3>1
    <3> QED
      BY <1>2, <3>2 DEF Iterates
  <2> HIDE DEF F
  <2>2. f = [n \in 0..L |-> f[n]]
    OBVIOUS
  <2>3. \A n \in 0..L : f[n] = IF n = 0 THEN <<>> ELSE Absorb(f[n - 1], map[n])
    BY <1>0, <1>2, <2>1 DEF Iterates
  <2> QED
    BY <2>2, <2>3
<1>4. Merged = [n \in 0..L |-> IF n = 0 THEN <<>> ELSE Absorb(Merged[n - 1], map[n])]
  BY <1>3
<1>5. mergeAdjacentFreeBlocks(map) = Merged[L]
  BY DEF mergeAdjacentFreeBlocks
<1> HIDE DEF Merged, F, Maps, L
<1>6. Merged[0] = <<>> /\ \A n \in 1..L : Merged[n] = Absorb(Merged[n - 1], map[n])
  BY <1>0, <1>4
<1> DEFINE Fine == {n \in 0..L : MergedInv(Merged[n], map, n)}
<1>7. 0 \in Fine
  BY <1>0, <1>6 DEF MergedInv
<1>8. ASSUME NEW n \in 0..L - 1, n \in Fine
      PROVE  n + 1 \in Fine
  <2>1. n + 1 \in 1..L /\ n + 1 \in 0..L /\ (n + 1) - 1 = n
    BY <1>0
  <2>2. Merged[n + 1] = Absorb(Merged[n], map[n + 1])
    BY <1>6, <2>1
  <2>3. MergedInv(Merged[n + 1], map, n + 1)
    BY <1>8, <2>2, MergeStep DEF L
  <2> QED
    BY <2>1, <2>3
<1>9. L \in Fine
  <2> HIDE DEF Fine
  <2>1. L \in Nat
    BY <1>0
  <2>2. 0..L \subseteq Fine
    BY <1>7, <1>8, <2>1, BoundedInduction
  <2> QED
    BY <2>1, <2>2
<1>10. /\ Tiles(Merged[L], TOTAL_MEMORY)
       /\ NoFreeNeighbors(Merged[L])
       /\ Used(Merged[L]) = {map[k] : k \in {k \in 1..L : ~isFree(map[k])}}
  BY <1>0, <1>9 DEF MergedInv
<1> QED
  BY <1>5, <1>10 DEF Used, L

-----------------------------------------------------------------------------
(* MemoryManager: splitting and freeing.                                   *)

\* more is s with e put in at place k.
InsertedAt(more, s, k, e, S) ==
  /\ more \in Seq(S) /\ Len(more) = Len(s) + 1
  /\ \A j \in 1..k - 1 : more[j] = s[j]
  /\ more[k] = e
  /\ \A j \in k + 1..Len(s) + 1 : more[j] = s[j - 1]

LEMMA InsertAtElements ==
  ASSUME NEW S, NEW s \in Seq(S), NEW e \in S, NEW k \in 1..Len(s) + 1
  PROVE  InsertedAt(InsertAt(s, k, e), s, k, e, S)
<1> DEFINE n == Len(s)
           front == SubSeq(s, 1, k - 1)
           back == SubSeq(s, k, n)
<1>1. n \in Nat /\ k \in Nat \ {0}
  OBVIOUS
<1>2. front \in Seq(S) /\ Len(front) = k - 1 /\ \A j \in 1..k - 1 : front[j] = s[j]
  BY <1>1
<1>3. /\ back \in Seq(S) /\ Len(back) = n - k + 1
      /\ \A j \in 1..n - k + 1 : back[j] = s[k + j - 1]
  BY <1>1
<1>4. InsertAt(s, k, e) = (front \o <<e>>) \o back
  BY DEF InsertAt
<1> HIDE DEF front, back
<1> DEFINE most == front \o <<e>>
<1>5. /\ most \in Seq(S) /\ Len(most) = k /\ most[k] = e
      /\ \A j \in 1..k - 1 : most[j] = s[j]
  BY <1>1, <1>2
<1> HIDE DEF most
<1>6. /\ most \o back \in Seq(S) /\ Len(most \o back) = n + 1
      /\ \A j \in 1..k : (most \o back)[j] = most[j]
      /\ \A j \in k + 1..n + 1 : (most \o back)[j] = back[j - k]
  <2> DEFINE whole == most \o back
  <2>1. /\ whole \in Seq(S) /\ Len(whole) = Len(most) + Len(back)
        /\ \A j \in 1..Len(most) + Len(back) :
             whole[j] = IF j <= Len(most) THEN most[j] ELSE back[j - Len(most)]
    BY <1>3, <1>5, ConcatProperties
  <2> HIDE DEF whole
  <2>2. Len(whole) = n + 1 /\ \A j \in 1..n + 1 : whole[j] = IF j <= k THEN most[j] ELSE back[j - k]
    BY <1>1, <1>3, <1>5, <2>1
  <2>3. \A j \in 1..k : j \in 1..n + 1 /\ j <= k
    BY <1>1
  <2>4. \A j \in k + 1..n + 1 : j \in 1..n + 1 /\ ~(j <= k)
    BY <1>1
  <2>5. /\ \A j \in 1..k : whole[j] = most[j]
        /\ \A j \in k + 1..n + 1 : whole[j] = back[j - k]
    BY <2>2, <2>3, <2>4
  <2> QED
    BY <2>1, <2>2, <2>5 DEF whole
<1>7. \A j \in k + 1..n + 1 : (most \o back)[j] = s[j - 1]
  <2> TAKE j \in k + 1..n + 1
  <2>1. j - k \in 1..n - k + 1 /\ k + (j - k) - 1 = j - 1
    BY <1>1
  <2> QED
    BY <1>3, <1>6, <2>1
<1>8. \A j \in 1..k - 1 : (most \o back)[j] = s[j]
  BY <1>1, <1>5, <1>6
<1>9. (most \o back)[k] = e
  BY <1>1, <1>5, <1>6
<1> QED
  BY <1>4, <1>6, <1>7, <1>8, <1>9 DEF most, InsertedAt

\* split is the map with two blocks in place of block k.
SplitInTwo(split, map, k, lower, upper) ==
  /\ Len(split) = Len(map) + 1
  /\ \A j \in 1..k - 1 : split[j] = map[j]
  /\ split[k] = lower
  /\ split[k + 1] = upper
  /\ \A j \in k + 2..Len(map) + 1 : j - 1 \in k + 1..Len(map) /\ split[j] = map[j - 1]

\* Block k of the map is replaced by two that fill the same units.
LEMMA SplitTiles ==
  ASSUME NEW map, NEW address \in Nat, Tiles(map, address), NEW k \in 1..Len(map),
         NEW lower \in FitBlocks, NEW upper \in FitBlocks,
         lower.startAddress = map[k].startAddress,
         upper.startAddress = EndOfBlock(lower),
         EndOfBlock(upper) = EndOfBlock(map[k])
  PROVE  LET split == InsertAt([map EXCEPT ![k] = lower], k + 1, upper) IN
         /\ Tiles(split, address)
         /\ SplitInTwo(split, map, k, lower, upper)
<1> DEFINE n == Len(map)
           mine == [map EXCEPT ![k] = lower]
           split == InsertAt(mine, k + 1, upper)
<1>1. /\ n \in Nat \ {0} /\ map \in Seq(FitBlocks)
      /\ mine \in Seq(FitBlocks) /\ Len(mine) = n /\ mine[k] = lower
      /\ \A j \in 1..n : j # k => mine[j] = map[j]
      /\ k + 1 \in 1..n + 1
  BY DEF Tiles
<1> HIDE DEF mine
<1>2. /\ split \in Seq(FitBlocks) /\ Len(split) = n + 1
      /\ \A j \in 1..k : split[j] = mine[j]
      /\ split[k + 1] = upper
      /\ \A j \in k + 2..n + 1 : split[j] = mine[j - 1]
  <2>1. PICK m : m = k + 1
    OBVIOUS
  <2>2. m \in 1..Len(mine) + 1 /\ m - 1 = k /\ m + 1 = k + 2
    BY <1>1, <2>1
  <2>3. split = InsertAt(mine, m, upper)
    BY <2>1
  <2>4. InsertedAt(InsertAt(mine, m, upper), mine, m, upper, FitBlocks)
    BY <1>1, <2>2, InsertAtElements
  <2> HIDE DEF split
  <2>5. InsertedAt(split, mine, m, upper, FitBlocks)
    BY <2>3, <2>4
  <2> QED
    BY <1>1, <2>1, <2>2, <2>5 DEF InsertedAt
<1> HIDE DEF split
<1>3. /\ \A j \in 1..k - 1 : split[j] = map[j]
      /\ split[k] = lower
      /\ split[k + 1] = upper
      /\ \A j \in k + 2..n + 1 : j - 1 \in k + 1..n /\ split[j] = map[j - 1]
  <2>1. ASSUME NEW j \in 1..k - 1 PROVE split[j] = map[j]
    <3>1. j \in 1..k /\ j \in 1..n /\ j # k
      BY <1>1
    <3> QED
      BY <1>1, <1>2, <3>1
  <2>2. ASSUME NEW j \in k + 2..n + 1 PROVE j - 1 \in k + 1..n /\ split[j] = map[j - 1]
    <3>1. j - 1 \in k + 1..n /\ j - 1 \in 1..n /\ j - 1 # k
      BY <1>1
    <3> QED
      BY <1>1, <1>2, <3>1
  <2>3. split[k] = lower
    BY <1>1, <1>2
  <2> QED
    BY <1>2, <2>1, <2>2, <2>3
<1>4. /\ lower.startAddress \in Nat /\ EndOfBlock(lower) \in Nat /\ EndOfBlock(upper) \in Nat
      /\ lower.startAddress < EndOfBlock(lower)
      /\ EndOfBlock(lower) < EndOfBlock(upper)
  BY FitBlockFacts
<1>5. \A j \in 1..n : map[j].startAddress \in Nat /\ EndOfBlock(map[j]) \in Nat
  BY <1>1, FitBlockFacts
<1>6. Adjacent(split)
  <2> SUFFICES ASSUME NEW j \in 1..n
               PROVE  split[j + 1].startAddress = EndOfBlock(split[j])
    BY <1>1, <1>2 DEF Adjacent
  <2>1. CASE j < k - 1
    BY <1>1, <1>3, <2>1 DEF Tiles, Adjacent
  <2>2. CASE j = k - 1
    BY <1>1, <1>3, <2>2 DEF Tiles, Adjacent
  <2>3. CASE j = k
    BY <1>3, <2>3
  <2>4. CASE j = k + 1
    <3>1. split[j + 1] = map[k + 1] /\ k \in 1..n - 1
      BY <1>1, <1>3, <2>4
    <3> QED
      BY <1>3, <2>4, <3>1 DEF Tiles, Adjacent
  <2>5. CASE j > k + 1
    <3>1. /\ j + 1 \in k + 2..n + 1 /\ (j + 1) - 1 = j /\ j \in k + 2..n + 1
          /\ j - 1 \in 1..n - 1 /\ (j - 1) + 1 = j
      BY <1>1, <2>5
    <3>2. split[j + 1] = map[j] /\ split[j] = map[j - 1]
      BY <1>3, <3>1
    <3>3. map[(j - 1) + 1].startAddress = EndOfBlock(map[j - 1])
      BY <3>1 DEF Tiles, Adjacent
    <3> QED
      BY <3>1, <3>2, <3>3
  <2> QED
    BY <1>1, <2>1, <2>2, <2>3, <2>4, <2>5
<1>7. \A j \in 1..n : j < k => EndOfBlock(map[j]) <= lower.startAddress
  BY DEF Tiles, Ordered
<1>8. \A j \in 1..n : j > k => EndOfBlock(upper) <= map[j].startAddress
  BY DEF Tiles, Ordered
<1>9. Ordered(split)
  <2> SUFFICES ASSUME NEW a \in 1..n + 1, NEW b \in 1..n + 1, a < b
               PROVE  EndOfBlock(split[a]) <= split[b].startAddress
    BY <1>2 DEF Ordered
  <2>1. CASE b < k
    BY <1>1, <1>3, <2>1 DEF Tiles, Ordered
  <2>2. CASE b = k
    <3>1. a \in 1..n /\ a < k /\ split[a] = map[a] /\ split[b] = lower
      BY <1>1, <1>3, <2>2
    <3> QED
      BY <1>7, <3>1
  <2>3. CASE b = k + 1 /\ a = k
    BY <1>3, <1>4, <2>3
  <2>4. CASE b = k + 1 /\ a < k
    <3>1. split[a] = map[a] /\ a \in 1..n /\ EndOfBlock(map[a]) <= lower.startAddress
      BY <1>1, <1>3, <1>7, <2>4
    <3> QED
      BY <1>3, <1>4, <1>5, <2>4, <3>1
  <2>5. CASE b > k + 1
    <3>1. split[b] = map[b - 1] /\ b - 1 \in 1..n /\ b - 1 > k
      BY <1>1, <1>3, <2>5
    <3>2. EndOfBlock(upper) <= map[b - 1].startAddress /\ map[b - 1].startAddress \in Nat
      BY <1>5, <1>8, <3>1
    <3>3. CASE a < k
      <4>1. split[a] = map[a] /\ a \in 1..n /\ a < b - 1
        BY <1>1, <1>3, <3>1, <3>3
      <4> QED
        BY <3>1, <4>1 DEF Tiles, Ordered
    <3>4. CASE a = k
      BY <1>3, <1>4, <3>1, <3>2, <3>4
    <3>5. CASE a = k + 1
      BY <1>3, <3>1, <3>2, <3>5
    <3>6. CASE a > k + 1
      <4>1. split[a] = map[a - 1] /\ a - 1 \in 1..n /\ a - 1 < b - 1
        BY <1>1, <1>3, <3>1, <3>6
      <4> QED
        BY <3>1, <4>1 DEF Tiles, Ordered
    <3> QED
      BY <1>1, <3>3, <3>4, <3>5, <3>6
  <2> QED
    BY <1>1, <2>1, <2>2, <2>3, <2>4, <2>5
<1>10. EndOfBlock(split[n + 1]) = address
  <2>1. CASE k = n
    BY <1>3, <2>1 DEF Tiles
  <2>2. CASE k < n
    <3>1. split[n + 1] = map[n]
      BY <1>1, <1>3, <2>2
    <3> QED
      BY <3>1 DEF Tiles
  <2> QED
    BY <1>1, <2>1, <2>2
<1>11. Covers(split, address)
  <2> SUFFICES ASSUME NEW u \in 0..address - 1
               PROVE  \E j \in 1..n + 1 : split[j].startAddress <= u /\ u < EndOfBlock(split[j])
    BY <1>2 DEF Covers
  <2>1. PICK j \in 1..n : map[j].startAddress <= u /\ u < EndOfBlock(map[j])
    BY DEF Tiles, Covers
  <2>2. CASE j < k
    <3>1. j \in 1..k - 1 /\ j \in 1..n + 1
      BY <1>1, <2>2
    <3> QED
      BY <1>3, <2>1, <3>1
  <2>3. CASE j > k
    <3>1. j + 1 \in k + 2..n + 1 /\ (j + 1) - 1 = j
      BY <1>1, <2>3
    <3>2. split[j + 1] = map[j] /\ j + 1 \in 1..n + 1
      BY <1>1, <1>3, <3>1
    <3> QED
      BY <2>1, <3>2
  <2>4. CASE j = k
    <3>1. CASE u < EndOfBlock(lower)
      <4>1. k \in 1..n + 1
        BY <1>1
      <4> QED
        BY <1>3, <2>1, <2>4, <3>1, <4>1
    <3>2. CASE u >= EndOfBlock(lower)
      <4>1. k + 1 \in 1..n + 1
        BY <1>1
      <4> QED
        BY <1>3, <2>1, <2>4, <3>2, <4>1
    <3> QED
      BY <1>4, <3>1, <3>2
  <2> QED
    BY <2>2, <2>3, <2>4
<1>12. split # <<>> /\ Len(split) = n + 1
  BY <1>1, <1>2
<1>13. Tiles(split, address)
  BY <1>2, <1>6, <1>9, <1>10, <1>11, <1>12 DEF Tiles
<1>14. SplitInTwo(split, map, k, lower, upper)
  BY <1>3, <1>12 DEF SplitInTwo
<1> QED
  BY <1>13, <1>14 DEF split, mine

LEMMA TilesFromZero ==
  ASSUME NEW map, NEW address \in Nat \ {0}, Tiles(map, address)
  PROVE  map[1].startAddress = 0
<1>1. /\ Len(map) \in Nat \ {0}
      /\ \A k \in 1..Len(map) : map[k] \in FitBlocks
  BY DEF Tiles
<1>2. PICK k \in 1..Len(map) : map[k].startAddress <= 0
  <2>1. 0 \in 0..address - 1
    OBVIOUS
  <2> QED
    BY <2>1 DEF Tiles, Covers
<1>3. \A j \in 1..Len(map) : map[j].startAddress \in Nat /\ EndOfBlock(map[j]) > 0
                             /\ EndOfBlock(map[j]) \in Nat
  BY <1>1, FitBlockFacts
<1>4. k = 1
  BY <1>1, <1>2, <1>3 DEF Tiles, Ordered
<1> QED
  BY <1>2, <1>3, <1>4

\* Block k of the map is replaced by one that fills the same units.
LEMMA ReplaceTiles ==
  ASSUME NEW map, NEW address \in Nat, Tiles(map, address), NEW k \in 1..Len(map),
         NEW block \in FitBlocks,
         block.startAddress = map[k].startAddress, EndOfBlock(block) = EndOfBlock(map[k])
  PROVE  Tiles([map EXCEPT ![k] = block], address)
<1> DEFINE mine == [map EXCEPT ![k] = block]
<1>1. /\ mine \in Seq(FitBlocks) /\ Len(mine) = Len(map) /\ Len(map) \in Nat \ {0}
      /\ \A j \in 1..Len(map) : /\ mine[j].startAddress = map[j].startAddress
                               /\ EndOfBlock(mine[j]) = EndOfBlock(map[j])
  BY DEF Tiles
<1> HIDE DEF mine
<1>2. Adjacent(mine)
  BY <1>1 DEF Tiles, Adjacent
<1>3. Ordered(mine)
  BY <1>1 DEF Tiles, Ordered
<1>4. Covers(mine, address)
  BY <1>1 DEF Tiles, Covers
<1>5. mine # <<>> /\ EndOfBlock(mine[Len(mine)]) = address
  BY <1>1 DEF Tiles
<1>6. Tiles(mine, address)
  BY <1>1, <1>2, <1>3, <1>4, <1>5 DEF Tiles
<1> QED
  BY <1>6 DEF mine

\* An allocation splits a hole, or takes it whole.
LEMMA TakenTiles ==
  ASSUME Tiles(blocks, TOTAL_MEMORY), NoFreeNeighbors(blocks),
         NEW size \in Nat \ {0}, NEW pid \in ProcessIDs, NEW i \in Holes(size)
  PROVE  LET mine == Block(blocks[i].startAddress, size, pid) IN
         /\ Tiles(Taken(i, pid, size), TOTAL_MEMORY)
         /\ NoFreeNeighbors(Taken(i, pid, size))
         /\ Used(Taken(i, pid, size)) = Used(blocks) \union {mine}
         /\ mine \in FitBlocks /\ ~isFree(mine)
         /\ EndOfBlock(mine) <= EndOfBlock(blocks[i])
<1> DEFINE hole == blocks[i]
           mine == Block(hole.startAddress, size, pid)
           rest == Block(hole.startAddress + size, hole.size - size, NoProcess)
           n == Len(blocks)
           next == Taken(i, pid, size)
<1>1. /\ i \in 1..n /\ n \in Nat \ {0} /\ isFree(hole) /\ hole.size >= size
      /\ \A j \in 1..n : blocks[j] \in FitBlocks
  BY DEF Holes, Tiles
<1>2. /\ hole.startAddress \in Nat /\ hole.size \in Nat \ {0}
      /\ mine.startAddress = hole.startAddress
      /\ EndOfBlock(mine) = hole.startAddress + size
      /\ mine.processID = pid
  BY <1>1, FitBlockFacts DEF Block, EndOfBlock
<1>3. mine \in FitBlocks /\ ~isFree(mine)
  BY <1>2, NoProcessID DEF Block, FitBlocks, isFree
<1>4. TOTAL_MEMORY \in Nat
  BY FitAssumption
<1>5. CASE hole.size > size
  <2>1. /\ rest \in FitBlocks /\ isFree(rest)
        /\ rest.startAddress = EndOfBlock(mine)
        /\ EndOfBlock(rest) = EndOfBlock(hole)
    BY <1>2, <1>5 DEF Block, FitBlocks, isFree, EndOfBlock
  <2>2. next = InsertAt([blocks EXCEPT ![i] = mine], i + 1, rest)
    BY <1>5 DEF Taken
  <2> HIDE DEF next, mine, rest
  <2>3. Tiles(next, TOTAL_MEMORY) /\ SplitInTwo(next, blocks, i, mine, rest)
    BY <1>1, <1>2, <1>3, <1>4, <2>1, <2>2, SplitTiles
  <2>4. \A j \in i + 1..n : j + 1 \in i + 2..n + 1 /\ next[j + 1] = blocks[j]
    <3> TAKE j \in i + 1..n
    <3>1. j + 1 \in i + 2..n + 1 /\ (j + 1) - 1 = j
      BY <1>1
    <3> QED
      BY <2>3, <3>1 DEF SplitInTwo
  <2>5. NoFreeNeighbors(next)
    <3> SUFFICES ASSUME NEW j \in 1..n, isFree(next[j]), isFree(next[j + 1])
                 PROVE  FALSE
      BY <1>1, <2>3 DEF NoFreeNeighbors, SplitInTwo
    <3>1. CASE j < i
      BY <1>1, <1>3, <2>3, <3>1 DEF NoFreeNeighbors, SplitInTwo
    <3>2. CASE j = i
      BY <1>3, <2>3, <3>2 DEF SplitInTwo
    <3>3. CASE j = i + 1
      <4>1. next[j + 1] = blocks[i + 1] /\ i \in 1..n - 1
        BY <1>1, <2>4, <3>3
      <4> QED
        BY <1>1, <4>1 DEF NoFreeNeighbors
    <3>4. CASE j > i + 1
      <4>1. j - 1 \in i + 1..n /\ j \in i + 1..n /\ (j - 1) + 1 = j /\ j - 1 \in 1..n - 1
        BY <1>1, <3>4
      <4>2. next[j + 1] = blocks[j] /\ next[(j - 1) + 1] = blocks[j - 1]
        BY <2>4, <4>1
      <4>3. ~ (isFree(blocks[j - 1]) /\ isFree(blocks[(j - 1) + 1]))
        BY <4>1 DEF NoFreeNeighbors
      <4> QED
        BY <4>1, <4>2, <4>3
    <3> QED
      BY <1>1, <3>1, <3>2, <3>3, <3>4
  <2>6. Used(next) = Used(blocks) \union {mine}
    <3>1. ASSUME NEW b \in Used(next) PROVE b \in Used(blocks) \union {mine}
      <4>1. PICK j \in 1..n + 1 : b = next[j] /\ ~isFree(next[j])
        BY <2>3 DEF Used, SplitInTwo
      <4>2. CASE j < i
        BY <1>1, <2>3, <4>1, <4>2 DEF Used, SplitInTwo
      <4>3. CASE j = i
        BY <2>3, <4>1, <4>3 DEF SplitInTwo
      <4>4. CASE j = i + 1
        BY <2>1, <2>3, <4>1, <4>4 DEF SplitInTwo
      <4>5. CASE j > i + 1
        <5>1. j \in i + 2..n + 1 /\ j - 1 \in 1..n
          BY <1>1, <4>5
        <5>2. b = blocks[j - 1]
          BY <2>3, <4>1, <5>1 DEF SplitInTwo
        <5> QED
          BY <4>1, <5>1, <5>2 DEF Used
      <4> QED
        BY <1>1, <4>2, <4>3, <4>4, <4>5
    <3>2. ASSUME NEW b \in Used(blocks) PROVE b \in Used(next)
      <4>1. PICK j \in 1..n : b = blocks[j] /\ ~isFree(blocks[j])
        BY DEF Used
      <4>2. CASE j < i
        <5>1. next[j] = blocks[j] /\ j \in 1..Len(next)
          BY <1>1, <2>3, <4>2 DEF SplitInTwo
        <5> QED
          BY <4>1, <5>1 DEF Used
      <4>3. CASE j > i
        <5>1. next[j + 1] = blocks[j] /\ j + 1 \in 1..Len(next)
          BY <1>1, <2>3, <2>4, <4>3 DEF SplitInTwo
        <5> QED
          BY <4>1, <5>1 DEF Used
      <4> QED
        BY <1>1, <4>1, <4>2, <4>3
    <3>3. mine \in Used(next)
      <4>1. next[i] = mine /\ i \in 1..Len(next)
        BY <1>1, <2>3 DEF SplitInTwo
      <4> QED
        BY <1>3, <4>1 DEF Used
    <3> QED
      BY <3>1, <3>2, <3>3
  <2>7. EndOfBlock(mine) <= EndOfBlock(hole)
    BY <1>1, <1>2 DEF EndOfBlock
  <2> QED
    BY <1>3, <2>3, <2>5, <2>6, <2>7 DEF next, mine
<1>6. CASE hole.size = size
  <2>1. next = [blocks EXCEPT ![i] = mine]
    BY <1>6 DEF Taken
  <2>2. EndOfBlock(mine) = EndOfBlock(hole)
    BY <1>2, <1>6 DEF EndOfBlock
  <2> HIDE DEF next, mine
  <2>3. Tiles(next, TOTAL_MEMORY)
    BY <1>1, <1>2, <1>3, <1>4, <2>1, <2>2, ReplaceTiles
  <2>4. /\ Len(next) = n /\ next[i] = mine
        /\ \A j \in 1..n : j # i => next[j] = blocks[j]
    BY <1>1, <2>1 DEF Tiles
  <2>5. NoFreeNeighbors(next)
    BY <1>1, <1>3, <2>4 DEF NoFreeNeighbors
  <2>6. Used(next) = Used(blocks) \union {mine}
    BY <1>1, <1>3, <2>4 DEF Used
  <2>7. EndOfBlock(mine) <= EndOfBlock(hole)
    BY <1>1, <1>2, <2>2 DEF EndOfBlock
  <2> QED
    BY <1>3, <2>3, <2>5, <2>6, <2>7 DEF next, mine
<1> QED
  BY <1>1, <1>2, <1>5, <1>6

\* Every block of pid becomes a free one.
LEMMA FreedTiles ==
  ASSUME Tiles(blocks, TOTAL_MEMORY), NEW pid \in ProcessIDs
  PROVE  /\ Tiles(Freed(pid), TOTAL_MEMORY)
         /\ Used(Freed(pid)) = {b \in Used(blocks) : b.processID # pid}
<1> DEFINE n == Len(blocks)
           next == Freed(pid)
<1>1. /\ n \in Nat \ {0} /\ DOMAIN blocks = 1..n
      /\ \A k \in 1..n : blocks[k] \in FitBlocks
  BY DEF Tiles
<1>2. ASSUME NEW k \in 1..n
      PROVE  /\ next[k] \in FitBlocks
             /\ next[k].startAddress = blocks[k].startAddress
             /\ EndOfBlock(next[k]) = EndOfBlock(blocks[k])
             /\ next[k].processID = IF blocks[k].processID = pid THEN NoProcess
                                    ELSE blocks[k].processID
             /\ blocks[k].processID # pid => next[k] = blocks[k]
  <2>1. PICK b \in FitBlocks : b = blocks[k]
    BY <1>1
  <2>2. next[k] = IF b.processID = pid
                  THEN [startAddress |-> b.startAddress, size |-> b.size,
                        processID |-> NoProcess]
                  ELSE b
    BY <1>1, <2>1 DEF Freed, FitBlocks
  <2> HIDE DEF next
  <2> QED
    BY <2>1, <2>2, FitBlockFacts DEF FitBlocks, EndOfBlock
<1>3. next = [k \in 1..n |-> next[k]]
  BY <1>1 DEF Freed
<1> HIDE DEF next
<1>4. next \in Seq(FitBlocks) /\ Len(next) = n
  BY <1>1, <1>2, <1>3
<1>5. Adjacent(next)
  BY <1>1, <1>2, <1>4 DEF Tiles, Adjacent
<1>6. Ordered(next)
  BY <1>1, <1>2, <1>4 DEF Tiles, Ordered
<1>7. Covers(next, TOTAL_MEMORY)
  BY <1>1, <1>2, <1>4 DEF Tiles, Covers
<1>8. next # <<>> /\ EndOfBlock(next[Len(next)]) = TOTAL_MEMORY
  BY <1>1, <1>2, <1>4 DEF Tiles
<1>9. Tiles(next, TOTAL_MEMORY)
  BY <1>4, <1>5, <1>6, <1>7, <1>8 DEF Tiles
<1>10. \A k \in 1..n : isFree(next[k]) <=> (isFree(blocks[k]) \/ blocks[k].processID = pid)
  BY <1>2 DEF isFree
<1>11. Used(next) = {b \in Used(blocks) : b.processID # pid}
  <2>1. ASSUME NEW b \in Used(next) PROVE b \in Used(blocks) /\ b.processID # pid
    BY <1>2, <1>4, <1>10 DEF Used
  <2>2. ASSUME NEW b \in Used(blocks), b.processID # pid PROVE b \in Used(next)
    BY <1>2, <1>4, <1>10, <2>2 DEF Used
  <2> QED
    BY <2>1, <2>2
<1> QED
  BY <1>9, <1>11 DEF next

-----------------------------------------------------------------------------
(* MemoryManager: the policies.                                            *)

\* There is a first one among the lightest.
LEMMA LightestExists ==
  ASSUME NEW S \in SUBSET Nat, S # {}, NEW w \in [S -> Nat]
  PROVE  \E i \in S : \A j \in S : w[i] < w[j] \/ (w[i] = w[j] /\ i <= j)
<1> DEFINE W == {w[i] : i \in S}
<1>1. PICK m \in W : \A v \in W : m <= v
  <2>1. W \in SUBSET Nat /\ W # {}
    OBVIOUS
  <2> HIDE DEF W
  <2> QED
    BY <2>1, LeastExists
<1> DEFINE T == {i \in S : w[i] = m}
<1>2. PICK i \in T : \A j \in T : i <= j
  <2>1. T \in SUBSET Nat /\ T # {}
    OBVIOUS
  <2> HIDE DEF T, W
  <2> QED
    BY <2>1, LeastExists
<1>3. ASSUME NEW j \in S PROVE w[i] < w[j] \/ (w[i] = w[j] /\ i <= j)
  <2>1. m <= w[j] /\ w[i] = m /\ w[i] \in Nat /\ w[j] \in Nat
    BY <1>1
  <2>2. w[j] = m => i <= j
    BY <1>2
  <2> QED
    BY <2>1, <2>2
<1> QED
  BY <1>3

LEMMA BlocksEnd ==
  ASSUME Tiles(blocks, TOTAL_MEMORY)
  PROVE  \A i \in 1..Len(blocks) :
           /\ EndOfBlock(blocks[i]) \in Nat /\ blocks[i].startAddress \in Nat
           /\ EndOfBlock(blocks[i]) <= TOTAL_MEMORY
<1>1. PICK n \in Nat \ {0} : n = Len(blocks)
  BY DEF Tiles
<1>2. \A k \in 1..n : /\ EndOfBlock(blocks[k]) \in Nat /\ blocks[k].startAddress \in Nat
                     /\ blocks[k].startAddress < EndOfBlock(blocks[k])
  BY <1>1, FitBlockFacts DEF Tiles
<1>3. EndOfBlock(blocks[n]) = TOTAL_MEMORY
  BY <1>1 DEF Tiles
<1>4. ASSUME NEW i \in 1..n PROVE EndOfBlock(blocks[i]) <= TOTAL_MEMORY
  <2>1. CASE i = n
    BY <1>2, <1>3, <2>1
  <2>2. CASE i < n
    <3>1. EndOfBlock(blocks[i]) <= blocks[n].startAddress
      BY <1>1, <2>2 DEF Tiles, Ordered
    <3> QED
      BY <1>2, <1>3, <3>1
  <2> QED
    BY <2>1, <2>2
<1> QED
  BY <1>1, <1>2, <1>4

\* Each policy chooses a hole when there is one.
LEMMA PoliciesChooseHoles ==
  ASSUME Tiles(blocks, TOTAL_MEMORY), NEW size \in Nat, Holes(size) # {}
  PROVE  {FirstFit(size), BestFit(size), WorstFit(size)} \subseteq Holes(size)
<1> DEFINE S == Holes(size)
<1>1. /\ S \in SUBSET Nat /\ S # {}
      /\ \A i \in S : blocks[i].size \in Nat /\ blocks[i].size <= TOTAL_MEMORY
  <2>1. /\ Len(blocks) \in Nat \ {0} /\ DOMAIN blocks = 1..Len(blocks)
        /\ \A k \in 1..Len(blocks) : blocks[k] \in FitBlocks
    BY DEF Tiles
  <2>2. S \subseteq 1..Len(blocks)
    BY <2>1 DEF Holes
  <2>3. ASSUME NEW i \in 1..Len(blocks)
        PROVE  blocks[i].size \in Nat /\ blocks[i].size <= TOTAL_MEMORY
    <3>1. /\ blocks[i].startAddress \in Nat /\ blocks[i].size \in Nat
          /\ EndOfBlock(blocks[i]) = blocks[i].startAddress + blocks[i].size
      BY <2>1, FitBlockFacts DEF EndOfBlock
    <3>2. EndOfBlock(blocks[i]) <= TOTAL_MEMORY
      BY BlocksEnd
    <3> QED
      BY <3>1, <3>2, FitAssumption
  <2> QED
    BY <2>2, <2>3
<1> HIDE DEF S
<1>2. FirstFit(size) \in S
  BY <1>1, LeastExists DEF FirstFit, S
<1>3. BestFit(size) \in S
  <2> DEFINE w == [i \in S |-> blocks[i].size]
  <2>1. w \in [S -> Nat]
    BY <1>1
  <2>2. \A i \in S : w[i] = blocks[i].size
    OBVIOUS
  <2> HIDE DEF w
  <2>3. \E i \in S : \A j \in S : w[i] < w[j] \/ (w[i] = w[j] /\ i <= j)
    BY <1>1, <2>1, LightestExists
  <2>4. \E i \in S : \A j \in S :
          blocks[i].size < blocks[j].size \/ (blocks[i].size = blocks[j].size /\ i <= j)
    BY <2>2, <2>3
  <2> QED
    BY <2>4 DEF BestFit, S
<1>4. WorstFit(size) \in S
  <2> DEFINE w == [i \in S |-> TOTAL_MEMORY - blocks[i].size]
  <2>1. w \in [S -> Nat]
    BY <1>1, FitAssumption
  <2>2. \A i \in S : w[i] = TOTAL_MEMORY - blocks[i].size
    OBVIOUS
  <2> HIDE DEF w
  <2>3. \E i \in S : \A j \in S : w[i] < w[j] \/ (w[i] = w[j] /\ i <= j)
    BY <1>1, <2>1, LightestExists
  <2>4. \E i \in S : \A j \in S :
          blocks[i].size > blocks[j].size \/ (blocks[i].size = blocks[j].size /\ i <= j)
    <3>1. PICK i \in S : \A j \in S : w[i] < w[j] \/ (w[i] = w[j] /\ i <= j)
      BY <2>3
    <3>2. ASSUME NEW j \in S
          PROVE  blocks[i].size > blocks[j].size \/ (blocks[i].size = blocks[j].size /\ i <= j)
      BY <1>1, <2>2, <3>1, FitAssumption
    <3> QED
      BY <3>2
  <2> QED
    BY <2>4 DEF WorstFit, S
<1> QED
  BY <1>2, <1>3, <1>4 DEF S

-----------------------------------------------------------------------------
(* MemoryManager: the invariant.                                           *)

\* The blocks tile the memory, no two free ones side by side, and what failed
\* last would still fail.
FitInv ==
  /\ Tiles(blocks, TOTAL_MEMORY)
  /\ NoFreeNeighbors(blocks)
  /\ unplaced \in Nat
  /\ unplaced > 0 => Holes(unplaced) = {}

LEMMA FitInvInit == FitInit => FitInv
<1> SUFFICES ASSUME FitInit PROVE FitInv
  OBVIOUS
<1> DEFINE all == Block(0, TOTAL_MEMORY, NoProcess)
<1>1. all \in FitBlocks /\ all.startAddress = 0 /\ EndOfBlock(all) = TOTAL_MEMORY
  BY FitAssumption DEF Block, FitBlocks, EndOfBlock
<1>2. Tiles(<<all>>, TOTAL_MEMORY)
  <2> HIDE DEF all
  <2> QED
    BY <1>1, AbsorbFirst
<1>3. blocks = <<all>> /\ unplaced = 0 /\ Len(blocks) = 1
  BY DEF FitInit, unplaced
<1> QED
  BY <1>2, <1>3 DEF FitInv, NoFreeNeighbors

\* What the calls do to the blocks in use.
LEMMA AllocateStep ==
  ASSUME FitInv, NEW pid \in ProcessIDs, NEW size \in FitSizes, allocateFit(pid, size)
  PROVE  /\ FitInv'
         /\ \E i \in Holes(size) :
              LET mine == Block(blocks[i].startAddress, size, pid) IN
              /\ Used(blocks') = Used(blocks) \union {mine}
              /\ mine \in FitBlocks /\ ~isFree(mine)
              /\ EndOfBlock(mine) <= EndOfBlock(blocks[i])
<1>1. size \in Nat \ {0}
  BY FitAssumption
<1>2. PICK i \in Holes(size) : blocks' = Taken(i, pid, size)
  BY <1>1, PoliciesChooseHoles DEF allocateFit, FitInv
<1> DEFINE mine == Block(blocks[i].startAddress, size, pid)
<1>3. /\ Tiles(blocks', TOTAL_MEMORY)
      /\ NoFreeNeighbors(blocks')
      /\ Used(blocks') = Used(blocks) \union {mine}
      /\ mine \in FitBlocks /\ ~isFree(mine)
      /\ EndOfBlock(mine) <= EndOfBlock(blocks[i])
  BY <1>1, <1>2, TakenTiles DEF FitInv
<1>4. unplaced' = 0
  BY DEF allocateFit, FitAnswers, unplaced
<1> HIDE DEF mine
<1>5. FitInv'
  BY <1>3, <1>4 DEF FitInv
<1> QED
  BY <1>3, <1>5 DEF mine

LEMMA DeallocateStep ==
  ASSUME FitInv, NEW pid \in ProcessIDs, deallocateFit(pid)
  PROVE  /\ FitInv'
         /\ Used(blocks') = {b \in Used(blocks) : b.processID # pid}
         /\ \E b \in Used(blocks) : b.processID = pid
<1> DEFINE freed == Freed(pid)
<1>1. /\ Tiles(freed, TOTAL_MEMORY)
      /\ Used(freed) = {b \in Used(blocks) : b.processID # pid}
  BY FreedTiles DEF FitInv
<1>2. blocks' = mergeAdjacentFreeBlocks(freed) /\ unplaced' = 0
  BY DEF deallocateFit, FitAnswers, unplaced
<1> HIDE DEF freed
<1>3. freed[1].startAddress = 0
  BY <1>1, TilesFromZero, FitAssumption
<1>4. /\ Tiles(blocks', TOTAL_MEMORY)
      /\ NoFreeNeighbors(blocks')
      /\ Used(blocks') = Used(freed)
  BY <1>1, <1>2, <1>3, MergeTiles
<1>5. FitInv'
  BY <1>2, <1>4 DEF FitInv
<1>6. \E b \in Used(blocks) : b.processID = pid
  <2>1. PICK i \in DOMAIN blocks : blocks[i].processID = pid
    BY DEF deallocateFit
  <2>2. ~isFree(blocks[i]) /\ i \in 1..Len(blocks)
    BY <2>1, NoProcessID DEF isFree, FitInv, Tiles
  <2> QED
    BY <2>1, <2>2 DEF Used
<1> QED
  BY <1>1, <1>4, <1>5, <1>6

LEMMA FitInvNext == FitInv /\ [FitNext]_fitVars => FitInv'
<1> SUFFICES ASSUME FitInv, [FitNext]_fitVars PROVE FitInv'
  OBVIOUS
<1>1. ASSUME NEW pid \in ProcessIDs, NEW size \in FitSizes, allocateFit(pid, size)
      PROVE  FitInv'
  BY <1>1, AllocateStep
<1>2. ASSUME NEW pid \in ProcessIDs, NEW size \in FitSizes, AllocationFails(pid, size)
      PROVE  FitInv'
  <2>1. size \in Nat /\ Holes(size) = {} /\ blocks' = blocks
    BY <1>2, FitAssumption DEF AllocationFails
  <2>2. unplaced' = size
    BY <1>2 DEF AllocationFails, FitAnswers, unplaced
  <2> QED
    BY <2>1, <2>2 DEF FitInv, Tiles, NoFreeNeighbors, Holes
<1>3. ASSUME NEW pid \in ProcessIDs, deallocateFit(pid) PROVE FitInv'
  BY <1>3, DeallocateStep
<1>4. ASSUME NEW pid \in ProcessIDs, NothingToFree(pid) PROVE FitInv'
  <2>1. blocks' = blocks /\ unplaced' = 0
    BY <1>4 DEF NothingToFree, FitAnswers, unplaced
  <2> QED
    BY <2>1 DEF FitInv
<1>5. CASE UNCHANGED fitVars
  <2>1. blocks' = blocks /\ unplaced' = unplaced
    BY <1>5 DEF fitVars, unplaced
  <2> QED
    BY <2>1 DEF FitInv, Holes
<1> QED
  BY <1>1, <1>2, <1>3, <1>4, <1>5 DEF FitNext

-----------------------------------------------------------------------------
(* MemoryManager: what clients hold.                                       *)

Held(b) == [handle |-> b.processID, address |-> b.startAddress, size |-> b.size]

LEMMA FitInUseFromUsed == FitInv => FitInUse = {Held(b) : b \in Used(blocks)}
<1> SUFFICES ASSUME FitInv PROVE FitInUse = {Held(b) : b \in Used(blocks)}
  OBVIOUS
<1>1. DOMAIN blocks = 1..Len(blocks)
  BY DEF FitInv, Tiles
<1> QED
  BY <1>1 DEF FitInUse, Used, Held

LEMMA FitInUseNext == FitInv' => FitInUse' = {Held(b) : b \in Used(blocks')}
<1>1. FitInv' => (FitInUse = {Held(b) : b \in Used(blocks)})'
  BY FitInUseFromUsed, PTL
<1> QED
  BY <1>1

\* A unit in a free block is a unit nobody holds, and the other way round.
LEMMA FreeUnitsInHoles ==
  ASSUME FitInv, NEW u \in FreeUnits, NEW k \in 1..Len(blocks),
         blocks[k].startAddress <= u, u < EndOfBlock(blocks[k])
  PROVE  isFree(blocks[k])
<1> SUFFICES ASSUME ~isFree(blocks[k]) PROVE FALSE
  OBVIOUS
<1>1. blocks[k] \in FitBlocks /\ DOMAIN blocks = 1..Len(blocks)
  BY DEF FitInv, Tiles
<1>2. Held(blocks[k]) \in FitInUse
  BY <1>1 DEF FitInUse, Held
<1>3. u \in Held(blocks[k]).address .. Held(blocks[k]).address + Held(blocks[k]).size - 1
  BY <1>1, FitBlockFacts, FitAssumption DEF Held, EndOfBlock, FreeUnits
<1> QED
  BY <1>2, <1>3 DEF FreeUnits

LEMMA FitInvFails == FitInv => FailsOnlyWithoutRun
<1> SUFFICES ASSUME FitInv, unplaced > 0, NEW a \in 0..TOTAL_MEMORY - unplaced,
                    a .. a + unplaced - 1 \subseteq FreeUnits
             PROVE  FALSE
  BY DEF FailsOnlyWithoutRun
<1> DEFINE n == Len(blocks)
<1>1. /\ n \in Nat \ {0} /\ DOMAIN blocks = 1..n
      /\ \A k \in 1..n : blocks[k] \in FitBlocks
      /\ unplaced \in Nat \ {0} /\ TOTAL_MEMORY \in Nat
      /\ a \in Nat /\ a + unplaced <= TOTAL_MEMORY
  BY FitAssumption DEF FitInv, Tiles
<1>2. PICK k \in 1..n : blocks[k].startAddress <= a /\ a < EndOfBlock(blocks[k])
  <2>1. a \in 0..TOTAL_MEMORY - 1
    BY <1>1
  <2> QED
    BY <2>1 DEF FitInv, Tiles, Covers
<1>3. /\ blocks[k].startAddress \in Nat /\ blocks[k].size \in Nat
      /\ EndOfBlock(blocks[k]) = blocks[k].startAddress + blocks[k].size
  BY <1>1, FitBlockFacts DEF EndOfBlock
<1>4. isFree(blocks[k])
  <2>1. a \in FreeUnits
    BY <1>1
  <2> QED
    BY <1>2, <2>1, FreeUnitsInHoles
<1>5. EndOfBlock(blocks[k]) >= a + unplaced
  <2> SUFFICES ASSUME EndOfBlock(blocks[k]) < a + unplaced PROVE FALSE
    BY <1>1, <1>3
  <2>1. k \in 1..n - 1
    BY <1>1 DEF FitInv, Tiles
  <2>2. blocks[k + 1].startAddress = EndOfBlock(blocks[k]) /\ k + 1 \in 1..n
    BY <1>1, <2>1 DEF FitInv, Tiles, Adjacent
  <2>3. PICK m \in 1..n, u \in Nat : m = k + 1 /\ u = blocks[m].startAddress
    BY <1>3, <2>2
  <2>4. u = EndOfBlock(blocks[k]) /\ u \in a .. a + unplaced - 1
    BY <1>1, <1>2, <1>3, <2>2, <2>3
  <2>5. u < EndOfBlock(blocks[m])
    BY <1>1, <2>3, FitBlockFacts
  <2>6. u \in FreeUnits
    BY <2>4
  <2>7. isFree(blocks[m])
    BY <1>1, <2>3, <2>5, <2>6, FreeUnitsInHoles
  <2> QED
    BY <1>4, <2>1, <2>3, <2>7 DEF FitInv, NoFreeNeighbors
<1>6. k \in Holes(unplaced)
  BY <1>1, <1>2, <1>3, <1>4, <1>5 DEF Holes
<1> QED
  BY <1>1, <1>6 DEF FitInv

LEMMA FitUnits ==
  ASSUME NEW b \in FitBlocks
  PROVE  FitPlacement!Units(Held(b)) = b.startAddress .. EndOfBlock(b) - 1
<1>1. /\ Held(b).address = b.startAddress /\ Held(b).size = b.size
      /\ b.startAddress \in Nat /\ b.size \in Nat
  BY FitBlockFacts DEF Held
<1>2. EndOfBlock(b) - 1 = Held(b).address + Held(b).size - 1
  BY <1>1 DEF EndOfBlock
<1> QED
  BY <1>1, <1>2 DEF FitPlacement!Units

\* An allocation is a Grant.
LEMMA AllocateGrants ==
  ASSUME FitInv, NEW pid \in ProcessIDs, NEW size \in FitSizes, allocateFit(pid, size)
  PROVE  FitPlacement!Grant
<1> DEFINE n == Len(blocks)
<1>0. /\ n \in Nat \ {0} /\ DOMAIN blocks = 1..n
      /\ \A k \in 1..n : blocks[k] \in FitBlocks
  BY DEF FitInv, Tiles
<1>1. FitInv'
  BY AllocateStep
<1>2. PICK i \in Holes(size) :
        LET mine == Block(blocks[i].startAddress, size, pid) IN
        /\ Used(blocks') = Used(blocks) \union {mine}
        /\ mine \in FitBlocks /\ ~isFree(mine)
        /\ EndOfBlock(mine) <= EndOfBlock(blocks[i])
  BY AllocateStep
<1> DEFINE mine == Block(blocks[i].startAddress, size, pid)
<1>3. /\ Used(blocks') = Used(blocks) \union {mine}
      /\ mine \in FitBlocks
      /\ EndOfBlock(mine) <= EndOfBlock(blocks[i])
      /\ mine.startAddress = blocks[i].startAddress /\ mine.size = size
      /\ mine.processID = pid
      /\ i \in 1..n /\ isFree(blocks[i])
  BY <1>0, <1>2 DEF Holes, Block
<1> HIDE DEF mine
<1>4. /\ mine.startAddress \in Nat /\ EndOfBlock(mine) \in Nat
      /\ mine.startAddress < EndOfBlock(mine)
      /\ mine.size \in Nat \ {0}
  BY <1>3, FitBlockFacts
<1>5. FitInUse' = FitInUse \union {Held(mine)}
  <2>1. FitInUse = {Held(b) : b \in Used(blocks)}
    BY FitInUseFromUsed
  <2>2. FitInUse' = {Held(b) : b \in Used(blocks')}
    BY <1>1, FitInUseNext
  <2> QED
    BY <1>3, <2>1, <2>2
<1>6. /\ fitCall'.answer = "granted"
      /\ Held(mine).handle = fitCall'.handle
      /\ fitCall'.size \in 1..Held(mine).size
      /\ FitPlacement!Units(Held(mine)) = mine.startAddress .. EndOfBlock(mine) - 1
  <2>1. fitCall' = [handle |-> pid, size |-> size, answer |-> "granted"]
    BY DEF allocateFit, FitAnswers
  <2> QED
    BY <1>3, <1>4, <2>1, FitUnits DEF Held
<1>7. \A j \in 1..n : /\ EndOfBlock(blocks[j]) \in Nat /\ blocks[j].startAddress \in Nat
                     /\ EndOfBlock(blocks[j]) <= TOTAL_MEMORY
  BY BlocksEnd DEF FitInv
<1>8. FitPlacement!Units(Held(mine)) \subseteq 0..TOTAL_MEMORY - 1
  BY <1>3, <1>4, <1>6, <1>7, FitAssumption
<1>9. ASSUME NEW b \in FitInUse
      PROVE  FitPlacement!Apart(Held(mine), b)
  <2>1. PICK j \in 1..n : b = Held(blocks[j]) /\ ~isFree(blocks[j])
    BY FitInUseFromUsed DEF Used
  <2>2. j < i \/ j > i
    BY <1>3, <2>1
  <2>3. \/ EndOfBlock(blocks[j]) <= mine.startAddress
        \/ EndOfBlock(mine) <= blocks[j].startAddress
    <3>1. CASE j < i
      BY <1>3, <3>1 DEF FitInv, Tiles, Ordered
    <3>2. CASE j > i
      <4>1. EndOfBlock(blocks[i]) <= blocks[j].startAddress
        BY <1>3, <3>2 DEF FitInv, Tiles, Ordered
      <4> QED
        BY <1>3, <1>4, <1>7, <4>1
    <3> QED
      BY <2>2, <3>1, <3>2
  <2>4. FitPlacement!Units(b) = blocks[j].startAddress .. EndOfBlock(blocks[j]) - 1
    BY <1>0, <2>1, FitUnits
  <2>5. blocks[j].startAddress \in Nat /\ EndOfBlock(blocks[j]) \in Nat
    BY <1>7
  <2> QED
    BY <1>4, <1>6, <2>3, <2>4, <2>5 DEF FitPlacement!Apart
<1>10. Held(mine) \notin FitInUse
  <2> SUFFICES ASSUME Held(mine) \in FitInUse PROVE FALSE
    OBVIOUS
  <2>1. FitPlacement!Units(Held(mine)) = {}
    BY <1>9 DEF FitPlacement!Apart
  <2>2. mine.startAddress \in mine.startAddress .. EndOfBlock(mine) - 1
    BY <1>4
  <2> QED
    BY <1>6, <2>1, <2>2
<1> QED
  BY <1>5, <1>6, <1>8, <1>9, <1>10 DEF FitPlacement!Grant

\* What a process holds.
LEMMA FitHeldBy ==
  ASSUME FitInv, NEW pid
  PROVE  FitPlacement!HeldBy(pid) = {Held(b) : b \in {c \in Used(blocks) : c.processID = pid}}
<1>1. FitInUse = {Held(b) : b \in Used(blocks)}
  BY FitInUseFromUsed
<1>2. \A b : Held(b).handle = b.processID
  BY DEF Held
<1> QED
  BY <1>1, <1>2 DEF FitPlacement!HeldBy

\* A deallocation is a Reclaim.
LEMMA DeallocateReclaims ==
  ASSUME FitInv, NEW pid \in ProcessIDs, deallocateFit(pid)
  PROVE  FitPlacement!Reclaim
<1>1. /\ FitInv'
      /\ Used(blocks') = {b \in Used(blocks) : b.processID # pid}
      /\ \E b \in Used(blocks) : b.processID = pid
  BY DeallocateStep
<1>2. /\ FitInUse = {Held(b) : b \in Used(blocks)}
      /\ FitInUse' = {Held(b) : b \in Used(blocks')}
  BY <1>1, FitInUseFromUsed, FitInUseNext
<1>3. fitCall'.answer = "freed" /\ fitCall'.handle = pid
  BY DEF deallocateFit, FitAnswers
<1>4. FitPlacement!HeldBy(pid) # {}
  BY <1>1, FitHeldBy
<1>5. \A b : Held(b).handle = b.processID
  BY DEF Held
<1>6. FitInUse' = FitInUse \ FitPlacement!HeldBy(pid)
  BY <1>1, <1>2, <1>5 DEF FitPlacement!HeldBy
<1> QED
  BY <1>3, <1>4, <1>6 DEF FitPlacement!Reclaim

\* A process that is not found holds nothing.
LEMMA NothingFreedThenNothingHeld ==
  ASSUME FitInv, NEW pid \in ProcessIDs, NothingToFree(pid)
  PROVE  FitPlacement!NothingToReclaim
<1>1. /\ fitCall'.answer = "not found" /\ fitCall'.handle = pid
      /\ blocks' = blocks
      /\ \A i \in DOMAIN blocks : blocks[i].processID # pid
  BY DEF NothingToFree, FitAnswers
<1>2. ASSUME NEW b \in FitInUse PROVE b.handle # pid
  <2>1. PICK c \in Used(blocks) : b = Held(c)
    BY FitInUseFromUsed
  <2>2. \E i \in 1..Len(blocks) : c = blocks[i]
    BY DEF Used
  <2>3. DOMAIN blocks = 1..Len(blocks)
    BY DEF FitInv, Tiles
  <2> QED
    BY <1>1, <2>1, <2>2, <2>3 DEF Held
<1>3. FitInUse' = FitInUse
  BY <1>1 DEF FitInUse
<1> QED
  BY <1>1, <1>2, <1>3 DEF FitPlacement!NothingToReclaim, FitPlacement!HeldBy

LEMMA FitStep == FitInv /\ [FitNext]_fitVars => [FitPlacement!Next]_<<FitInUse, fitCall>>
<1> SUFFICES ASSUME FitInv, [FitNext]_fitVars
             PROVE  [FitPlacement!Next]_<<FitInUse, fitCall>>
  OBVIOUS
<1>1. ASSUME NEW pid \in ProcessIDs, NEW size \in FitSizes, allocateFit(pid, size)
      PROVE  FitPlacement!Next
  BY <1>1, AllocateGrants DEF FitPlacement!Next
<1>2. ASSUME NEW pid \in ProcessIDs, NEW size \in FitSizes, AllocationFails(pid, size)
      PROVE  FitPlacement!Next
  <2>1. fitCall'.answer = "refused" /\ blocks' = blocks
    BY <1>2 DEF AllocationFails, FitAnswers
  <2>2. FitInUse' = FitInUse
    BY <2>1 DEF FitInUse
  <2> QED
    BY <2>1, <2>2 DEF FitPlacement!Next, FitPlacement!Refuse
<1>3. ASSUME NEW pid \in ProcessIDs, deallocateFit(pid) PROVE FitPlacement!Next
  BY <1>3, DeallocateReclaims DEF FitPlacement!Next
<1>4. ASSUME NEW pid \in ProcessIDs, NothingToFree(pid) PROVE FitPlacement!Next
  BY <1>4, NothingFreedThenNothingHeld DEF FitPlacement!Next
<1>5. ASSUME UNCHANGED fitVars PROVE UNCHANGED <<FitInUse, fitCall>>
  BY <1>5 DEF FitInUse, fitVars
<1> QED
  BY <1>1, <1>2, <1>3, <1>4, <1>5 DEF FitNext

LEMMA FitStart == FitInit => FitPlacement!Init
<1> SUFFICES ASSUME FitInit PROVE FitInUse = {}
  BY DEF FitPlacement!Init, FitInit
<1>1. /\ FitInv /\ Len(blocks) = 1 /\ isFree(blocks[1])
  BY FitInvInit DEF FitInit, Block, isFree
<1>2. Used(blocks) = {}
  BY <1>1 DEF Used
<1> QED
  BY <1>1, <1>2, FitInUseFromUsed

-----------------------------------------------------------------------------
(* Powers of two: 2^k is the number of the subsets of a set of k.          *)

LEMMA SubsetsOfInterval ==
  ASSUME NEW k \in Nat
  PROVE  /\ IsFiniteSet(SUBSET (1..k))
         /\ Cardinality(SUBSET (1..k)) = 2^k
         /\ Cardinality(SUBSET (1..k)) \in Nat
<1>1. IsFiniteSet(1..k) /\ Cardinality(1..k) = k
  BY FS_Interval
<1>2. IsFiniteSet(SUBSET (1..k)) /\ Cardinality(SUBSET (1..k)) = 2^Cardinality(1..k)
  BY <1>1, FS_SUBSET
<1> QED
  BY <1>1, <1>2, FS_CardinalityType

LEMMA PowerDoubles ==
  ASSUME NEW k \in Nat
  PROVE  2^k \in Nat /\ 2^(k + 1) = 2^k + 2^k
<1>1. PICK m \in Nat : m = k + 1
  OBVIOUS
<1> DEFINE Without == SUBSET (1..k)
           With == {A \union {m} : A \in Without}
           f == [A \in Without |-> A \union {m}]
<1>2. SUBSET (1..m) = Without \union With
  <2>1. 1..m = (1..k) \union {m}
    BY <1>1
  <2>2. ASSUME NEW A \in SUBSET (1..m), m \in A PROVE A \in With
    <3>1. A \ {m} \in Without /\ A = (A \ {m}) \union {m}
      BY <2>1, <2>2
    <3> QED
      BY <3>1
  <2> QED
    BY <2>1, <2>2
<1>3. Without \intersect With = {}
  BY <1>1
<1>4. f \in Bijection(Without, With)
  <2>1. f \in [Without -> With]
    OBVIOUS
  <2>2. \A A, B \in Without : f[A] = f[B] => A = B
    BY <1>1
  <2>3. \A C \in With : \E A \in Without : f[A] = C
    OBVIOUS
  <2> HIDE DEF f, Without, With
  <2> QED
    BY <2>1, <2>2, <2>3 DEF Bijection, Injection, Surjection, IsInjective
<1>5. IsFiniteSet(Without) /\ Cardinality(Without) = 2^k /\ Cardinality(Without) \in Nat
  BY SubsetsOfInterval
<1>6. Cardinality(SUBSET (1..m)) = 2^m
  BY SubsetsOfInterval
<1> HIDE DEF Without, With, f
<1>7. IsFiniteSet(With) /\ Cardinality(With) = 2^k
  BY <1>4, <1>5, FS_Bijection DEF ExistsBijection
<1>8. Cardinality(Without \union With) = 2^k + 2^k
  BY <1>3, <1>5, <1>7, FS_Union, FS_EmptySet
<1> QED
  BY <1>1, <1>2, <1>5, <1>6, <1>8

LEMMA PowerZero == 2^0 = 1
  BY SMT

\* Powers of two are positive, and grow with the exponent.
LEMMA PowerPositive ==
  ASSUME NEW k \in Nat
  PROVE  2^k \in Nat \ {0} /\ k < 2^k
<1> DEFINE S == {j \in Nat : 2^j \in Nat \ {0} /\ j < 2^j}
<1>1. 0 \in S
  BY PowerZero
<1>2. ASSUME NEW j \in S PROVE j + 1 \in S
  <2>1. 2^j \in Nat \ {0} /\ j < 2^j /\ j \in Nat /\ 2^(j + 1) = 2^j + 2^j
    BY PowerDoubles
  <2>2. PICK p \in Nat \ {0} : p = 2^j
    BY <2>1
  <2> QED
    BY <2>1, <2>2
<1> HIDE DEF S
<1>3. S = Nat
  <2>1. S \in SUBSET Nat
    BY DEF S
  <2> QED
    BY <1>1, <1>2, <2>1, SetInduction
<1> QED
  BY <1>3 DEF S

LEMMA PowerGrows ==
  ASSUME NEW j \in Nat, NEW k \in Nat, j < k
  PROVE  2^j + 2^j <= 2^k
<1> DEFINE S == {d \in Nat : 2^j + 2^j <= 2^(j + 1 + d)}
<1>1. 0 \in S
  BY PowerDoubles
<1>2. ASSUME NEW d \in S PROVE d + 1 \in S
  <2>1. PICK m \in Nat : m = j + 1 + d
    OBVIOUS
  <2>2. 2^m \in Nat /\ 2^(m + 1) = 2^m + 2^m /\ j + 1 + (d + 1) = m + 1
    BY <2>1, PowerDoubles
  <2>3. 2^j + 2^j <= 2^m /\ 2^j \in Nat
    BY <2>1, PowerDoubles
  <2>4. 2^j + 2^j <= 2^(m + 1)
    BY <2>2, <2>3
  <2> QED
    BY <2>2, <2>4
<1> HIDE DEF S
<1>3. S = Nat
  <2>1. S \in SUBSET Nat
    BY DEF S
  <2> QED
    BY <1>1, <1>2, <2>1, SetInduction
<1>4. PICK d \in Nat : d = k - j - 1
  OBVIOUS
<1>5. d \in S /\ j + 1 + d = k
  BY <1>3, <1>4
<1> QED
  BY <1>5 DEF S

\* The smallest order that is large enough.
LEMMA OrderOfSize ==
  ASSUME NEW size \in Nat \ {0}
  PROVE  getOrder(size) \in Nat /\ size <= 2^getOrder(size)
<1> DEFINE S == {o \in 0..size : size <= 2^o}
<1>1. size \in S
  BY PowerPositive
<1>2. \E o \in S : \A p \in S : o <= p
  <2>1. S \in SUBSET Nat /\ S # {}
    BY <1>1
  <2> HIDE DEF S
  <2> QED
    BY <2>1, LeastExists
<1>3. \E o \in 0..size : size <= 2^o /\ \A p \in 0..size : size <= 2^p => o <= p
  BY <1>2
<1> QED
  BY <1>3 DEF getOrder

-----------------------------------------------------------------------------
(* BuddyAllocator: the free and the allocated blocks.                      *)

IsAllocated(a) == allocated[a] # NotAllocated

EndOfPiece(a, o) == a + 2^o

\* Blocks at a and b of the orders o and p.
PiecesApart(a, o, b, p) == EndOfPiece(a, o) <= b \/ EndOfPiece(b, p) <= a

LabTyped ==
  /\ freeList \in [Orders -> Seq(Addresses)]
  /\ allocated \in [Addresses -> Orders \union {NotAllocated}]
  /\ searching \in Nat

FreePiecesApart ==
  \A o, p \in Orders :
    \A j \in 1..Len(freeList[o]), k \in 1..Len(freeList[p]) :
      o # p \/ j # k => PiecesApart(freeList[o][j], o, freeList[p][k], p)

FreeApartFromUsed ==
  \A a \in Addresses, o \in Orders : \A j \in 1..Len(freeList[o]) :
    IsAllocated(a) => PiecesApart(a, orderOf(a), freeList[o][j], o)

UsedPiecesApart ==
  \A a, b \in Addresses :
    IsAllocated(a) /\ IsAllocated(b) /\ a # b => PiecesApart(a, orderOf(a), b, orderOf(b))

PiecesFit ==
  /\ \A o \in Orders : \A j \in 1..Len(freeList[o]) :
       EndOfPiece(freeList[o][j], o) <= totalSize
  /\ \A a \in Addresses : IsAllocated(a) =>
       EndOfPiece(a, orderOf(a)) <= totalSize

\* No unit is in two blocks, free or allocated.
LabInv ==
  LabTyped /\ FreePiecesApart /\ FreeApartFromUsed /\ UsedPiecesApart /\ PiecesFit

LEMMA OrderFacts ==
  ASSUME NEW o \in Orders
  PROVE  o \in Nat /\ o <= MaxOrder /\ 2^o \in Nat \ {0}
<1>1. o \in Nat /\ o <= MaxOrder
  BY OrderAssumption DEF Orders
<1> QED
  BY <1>1, PowerPositive

LEMMA MemoryFacts == totalSize \in Nat \ {0} /\ MaxOrder \in Nat /\ MaxOrder \in Orders
  BY OrderAssumption, PowerPositive DEF totalSize, Orders

LEMMA NotAllocatedNoOrder == NotAllocated \notin Orders
  BY OrderFacts DEF NotAllocated

LEMMA UsedOrder ==
  ASSUME LabTyped, NEW a \in Addresses, IsAllocated(a)
  PROVE  orderOf(a) \in Orders
  BY DEF LabTyped, IsAllocated, orderOf

LEMMA LabInvInit == LabInit => LabInv
<1> SUFFICES ASSUME LabInit PROVE LabInv
  OBVIOUS
<1>1. /\ freeList = [o \in Orders |-> IF o = MaxOrder THEN <<0>> ELSE <<>>]
      /\ allocated = [a \in Addresses |-> NotAllocated]
      /\ searching = 0
  BY DEF LabInit
<1>2. 0 \in Addresses
  BY MemoryFacts DEF Addresses
<1>3. LabTyped
  BY <1>1, <1>2 DEF LabTyped
<1>4. \A a \in Addresses : ~IsAllocated(a)
  BY <1>1 DEF IsAllocated
<1>5. \A o \in Orders : \A j \in 1..Len(freeList[o]) :
        o = MaxOrder /\ j = 1 /\ freeList[o][j] = 0
  BY <1>1
<1>6. FreePiecesApart /\ FreeApartFromUsed /\ UsedPiecesApart
  BY <1>4, <1>5 DEF FreePiecesApart, FreeApartFromUsed, UsedPiecesApart
<1>7. PiecesFit
  <2>1. EndOfPiece(0, MaxOrder) <= totalSize
    BY MemoryFacts DEF EndOfPiece, totalSize
  <2> QED
    BY <1>4, <1>5, <2>1 DEF PiecesFit
<1> QED
  BY <1>3, <1>6, <1>7 DEF LabInv

-----------------------------------------------------------------------------
(* BuddyAllocator: a block goes from the map to the end of a list.         *)

LEMMA DeallocateKeeps ==
  ASSUME LabInv, NEW addr \in Addresses, LabDeallocate(addr)
  PROVE  LabInv'
<1> DEFINE q == orderOf(addr)
           list == freeList[q]
           n == Len(list)
<1>1. /\ LabTyped /\ IsAllocated(addr) /\ q \in Orders
      /\ list \in Seq(Addresses) /\ n \in Nat
  <2>1. LabTyped /\ IsAllocated(addr)
    BY DEF LabInv, LabDeallocate, IsAllocated
  <2>2. q \in Orders
    BY <2>1, UsedOrder
  <2> QED
    BY <2>1, <2>2 DEF LabTyped
<1>2. /\ freeList' = [freeList EXCEPT ![q] = Append(list, addr)]
      /\ allocated' = [allocated EXCEPT ![addr] = NotAllocated]
      /\ searching' = searching
  BY DEF LabDeallocate
<1> HIDE DEF q, list, n
<1>3. /\ freeList'[q] = Append(list, addr)
      /\ \A o \in Orders : o # q => freeList'[o] = freeList[o]
      /\ list = freeList[q] /\ n = Len(list) /\ q = orderOf(addr)
  BY <1>1, <1>2 DEF LabTyped, list, n, q
<1>4. /\ Len(freeList'[q]) = n + 1 /\ freeList'[q][n + 1] = addr
      /\ \A j \in 1..n : freeList'[q][j] = freeList[q][j]
      /\ freeList'[q] \in Seq(Addresses)
  BY <1>1, <1>3
<1>5. \A o \in Orders : \A j \in 1..Len(freeList'[o]) :
        \/ o = q /\ j = n + 1 /\ freeList'[o][j] = addr
        \/ j \in 1..Len(freeList[o]) /\ freeList'[o][j] = freeList[o][j]
  BY <1>1, <1>3, <1>4
<1>6. \A a \in Addresses : IsAllocated(a)' =>
        a # addr /\ IsAllocated(a) /\ allocated'[a] = allocated[a] /\ orderOf(a)' = orderOf(a)
  BY <1>1, <1>2 DEF IsAllocated, orderOf, LabTyped
<1>7. LabTyped'
  <2>1. freeList' \in [Orders -> Seq(Addresses)]
    BY <1>1, <1>2, <1>3, <1>4 DEF LabTyped
  <2> QED
    BY <1>1, <1>2, <2>1 DEF LabTyped
<1>8. \A o \in Orders : \A j \in 1..Len(freeList[o]) : PiecesApart(addr, q, freeList[o][j], o)
  BY <1>1, <1>3 DEF LabInv, FreeApartFromUsed
<1>9. \A a, b, o, p : PiecesApart(a, o, b, p) <=> PiecesApart(b, p, a, o)
  BY DEF PiecesApart
<1>10. FreePiecesApart'
  <2> SUFFICES ASSUME NEW o \in Orders, NEW p \in Orders,
                      NEW j \in 1..Len(freeList'[o]), NEW k \in 1..Len(freeList'[p]),
                      o # p \/ j # k
               PROVE  PiecesApart(freeList'[o][j], o, freeList'[p][k], p)
    BY DEF FreePiecesApart, PiecesApart, EndOfPiece
  <2>1. \/ o = q /\ j = n + 1 /\ freeList'[o][j] = addr
        \/ j \in 1..Len(freeList[o]) /\ freeList'[o][j] = freeList[o][j]
    BY <1>5
  <2>2. \/ p = q /\ k = n + 1 /\ freeList'[p][k] = addr
        \/ k \in 1..Len(freeList[p]) /\ freeList'[p][k] = freeList[p][k]
    BY <1>5
  <2> QED
    BY <1>8, <1>9, <2>1, <2>2 DEF LabInv, FreePiecesApart
<1>11. FreeApartFromUsed'
  <2> SUFFICES ASSUME NEW a \in Addresses, NEW o \in Orders,
                      NEW j \in 1..Len(freeList'[o]), IsAllocated(a)'
               PROVE  PiecesApart(a, orderOf(a)', freeList'[o][j], o)
    BY DEF FreeApartFromUsed, PiecesApart, EndOfPiece
  <2>1. a # addr /\ IsAllocated(a) /\ orderOf(a)' = orderOf(a)
    BY <1>6
  <2>2. \/ o = q /\ freeList'[o][j] = addr
        \/ j \in 1..Len(freeList[o]) /\ freeList'[o][j] = freeList[o][j]
    BY <1>5
  <2>3. PiecesApart(a, orderOf(a), addr, q)
    BY <1>1, <1>3, <2>1 DEF LabInv, UsedPiecesApart
  <2> QED
    BY <2>1, <2>2, <2>3 DEF LabInv, FreeApartFromUsed
<1>12. UsedPiecesApart'
  <2> SUFFICES ASSUME NEW a \in Addresses, NEW b \in Addresses, a # b,
                      IsAllocated(a)', IsAllocated(b)'
               PROVE  PiecesApart(a, orderOf(a)', b, orderOf(b)')
    BY DEF UsedPiecesApart, PiecesApart, EndOfPiece
  <2> QED
    BY <1>6 DEF LabInv, UsedPiecesApart
<1>13. PiecesFit'
  <2>1. ASSUME NEW o \in Orders, NEW j \in 1..Len(freeList'[o])
        PROVE  EndOfPiece(freeList'[o][j], o) <= totalSize
    BY <1>1, <1>3, <1>5 DEF LabInv, PiecesFit
  <2>2. ASSUME NEW a \in Addresses, IsAllocated(a)'
        PROVE  EndOfPiece(a, orderOf(a)') <= totalSize
    BY <1>6, <2>2 DEF LabInv, PiecesFit
  <2> QED
    BY <2>1, <2>2 DEF PiecesFit, EndOfPiece
<1> QED
  BY <1>7, <1>10, <1>11, <1>12, <1>13 DEF LabInv

-----------------------------------------------------------------------------
(* BuddyAllocator: the last block of a list is split down to the order.    *)

\* What LabAllocate does, with the block it takes.
Splits(addr, order, current, size) ==
  LET n == Len(freeList[current]) IN
  /\ order <= current /\ size <= 2^order
  /\ n \in Nat \ {0} /\ addr = freeList[current][n]
  /\ \A o \in Orders : order <= o /\ o < current => freeList[o] = <<>>
  /\ freeList' = [o \in Orders |->
                    IF o = current THEN Front(freeList[o])
                    ELSE IF order <= o /\ o < current
                    THEN Append(freeList[o], buddy(addr, o))
                    ELSE freeList[o]]
  /\ allocated' = [allocated EXCEPT ![addr] = order]
  /\ LabAnswers(addr, size, "granted")
  /\ searching' = searching

LEMMA AllocateSplits ==
  ASSUME LabTyped, NEW size \in BuddySizes, LabAllocate(size)
  PROVE  \E addr \in Addresses, order, current \in Orders : Splits(addr, order, current, size)
<1> DEFINE order == getOrder(size)
           S == Candidates(size)
           current == CHOOSE o \in S : \A p \in S : o <= p
           addr == Last(freeList[current])
<1>1. size \in Nat \ {0}
  BY OrderAssumption
<1>2. order \in Nat /\ size <= 2^order
  BY <1>1, OrderOfSize
<1>3. current \in S /\ \A p \in S : current <= p
  <2>1. S \in SUBSET Nat /\ S # {}
    BY OrderFacts DEF Candidates, LabAllocate
  <2> HIDE DEF S
  <2> QED
    BY <2>1, LeastExists
<1>4. /\ freeList' = [o \in Orders |->
                    IF o = current THEN Front(freeList[o])
                    ELSE IF order <= o /\ o < current
                    THEN Append(freeList[o], buddy(addr, o))
                    ELSE freeList[o]]
      /\ allocated' = [allocated EXCEPT ![addr] = order]
      /\ LabAnswers(addr, size, "granted")
      /\ searching' = searching
  BY DEF LabAllocate
<1> HIDE DEF current, addr, order
<1>5. /\ current \in Orders /\ current >= order /\ freeList[current] # <<>>
      /\ \A o \in Orders : order <= o /\ o < current => freeList[o] = <<>>
  BY <1>2, <1>3, OrderFacts DEF Candidates, order
<1>6. order \in Orders
  <2>1. current \in Nat /\ current <= MaxOrder /\ MaxOrder \in Nat
    BY <1>5, OrderFacts, MemoryFacts
  <2> QED
    BY <1>2, <1>5, <2>1 DEF Orders
<1>7. /\ Len(freeList[current]) \in Nat \ {0}
      /\ addr = freeList[current][Len(freeList[current])]
      /\ addr \in Addresses
  <2>1. freeList[current] \in Seq(Addresses)
    BY <1>5 DEF LabTyped
  <2> QED
    BY <1>5, <2>1 DEF addr, Last
<1>8. order <= current
  BY <1>2, <1>5, OrderFacts
<1>9. Splits(addr, order, current, size)
  BY <1>2, <1>4, <1>5, <1>7, <1>8 DEF Splits
<1> QED
  BY <1>5, <1>6, <1>7, <1>9

\* The pieces afterwards: those of the split block, and the ones of before.
LEMMA SplitPieces ==
  ASSUME LabInv, NEW size \in BuddySizes, NEW addr \in Addresses,
         NEW order \in Orders, NEW current \in Orders, Splits(addr, order, current, size)
  PROVE  /\ \A o \in Orders : \A j \in 1..Len(freeList'[o]) :
              \/ order <= o /\ o < current /\ j = 1 /\ freeList'[o][j] = addr + 2^o
              \/ /\ j \in 1..Len(freeList[o]) /\ freeList'[o][j] = freeList[o][j]
                 /\ o # current \/ j # Len(freeList[o])
         /\ \A o \in Orders : freeList'[o] \in Seq(Addresses)
<1> DEFINE n == Len(freeList[current])
<1>1. /\ n \in Nat \ {0} /\ freeList[current] \in Seq(Addresses)
      /\ \A o \in Orders : freeList[o] \in Seq(Addresses)
  BY DEF Splits, LabInv, LabTyped
<1>2. \A o \in Orders : freeList'[o] =
        IF o = current THEN Front(freeList[o])
        ELSE IF order <= o /\ o < current THEN Append(freeList[o], buddy(addr, o))
        ELSE freeList[o]
  BY DEF Splits
<1>3. ASSUME NEW o \in Orders, o = current
      PROVE  /\ freeList'[o] \in Seq(Addresses)
             /\ \A j \in 1..Len(freeList'[o]) :
                  j \in 1..n /\ j # n /\ freeList'[o][j] = freeList[o][j]
  <2>1. freeList'[o] = SubSeq(freeList[o], 1, n - 1)
    BY <1>2, <1>3 DEF Front
  <2>2. /\ SubSeq(freeList[o], 1, n - 1) \in Seq(Addresses)
        /\ Len(SubSeq(freeList[o], 1, n - 1)) = n - 1
        /\ \A j \in 1..n - 1 : SubSeq(freeList[o], 1, n - 1)[j] = freeList[o][j]
    BY <1>1, <1>3
  <2> QED
    BY <1>1, <2>1, <2>2
<1>4. ASSUME NEW o \in Orders, order <= o, o < current
      PROVE  freeList'[o] = <<addr + 2^o>> /\ addr + 2^o \in Addresses
  <2>0. freeList[o] = <<>> /\ o # current
    BY <1>4, OrderFacts DEF Splits
  <2>1. freeList'[o] = Append(<<>>, addr + 2^o)
    BY <1>2, <1>4, <2>0 DEF buddy
  <2>2. addr + 2^o \in Addresses
    <3>1. EndOfPiece(addr, current) <= totalSize
      BY DEF LabInv, PiecesFit, Splits
    <3>2. 2^o \in Nat \ {0} /\ 2^current \in Nat /\ 2^o + 2^o <= 2^current
      BY <1>4, OrderFacts, PowerGrows
    <3>3. addr + 2^current <= totalSize /\ addr \in Nat /\ totalSize \in Nat
      BY <3>1, MemoryFacts DEF EndOfPiece, Addresses
    <3>4. addr + 2^o \in Nat /\ addr + 2^o < totalSize
      BY <3>2, <3>3
    <3> QED
      BY <3>3, <3>4 DEF Addresses
  <2> QED
    BY <2>1, <2>2
<1>5. ASSUME NEW o \in Orders, o # current, ~ (order <= o /\ o < current)
      PROVE  freeList'[o] = freeList[o]
  BY <1>2, <1>5
<1>6. ASSUME NEW o \in Orders
      PROVE  /\ freeList'[o] \in Seq(Addresses)
             /\ \A j \in 1..Len(freeList'[o]) :
                  \/ order <= o /\ o < current /\ j = 1 /\ freeList'[o][j] = addr + 2^o
                  \/ /\ j \in 1..Len(freeList[o]) /\ freeList'[o][j] = freeList[o][j]
                     /\ o # current \/ j # Len(freeList[o])
  <2>1. CASE o = current
    BY <1>3, <2>1
  <2>2. CASE order <= o /\ o < current
    <3>1. freeList'[o] = <<addr + 2^o>> /\ addr + 2^o \in Addresses
      BY <1>4, <2>2
    <3>2. PICK a \in Addresses : a = addr + 2^o
      BY <3>1
    <3>3. \A j \in 1..Len(freeList'[o]) : j = 1 /\ freeList'[o][j] = a
      BY <3>1, <3>2
    <3> QED
      BY <2>2, <3>1, <3>2, <3>3
  <2>3. CASE o # current /\ ~ (order <= o /\ o < current)
    BY <1>1, <1>5, <2>3
  <2> QED
    BY <2>1, <2>2, <2>3
<1> QED
  BY <1>6

\* A piece at b of order p is in the block that is split.
Inside(b, p, addr, current) == addr <= b /\ EndOfPiece(b, p) <= EndOfPiece(addr, current)

LEMMA InsideApart ==
  ASSUME NEW b \in Nat, NEW p \in Orders, NEW addr \in Nat, NEW current \in Orders,
         NEW c \in Nat, NEW q \in Orders,
         Inside(b, p, addr, current), PiecesApart(addr, current, c, q)
  PROVE  PiecesApart(b, p, c, q) /\ PiecesApart(c, q, b, p)
<1>1. /\ EndOfPiece(b, p) \in Nat /\ EndOfPiece(addr, current) \in Nat
      /\ EndOfPiece(c, q) \in Nat
  BY OrderFacts DEF EndOfPiece
<1> QED
  BY <1>1 DEF Inside, PiecesApart

LEMMA AllocateKeeps ==
  ASSUME LabInv, NEW size \in BuddySizes, NEW addr \in Addresses,
         NEW order \in Orders, NEW current \in Orders, Splits(addr, order, current, size)
  PROVE  /\ LabInv'
         /\ ~IsAllocated(addr)
         /\ EndOfPiece(addr, order) <= totalSize
         /\ \A a \in Addresses : IsAllocated(a) => PiecesApart(a, orderOf(a), addr, order)
<1> DEFINE n == Len(freeList[current])
<1>1. /\ n \in 1..Len(freeList[current]) /\ addr = freeList[current][n] /\ order <= current
      /\ size <= 2^order /\ size \in Nat \ {0}
      /\ addr \in Nat /\ Addresses \subseteq Nat
      /\ \A o \in Orders : \A j \in 1..Len(freeList[o]) : freeList[o][j] \in Addresses
  BY SMTT(30), OrderAssumption, MemoryFacts DEF Splits, Addresses, LabInv, LabTyped
<1>2. /\ allocated' = [allocated EXCEPT ![addr] = order]
      /\ searching' = searching
      /\ freeList' = [o \in Orders |-> freeList'[o]]
  BY DEF Splits
<1>3. /\ \A o \in Orders : \A j \in 1..Len(freeList'[o]) :
           \/ order <= o /\ o < current /\ j = 1 /\ freeList'[o][j] = addr + 2^o
           \/ /\ j \in 1..Len(freeList[o]) /\ freeList'[o][j] = freeList[o][j]
              /\ o # current \/ j # Len(freeList[o])
      /\ \A o \in Orders : freeList'[o] \in Seq(Addresses)
  BY SplitPieces
<1>4. /\ \A o \in Orders : \A j \in 1..Len(freeList[o]) :
           o # current \/ j # n => PiecesApart(addr, current, freeList[o][j], o)
      /\ \A a \in Addresses : IsAllocated(a) =>
           PiecesApart(addr, current, a, orderOf(a)) /\ orderOf(a) \in Orders
      /\ EndOfPiece(addr, current) <= totalSize
  <2>1. \A a, b, o, p : PiecesApart(a, o, b, p) <=> PiecesApart(b, p, a, o)
    BY DEF PiecesApart
  <2>2. \A a \in Addresses : IsAllocated(a) => orderOf(a) \in Orders
    BY UsedOrder DEF LabInv
  <2> QED
    BY <1>1, <2>1, <2>2 DEF LabInv, FreePiecesApart, FreeApartFromUsed, PiecesFit
<1>5. ~IsAllocated(addr)
  <2> SUFFICES ASSUME IsAllocated(addr) PROVE FALSE
    OBVIOUS
  <2>1. PiecesApart(addr, current, addr, orderOf(addr)) /\ orderOf(addr) \in Orders
    BY <1>4
  <2>2. PICK p \in Nat \ {0}, q \in Nat \ {0} : p = 2^current /\ q = 2^orderOf(addr)
    BY <2>1, OrderFacts
  <2> QED
    BY <1>1, <2>1, <2>2 DEF PiecesApart, EndOfPiece
<1>6. LabTyped'
  BY <1>2, <1>3 DEF LabInv, LabTyped
<1>7. ASSUME NEW a \in Addresses, IsAllocated(a)'
      PROVE  \/ a = addr /\ orderOf(a)' = order
             \/ /\ a # addr /\ IsAllocated(a) /\ orderOf(a)' = orderOf(a)
                /\ allocated'[a] = allocated[a]
  BY <1>2, <1>7 DEF IsAllocated, orderOf, LabInv, LabTyped
<1>8. Inside(addr, order, addr, current)
  <2>1. 2^order <= 2^current
    <3>1. CASE order = current
      BY <3>1, OrderFacts
    <3>2. CASE order < current
      <4>1. 2^order \in Nat /\ 2^current \in Nat /\ 2^order + 2^order <= 2^current
        BY <3>2, OrderFacts, PowerGrows
      <4> QED
        BY <4>1
    <3> QED
      BY <1>1, <3>1, <3>2, OrderFacts
  <2> QED
    BY <1>1, <2>1, OrderFacts DEF Inside, EndOfPiece
<1>9. ASSUME NEW o \in Orders, order <= o, o < current
      PROVE  /\ addr + 2^o \in Nat
             /\ Inside(addr + 2^o, o, addr, current)
             /\ PiecesApart(addr, order, addr + 2^o, o)
  <2>1. 2^o \in Nat /\ 2^current \in Nat /\ 2^order \in Nat /\ 2^o + 2^o <= 2^current
    BY <1>9, OrderFacts, PowerGrows
  <2>2. 2^order <= 2^o
    <3>1. CASE order = o
      BY <3>1, OrderFacts
    <3>2. CASE order < o
      <4>1. 2^order + 2^order <= 2^o
        BY <3>2, OrderFacts, PowerGrows
      <4> QED
        BY <2>1, <4>1
    <3> QED
      BY <1>9, <3>1, <3>2, OrderFacts
  <2>3. PICK x \in Nat, y \in Nat, z \in Nat : x = 2^o /\ y = 2^current /\ z = 2^order
    BY <2>1
  <2>4. PICK b \in Nat : b = addr + 2^o
    BY <1>1, <2>3
  <2>5. addr <= b /\ b + x <= addr + y /\ addr + z <= b
    BY <1>1, <2>1, <2>2, <2>3, <2>4
  <2>6. Inside(b, o, addr, current) /\ PiecesApart(addr, order, b, o)
    BY <2>3, <2>5 DEF Inside, PiecesApart, EndOfPiece
  <2> QED
    BY <2>4, <2>6
<1>10. FreePiecesApart'
  <2> SUFFICES ASSUME NEW o \in Orders, NEW p \in Orders,
                      NEW j \in 1..Len(freeList'[o]), NEW k \in 1..Len(freeList'[p]),
                      o # p \/ j # k
               PROVE  PiecesApart(freeList'[o][j], o, freeList'[p][k], p)
    BY DEF FreePiecesApart, PiecesApart, EndOfPiece
  <2> DEFINE Fresh(r, i) == order <= r /\ r < current /\ i = 1 /\ freeList'[r][i] = addr + 2^r
             Old(r, i) == /\ i \in 1..Len(freeList[r]) /\ freeList'[r][i] = freeList[r][i]
                          /\ r # current \/ i # n
  <2>1. (Fresh(o, j) \/ Old(o, j)) /\ (Fresh(p, k) \/ Old(p, k))
    BY <1>3
  <2>2. CASE Fresh(o, j) /\ Fresh(p, k)
    <3>1. o # p
      BY <2>2
    <3>2. ASSUME NEW r \in Orders, NEW s \in Orders, r < s
          PROVE  PiecesApart(addr + 2^r, r, addr + 2^s, s)
      <4>1. 2^r \in Nat /\ 2^s \in Nat /\ 2^r + 2^r <= 2^s
        BY <3>2, OrderFacts, PowerGrows
      <4>2. PICK x \in Nat, y \in Nat : x = 2^r /\ y = 2^s
        BY <4>1
      <4> QED
        BY <1>1, <4>1, <4>2 DEF PiecesApart, EndOfPiece
    <3>3. o < p \/ p < o
      BY <3>1, OrderFacts
    <3> QED
      BY <2>2, <3>2, <3>3 DEF PiecesApart
  <2>3. CASE Fresh(o, j) /\ Old(p, k)
    <3>1. PICK b \in Nat, c \in Nat : /\ b = freeList'[o][j] /\ c = freeList'[p][k]
                                     /\ Inside(b, o, addr, current)
                                     /\ PiecesApart(addr, current, c, p)
      BY <1>1, <1>4, <1>9, <2>3
    <3>2. addr \in Nat /\ Inside(b, o, addr, current) /\ PiecesApart(addr, current, c, p)
      BY <1>1, <3>1
    <3> HIDE DEF n, Fresh, Old
    <3>3. PiecesApart(b, o, c, p)
      BY <3>2, InsideApart
    <3> QED
      BY <3>1, <3>3
  <2>4. CASE Old(o, j) /\ Fresh(p, k)
    <3>1. PICK b \in Nat, c \in Nat : /\ b = freeList'[p][k] /\ c = freeList'[o][j]
                                     /\ Inside(b, p, addr, current)
                                     /\ PiecesApart(addr, current, c, o)
      BY <1>1, <1>4, <1>9, <2>4
    <3>2. addr \in Nat /\ Inside(b, p, addr, current) /\ PiecesApart(addr, current, c, o)
      BY <1>1, <3>1
    <3> HIDE DEF n, Fresh, Old
    <3>3. PiecesApart(c, o, b, p)
      BY <3>2, InsideApart
    <3> QED
      BY <3>1, <3>3
  <2>5. CASE Old(o, j) /\ Old(p, k)
    BY <2>5 DEF LabInv, FreePiecesApart
  <2> QED
    BY <2>1, <2>2, <2>3, <2>4, <2>5
<1>11. \A a \in Addresses : IsAllocated(a) => PiecesApart(a, orderOf(a), addr, order)
  BY <1>1, <1>4, <1>8, InsideApart
<1>12. FreeApartFromUsed'
  <2> SUFFICES ASSUME NEW a \in Addresses, NEW o \in Orders,
                      NEW j \in 1..Len(freeList'[o]), IsAllocated(a)'
               PROVE  PiecesApart(a, orderOf(a)', freeList'[o][j], o)
    BY DEF FreeApartFromUsed, PiecesApart, EndOfPiece
  <2>1. \/ a = addr /\ orderOf(a)' = order
        \/ IsAllocated(a) /\ orderOf(a)' = orderOf(a)
    BY <1>7
  <2>2. \/ order <= o /\ o < current /\ freeList'[o][j] = addr + 2^o
        \/ /\ j \in 1..Len(freeList[o]) /\ freeList'[o][j] = freeList[o][j]
           /\ o # current \/ j # n
    BY <1>3
  <2>3. CASE a = addr /\ orderOf(a)' = order
    <3>1. CASE order <= o /\ o < current /\ freeList'[o][j] = addr + 2^o
      BY <1>9, <2>3, <3>1
    <3>2. CASE /\ j \in 1..Len(freeList[o]) /\ freeList'[o][j] = freeList[o][j]
               /\ o # current \/ j # n
      <4>1. PiecesApart(addr, current, freeList[o][j], o) /\ freeList[o][j] \in Nat
        BY <1>1, <1>4, <3>2
      <4> QED
        BY <1>1, <1>8, <2>3, <3>2, <4>1, InsideApart
    <3> QED
      BY <2>2, <3>1, <3>2
  <2>4. CASE IsAllocated(a) /\ orderOf(a)' = orderOf(a)
    <3>1. CASE order <= o /\ o < current /\ freeList'[o][j] = addr + 2^o
      <4>1. /\ addr + 2^o \in Nat /\ Inside(addr + 2^o, o, addr, current)
            /\ PiecesApart(addr, current, a, orderOf(a)) /\ orderOf(a) \in Orders
            /\ a \in Nat
        BY <1>1, <1>4, <1>9, <2>4, <3>1
      <4> QED
        BY <1>1, <2>4, <3>1, <4>1, InsideApart
    <3>2. CASE j \in 1..Len(freeList[o]) /\ freeList'[o][j] = freeList[o][j]
      BY <2>4, <3>2 DEF LabInv, FreeApartFromUsed
    <3> QED
      BY <2>2, <3>1, <3>2
  <2> QED
    BY <2>1, <2>3, <2>4
<1>13. UsedPiecesApart'
  <2> SUFFICES ASSUME NEW a \in Addresses, NEW b \in Addresses, a # b,
                      IsAllocated(a)', IsAllocated(b)'
               PROVE  PiecesApart(a, orderOf(a)', b, orderOf(b)')
    BY DEF UsedPiecesApart, PiecesApart, EndOfPiece
  <2>1. \A x, y, o, p : PiecesApart(x, o, y, p) <=> PiecesApart(y, p, x, o)
    BY DEF PiecesApart
  <2>2. /\ \/ a = addr /\ orderOf(a)' = order
           \/ IsAllocated(a) /\ orderOf(a)' = orderOf(a)
        /\ \/ b = addr /\ orderOf(b)' = order
           \/ IsAllocated(b) /\ orderOf(b)' = orderOf(b)
    BY <1>7
  <2> QED
    BY <1>11, <2>1, <2>2 DEF LabInv, UsedPiecesApart
<1>14. EndOfPiece(addr, order) <= totalSize
  BY <1>1, <1>4, <1>8, OrderFacts, MemoryFacts DEF Inside, EndOfPiece
<1>15. PiecesFit'
  <2>1. ASSUME NEW o \in Orders, NEW j \in 1..Len(freeList'[o])
        PROVE  EndOfPiece(freeList'[o][j], o) <= totalSize
    <3>1. CASE order <= o /\ o < current /\ freeList'[o][j] = addr + 2^o
      <4>1. PICK b \in Nat : b = freeList'[o][j] /\ Inside(b, o, addr, current)
        BY <1>9, <3>1
      <4>2. EndOfPiece(b, o) \in Nat /\ EndOfPiece(addr, current) \in Nat
        BY SMTT(30), <1>1, OrderFacts DEF EndOfPiece
      <4> QED
        BY <1>4, <4>1, <4>2, MemoryFacts DEF Inside
    <3>2. CASE j \in 1..Len(freeList[o]) /\ freeList'[o][j] = freeList[o][j]
      BY <3>2 DEF LabInv, PiecesFit
    <3> QED
      BY <1>3, <3>1, <3>2
  <2>2. ASSUME NEW a \in Addresses, IsAllocated(a)'
        PROVE  EndOfPiece(a, orderOf(a)') <= totalSize
    BY <1>1, <1>7, <1>14, <2>2 DEF LabInv, PiecesFit
  <2> QED
    BY <2>1, <2>2 DEF PiecesFit, EndOfPiece
<1> QED
  BY <1>5, <1>6, <1>10, <1>11, <1>12, <1>13, <1>14, <1>15 DEF LabInv

LEMMA LabInvNext == LabInv /\ [LabNext]_labVars => LabInv'
<1> SUFFICES ASSUME LabInv, [LabNext]_labVars PROVE LabInv'
  OBVIOUS
<1>1. ASSUME NEW size \in BuddySizes, LabAllocate(size) PROVE LabInv'
  <2>1. PICK addr \in Addresses, order \in Orders, current \in Orders :
          Splits(addr, order, current, size)
    BY <1>1, AllocateSplits DEF LabInv
  <2> QED
    BY <2>1, AllocateKeeps
<1>2. ASSUME NEW size \in BuddySizes, SearchForEver(size) PROVE LabInv'
  <2>1. size \in Nat /\ searching' = size /\ freeList' = freeList /\ allocated' = allocated
    BY <1>2, OrderAssumption DEF SearchForEver
  <2> QED
    BY <2>1 DEF LabInv, LabTyped, FreePiecesApart, FreeApartFromUsed, UsedPiecesApart,
                PiecesFit, IsAllocated, orderOf
<1>3. ASSUME NEW addr \in Addresses, LabDeallocate(addr) PROVE LabInv'
  BY <1>3, DeallocateKeeps
<1>4. CASE UNCHANGED <<freeList, allocated, searching>>
  BY <1>4 DEF LabInv, LabTyped, FreePiecesApart, FreeApartFromUsed, UsedPiecesApart,
              PiecesFit, IsAllocated, orderOf
<1> QED
  BY <1>1, <1>2, <1>3, <1>4 DEF LabNext, InvalidFree, labVars

-----------------------------------------------------------------------------
(* BuddyAllocator: what clients hold.                                      *)

LabHeld(a) == [handle |-> a, address |-> a, size |-> 2^orderOf(a)]

LEMMA LabInUseHeld ==
  LabInUse = {LabHeld(a) : a \in {a \in Addresses : IsAllocated(a)}}
  BY DEF LabInUse, LabHeld, IsAllocated

\* Pieces that are apart have no unit in common, and a piece has units.
LEMMA UnitsOfPieces ==
  ASSUME NEW a \in Nat, NEW o \in Orders, NEW b \in Nat, NEW p \in Orders,
         NEW x, x.address = a, x.size = 2^o, NEW y, y.address = b, y.size = 2^p
  PROVE  /\ PiecesApart(a, o, b, p) => LabPlacement!Apart(x, y)
         /\ ~LabPlacement!Apart(x, x)
         /\ EndOfPiece(a, o) <= totalSize => LabPlacement!Units(x) \subseteq 0..totalSize - 1
<1>1. PICK m \in Nat \ {0}, n \in Nat \ {0} : m = 2^o /\ n = 2^p
  BY OrderFacts
<1>2. LabPlacement!Units(x) = a .. a + m - 1 /\ LabPlacement!Units(y) = b .. b + n - 1
  BY <1>1 DEF LabPlacement!Units
<1>3. PiecesApart(a, o, b, p) => LabPlacement!Apart(x, y)
  BY <1>1, <1>2 DEF PiecesApart, EndOfPiece, LabPlacement!Apart
<1>4. a \in a .. a + m - 1
  BY <1>1
<1>5. ~LabPlacement!Apart(x, x)
  BY <1>2, <1>4 DEF LabPlacement!Apart
<1>6. EndOfPiece(a, o) <= totalSize => LabPlacement!Units(x) \subseteq 0..totalSize - 1
  BY <1>1, <1>2, MemoryFacts DEF EndOfPiece
<1> QED
  BY <1>3, <1>5, <1>6

\* An allocation is a Grant.
LEMMA LabAllocateGrants ==
  ASSUME LabInv, NEW size \in BuddySizes, LabAllocate(size)
  PROVE  LabPlacement!Grant
<1>1. PICK addr \in Addresses, order \in Orders, current \in Orders :
        Splits(addr, order, current, size)
  BY AllocateSplits DEF LabInv
<1>2. /\ LabInv' /\ ~IsAllocated(addr)
      /\ EndOfPiece(addr, order) <= totalSize
      /\ \A a \in Addresses : IsAllocated(a) => PiecesApart(a, orderOf(a), addr, order)
  BY <1>1, AllocateKeeps
<1>3. /\ allocated' = [allocated EXCEPT ![addr] = order]
      /\ size <= 2^order
      /\ labCall' = [handle |-> addr, size |-> size, answer |-> "granted"]
  BY <1>1 DEF Splits, LabAnswers
<1> DEFINE mine == [handle |-> addr, address |-> addr, size |-> 2^order]
<1>4. LabInUse' = LabInUse \union {mine}
  <2>1. LabInUse' = {[handle |-> a, address |-> a, size |-> 2^allocated'[a]] :
                       a \in {a \in Addresses : allocated'[a] # NotAllocated}}
    BY DEF LabInUse, orderOf
  <2>2. LabInUse = {[handle |-> a, address |-> a, size |-> 2^allocated[a]] :
                       a \in {a \in Addresses : allocated[a] # NotAllocated}}
    BY DEF LabInUse, orderOf
  <2>3. \A a \in Addresses : a # addr => allocated'[a] = allocated[a]
    BY <1>3 DEF LabInv, LabTyped
  <2>4. allocated'[addr] = order /\ allocated[addr] = NotAllocated
    BY <1>2, <1>3 DEF LabInv, LabTyped, IsAllocated
  <2>5. allocated'[addr] # NotAllocated
    BY <2>4, NotAllocatedNoOrder
  <2>6. mine = [handle |-> addr, address |-> addr, size |-> 2^allocated'[addr]]
    BY <2>4
  <2> HIDE DEF mine
  <2>7. ASSUME NEW b \in LabInUse' PROVE b \in LabInUse \union {mine}
    <3>1. PICK a \in Addresses :
            /\ allocated'[a] # NotAllocated
            /\ b = [handle |-> a, address |-> a, size |-> 2^allocated'[a]]
      BY <2>1
    <3>2. CASE a = addr
      BY <2>6, <3>1, <3>2
    <3>3. CASE a # addr
      BY <2>2, <2>3, <3>1, <3>3
    <3> QED
      BY <3>2, <3>3
  <2>8. ASSUME NEW b \in LabInUse PROVE b \in LabInUse'
    <3>1. PICK a \in Addresses :
            /\ allocated[a] # NotAllocated
            /\ b = [handle |-> a, address |-> a, size |-> 2^allocated[a]]
      BY <2>2
    <3>2. a # addr
      BY <2>4, <3>1
    <3> QED
      BY <2>1, <2>3, <3>1, <3>2
  <2>9. mine \in LabInUse'
    BY <2>1, <2>5, <2>6
  <2> QED
    BY <2>7, <2>8, <2>9
<1>5. addr \in Nat /\ Addresses \subseteq Nat /\ size \in Nat \ {0} /\ 2^order \in Nat
  BY MemoryFacts, OrderAssumption, OrderFacts DEF Addresses
<1>6. mine.handle = addr /\ mine.address = addr /\ mine.size = 2^order
  OBVIOUS
<1> HIDE DEF mine
<1>7. /\ labCall'.answer = "granted" /\ mine.handle = labCall'.handle
      /\ labCall'.size \in 1..mine.size
      /\ LabPlacement!Units(mine) \subseteq 0..totalSize - 1
      /\ ~LabPlacement!Apart(mine, mine)
  BY <1>2, <1>3, <1>5, <1>6, UnitsOfPieces
<1>8. ASSUME NEW b \in LabInUse PROVE LabPlacement!Apart(mine, b)
  <2>1. PICK a \in Addresses : IsAllocated(a) /\ b = LabHeld(a)
    BY LabInUseHeld
  <2>2. orderOf(a) \in Orders /\ b.address = a /\ b.size = 2^orderOf(a) /\ a \in Nat
    BY <1>5, <2>1, UsedOrder DEF LabInv, LabHeld
  <2>3. PiecesApart(addr, order, a, orderOf(a))
    BY <1>2, <2>1 DEF PiecesApart
  <2> QED
    BY <1>5, <1>6, <2>2, <2>3, UnitsOfPieces
<1>9. mine \notin LabInUse
  BY <1>7, <1>8
<1> QED
  BY <1>4, <1>7, <1>8, <1>9 DEF LabPlacement!Grant

\* The block at an address is what is held by it.
LEMMA LabHeldBy ==
  ASSUME NEW addr \in Addresses
  PROVE  LabPlacement!HeldBy(addr) = {LabHeld(a) : a \in {a \in {addr} : IsAllocated(a)}}
<1>1. \A a : LabHeld(a).handle = a
  BY DEF LabHeld
<1> QED
  BY <1>1, LabInUseHeld DEF LabPlacement!HeldBy

\* A deallocation is a Reclaim.
LEMMA LabDeallocateReclaims ==
  ASSUME LabInv, NEW addr \in Addresses, LabDeallocate(addr)
  PROVE  LabPlacement!Reclaim
<1>1. /\ IsAllocated(addr)
      /\ allocated' = [allocated EXCEPT ![addr] = NotAllocated]
      /\ labCall'.answer = "freed" /\ labCall'.handle = addr
  BY DEF LabDeallocate, IsAllocated, LabAnswers
<1>2. LabInUse' = {[handle |-> a, address |-> a, size |-> 2^allocated'[a]] :
                     a \in {a \in Addresses : allocated'[a] # NotAllocated}}
  BY DEF LabInUse, orderOf
<1>3. LabInUse = {[handle |-> a, address |-> a, size |-> 2^allocated[a]] :
                     a \in {a \in Addresses : allocated[a] # NotAllocated}}
  BY DEF LabInUse, orderOf
<1>4. \A a \in Addresses : IF a = addr THEN allocated'[a] = NotAllocated
                           ELSE allocated'[a] = allocated[a]
  BY <1>1 DEF LabInv, LabTyped
<1>5. LabInUse' = {b \in LabInUse : b.handle # addr}
  BY <1>2, <1>3, <1>4
<1>6. LabInUse' = LabInUse \ LabPlacement!HeldBy(addr)
  BY <1>5 DEF LabPlacement!HeldBy
<1>7. LabPlacement!HeldBy(addr) # {}
  BY <1>1, LabHeldBy
<1> QED
  BY <1>1, <1>6, <1>7 DEF LabPlacement!Reclaim

\* At an address that is not in the map, nothing is held.
LEMMA InvalidFreeThenNothingHeld ==
  ASSUME NEW addr \in Addresses, InvalidFree(addr)
  PROVE  LabPlacement!NothingToReclaim
<1>1. /\ ~IsAllocated(addr) /\ allocated' = allocated
      /\ labCall'.answer = "not found" /\ labCall'.handle = addr
  BY DEF InvalidFree, IsAllocated, LabAnswers
<1>2. LabPlacement!HeldBy(addr) = {}
  BY <1>1, LabHeldBy
<1>3. LabInUse' = LabInUse
  BY <1>1 DEF LabInUse, orderOf
<1> QED
  BY <1>1, <1>2, <1>3 DEF LabPlacement!NothingToReclaim

LEMMA LabStep == LabInv /\ [LabNext]_labVars => [LabPlacement!Next]_<<LabInUse, labCall>>
<1> SUFFICES ASSUME LabInv, [LabNext]_labVars
             PROVE  [LabPlacement!Next]_<<LabInUse, labCall>>
  OBVIOUS
<1>1. ASSUME NEW size \in BuddySizes, LabAllocate(size) PROVE LabPlacement!Next
  BY <1>1, LabAllocateGrants DEF LabPlacement!Next
<1>2. ASSUME NEW addr \in Addresses, LabDeallocate(addr) PROVE LabPlacement!Next
  BY <1>2, LabDeallocateReclaims DEF LabPlacement!Next
<1>3. ASSUME NEW addr \in Addresses, InvalidFree(addr) PROVE LabPlacement!Next
  BY <1>3, InvalidFreeThenNothingHeld DEF LabPlacement!Next
<1>4. ASSUME UNCHANGED <<allocated, labCall>> PROVE UNCHANGED <<LabInUse, labCall>>
  BY <1>4 DEF LabInUse, orderOf
<1> QED
  BY <1>1, <1>2, <1>3, <1>4 DEF LabNext, SearchForEver, labVars

LEMMA LabStart == LabInit => LabPlacement!Init
  BY DEF LabInit, LabPlacement!Init, LabInUse

-----------------------------------------------------------------------------
(* Multiples of powers of two.                                             *)

LEMMA PowerAdds ==
  ASSUME NEW j \in Nat, NEW k \in Nat
  PROVE  2^(j + k) = 2^j * 2^k
<1> DEFINE S == {d \in Nat : 2^(j + d) = 2^j * 2^d}
<1>1. 0 \in S
  <2>1. 2^j \in Nat /\ j + 0 = j
    BY PowerPositive
  <2> QED
    BY <2>1, PowerZero
<1>2. ASSUME NEW d \in S PROVE d + 1 \in S
  <2>1. PICK e \in Nat : e = j + d
    OBVIOUS
  <2>2. 2^(e + 1) = 2^e + 2^e /\ 2^(d + 1) = 2^d + 2^d /\ j + (d + 1) = e + 1
    BY <2>1, PowerDoubles
  <2>3. PICK x \in Nat, y \in Nat : x = 2^j /\ y = 2^d
    BY PowerPositive
  <2>4. x * (y + y) = x * y + x * y
    OBVIOUS
  <2>5. 2^e = x * y
    BY <2>1, <2>3
  <2> QED
    BY <2>2, <2>3, <2>4, <2>5
<1> HIDE DEF S
<1>3. S = Nat
  <2>1. S \in SUBSET Nat
    BY DEF S
  <2> QED
    BY <1>1, <1>2, <2>1, SetInduction
<1> QED
  BY <1>3 DEF S

Multiple(a, m) == \E q \in Nat : a = q * m

LEMMA MultipleOfLess ==
  ASSUME NEW a \in Nat, NEW j \in Nat, NEW k \in Nat, j <= k, Multiple(a, 2^k)
  PROVE  Multiple(a, 2^j)
<1>1. PICK d \in Nat : d = k - j
  OBVIOUS
<1>2. 2^k = 2^j * 2^d
  <2>1. j + d = k
    BY <1>1
  <2> QED
    BY <2>1, PowerAdds
<1>3. PICK q \in Nat : a = q * 2^k
  BY DEF Multiple
<1>4. PICK x \in Nat, y \in Nat : x = 2^j /\ y = 2^d
  BY PowerPositive
<1>5. a = (q * y) * x /\ q * y \in Nat
  BY <1>2, <1>3, <1>4
<1> QED
  BY <1>4, <1>5 DEF Multiple

LEMMA MultipleNext ==
  ASSUME NEW a \in Nat, NEW m \in Nat, Multiple(a, m)
  PROVE  Multiple(a + m, m)
<1>1. PICK q \in Nat : a = q * m
  BY DEF Multiple
<1>2. a + m = (q + 1) * m /\ q + 1 \in Nat
  BY <1>1
<1> QED
  BY <1>2 DEF Multiple

\* Among m neighboring numbers there is one multiple of m.
LEMMA MultipleUnique ==
  ASSUME NEW a \in Nat, NEW f \in Nat, NEW m \in Nat \ {0},
         Multiple(a, m), Multiple(f, m), f <= a, a < f + m
  PROVE  f = a
<1>1. PICK q \in Nat, r \in Nat : a = q * m /\ f = r * m
  BY DEF Multiple
<1>2. r <= q
  <2> SUFFICES ASSUME q < r PROVE FALSE
    OBVIOUS
  <2>1. PICK d \in Nat \ {0} : r = q + d
    <3>1. r - q \in Nat \ {0} /\ r = q + (r - q)
      OBVIOUS
    <3> QED
      BY <3>1
  <2>2. f = a + d * m /\ d * m > 0
    BY <1>1, <2>1
  <2> QED
    BY <2>2
<1>3. q < r + 1
  <2> SUFFICES ASSUME r + 1 <= q PROVE FALSE
    OBVIOUS
  <2>1. PICK d \in Nat : q = (r + 1) + d
    <3>1. q - (r + 1) \in Nat /\ q = (r + 1) + (q - (r + 1))
      OBVIOUS
    <3> QED
      BY <3>1
  <2>2. a = f + m + d * m /\ d * m \in Nat
    BY <1>1, <2>1
  <2> QED
    BY <2>2
<1> QED
  BY <1>1, <1>2, <1>3

LEMMA MultipleOfMod ==
  ASSUME NEW a \in Nat, NEW m \in Nat \ {0}, a % m = 0
  PROVE  Multiple(a, m)
<1>1. a = m * (a \div m) + (a % m) /\ a \div m \in Nat
  OBVIOUS
<1>2. a = (a \div m) * m
  BY <1>1
<1> QED
  BY <1>1, <1>2 DEF Multiple

\* A number tells the quotient and the remainder it is made of: the block and
\* the place in it, the frame and the offset.
LEMMA FrameAndOffset ==
  ASSUME NEW P \in Nat \ {0}, NEW f \in Nat, NEW g \in Nat,
         NEW x \in 0..P - 1, NEW y \in 0..P - 1, f * P + x = g * P + y
  PROVE  f = g /\ x = y
<1>1. f <= g
  <2> SUFFICES ASSUME f >= g + 1 PROVE FALSE
    OBVIOUS
  <2>1. f * P >= (g + 1) * P
    BY SMTT(30)
  <2>2. (g + 1) * P = g * P + P
    BY SMTT(30)
  <2>3. f * P \in Int /\ g * P \in Int
    OBVIOUS
  <2> QED
    BY <2>1, <2>2, <2>3
<1>2. g <= f
  <2> SUFFICES ASSUME g >= f + 1 PROVE FALSE
    OBVIOUS
  <2>1. g * P >= (f + 1) * P
    BY SMTT(30)
  <2>2. (f + 1) * P = f * P + P
    BY SMTT(30)
  <2>3. f * P \in Int /\ g * P \in Int
    OBVIOUS
  <2> QED
    BY <2>1, <2>2, <2>3
<1>3. f = g
  BY <1>1, <1>2
<1>4. f * P \in Int
  OBVIOUS
<1> QED
  BY <1>3, <1>4

-----------------------------------------------------------------------------
(* BuddyAllocator: every unit is in some block.                            *)

LabAligned ==
  /\ \A o \in Orders : \A j \in 1..Len(freeList[o]) : Multiple(freeList[o][j], 2^o)
  /\ \A a \in Addresses : IsAllocated(a) => Multiple(a, 2^orderOf(a))

InPiece(u, a, o) == a <= u /\ u < EndOfPiece(a, o)

LabCovers ==
  \A u \in Addresses :
    \/ \E o \in Orders : \E j \in 1..Len(freeList[o]) : InPiece(u, freeList[o][j], o)
    \/ \E a \in Addresses : IsAllocated(a) /\ InPiece(u, a, orderOf(a))

\* Each block is at a multiple of its size, no unit is lost, and a search that
\* goes on for ever has no list to find.
SearchInv ==
  /\ LabInv /\ LabAligned /\ LabCovers
  /\ searching > 0 => searching \in BuddySizes /\ Candidates(searching) = {}

LEMMA SearchInvInit == LabInit => SearchInv
<1> SUFFICES ASSUME LabInit PROVE SearchInv
  OBVIOUS
<1>1. LabInv /\ searching = 0
  BY LabInvInit DEF LabInit
<1>2. /\ freeList = [o \in Orders |-> IF o = MaxOrder THEN <<0>> ELSE <<>>]
      /\ \A a \in Addresses : ~IsAllocated(a)
  BY DEF LabInit, IsAllocated
<1>3. \A o \in Orders : \A j \in 1..Len(freeList[o]) : freeList[o][j] = 0
  BY <1>2
<1>4. \A o \in Orders : Multiple(0, 2^o)
  <2> TAKE o \in Orders
  <2>1. 0 = 0 * 2^o
    BY OrderFacts
  <2> QED
    BY <2>1 DEF Multiple
<1>5. LabAligned
  BY <1>2, <1>3, <1>4 DEF LabAligned
<1>6. LabCovers
  <2> SUFFICES ASSUME NEW u \in Addresses
               PROVE  \E o \in Orders : \E j \in 1..Len(freeList[o]) : InPiece(u, freeList[o][j], o)
    BY DEF LabCovers
  <2>1. MaxOrder \in Orders /\ freeList[MaxOrder] = <<0>>
    BY <1>2, MemoryFacts
  <2>2. 1 \in 1..Len(freeList[MaxOrder]) /\ freeList[MaxOrder][1] = 0
    BY <2>1
  <2>3. InPiece(u, 0, MaxOrder)
    BY MemoryFacts DEF Addresses, InPiece, EndOfPiece, totalSize
  <2> QED
    BY <2>1, <2>2, <2>3
<1> QED
  BY <1>1, <1>5, <1>6 DEF SearchInv

LEMMA DeallocateSearch ==
  ASSUME SearchInv, NEW addr \in Addresses, LabDeallocate(addr)
  PROVE  SearchInv'
<1> DEFINE q == orderOf(addr)
           list == freeList[q]
           n == Len(list)
<1>1. /\ LabTyped /\ IsAllocated(addr) /\ q \in Orders
      /\ list \in Seq(Addresses) /\ n \in Nat
  <2>1. LabTyped /\ IsAllocated(addr)
    BY DEF SearchInv, LabInv, LabDeallocate, IsAllocated
  <2>2. q \in Orders
    BY <2>1, UsedOrder
  <2> QED
    BY <2>1, <2>2 DEF LabTyped
<1>2. /\ freeList' = [freeList EXCEPT ![q] = Append(list, addr)]
      /\ allocated' = [allocated EXCEPT ![addr] = NotAllocated]
      /\ searching' = 0
  BY DEF LabDeallocate
<1> HIDE DEF q, list, n
<1>3. /\ freeList'[q] = Append(list, addr)
      /\ \A o \in Orders : o # q => freeList'[o] = freeList[o]
      /\ list = freeList[q] /\ n = Len(list) /\ q = orderOf(addr)
  BY <1>1, <1>2 DEF LabTyped, list, n, q
<1>4. /\ Len(freeList'[q]) = n + 1 /\ freeList'[q][n + 1] = addr
      /\ \A j \in 1..n : freeList'[q][j] = freeList[q][j]
  BY <1>1, <1>3
<1>5. \A o \in Orders : \A j \in 1..Len(freeList'[o]) :
        \/ o = q /\ j = n + 1 /\ freeList'[o][j] = addr
        \/ j \in 1..Len(freeList[o]) /\ freeList'[o][j] = freeList[o][j]
  BY <1>1, <1>3, <1>4
<1>6. \A o \in Orders : \A j \in 1..Len(freeList[o]) :
        j \in 1..Len(freeList'[o]) /\ freeList'[o][j] = freeList[o][j]
  BY SMTT(30), <1>1, <1>3, <1>4
<1>7. \A a \in Addresses : a # addr =>
        /\ IsAllocated(a)' <=> IsAllocated(a)
        /\ orderOf(a)' = orderOf(a)
  BY <1>1, <1>2 DEF IsAllocated, orderOf, LabTyped
<1>8. ~IsAllocated(addr)'
  BY <1>1, <1>2 DEF IsAllocated, LabTyped
<1>9. LabInv'
  BY DeallocateKeeps DEF SearchInv
<1>10. LabAligned'
  <2>1. ASSUME NEW o \in Orders, NEW j \in 1..Len(freeList'[o])
        PROVE  Multiple(freeList'[o][j], 2^o)
    BY <1>1, <1>3, <1>5 DEF SearchInv, LabAligned
  <2>2. ASSUME NEW a \in Addresses, IsAllocated(a)'
        PROVE  Multiple(a, 2^(orderOf(a)'))
    BY <1>7, <1>8, <2>2 DEF SearchInv, LabAligned
  <2> QED
    BY <2>1, <2>2 DEF LabAligned, Multiple
<1>11. LabCovers'
  <2> SUFFICES ASSUME NEW u \in Addresses
               PROVE  \/ \E o \in Orders : \E j \in 1..Len(freeList'[o]) :
                             InPiece(u, freeList'[o][j], o)
                      \/ \E a \in Addresses : IsAllocated(a)' /\ InPiece(u, a, orderOf(a)')
    BY DEF LabCovers, InPiece, EndOfPiece
  <2>1. CASE \E o \in Orders : \E j \in 1..Len(freeList[o]) : InPiece(u, freeList[o][j], o)
    BY <1>6, <2>1
  <2>2. CASE \E a \in Addresses : IsAllocated(a) /\ InPiece(u, a, orderOf(a))
    <3>1. PICK a \in Addresses : IsAllocated(a) /\ InPiece(u, a, orderOf(a))
      BY <2>2
    <3>2. CASE a = addr
      <4>1. n + 1 \in 1..Len(freeList'[q])
        BY <1>1, <1>4
      <4> QED
        BY <1>1, <1>3, <1>4, <3>1, <3>2, <4>1
    <3>3. CASE a # addr
      BY <1>7, <3>1, <3>3
    <3> QED
      BY <3>2, <3>3
  <2> QED
    BY <2>1, <2>2 DEF SearchInv, LabCovers
<1> QED
  BY <1>2, <1>9, <1>10, <1>11 DEF SearchInv

\* A unit of the block that is split is in the part that is allocated or in
\* one of the halves.
LEMMA SplitCovers ==
  ASSUME NEW order \in Orders, NEW current \in Orders, order <= current,
         NEW addr \in Nat, NEW u \in Nat, InPiece(u, addr, current)
  PROVE  \/ InPiece(u, addr, order)
         \/ \E o \in Orders : order <= o /\ o < current /\ InPiece(u, addr + 2^o, o)
<1> DEFINE S == {o \in Orders : order <= o /\ o <= current /\ u < addr + 2^o}
<1>1. PICK t \in S : \A o \in S : t <= o
  <2>1. current \in S
    BY OrderFacts DEF InPiece, EndOfPiece
  <2>2. S \in SUBSET Nat
    BY OrderFacts
  <2> HIDE DEF S
  <2> QED
    BY <2>1, <2>2, LeastExists
<1>2. t \in Nat /\ t <= MaxOrder /\ MaxOrder \in Nat /\ order \in Nat /\ current \in Nat
  BY OrderFacts, MemoryFacts
<1>3. CASE t = order
  BY <1>3 DEF InPiece, EndOfPiece
<1>4. CASE t # order
  <2>1. PICK o \in Nat : o = t - 1
    BY <1>2, <1>4
  <2>2. o \in Orders /\ order <= o /\ o < current /\ o + 1 = t
    BY <1>2, <1>4, <2>1 DEF Orders
  <2>3. ~ (u < addr + 2^o)
    BY <1>1, <2>1, <2>2
  <2>4. 2^t = 2^o + 2^o /\ 2^o \in Nat
    BY <2>2, PowerDoubles
  <2>5. PICK x \in Nat : x = 2^o
    BY <2>4
  <2>6. addr + x <= u /\ u < addr + x + x
    BY <2>3, <2>4, <2>5
  <2>7. InPiece(u, addr + 2^o, o)
    BY <2>5, <2>6 DEF InPiece, EndOfPiece
  <2> QED
    BY <2>2, <2>7
<1> QED
  BY <1>3, <1>4

LEMMA AllocateSearch ==
  ASSUME SearchInv, NEW size \in BuddySizes, NEW addr \in Addresses,
         NEW order \in Orders, NEW current \in Orders, Splits(addr, order, current, size),
         searching = 0
  PROVE  SearchInv'
<1> DEFINE n == Len(freeList[current])
<1>1. /\ LabInv' /\ ~IsAllocated(addr) /\ LabInv
  BY AllocateKeeps DEF SearchInv
<1>2. /\ n \in 1..Len(freeList[current]) /\ addr = freeList[current][n] /\ order <= current
      /\ n \in Nat
      /\ addr \in Nat /\ Addresses \subseteq Nat
      /\ \A o \in Orders : freeList[o] \in Seq(Addresses)
      /\ \A o \in Orders : order <= o /\ o < current => freeList[o] = <<>>
      /\ allocated' = [allocated EXCEPT ![addr] = order]
      /\ searching' = 0
  BY MemoryFacts DEF Splits, Addresses, SearchInv, LabInv, LabTyped
<1>3. \A o \in Orders : \A j \in 1..Len(freeList'[o]) :
        \/ order <= o /\ o < current /\ j = 1 /\ freeList'[o][j] = addr + 2^o
        \/ j \in 1..Len(freeList[o]) /\ freeList'[o][j] = freeList[o][j]
  BY <1>1, SplitPieces
<1>4. \A o \in Orders : freeList'[o] =
        IF o = current THEN Front(freeList[o])
        ELSE IF order <= o /\ o < current THEN Append(freeList[o], buddy(addr, o))
        ELSE freeList[o]
  BY DEF Splits
<1>5. ASSUME NEW o \in Orders, NEW j \in 1..Len(freeList[o]), o # current \/ j # n
      PROVE  j \in 1..Len(freeList'[o]) /\ freeList'[o][j] = freeList[o][j]
  <2>1. CASE o = current
    <3>1. freeList'[o] = SubSeq(freeList[o], 1, n - 1)
      BY <1>4, <2>1 DEF Front
    <3>2. j \in 1..n - 1
      BY <1>2, <1>5, <2>1
    <3> QED
      BY <1>2, <2>1, <3>1, <3>2
  <2>2. CASE o # current
    <3>1. ~ (order <= o /\ o < current)
      BY <1>2
    <3> QED
      BY <1>4, <2>2, <3>1
  <2> QED
    BY <2>1, <2>2
<1>6. ASSUME NEW o \in Orders, order <= o, o < current
      PROVE  1 \in 1..Len(freeList'[o]) /\ freeList'[o][1] = addr + 2^o
  <2>1. freeList[o] = <<>> /\ o # current
    BY <1>2, <1>6, OrderFacts
  <2>2. freeList'[o] = Append(<<>>, addr + 2^o)
    BY <1>4, <1>6, <2>1 DEF buddy
  <2> QED
    BY <2>2
<1>7. \A a \in Addresses : a # addr =>
        /\ IsAllocated(a)' <=> IsAllocated(a)
        /\ orderOf(a)' = orderOf(a)
  BY <1>1, <1>2 DEF IsAllocated, orderOf, LabInv, LabTyped
<1>8. IsAllocated(addr)' /\ orderOf(addr)' = order
  <2>1. allocated'[addr] = order
    BY <1>1, <1>2 DEF LabInv, LabTyped
  <2> QED
    BY <2>1, NotAllocatedNoOrder DEF IsAllocated, orderOf
<1>9. LabAligned'
  <2>1. Multiple(addr, 2^current)
    BY <1>2 DEF SearchInv, LabAligned
  <2>2. \A o \in Orders : o <= current => Multiple(addr, 2^o)
    BY <1>2, <2>1, OrderFacts, MultipleOfLess
  <2>3. ASSUME NEW o \in Orders, NEW j \in 1..Len(freeList'[o])
        PROVE  Multiple(freeList'[o][j], 2^o)
    <3>1. CASE order <= o /\ o < current /\ freeList'[o][j] = addr + 2^o
      <4>1. PICK m \in Nat : m = 2^o
        BY OrderFacts
      <4>2. Multiple(addr, m)
        BY <2>2, <3>1, <4>1, OrderFacts
      <4>3. Multiple(addr + m, m)
        BY <1>2, <4>2, MultipleNext
      <4> QED
        BY <3>1, <4>1, <4>3
    <3>2. CASE j \in 1..Len(freeList[o]) /\ freeList'[o][j] = freeList[o][j]
      BY <3>2 DEF SearchInv, LabAligned
    <3> QED
      BY <1>3, <3>1, <3>2
  <2>4. ASSUME NEW a \in Addresses, IsAllocated(a)'
        PROVE  Multiple(a, 2^(orderOf(a)'))
    <3>1. CASE a = addr
      BY <1>2, <1>8, <2>2, <3>1
    <3>2. CASE a # addr
      BY <1>7, <2>4, <3>2 DEF SearchInv, LabAligned
    <3> QED
      BY <3>1, <3>2
  <2> QED
    BY <2>3, <2>4 DEF LabAligned, Multiple
<1>10. LabCovers'
  <2> SUFFICES ASSUME NEW u \in Addresses
               PROVE  \/ \E o \in Orders : \E j \in 1..Len(freeList'[o]) :
                             InPiece(u, freeList'[o][j], o)
                      \/ \E a \in Addresses : IsAllocated(a)' /\ InPiece(u, a, orderOf(a)')
    BY DEF LabCovers, InPiece, EndOfPiece
  <2>1. CASE \E o \in Orders : \E j \in 1..Len(freeList[o]) : InPiece(u, freeList[o][j], o)
    <3>1. PICK o \in Orders : \E j \in 1..Len(freeList[o]) : InPiece(u, freeList[o][j], o)
      BY <2>1
    <3>2. PICK j \in 1..Len(freeList[o]) : InPiece(u, freeList[o][j], o)
      BY <3>1
    <3>3. CASE o # current \/ j # n
      BY <1>5, <3>2, <3>3
    <3>4. CASE o = current /\ j = n
      <4>1. \/ InPiece(u, addr, order)
            \/ \E p \in Orders : order <= p /\ p < current /\ InPiece(u, addr + 2^p, p)
        BY <1>2, <3>2, <3>4, SplitCovers
      <4>2. CASE InPiece(u, addr, order)
        BY <1>8, <4>2
      <4>3. CASE \E p \in Orders : order <= p /\ p < current /\ InPiece(u, addr + 2^p, p)
        BY <1>6, <4>3
      <4> QED
        BY <4>1, <4>2, <4>3
    <3> QED
      BY <3>3, <3>4
  <2>2. CASE \E a \in Addresses : IsAllocated(a) /\ InPiece(u, a, orderOf(a))
    BY <1>1, <1>7, <2>2
  <2> QED
    BY <2>1, <2>2 DEF SearchInv, LabCovers
<1> QED
  BY <1>1, <1>2, <1>9, <1>10 DEF SearchInv

LEMMA SearchInvNext == SearchInv /\ [LabNext]_labVars => SearchInv'
<1> SUFFICES ASSUME SearchInv, [LabNext]_labVars PROVE SearchInv'
  OBVIOUS
<1>0. LabInv'
  BY LabInvNext DEF SearchInv
<1>1. ASSUME NEW size \in BuddySizes, LabAllocate(size) PROVE SearchInv'
  <2>1. PICK addr \in Addresses, order \in Orders, current \in Orders :
          Splits(addr, order, current, size)
    BY <1>1, AllocateSplits DEF SearchInv, LabInv
  <2>2. searching = 0
    BY <1>1 DEF LabAllocate
  <2> QED
    BY <2>1, <2>2, AllocateSearch
<1>2. ASSUME NEW size \in BuddySizes, SearchForEver(size) PROVE SearchInv'
  <2>1. /\ Candidates(size) = {} /\ searching' = size
        /\ freeList' = freeList /\ allocated' = allocated
    BY <1>2 DEF SearchForEver
  <2> QED
    BY <1>0, <2>1 DEF SearchInv, LabAligned, LabCovers, IsAllocated, orderOf, Candidates
<1>3. ASSUME NEW addr \in Addresses, LabDeallocate(addr) PROVE SearchInv'
  BY <1>3, DeallocateSearch
<1>4. CASE UNCHANGED <<freeList, allocated, searching>>
  BY <1>0, <1>4 DEF SearchInv, LabAligned, LabCovers, IsAllocated, orderOf, Candidates
<1> QED
  BY <1>1, <1>2, <1>3, <1>4 DEF LabNext, InvalidFree, labVars

LEMMA SearchInvEnds == SearchInv => SearchEndsUnlessSplit
<1> DEFINE g == getOrder(searching)
           length == 2^g
           PlaceAt(a) == a..a + length - 1
           Touched(a) == \E b \in LabInUse :
                           PlaceAt(a) \intersect (b.address .. b.address + b.size - 1) # {}
           Split(a) == \E o \in Orders : \E f \in ToSet(freeList[o]) :
                         f \in PlaceAt(a) /\ f + 2^o - 1 \in PlaceAt(a) /\ 2^o < length
<1> SUFFICES ASSUME SearchInv, searching > 0,
                    NEW a \in Addresses, a % length = 0, a + length <= totalSize
             PROVE  Touched(a) \/ Split(a)
  BY DEF SearchEndsUnlessSplit
<1>1. searching \in Nat \ {0} /\ Candidates(searching) = {}
  BY OrderAssumption DEF SearchInv
<1>2. g \in Nat /\ length \in Nat \ {0} /\ a \in Nat /\ Addresses \subseteq Nat
  BY <1>1, OrderOfSize, PowerPositive, MemoryFacts DEF Addresses
<1> HIDE DEF g
<1>3. Multiple(a, length)
  BY <1>2, MultipleOfMod
<1>4. a \in PlaceAt(a)
  BY <1>2
<1>5. CASE \E o \in Orders : \E j \in 1..Len(freeList[o]) : InPiece(a, freeList[o][j], o)
  <2>1. PICK o \in Orders : \E j \in 1..Len(freeList[o]) : InPiece(a, freeList[o][j], o)
    BY <1>5
  <2>2. PICK j \in 1..Len(freeList[o]) : InPiece(a, freeList[o][j], o)
    BY <2>1
  <2>3. freeList[o] \in Seq(Addresses) /\ freeList[o] # <<>> /\ o \in Nat
    BY <2>2, OrderFacts DEF SearchInv, LabInv, LabTyped
  <2>4. o < g
    BY <1>1, <1>2, <2>3 DEF Candidates, g
  <2>5. PICK m \in Nat \ {0} : m = 2^o
    BY OrderFacts
  <2>6. PICK f \in Nat : f = freeList[o][j]
    <3>1. freeList[o][j] \in Addresses
      BY <2>2, <2>3
    <3> QED
      BY <1>2, <3>1
  <2>7. m + m <= length
    BY <1>2, <2>3, <2>4, <2>5, PowerGrows
  <2>8. Multiple(a, m)
    BY <1>2, <1>3, <2>3, <2>4, <2>5, MultipleOfLess
  <2>9. Multiple(f, m)
    BY <2>5, <2>6 DEF SearchInv, LabAligned
  <2>10. f <= a /\ a < f + m
    BY <2>2, <2>5, <2>6 DEF InPiece, EndOfPiece
  <2>11. f = a
    BY <1>2, <2>8, <2>9, <2>10, MultipleUnique
  <2>12. f \in ToSet(freeList[o])
    BY <2>3, <2>6 DEF ToSet
  <2>13. f \in PlaceAt(a) /\ f + m - 1 \in PlaceAt(a) /\ m < length
    BY <1>2, <2>7, <2>11
  <2> HIDE DEF Place, length
  <2> QED
    BY <2>5, <2>12, <2>13
<1>6. CASE \E b \in Addresses : IsAllocated(b) /\ InPiece(a, b, orderOf(b))
  <2>1. PICK b \in Addresses : IsAllocated(b) /\ InPiece(a, b, orderOf(b))
    BY <1>6
  <2>2. LabHeld(b) \in LabInUse
    BY <2>1, LabInUseHeld
  <2>3. PICK m \in Nat \ {0} : m = 2^orderOf(b)
    BY <2>1, UsedOrder, OrderFacts DEF SearchInv, LabInv
  <2>4. b <= a /\ a < b + m /\ b \in Nat
    BY <1>2, <2>1, <2>3 DEF InPiece, EndOfPiece
  <2>5. a \in LabHeld(b).address .. LabHeld(b).address + LabHeld(b).size - 1
    BY <1>2, <2>3, <2>4 DEF LabHeld
  <2> HIDE DEF Place
  <2>6. Touched(a)
    BY <1>4, <2>2, <2>5
  <2> QED
    BY <2>6
<1> QED
  BY <1>5, <1>6 DEF SearchInv, LabCovers

-----------------------------------------------------------------------------
(* PageReplacement: the FIFOs.                                             *)

\* The next free frame is the one behind those in the queue, the queue has each
\* used frame once, and the frames have different pages.
FIFOBooks ==
  /\ fifo \in Seq(Indices) /\ Len(fifo) <= NumFrames
  /\ memory \in [Indices -> Pages \union {NoPage}]
  /\ Entries(fifo) = 0..Len(fifo) - 1
  /\ \A i, j \in 1..Len(fifo) : fifo[i] = fifo[j] => i = j
  /\ \A f \in Indices : f < Len(fifo) <=> memory[f] # NoPage
  /\ \A f, g \in Indices : memory[f] # NoPage /\ memory[f] = memory[g] => f = g
  /\ frameQueue = [i \in 1..Len(fifo) |-> memory[fifo[i]]]
  /\ frameSet = {memory[f] : f \in 0..Len(fifo) - 1}

FIFOInv ==
  /\ reference \in Seq(Pages)
  /\ time \in 0..Len(reference)
  /\ FIFOBooks
  /\ faults.queue = faults.slots /\ faults.queue \in Nat

\* t is s without its first element, and with e at the end.
Rotated(t, s, e, S) ==
  /\ t \in Seq(S) /\ Len(t) = Len(s) /\ t[Len(s)] = e
  /\ \A i \in 1..Len(s) - 1 : t[i] = s[i + 1]

LEMMA AppendTail ==
  ASSUME NEW S, NEW s \in Seq(S), s # <<>>, NEW e \in S
  PROVE  Rotated(Append(Tail(s), e), s, e, S) /\ Head(s) = s[1]
<1> DEFINE t == Tail(s)
           u == Append(t, e)
<1>1. PICK n \in Nat \ {0} : n = Len(s)
  OBVIOUS
<1>2. t \in Seq(S) /\ Len(t) = n - 1 /\ Head(s) = s[1]
  BY <1>1, HeadTailProperties
<1>3. \A i \in 1..n - 1 : t[i] = s[i + 1]
  BY <1>1, <1>2, HeadTailProperties
<1> HIDE DEF t
<1>4. u \in Seq(S) /\ Len(u) = n /\ u[n] = e /\ \A i \in 1..n - 1 : u[i] = t[i]
  BY <1>2, AppendProperties
<1> HIDE DEF u
<1>5. Rotated(u, s, e, S)
  BY <1>1, <1>3, <1>4 DEF Rotated
<1> QED
  BY <1>2, <1>5 DEF u, t

LEMMA FIFOInvInit == Init => FIFOInv
<1> SUFFICES ASSUME Init PROVE FIFOInv
  OBVIOUS
<1>1. reference \in Seq(Pages) /\ 0 \in 0..Len(reference)
  BY ReferencesAssumption DEF Init
<1>2. memory = [i \in Indices |-> NoPage] /\ fifo = <<>> /\ Len(fifo) = 0
  BY DEF Init
<1>3. Entries(fifo) = {} /\ 0..Len(fifo) - 1 = {}
  BY <1>2 DEF Entries
<1>4. \A f \in Indices : memory[f] = NoPage /\ f \in Nat
  BY <1>2, NumFramesAssumption DEF Indices
<1>5. frameQueue = [i \in 1..Len(fifo) |-> memory[fifo[i]]]
  BY <1>2 DEF Init
<1>6. faults.queue = 0 /\ faults.slots = 0 /\ frameSet = {} /\ time = 0
  BY DEF Init
<1>7. memory \in [Indices -> Pages \union {NoPage}]
  BY <1>2
<1>8. \A f \in Indices : f < Len(fifo) <=> memory[f] # NoPage
  BY <1>2, <1>4
<1> QED
  BY <1>1, <1>2, <1>3, <1>4, <1>5, <1>6, <1>7, <1>8, NumFramesAssumption DEF FIFOInv, FIFOBooks

\* The pages the Lab8 and the Lab9 program have are the same.
LEMMA SamePages ==
  ASSUME FIFOInv, NEW page \in Pages
  PROVE  page \in frameSet <=> \E i \in Indices : memory[i] = page
<1>1. page # NoPage
  BY PagesAssumption DEF NoPage
<1>2. Len(fifo) \in Nat /\ \A f \in Indices : f \in Nat
  BY NumFramesAssumption DEF FIFOInv, FIFOBooks, Indices
<1>3. 0..Len(fifo) - 1 \subseteq Indices
  BY <1>2, NumFramesAssumption DEF FIFOInv, FIFOBooks, Indices
<1> QED
  BY <1>1, <1>2, <1>3 DEF FIFOInv, FIFOBooks

LEMMA FaultWithRoom ==
  ASSUME FIFOBooks, NEW page \in Pages, Len(fifo) < NumFrames,
         \A f \in Indices : memory[f] # page,
         memory' = [memory EXCEPT ![Len(fifo)] = page],
         fifo' = Append(fifo, Len(fifo)),
         frameQueue' = Append(frameQueue, page),
         frameSet' = frameSet \union {page}
  PROVE  FIFOBooks'
<1>1. PICK n \in Nat : n = Len(fifo)
  BY DEF FIFOBooks
<1>2. n \in Indices /\ (\A f \in Indices : f \in Nat) /\ NumFrames \in Nat /\ page # NoPage
  BY <1>1, NumFramesAssumption, PagesAssumption DEF Indices, NoPage
<1>3. /\ fifo' \in Seq(Indices) /\ Len(fifo') = n + 1 /\ fifo'[n + 1] = n
      /\ \A i \in 1..n : fifo'[i] = fifo[i] /\ fifo[i] \in Indices
  BY <1>1, <1>2 DEF FIFOBooks
<1>4. memory'[n] = page /\ \A f \in Indices : f # n => memory'[f] = memory[f]
  BY <1>1, <1>2 DEF FIFOBooks
<1>5. \A i \in 1..n : fifo[i] \in 0..n - 1
  BY <1>1 DEF FIFOBooks, Entries
<1>6. Entries(fifo') = 0..n
  <2>1. ASSUME NEW i \in 1..n + 1 PROVE fifo'[i] \in 0..n
    BY <1>3, <1>5
  <2>2. ASSUME NEW f \in 0..n PROVE \E i \in 1..n + 1 : f = fifo'[i]
    <3>1. CASE f = n
      BY <1>3, <3>1
    <3>2. CASE f # n
      <4>1. PICK i \in 1..n : f = fifo[i]
        BY <1>1, <3>2 DEF FIFOBooks, Entries
      <4> QED
        BY <1>3, <4>1
    <3> QED
      BY <3>1, <3>2
  <2> QED
    BY <1>3, <2>1, <2>2 DEF Entries
<1>7. \A i, j \in 1..n + 1 : fifo'[i] = fifo'[j] => i = j
  <2> SUFFICES ASSUME NEW i \in 1..n + 1, NEW j \in 1..n + 1, fifo'[i] = fifo'[j] PROVE i = j
    OBVIOUS
  <2>1. CASE i = n + 1 /\ j # n + 1
    BY <1>3, <1>5, <2>1
  <2>2. CASE j = n + 1 /\ i # n + 1
    BY <1>3, <1>5, <2>2
  <2>3. CASE i # n + 1 /\ j # n + 1
    BY <1>1, <1>3, <2>3 DEF FIFOBooks
  <2> QED
    BY <2>1, <2>2, <2>3
<1>8. \A f \in Indices : f < n + 1 <=> memory'[f] # NoPage
  BY <1>1, <1>2, <1>4 DEF FIFOBooks
<1>9. \A f, g \in Indices : memory'[f] # NoPage /\ memory'[f] = memory'[g] => f = g
  BY <1>1, <1>2, <1>4 DEF FIFOBooks
<1>10. frameQueue' = [i \in 1..n + 1 |-> memory'[fifo'[i]]]
  <2>1. /\ frameQueue = [i \in 1..n |-> memory[fifo[i]]]
        /\ \A i \in 1..n : memory[fifo[i]] \in Pages \union {NoPage}
    BY <1>1, <1>3 DEF FIFOBooks
  <2>2. frameQueue \in Seq(Pages \union {NoPage}) /\ Len(frameQueue) = n
    BY <2>1
  <2>3. /\ Len(frameQueue') = n + 1 /\ frameQueue'[n + 1] = page
        /\ \A i \in 1..n : frameQueue'[i] = memory[fifo[i]]
        /\ frameQueue' \in Seq(Pages \union {NoPage})
    BY <2>1, <2>2
  <2>4. \A i \in 1..n : memory'[fifo'[i]] = memory[fifo[i]]
    BY <1>3, <1>4, <1>5
  <2>5. \A i \in 1..n + 1 : frameQueue'[i] = memory'[fifo'[i]]
    BY <1>3, <1>4, <2>3, <2>4
  <2>6. frameQueue' = [i \in 1..n + 1 |-> frameQueue'[i]]
    BY <2>3, LenProperties
  <2> QED
    BY <2>5, <2>6
<1>11. frameSet' = {memory'[f] : f \in 0..n}
  <2>1. frameSet = {memory[f] : f \in 0..n - 1}
    BY <1>1 DEF FIFOBooks
  <2>2. \A f \in 0..n - 1 : memory'[f] = memory[f]
    BY <1>2, <1>4 DEF Indices
  <2> QED
    BY <1>4, <2>1, <2>2
<1>12. memory' \in [Indices -> Pages \union {NoPage}]
  BY <1>1, <1>2 DEF FIFOBooks
<1> QED
  BY SMTT(30), <1>1, <1>2, <1>3, <1>6, <1>7, <1>8, <1>9, <1>10, <1>11, <1>12 DEF FIFOBooks, Entries

LEMMA FaultWithEviction ==
  ASSUME FIFOBooks, NEW page \in Pages, Len(fifo) >= NumFrames,
         \A f \in Indices : memory[f] # page,
         memory' = [memory EXCEPT ![Head(fifo)] = page],
         fifo' = Append(Tail(fifo), Head(fifo)),
         frameQueue' = Append(Tail(frameQueue), page),
         frameSet' = (frameSet \ {Head(frameQueue)}) \union {page}
  PROVE  FIFOBooks'
<1>1. PICK n \in Nat \ {0} : n = Len(fifo) /\ n = NumFrames
  BY NumFramesAssumption DEF FIFOBooks
<1>2. PICK h \in Indices : h = fifo[1]
  <2>1. 1 \in 1..Len(fifo) /\ fifo \in Seq(Indices)
    BY <1>1 DEF FIFOBooks
  <2>2. fifo[1] \in Indices
    BY <2>1
  <2> QED
    BY <2>2
<1>3. (\A f \in Indices : f \in Nat) /\ page # NoPage /\ Indices = 0..n - 1
  BY <1>1, PagesAssumption DEF Indices, NoPage
<1>4. /\ fifo' \in Seq(Indices) /\ Len(fifo') = n /\ fifo'[n] = h
      /\ \A i \in 1..n - 1 : fifo'[i] = fifo[i + 1]
      /\ \A i \in 1..n : fifo[i] \in Indices
  <2>1. fifo # <<>> /\ fifo \in Seq(Indices)
    BY <1>1 DEF FIFOBooks
  <2>2. Head(fifo) = h
    BY <1>2, <2>1, AppendTail
  <2>3. Rotated(fifo', fifo, h, Indices)
    BY <2>1, <2>2, AppendTail
  <2> QED
    BY <1>1, <2>1, <2>3 DEF Rotated
<1>5. memory'[h] = page /\ \A f \in Indices : f # h => memory'[f] = memory[f]
  <2>1. Head(fifo) = h
    BY <1>1, <1>2, AppendTail DEF FIFOBooks
  <2> QED
    BY <1>2, <2>1 DEF FIFOBooks
<1>6. \A i, j \in 1..n : fifo[i] = fifo[j] => i = j
  BY <1>1 DEF FIFOBooks
<1>7. \A i \in 1..n - 1 : i + 1 \in 1..n /\ fifo[i + 1] # h
  BY <1>1, <1>2, <1>6
<1>8. Entries(fifo') = 0..n - 1
  <2>1. ASSUME NEW i \in 1..n PROVE fifo'[i] \in 0..n - 1
    BY <1>3, <1>4
  <2>2. ASSUME NEW f \in 0..n - 1 PROVE \E i \in 1..n : f = fifo'[i]
    <3>1. PICK i \in 1..n : f = fifo[i]
      BY <1>1 DEF FIFOBooks, Entries
    <3>2. CASE i = 1
      BY <1>2, <1>4, <3>1, <3>2
    <3>3. CASE i # 1
      <4>1. PICK k \in 1..n - 1 : k + 1 = i
        <5>1. i - 1 \in 1..n - 1 /\ (i - 1) + 1 = i
          BY <3>3
        <5> QED
          BY <5>1
      <4>2. fifo'[k] = f /\ k \in 1..n
        BY <1>4, <3>1, <4>1
      <4> QED
        BY <4>2
    <3> QED
      BY <3>2, <3>3
  <2>3. Entries(fifo') = {fifo'[i] : i \in 1..n}
    BY <1>4 DEF Entries
  <2> QED
    BY <2>1, <2>2, <2>3
<1>9. \A i, j \in 1..n : fifo'[i] = fifo'[j] => i = j
  <2> SUFFICES ASSUME NEW i \in 1..n, NEW j \in 1..n, fifo'[i] = fifo'[j] PROVE i = j
    OBVIOUS
  <2>1. CASE i = n /\ j # n
    BY <1>4, <1>7, <2>1
  <2>2. CASE j = n /\ i # n
    BY <1>4, <1>7, <2>2
  <2>3. CASE i # n /\ j # n
    <3>1. i \in 1..n - 1 /\ j \in 1..n - 1
      BY <2>3
    <3>2. fifo[i + 1] = fifo[j + 1]
      BY <1>4, <3>1
    <3>3. i + 1 = j + 1
      BY <1>6, <1>7, <3>1, <3>2
    <3> QED
      BY <3>3
  <2> QED
    BY <2>1, <2>2, <2>3
<1>10. \A f \in Indices : f < n <=> memory'[f] # NoPage
  BY <1>1, <1>3, <1>5 DEF FIFOBooks
<1>11. \A f, g \in Indices : memory'[f] # NoPage /\ memory'[f] = memory'[g] => f = g
  BY <1>1, <1>3, <1>5 DEF FIFOBooks
<1>12. /\ frameQueue = [i \in 1..n |-> memory[fifo[i]]]
       /\ frameQueue \in Seq(Pages \union {NoPage}) /\ Len(frameQueue) = n
       /\ frameQueue # <<>> /\ Head(frameQueue) = memory[h]
  <2>1. /\ frameQueue = [i \in 1..n |-> memory[fifo[i]]]
        /\ \A i \in 1..n : memory[fifo[i]] \in Pages \union {NoPage}
    BY <1>1, <1>4 DEF FIFOBooks
  <2>2. frameQueue \in Seq(Pages \union {NoPage}) /\ Len(frameQueue) = n
    BY <2>1
  <2>3. frameQueue # <<>> /\ frameQueue[1] = memory[h]
    <3>1. 1 \in 1..n /\ Len(frameQueue) # 0 /\ Len(<<>>) = 0
      BY <2>2
    <3> QED
      BY <1>2, <2>1, <3>1
  <2>4. Head(frameQueue) = frameQueue[1]
    BY <2>2, <2>3
  <2> QED
    BY <2>1, <2>2, <2>3, <2>4
<1>13. frameQueue' = [i \in 1..n |-> memory'[fifo'[i]]]
  <2>1. PICK S : S = Pages \union {NoPage}
    OBVIOUS
  <2>2. /\ frameQueue' \in Seq(S) /\ Len(frameQueue') = n
        /\ frameQueue'[n] = page
        /\ \A i \in 1..n - 1 : frameQueue'[i] = frameQueue[i + 1]
    <3>1. frameQueue \in Seq(S) /\ frameQueue # <<>> /\ page \in S /\ Len(frameQueue) = n
      BY <1>12, <2>1
    <3>2. Rotated(frameQueue', frameQueue, page, S)
      BY <3>1, AppendTail
    <3> QED
      BY <3>1, <3>2 DEF Rotated
  <2>3. \A i \in 1..n - 1 : memory'[fifo'[i]] = memory[fifo[i + 1]] /\ fifo[i + 1] \in Indices
    BY <1>4, <1>5, <1>7
  <2>4. ASSUME NEW i \in 1..n PROVE frameQueue'[i] = memory'[fifo'[i]]
    <3>1. CASE i = n
      BY <1>4, <1>5, <2>2, <3>1
    <3>2. CASE i # n
      <4>1. i \in 1..n - 1 /\ i + 1 \in 1..n
        BY <3>2
      <4> QED
        BY <1>12, <2>2, <2>3, <4>1
    <3> QED
      BY <3>1, <3>2
  <2>5. frameQueue' = [i \in 1..n |-> frameQueue'[i]]
    BY <2>2, LenProperties
  <2> QED
    BY <2>4, <2>5
<1>14. frameSet' = {memory'[f] : f \in 0..n - 1}
  <2>1. frameSet' = ({memory[f] : f \in Indices} \ {memory[h]}) \union {page}
    BY <1>1, <1>3, <1>12 DEF FIFOBooks
  <2>2. \A f \in Indices : memory[f] # NoPage
    BY <1>1, <1>3 DEF FIFOBooks
  <2>3. \A f \in Indices : memory[f] = memory[h] => f = h
    BY <1>2, <2>2 DEF FIFOBooks
  <2>4. ASSUME NEW p \in frameSet' PROVE \E f \in Indices : p = memory'[f]
    <3>1. CASE p = page
      BY <1>2, <1>5, <3>1
    <3>2. CASE p # page
      <4>1. PICK f \in Indices : p = memory[f] /\ memory[f] # memory[h]
        BY <2>1, <3>2
      <4>2. f # h
        BY <4>1
      <4> QED
        BY <1>5, <4>1, <4>2
    <3> QED
      BY <3>1, <3>2
  <2>5. ASSUME NEW f \in Indices PROVE memory'[f] \in frameSet'
    <3>1. CASE f = h
      BY <1>5, <2>1, <3>1
    <3>2. CASE f # h
      <4>1. memory[f] # memory[h] /\ memory'[f] = memory[f]
        BY <1>5, <2>3, <3>2
      <4> QED
        BY <2>1, <4>1
    <3> QED
      BY <3>1, <3>2
  <2>6. PICK F : F = frameSet'
    OBVIOUS
  <2>7. /\ \A p \in F : \E f \in Indices : p = memory'[f]
        /\ \A f \in Indices : memory'[f] \in F
    BY <2>4, <2>5, <2>6
  <2>8. F = {memory'[f] : f \in Indices}
    BY <2>7
  <2> QED
    BY <1>3, <2>6, <2>8
<1>15. memory' \in [Indices -> Pages \union {NoPage}]
  <2>1. Head(fifo) = h
    BY <1>1, <1>2, AppendTail DEF FIFOBooks
  <2> QED
    BY <2>1 DEF FIFOBooks
<1> QED
  <2>1. Len(fifo') = n /\ n <= NumFrames /\ fifo' \in Seq(Indices)
    BY <1>1, <1>4
  <2> QED
    BY <2>1, <1>8, <1>9, <1>10, <1>11, <1>13, <1>14, <1>15 DEF FIFOBooks, Entries

LEMMA FIFOInvNext == FIFOInv /\ [Next]_vars => FIFOInv'
<1> SUFFICES ASSUME FIFOInv, [Next]_vars PROVE FIFOInv'
  OBVIOUS
<1>1. CASE Reference
  <2> DEFINE page == reference[time + 1]
             One(missed) == IF missed THEN 1 ELSE 0
  <2>1. /\ time' = time + 1 /\ reference' = reference /\ time' \in 0..Len(reference)
        /\ reference \in Seq(Pages) /\ page \in Pages
    BY <1>1 DEF Reference, FIFOInv
  <2>2. /\ QueueHit(page) \/ QueueFault(page)
        /\ SlotHit(page) \/ SlotFault(page)
        /\ faults'.queue = faults.queue + One(page \notin frameSet)
        /\ faults'.slots = faults.slots + One(\A i \in Indices : memory[i] # page)
    BY <1>1 DEF Reference
  <2> HIDE DEF page
  <2>3. page \in frameSet <=> \E i \in Indices : memory[i] = page
    BY <2>1, SamePages
  <2>4. (page \notin frameSet) <=> (\A i \in Indices : memory[i] # page)
    BY <2>3
  <2>5. PICK n \in Nat : n = One(page \notin frameSet)
    OBVIOUS
  <2>6. faults'.queue = faults'.slots /\ faults'.queue \in Nat
    <3>1. faults'.queue = faults.queue + n
      BY <2>2, <2>5
    <3>2. faults'.slots = faults.slots + n
      BY <2>2, <2>4, <2>5
    <3> QED
      BY <3>1, <3>2 DEF FIFOInv
  <2>7. CASE page \in frameSet
    <3>1. UNCHANGED <<frameQueue, frameSet, memory, fifo>>
      BY <2>2, <2>3, <2>7 DEF QueueHit, QueueFault, SlotHit, SlotFault
    <3> QED
      BY <2>1, <2>6, <3>1 DEF FIFOInv, FIFOBooks, Entries
  <2>8. CASE page \notin frameSet
    <3>1. QueueFault(page) /\ SlotFault(page) /\ \A f \in Indices : memory[f] # page
      BY <2>2, <2>4, <2>8 DEF QueueHit, SlotHit
    <3>2. Len(frameQueue) = Len(fifo) /\ Len(fifo) \in Nat /\ NumFrames \in Nat
      BY NumFramesAssumption DEF FIFOInv, FIFOBooks
    <3>3. CASE Len(fifo) < NumFrames
      <4>1. /\ memory' = [memory EXCEPT ![Len(fifo)] = page]
            /\ fifo' = Append(fifo, Len(fifo))
            /\ frameQueue' = Append(frameQueue, page)
            /\ frameSet' = frameSet \union {page}
        BY <3>1, <3>2, <3>3 DEF QueueFault, SlotFault
      <4>2. FIFOBooks'
        BY <2>1, <3>1, <3>3, <4>1, FaultWithRoom DEF FIFOInv
      <4> QED
        BY <2>1, <2>6, <4>2 DEF FIFOInv
    <3>4. CASE Len(fifo) >= NumFrames
      <4>1. /\ memory' = [memory EXCEPT ![Head(fifo)] = page]
            /\ fifo' = Append(Tail(fifo), Head(fifo))
            /\ frameQueue' = Append(Tail(frameQueue), page)
            /\ frameSet' = (frameSet \ {Head(frameQueue)}) \union {page}
        BY <3>1, <3>2, <3>4 DEF QueueFault, SlotFault
      <4>2. FIFOBooks'
        BY <2>1, <3>1, <3>4, <4>1, FaultWithEviction DEF FIFOInv
      <4> QED
        BY <2>1, <2>6, <4>2 DEF FIFOInv
    <3> QED
      BY <3>2, <3>3, <3>4
  <2> QED
    BY <2>7, <2>8
<1>2. CASE UNCHANGED vars
  BY <1>2 DEF vars, FIFOInv, FIFOBooks, Entries
<1> QED
  BY <1>1, <1>2 DEF Next, Over

LEMMA FIFOInvAgree == FIFOInv => FIFOsAgree
<1> SUFFICES ASSUME FIFOInv PROVE FIFOsAgree
  OBVIOUS
<1>1. Len(fifo) \in Nat /\ frameQueue = [i \in 1..Len(fifo) |-> memory[fifo[i]]]
  BY DEF FIFOInv, FIFOBooks
<1>2. Len(frameQueue) = Len(fifo)
  BY <1>1
<1>3. frameSet = {memory[f] : f \in Entries(fifo)}
  BY DEF FIFOInv, FIFOBooks
<1>4. Entries(frameQueue) = {memory[f] : f \in Entries(fifo)}
  BY <1>1, <1>2 DEF Entries
<1> QED
  BY <1>1, <1>3, <1>4 DEF FIFOsAgree, FIFOInv, FIFOBooks

-----------------------------------------------------------------------------
(* PageReplacement, VirtualMemory, TLBs: LRU in three forms.               *)

\* When each page was referenced last: what the proofs are about is how a
\* list or the frames are ordered by such a function, and how it changes.
Referenced == Pages \union DOMAIN pageTable
Uses == [p \in Referenced |-> LastUse(p)]

\* The list has the n pages of S that u makes the latest, the latest first.
Keeps(list, S, n, u) ==
  /\ list \in Seq(S) /\ Len(list) <= n
  /\ \A i \in 1..Len(list) : u[list[i]] > 0
  /\ \A i, j \in 1..Len(list) : i < j => u[list[i]] > u[list[j]]
  /\ \A p \in S : \/ u[p] = 0
                  \/ \E i \in 1..Len(list) : list[i] = p
                  \/ Len(list) = n /\ \A i \in 1..Len(list) : u[list[i]] > u[p]

\* Each frame is stamped with the last use of its page, no two have the same
\* page, and a page that was used and has no frame is older than all stamps.
FramesKeep(f, u) ==
  /\ f \in [Indices -> [pageNumber : Pages \union {NoPage}, lastAccess : Nat]]
  /\ \A i \in Indices :
       \/ f[i].pageNumber = NoPage /\ f[i].lastAccess = 0
       \/ f[i].pageNumber # NoPage /\ f[i].lastAccess = u[f[i].pageNumber]
            /\ f[i].lastAccess > 0
  /\ \A i, j \in Indices :
       f[i].pageNumber = f[j].pageNumber /\ f[i].pageNumber # NoPage => i = j
  /\ \A p \in Pages : \/ u[p] = 0
                      \/ \E i \in Indices : f[i].pageNumber = p
                      \/ \A i \in Indices : f[i].lastAccess > u[p]

\* t is list with its element i moved to the front.
Moved(t, list, i, S) ==
  /\ t \in Seq(S) /\ Len(t) = Len(list)
  /\ \A j \in 1..Len(list) :
       t[j] = IF j = 1 THEN list[i] ELSE IF j <= i THEN list[j - 1] ELSE list[j]

\* t is a new element and the first m - 1 of list.
Pushed(t, list, page, m, S) ==
  /\ t \in Seq(S) /\ Len(t) = m
  /\ \A j \in 1..m : t[j] = IF j = 1 THEN page ELSE list[j - 1]

\* No element of the list comes twice.
Once(list) == \A i, j \in 1..Len(list) : list[i] = list[j] => i = j

LEMMA MovedToFront ==
  ASSUME NEW S, NEW list \in Seq(S), NEW i \in 1..Len(list)
  PROVE  Moved(<<list[i]>> \o RemoveAt(list, i), list, i, S)
<1> DEFINE before == SubSeq(list, 1, i - 1)
           after == SubSeq(list, i + 1, Len(list))
           rest == before \o after
<1>1. PICK n \in Nat : n = Len(list)
  OBVIOUS
<1>2. i \in 1..n /\ list[i] \in S
  BY <1>1
<1>3. /\ before \in Seq(S) /\ Len(before) = i - 1
      /\ \A j \in 1..i - 1 : before[j] = list[j]
  BY <1>1, <1>2
<1>4. /\ after \in Seq(S) /\ Len(after) = n - i
      /\ \A j \in 1..n - i : after[j] = list[i + j]
  BY <1>1, <1>2
<1> HIDE DEF before, after
<1>5. /\ rest \in Seq(S) /\ Len(rest) = n - 1
      /\ \A j \in 1..i - 1 : rest[j] = list[j]
      /\ \A j \in i..n - 1 : rest[j] = list[j + 1]
  <2>1. rest \in Seq(S) /\ Len(rest) = n - 1
    <3>1. rest \in Seq(S) /\ Len(rest) = Len(before) + Len(after)
      BY <1>3, <1>4, ConcatProperties
    <3> QED
      BY <1>2, <1>3, <1>4, <3>1
  <2>2. \A j \in 1..n - 1 : rest[j] = IF j <= i - 1 THEN before[j] ELSE after[j - (i - 1)]
    <3>1. \A j \in 1..Len(before) + Len(after) :
            rest[j] = IF j <= Len(before) THEN before[j] ELSE after[j - Len(before)]
      BY <1>3, <1>4, ConcatProperties
    <3>2. Len(before) = i - 1 /\ Len(before) + Len(after) = n - 1
      BY <1>2, <1>3, <1>4
    <3> QED
      BY <3>1, <3>2
  <2>3. ASSUME NEW j \in i..n - 1 PROVE rest[j] = list[j + 1]
    <3>1. j - (i - 1) \in 1..n - i /\ i + (j - (i - 1)) = j + 1 /\ j \in 1..n - 1 /\ ~(j <= i - 1)
      BY <1>2
    <3>2. rest[j] = after[j - (i - 1)]
      BY <2>2, <3>1
    <3> QED
      BY <1>4, <3>1, <3>2
  <2> QED
    BY <1>2, <1>3, <2>1, <2>2, <2>3
<1>6. RemoveAt(list, i) = rest
  BY DEF RemoveAt, before, after
<1> HIDE DEF rest
<1> DEFINE t == <<list[i]>> \o rest
<1>7. /\ t \in Seq(S) /\ Len(t) = n /\ t[1] = list[i]
      /\ \A j \in 2..n : t[j] = rest[j - 1]
  BY <1>2, <1>5
<1> HIDE DEF t
<1>8. ASSUME NEW j \in 1..n
      PROVE  t[j] = IF j = 1 THEN list[i] ELSE IF j <= i THEN list[j - 1] ELSE list[j]
  <2>1. CASE j = 1
    BY <1>7, <2>1
  <2>2. CASE j # 1 /\ j <= i
    <3>1. j \in 2..n /\ j - 1 \in 1..i - 1
      BY <1>2, <2>2
    <3> QED
      BY <1>5, <1>7, <2>2, <3>1
  <2>3. CASE j # 1 /\ ~(j <= i)
    <3>1. j \in 2..n /\ j - 1 \in i..n - 1 /\ (j - 1) + 1 = j
      BY <1>2, <2>3
    <3>2. t[j] = list[(j - 1) + 1]
      BY <1>5, <1>7, <3>1
    <3> QED
      BY <2>3, <3>1, <3>2
  <2> QED
    BY <2>1, <2>2, <2>3
<1> QED
  BY <1>1, <1>6, <1>7, <1>8 DEF Moved, t

LEMMA PushedInFront ==
  ASSUME NEW S, NEW list \in Seq(S), NEW page \in S
  PROVE  /\ Pushed(<<page>> \o list, list, page, Len(list) + 1, S)
         /\ list # <<>> => Pushed(<<page>> \o Front(list), list, page, Len(list), S)
<1>1. Pushed(<<page>> \o list, list, page, Len(list) + 1, S)
  BY DEF Pushed
<1>2. ASSUME list # <<>> PROVE Pushed(<<page>> \o Front(list), list, page, Len(list), S)
  <2>1. PICK n \in Nat : n = Len(list) /\ n > 0
    BY <1>2
  <2>2. /\ Front(list) \in Seq(S) /\ Len(Front(list)) = n - 1
        /\ \A j \in 1..n - 1 : Front(list)[j] = list[j]
    <3>1. Front(list) = SubSeq(list, 1, n - 1)
      BY <2>1 DEF Front
    <3> QED
      BY <2>1, <3>1
  <2> DEFINE front == Front(list)
             t == <<page>> \o front
  <2>3. t \in Seq(S) /\ Len(t) = Len(list)
    BY <2>1, <2>2
  <2>4. \A j \in 1..Len(list) : t[j] = IF j = 1 THEN page ELSE front[j - 1]
    BY <2>1, <2>2
  <2>5. \A j \in 1..Len(list) : j # 1 => j - 1 \in 1..Len(list) - 1
    BY <2>1
  <2> HIDE DEF t
  <2> QED
    BY <2>2, <2>3, <2>4, <2>5 DEF Pushed, t
<1> QED
  BY <1>1, <1>2

\* What lists so changed hold.
LEMMA MovedSame ==
  ASSUME NEW S, NEW list \in Seq(S), NEW i \in 1..Len(list), NEW t, Moved(t, list, i, S)
  PROVE  ToSet(t) = ToSet(list)
<1>1. PICK n \in Nat : n = Len(list) /\ DOMAIN list = 1..n /\ DOMAIN t = 1..n
  BY DEF Moved
<1>2. \A j \in 1..n : t[j] = IF j = 1 THEN list[i] ELSE IF j <= i THEN list[j - 1] ELSE list[j]
  BY <1>1 DEF Moved
<1>3. \A j \in 1..n : \E k \in 1..n : t[j] = list[k]
  BY <1>1, <1>2
<1>4. ASSUME NEW k \in 1..n PROVE \E j \in 1..n : t[j] = list[k]
  <2>1. CASE k < i
    <3>1. k + 1 \in 1..n /\ k + 1 # 1 /\ k + 1 <= i /\ (k + 1) - 1 = k
      BY <1>1, <2>1
    <3> QED
      BY <1>2, <3>1
  <2>2. CASE k = i
    BY <1>1, <1>2, <2>2
  <2>3. CASE k > i
    BY <1>1, <1>2, <2>3
  <2> QED
    BY <1>1, <2>1, <2>2, <2>3
<1>5. ToSet(t) = {t[j] : j \in 1..n} /\ ToSet(list) = {list[j] : j \in 1..n}
  BY <1>1 DEF ToSet
<1> QED
  BY <1>3, <1>4, <1>5

LEMMA PushedHolds ==
  ASSUME NEW S, NEW list \in Seq(S), NEW page \in S, NEW m \in Nat \ {0},
         NEW t, Pushed(t, list, page, m, S)
  PROVE  ToSet(t) = {list[i] : i \in 1..m - 1} \union {page}
<1>1. DOMAIN t = 1..m /\ \A j \in 1..m : t[j] = IF j = 1 THEN page ELSE list[j - 1]
  BY DEF Pushed
<1>2. \A j \in 1..m : t[j] \in {list[i] : i \in 1..m - 1} \union {page}
  <2> TAKE j \in 1..m
  <2>1. CASE j = 1
    BY <1>1, <2>1
  <2>2. CASE j # 1
    BY <1>1, <2>2
  <2> QED
    BY <2>1, <2>2
<1>3. \A i \in 1..m - 1 : \E j \in 1..m : t[j] = list[i]
  <2> TAKE i \in 1..m - 1
  <2>1. i + 1 \in 1..m /\ i + 1 # 1 /\ (i + 1) - 1 = i
    OBVIOUS
  <2> QED
    BY <1>1, <2>1
<1>4. \E j \in 1..m : t[j] = page
  <2>1. 1 \in 1..m
    OBVIOUS
  <2> QED
    BY <1>1, <2>1
<1>5. ToSet(t) = {t[j] : j \in 1..m}
  BY <1>1 DEF ToSet
<1> QED
  BY <1>2, <1>3, <1>4, <1>5

LEMMA PushedIn ==
  ASSUME NEW S, NEW list \in Seq(S), NEW page \in S,
         NEW t, Pushed(t, list, page, Len(list) + 1, S)
  PROVE  ToSet(t) = ToSet(list) \union {page}
<1>1. PICK n \in Nat : n = Len(list) /\ DOMAIN list = 1..n
  OBVIOUS
<1>2. ToSet(t) = {list[i] : i \in 1..(n + 1) - 1} \union {page}
  BY <1>1, PushedHolds
<1>3. (n + 1) - 1 = n
  OBVIOUS
<1> QED
  BY <1>1, <1>2, <1>3 DEF ToSet

LEMMA PushedOut ==
  ASSUME NEW S, NEW list \in Seq(S), list # <<>>, Once(list), NEW page \in S,
         NEW t, Pushed(t, list, page, Len(list), S)
  PROVE  ToSet(t) = (ToSet(list) \ {Last(list)}) \union {page}
<1>1. PICK n \in Nat : n = Len(list) /\ DOMAIN list = 1..n /\ n # 0
  OBVIOUS
<1>2. ToSet(t) = {list[i] : i \in 1..n - 1} \union {page}
  BY <1>1, PushedHolds
<1>3. {list[i] : i \in 1..n - 1} = {list[i] : i \in 1..n} \ {list[n]}
  <2>1. \A i \in 1..n - 1 : i \in 1..n /\ i # n
    BY <1>1
  <2>2. \A i \in 1..n : i # n => i \in 1..n - 1
    OBVIOUS
  <2>3. n \in 1..n
    BY <1>1
  <2> QED
    BY <1>1, <2>1, <2>2, <2>3 DEF Once
<1> QED
  BY <1>1, <1>2, <1>3 DEF ToSet, Last

\* A list that is kept in order has no page twice.
LEMMA KeptOnce ==
  ASSUME NEW D, NEW S \in SUBSET D, NEW n \in Nat, NEW u \in [D -> Nat],
         NEW list, Keeps(list, S, n, u)
  PROVE  Once(list)
<1>1. PICK m \in Nat : m = Len(list) /\ list \in Seq(S)
  BY DEF Keeps
<1>2. ASSUME NEW j \in 1..m, NEW k \in 1..m, j < k PROVE list[j] # list[k]
  <2>1. u[list[j]] > u[list[k]] /\ u[list[j]] \in Nat
    BY <1>1, <1>2 DEF Keeps
  <2> QED
    BY <2>1
<1> QED
  BY <1>1, <1>2 DEF Once

LEMMA KeepsMoved ==
  ASSUME NEW D, NEW S \in SUBSET D, NEW n \in Nat, NEW u \in [D -> Nat],
         NEW now \in Nat, \A p \in D : u[p] < now,
         NEW list, Keeps(list, S, n, u), NEW i \in 1..Len(list),
         NEW t, Moved(t, list, i, S)
  PROVE  Keeps(t, S, n, [u EXCEPT ![list[i]] = now])
<1> DEFINE page == list[i]
           v == [u EXCEPT ![page] = now]
<1>1. PICK m \in Nat : m = Len(list) /\ m <= n
  BY DEF Keeps
<1>2. i \in 1..m /\ list \in Seq(S) /\ page \in S /\ now > 0
  BY <1>1 DEF Keeps
<1>3. v[page] = now /\ (\A p \in D : p # page => v[p] = u[p]) /\ v \in [D -> Nat]
  BY <1>2
<1>4. \A j, k \in 1..m : list[j] = list[k] => j = k
  <2> SUFFICES ASSUME NEW j \in 1..m, NEW k \in 1..m, j < k PROVE list[j] # list[k]
    OBVIOUS
  <2>1. u[list[j]] > u[list[k]] /\ u[list[j]] \in Nat
    BY <1>1, <1>2 DEF Keeps
  <2> QED
    BY <2>1
<1> HIDE DEF v, page
<1>5. /\ t \in Seq(S) /\ Len(t) = m
      /\ \A j \in 1..m : t[j] = IF j = 1 THEN page ELSE IF j <= i THEN list[j - 1] ELSE list[j]
  BY <1>1, <1>2 DEF Moved, page
<1>6. \A j \in 1..m : j # 1 => LET k == IF j <= i THEN j - 1 ELSE j
                               IN k \in 1..m /\ t[j] = list[k] /\ k # i
  BY <1>2, <1>5
<1>7. \A j \in 1..m : j # 1 => t[j] \in S /\ t[j] # page /\ v[t[j]] = u[t[j]]
                               /\ u[t[j]] > 0 /\ u[t[j]] < now /\ u[t[j]] \in Nat
  <2> SUFFICES ASSUME NEW j \in 1..m, j # 1
               PROVE  t[j] \in S /\ t[j] # page /\ v[t[j]] = u[t[j]]
                      /\ u[t[j]] > 0 /\ u[t[j]] < now /\ u[t[j]] \in Nat
    OBVIOUS
  <2>1. PICK k \in 1..m : t[j] = list[k] /\ k # i
    BY <1>6
  <2>2. list[k] # list[i] /\ u[list[k]] > 0
    BY <1>1, <1>2, <1>4, <2>1 DEF Keeps
  <2>3. t[j] \in S /\ t[j] \in D /\ t[j] # page
    BY <1>1, <1>2, <2>1, <2>2 DEF page
  <2> QED
    BY <1>3, <2>1, <2>2, <2>3
<1>8. \A j \in 1..m : v[t[j]] > 0
  BY <1>2, <1>3, <1>5, <1>7
<1>9. ASSUME NEW j \in 1..m, NEW k \in 1..m, j < k PROVE v[t[j]] > v[t[k]]
  <2>1. CASE j = 1
    BY <1>3, <1>5, <1>7, <1>9, <2>1
  <2>2. CASE j # 1
    <3> DEFINE a == IF j <= i THEN j - 1 ELSE j
               b == IF k <= i THEN k - 1 ELSE k
    <3>1. a \in 1..m /\ t[j] = list[a]
      BY <1>6, <2>2
    <3>2. b \in 1..m /\ t[k] = list[b] /\ k # 1
      BY <1>6, <1>9, <2>2
    <3>3. a < b
      BY <1>2, <1>9, <2>2, <3>2
    <3> HIDE DEF a, b
    <3>4. u[list[a]] > u[list[b]]
      BY <1>1, <3>1, <3>2, <3>3 DEF Keeps
    <3>5. v[t[j]] = u[t[j]] /\ v[t[k]] = u[t[k]]
      BY <1>7, <2>2, <3>2
    <3> QED
      BY <3>1, <3>2, <3>4, <3>5
  <2> QED
    BY <2>1, <2>2
<1>10. \A k \in 1..m : \E j \in 1..m : t[j] = list[k]
  <2> TAKE k \in 1..m
  <2>1. CASE k < i
    <3>1. k + 1 \in 1..m /\ k + 1 # 1 /\ k + 1 <= i /\ (k + 1) - 1 = k
      BY <1>2, <2>1
    <3> QED
      BY <1>5, <3>1
  <2>2. CASE k = i
    <3>1. 1 \in 1..m /\ t[1] = page
      BY <1>2, <1>5
    <3> QED
      BY <2>2, <3>1 DEF page
  <2>3. CASE k > i
    BY <1>2, <1>5, <2>3
  <2> QED
    BY <2>1, <2>2, <2>3
<1>11. ASSUME NEW p \in S
       PROVE  \/ v[p] = 0
              \/ \E j \in 1..m : t[j] = p
              \/ m = n /\ \A j \in 1..m : v[t[j]] > v[p]
  <2>1. CASE \E k \in 1..m : list[k] = p
    BY <1>10, <2>1
  <2>2. CASE ~ \E k \in 1..m : list[k] = p
    <3>1. p # page /\ v[p] = u[p] /\ u[p] < now /\ u[p] \in Nat
      BY <1>2, <1>3, <2>2 DEF page
    <3>2. u[p] = 0 \/ (m = n /\ \A k \in 1..m : u[list[k]] > u[p])
      BY <1>1, <2>2 DEF Keeps
    <3>3. ASSUME \A k \in 1..m : u[list[k]] > u[p], NEW j \in 1..m PROVE v[t[j]] > v[p]
      <4>1. CASE j = 1
        BY <1>3, <1>5, <3>1, <4>1
      <4>2. CASE j # 1
        <5>1. PICK k \in 1..m : t[j] = list[k]
          BY <1>6, <4>2
        <5> QED
          BY <1>7, <3>1, <3>3, <4>2, <5>1
      <4> QED
        BY <4>1, <4>2
    <3> QED
      BY <3>1, <3>2, <3>3
  <2> QED
    BY <2>1, <2>2
<1>12. Keeps(t, S, n, v)
  BY <1>1, <1>5, <1>8, <1>9, <1>11 DEF Keeps
<1> QED
  BY <1>12 DEF v, page

LEMMA KeepsPushed ==
  ASSUME NEW D, NEW S \in SUBSET D, NEW n \in Nat, NEW u \in [D -> Nat],
         NEW now \in Nat, \A p \in D : u[p] < now,
         NEW list, Keeps(list, S, n, u),
         NEW page \in S, \A i \in 1..Len(list) : list[i] # page,
         NEW m \in 1..n, m = Len(list) + 1 \/ (m = n /\ Len(list) = n),
         NEW t, Pushed(t, list, page, m, S)
  PROVE  Keeps(t, S, n, [u EXCEPT ![page] = now])
<1> DEFINE v == [u EXCEPT ![page] = now]
<1>1. PICK l \in Nat : l = Len(list) /\ l <= n
  BY DEF Keeps
<1>2. (m = l + 1 \/ (m = n /\ l = n)) /\ m - 1 <= l /\ now > 0 /\ list \in Seq(S)
  BY <1>1 DEF Keeps
<1>3. v[page] = now /\ (\A p \in D : p # page => v[p] = u[p]) /\ v \in [D -> Nat]
  OBVIOUS
<1> HIDE DEF v
<1>4. /\ t \in Seq(S) /\ Len(t) = m /\ t[1] = page
      /\ \A j \in 1..m : j # 1 => t[j] = list[j - 1] /\ j - 1 \in 1..l
  BY <1>2 DEF Pushed
<1>5. \A k \in 1..l : list[k] \in S /\ list[k] # page /\ v[list[k]] = u[list[k]]
                        /\ u[list[k]] > 0 /\ u[list[k]] < now /\ u[list[k]] \in Nat
  BY <1>1, <1>2, <1>3 DEF Keeps
<1>6. \A j \in 1..m : v[t[j]] > 0 /\ v[t[j]] \in Nat /\ (j # 1 => v[t[j]] < now)
  <2> TAKE j \in 1..m
  <2>1. CASE j = 1
    BY <1>2, <1>3, <1>4, <2>1
  <2>2. CASE j # 1
    <3>1. t[j] = list[j - 1] /\ j - 1 \in 1..l
      BY <1>4, <2>2
    <3> QED
      BY <1>5, <3>1
  <2> QED
    BY <2>1, <2>2
<1>7. ASSUME NEW j \in 1..m, NEW k \in 1..m, j < k PROVE v[t[j]] > v[t[k]]
  <2>1. CASE j = 1
    <3>1. k # 1 /\ v[t[j]] = now
      BY <1>3, <1>4, <1>7, <2>1
    <3> QED
      BY <1>6, <3>1
  <2>2. CASE j # 1
    <3>1. k # 1 /\ j - 1 < k - 1
      BY <1>7, <2>2
    <3>2. j - 1 \in 1..l /\ k - 1 \in 1..l /\ t[j] = list[j - 1] /\ t[k] = list[k - 1]
      BY <1>4, <2>2, <3>1
    <3>3. u[list[j - 1]] > u[list[k - 1]]
      BY <1>1, <3>1, <3>2 DEF Keeps
    <3> QED
      BY <1>5, <3>2, <3>3
  <2> QED
    BY <2>1, <2>2
<1>8. ASSUME NEW p \in S
      PROVE  \/ v[p] = 0
             \/ \E j \in 1..m : t[j] = p
             \/ m = n /\ \A j \in 1..m : v[t[j]] > v[p]
  <2>1. CASE p = page
    BY <1>4, <2>1
  <2>2. CASE p # page /\ \E k \in 1..l : list[k] = p
    <3>1. PICK k \in 1..l : list[k] = p
      BY <2>2
    <3>2. CASE k + 1 <= m
      <4>1. k + 1 \in 1..m /\ k + 1 # 1 /\ (k + 1) - 1 = k
        BY <3>2
      <4> QED
        BY <1>4, <3>1, <4>1
    <3>3. CASE k + 1 > m
      <4>1. m = n /\ k = n /\ l = n
        BY <1>2, <3>3
      <4>2. ASSUME NEW j \in 1..m PROVE v[t[j]] > v[p]
        <5>1. CASE j = 1
          BY <1>3, <1>4, <1>5, <3>1, <5>1
        <5>2. CASE j # 1
          <6>1. t[j] = list[j - 1] /\ j - 1 \in 1..l /\ j - 1 < k
            BY <1>4, <4>1, <5>2
          <6>2. u[list[j - 1]] > u[list[k]]
            BY <1>1, <6>1 DEF Keeps
          <6> QED
            BY <1>5, <3>1, <6>1, <6>2
        <5> QED
          BY <5>1, <5>2
      <4> QED
        BY <4>1, <4>2
    <3> QED
      BY <3>2, <3>3
  <2>3. CASE p # page /\ ~ \E k \in 1..l : list[k] = p
    <3>1. v[p] = u[p] /\ u[p] < now /\ u[p] \in Nat
      BY <1>3, <2>3
    <3>2. u[p] = 0 \/ (l = n /\ \A k \in 1..l : u[list[k]] > u[p])
      BY <1>1, <2>3 DEF Keeps
    <3>3. ASSUME l = n, \A k \in 1..l : u[list[k]] > u[p], NEW j \in 1..m PROVE m = n /\ v[t[j]] > v[p]
      <4>1. m = n
        BY <1>2, <3>3
      <4>2. CASE j = 1
        BY <1>3, <1>4, <3>1, <4>1, <4>2
      <4>3. CASE j # 1
        <5>1. t[j] = list[j - 1] /\ j - 1 \in 1..l
          BY <1>4, <4>3
        <5> QED
          BY <1>5, <3>3, <3>1, <4>1, <5>1
      <4> QED
        BY <4>2, <4>3
    <3> QED
      BY <3>1, <3>2, <3>3
  <2> QED
    BY <2>1, <2>2, <2>3
<1>9. Keeps(t, S, n, v)
  BY <1>4, <1>6, <1>7, <1>8 DEF Keeps
<1> QED
  BY <1>9 DEF v

\* A reference to a page that the list is not about changes nothing.
LEMMA KeepsUnlisted ==
  ASSUME NEW D, NEW S \in SUBSET D, NEW n \in Nat, NEW u \in [D -> Nat],
         NEW now \in Nat, NEW list, Keeps(list, S, n, u), NEW page \in D \ S
  PROVE  Keeps(list, S, n, [u EXCEPT ![page] = now])
<1>1. \A p \in S : [u EXCEPT ![page] = now][p] = u[p]
  OBVIOUS
<1>2. \A i \in 1..Len(list) : list[i] \in S
  BY DEF Keeps
<1> QED
  BY <1>1, <1>2 DEF Keeps

\* A hit stamps the frame of the page, a fault the frame stamped first, which
\* gets the page.
LEMMA FramesHit ==
  ASSUME NEW u \in [Referenced -> Nat], NEW now \in Nat, \A p \in Referenced : u[p] < now,
         NEW f, FramesKeep(f, u), NEW i \in Indices, f[i].pageNumber \in Pages
  PROVE  FramesKeep([f EXCEPT ![i].lastAccess = now], [u EXCEPT ![f[i].pageNumber] = now])
<1> DEFINE page == f[i].pageNumber
           v == [u EXCEPT ![page] = now]
           g == [f EXCEPT ![i].lastAccess = now]
<1>1. page \in Pages /\ page \in Referenced /\ page # NoPage /\ now > 0
  <2>1. page \in Referenced /\ page \in Nat
    BY PagesAssumption DEF Referenced
  <2>2. u[page] \in Nat /\ u[page] < now
    BY <2>1
  <2> QED
    BY <2>1, <2>2 DEF NoPage
<1>2. v[page] = now /\ \A p \in Pages : p # page => v[p] = u[p] /\ u[p] \in Nat /\ u[p] < now
  BY <1>1 DEF Referenced
<1>3. f \in [Indices -> [pageNumber : Pages \union {NoPage}, lastAccess : Nat]]
  BY DEF FramesKeep
<1>4. /\ g \in [Indices -> [pageNumber : Pages \union {NoPage}, lastAccess : Nat]]
      /\ \A j \in Indices : g[j].pageNumber = f[j].pageNumber
      /\ \A j \in Indices : g[j].lastAccess = IF j = i THEN now ELSE f[j].lastAccess
  BY <1>3
<1>5. \A j \in Indices : j # i /\ f[j].pageNumber # NoPage => f[j].pageNumber # page
  BY <1>1 DEF FramesKeep
<1>6. \A j \in Indices : f[j].pageNumber # NoPage => f[j].pageNumber \in Pages
  BY <1>3
<1>7. f[i].pageNumber = page
  OBVIOUS
<1> HIDE DEF v, g, page
<1>8. ASSUME NEW j \in Indices
      PROVE  \/ g[j].pageNumber = NoPage /\ g[j].lastAccess = 0
             \/ g[j].pageNumber # NoPage /\ g[j].lastAccess = v[g[j].pageNumber]
                  /\ g[j].lastAccess > 0
  <2>1. CASE j = i
    BY <1>1, <1>2, <1>4, <1>7, <2>1
  <2>2. CASE j # i
    BY <1>2, <1>4, <1>5, <1>6, <2>2 DEF FramesKeep
  <2> QED
    BY <2>1, <2>2
<1>9. ASSUME NEW p \in Pages
      PROVE  \/ v[p] = 0
             \/ \E j \in Indices : g[j].pageNumber = p
             \/ \A j \in Indices : g[j].lastAccess > v[p]
  <2>1. CASE \E j \in Indices : f[j].pageNumber = p
    BY <1>4, <2>1
  <2>2. CASE ~ \E j \in Indices : f[j].pageNumber = p
    <3>1. p # page /\ v[p] = u[p] /\ u[p] < now
      BY <1>2, <1>7, <2>2
    <3>2. u[p] = 0 \/ \A j \in Indices : f[j].lastAccess > u[p]
      BY <2>2 DEF FramesKeep
    <3> QED
      BY <1>4, <3>1, <3>2
  <2> QED
    BY <2>1, <2>2
<1>10. FramesKeep(g, v)
  BY <1>4, <1>8, <1>9 DEF FramesKeep
<1> QED
  BY <1>10 DEF v, g, page

LEMMA FramesFault ==
  ASSUME NEW u \in [Referenced -> Nat], NEW now \in Nat, \A p \in Referenced : u[p] < now,
         \A p, q \in Pages : u[p] = u[q] /\ u[p] > 0 => p = q,
         NEW f, FramesKeep(f, u), NEW page \in Pages,
         \A j \in Indices : f[j].pageNumber # page,
         NEW i \in Indices, \A j \in Indices : f[i].lastAccess <= f[j].lastAccess
  PROVE  FramesKeep([f EXCEPT ![i] = [pageNumber |-> page, lastAccess |-> now]],
                    [u EXCEPT ![page] = now])
<1> DEFINE v == [u EXCEPT ![page] = now]
           g == [f EXCEPT ![i] = [pageNumber |-> page, lastAccess |-> now]]
<1>1. page \in Referenced /\ page # NoPage /\ now > 0
  BY PagesAssumption DEF NoPage, Referenced
<1>2. v[page] = now /\ \A p \in Pages : u[p] \in Nat /\ u[p] < now /\ (p # page => v[p] = u[p])
  BY <1>1 DEF Referenced
<1>3. f \in [Indices -> [pageNumber : Pages \union {NoPage}, lastAccess : Nat]]
  BY DEF FramesKeep
<1>4. /\ g \in [Indices -> [pageNumber : Pages \union {NoPage}, lastAccess : Nat]]
      /\ g[i].pageNumber = page /\ g[i].lastAccess = now
      /\ \A j \in Indices : j # i => g[j] = f[j]
  BY <1>3
<1>5. \A j \in Indices : /\ f[j].pageNumber # NoPage => f[j].pageNumber \in Pages
                         /\ f[j].lastAccess \in Nat
  BY <1>3
<1> HIDE DEF v, g
<1>6. ASSUME NEW j \in Indices
      PROVE  \/ g[j].pageNumber = NoPage /\ g[j].lastAccess = 0
             \/ g[j].pageNumber # NoPage /\ g[j].lastAccess = v[g[j].pageNumber]
                  /\ g[j].lastAccess > 0
  <2>1. CASE j = i
    BY <1>1, <1>2, <1>4, <2>1
  <2>2. CASE j # i
    BY <1>2, <1>4, <1>5, <2>2 DEF FramesKeep
  <2> QED
    BY <2>1, <2>2
<1>7. \A j, k \in Indices :
        g[j].pageNumber = g[k].pageNumber /\ g[j].pageNumber # NoPage => j = k
  BY <1>4 DEF FramesKeep
<1>8. ASSUME NEW p \in Pages, NEW j \in Indices, u[p] # 0, p # page,
             \A k \in Indices : f[k].lastAccess > u[p]
      PROVE  g[j].lastAccess > v[p]
  BY <1>2, <1>4, <1>8
<1>9. ASSUME NEW p \in Pages
      PROVE  \/ v[p] = 0
             \/ \E j \in Indices : g[j].pageNumber = p
             \/ \A j \in Indices : g[j].lastAccess > v[p]
  <2>1. CASE p = page
    BY <1>4, <2>1
  <2>2. CASE p # page /\ f[i].pageNumber = p
    <3>1. /\ v[p] = u[p] /\ u[p] \in Nat /\ u[p] < now /\ u[p] > 0 /\ p # NoPage
          /\ f[i].lastAccess = u[p]
      BY <1>2, <2>2, PagesAssumption DEF FramesKeep, NoPage
    <3>2. ASSUME NEW j \in Indices PROVE g[j].lastAccess > v[p]
      <4>1. CASE j = i
        BY <1>4, <3>1, <4>1
      <4>2. CASE j # i
        <5>1. f[j].lastAccess >= u[p] /\ f[j].lastAccess > 0 /\ f[j].lastAccess \in Nat
          BY <1>5, <3>1
        <5>2. f[j].pageNumber \in Pages /\ f[j].lastAccess = u[f[j].pageNumber]
          BY <1>5, <5>1 DEF FramesKeep
        <5>3. f[j].pageNumber # p
          BY <2>2, <3>1, <4>2 DEF FramesKeep
        <5>4. f[j].lastAccess # u[p]
          BY <3>1, <5>2, <5>3
        <5> QED
          BY <1>4, <3>1, <4>2, <5>1, <5>4
      <4> QED
        BY <4>1, <4>2
    <3> QED
      BY <3>2
  <2>3. CASE p # page /\ f[i].pageNumber # p
    <3>1. CASE \E j \in Indices : f[j].pageNumber = p
      BY <1>4, <2>3, <3>1
    <3>2. CASE ~ \E j \in Indices : f[j].pageNumber = p
      BY <1>2, <1>8, <2>3, <3>2 DEF FramesKeep
    <3> QED
      BY <3>1, <3>2
  <2> QED
    BY <2>1, <2>2, <2>3
<1>10. FramesKeep(g, v)
  BY <1>4, <1>6, <1>7, <1>9 DEF FramesKeep
<1> QED
  BY <1>10 DEF v, g

-----------------------------------------------------------------------------
(* The LRUs: the last use of each page.                                    *)

LEMMA MaxOfInterval ==
  ASSUME NEW n \in Nat, NEW T \in SUBSET (0..n), T # {}
  PROVE  Max(T) \in T /\ \A x \in T : x <= Max(T)
<1> DEFINE R == {n - x : x \in T}
<1>1. R \in SUBSET Nat /\ R # {}
  <2>1. \A x \in T : x \in 0..n /\ n - x \in Nat
    OBVIOUS
  <2>2. R \subseteq Nat
    BY <2>1
  <2> QED
    BY <2>2
<1>2. PICK m \in R : \A k \in R : m <= k
  BY <1>1, LeastExists
<1>3. PICK x \in T : m = n - x
  BY <1>2
<1>4. \A y \in T : y \in 0..n /\ m <= n - y
  BY <1>2
<1>5. \A y \in T : x >= y
  BY <1>3, <1>4
<1>6. /\ Max(T) \in T /\ \A y \in T : Max(T) >= y
  BY <1>5 DEF Max
<1> QED
  BY <1>6

\* LastUse, as a function of the string and the time.
LastOf(s, now, p) == Max({0} \union {i \in 1..now : s[i] = p})

LEMMA LastOfIs ==
  ASSUME NEW s, NEW now \in Nat, NEW p
  PROVE  /\ LastOf(s, now, p) \in 0..now
         /\ LastOf(s, now, p) > 0 => s[LastOf(s, now, p)] = p
         /\ \A i \in 1..now : s[i] = p => i <= LastOf(s, now, p)
<1> DEFINE T == {0} \union {i \in 1..now : s[i] = p}
<1>1. T \in SUBSET (0..now) /\ T # {}
  OBVIOUS
<1>2. Max(T) \in T /\ \A x \in T : x <= Max(T)
  BY <1>1, MaxOfInterval
<1>3. LastOf(s, now, p) = Max(T)
  BY DEF LastOf
<1> QED
  BY <1>2, <1>3

LEMMA LastOfNext ==
  ASSUME NEW s, NEW now \in Nat, NEW p
  PROVE  LastOf(s, now + 1, p) = IF p = s[now + 1] THEN now + 1 ELSE LastOf(s, now, p)
<1>1. /\ LastOf(s, now, p) \in 0..now
      /\ LastOf(s, now, p) > 0 => s[LastOf(s, now, p)] = p
      /\ \A i \in 1..now : s[i] = p => i <= LastOf(s, now, p)
  BY LastOfIs
<1>2. /\ LastOf(s, now + 1, p) \in 0..now + 1
      /\ LastOf(s, now + 1, p) > 0 => s[LastOf(s, now + 1, p)] = p
      /\ \A i \in 1..now + 1 : s[i] = p => i <= LastOf(s, now + 1, p)
  BY LastOfIs
<1>3. CASE p = s[now + 1]
  BY <1>2, <1>3
<1>4. CASE p # s[now + 1]
  <2>1. LastOf(s, now + 1, p) # now + 1
    BY <1>2, <1>4
  <2>2. LastOf(s, now + 1, p) <= LastOf(s, now, p)
    BY <1>1, <1>2, <2>1
  <2>3. LastOf(s, now, p) <= LastOf(s, now + 1, p)
    BY <1>1, <1>2
  <2> QED
    BY <1>1, <1>2, <1>4, <2>2, <2>3
<1> QED
  BY <1>3, <1>4

LEMMA UsesFacts ==
  ASSUME time \in Nat
  PROVE  /\ Uses \in [Referenced -> Nat]
         /\ \A p \in Referenced : Uses[p] = LastUse(p) /\ Uses[p] < time + 1
         /\ \A p, q \in Referenced : Uses[p] = Uses[q] /\ Uses[p] > 0 => p = q
         /\ \A p \in Referenced : Uses[p] > 0 => Uses[p] \in 1..time /\ reference[Uses[p]] = p
         /\ \A i \in 1..time : reference[i] \in Referenced => i <= Uses[reference[i]]
<1>1. \A p : LastUse(p) = LastOf(reference, time, p)
  BY DEF LastUse, LastOf
<1>2. \A p : /\ LastUse(p) \in 0..time
             /\ LastUse(p) > 0 => reference[LastUse(p)] = p
             /\ \A i \in 1..time : reference[i] = p => i <= LastUse(p)
  BY <1>1, LastOfIs
<1> QED
  BY <1>2 DEF Uses

LEMMA UsesNext ==
  ASSUME time \in Nat, time' = time + 1, reference' = reference
  PROVE  Uses' = [Uses EXCEPT ![reference[time + 1]] = time + 1]
<1>1. \A p \in Referenced : LastUse(p) = LastOf(reference, time, p)
  BY DEF LastUse, LastOf
<1>2. \A p \in Referenced : LastUse(p)' = LastOf(reference, time + 1, p)
  BY DEF LastUse, LastOf
<1>3. \A p \in Referenced :
        LastUse(p)' = IF p = reference[time + 1] THEN time + 1 ELSE LastUse(p)
  BY <1>1, <1>2, LastOfNext
<1> QED
  BY <1>3 DEF Uses, Referenced

-----------------------------------------------------------------------------
(* The LRUs: what is kept is the latest.                                   *)

\* An image has at most as many elements, and as many under an injection.
LEMMA ImageSize ==
  ASSUME NEW S, IsFiniteSet(S), NEW f, DOMAIN f = S
  PROVE  LET T == {f[x] : x \in S}
         IN  /\ IsFiniteSet(T) /\ Cardinality(T) \in Nat
             /\ Cardinality(T) <= Cardinality(S)
             /\ (\A x, y \in S : f[x] = f[y] => x = y) => Cardinality(T) = Cardinality(S)
<1> DEFINE T == {f[x] : x \in S}
           g == [x \in S |-> f[x]]
<1>1. g \in Surjection(S, T)
  BY DEF Surjection
<1>2. (\A x, y \in S : f[x] = f[y] => x = y) => g \in Injection(S, T)
  BY DEF Injection, IsInjective
<1> HIDE DEF g, T
<1>3. /\ IsFiniteSet(T) /\ Cardinality(T) <= Cardinality(S)
      /\ Cardinality(T) = Cardinality(S) <=> g \in Injection(S, T)
  BY <1>1, FS_Surjection
<1>4. Cardinality(T) \in Nat
  BY <1>3, FS_CardinalityType
<1> QED
  BY <1>2, <1>3, <1>4 DEF T

\* The n pages of S that u makes the latest, if enough were used.
UsedBy(u, S) == {p \in S : u[p] > 0}
LatestBy(u, S, n) == {p \in S : u[p] > 0 /\ Cardinality({q \in S : u[q] > u[p]}) < n}

\* A set of at most n pages that were used, all of them, and n, later than any
\* page that was used and is not in the set, is the set of the n latest.
LEMMA TheLatest ==
  ASSUME NEW S, NEW n \in Nat, NEW u, \A p \in S : u[p] \in Nat,
         IsFiniteSet(UsedBy(u, S)),
         NEW T \in SUBSET S, IsFiniteSet(T), Cardinality(T) <= n,
         \A p \in T : u[p] > 0,
         \A p \in S \ T : u[p] = 0 \/ (Cardinality(T) = n /\ \A q \in T : u[q] > u[p])
  PROVE  T = LatestBy(u, S, n)
<1> DEFINE later(p) == {q \in S : u[q] > u[p]}
<1>1. Cardinality(T) \in Nat
  BY FS_CardinalityType
<1>2. ASSUME NEW p \in T PROVE Cardinality(later(p)) < n
  <2>1. later(p) \subseteq T \ {p}
    <3> SUFFICES ASSUME NEW q \in later(p) PROVE q \in T \ {p}
      OBVIOUS
    <3>1. q \in S /\ u[q] > u[p] /\ u[p] \in Nat /\ u[q] \in Nat
      OBVIOUS
    <3>2. CASE q \notin T
      <4>1. u[p] > u[q]
        BY <3>1, <3>2
      <4> QED
        BY <3>1, <4>1
    <3> QED
      BY <3>1, <3>2
  <2>2. IsFiniteSet(T \ {p}) /\ Cardinality(T \ {p}) = Cardinality(T) - 1
    BY FS_RemoveElement
  <2>3. Cardinality(later(p)) <= Cardinality(T \ {p}) /\ IsFiniteSet(later(p))
    BY <2>1, <2>2, FS_Subset
  <2>4. Cardinality(later(p)) \in Nat
    BY <2>3, FS_CardinalityType
  <2> QED
    BY <1>1, <2>2, <2>3, <2>4
<1>3. ASSUME NEW p \in S, u[p] > 0, Cardinality(later(p)) < n, p \notin T PROVE FALSE
  <2>1. Cardinality(T) = n /\ \A q \in T : u[q] > u[p]
    BY <1>3
  <2>2. T \subseteq later(p) /\ later(p) \subseteq UsedBy(u, S)
    BY <1>3, <2>1 DEF UsedBy
  <2>3. IsFiniteSet(later(p))
    BY <2>2, FS_Subset
  <2>4. Cardinality(T) <= Cardinality(later(p)) /\ Cardinality(later(p)) \in Nat
    BY <2>2, <2>3, FS_Subset, FS_CardinalityType
  <2> QED
    BY <1>3, <2>1, <2>4
<1> QED
  BY <1>2, <1>3 DEF LatestBy

LEMMA FewUsed ==
  ASSUME time \in Nat, NEW S \in SUBSET Referenced
  PROVE  IsFiniteSet(UsedBy(Uses, S))
<1> DEFINE r == [i \in 1..time |-> reference[i]]
           T == {r[i] : i \in 1..time}
<1>1. IsFiniteSet(1..time)
  BY FS_Interval
<1>2. IsFiniteSet(T)
  BY <1>1, ImageSize
<1>3. UsedBy(Uses, S) \subseteq T
  BY UsesFacts DEF UsedBy
<1> QED
  BY <1>2, <1>3, FS_Subset

LEMMA LatestIs ==
  ASSUME time \in Nat, NEW S \in SUBSET Referenced, NEW n \in Nat
  PROVE  Latest(S, n) = LatestBy(Uses, S, n)
<1>1. \A p \in S : LastUse(p) = Uses[p]
  BY UsesFacts
<1>2. \A p \in S : {q \in S : LastUse(q) > LastUse(p)} = {q \in S : Uses[q] > Uses[p]}
  BY <1>1
<1> QED
  BY <1>1, <1>2 DEF Latest, LatestBy

LEMMA ListIsLatest ==
  ASSUME time \in Nat, NEW S \in SUBSET Referenced, NEW n \in Nat,
         NEW list, Keeps(list, S, n, Uses)
  PROVE  ListsLatest(list, S, n)
<1> DEFINE T == {list[i] : i \in 1..Len(list)}
<1>1. PICK m \in Nat : m = Len(list) /\ m <= n
  BY DEF Keeps
<1>2. list \in Seq(S) /\ DOMAIN list = 1..m
  BY <1>1 DEF Keeps
<1>3. \A i \in 1..m : list[i] \in S /\ Uses[list[i]] \in Nat
  BY <1>1, <1>2, UsesFacts
<1>4. \A i, j \in 1..m : i < j => Uses[list[i]] > Uses[list[j]]
  BY <1>1 DEF Keeps
<1>5. \A i, j \in 1..m : list[i] = list[j] => i = j
  <2> SUFFICES ASSUME NEW i \in 1..m, NEW j \in 1..m, i < j PROVE list[i] # list[j]
    OBVIOUS
  <2> QED
    BY <1>3, <1>4
<1>6. IsFiniteSet(1..m) /\ Cardinality(1..m) = m
  BY FS_Interval
<1>7. IsFiniteSet(T) /\ Cardinality(T) = m
  BY <1>1, <1>2, <1>5, <1>6, ImageSize
<1>8. T \in SUBSET S /\ \A p \in T : Uses[p] > 0
  BY <1>1, <1>3 DEF Keeps
<1>9. \A p \in S \ T : Uses[p] = 0 \/ (m = n /\ \A q \in T : Uses[q] > Uses[p])
  BY <1>1 DEF Keeps
<1>10. \A p \in S : Uses[p] \in Nat
  BY UsesFacts
<1>11. IsFiniteSet(UsedBy(Uses, S))
  BY FewUsed
<1> HIDE DEF T
<1>12. T = LatestBy(Uses, S, n)
  <2>1. Cardinality(T) <= n
    BY <1>1, <1>7
  <2>2. \A p \in S \ T : Uses[p] = 0 \/ (Cardinality(T) = n /\ \A q \in T : Uses[q] > Uses[p])
    BY <1>7, <1>9
  <2> QED
    BY <1>7, <1>8, <1>10, <1>11, <2>1, <2>2, TheLatest
<1>13. ToSet(list) = Latest(S, n)
  BY <1>1, <1>2, <1>12, LatestIs DEF ToSet, T
<1>14. \A i \in 1..m : LastUse(list[i]) = Uses[list[i]]
  BY <1>3, UsesFacts
<1> QED
  BY <1>2, <1>4, <1>13, <1>14 DEF ListsLatest

HeldPages == {frames[i].pageNumber : i \in Indices} \ {NoPage}

LEMMA HeldIsLatest ==
  ASSUME time \in Nat, FramesKeep(frames, Uses)
  PROVE  HeldPages = Latest(Pages, NumFrames)
<1> DEFINE f == [i \in Indices |-> frames[i].pageNumber]
           T == {f[i] : i \in Indices}
<1>1. IsFiniteSet(Indices) /\ Cardinality(Indices) = NumFrames /\ NumFrames \in Nat
  BY FS_Interval, NumFramesAssumption DEF Indices
<1>2. \A i \in Indices : /\ f[i] = frames[i].pageNumber /\ f[i] \in Pages \union {NoPage}
                         /\ frames[i].lastAccess \in Nat
  BY DEF FramesKeep
<1>3. /\ IsFiniteSet(T) /\ Cardinality(T) \in Nat /\ Cardinality(T) <= NumFrames
      /\ (\A i, j \in Indices : f[i] = f[j] => i = j) => Cardinality(T) = NumFrames
  <2>1. DOMAIN f = Indices
    OBVIOUS
  <2> HIDE DEF f
  <2> QED
    BY <1>1, <2>1, ImageSize
<1>4. HeldPages = T \ {NoPage}
  BY <1>2 DEF HeldPages
<1>5. /\ IsFiniteSet(HeldPages) /\ Cardinality(HeldPages) \in Nat /\ Cardinality(HeldPages) <= NumFrames
  BY <1>1, <1>3, <1>4, FS_Subset, FS_CardinalityType
<1>6. HeldPages \in SUBSET Pages
  BY <1>2, <1>4
<1>7. \A p \in Pages : Uses[p] \in Nat
  BY UsesFacts DEF Referenced
<1>8. \A p \in HeldPages : Uses[p] > 0
  BY <1>2 DEF HeldPages, FramesKeep
<1>9. ASSUME NEW p \in Pages \ HeldPages, Uses[p] # 0
      PROVE  Cardinality(HeldPages) = NumFrames /\ \A q \in HeldPages : Uses[q] > Uses[p]
  <2>1. p # NoPage
    BY PagesAssumption DEF NoPage
  <2>2. \A i \in Indices : frames[i].pageNumber # p
    BY <2>1, <1>9 DEF HeldPages
  <2>3. \A i \in Indices : frames[i].lastAccess > Uses[p]
    BY <1>9, <2>2 DEF FramesKeep
  <2>4. \A i \in Indices : f[i] # NoPage /\ frames[i].lastAccess = Uses[f[i]]
    BY <1>2, <1>7, <2>3 DEF FramesKeep
  <2>5. \A i, j \in Indices : f[i] = f[j] => i = j
    BY <1>2, <2>4 DEF FramesKeep
  <2>6. HeldPages = T
    BY <1>4, <2>4
  <2> QED
    BY <1>3, <2>3, <2>4, <2>5, <2>6
<1>10. IsFiniteSet(UsedBy(Uses, Pages))
  BY FewUsed DEF Referenced
<1> HIDE DEF T, f
<1>11. HeldPages = LatestBy(Uses, Pages, NumFrames)
  <2>1. \A p \in Pages \ HeldPages : Uses[p] = 0 \/ (Cardinality(HeldPages) = NumFrames /\ \A q \in HeldPages : Uses[q] > Uses[p])
    BY <1>9
  <2> HIDE DEF HeldPages
  <2> QED
    BY <1>1, <1>5, <1>6, <1>7, <1>8, <1>10, <2>1, TheLatest
<1> QED
  BY <1>1, <1>11, LatestIs DEF Referenced

-----------------------------------------------------------------------------
(* The LRUs: the inductive invariant.                                      *)

KeysOf(entries) == [i \in DOMAIN entries |-> entries[i].pageNumber]

TLBEntries == [pageNumber : DOMAIN pageTable, frameNumber : Nat]

LRUInv ==
  /\ reference \in Seq(Pages) /\ time \in 0..Len(reference)
  /\ FramesKeep(frames, Uses)
  /\ Keeps(lru, Pages, capacity, Uses) /\ table = ToSet(lru)
  /\ tlbCache \in Seq(TLBEntries)
  /\ \A i \in 1..Len(tlbCache) : tlbCache[i].frameNumber = pageTable[tlbCache[i].pageNumber]
  /\ Keeps(KeysOf(tlbCache), DOMAIN pageTable, TLB_SIZE, Uses)
  /\ tlbMap = ToSet(KeysOf(tlbCache))
  /\ faults.lru \in Nat /\ DOMAIN misses = {"lab8", "lab9"} /\ misses["lab9"] \in Nat
  /\ capacity = NumFrames => faults.lru = misses["lab9"]

LEMMA LRUInvInit == PagingInit => LRUInv
<1> SUFFICES ASSUME PagingInit PROVE LRUInv
  OBVIOUS
<1>1. reference \in Seq(Pages) /\ time = 0 /\ 0 \in 0..Len(reference)
  BY ReferencesAssumption DEF PagingInit, Init
<1>2. \A p \in Referenced : Uses[p] = 0
  <2>1. Uses \in [Referenced -> Nat] /\ \A p \in Referenced : Uses[p] < 0 + 1
    BY <1>1, UsesFacts
  <2> QED
    BY <2>1
<1>3. frames = [i \in Indices |-> [pageNumber |-> NoPage, lastAccess |-> 0]]
  BY DEF PagingInit, Init
<1>4. FramesKeep(frames, Uses)
  BY <1>2, <1>3 DEF FramesKeep, Referenced
<1>5. lru = <<>> /\ table = {} /\ tlbCache = <<>> /\ tlbMap = {} /\ Len(<<>>) = 0 /\ DOMAIN <<>> = {}
  BY DEF PagingInit, TLBInit
<1>6. KeysOf(tlbCache) = <<>>
  BY <1>5 DEF KeysOf
<1>7. ASSUME NEW S \in SUBSET Referenced, NEW n \in Nat PROVE Keeps(<<>>, S, n, Uses)
  BY <1>2, <1>5, <1>7 DEF Keeps
<1>8. Keeps(lru, Pages, capacity, Uses) /\ Keeps(KeysOf(tlbCache), DOMAIN pageTable, TLB_SIZE, Uses)
  BY <1>5, <1>6, <1>7, SizesAssumption DEF Referenced
<1>9. table = ToSet(lru) /\ tlbMap = ToSet(KeysOf(tlbCache))
  BY <1>5, <1>6 DEF ToSet
<1>10. faults.lru = 0
  BY DEF PagingInit, Init
<1>11. misses = [lab8 |-> 0, lab9 |-> 0]
  BY DEF PagingInit, TLBInit
<1>12. DOMAIN misses = {"lab8", "lab9"} /\ misses["lab9"] = 0
  BY <1>11
<1>13. tlbCache \in Seq(TLBEntries) /\ Len(tlbCache) = 0
  BY <1>5
<1> QED
  BY <1>1, <1>4, <1>8, <1>9, <1>10, <1>12, <1>13 DEF LRUInv

LEMMA LRUInvLatest ==
  ASSUME LRUInv
  PROVE  /\ HeldPages = Latest(Pages, NumFrames)
         /\ ListsLatest(lru, Pages, capacity)
         /\ ListsLatest(KeysOf(tlbCache), DOMAIN pageTable, TLB_SIZE)
<1>1. time \in Nat /\ Pages \in SUBSET Referenced /\ DOMAIN pageTable \in SUBSET Referenced
  BY DEF LRUInv, Referenced
<1> QED
  BY <1>1, HeldIsLatest, ListIsLatest, SizesAssumption DEF LRUInv

\* The page numbers of a list of entries are a list of the same length.
LEMMA KeysLists ==
  ASSUME NEW entries \in Seq(TLBEntries), NEW n \in Nat, Len(entries) = n
  PROVE  /\ KeysOf(entries) \in Seq(DOMAIN pageTable) /\ Len(KeysOf(entries)) = n
         /\ \A j \in 1..n : KeysOf(entries)[j] = entries[j].pageNumber
<1>1. DOMAIN entries = 1..n /\ \A j \in 1..n : entries[j] \in TLBEntries
  OBVIOUS
<1>2. KeysOf(entries) = [j \in 1..n |-> entries[j].pageNumber]
  BY <1>1 DEF KeysOf
<1>3. \A j \in 1..n : entries[j].pageNumber \in DOMAIN pageTable
  BY <1>1 DEF TLBEntries
<1>4. KeysOf(entries) \in [1..n -> DOMAIN pageTable]
  BY <1>2, <1>3
<1>5. KeysOf(entries) \in Seq(DOMAIN pageTable)
  BY <1>4
<1> QED
  BY <1>2, <1>5

LEMMA KeysMoved ==
  ASSUME NEW entries \in Seq(TLBEntries), NEW i \in 1..Len(entries),
         NEW t, Moved(t, entries, i, TLBEntries)
  PROVE  Moved(KeysOf(t), KeysOf(entries), i, DOMAIN pageTable)
<1>1. PICK n \in Nat : n = Len(entries) /\ DOMAIN entries = 1..n
  OBVIOUS
<1>2. t \in Seq(TLBEntries) /\ Len(t) = n /\ DOMAIN t = 1..n
  BY <1>1 DEF Moved
<1>3. /\ KeysOf(t) \in Seq(DOMAIN pageTable) /\ Len(KeysOf(t)) = n
      /\ Len(KeysOf(entries)) = n
      /\ \A j \in 1..n : /\ KeysOf(entries)[j] = entries[j].pageNumber
                         /\ KeysOf(t)[j] = t[j].pageNumber
  BY <1>1, <1>2, KeysLists
<1>4. ASSUME NEW j \in 1..n
      PROVE  KeysOf(t)[j] = IF j = 1 THEN KeysOf(entries)[i]
                            ELSE IF j <= i THEN KeysOf(entries)[j - 1] ELSE KeysOf(entries)[j]
  <2>1. t[j] = IF j = 1 THEN entries[i] ELSE IF j <= i THEN entries[j - 1] ELSE entries[j]
    BY <1>1 DEF Moved
  <2>2. j # 1 => j - 1 \in 1..n
    OBVIOUS
  <2> QED
    BY <1>1, <1>3, <2>1, <2>2
<1> QED
  BY <1>3, <1>4 DEF Moved

LEMMA KeysPushed ==
  ASSUME NEW entries \in Seq(TLBEntries), NEW e \in TLBEntries,
         NEW m \in Nat, m <= Len(entries) + 1,
         NEW t, Pushed(t, entries, e, m, TLBEntries)
  PROVE  Pushed(KeysOf(t), KeysOf(entries), e.pageNumber, m, DOMAIN pageTable)
<1>1. PICK n \in Nat : n = Len(entries) /\ DOMAIN entries = 1..n
  OBVIOUS
<1>2. t \in Seq(TLBEntries) /\ Len(t) = m /\ DOMAIN t = 1..m
  BY DEF Pushed
<1>3. /\ KeysOf(t) \in Seq(DOMAIN pageTable) /\ Len(KeysOf(t)) = m
      /\ \A j \in 1..n : KeysOf(entries)[j] = entries[j].pageNumber
      /\ \A j \in 1..m : KeysOf(t)[j] = t[j].pageNumber
  BY <1>1, <1>2, KeysLists
<1>4. ASSUME NEW j \in 1..m
      PROVE  KeysOf(t)[j] = IF j = 1 THEN e.pageNumber ELSE KeysOf(entries)[j - 1]
  <2>1. t[j] = IF j = 1 THEN e ELSE entries[j - 1]
    BY DEF Pushed
  <2>2. j # 1 => j - 1 \in 1..n
    BY <1>1
  <2> QED
    BY <1>3, <2>1, <2>2
<1> QED
  BY <1>3, <1>4 DEF Pushed

-----------------------------------------------------------------------------
(* The LRUs: steps.                                                        *)

\* findLRU finds a frame with the smallest stamp.
LEMMA FindsLRU ==
  ASSUME FramesKeep(frames, Uses)
  PROVE  findLRU \in Indices /\ \A j \in Indices : frames[findLRU].lastAccess <= frames[j].lastAccess
<1> DEFINE R == {frames[i].lastAccess : i \in Indices}
<1>1. \A i \in Indices : i \in Nat /\ frames[i].lastAccess \in Nat
  BY NumFramesAssumption DEF FramesKeep, Indices
<1>2. R \in SUBSET Nat /\ 0 \in Indices
  BY <1>1, NumFramesAssumption DEF Indices
<1>3. PICK k \in Indices : \A j \in Indices : frames[k].lastAccess <= frames[j].lastAccess
  <2>1. PICK a \in R : \A b \in R : a <= b
    BY <1>2, LeastExists
  <2> QED
    BY <2>1
<1> DEFINE F == {i \in Indices : frames[i].lastAccess = frames[k].lastAccess}
<1>4. F \in SUBSET Nat /\ F # {}
  BY <1>1
<1>5. PICK i \in F : \A j \in F : i <= j
  BY <1>4, LeastExists
<1>6. \A j \in Indices : \/ frames[i].lastAccess < frames[j].lastAccess
                         \/ frames[i].lastAccess = frames[j].lastAccess /\ i <= j
  BY <1>1, <1>3, <1>5
<1>7. /\ findLRU \in Indices
      /\ \A j \in Indices : \/ frames[findLRU].lastAccess < frames[j].lastAccess
                            \/ frames[findLRU].lastAccess = frames[j].lastAccess /\ findLRU <= j
  <2>1. i \in Indices
    OBVIOUS
  <2> QED
    BY <1>6, <2>1, Zenon DEF findLRU
<1> QED
  BY <1>1, <1>7

LEMMA FramesStep ==
  ASSUME LRUInv, NEW page \in Pages, pageHit(page) \/ LRUFault(page)
  PROVE  FramesKeep(frames', [Uses EXCEPT ![page] = time + 1])
<1>1. time + 1 \in Nat /\ FramesKeep(frames, Uses)
  BY DEF LRUInv
<1>2. /\ Uses \in [Referenced -> Nat] /\ \A p \in Referenced : Uses[p] < time + 1
      /\ \A p, q \in Pages : Uses[p] = Uses[q] /\ Uses[p] > 0 => p = q
  BY <1>1, UsesFacts DEF LRUInv, Referenced
<1>3. CASE pageHit(page)
  <2>1. PICK i \in Indices : /\ frames[i].pageNumber = page
                             /\ frames' = [frames EXCEPT ![i].lastAccess = time + 1]
    BY <1>3 DEF pageHit
  <2> QED
    BY <1>1, <1>2, <2>1, FramesHit
<1>4. CASE LRUFault(page)
  BY <1>1, <1>2, <1>4, FramesFault, FindsLRU DEF LRUFault
<1> QED
  BY <1>3, <1>4

LEMMA AccessStep ==
  ASSUME LRUInv, NEW page \in Pages, AccessHit(page) \/ AccessMiss(page)
  PROVE  Keeps(lru', Pages, capacity, [Uses EXCEPT ![page] = time + 1]) /\ table' = ToSet(lru')
<1> DEFINE v == [Uses EXCEPT ![page] = time + 1]
<1>1. time + 1 \in Nat /\ Keeps(lru, Pages, capacity, Uses) /\ capacity \in Nat \ {0}
  BY SizesAssumption DEF LRUInv
<1>2. Uses \in [Referenced -> Nat] /\ (\A p \in Referenced : Uses[p] < time + 1) /\ Pages \in SUBSET Referenced
  BY <1>1, UsesFacts DEF LRUInv, Referenced
<1>3. PICK n \in Nat : n = Len(lru) /\ DOMAIN lru = 1..n /\ n <= capacity /\ lru \in Seq(Pages)
  BY <1>1 DEF Keeps
<1>4. table = {lru[i] : i \in 1..n}
  BY <1>3 DEF LRUInv, ToSet
<1>5. CASE AccessHit(page)
  <2>1. PICK i \in 1..n : lru[i] = page /\ lru' = <<page>> \o RemoveAt(lru, i) /\ table' = table
    BY <1>3, <1>5 DEF AccessHit
  <2>2. Moved(lru', lru, i, Pages)
    BY <1>3, <2>1, MovedToFront
  <2>3. Keeps(lru', Pages, capacity, v)
    BY <1>1, <1>2, <1>3, <2>1, <2>2, KeepsMoved
  <2>4. table' = ToSet(lru')
    BY <1>3, <2>1, <2>2, MovedSame DEF LRUInv
  <2> QED
    BY <2>3, <2>4
<1>6. CASE AccessMiss(page)
  <2>1. \A i \in 1..n : lru[i] # page
    BY <1>4, <1>6 DEF AccessMiss
  <2>2. CASE n = capacity
    <3>1. lru' = <<page>> \o Front(lru) /\ table' = (table \ {Last(lru)}) \union {page}
      BY <1>3, <1>6, <2>2 DEF AccessMiss
    <3>2. lru # <<>>
      BY <1>1, <1>3, <2>2
    <3>3. Pushed(lru', lru, page, n, Pages)
      BY <1>3, <3>1, <3>2, PushedInFront
    <3>4. n \in 1..capacity
      BY <1>1, <2>2
    <3>5. Keeps(lru', Pages, capacity, v)
      BY <1>1, <1>2, <1>3, <2>1, <2>2, <3>3, <3>4, KeepsPushed
    <3>6. Once(lru)
      BY <1>1, <1>2, KeptOnce
    <3>7. ToSet(lru') = (ToSet(lru) \ {Last(lru)}) \union {page}
      BY <1>3, <3>2, <3>3, <3>6, PushedOut
    <3>8. table' = ToSet(lru')
      BY <3>1, <3>7 DEF LRUInv
    <3> QED
      BY <3>5, <3>8
  <2>3. CASE n # capacity
    <3>1. lru' = <<page>> \o lru /\ table' = table \union {page}
      BY <1>3, <1>6, <2>3 DEF AccessMiss
    <3>2. Pushed(lru', lru, page, n + 1, Pages) /\ Pushed(lru', lru, page, Len(lru) + 1, Pages)
      BY <1>3, <3>1, PushedInFront
    <3>3. n + 1 \in 1..capacity
      BY <1>1, <1>3, <2>3
    <3>4. Keeps(lru', Pages, capacity, v)
      BY <1>1, <1>2, <1>3, <2>1, <3>2, <3>3, KeepsPushed
    <3>5. ToSet(lru') = ToSet(lru) \union {page}
      BY <1>3, <3>2, PushedIn
    <3>6. table' = ToSet(lru')
      BY <3>1, <3>5 DEF LRUInv
    <3> QED
      BY <3>4, <3>6
  <2> QED
    BY <2>2, <2>3
<1> QED
  BY <1>5, <1>6

\* Each entry of the TLB has the frame of its page.
FramesRight(entries) ==
  /\ entries \in Seq(TLBEntries)
  /\ \A i \in 1..Len(entries) : entries[i].frameNumber = pageTable[entries[i].pageNumber]

LEMMA KeysLength ==
  ASSUME NEW entries \in Seq(TLBEntries)
  PROVE  /\ Len(KeysOf(entries)) = Len(entries) /\ KeysOf(entries) \in Seq(DOMAIN pageTable)
         /\ \A i \in 1..Len(entries) : /\ KeysOf(entries)[i] = entries[i].pageNumber
                                       /\ KeysOf(entries)[i] \in DOMAIN pageTable
<1>1. PICK n \in Nat : n = Len(entries) /\ DOMAIN entries = 1..n
  OBVIOUS
<1>2. \A i \in 1..n : entries[i] \in TLBEntries
  BY <1>1
<1>3. \A i \in 1..n : entries[i].pageNumber \in DOMAIN pageTable
  BY <1>2 DEF TLBEntries
<1>4. KeysOf(entries) = [i \in 1..n |-> entries[i].pageNumber]
  BY <1>1 DEF KeysOf
<1> QED
  BY <1>1, <1>3, <1>4

LEMMA TranslateStep ==
  ASSUME LRUInv, NEW page \in Pages, translateAddress(page)
  PROVE  /\ Keeps(KeysOf(tlbCache'), DOMAIN pageTable, TLB_SIZE, [Uses EXCEPT ![page] = time + 1])
         /\ FramesRight(tlbCache') /\ tlbMap' = ToSet(KeysOf(tlbCache'))
<1> DEFINE v == [Uses EXCEPT ![page] = time + 1]
           K == DOMAIN pageTable
<1>1. /\ time + 1 \in Nat /\ TLB_SIZE \in Nat \ {0} /\ FramesRight(tlbCache)
      /\ Keeps(KeysOf(tlbCache), K, TLB_SIZE, Uses) /\ tlbMap = ToSet(KeysOf(tlbCache))
  BY SizesAssumption DEF LRUInv, FramesRight
<1>2. /\ Uses \in [Referenced -> Nat] /\ (\A p \in Referenced : Uses[p] < time + 1)
      /\ K \in SUBSET Referenced /\ page \in Referenced
  BY <1>1, UsesFacts DEF LRUInv, Referenced
<1>3. tlbCache \in Seq(TLBEntries)
  BY <1>1 DEF FramesRight
<1>4. PICK n \in Nat : n = Len(tlbCache) /\ DOMAIN tlbCache = 1..n
  BY <1>3
<1>5. /\ Len(KeysOf(tlbCache)) = n /\ KeysOf(tlbCache) \in Seq(K) /\ n <= TLB_SIZE
      /\ \A i \in 1..n : KeysOf(tlbCache)[i] = tlbCache[i].pageNumber /\ KeysOf(tlbCache)[i] \in K
  BY <1>1, <1>3, <1>4, KeysLength DEF Keeps
<1>6. tlbMap = {KeysOf(tlbCache)[i] : i \in 1..n}
  BY <1>1, <1>5 DEF ToSet
<1>7. CASE Lookup(page)
  <2>1. PICK i \in 1..n : /\ tlbCache[i].pageNumber = page /\ tlbMap' = tlbMap
                          /\ tlbCache' = <<tlbCache[i]>> \o RemoveAt(tlbCache, i)
    BY <1>4, <1>7 DEF Lookup
  <2>2. Moved(tlbCache', tlbCache, i, TLBEntries)
    BY <1>3, <1>4, <2>1, MovedToFront
  <2>3. Moved(KeysOf(tlbCache'), KeysOf(tlbCache), i, K)
    BY <1>3, <1>4, <2>2, KeysMoved
  <2>4. KeysOf(tlbCache)[i] = page
    BY <1>5, <2>1
  <2>5. Keeps(KeysOf(tlbCache'), K, TLB_SIZE, v)
    BY <1>1, <1>2, <1>5, <2>3, <2>4, KeepsMoved
  <2>6. tlbMap' = ToSet(KeysOf(tlbCache'))
    BY <1>1, <1>5, <2>1, <2>3, MovedSame
  <2>7. FramesRight(tlbCache')
    <3>1. tlbCache' \in Seq(TLBEntries) /\ Len(tlbCache') = n
      BY <1>4, <2>2 DEF Moved
    <3>2. ASSUME NEW j \in 1..n
          PROVE  \E k \in 1..n : tlbCache'[j] = tlbCache[k]
      <4>1. tlbCache'[j] = IF j = 1 THEN tlbCache[i] ELSE IF j <= i THEN tlbCache[j - 1] ELSE tlbCache[j]
        BY <1>4, <2>2 DEF Moved
      <4>2. j # 1 => j - 1 \in 1..n
        OBVIOUS
      <4> QED
        BY <4>1, <4>2
    <3>3. ASSUME NEW j \in 1..n
          PROVE  tlbCache'[j].frameNumber = pageTable[tlbCache'[j].pageNumber]
      <4>1. PICK k \in 1..n : tlbCache'[j] = tlbCache[k]
        BY <3>2
      <4>2. tlbCache[k].frameNumber = pageTable[tlbCache[k].pageNumber]
        BY <1>1, <1>4 DEF FramesRight
      <4> QED
        BY <4>1, <4>2
    <3> QED
      BY <3>1, <3>3 DEF FramesRight
  <2> QED
    BY <2>5, <2>6, <2>7
<1>8. CASE page \notin tlbMap /\ page \in K /\ Insert(page)
  <2> DEFINE new == [pageNumber |-> page, frameNumber |-> pageTable[page]]
  <2>1. new \in TLBEntries /\ new.pageNumber = page /\ new.frameNumber = pageTable[page]
    BY <1>8, PageTableAssumption DEF TLBEntries
  <2>2. \A i \in 1..n : KeysOf(tlbCache)[i] # page
    BY <1>6, <1>8
  <2> HIDE DEF new
  <2>3. PICK m \in 1..TLB_SIZE :
          /\ m = n + 1 \/ (m = TLB_SIZE /\ n = TLB_SIZE)
          /\ Pushed(tlbCache', tlbCache, new, m, TLBEntries)
          /\ m = n + 1 => tlbMap' = tlbMap \union {page}
          /\ m = n => tlbMap' = (tlbMap \ {Last(tlbCache).pageNumber}) \union {page}
    <3>1. CASE Len(tlbCache) >= TLB_SIZE
      <4>1. n = TLB_SIZE /\ n # 0 /\ tlbCache # <<>> /\ n \in 1..TLB_SIZE
        BY <1>1, <1>4, <1>5, <3>1
      <4>2. /\ tlbCache' = <<new>> \o Front(tlbCache)
            /\ tlbMap' = (tlbMap \ {Last(tlbCache).pageNumber}) \union {page}
        BY <1>1, <1>4, <1>8, <3>1 DEF Insert, new
      <4>3. Pushed(tlbCache', tlbCache, new, n, TLBEntries)
        BY <1>3, <1>4, <2>1, <4>1, <4>2, PushedInFront
      <4> QED
        BY <4>1, <4>2, <4>3
    <3>2. CASE Len(tlbCache) < TLB_SIZE
      <4>1. tlbCache' = <<new>> \o tlbCache /\ tlbMap' = tlbMap \union {page}
        BY <1>1, <1>4, <1>8, <3>2 DEF Insert, new
      <4>2. Pushed(tlbCache', tlbCache, new, n + 1, TLBEntries)
        BY <1>3, <1>4, <2>1, <4>1, PushedInFront
      <4>3. n + 1 \in 1..TLB_SIZE
        BY <1>1, <1>4, <3>2
      <4> QED
        BY <4>1, <4>2, <4>3
    <3> QED
      BY <1>1, <1>4, <3>1, <3>2
  <2>4. m \in Nat /\ m # 0 /\ m <= Len(tlbCache) + 1
    BY <1>1, <1>4, <2>3
  <2>5. Pushed(KeysOf(tlbCache'), KeysOf(tlbCache), page, m, K)
    BY <1>3, <2>1, <2>3, <2>4, KeysPushed
  <2>6. Keeps(KeysOf(tlbCache'), K, TLB_SIZE, v)
    BY <1>1, <1>2, <1>5, <1>8, <2>2, <2>3, <2>5, KeepsPushed
  <2>7. tlbMap' = ToSet(KeysOf(tlbCache'))
    <3>1. CASE m = n + 1
      <4>1. ToSet(KeysOf(tlbCache')) = ToSet(KeysOf(tlbCache)) \union {page}
        BY <1>5, <1>8, <2>5, <3>1, PushedIn
      <4> QED
        BY <1>1, <2>3, <3>1, <4>1
    <3>2. CASE m = n
      <4>1. Once(KeysOf(tlbCache))
        BY <1>1, <1>2, KeptOnce
      <4>2. KeysOf(tlbCache) # <<>> /\ n \in 1..n
        BY <1>5, <2>4, <3>2
      <4>3. ToSet(KeysOf(tlbCache')) = (ToSet(KeysOf(tlbCache)) \ {Last(KeysOf(tlbCache))}) \union {page}
        BY <1>5, <1>8, <2>5, <3>2, <4>1, <4>2, PushedOut
      <4>4. Last(KeysOf(tlbCache)) = Last(tlbCache).pageNumber
        BY <1>4, <1>5, <4>2 DEF Last
      <4> QED
        BY <1>1, <2>3, <3>2, <4>3, <4>4
    <3> QED
      BY <2>3, <3>1, <3>2
  <2>8. FramesRight(tlbCache')
    <3>1. tlbCache' \in Seq(TLBEntries) /\ Len(tlbCache') = m
      BY <2>3 DEF Pushed
    <3>2. ASSUME NEW j \in 1..m
          PROVE  tlbCache'[j].frameNumber = pageTable[tlbCache'[j].pageNumber]
      <4>1. tlbCache'[j] = IF j = 1 THEN new ELSE tlbCache[j - 1]
        BY <2>3 DEF Pushed
      <4>2. j # 1 => j - 1 \in 1..n
        BY <1>4, <2>4
      <4>3. CASE j = 1
        BY <2>1, <4>1, <4>3
      <4>4. CASE j # 1
        BY <1>1, <1>4, <4>1, <4>2, <4>4 DEF FramesRight
      <4> QED
        BY <4>3, <4>4
    <3> QED
      BY <3>1, <3>2 DEF FramesRight
  <2> QED
    BY <2>6, <2>7, <2>8
<1>9. CASE page \notin K /\ tlbCache' = tlbCache /\ tlbMap' = tlbMap
  BY <1>1, <1>2, <1>9, KeepsUnlisted
<1> QED
  BY <1>7, <1>8, <1>9 DEF translateAddress

\* A page is missed by the time stamps if and only if it is missed by the list
\* of as many pages.
LEMMA CountersStep ==
  ASSUME LRUInv, PagingReference
  PROVE  /\ faults'.lru \in Nat /\ DOMAIN misses' = {"lab8", "lab9"} /\ misses'["lab9"] \in Nat
         /\ capacity = NumFrames => faults'.lru = misses'["lab9"]
<1> DEFINE page == reference[time + 1]
           missed == \A i \in Indices : frames[i].pageNumber # page
<1>1. page \in Pages /\ page # NoPage
  <2>1. page \in Pages
    BY DEF LRUInv, PagingReference, Reference
  <2> QED
    BY <2>1, PagesAssumption DEF NoPage
<1>2. missed <=> page \notin HeldPages
  BY <1>1 DEF HeldPages
<1>3. capacity = NumFrames => HeldPages = table
  BY LRUInvLatest DEF LRUInv, ListsLatest
<1>4. faults'.lru = faults.lru + (IF missed THEN 1 ELSE 0)
  BY DEF PagingReference, Reference
<1>5. /\ DOMAIN misses' = {"lab8", "lab9"}
      /\ misses'["lab9"] = misses["lab9"] + (IF page \in table THEN 0 ELSE 1)
  BY DEF LRUInv, PagingReference, TLBReference
<1> HIDE DEF page, missed
<1>6. /\ faults.lru \in Nat /\ misses["lab9"] \in Nat
      /\ capacity = NumFrames => faults.lru = misses["lab9"]
  BY DEF LRUInv
<1> QED
  BY <1>2, <1>3, <1>4, <1>5, <1>6

LEMMA LRUInvNext == LRUInv /\ [PagingNext]_<<vars, tlbVars>> => LRUInv'
<1> SUFFICES ASSUME LRUInv, [PagingNext]_<<vars, tlbVars>> PROVE LRUInv'
  OBVIOUS
<1>1. CASE PagingReference
  <2> DEFINE page == reference[time + 1]
  <2>1. /\ reference' = reference /\ time' = time + 1 /\ time \in Nat
        /\ time' \in 0..Len(reference) /\ page \in Pages
    BY <1>1 DEF LRUInv, PagingReference, Reference
  <2>2. Uses' = [Uses EXCEPT ![page] = time + 1]
    BY <2>1, UsesNext
  <2>3. pageHit(page) \/ LRUFault(page)
    BY <1>1 DEF PagingReference, Reference
  <2>4. (AccessHit(page) \/ AccessMiss(page)) /\ translateAddress(page)
    BY <1>1 DEF PagingReference, TLBReference
  <2> HIDE DEF page
  <2>5. FramesKeep(frames', Uses')
    BY <2>1, <2>2, <2>3, FramesStep
  <2>6. Keeps(lru', Pages, capacity, Uses') /\ table' = ToSet(lru')
    BY <2>1, <2>2, <2>4, AccessStep
  <2>7. /\ Keeps(KeysOf(tlbCache'), DOMAIN pageTable, TLB_SIZE, Uses')
        /\ FramesRight(tlbCache') /\ tlbMap' = ToSet(KeysOf(tlbCache'))
    BY <2>1, <2>2, <2>4, TranslateStep
  <2>8. /\ faults'.lru \in Nat /\ DOMAIN misses' = {"lab8", "lab9"} /\ misses'["lab9"] \in Nat
        /\ capacity = NumFrames => faults'.lru = misses'["lab9"]
    BY <1>1, CountersStep
  <2>9. reference' \in Seq(Pages) /\ time' \in 0..Len(reference')
    BY <2>1 DEF LRUInv
  <2> QED
    BY <2>5, <2>6, <2>7, <2>8, <2>9 DEF LRUInv, FramesRight
<1>2. CASE UNCHANGED <<vars, tlbVars>>
  <2>1. /\ reference' = reference /\ time' = time /\ frames' = frames /\ faults' = faults
        /\ lru' = lru /\ table' = table /\ tlbCache' = tlbCache /\ tlbMap' = tlbMap
        /\ misses' = misses
    BY <1>2 DEF vars, tlbVars
  <2>2. Uses' = Uses
    BY <2>1 DEF Uses, LastUse
  <2> QED
    BY <2>1, <2>2 DEF LRUInv
<1> QED
  BY <1>1, <1>2 DEF PagingNext, PagingOver, Over

\* The pages of the last NumFrames references are all kept.
LEMMA WorkingSetKept ==
  ASSUME time \in Nat, NEW p \in Pages, p \in workingSet(NumFrames),
         \A i \in 1..time : reference[i] \in Pages
  PROVE  p \in Latest(Pages, NumFrames)
<1> DEFINE later == {q \in Pages : Uses[q] > Uses[p]}
           use == [q \in later |-> Uses[q]]
           from == Max({0, (time - 1) - NumFrames + 1})
<1>1. Uses \in [Referenced -> Nat] /\ Pages \in SUBSET Referenced /\ NumFrames \in Nat \ {0}
  BY UsesFacts, NumFramesAssumption DEF Referenced
<1>2. from >= 0 /\ from >= time - NumFrames /\ from \in Int
  <2> DEFINE a == (time - 1) - NumFrames + 1
  <2>1. a \in Int /\ a = time - NumFrames
    BY <1>1
  <2> HIDE DEF a
  <2>2. \E x \in {0, a} : \A y \in {0, a} : x >= y
    BY <2>1
  <2>3. Max({0, a}) \in {0, a} /\ \A y \in {0, a} : Max({0, a}) >= y
    BY <2>2, Zenon DEF Max
  <2> QED
    BY <2>1, <2>3 DEF a
<1>3. PICK i \in from..time - 1 : p = reference[i + 1]
  BY DEF workingSet
<1> HIDE DEF from
<1>4. Uses[p] >= i + 1 /\ i + 1 > time - NumFrames /\ i \in Nat
  <2>1. i \in Nat /\ i + 1 \in 1..time /\ i >= time - NumFrames
    BY <1>1, <1>2
  <2> QED
    BY <1>1, <1>3, <2>1, UsesFacts
<1>5. Uses[p] > 0 /\ Uses[p] \in Nat /\ Uses[p] > time - NumFrames
  BY <1>1, <1>4
<1>6. use \in Injection(later, Uses[p] + 1..time)
  <2>1. \A q \in later : q \in Referenced /\ Uses[q] \in Nat /\ Uses[q] < time + 1 /\ Uses[q] > Uses[p]
    BY <1>1, UsesFacts
  <2>2. \A q \in later : Uses[q] \in Uses[p] + 1..time
    BY <1>5, <2>1
  <2>3. ASSUME NEW q \in later, NEW r \in later, Uses[q] = Uses[r] PROVE q = r
    <3>1. q \in Referenced /\ r \in Referenced /\ Uses[q] > 0
      BY <1>5, <2>1
    <3> QED
      BY <2>3, <3>1, UsesFacts
  <2> QED
    BY <2>2, <2>3 DEF Injection, IsInjective
<1>7. IsFiniteSet(Uses[p] + 1..time) /\ Cardinality(Uses[p] + 1..time) < NumFrames /\ Cardinality(Uses[p] + 1..time) \in Nat
  <2>1. /\ IsFiniteSet(Uses[p] + 1..time)
        /\ Cardinality(Uses[p] + 1..time) = IF Uses[p] + 1 > time THEN 0 ELSE time - (Uses[p] + 1) + 1
    <3> DEFINE c == Uses[p] + 1
    <3>1. c \in Int /\ time \in Int
      BY <1>5
    <3> HIDE DEF c
    <3>2. IsFiniteSet(c..time) /\ Cardinality(c..time) = IF c > time THEN 0 ELSE time - c + 1
      BY <3>1, FS_Interval
    <3> QED
      BY <3>2 DEF c
  <2> QED
    BY <1>1, <1>5, <2>1
<1>8. IsFiniteSet(later) /\ Cardinality(later) <= Cardinality(Uses[p] + 1..time)
  BY <1>6, <1>7, FS_Injection
<1>9. Cardinality(later) < NumFrames
  BY <1>1, <1>7, <1>8, FS_CardinalityType
<1> QED
  BY <1>1, <1>5, <1>9, LatestIs DEF LatestBy

LEMMA LRUInvKeeps == LRUInv => LRUsKeepLatest
<1> SUFFICES ASSUME LRUInv PROVE LRUsKeepLatest
  OBVIOUS
<1>1. /\ HeldPages = Latest(Pages, NumFrames)
      /\ ListsLatest(lru, Pages, capacity) /\ table = ToSet(lru)
      /\ ListsLatest(KeysOf(tlbCache), DOMAIN pageTable, TLB_SIZE)
      /\ tlbMap = ToSet(KeysOf(tlbCache))
  BY LRUInvLatest DEF LRUInv
<1>2. workingSet(NumFrames) \subseteq HeldPages
  <2>1. time \in Nat /\ \A i \in 1..time : reference[i] \in Pages
    BY DEF LRUInv
  <2>2. \A p \in workingSet(NumFrames) : p \in Pages
    <3> SUFFICES ASSUME NEW i \in Max({0, (time - 1) - NumFrames + 1})..time - 1
                 PROVE  reference[i + 1] \in Pages
      BY DEF workingSet
    <3>1. i + 1 \in 1..time
      <4> DEFINE a == (time - 1) - NumFrames + 1
      <4>1. a \in Int
        BY <2>1, NumFramesAssumption
      <4> HIDE DEF a
      <4>2. \E x \in {0, a} : \A y \in {0, a} : x >= y
        BY <4>1
      <4>3. Max({0, a}) \in {0, a} /\ Max({0, a}) >= 0
        BY <4>2, Zenon DEF Max
      <4>4. Max({0, a}) \in Int /\ i \in Max({0, a})..time - 1
        BY <4>1, <4>3 DEF a
      <4> QED
        BY <2>1, <4>3, <4>4
    <3> QED
      BY <2>1, <3>1
  <2> QED
    BY <1>1, <2>1, <2>2, WorkingSetKept
<1>3. KeysOf(tlbCache) = [i \in DOMAIN tlbCache |-> tlbCache[i].pageNumber]
  BY DEF KeysOf
<1>4. \A i \in DOMAIN tlbCache : tlbCache[i].frameNumber = pageTable[KeysOf(tlbCache)[i]]
  <2>1. DOMAIN tlbCache = 1..Len(tlbCache)
    BY DEF LRUInv
  <2> QED
    BY <1>3, <2>1 DEF LRUInv
<1>5. capacity = NumFrames => faults.lru = misses.lab9
  BY DEF LRUInv
<1> QED
  BY <1>1, <1>2, <1>3, <1>4, <1>5 DEF LRUsKeepLatest, HeldPages

-----------------------------------------------------------------------------
(* BuddySystem: sizes and aligned blocks.                                  *)

LEMMA SizeFacts ==
  /\ \A s \in Sizes : s \in Nat \ {0} /\ s <= MAX_BLOCK_SIZE
  /\ MAX_BLOCK_SIZE \in Sizes /\ MAX_BLOCK_SIZE \in Nat \ {0}
  BY BuddyAssumption DEF Sizes

LEMMA SizeIsPower ==
  ASSUME NEW s \in Sizes
  PROVE  \E k \in Nat : s = 2^k
<1>1. MAX_BLOCK_SIZE \in Nat
  BY SizeFacts
<1>2. \E k \in 0..MAX_BLOCK_SIZE : s = 2^k
  BY DEF Sizes
<1> QED
  BY <1>1, <1>2

LEMMA PowerIsSize ==
  ASSUME NEW k \in Nat, 2^k <= MAX_BLOCK_SIZE
  PROVE  2^k \in Sizes
<1>1. MAX_BLOCK_SIZE \in Nat
  BY SizeFacts
<1>2. PICK p \in Nat \ {0} : p = 2^k /\ k < p
  BY PowerPositive
<1>3. p \in 1..MAX_BLOCK_SIZE /\ k \in 0..MAX_BLOCK_SIZE
  BY <1>1, <1>2
<1> QED
  BY <1>2, <1>3 DEF Sizes

\* A larger power of two is at least twice as large, and its half is one.
LEMMA SizeHalf ==
  ASSUME NEW s \in Sizes, NEW t \in Sizes, s < t
  PROVE  /\ 2 * s <= t
         /\ \E h \in Sizes : t = 2 * h /\ s <= h
<1>1. PICK j \in Nat, k \in Nat : s = 2^j /\ t = 2^k
  BY SizeIsPower
<1>2. s \in Nat /\ t \in Nat /\ MAX_BLOCK_SIZE \in Nat /\ t <= MAX_BLOCK_SIZE
  BY SizeFacts
<1>3. j < k
  <2> SUFFICES ASSUME k <= j PROVE FALSE
    OBVIOUS
  <2>1. CASE k = j
    BY <1>1, <1>2, <2>1
  <2>2. CASE k < j
    <3>1. t + t <= s
      BY <1>1, <2>2, PowerGrows
    <3> QED
      BY <1>2, <3>1
  <2> QED
    BY <2>1, <2>2
<1>4. PICK i \in Nat : k = i + 1 /\ j <= i
  <2>1. k - 1 \in Nat /\ k = (k - 1) + 1 /\ j <= k - 1
    BY <1>3
  <2> QED
    BY <2>1
<1>5. PICK h \in Nat : h = 2^i /\ t = h + h
  BY <1>1, <1>4, PowerDoubles
<1>6. h \in Sizes
  BY <1>2, <1>5, PowerIsSize
<1>7. s <= h
  <2>1. CASE i = j
    BY <1>1, <1>2, <1>5, <2>1
  <2>2. CASE j < i
    <3>1. s + s <= h
      BY <1>1, <1>5, <2>2, PowerGrows
    <3> QED
      BY <1>2, <3>1
  <2> QED
    BY <1>4, <2>1, <2>2
<1> QED
  BY <1>2, <1>5, <1>6, <1>7

LEMMA SizeDouble ==
  ASSUME NEW s \in Sizes, 2 * s <= MAX_BLOCK_SIZE
  PROVE  2 * s \in Sizes
<1>1. PICK k \in Nat : s = 2^k
  BY SizeIsPower
<1>2. s \in Nat /\ 2^(k + 1) = s + s
  BY <1>1, PowerDoubles
<1>3. 2 * s = 2^(k + 1)
  BY <1>2
<1> QED
  BY <1>3, PowerIsSize

LEMMA SizeMultiple ==
  ASSUME NEW s \in Sizes, NEW t \in Sizes, s <= t, NEW a \in Nat, Multiple(a, t)
  PROVE  Multiple(a, s)
<1>1. PICK j \in Nat, k \in Nat : s = 2^j /\ t = 2^k
  BY SizeIsPower
<1>2. s \in Nat /\ t \in Nat
  BY SizeFacts
<1>3. j <= k
  <2> SUFFICES ASSUME k < j PROVE FALSE
    OBVIOUS
  <2>1. t + t <= s
    BY <1>1, PowerGrows
  <2>2. t \in Nat \ {0}
    BY SizeFacts
  <2> QED
    BY <1>2, <2>1, <2>2
<1> QED
  BY <1>1, <1>3, MultipleOfLess

InBlock(u, block) == block.address <= u /\ u < block.address + block.size
BlocksApart(b, c) == b.address + b.size <= c.address \/ c.address + c.size <= b.address

\* Blocks at multiples of their sizes.
AlignedBlocks ==
  {b \in [address : Nat, size : Sizes] :
     Multiple(b.address, b.size) /\ b.address + b.size <= MAX_BLOCK_SIZE}

LEMMA AlignedFacts ==
  ASSUME NEW b \in AlignedBlocks
  PROVE  /\ b.address \in Nat /\ b.size \in Sizes /\ b.size \in Nat \ {0}
         /\ Multiple(b.address, b.size) /\ b.address + b.size <= MAX_BLOCK_SIZE
         /\ b = BlockAt(b.address, b.size) /\ InBlock(b.address, b)
<1>1. b \in [address : Nat, size : Sizes]
  BY DEF AlignedBlocks
<1>2. b.address \in Nat /\ b.size \in Sizes /\ b = [address |-> b.address, size |-> b.size]
  BY <1>1
<1>3. b.size \in Nat \ {0}
  BY <1>2, SizeFacts
<1> QED
  BY <1>2, <1>3 DEF AlignedBlocks, BlockAt, InBlock

LEMMA AlignedAt ==
  ASSUME NEW a \in Nat, NEW s \in Sizes, Multiple(a, s), a + s <= MAX_BLOCK_SIZE
  PROVE  BlockAt(a, s) \in AlignedBlocks /\ BlockAt(a, s).address = a /\ BlockAt(a, s).size = s
  BY DEF AlignedBlocks, BlockAt

\* Of two aligned blocks with a common unit, the smaller one is in the other.
LEMMA AlignedNest ==
  ASSUME NEW b \in AlignedBlocks, NEW c \in AlignedBlocks, b.size <= c.size,
         NEW u \in Int, InBlock(u, b), InBlock(u, c)
  PROVE  c.address <= b.address /\ b.address + b.size <= c.address + c.size
<1>1. PICK a \in Nat, s \in Nat \ {0} : a = b.address /\ s = b.size /\ s \in Sizes /\ Multiple(a, s)
  BY AlignedFacts
<1>2. PICK d \in Nat, t \in Nat \ {0} : d = c.address /\ t = c.size /\ t \in Sizes /\ Multiple(d, t)
  BY AlignedFacts
<1>3. Multiple(d, s)
  BY <1>1, <1>2, SizeMultiple
<1>4. Multiple(d + t, s)
  <2>1. Multiple(d + t, t) /\ d + t \in Nat
    BY <1>2, MultipleNext
  <2> QED
    BY <1>1, <1>2, <2>1, SizeMultiple
<1>5. a <= u /\ u < a + s /\ d <= u /\ u < d + t
  BY <1>1, <1>2 DEF InBlock
<1>6. d <= a
  <2> SUFFICES ASSUME a < d PROVE FALSE
    BY <1>1, <1>2
  <2>1. d < a + s /\ a <= d
    BY <1>1, <1>2, <1>5
  <2>2. a = d
    BY <1>1, <1>2, <1>3, <2>1, MultipleUnique
  <2> QED
    BY <1>1, <2>2
<1>7. a + s <= d + t
  <2> SUFFICES ASSUME d + t < a + s PROVE FALSE
    BY <1>1, <1>2
  <2>1. PICK e \in Nat : e = d + t
    BY <1>2
  <2>2. a <= e /\ e < a + s /\ Multiple(e, s)
    BY <1>1, <1>2, <1>4, <1>5, <2>1
  <2>3. a = e
    BY <1>1, <2>1, <2>2, MultipleUnique
  <2> QED
    BY <1>1, <1>2, <1>5, <2>1, <2>3
<1> QED
  BY <1>1, <1>2, <1>6, <1>7

LEMMA ApartOrMeet ==
  ASSUME NEW b \in AlignedBlocks, NEW c \in AlignedBlocks, ~BlocksApart(b, c)
  PROVE  \E u \in Nat : InBlock(u, b) /\ InBlock(u, c)
<1>1. /\ b.address \in Nat /\ b.size \in Nat \ {0}
      /\ c.address \in Nat /\ c.size \in Nat \ {0}
  BY AlignedFacts
<1> DEFINE u == IF b.address <= c.address THEN c.address ELSE b.address
<1>2. u \in Nat /\ InBlock(u, b) /\ InBlock(u, c)
  BY <1>1 DEF InBlock, BlocksApart
<1> QED
  BY <1>2

LEMMA ApartNotMeet ==
  ASSUME NEW b \in AlignedBlocks, NEW c \in AlignedBlocks, BlocksApart(b, c),
         NEW u \in Int, InBlock(u, b), InBlock(u, c)
  PROVE  FALSE
<1>1. /\ b.address \in Nat /\ b.size \in Nat \ {0}
      /\ c.address \in Nat /\ c.size \in Nat \ {0}
  BY AlignedFacts
<1> QED
  BY <1>1 DEF InBlock, BlocksApart

-----------------------------------------------------------------------------
(* BuddySystem: the block around an address, and its buddy.                *)

LEMMA AroundFacts ==
  ASSUME NEW a \in Nat, NEW s \in Nat \ {0}
  PROVE  /\ a \div s \in Nat /\ (a \div s) * s \in Nat
         /\ Multiple((a \div s) * s, s)
         /\ (a \div s) * s <= a /\ a < (a \div s) * s + s
         /\ Around(a, s).address = (a \div s) * s
<1>1. a \div s \in Nat /\ a % s \in 0..s - 1 /\ a = s * (a \div s) + (a % s)
  OBVIOUS
<1>2. PICK q \in Nat, r \in 0..s - 1 : q = a \div s /\ a = s * q + r
  BY <1>1
<1>3. s * q = q * s /\ q * s \in Nat
  OBVIOUS
<1> QED
  BY <1>2, <1>3 DEF Multiple, Around, BlockAt

\* A block and its buddy are the halves of the block around it that is twice as
\* large.
LEMMA BuddiesAreHalves ==
  ASSUME NEW a \in Nat, NEW s \in Nat \ {0}
  PROVE  LET x == Around(a, s).address
             y == BuddyOf(a, s).address
             p == Around(a, 2 * s).address
         IN (x = p /\ y = p + s) \/ (x = p + s /\ y = p)
<1> DEFINE x == Around(a, s).address
           y == BuddyOf(a, s).address
           p == Around(a, 2 * s).address
<1>1. PICK q \in Nat : q = a \div s /\ x = q * s /\ x \in Nat /\ x <= a /\ a < x + s
  BY AroundFacts
<1>2. 2 * s \in Nat \ {0}
  OBVIOUS
<1>3. p \in Nat /\ Multiple(p, 2 * s) /\ p <= a /\ a < p + 2 * s
  BY <1>2, AroundFacts
<1>4. x \div s = q
  <2>1. x \div s \in Nat /\ x % s \in 0..s - 1 /\ x = s * (x \div s) + (x % s)
    BY <1>1
  <2>2. PICK d \in Nat, r \in 0..s - 1 : d = x \div s /\ x = s * d + r
    BY <2>1
  <2>3. d * s + r = q * s + 0 /\ 0 \in 0..s - 1
    BY <1>1, <2>2
  <2>4. d = q
    BY <2>3, FrameAndOffset
  <2> QED
    BY <2>2, <2>4
<1>5. y = IF q % 2 = 0 THEN x + s ELSE x - s
  BY <1>4 DEF BuddyOf, findBuddy, BlockAt
<1> HIDE DEF x, y, p
<1>6. CASE q % 2 = 0
  <2>1. PICK r \in Nat : q = 2 * r
    BY <1>6
  <2>2. x = r * (2 * s)
    BY <1>1, <2>1
  <2>3. Multiple(x, 2 * s) /\ x <= a /\ a < x + 2 * s
    <3>1. Multiple(x, 2 * s)
      BY <2>2 DEF Multiple
    <3>2. x <= a /\ a < x + 2 * s
      BY <1>1
    <3> QED
      BY <3>1, <3>2
  <2>4. x = p
    <3>1. CASE p <= x
      BY <1>1, <1>2, <1>3, <2>3, <3>1, MultipleUnique
    <3>2. CASE x <= p
      BY <1>1, <1>2, <1>3, <2>3, <3>2, MultipleUnique
    <3> QED
      BY <1>1, <1>3, <3>1, <3>2
  <2> QED
    BY <1>5, <1>6, <2>4 DEF x, y, p
<1>7. CASE q % 2 # 0
  <2>1. PICK r \in Nat : q = 2 * r + 1
    BY <1>7
  <2>2. PICK z \in Nat : z = r * (2 * s)
    OBVIOUS
  <2>3. x = z + s
    BY <1>1, <2>1, <2>2
  <2>4. Multiple(z, 2 * s) /\ z <= a /\ a < z + 2 * s
    <3>1. Multiple(z, 2 * s)
      BY <2>2 DEF Multiple
    <3>2. z <= a /\ a < z + 2 * s
      BY <1>1, <2>3
    <3> QED
      BY <3>1, <3>2
  <2>5. z = p
    <3>1. CASE p <= z
      BY <1>1, <1>2, <1>3, <2>2, <2>4, <3>1, MultipleUnique
    <3>2. CASE z <= p
      BY <1>1, <1>2, <1>3, <2>2, <2>4, <3>2, MultipleUnique
    <3> QED
      BY <2>2, <1>3, <3>1, <3>2
  <2>6. y = x - s
    BY <1>5, <1>7
  <2>7. y = p /\ x = p + s
    BY <2>2, <2>3, <2>5, <2>6
  <2> QED
    BY <2>7 DEF x, y, p
<1> QED
  BY <1>1, <1>6, <1>7 DEF x, y, p

LEMMA AroundAligned ==
  ASSUME NEW a \in 0..MAX_BLOCK_SIZE - 1, NEW s \in Sizes
  PROVE  /\ Around(a, s) \in AlignedBlocks /\ Around(a, s).size = s
         /\ InBlock(a, Around(a, s))
<1>1. /\ a \in Nat /\ s \in Nat \ {0} /\ s <= MAX_BLOCK_SIZE /\ a < MAX_BLOCK_SIZE
      /\ MAX_BLOCK_SIZE \in Sizes /\ MAX_BLOCK_SIZE \in Nat \ {0}
  BY SizeFacts
<1>2. PICK x \in Nat : x = (a \div s) * s /\ Multiple(x, s) /\ x <= a /\ a < x + s
  BY <1>1, AroundFacts
<1>3. Around(a, s) = BlockAt(x, s)
  BY <1>2 DEF Around
<1>4. Multiple(MAX_BLOCK_SIZE, s)
  <2>1. MAX_BLOCK_SIZE = 1 * MAX_BLOCK_SIZE
    BY <1>1
  <2>2. Multiple(MAX_BLOCK_SIZE, MAX_BLOCK_SIZE)
    BY <2>1 DEF Multiple
  <2> QED
    BY <1>1, <2>2, SizeMultiple
<1>5. x + s <= MAX_BLOCK_SIZE
  <2> SUFFICES ASSUME MAX_BLOCK_SIZE < x + s PROVE FALSE
    BY <1>1, <1>2
  <2>1. x = MAX_BLOCK_SIZE
    BY <1>1, <1>2, <1>4, MultipleUnique
  <2> QED
    BY <1>1, <1>2, <2>1
<1>6. BlockAt(x, s) \in AlignedBlocks /\ BlockAt(x, s).address = x /\ BlockAt(x, s).size = s
  BY <1>2, <1>5, AlignedAt
<1> QED
  BY <1>2, <1>3, <1>6 DEF InBlock

\* A block is the one around its address.
LEMMA AroundItself ==
  ASSUME NEW b \in AlignedBlocks
  PROVE  /\ b.address \in 0..MAX_BLOCK_SIZE - 1
         /\ Around(b.address, b.size) = b
<1>1. /\ b.address \in Nat /\ b.size \in Nat \ {0} /\ b.size \in Sizes
      /\ Multiple(b.address, b.size) /\ b.address + b.size <= MAX_BLOCK_SIZE
      /\ b = BlockAt(b.address, b.size)
  BY AlignedFacts
<1>2. b.address \in 0..MAX_BLOCK_SIZE - 1
  BY <1>1, SizeFacts
<1>3. PICK x \in Nat : /\ x = (b.address \div b.size) * b.size /\ Multiple(x, b.size)
                       /\ x <= b.address /\ b.address < x + b.size
  BY <1>1, AroundFacts
<1>4. x = b.address
  BY <1>1, <1>3, MultipleUnique
<1> QED
  BY <1>1, <1>2, <1>3, <1>4 DEF Around

\* A block is the one of its size around any of its units.
LEMMA AroundInside ==
  ASSUME NEW b \in AlignedBlocks, NEW u \in Int, InBlock(u, b)
  PROVE  u \in 0..MAX_BLOCK_SIZE - 1 /\ Around(u, b.size) = b
<1>1. /\ b.address \in Nat /\ b.size \in Nat \ {0} /\ b.size \in Sizes
      /\ b.address + b.size <= MAX_BLOCK_SIZE
  BY AlignedFacts
<1>2. u \in 0..MAX_BLOCK_SIZE - 1
  BY <1>1, SizeFacts DEF InBlock
<1> DEFINE d == Around(u, b.size)
<1>3. d \in AlignedBlocks /\ d.size = b.size /\ InBlock(u, d)
  BY <1>1, <1>2, AroundAligned
<1> HIDE DEF d
<1>4. d.address <= b.address /\ b.address <= d.address
  BY <1>1, <1>3, AlignedNest
<1>5. d.address = b.address
  BY <1>1, <1>3, <1>4, AlignedFacts
<1>6. d = b
  BY <1>3, <1>5, AlignedFacts
<1> QED
  BY <1>2, <1>6 DEF d

LEMMA BuddyAligned ==
  ASSUME NEW a \in 0..MAX_BLOCK_SIZE - 1, NEW s \in Sizes, 2 * s <= MAX_BLOCK_SIZE
  PROVE  /\ BuddyOf(a, s) \in AlignedBlocks /\ BuddyOf(a, s).size = s
         /\ BlocksApart(Around(a, s), BuddyOf(a, s))
         /\ \A u \in Int : InBlock(u, Around(a, 2 * s)) <=>
                           InBlock(u, Around(a, s)) \/ InBlock(u, BuddyOf(a, s))
<1>1. a \in Nat /\ s \in Nat \ {0} /\ 2 * s \in Sizes /\ 2 * s \in Nat \ {0}
  BY SizeFacts, SizeDouble
<1>2. /\ Around(a, 2 * s) \in AlignedBlocks /\ Around(a, 2 * s).size = 2 * s
      /\ Around(a, s) \in AlignedBlocks /\ Around(a, s).size = s
  BY <1>1, AroundAligned
<1>3. PICK p \in Nat : /\ p = Around(a, 2 * s).address /\ Multiple(p, 2 * s)
                       /\ p + 2 * s <= MAX_BLOCK_SIZE
  BY <1>2, AlignedFacts
<1>4. Multiple(p, s) /\ Multiple(p + s, s)
  <2>1. Multiple(p, s)
    BY <1>1, <1>3, SizeMultiple
  <2> QED
    BY <1>1, <2>1, MultipleNext
<1>5. PICK x \in Nat, y \in Nat : /\ x = Around(a, s).address /\ y = BuddyOf(a, s).address
                                  /\ (x = p /\ y = p + s) \/ (x = p + s /\ y = p)
  BY <1>1, <1>3, BuddiesAreHalves
<1>6. BuddyOf(a, s) = BlockAt(y, s) /\ BuddyOf(a, s).size = s
  BY <1>5 DEF BuddyOf, BlockAt
<1>7. Multiple(y, s) /\ y + s <= MAX_BLOCK_SIZE
  <2>1. Multiple(y, s)
    BY <1>4, <1>5
  <2>2. y + s <= MAX_BLOCK_SIZE
    BY <1>1, <1>3, <1>5, SizeFacts
  <2> QED
    BY <2>1, <2>2
<1>8. BuddyOf(a, s) \in AlignedBlocks
  BY <1>6, <1>7, AlignedAt
<1>9. BlocksApart(Around(a, s), BuddyOf(a, s))
  BY <1>1, <1>2, <1>5, <1>6 DEF BlocksApart
<1>10. ASSUME NEW u \in Int
       PROVE  InBlock(u, Around(a, 2 * s)) <=>
                InBlock(u, Around(a, s)) \/ InBlock(u, BuddyOf(a, s))
  BY <1>1, <1>2, <1>3, <1>5, <1>6 DEF InBlock
<1> QED
  BY <1>6, <1>8, <1>9, <1>10

\* The buddy of its buddy is the block itself.
LEMMA BuddyBack ==
  ASSUME NEW b \in AlignedBlocks, 2 * b.size <= MAX_BLOCK_SIZE,
         NEW d, d = BuddyOf(b.address, b.size)
  PROVE  d \in AlignedBlocks /\ d.size = b.size /\ b = BuddyOf(d.address, d.size) /\ b # d
<1>1. PICK a \in Nat, s \in Nat \ {0} : a = b.address /\ s = b.size /\ s \in Sizes
  BY AlignedFacts
<1>2. a \in 0..MAX_BLOCK_SIZE - 1 /\ Around(a, s) = b
  BY <1>1, AroundItself
<1>3. /\ d \in AlignedBlocks /\ d.size = s /\ BlocksApart(b, d)
      /\ \A u \in Int : InBlock(u, Around(a, 2 * s)) <=> InBlock(u, b) \/ InBlock(u, d)
  BY <1>1, <1>2, BuddyAligned
<1>4. PICK e \in Nat : /\ e = d.address /\ InBlock(e, d)
                       /\ e \in 0..MAX_BLOCK_SIZE - 1 /\ Around(e, s) = d
  BY <1>3, AlignedFacts, AroundItself
<1>5. 2 * s \in Sizes
  BY <1>1, SizeDouble
<1>6. Around(a, 2 * s) \in AlignedBlocks /\ Around(a, 2 * s).size = 2 * s
  BY <1>2, <1>5, AroundAligned
<1>7. InBlock(e, Around(a, 2 * s))
  BY <1>3, <1>4
<1>8. Around(e, 2 * s) = Around(a, 2 * s)
  BY <1>6, <1>7, <1>4, AroundInside
<1>9. PICK p : p = Around(a, 2 * s).address /\ p \in Nat
  BY <1>6, AlignedFacts
<1>10. (a = p /\ e = p + s) \/ (a = p + s /\ e = p)
  <2>1. Around(a, s).address = a /\ BuddyOf(a, s).address = e
    BY <1>1, <1>2, <1>4
  <2> QED
    BY <1>1, <1>9, <2>1, BuddiesAreHalves
<1>11. PICK f : f = BuddyOf(e, s)
  OBVIOUS
<1>12. (e = p /\ f.address = p + s) \/ (e = p + s /\ f.address = p)
  <2>1. Around(e, s).address = e
    BY <1>4
  <2> QED
    BY <1>4, <1>8, <1>9, <1>11, <2>1, BuddiesAreHalves
<1>13. f.address = a
  BY <1>1, <1>9, <1>10, <1>12
<1>14. f = BlockAt(a, s)
  BY <1>11, <1>13 DEF BuddyOf, BlockAt
<1>15. b # d
  BY <1>1, <1>3 DEF BlocksApart
<1> QED
  BY <1>1, <1>3, <1>4, <1>11, <1>14, <1>15, AlignedFacts

LEMMA AroundGrows ==
  ASSUME NEW a \in 0..MAX_BLOCK_SIZE - 1, NEW s \in Sizes, NEW t \in Sizes, s <= t,
         NEW u \in Int, InBlock(u, Around(a, s))
  PROVE  InBlock(u, Around(a, t))
<1>1. /\ Around(a, s) \in AlignedBlocks /\ Around(a, s).size = s /\ InBlock(a, Around(a, s))
      /\ Around(a, t) \in AlignedBlocks /\ Around(a, t).size = t /\ InBlock(a, Around(a, t))
  BY AroundAligned
<1>2. /\ Around(a, t).address <= Around(a, s).address
      /\ Around(a, s).address + Around(a, s).size <= Around(a, t).address + Around(a, t).size
  BY <1>1, AlignedNest
<1>3. /\ Around(a, s).address \in Nat /\ Around(a, t).address \in Nat
      /\ Around(a, s).size \in Nat /\ Around(a, t).size \in Nat
  BY <1>1, AlignedFacts
<1> QED
  BY <1>2, <1>3 DEF InBlock

\* The sizes from z up to t.
Steps(z, t) == {s \in Sizes : z <= s /\ s < t}

\* The blocks that are merged into the block of size t around a.
Chain(a, z, t) ==
  {Around(a, s) : s \in Steps(z, t)} \union {BuddyOf(a, s) : s \in Steps(z, t)}

LEMMA StepDoubles ==
  ASSUME NEW z \in Sizes, NEW t \in Sizes, NEW s \in Steps(z, t)
  PROVE  s \in Sizes /\ z <= s /\ s <= t /\ 2 * s <= t /\ 2 * s <= MAX_BLOCK_SIZE /\ 2 * s \in Sizes
<1>1. s \in Sizes /\ z <= s /\ s < t
  BY DEF Steps
<1>2. 2 * s <= t
  BY <1>1, SizeHalf
<1>3. s \in Nat /\ t \in Nat /\ t <= MAX_BLOCK_SIZE /\ MAX_BLOCK_SIZE \in Nat
  BY <1>1, SizeFacts
<1>4. 2 * s <= MAX_BLOCK_SIZE
  BY <1>2, <1>3
<1> QED
  BY <1>1, <1>2, <1>3, <1>4, SizeDouble

\* They all lie in that block,
LEMMA ChainInLast ==
  ASSUME NEW a \in 0..MAX_BLOCK_SIZE - 1, NEW z \in Sizes, NEW t \in Sizes,
         NEW b \in Chain(a, z, t), NEW u \in Int, InBlock(u, b)
  PROVE  InBlock(u, Around(a, t))
<1>1. PICK s \in Steps(z, t) : b = Around(a, s) \/ b = BuddyOf(a, s)
  BY DEF Chain
<1>2. s \in Sizes /\ s <= t /\ 2 * s \in Sizes /\ 2 * s <= t /\ 2 * s <= MAX_BLOCK_SIZE
  BY StepDoubles
<1>3. CASE b = Around(a, s)
  BY <1>2, <1>3, AroundGrows
<1>4. CASE b = BuddyOf(a, s)
  <2>1. InBlock(u, Around(a, 2 * s))
    BY <1>2, <1>4, BuddyAligned
  <2> QED
    BY <1>2, <2>1, AroundGrows
<1> QED
  BY <1>1, <1>3, <1>4

\* and it has no unit that is not in the first block or one of the buddies.
LEMMA LastInChain ==
  ASSUME NEW a \in 0..MAX_BLOCK_SIZE - 1, NEW z \in Sizes, NEW t \in Sizes, z <= t,
         NEW u \in Int, InBlock(u, Around(a, t)), ~InBlock(u, Around(a, z))
  PROVE  \E s \in Steps(z, t) : InBlock(u, BuddyOf(a, s))
<1> DEFINE T == {s \in Sizes : z <= s /\ InBlock(u, Around(a, s))}
<1>1. t \in T /\ T \in SUBSET Nat
  BY SizeFacts
<1>2. PICK m \in T : \A s \in T : m <= s
  <2> HIDE DEF T
  <2> QED
    BY <1>1, LeastExists
<1>3. m \in Sizes /\ z <= m /\ m <= t /\ m # z /\ InBlock(u, Around(a, m))
  BY <1>1, <1>2
<1>4. z \in Nat /\ m \in Nat /\ t \in Nat
  BY <1>3, SizeFacts
<1>5. PICK h \in Sizes : m = 2 * h /\ z <= h
  BY <1>3, <1>4, SizeHalf
<1>6. h \in Nat \ {0} /\ h < m /\ 2 * h <= MAX_BLOCK_SIZE
  BY <1>3, <1>5, SizeFacts
<1>7. h \notin T
  BY <1>2, <1>4, <1>6
<1>8. ~InBlock(u, Around(a, h))
  BY <1>5, <1>7
<1>9. InBlock(u, BuddyOf(a, h))
  BY <1>3, <1>5, <1>6, <1>8, BuddyAligned
<1> QED
  BY <1>3, <1>4, <1>5, <1>6, <1>9 DEF Steps

-----------------------------------------------------------------------------
(* BuddySystem: the blocks tile the memory.                                *)

BlocksTile(S) ==
  /\ S \subseteq AlignedBlocks
  /\ \A b, c \in S : b # c => BlocksApart(b, c)
  /\ \A u \in 0..MAX_BLOCK_SIZE - 1 : \E b \in S : InBlock(u, b)

\* Of two blocks with a common unit there is only one.
LEMMA TileMeets ==
  ASSUME NEW S, BlocksTile(S), NEW b \in S, NEW c \in S,
         NEW u \in Int, InBlock(u, b), InBlock(u, c)
  PROVE  b = c
<1>1. b \in AlignedBlocks /\ c \in AlignedBlocks /\ (b # c => BlocksApart(b, c))
  BY DEF BlocksTile
<1> QED
  BY <1>1, ApartNotMeet

\* The blocks of G are replaced by those of N.
LEMMA TileReplaced ==
  ASSUME NEW S, BlocksTile(S), NEW G, NEW N \in SUBSET AlignedBlocks,
         \A b, c \in N : b # c => BlocksApart(b, c),
         \A b \in S \ G, c \in N : BlocksApart(b, c),
         \A u \in 0..MAX_BLOCK_SIZE - 1, b \in S \intersect G :
           InBlock(u, b) => \E c \in N : InBlock(u, c)
  PROVE  BlocksTile((S \ G) \union N)
<1>1. (S \ G) \union N \subseteq AlignedBlocks
  BY DEF BlocksTile
<1>2. ASSUME NEW b \in (S \ G) \union N, NEW c \in (S \ G) \union N, b # c
      PROVE  BlocksApart(b, c)
  <2>1. CASE b \in S \ G /\ c \in S \ G
    BY <1>2, <2>1 DEF BlocksTile
  <2>2. CASE b \in N /\ c \in S \ G
    <3>1. BlocksApart(c, b)
      BY <2>2
    <3> QED
      BY <3>1 DEF BlocksApart
  <2> QED
    BY <1>2, <2>1, <2>2
<1>3. ASSUME NEW u \in 0..MAX_BLOCK_SIZE - 1
      PROVE  \E b \in (S \ G) \union N : InBlock(u, b)
  <2>1. PICK b \in S : InBlock(u, b)
    BY DEF BlocksTile
  <2> QED
    BY <2>1
<1> QED
  BY <1>1, <1>2, <1>3 DEF BlocksTile

\* Merging: a block of S is freed, and its buddies up to t are in S.
LEMMA TileMerged ==
  ASSUME NEW S, BlocksTile(S), NEW block \in S, NEW t \in Sizes, block.size <= t,
         \A s \in Steps(block.size, t) : BuddyOf(block.address, s) \in S
  PROVE  LET last == Around(block.address, t)
             gone == Chain(block.address, block.size, t)
         IN /\ last \in AlignedBlocks /\ last.size = t
            /\ BlocksTile((S \ gone) \union {last})
            /\ \A b \in gone \intersect S :
                 b = block \/ \E s \in Steps(block.size, t) : b = BuddyOf(block.address, s)
            /\ last \notin gone
            /\ \A b \in S : b = last => block = last
<1> DEFINE a == block.address
           z == block.size
           last == Around(a, t)
           gone == Chain(a, z, t)
<1>1. /\ block \in AlignedBlocks /\ z \in Sizes /\ z \in Nat \ {0} /\ InBlock(a, block)
      /\ a \in 0..MAX_BLOCK_SIZE - 1 /\ Around(a, z) = block /\ a \in Nat /\ t \in Nat
  BY AlignedFacts, AroundItself, SizeFacts DEF BlocksTile
<1>2. last \in AlignedBlocks /\ last.size = t /\ InBlock(a, last)
  BY <1>1, AroundAligned
<1> HIDE DEF last, gone
<1>3. \A b \in S : InBlock(a, b) => b = block
  BY <1>1, TileMeets
<1>4. ASSUME NEW b \in gone \intersect S
      PROVE  b = block \/ \E s \in Steps(z, t) : b = BuddyOf(a, s)
  <2>1. PICK s \in Steps(z, t) : b = Around(a, s) \/ b = BuddyOf(a, s)
    BY DEF gone, Chain
  <2>2. CASE b = Around(a, s)
    <3>1. InBlock(a, b)
      BY <1>1, <2>1, <2>2, AroundAligned, StepDoubles
    <3> QED
      BY <1>3, <3>1
  <2> QED
    BY <2>1, <2>2
<1>5. z # t => block \in gone
  <2> SUFFICES ASSUME z # t PROVE block \in gone
    OBVIOUS
  <2>1. z \in Steps(z, t)
    BY <1>1 DEF Steps
  <2> QED
    BY <1>1, <2>1 DEF gone, Chain
<1>6. ASSUME NEW b \in S, NEW u \in Nat, InBlock(u, b), InBlock(u, last)
      PROVE  b \in gone \/ b = last
  <2>0. b \in AlignedBlocks /\ b.size \in Nat
    BY AlignedFacts DEF BlocksTile
  <2>1. CASE InBlock(u, block)
    <3>1. b = block
      BY <1>6, <2>1, TileMeets
    <3>2. z = t => block = last
      BY <1>1 DEF last
    <3> QED
      BY <1>5, <3>1, <3>2
  <2>2. CASE ~InBlock(u, block)
    <3>1. PICK s \in Steps(z, t) : InBlock(u, BuddyOf(a, s))
      BY <1>1, <1>6, <2>2, LastInChain DEF last
    <3>2. b = BuddyOf(a, s)
      BY <1>6, <3>1, TileMeets
    <3> QED
      BY <3>1, <3>2 DEF gone, Chain
  <2> QED
    BY <2>1, <2>2
<1>7. ASSUME NEW b \in S, b = last
      PROVE  block = last
  BY <1>2, <1>3, <1>7
<1>8. last \notin gone
  <2> SUFFICES ASSUME last \in gone PROVE FALSE
    OBVIOUS
  <2>1. PICK s \in Steps(z, t) : last = Around(a, s) \/ last = BuddyOf(a, s)
    BY DEF gone, Chain
  <2>2. s \in Sizes /\ s < t /\ 2 * s <= MAX_BLOCK_SIZE
    BY <1>1, StepDoubles DEF Steps
  <2>3. Around(a, s).size = s /\ BuddyOf(a, s).size = s /\ s \in Nat
    BY <1>1, <2>2, AroundAligned, BuddyAligned, SizeFacts
  <2> QED
    BY <1>1, <1>2, <2>1, <2>2, <2>3
<1>9. \A b \in S \ (gone \union {last}) : BlocksApart(b, last)
  BY <1>2, <1>6, ApartOrMeet DEF BlocksTile
<1>10. \A u \in 0..MAX_BLOCK_SIZE - 1, b \in S \intersect (gone \union {last}) :
         InBlock(u, b) => InBlock(u, last)
  <2> SUFFICES ASSUME NEW u \in 0..MAX_BLOCK_SIZE - 1, NEW b \in gone, InBlock(u, b)
               PROVE  InBlock(u, last)
    OBVIOUS
  <2>1. u \in Int
    BY SizeFacts
  <2> QED
    BY <1>1, <2>1, ChainInLast DEF gone, last
<1>11. BlocksTile((S \ (gone \union {last})) \union {last})
  <2>1. {last} \in SUBSET AlignedBlocks
    BY <1>2
  <2> QED
    BY <1>9, <1>10, <2>1, TileReplaced
<1>12. (S \ (gone \union {last})) \union {last} = (S \ gone) \union {last}
  BY <1>8
<1> QED
  BY <1>2, <1>4, <1>7, <1>8, <1>11, <1>12 DEF gone, last

\* Splitting: what a block of size t at a is split into, for a request of z.
UpperHalves(a, z, t) == {BlockAt(a + s, s) : s \in Steps(z, t)}

LEMMA TileSplit ==
  ASSUME NEW S, BlocksTile(S), NEW block \in S, NEW z \in Sizes, z < block.size
  PROVE  LET new == UpperHalves(block.address, z, block.size) \union {BlockAt(block.address, z)}
         IN /\ new \subseteq AlignedBlocks
            /\ BlocksTile((S \ {block}) \union new)
            /\ new \intersect S = {}
            /\ BlockAt(block.address, z) \notin UpperHalves(block.address, z, block.size)
<1> DEFINE a == block.address
           t == block.size
           low == BlockAt(a, z)
           halves == UpperHalves(a, z, t)
           new == halves \union {low}
<1>1. /\ block \in AlignedBlocks /\ t \in Sizes /\ t \in Nat \ {0} /\ a \in Nat /\ z \in Nat \ {0}
      /\ Multiple(a, t) /\ a + t <= MAX_BLOCK_SIZE /\ MAX_BLOCK_SIZE \in Nat
  BY AlignedFacts, SizeFacts DEF BlocksTile
<1>2. low \in AlignedBlocks /\ low.address = a /\ low.size = z
  <2>1. Multiple(a, z) /\ a + z <= MAX_BLOCK_SIZE
    BY <1>1, SizeMultiple
  <2> QED
    BY <1>1, <2>1, AlignedAt
<1>3. ASSUME NEW s \in Steps(z, t)
      PROVE  /\ BlockAt(a + s, s) \in AlignedBlocks
             /\ BlockAt(a + s, s).address = a + s /\ BlockAt(a + s, s).size = s
             /\ s \in Nat \ {0} /\ z <= s /\ 2 * s <= t
  <2>1. s \in Sizes /\ z <= s /\ s <= t /\ 2 * s <= t /\ s \in Nat \ {0}
    BY <1>1, StepDoubles, SizeFacts
  <2>2. Multiple(a, s)
    BY <1>1, <2>1, SizeMultiple
  <2>3. Multiple(a + s, s)
    BY <1>1, <2>1, <2>2, MultipleNext
  <2>4. a + s + s <= MAX_BLOCK_SIZE /\ a + s \in Nat
    BY <1>1, <2>1
  <2> QED
    BY <2>1, <2>3, <2>4, AlignedAt
<1>4. \A b \in halves : \E s \in Steps(z, t) : b = BlockAt(a + s, s)
  BY DEF UpperHalves
<1> HIDE DEF low, halves
<1>5. new \subseteq AlignedBlocks
  BY <1>2, <1>3, <1>4
<1>6. ASSUME NEW b \in new
      PROVE  a <= b.address /\ b.address + b.size <= a + t /\ b.size < t
  <2>1. CASE b = low
    BY <1>1, <1>2, <2>1
  <2>2. CASE b \in halves
    BY <1>1, <1>3, <1>4, <2>2
  <2> QED
    BY <2>1, <2>2
<1>7. ASSUME NEW b \in halves
      PROVE  BlocksApart(low, b)
  <2>1. PICK s \in Steps(z, t) : b = BlockAt(a + s, s)
    BY <1>4
  <2> QED
    BY <1>1, <1>2, <1>3, <2>1 DEF BlocksApart
<1>8. ASSUME NEW b \in halves, NEW c \in halves, b # c
      PROVE  BlocksApart(b, c)
  <2>1. PICK s \in Steps(z, t), r \in Steps(z, t) : b = BlockAt(a + s, s) /\ c = BlockAt(a + r, r)
    BY <1>4
  <2>2. s # r /\ s \in Sizes /\ r \in Sizes /\ s \in Nat /\ r \in Nat
    BY <1>3, <1>8, <2>1 DEF Steps
  <2>3. 2 * s <= r \/ 2 * r <= s
    BY <2>2, SizeHalf
  <2>4. b.address = a + s /\ b.size = s /\ c.address = a + r /\ c.size = r
    BY <1>3, <2>1
  <2> QED
    BY <1>1, <2>2, <2>3, <2>4 DEF BlocksApart
<1>9. \A b, c \in new : b # c => BlocksApart(b, c)
  <2>1. \A b, c : BlocksApart(b, c) => BlocksApart(c, b)
    BY DEF BlocksApart
  <2> QED
    BY <1>7, <1>8, <2>1
<1>10. ASSUME NEW b \in S \ {block}, NEW c \in new
       PROVE  BlocksApart(b, c)
  <2>1. BlocksApart(b, block)
    BY DEF BlocksTile
  <2>2. /\ b.address \in Nat /\ b.size \in Nat
        /\ c.address \in Nat /\ c.size \in Nat
    BY <1>5, AlignedFacts DEF BlocksTile
  <2> QED
    BY <1>1, <1>6, <2>1, <2>2 DEF BlocksApart
<1>11. ASSUME NEW u \in 0..MAX_BLOCK_SIZE - 1, InBlock(u, block)
       PROVE  \E c \in new : InBlock(u, c)
  <2> DEFINE T == {s \in Sizes : z <= s /\ u < a + s}
  <2>1. t \in T /\ T \in SUBSET Nat
    <3>1. z <= t /\ u < a + t
      BY <1>1, <1>11 DEF InBlock
    <3>2. \A s \in Sizes : s \in Nat
      BY SizeFacts
    <3> QED
      BY <1>1, <3>1, <3>2
  <2>2. PICK m \in T : \A s \in T : m <= s
    <3> HIDE DEF T
    <3> QED
      BY <2>1, LeastExists
  <2>3. m \in Sizes /\ m \in Nat /\ z <= m /\ u < a + m /\ m <= t /\ u \in Nat /\ a <= u
    BY <1>1, <1>11, <2>1, <2>2 DEF InBlock
  <2>4. CASE m = z
    <3>1. InBlock(u, low)
      BY <1>2, <2>3, <2>4 DEF InBlock
    <3> QED
      BY <3>1
  <2>5. CASE m # z
    <3>1. PICK h \in Sizes : m = 2 * h /\ z <= h
      BY <1>1, <2>3, <2>5, SizeHalf
    <3>2. h \in Nat \ {0} /\ h < m
      BY <2>3, <3>1, SizeFacts
    <3>3. h \notin T
      BY <2>2, <2>3, <3>2
    <3>4. a + h <= u
      BY <1>1, <2>3, <3>1, <3>2, <3>3
    <3>5. h \in Steps(z, t)
      BY <1>1, <2>3, <3>1, <3>2 DEF Steps
    <3>6. InBlock(u, BlockAt(a + h, h))
      BY <1>1, <1>3, <2>3, <3>1, <3>2, <3>4, <3>5 DEF InBlock
    <3> QED
      BY <3>5, <3>6 DEF halves, UpperHalves
  <2> QED
    BY <2>4, <2>5
<1>12. BlocksTile((S \ {block}) \union new)
  <2>1. \A b \in S \intersect {block} : b = block
    OBVIOUS
  <2> HIDE DEF new
  <2>2. new \in SUBSET AlignedBlocks
    BY <1>5
  <2>3. \A u \in 0..MAX_BLOCK_SIZE - 1, b \in S \intersect {block} :
          InBlock(u, b) => \E c \in new : InBlock(u, c)
    BY <1>11, <2>1
  <2> QED
    BY <1>9, <1>10, <2>2, <2>3, TileReplaced
<1>13. new \intersect S = {}
  <2> SUFFICES ASSUME NEW b \in new, b \in S PROVE FALSE
    OBVIOUS
  <2>1. b \in AlignedBlocks /\ InBlock(b.address, b) /\ b.address \in Nat /\ b.size \in Nat \ {0}
    BY <1>5, AlignedFacts
  <2>2. InBlock(b.address, block)
    BY <1>1, <1>6, <2>1 DEF InBlock
  <2>3. b = block
    BY <2>1, <2>2, TileMeets
  <2> QED
    BY <1>1, <1>6, <2>3
<1>14. low \notin halves
  <2> SUFFICES ASSUME low \in halves PROVE FALSE
    OBVIOUS
  <2>1. BlocksApart(low, low)
    BY <1>7
  <2> QED
    BY <1>1, <1>2, <2>1 DEF BlocksApart
<1> QED
  BY <1>5, <1>12, <1>13, <1>14 DEF low, halves

-----------------------------------------------------------------------------
(* BuddySystem: what removing leaves of a list.                            *)

\* left has the first n elements of the list that are not in gone, none of them
\* more often than the list.
Leaves(left, list, n, gone, D) ==
  /\ left \in Seq(D)
  /\ \A i \in 1..Len(left) : left[i] \notin gone /\ \E k \in 1..n : list[k] = left[i]
  /\ \A k \in 1..n : list[k] \notin gone => \E i \in 1..Len(left) : left[i] = list[k]
  /\ \A i, j \in 1..Len(left) : i # j /\ left[i] = left[j] =>
       \E k, l \in 1..n : k # l /\ list[k] = left[i] /\ list[l] = left[i]

LEMMA LeavesNext ==
  ASSUME NEW D, NEW gone, NEW list \in Seq(D), NEW n \in 0..Len(list) - 1,
         NEW left, Leaves(left, list, n, gone, D)
  PROVE  Leaves(IF list[n + 1] \in gone THEN left ELSE Append(left, list[n + 1]),
                list, n + 1, gone, D)
<1> DEFINE b == list[n + 1]
<1>1. n \in Nat /\ n + 1 \in 1..Len(list) /\ b \in D /\ Len(list) \in Nat
  OBVIOUS
<1>2. /\ left \in Seq(D) /\ Len(left) \in Nat
      /\ \A i \in 1..Len(left) : left[i] \notin gone /\ \E k \in 1..n : list[k] = left[i]
      /\ \A k \in 1..n : list[k] \notin gone => \E i \in 1..Len(left) : left[i] = list[k]
      /\ \A i, j \in 1..Len(left) : i # j /\ left[i] = left[j] =>
           \E k, l \in 1..n : k # l /\ list[k] = left[i] /\ list[l] = left[i]
  <2>1. left \in Seq(D)
    BY Zenon DEF Leaves
  <2>2. Len(left) \in Nat
    BY <2>1
  <2> QED
    BY <2>1, <2>2, Zenon DEF Leaves
<1>3. \A k \in 1..n + 1 : k \in 1..n \/ k = n + 1
  BY <1>1
<1>4. (\A k \in 1..n : k \in 1..n + 1 /\ k # n + 1) /\ n + 1 \in 1..n + 1
  BY <1>1
<1>5. CASE b \in gone
  <2>1. Leaves(left, list, n + 1, gone, D)
    BY <1>2, <1>3, <1>4, <1>5 DEF Leaves
  <2> QED
    BY <1>5, <2>1
<1>6. CASE b \notin gone
  <2> DEFINE more == Append(left, b)
             L == Len(left)
  <2>1. /\ more \in Seq(D) /\ Len(more) = L + 1 /\ more[L + 1] = b
        /\ \A i \in 1..L : more[i] = left[i]
    BY <1>1, <1>2, AppendProperties
  <2>2. \A i \in 1..L + 1 : i \in 1..L \/ i = L + 1
    BY <1>2
  <2>3. (\A i \in 1..L : i \in 1..L + 1) /\ L + 1 \in 1..L + 1
    BY <1>2
  <2> HIDE DEF more, L, b
  <2>4. ASSUME NEW i \in 1..L + 1
        PROVE  more[i] \notin gone /\ \E k \in 1..n + 1 : list[k] = more[i]
    <3>1. CASE i \in 1..L
      BY <3>1, <1>2, <1>4, <2>1 DEF L
    <3>2. CASE i = L + 1
      BY <3>2, <1>4, <1>6, <2>1 DEF b
    <3> QED
      BY <2>2, <3>1, <3>2
  <2>5. ASSUME NEW k \in 1..n + 1, list[k] \notin gone
        PROVE  \E i \in 1..L + 1 : more[i] = list[k]
    <3>1. CASE k \in 1..n
      <4>1. PICK i \in 1..L : left[i] = list[k]
        BY <2>5, <3>1, <1>2 DEF L
      <4> QED
        BY <4>1, <2>1, <2>3
    <3>2. CASE k = n + 1
      BY <3>2, <2>1, <2>3 DEF b
    <3> QED
      BY <1>3, <3>1, <3>2
  <2>6. ASSUME NEW i \in 1..L + 1, NEW j \in 1..L + 1, i # j, more[i] = more[j]
        PROVE  \E k, l \in 1..n + 1 : k # l /\ list[k] = more[i] /\ list[l] = more[i]
    <3>1. CASE i \in 1..L /\ j \in 1..L
      <4>1. left[i] = left[j] /\ more[i] = left[i]
        BY <2>1, <2>6, <3>1
      <4>2. PICK k \in 1..n, l \in 1..n : k # l /\ list[k] = left[i] /\ list[l] = left[i]
        BY <1>2, <2>6, <3>1, <4>1 DEF L
      <4> QED
        BY <1>4, <4>1, <4>2
    <3>2. CASE i \in 1..L /\ j = L + 1
      <4>1. PICK k \in 1..n : list[k] = left[i]
        BY <1>2, <3>2 DEF L
      <4>2. more[i] = left[i] /\ more[i] = b
        BY <2>1, <2>6, <3>2
      <4> QED
        BY <1>4, <4>1, <4>2 DEF b
    <3>3. CASE j \in 1..L /\ i = L + 1
      <4>1. PICK k \in 1..n : list[k] = left[j]
        BY <1>2, <3>3 DEF L
      <4>2. more[j] = left[j] /\ more[i] = b
        BY <2>1, <3>3
      <4> QED
        BY <1>4, <2>6, <4>1, <4>2 DEF b
    <3> QED
      BY <2>2, <2>6, <3>1, <3>2, <3>3
  <2>7. Leaves(more, list, n + 1, gone, D)
    BY <2>1, <2>4, <2>5, <2>6 DEF Leaves
  <2> QED
    BY <1>6, <2>7 DEF more, b
<1> QED
  BY <1>5, <1>6

LEMMA RemovedLeaves ==
  ASSUME NEW D, NEW gone, NEW list \in Seq(D)
  PROVE  Leaves(Removed(list, gone), list, Len(list), gone, D)
<1> DEFINE N == Len(list)
           Lists == Seq(D)
           Next1(n, left) == IF list[n + 1] \in gone THEN left ELSE Append(left, list[n + 1])
           F == [n \in 0..N - 1 |-> [left \in Lists |-> Next1(n, left)]]
           Left[n \in 0..N] ==
             IF n = 0 THEN <<>>
             ELSE IF list[n] \in gone THEN Left[n - 1]
             ELSE Append(Left[n - 1], list[n])
<1>0. N \in Nat /\ <<>> \in Lists
  OBVIOUS
<1>1. F \in [0..N - 1 -> [Lists -> Lists]]
  <2>1. ASSUME NEW n \in 0..N - 1, NEW left \in Lists
        PROVE  Next1(n, left) \in Lists
    <3>1. n + 1 \in 1..N /\ list[n + 1] \in D
      BY <1>0
    <3> QED
      BY <3>1, AppendProperties
  <2> HIDE DEF Lists, Next1
  <2> QED
    BY <2>1
<1>2. PICK f \in [0..N -> Lists] : Iterates(f, N, <<>>, F)
  <2> HIDE DEF F, Lists, N, Left
  <2> QED
    BY <1>0, <1>1, IterationExists
<1>3. ASSUME NEW n \in 1..N
      PROVE  f[n] = IF list[n] \in gone THEN f[n - 1] ELSE Append(f[n - 1], list[n])
  <2> HIDE DEF Lists, N, Left
  <2>1. n - 1 \in 0..N - 1 /\ n - 1 \in 0..N /\ f[n - 1] \in Lists /\ (n - 1) + 1 = n
    BY <1>0
  <2>2. F[n - 1][f[n - 1]] = Next1(n - 1, f[n - 1])
    <3> HIDE DEF Next1
    <3> QED
      BY <2>1
  <2>3. f[n] = F[n - 1][f[n - 1]]
    <3> HIDE DEF F
    <3> QED
      BY <1>2 DEF Iterates
  <2> QED
    BY <2>1, <2>2, <2>3
<1>4. f = [n \in 0..N |->
             IF n = 0 THEN <<>>
             ELSE IF list[n] \in gone THEN f[n - 1]
             ELSE Append(f[n - 1], list[n])]
  <2> HIDE DEF Lists, N, Left, F
  <2>1. f = [n \in 0..N |-> f[n]]
    OBVIOUS
  <2>2. f[0] = <<>>
    BY <1>2 DEF Iterates
  <2>3. \A n \in 0..N : f[n] = IF n = 0 THEN <<>>
                               ELSE IF list[n] \in gone THEN f[n - 1]
                               ELSE Append(f[n - 1], list[n])
    <3>1. \A n \in 0..N : n = 0 \/ n \in 1..N
      BY <1>0
    <3> QED
      BY <1>3, <2>2, <3>1
  <2> QED
    BY <2>1, <2>3
<1>5. Left = [n \in 0..N |->
                IF n = 0 THEN <<>>
                ELSE IF list[n] \in gone THEN Left[n - 1]
                ELSE Append(Left[n - 1], list[n])]
  BY <1>4
<1>6. Removed(list, gone) = Left[N]
  BY DEF Removed
<1> HIDE DEF Left, F, Lists, N
<1>7. /\ Left[0] = <<>>
      /\ \A n \in 1..N : Left[n] = IF list[n] \in gone THEN Left[n - 1]
                                   ELSE Append(Left[n - 1], list[n])
  <2>1. 0 \in 0..N /\ \A n \in 1..N : n \in 0..N /\ n # 0
    BY <1>0
  <2>2. Left[0] = <<>>
    BY <1>5, <2>1, Zenon
  <2>3. ASSUME NEW n \in 1..N
        PROVE  Left[n] = IF list[n] \in gone THEN Left[n - 1]
                         ELSE Append(Left[n - 1], list[n])
    BY <1>5, <2>1, Zenon
  <2> QED
    BY <2>2, <2>3
<1> DEFINE Fine == {n \in 0..N : Leaves(Left[n], list, n, gone, D)}
<1>8. 0 \in Fine
  <2>1. Left[0] \in Seq(D) /\ Len(Left[0]) = 0
    BY <1>7
  <2>2. Leaves(Left[0], list, 0, gone, D)
    BY <2>1 DEF Leaves
  <2> QED
    BY <1>0, <2>2
<1>9. ASSUME NEW n \in 0..N - 1, n \in Fine PROVE n + 1 \in Fine
  <2>1. n + 1 \in 1..N /\ n + 1 \in 0..N /\ (n + 1) - 1 = n
    BY <1>0
  <2>2. Left[n + 1] = IF list[n + 1] \in gone THEN Left[n] ELSE Append(Left[n], list[n + 1])
    BY <1>7, <2>1
  <2>3. Leaves(Left[n + 1], list, n + 1, gone, D)
    BY <1>9, <2>2, LeavesNext DEF N
  <2> QED
    BY <2>1, <2>3
<1>10. N \in Fine
  <2> HIDE DEF Fine
  <2>1. 0..N \subseteq Fine
    BY <1>0, <1>8, <1>9, BoundedInduction
  <2> QED
    BY <1>0, <2>1
<1> QED
  BY <1>6, <1>10 DEF N

-----------------------------------------------------------------------------
(* BuddySystem: which lists have a block, and how often.                   *)

Listed(list, b) == \E i \in 1..Len(list) : list[i] = b
Twice(list, b) == \E i, j \in 1..Len(list) : i # j /\ list[i] = b /\ list[j] = b

LEMMA TwiceListed ==
  ASSUME NEW list, NEW b, Twice(list, b)
  PROVE  Listed(list, b)
  BY DEF Twice, Listed

LEMMA ListedInSet ==
  ASSUME NEW D, NEW list \in Seq(D), NEW b
  PROVE  b \in ToSet(list) <=> Listed(list, b)
<1>1. DOMAIN list = 1..Len(list)
  OBVIOUS
<1> QED
  BY <1>1 DEF ToSet, Listed

LEMMA TailLists ==
  ASSUME NEW D, NEW list \in Seq(D), list # <<>>
  PROVE  /\ Tail(list) \in Seq(D) /\ Head(list) \in D /\ Listed(list, Head(list))
         /\ \A b : Listed(Tail(list), b) => Listed(list, b)
         /\ \A b : Twice(Tail(list), b) => Twice(list, b)
         /\ Listed(Tail(list), Head(list)) => Twice(list, Head(list))
         /\ \A b : Listed(list, b) => b = Head(list) \/ Listed(Tail(list), b)
<1>1. PICK n \in Nat : Len(list) = n + 1
  <2>1. Len(list) - 1 \in Nat /\ Len(list) = (Len(list) - 1) + 1
    OBVIOUS
  <2> QED
    BY <2>1
<1>2. /\ Tail(list) \in Seq(D) /\ Len(Tail(list)) = n /\ Head(list) = list[1]
      /\ \A i \in 1..n : Tail(list)[i] = list[i + 1]
  BY <1>1
<1>3. 1 \in 1..n + 1 /\ \A i \in 1..n : i + 1 \in 1..n + 1 /\ i + 1 # 1
  BY <1>1
<1>4. \A i, j \in 1..n : i # j => i + 1 # j + 1
  BY <1>1
<1>5. \A i \in 1..n + 1 : i = 1 \/ \E j \in 1..n : i = j + 1
  <2>1. ASSUME NEW i \in 1..n + 1, i # 1 PROVE \E j \in 1..n : i = j + 1
    <3>1. i - 1 \in 1..n /\ i = (i - 1) + 1
      BY <2>1
    <3> QED
      BY <3>1
  <2> QED
    BY <2>1
<1>6. Head(list) \in D
  BY <1>1, <1>2, <1>3
<1>7. Listed(list, Head(list))
  BY <1>1, <1>2, <1>3 DEF Listed
<1>8. ASSUME NEW b, Listed(Tail(list), b) PROVE Listed(list, b)
  BY <1>1, <1>2, <1>3, <1>8 DEF Listed
<1>9. ASSUME NEW b, Twice(Tail(list), b) PROVE Twice(list, b)
  BY <1>1, <1>2, <1>3, <1>4, <1>9 DEF Twice
<1>10. ASSUME Listed(Tail(list), Head(list)) PROVE Twice(list, Head(list))
  BY <1>1, <1>2, <1>3, <1>10 DEF Twice, Listed
<1>11. ASSUME NEW b, Listed(list, b), b # Head(list) PROVE Listed(Tail(list), b)
  BY <1>1, <1>2, <1>5, <1>11 DEF Listed
<1> QED
  BY <1>2, <1>6, <1>7, <1>8, <1>9, <1>10, <1>11

\* The list of one block.
LEMMA SingleList ==
  ASSUME NEW D, NEW x \in D
  PROVE  /\ <<x>> \in Seq(D)
         /\ \A b : Listed(<<x>>, b) <=> b = x
         /\ \A b : ~Twice(<<x>>, b)
<1> DEFINE list == <<x>>
<1>1. list \in Seq(D) /\ Len(list) = 1 /\ list[1] = x
  OBVIOUS
<1>2. \A i \in 1..1 : i = 1
  OBVIOUS
<1> HIDE DEF list
<1>3. (\A b : Listed(list, b) <=> b = x) /\ \A b : ~Twice(list, b)
  BY <1>1, <1>2 DEF Listed, Twice
<1> QED
  BY <1>1, <1>3 DEF list

\* The lists after removing, and after a block has been put at the end once or
\* twice.
LEMMA RemovedLists ==
  ASSUME NEW D, NEW gone, NEW list \in Seq(D)
  PROVE  /\ Removed(list, gone) \in Seq(D)
         /\ \A b : Listed(Removed(list, gone), b) <=> Listed(list, b) /\ b \notin gone
         /\ \A b : Twice(Removed(list, gone), b) => Twice(list, b)
<1> DEFINE left == Removed(list, gone)
<1>1. Leaves(left, list, Len(list), gone, D)
  BY RemovedLeaves
<1> HIDE DEF left
<1>2. left \in Seq(D)
  BY <1>1 DEF Leaves
<1>3. ASSUME NEW b PROVE Listed(left, b) <=> Listed(list, b) /\ b \notin gone
  BY <1>1 DEF Leaves, Listed
<1>4. ASSUME NEW b, Twice(left, b) PROVE Twice(list, b)
  BY <1>1, <1>4 DEF Leaves, Twice
<1> QED
  BY <1>2, <1>3, <1>4 DEF left

LEMMA AppendLists ==
  ASSUME NEW D, NEW list \in Seq(D), NEW x \in D
  PROVE  /\ Append(list, x) \in Seq(D)
         /\ \A b : Listed(Append(list, x), b) <=> Listed(list, b) \/ b = x
         /\ \A b : Twice(Append(list, x), b) /\ b # x => Twice(list, b)
         /\ Twice(Append(list, x), x) => Listed(list, x)
<1> DEFINE more == Append(list, x)
<1>1. PICK n \in Nat : Len(list) = n
  OBVIOUS
<1>2. /\ more \in Seq(D) /\ Len(more) = n + 1 /\ more[n + 1] = x
      /\ \A i \in 1..n : more[i] = list[i]
  BY <1>1, AppendProperties
<1>3. \A i \in 1..n + 1 : i \in 1..n \/ i = n + 1
  BY <1>1
<1>4. (\A i \in 1..n : i \in 1..n + 1) /\ n + 1 \in 1..n + 1
  BY <1>1
<1> HIDE DEF more
<1>5. ASSUME NEW b PROVE Listed(more, b) <=> Listed(list, b) \/ b = x
  BY <1>1, <1>2, <1>3, <1>4 DEF Listed
<1>6. ASSUME NEW b, Twice(more, b), b # x PROVE Twice(list, b)
  BY <1>1, <1>2, <1>3, <1>6 DEF Twice
<1>7. ASSUME Twice(more, x) PROVE Listed(list, x)
  BY <1>1, <1>2, <1>3, <1>7 DEF Twice, Listed
<1> QED
  BY <1>2, <1>5, <1>6, <1>7 DEF more

LEMMA AppendTwice ==
  ASSUME NEW D, NEW list \in Seq(D), NEW x \in D
  PROVE  list \o <<x, x>> = Append(Append(list, x), x)
<1>1. PICK n \in Nat : Len(list) = n
  OBVIOUS
<1> QED
  BY <1>1

-----------------------------------------------------------------------------
(* BuddySystem: lists, pointers and blocks.                                *)

InList(b) == Listed(freeLists[b.size], b)
IsHeld(b) == \E c \in Clients : holding[c] = b

BuddyTyped ==
  /\ freeLists \in [Sizes -> Seq(AlignedBlocks)]
  /\ \A s \in Sizes : \A i \in 1..Len(freeLists[s]) : freeLists[s][i].size = s
  /\ holding \in [Clients -> AlignedBlocks \union {NoBlock}]
  /\ wanted \in [Clients -> Nat]

\* One pointer at most leads to the block.
Unshared(b) ==
  /\ ~Twice(freeLists[b.size], b)
  /\ ~(InList(b) /\ IsHeld(b))
  /\ \A c, d \in Clients : holding[c] = b /\ holding[d] = b => c = d

\* Every block is in its list or with a client, and in one place only unless a
\* chain of merges has made it; one of two buddies is always with a client.
BuddyInv ==
  /\ BuddyTyped
  /\ BlocksTile(allBlocks)
  /\ \A b \in allBlocks : InList(b) \/ IsHeld(b)
  /\ \A b \in allBlocks : b \in remade \/ Unshared(b)
  /\ \A b \in used : b \in AlignedBlocks /\ IsHeld(b)
  /\ \A b, d \in allBlocks :
       2 * b.size <= MAX_BLOCK_SIZE /\ d = BuddyOf(b.address, b.size) => IsHeld(b) \/ IsHeld(d)
  /\ \A b \in AlignedBlocks : InList(b) \/ IsHeld(b) => b \in allBlocks \/ b \in remade
  /\ \A c \in Clients : holding[c] = NoBlock \/ holding[c].size >= wanted[c]
                          \/ wanted[c] > MAX_BLOCK_SIZE
  /\ \/ refused = 0
     \/ refused \in Sizes /\ \A s \in Sizes : s >= refused => freeLists[s] = <<>>

LEMMA NoBlockNotAligned == NoBlock \notin AlignedBlocks /\ \A u \in Int : ~InBlock(u, NoBlock)
  BY DEF NoBlock, AlignedBlocks, InBlock

\* As long as nothing dangles, all pointers lead to blocks.
LEMMA PointersLead ==
  ASSUME BuddyTyped, ~Dangling
  PROVE  /\ \A b \in AlignedBlocks : InList(b) \/ IsHeld(b) => b \in allBlocks
         /\ \A c \in Clients : holding[c] \in allBlocks \union {NoBlock}
<1>1. ASSUME NEW b \in AlignedBlocks, InList(b)
      PROVE  b \in allBlocks
  <2>1. b.size \in Sizes /\ freeLists[b.size] \in Seq(AlignedBlocks)
    BY AlignedFacts DEF BuddyTyped
  <2>2. b \in ToSet(freeLists[b.size])
    BY <1>1, <2>1, ListedInSet DEF InList
  <2>3. b \in UNION {ToSet(freeLists[s]) : s \in Sizes}
    BY <2>1, <2>2
  <2> QED
    BY <2>3, NoBlockNotAligned DEF Dangling, Deleted
<1>2. ASSUME NEW c \in Clients
      PROVE  holding[c] \in allBlocks \union {NoBlock}
  BY DEF Dangling, Deleted
<1>3. ASSUME NEW b \in AlignedBlocks, IsHeld(b)
      PROVE  b \in allBlocks
  BY <1>2, <1>3, NoBlockNotAligned DEF IsHeld
<1> QED
  BY <1>1, <1>2, <1>3

LEMMA DeletedRemade == BuddyInv => Deleted \subseteq remade
<1> SUFFICES ASSUME BuddyInv, NEW b \in Deleted PROVE b \in remade
  OBVIOUS
<1>0. /\ BuddyTyped
      /\ \A x \in AlignedBlocks : InList(x) \/ IsHeld(x) => x \in allBlocks \/ x \in remade
  BY DEF BuddyInv
<1>1. b \notin allBlocks /\ b # NoBlock
  BY DEF Deleted
<1>2. CASE \E c \in Clients : b = holding[c]
  <2>1. b \in AlignedBlocks /\ IsHeld(b)
    BY <1>0, <1>1, <1>2 DEF BuddyTyped, IsHeld
  <2> QED
    BY <1>0, <1>1, <2>1
<1>3. CASE \E s \in Sizes : b \in ToSet(freeLists[s])
  <2>1. PICK s \in Sizes : b \in ToSet(freeLists[s])
    BY <1>3
  <2>2. freeLists[s] \in Seq(AlignedBlocks)
    BY <1>0 DEF BuddyTyped
  <2>3. PICK i \in 1..Len(freeLists[s]) : freeLists[s][i] = b
    BY <2>1, <2>2, ListedInSet DEF Listed
  <2>4. b \in AlignedBlocks /\ b.size = s
    BY <1>0, <2>2, <2>3 DEF BuddyTyped
  <2>5. InList(b)
    BY <2>3, <2>4 DEF InList, Listed
  <2> QED
    BY <1>0, <1>1, <2>4, <2>5
<1> QED
  BY <1>2, <1>3 DEF Deleted

LEMMA UnitsAreIn ==
  ASSUME NEW b \in AlignedBlocks \union {NoBlock}, NEW u
  PROVE  u \in BlockUnits(b) <=> u \in Int /\ InBlock(u, b)
<1>1. b.address \in Int /\ b.size \in Int
  BY AlignedFacts DEF NoBlock
<1> QED
  BY <1>1 DEF BlockUnits, InBlock

LEMMA BuddySharing == BuddyInv => SharedOnlyIfRemade
<1> SUFFICES ASSUME BuddyInv PROVE SharedOnlyIfRemade
  OBVIOUS
<1>0. BuddyTyped /\ BlocksTile(allBlocks)
  BY DEF BuddyInv
<1>1. Deleted \subseteq remade
  BY DeletedRemade
<1>2. ASSUME NEW c \in Clients, NEW d \in Clients, c # d,
             BlockUnits(holding[c]) \intersect BlockUnits(holding[d]) # {}, ~Dangling
      PROVE  holding[c] = holding[d] /\ holding[c] \in remade
  <2>1. PICK u : u \in BlockUnits(holding[c]) /\ u \in BlockUnits(holding[d])
    BY <1>2
  <2>2. u \in Int /\ InBlock(u, holding[c]) /\ InBlock(u, holding[d])
    <3>1. /\ holding[c] \in AlignedBlocks \union {NoBlock}
          /\ holding[d] \in AlignedBlocks \union {NoBlock}
      BY <1>0 DEF BuddyTyped
    <3> QED
      BY <2>1, <3>1, UnitsAreIn
  <2>3. holding[c] \in allBlocks /\ holding[d] \in allBlocks
    BY <1>0, <1>2, <2>2, PointersLead, NoBlockNotAligned
  <2>4. holding[c] = holding[d]
    BY <1>0, <2>2, <2>3, TileMeets
  <2>5. ~Unshared(holding[c])
    BY <1>2, <2>4 DEF Unshared
  <2> QED
    BY <2>3, <2>4, <2>5 DEF BuddyInv
<1>3. ASSUME NEW c \in Clients, holding[c] # NoBlock, holding[c].size < wanted[c]
      PROVE  wanted[c] > MAX_BLOCK_SIZE
  <2>1. holding[c] \in AlignedBlocks /\ wanted[c] \in Nat
    BY <1>0, <1>3 DEF BuddyTyped
  <2>2. holding[c].size \in Nat
    BY <2>1, AlignedFacts
  <2> QED
    BY <1>3, <2>1, <2>2 DEF BuddyInv
<1> QED
  BY <1>1, <1>2, <1>3 DEF SharedOnlyIfRemade

\* A free place for the request would be a block in its list, part of a larger
\* one, or would have two free buddies in it.
LEMMA BuddyRefusing == BuddyInv => RefusesOnlyWithoutBlock
<1> SUFFICES ASSUME BuddyInv, refused > 0,
                    NEW i \in 0..(MAX_BLOCK_SIZE \div refused) - 1,
                    BlockUnits(BlockAt(i * refused, refused)) \intersect HeldUnits = {}
             PROVE  FALSE
  BY DEF RefusesOnlyWithoutBlock
<1> DEFINE r == refused
<1>0. /\ BuddyTyped /\ BlocksTile(allBlocks)
      /\ \A b \in allBlocks : InList(b) \/ IsHeld(b)
      /\ \A b, d \in allBlocks :
           2 * b.size <= MAX_BLOCK_SIZE /\ d = BuddyOf(b.address, b.size) => IsHeld(b) \/ IsHeld(d)
      /\ r \in Sizes /\ \A s \in Sizes : s >= r => freeLists[s] = <<>>
  BY DEF BuddyInv
<1>1. r \in Nat \ {0} /\ r <= MAX_BLOCK_SIZE /\ MAX_BLOCK_SIZE \in Nat \ {0} /\ MAX_BLOCK_SIZE \in Sizes
  BY <1>0, SizeFacts
<1> HIDE DEF r
<1>2. PICK a \in Nat : a = i * r /\ Multiple(a, r) /\ a + r <= MAX_BLOCK_SIZE
  <2>1. PICK q \in Nat, e \in 0..r - 1 : q = MAX_BLOCK_SIZE \div r /\ MAX_BLOCK_SIZE = r * q + e
    <3>1. /\ MAX_BLOCK_SIZE \div r \in Nat /\ MAX_BLOCK_SIZE % r \in 0..r - 1
          /\ MAX_BLOCK_SIZE = r * (MAX_BLOCK_SIZE \div r) + (MAX_BLOCK_SIZE % r)
      BY <1>1
    <3> QED
      BY <3>1
  <2>2. i \in Nat /\ i + 1 <= q
    BY <2>1 DEF r
  <2>3. PICK d \in Nat : q = (i + 1) + d
    <3>1. q - (i + 1) \in Nat /\ q = (i + 1) + (q - (i + 1))
      BY <2>2
    <3> QED
      BY <3>1
  <2>4. r * q = (i * r + r) + r * d /\ r * d \in Nat /\ i * r \in Nat
    BY <1>1, <2>2, <2>3
  <2>5. i * r + r <= MAX_BLOCK_SIZE
    BY <2>1, <2>4, <1>1
  <2> QED
    BY <2>2, <2>4, <2>5 DEF Multiple
<1> DEFINE A == BlockAt(a, r)
<1>3. A \in AlignedBlocks /\ A.address = a /\ A.size = r
  BY <1>0, <1>2, AlignedAt
<1> HIDE DEF A
<1>4. ASSUME NEW u \in Int, InBlock(u, A), NEW b \in allBlocks, InBlock(u, b)
      PROVE  ~IsHeld(b)
  <2> SUFFICES ASSUME IsHeld(b) PROVE FALSE
    OBVIOUS
  <2>1. b \in AlignedBlocks
    BY <1>0 DEF BlocksTile
  <2>2. PICK c \in Clients : holding[c] = b
    BY DEF IsHeld
  <2>3. u \in BlockUnits(holding[c]) /\ holding[c] # NoBlock
    BY <1>4, <2>1, <2>2, UnitsAreIn, NoBlockNotAligned
  <2>4. u \in HeldUnits
    BY <2>3 DEF HeldUnits
  <2>5. u \in BlockUnits(A)
    BY <1>3, <1>4, UnitsAreIn
  <2> QED
    BY <1>2, <2>4, <2>5 DEF A, r
<1>5. ASSUME NEW u \in Int, InBlock(u, A), NEW b \in allBlocks, InBlock(u, b)
      PROVE  /\ b.size < r /\ a <= b.address /\ b.address + b.size <= a + r
             /\ b \in AlignedBlocks /\ b.size \in Nat
  <2>1. b \in AlignedBlocks /\ b.size \in Sizes /\ b.size \in Nat
    BY <1>0, AlignedFacts DEF BlocksTile
  <2>2. InList(b)
    BY <1>0, <1>4, <1>5
  <2>3. freeLists[b.size] # <<>>
    BY <2>2 DEF InList, Listed
  <2>4. b.size < r
    BY <1>0, <1>1, <2>1, <2>3
  <2> QED
    BY <1>1, <1>3, <1>5, <2>1, <2>4, AlignedNest
<1>6. \A u \in Int : InBlock(u, A) => u \in 0..MAX_BLOCK_SIZE - 1
  BY <1>1, <1>2, <1>3 DEF InBlock
<1> DEFINE Within == {b \in allBlocks : \E u \in Int : InBlock(u, A) /\ InBlock(u, b)}
           S == {b.size : b \in Within}
<1>7. PICK b \in Within : \A d \in Within : b.size <= d.size
  <2>1. InBlock(a, A)
    BY <1>1, <1>2, <1>3 DEF InBlock
  <2>2. Within # {}
    BY <1>0, <1>6, <2>1 DEF BlocksTile
  <2>3. S \in SUBSET Nat /\ S # {}
    BY <1>5, <2>2
  <2>4. PICK m \in S : \A k \in S : m <= k
    <3> HIDE DEF S
    <3> QED
      BY <2>3, LeastExists
  <2> QED
    BY <2>4
<1>8. PICK u \in Int : InBlock(u, A) /\ InBlock(u, b)
  OBVIOUS
<1>9. /\ b \in allBlocks /\ b \in AlignedBlocks /\ b.size < r /\ b.size \in Nat \ {0}
      /\ a <= b.address /\ b.address + b.size <= a + r /\ b.address \in Nat /\ b.size \in Sizes
  BY <1>5, <1>8, AlignedFacts
<1> DEFINE x == b.address
           s == b.size
           d == BuddyOf(x, s)
<1>10. 2 * s <= r /\ 2 * s <= MAX_BLOCK_SIZE /\ 2 * s \in Sizes
  <2>1. 2 * s <= r
    BY <1>0, <1>9, SizeHalf
  <2>2. 2 * s <= MAX_BLOCK_SIZE
    BY <1>1, <1>9, <2>1
  <2> QED
    BY <1>9, <2>1, <2>2, SizeDouble
<1>11. /\ x \in 0..MAX_BLOCK_SIZE - 1 /\ Around(x, s) = b
       /\ d \in AlignedBlocks /\ d.size = s /\ BlocksApart(b, d)
       /\ \A v \in Int : InBlock(v, Around(x, 2 * s)) <=> InBlock(v, b) \/ InBlock(v, d)
  <2>1. x \in 0..MAX_BLOCK_SIZE - 1 /\ Around(x, s) = b
    BY <1>9, AroundItself
  <2> QED
    BY <1>9, <1>10, <2>1, BuddyAligned
<1>12. \A v \in Int : InBlock(v, d) => InBlock(v, A)
  <2>1. InBlock(x, A)
    BY <1>1, <1>2, <1>3, <1>9 DEF InBlock
  <2>2. Around(x, r) = A
    BY <1>3, <1>9, <2>1, AroundInside
  <2> QED
    BY <1>0, <1>10, <1>11, <2>2, AroundGrows
<1>13. PICK e \in allBlocks : InBlock(d.address, e)
  <2>1. InBlock(d.address, d) /\ d.address \in Int
    BY <1>11, AlignedFacts
  <2> QED
    BY <1>0, <1>6, <1>12, <2>1 DEF BlocksTile
<1>14. e = d
  <2>1. InBlock(d.address, d) /\ d.address \in Int /\ InBlock(d.address, A)
    BY <1>11, <1>12, AlignedFacts
  <2>2. e \in Within /\ e \in AlignedBlocks /\ e.size \in Nat
    BY <1>5, <1>13, <2>1
  <2>3. s <= e.size
    BY <1>7, <2>2
  <2>4. CASE e.size = s
    <3>1. d.address <= e.address /\ e.address <= d.address
      BY <1>9, <1>11, <1>13, <2>1, <2>2, <2>4, AlignedNest
    <3>2. d.address = e.address
      BY <1>11, <2>2, <3>1, AlignedFacts
    <3> QED
      BY <1>11, <2>2, <2>4, <3>2, AlignedFacts
  <2>5. CASE s < e.size
    <3>1. e.size \in Sizes /\ 2 * s <= e.size
      BY <1>9, <2>2, <2>5, AlignedFacts, SizeHalf
    <3>2. InBlock(d.address, Around(x, 2 * s))
      BY <1>11, <2>1
    <3>3. Around(x, 2 * s) \in AlignedBlocks /\ Around(x, 2 * s).size = 2 * s
          /\ InBlock(x, Around(x, 2 * s))
      BY <1>10, <1>11, AroundAligned
    <3>4. /\ e.address <= Around(x, 2 * s).address
          /\ Around(x, 2 * s).address + 2 * s <= e.address + e.size
      BY <1>13, <2>1, <2>2, <3>1, <3>2, <3>3, AlignedNest
    <3>5. InBlock(x, e)
      BY <1>9, <2>2, <3>3, <3>4, AlignedFacts DEF InBlock
    <3>6. InBlock(x, b)
      BY <1>9, AlignedFacts
    <3>7. e = b
      BY <1>0, <1>9, <3>5, <3>6, TileMeets
    <3> QED
      BY <1>9, <2>5, <3>7
  <2> QED
    BY <1>9, <2>2, <2>3, <2>4, <2>5
<1>15. IsHeld(b) \/ IsHeld(d)
  BY <1>0, <1>9, <1>10, <1>14
<1>16. ~IsHeld(b)
  BY <1>4, <1>8, <1>9
<1>17. ~IsHeld(d)
  <2>1. InBlock(d.address, A) /\ d.address \in Int
    BY <1>11, <1>12, AlignedFacts
  <2> QED
    BY <1>4, <1>13, <1>14, <2>1
<1> QED
  BY <1>15, <1>16, <1>17

\* The buddy of an upper half begins where the block began that was split.
LEMMA HalfMeets ==
  ASSUME NEW h \in AlignedBlocks, NEW z \in Sizes, NEW b \in UpperHalves(h.address, z, h.size)
  PROVE  InBlock(h.address, BuddyOf(b.address, b.size))
<1>1. PICK a \in Nat, t \in Nat \ {0} : /\ a = h.address /\ t = h.size /\ t \in Sizes
                                        /\ Multiple(a, t) /\ a + t <= MAX_BLOCK_SIZE
  BY AlignedFacts
<1>2. PICK s \in Steps(z, t) : b = BlockAt(a + s, s)
  BY <1>1 DEF UpperHalves
<1>3. s \in Sizes /\ s \in Nat \ {0} /\ 2 * s <= t /\ 2 * s <= MAX_BLOCK_SIZE /\ 2 * s \in Sizes
  BY <1>1, StepDoubles, SizeFacts
<1>4. b.address = a + s /\ b.size = s
  BY <1>2 DEF BlockAt
<1> DEFINE P == BlockAt(a, 2 * s)
<1>5. P \in AlignedBlocks /\ P.address = a /\ P.size = 2 * s
  <2>1. Multiple(a, 2 * s)
    BY <1>1, <1>3, SizeMultiple
  <2>2. a + 2 * s <= MAX_BLOCK_SIZE
    BY <1>1, <1>3, SizeFacts
  <2> QED
    BY <1>3, <2>1, <2>2, AlignedAt
<1> HIDE DEF P
<1>6. InBlock(a + s, P) /\ InBlock(a, P) /\ a + s \in Int
  BY <1>1, <1>3, <1>5 DEF InBlock
<1>7. a + s \in 0..MAX_BLOCK_SIZE - 1 /\ Around(a + s, 2 * s) = P
  BY <1>5, <1>6, AroundInside
<1>8. Around(a + s, s).address = a + s
  <2>1. Multiple(a + s, s) /\ a + s + s <= MAX_BLOCK_SIZE
    <3>1. Multiple(a, s)
      BY <1>1, <1>3, SizeMultiple
    <3> QED
      BY <1>1, <1>3, <3>1, MultipleNext, SizeFacts
  <2>2. b \in AlignedBlocks
    BY <1>1, <1>2, <1>3, <2>1, AlignedAt
  <2> QED
    BY <1>4, <2>2, AroundItself
<1>9. ~InBlock(a, Around(a + s, s))
  BY <1>1, <1>3, <1>8 DEF InBlock
<1>10. InBlock(a, BuddyOf(a + s, s))
  BY <1>1, <1>3, <1>6, <1>7, <1>9, BuddyAligned
<1> QED
  BY <1>1, <1>4, <1>10

-----------------------------------------------------------------------------
(* BuddySystem: what a step does to blocks, lists and pointers.            *)

LEMMA BuddyInvInit == BuddyInit => BuddyInv
<1> SUFFICES ASSUME BuddyInit PROVE BuddyInv
  OBVIOUS
<1> DEFINE M == MAX_BLOCK_SIZE
           all == BlockAt(0, M)
<1>0. M \in Sizes /\ M \in Nat \ {0} /\ \A s \in Sizes : s \in Nat \ {0} /\ s <= M
  BY SizeFacts
<1>1. all \in AlignedBlocks /\ all.address = 0 /\ all.size = M
  <2>1. 0 = 0 * M
    BY <1>0
  <2>2. Multiple(0, M)
    BY <2>1 DEF Multiple
  <2> QED
    BY <1>0, <2>2, AlignedAt
<1>2. /\ freeLists = [s \in Sizes |-> IF s = M THEN <<all>> ELSE <<>>]
      /\ allBlocks = {all} /\ used = {} /\ remade = {} /\ refused = 0
      /\ holding = [c \in Clients |-> NoBlock] /\ wanted = [c \in Clients |-> 0]
  BY DEF BuddyInit
<1> HIDE DEF all, M
<1>3. BuddyTyped
  <2>1. \A s \in Sizes : freeLists[s] \in Seq(AlignedBlocks)
    BY <1>0, <1>1, <1>2
  <2>2. \A s \in Sizes : \A i \in 1..Len(freeLists[s]) : freeLists[s][i].size = s
    <3> SUFFICES ASSUME NEW s \in Sizes, NEW i \in 1..Len(freeLists[s])
                 PROVE  freeLists[s][i].size = s
      OBVIOUS
    <3>1. CASE s = M
      <4>1. freeLists[s] = <<all>> /\ i = 1
        BY <1>2, <3>1
      <4> QED
        BY <1>1, <3>1, <4>1
    <3>2. CASE s # M
      BY <1>2, <3>2
    <3> QED
      BY <3>1, <3>2
  <2> QED
    BY <1>2, <2>1, <2>2 DEF BuddyTyped
<1>4. BlocksTile(allBlocks)
  BY <1>0, <1>1, <1>2 DEF BlocksTile, InBlock, M
<1>5. InList(all) /\ ~Twice(freeLists[all.size], all)
  <2>1. freeLists[all.size] = <<all>>
    BY <1>0, <1>1, <1>2
  <2> QED
    BY <1>1, <2>1, SingleList DEF InList
<1>6. \A b \in AlignedBlocks : ~IsHeld(b)
  BY <1>2, NoBlockNotAligned DEF IsHeld
<1>7. Unshared(all)
  BY <1>1, <1>2, <1>5, <1>6, NoBlockNotAligned DEF Unshared
<1>8. ASSUME NEW b \in AlignedBlocks, InList(b) PROVE b = all
  <2>1. b.size \in Sizes
    BY AlignedFacts
  <2>2. CASE b.size = M
    <3>1. Listed(<<all>>, b)
      BY <1>2, <1>8, <2>1, <2>2 DEF InList
    <3> QED
      BY <1>1, <3>1, SingleList
  <2>3. CASE b.size # M
    <3>1. freeLists[b.size] = <<>>
      BY <1>2, <2>1, <2>3
    <3> QED
      BY <1>8, <3>1 DEF InList, Listed
  <2> QED
    BY <2>2, <2>3
<1>9. ~(2 * all.size <= M)
  BY <1>0, <1>1
<1> QED
  BY <1>1, <1>2, <1>3, <1>4, <1>5, <1>6, <1>7, <1>8, <1>9 DEF BuddyInv, M

\* A block is taken from the front of its list, after the block h has been split
\* into it and the halves unless it is h itself.
LEMMA BlockTaken ==
  ASSUME BuddyInv, ~Dangling, BuddyTyped', NEW c \in Clients, holding[c] = NoBlock,
         NEW h \in allBlocks, InList(h), NEW block \in AlignedBlocks,
         NEW halves \in SUBSET AlignedBlocks,
         block \notin halves, block = h \/ block \notin allBlocks, halves \intersect allBlocks = {},
         allBlocks' = (allBlocks \ {h}) \union halves \union {block}, BlocksTile(allBlocks'),
         \A b \in AlignedBlocks : InList(b)' => b \in halves \/ InList(b),
         \A b \in AlignedBlocks : InList(b) => b = h \/ InList(b)',
         InList(h)' => Twice(freeLists[h.size], h),
         \A b \in halves : InList(b)' /\ ~Twice(freeLists'[b.size], b),
         \A b \in AlignedBlocks : b \notin halves /\ Twice(freeLists'[b.size], b) =>
                                    Twice(freeLists[b.size], b),
         \A b \in halves, d \in allBlocks' :
           2 * b.size <= MAX_BLOCK_SIZE /\ d = BuddyOf(b.address, b.size) => d = block,
         used' = used \union {block}, holding' = [holding EXCEPT ![c] = block],
         remade \subseteq remade' \union halves \union {block}, h \in remade => h \in remade',
         NEW r \in Nat, wanted' = [wanted EXCEPT ![c] = r], refused' = 0,
         block.size >= r \/ r > MAX_BLOCK_SIZE
  PROVE  BuddyInv'
<1>0. /\ BuddyTyped /\ BlocksTile(allBlocks) /\ allBlocks \subseteq AlignedBlocks
      /\ allBlocks' \subseteq AlignedBlocks
  BY DEF BuddyInv, BlocksTile
<1>1. /\ \A b \in AlignedBlocks : InList(b) \/ IsHeld(b) => b \in allBlocks
      /\ \A d \in Clients : holding[d] \in allBlocks \union {NoBlock}
  BY <1>0, PointersLead
<1>2. holding'[c] = block /\ \A d \in Clients : d # c => holding'[d] = holding[d]
  BY <1>0 DEF BuddyTyped
<1>3. block # NoBlock /\ \A b \in AlignedBlocks : b # NoBlock
  BY NoBlockNotAligned
<1>4. IsHeld(block)' /\ \A b \in AlignedBlocks : IsHeld(b) => IsHeld(b)'
  BY <1>2, <1>3 DEF IsHeld
<1>5. \A b \in AlignedBlocks : IsHeld(b)' /\ b # block => IsHeld(b)
  BY <1>2 DEF IsHeld
<1>6. h \in AlignedBlocks /\ (h \in remade \/ Unshared(h))
  BY <1>0 DEF BuddyInv
<1>7. ASSUME NEW b \in allBlocks'
      PROVE  InList(b)' \/ IsHeld(b)'
  <2>1. CASE b \in allBlocks \ {h}
    <3>1. InList(b) \/ IsHeld(b)
      BY <2>1 DEF BuddyInv
    <3> QED
      BY <1>0, <1>4, <2>1, <3>1
  <2> QED
    BY <1>4, <1>7, <2>1
<1>8. ASSUME NEW b \in allBlocks', b \notin remade'
      PROVE  Unshared(b)'
  <2>1. CASE b \in halves
    <3>1. b # block /\ ~IsHeld(b)
      BY <1>0, <1>1, <1>8, <2>1
    <3>2. ~IsHeld(b)'
      BY <1>0, <1>5, <1>8, <3>1
    <3> QED
      BY <2>1, <3>2 DEF Unshared, IsHeld
  <2>2. CASE b = block
    <3>1. ~InList(b)'
      <4>1. CASE block = h
        <5>1. Unshared(h)
          BY <1>6, <1>8, <2>2, <4>1
        <5> QED
          BY <2>2, <4>1, <5>1 DEF Unshared
      <4>2. CASE block \notin allBlocks
        BY <1>1, <2>2, <4>2
      <4> QED
        BY <4>1, <4>2
    <3>2. ~Twice(freeLists'[b.size], b)
      BY <3>1, TwiceListed DEF InList
    <3>3. ASSUME NEW d \in Clients, d # c PROVE holding'[d] # b
      <4> SUFFICES ASSUME holding[d] = b PROVE FALSE
        BY <1>2, <3>3
      <4>1. b \in allBlocks /\ IsHeld(b)
        BY <1>1, <1>3, <2>2 DEF IsHeld
      <4>2. Unshared(h) /\ b = h
        BY <1>6, <1>8, <2>2, <4>1
      <4> QED
        BY <4>1, <4>2 DEF Unshared
    <3> QED
      BY <3>1, <3>2, <3>3 DEF Unshared
  <2>3. CASE b \in allBlocks /\ b \notin halves /\ b # block
    <3>1. b \notin remade
      BY <1>8, <2>3
    <3>2. Unshared(b) /\ b \in AlignedBlocks
      BY <1>0, <2>3, <3>1 DEF BuddyInv
    <3>3. ~Twice(freeLists'[b.size], b)
      BY <2>3, <3>2 DEF Unshared
    <3>4. (InList(b)' => InList(b)) /\ (IsHeld(b)' => IsHeld(b))
      BY <1>5, <2>3, <3>2
    <3>5. \A d, e \in Clients : holding'[d] = b /\ holding'[e] = b => d = e
      BY <1>2, <2>3, <3>2 DEF Unshared
    <3> QED
      BY <3>2, <3>3, <3>4, <3>5 DEF Unshared
  <2> QED
    BY <1>8, <2>1, <2>2, <2>3
<1>9. \A b \in used' : b \in AlignedBlocks /\ IsHeld(b)'
  <2>1. \A b \in used : b \in AlignedBlocks /\ IsHeld(b)
    BY DEF BuddyInv
  <2> QED
    BY <1>4, <2>1
<1>10. ASSUME NEW b \in allBlocks', NEW d \in allBlocks',
              2 * b.size <= MAX_BLOCK_SIZE, d = BuddyOf(b.address, b.size)
       PROVE  IsHeld(b)' \/ IsHeld(d)'
  <2>1. b \in AlignedBlocks /\ d \in AlignedBlocks /\ b = BuddyOf(d.address, d.size) /\ d.size = b.size
    BY <1>0, <1>10, BuddyBack
  <2>2. CASE b \in halves
    BY <1>4, <1>10, <2>2
  <2>3. CASE d \in halves
    <3>1. b = block
      BY <1>10, <2>1, <2>3
    <3> QED
      BY <1>4, <3>1
  <2>4. CASE b = block \/ d = block
    BY <1>4, <2>4
  <2>5. CASE b \in allBlocks /\ d \in allBlocks
    <3>1. IsHeld(b) \/ IsHeld(d)
      BY <1>10, <2>5 DEF BuddyInv
    <3> QED
      BY <1>4, <2>1, <3>1
  <2> QED
    BY <1>10, <2>2, <2>3, <2>4, <2>5
<1>11. ASSUME NEW b \in AlignedBlocks, InList(b)' \/ IsHeld(b)'
       PROVE  b \in allBlocks' \/ b \in remade'
  <2>1. CASE b \in halves \/ b = block
    BY <2>1
  <2>2. CASE b \notin halves /\ b # block
    <3>1. InList(b) \/ IsHeld(b)
      BY <1>5, <1>11, <2>2
    <3>2. b \in allBlocks
      BY <1>1, <3>1
    <3>3. CASE b # h
      BY <3>2, <3>3
    <3>4. CASE b = h
      <4>1. ~Unshared(h)
        <5>1. CASE InList(b)'
          BY <3>4, <5>1 DEF Unshared
        <5>2. CASE IsHeld(b)'
          BY <1>5, <2>2, <3>4, <5>2 DEF Unshared
        <5> QED
          BY <1>11, <5>1, <5>2
      <4> QED
        BY <1>6, <3>4, <4>1
    <3> QED
      BY <3>3, <3>4
  <2> QED
    BY <2>1, <2>2
<1>12. ASSUME NEW d \in Clients
       PROVE  holding'[d] = NoBlock \/ holding'[d].size >= wanted'[d] \/ wanted'[d] > MAX_BLOCK_SIZE
  <2>1. wanted'[c] = r /\ (d # c => wanted'[d] = wanted[d])
    BY <1>0 DEF BuddyTyped
  <2> QED
    BY <1>2, <2>1 DEF BuddyInv
<1> QED
  BY <1>7, <1>8, <1>9, <1>10, <1>11, <1>12 DEF BuddyInv

LEMMA RoundedUp ==
  ASSUME NEW request \in Nat
  PROVE  /\ nextPowerOf2(request) \in Sizes
         /\ nextPowerOf2(request) >= request \/ request > MAX_BLOCK_SIZE
<1> DEFINE S == {s \in Sizes : s >= request}
           Fits(s) == (s >= request \/ s = MAX_BLOCK_SIZE) /\ \A t \in Sizes : t >= request => s <= t
<1>1. MAX_BLOCK_SIZE \in Sizes /\ MAX_BLOCK_SIZE \in Nat /\ \A s \in Sizes : s \in Nat /\ s <= MAX_BLOCK_SIZE
  BY SizeFacts
<1>2. \E s \in Sizes : Fits(s)
  <2>1. CASE S = {}
    BY <1>1, <2>1
  <2>2. CASE S # {}
    <3>1. S \in SUBSET Nat
      BY <1>1
    <3>2. PICK m \in S : \A k \in S : m <= k
      <4> HIDE DEF S
      <4> QED
        BY <2>2, <3>1, LeastExists
    <3> QED
      BY <3>2
  <2> QED
    BY <2>1, <2>2
<1>3. nextPowerOf2(request) \in Sizes /\ Fits(nextPowerOf2(request))
  BY <1>2 DEF nextPowerOf2
<1> QED
  BY <1>1, <1>3

\* An element of a list has the size the list is for.
LEMMA ListedSize ==
  ASSUME BuddyTyped, NEW s \in Sizes, NEW b, Listed(freeLists[s], b)
  PROVE  b \in AlignedBlocks /\ b.size = s /\ InList(b)
<1>1. PICK i \in 1..Len(freeLists[s]) : freeLists[s][i] = b
  BY DEF Listed
<1>2. freeLists[s] \in Seq(AlignedBlocks)
  BY DEF BuddyTyped
<1>3. b \in AlignedBlocks
  BY <1>1, <1>2
<1>4. b.size = s
  BY <1>1 DEF BuddyTyped
<1> QED
  BY <1>3, <1>4 DEF InList

\* An allocation as the block h that is found, what it is split into, and how
\* the lists change; nothing is split if larger is the size that was asked for.
Takes(c, size, larger, h) ==
  /\ holding[c] = NoBlock /\ ~Dangling
  /\ size <= larger /\ freeLists[larger] # <<>> /\ h = Head(freeLists[larger])
  /\ \A s \in Steps(size, larger) : freeLists[s] = <<>>
  /\ freeLists' = [s \in Sizes |->
                     IF s = larger THEN Tail(freeLists[larger])
                     ELSE IF s \in Steps(size, larger) THEN <<BlockAt(h.address + s, s)>>
                     ELSE freeLists[s]]
  /\ LET block == BlockAt(h.address, size)
         halves == UpperHalves(h.address, size, larger)
     IN /\ IF larger > size
           THEN /\ allBlocks' = (allBlocks \ {h}) \union halves \union {block}
                /\ remade' = remade \ (halves \union {block})
           ELSE allBlocks' = allBlocks /\ remade' = remade /\ h = block
        /\ used' = used \union {block}
        /\ holding' = [holding EXCEPT ![c] = block]

LEMMA AllocateTakes ==
  ASSUME BuddyTyped, NEW c \in Clients, NEW request \in Nat, allocate(c, request)
  PROVE  \E larger \in Sizes : Takes(c, nextPowerOf2(request), larger, Head(freeLists[larger]))
<1> DEFINE size == nextPowerOf2(request)
           larger == CHOOSE s \in Sources(size) : \A t \in Sources(size) : s <= t
           h == Head(freeLists[larger])
           split == larger > size
           lists == IF split THEN splitBlock(larger, size) ELSE freeLists
           block == Head(lists[size])
           halves == {BlockAt(block.address + s, s) : s \in {s \in Sizes : size <= s /\ s < larger}}
<1>1. /\ ~Dangling /\ holding[c] = NoBlock /\ Sources(size) # {}
      /\ freeLists' = [lists EXCEPT ![size] = Tail(lists[size])]
      /\ IF split
         THEN /\ allBlocks' = (allBlocks \ {h}) \union halves \union {block}
              /\ remade' = remade \ (halves \union {block})
         ELSE allBlocks' = allBlocks /\ remade' = remade
      /\ used' = used \union {block}
      /\ holding' = [holding EXCEPT ![c] = block]
  BY DEF allocate
<1>2. size \in Sizes /\ size \in Nat /\ \A s \in Sizes : s \in Nat
  BY RoundedUp, SizeFacts
<1> HIDE DEF size
<1>3. larger \in Sources(size) /\ \A t \in Sources(size) : larger <= t
  <2>1. Sources(size) \in SUBSET Nat
    BY <1>2 DEF Sources
  <2>2. \E m \in Sources(size) : \A t \in Sources(size) : m <= t
    BY <1>1, <2>1, LeastExists
  <2> QED
    BY <2>2
<1> HIDE DEF larger
<1>4. larger \in Sizes /\ larger \in Nat /\ size <= larger /\ freeLists[larger] # <<>>
  BY <1>2, <1>3 DEF Sources
<1>5. \A s \in Steps(size, larger) : freeLists[s] = <<>>
  <2> SUFFICES ASSUME NEW s \in Steps(size, larger), freeLists[s] # <<>> PROVE FALSE
    OBVIOUS
  <2>1. s \in Sources(size) /\ s < larger /\ s \in Nat
    BY <1>2 DEF Sources, Steps
  <2> QED
    BY <1>3, <1>4, <2>1
<1>6. h \in AlignedBlocks /\ h.size = larger /\ h.address \in Nat
  <2>1. freeLists[larger] \in Seq(AlignedBlocks)
    BY <1>4 DEF BuddyTyped
  <2>2. Listed(freeLists[larger], h)
    BY <1>4, <2>1, TailLists
  <2> QED
    BY <1>4, <2>2, ListedSize, AlignedFacts
<1>7. {s \in Sizes : size <= s /\ s < larger} = Steps(size, larger)
  BY DEF Steps
<1>8. CASE ~split
  <2>1. larger = size /\ lists = freeLists /\ block = h
    BY <1>2, <1>4, <1>8
  <2>2. h = BlockAt(h.address, size)
    BY <1>6, <2>1, AlignedFacts
  <2>3. Steps(size, larger) = {}
    <3> SUFFICES ASSUME NEW s \in Steps(size, larger) PROVE FALSE
      OBVIOUS
    <3>1. s \in Nat /\ size <= s /\ s < size
      BY <1>2, <2>1 DEF Steps
    <3> QED
      BY <1>2, <3>1
  <2>4. freeLists' = [s \in Sizes |-> IF s = larger THEN Tail(freeLists[larger])
                                      ELSE IF s \in Steps(size, larger)
                                           THEN <<BlockAt(h.address + s, s)>>
                                      ELSE freeLists[s]]
    <3> HIDE DEF h, block, halves, lists
    <3>1. freeLists = [s \in Sizes |-> freeLists[s]]
      BY DEF BuddyTyped
    <3>2. freeLists' = [freeLists EXCEPT ![larger] = Tail(freeLists[larger])]
      BY <1>1, <2>1
    <3>3. freeLists' = [s \in Sizes |-> IF s = larger THEN Tail(freeLists[larger]) ELSE freeLists[s]]
      BY <3>1, <3>2
    <3> QED
      BY <2>3, <3>3
  <2> HIDE DEF h, block, halves, lists
  <2>5. Takes(c, size, larger, h)
    BY <1>1, <1>4, <1>5, <1>8, <2>1, <2>2, <2>4 DEF Takes, h
  <2> QED
    BY <1>4, <2>5 DEF size, h
<1>9. CASE split
  <2>1. lists = [s \in Sizes |->
                   IF s = larger THEN Tail(freeLists[s])
                   ELSE IF s = size THEN <<BlockAt(h.address, s), BlockAt(h.address + s, s)>>
                   ELSE IF size < s /\ s < larger THEN <<BlockAt(h.address + s, s)>>
                   ELSE freeLists[s]]
    BY <1>9 DEF splitBlock
  <2>2. lists[size] = <<BlockAt(h.address, size), BlockAt(h.address + size, size)>>
    <3> HIDE DEF h, lists
    <3>1. size # larger
      BY <1>2, <1>9
    <3> QED
      BY <1>2, <2>1, <3>1
  <2>3. block = BlockAt(h.address, size) /\ Tail(lists[size]) = <<BlockAt(h.address + size, size)>>
    <3>1. PICK x, y : x = BlockAt(h.address, size) /\ y = BlockAt(h.address + size, size)
      OBVIOUS
    <3> HIDE DEF h, lists
    <3>2. lists[size] = <<x, y>>
      BY <2>2, <3>1
    <3> QED
      BY <3>1, <3>2
  <2>4. block.address = h.address
    BY <2>3 DEF BlockAt
  <2>5. halves = UpperHalves(h.address, size, larger)
    BY <1>7, <2>4 DEF UpperHalves
  <2> HIDE DEF h, block, halves, lists
  <2>6. freeLists' = [s \in Sizes |-> IF s = larger THEN Tail(freeLists[larger])
                                      ELSE IF s \in Steps(size, larger)
                                           THEN <<BlockAt(h.address + s, s)>>
                                      ELSE freeLists[s]]
    <3>1. freeLists' = [s \in Sizes |-> IF s = size THEN Tail(lists[size]) ELSE lists[s]]
      BY <1>1, <2>1
    <3>2. ASSUME NEW s \in Sizes
          PROVE  (IF s = size THEN Tail(lists[size]) ELSE lists[s]) =
                 IF s = larger THEN Tail(freeLists[larger])
                 ELSE IF s \in Steps(size, larger) THEN <<BlockAt(h.address + s, s)>>
                 ELSE freeLists[s]
      <4>1. CASE s = size
        <5>1. s \in Steps(size, larger) /\ s # larger
          BY <1>2, <1>4, <1>9, <4>1 DEF Steps
        <5> QED
          BY <2>3, <4>1, <5>1
      <4>2. CASE s = larger
        BY <1>2, <1>4, <1>9, <2>1, <4>2
      <4>3. CASE s # size /\ s # larger
        <5>1. s \in Steps(size, larger) <=> size < s /\ s < larger
          BY <1>2, <1>4, <4>3 DEF Steps
        <5> QED
          BY <2>1, <4>3, <5>1
      <4> QED
        BY <4>1, <4>2, <4>3
    <3> QED
      BY <3>1, <3>2
  <2>7. Takes(c, size, larger, h)
    BY <1>1, <1>4, <1>5, <1>9, <2>3, <2>5, <2>6 DEF Takes, h
  <2> QED
    BY <1>4, <2>7 DEF size, h
<1> QED
  BY <1>8, <1>9

LEMMA AllocateKeepsBuddies ==
  ASSUME BuddyInv, NEW c \in Clients, NEW request \in Nat, allocate(c, request)
  PROVE  BuddyInv'
<1>0. BuddyTyped /\ BlocksTile(allBlocks)
  BY DEF BuddyInv
<1>1. PICK size \in Sizes : /\ size = nextPowerOf2(request)
                            /\ size >= request \/ request > MAX_BLOCK_SIZE
  BY RoundedUp
<1>2. PICK larger \in Sizes : Takes(c, size, larger, Head(freeLists[larger]))
  BY <1>0, <1>1, AllocateTakes
<1>3. PICK h : h = Head(freeLists[larger]) /\ Takes(c, size, larger, h)
  BY <1>2
<1> DEFINE a == h.address
           block == BlockAt(a, size)
           between == Steps(size, larger)
           halves == UpperHalves(a, size, larger)
           list == freeLists[larger]
<1>4. /\ holding[c] = NoBlock /\ ~Dangling /\ size <= larger /\ list # <<>>
      /\ \A s \in between : freeLists[s] = <<>>
      /\ used' = used \union {block}
      /\ holding' = [holding EXCEPT ![c] = block]
  BY <1>3 DEF Takes
<1>5. /\ Tail(list) \in Seq(AlignedBlocks) /\ h \in AlignedBlocks /\ Listed(list, h)
      /\ \A b : Listed(Tail(list), b) => Listed(list, b)
      /\ \A b : Twice(Tail(list), b) => Twice(list, b)
      /\ Listed(Tail(list), h) => Twice(list, h)
      /\ \A b : Listed(list, b) => b = h \/ Listed(Tail(list), b)
  <2>1. list \in Seq(AlignedBlocks)
    BY <1>0 DEF BuddyTyped
  <2> QED
    BY <1>3, <1>4, <2>1, TailLists
<1>6. h.size = larger /\ InList(h) /\ a \in Nat
  BY <1>0, <1>5, ListedSize, AlignedFacts
<1>7. h \in allBlocks
  BY <1>0, <1>4, <1>5, <1>6, PointersLead
<1>8. /\ size \in Nat /\ larger \in Nat
      /\ \A s \in between : s \in Sizes /\ s # larger
  BY SizeFacts DEF Steps
<1>9. /\ block \in AlignedBlocks /\ block.address = a /\ block.size = size
      /\ halves \subseteq AlignedBlocks /\ block \notin halves
      /\ block = h \/ block \notin allBlocks
      /\ halves \intersect allBlocks = {}
      /\ allBlocks' = (allBlocks \ {h}) \union halves \union {block}
      /\ BlocksTile(allBlocks')
      /\ remade \subseteq remade' \union halves \union {block}
      /\ h \in remade => h \in remade'
  <2>0. block.address = a /\ block.size = size
    BY DEF BlockAt
  <2>1. CASE larger = size
    <3>1. allBlocks' = allBlocks /\ remade' = remade /\ h = block
      BY <1>3, <1>8, <2>1 DEF Takes
    <3>2. halves = {}
      <4>1. ASSUME NEW s \in between PROVE FALSE
        <5>1. s \in Nat /\ size <= s /\ s < size
          BY <2>1, SizeFacts DEF Steps
        <5> QED
          BY <1>8, <5>1
      <4> QED
        BY <4>1 DEF UpperHalves
    <3> HIDE DEF block, halves
    <3> QED
      BY <1>0, <1>5, <1>7, <2>0, <3>1, <3>2
  <2>2. CASE larger # size
    <3>1. larger > size
      BY <1>4, <1>8, <2>2
    <3>2. /\ allBlocks' = (allBlocks \ {h}) \union halves \union {block}
          /\ remade' = remade \ (halves \union {block})
      BY <1>3, <3>1 DEF Takes
    <3>3. /\ halves \union {block} \subseteq AlignedBlocks
          /\ BlocksTile((allBlocks \ {h}) \union (halves \union {block}))
          /\ (halves \union {block}) \intersect allBlocks = {}
          /\ block \notin halves
      BY <1>0, <1>6, <1>7, <1>8, <3>1, TileSplit
    <3> HIDE DEF block, halves
    <3>4. (allBlocks \ {h}) \union (halves \union {block}) = allBlocks'
      BY <3>2
    <3> QED
      BY <1>7, <2>0, <3>2, <3>3, <3>4
  <2> QED
    BY <2>1, <2>2
<1>10. ASSUME NEW s \in between
      PROVE  BlockAt(a + s, s) \in halves /\ BlockAt(a + s, s).size = s
  BY DEF UpperHalves, BlockAt
<1>11. ASSUME NEW b \in halves
       PROVE  b.size \in between /\ b = BlockAt(a + b.size, b.size)
  BY DEF UpperHalves, BlockAt
<1>12. /\ freeLists'[larger] = Tail(list)
       /\ \A s \in between : freeLists'[s] = <<BlockAt(a + s, s)>>
       /\ \A s \in Sizes : s # larger /\ s \notin between => freeLists'[s] = freeLists[s]
       /\ freeLists' = [s \in Sizes |-> freeLists'[s]]
  <2>1. freeLists' = [s \in Sizes |-> IF s = larger THEN Tail(list)
                                      ELSE IF s \in between THEN <<BlockAt(a + s, s)>>
                                      ELSE freeLists[s]]
    BY <1>3 DEF Takes
  <2> HIDE DEF between, list
  <2> QED
    BY <1>8, <2>1
<1> HIDE DEF halves, block, list, between
<1>13. ASSUME NEW s \in Sizes
       PROVE  /\ freeLists'[s] \in Seq(AlignedBlocks)
              /\ \A b : Listed(freeLists'[s], b) => b.size = s
  <2>1. CASE s = larger
    BY <1>0, <1>5, <1>12, <2>1, ListedSize DEF list
  <2>2. CASE s \in between
    <3>1. PICK x \in AlignedBlocks : freeLists'[s] = <<x>> /\ x.size = s
      BY <1>9, <1>10, <1>12, <2>2
    <3> QED
      BY <3>1, SingleList
  <2>3. CASE s # larger /\ s \notin between
    BY <1>0, <1>12, <2>3, ListedSize DEF BuddyTyped
  <2> QED
    BY <2>1, <2>2, <2>3
<1>14. BuddyTyped'
  <2>1. freeLists' \in [Sizes -> Seq(AlignedBlocks)]
    BY <1>12, <1>13
  <2>2. \A s \in Sizes : \A i \in 1..Len(freeLists'[s]) : freeLists'[s][i].size = s
    BY <1>13 DEF Listed
  <2>3. holding' \in [Clients -> AlignedBlocks \union {NoBlock}]
    BY <1>0, <1>4, <1>9 DEF BuddyTyped
  <2>4. wanted' \in [Clients -> Nat]
    BY <1>0 DEF BuddyTyped, allocate
  <2> QED
    BY <2>1, <2>2, <2>3, <2>4 DEF BuddyTyped
<1>15. ASSUME NEW b \in AlignedBlocks
       PROVE  /\ InList(b)' => b \in halves \/ InList(b)
              /\ InList(b) => b = h \/ InList(b)'
              /\ b \notin halves /\ Twice(freeLists'[b.size], b) => Twice(freeLists[b.size], b)
  <2>1. b.size \in Sizes
    BY AlignedFacts
  <2>2. CASE b.size = larger
    BY <1>5, <1>12, <2>2 DEF InList, list
  <2>3. CASE b.size \in between
    <3>1. freeLists[b.size] = <<>>
      BY <1>4, <2>3
    <3>2. ~InList(b)
      BY <3>1 DEF InList, Listed
    <3>3. PICK x \in AlignedBlocks : freeLists'[b.size] = <<x>> /\ x \in halves
      BY <1>9, <1>10, <1>12, <2>3
    <3>4. /\ Listed(freeLists'[b.size], b) <=> b = x
          /\ ~Twice(freeLists'[b.size], b)
      BY <3>3, SingleList
    <3> QED
      BY <3>2, <3>3, <3>4 DEF InList
  <2>4. CASE b.size # larger /\ b.size \notin between
    BY <1>12, <2>1, <2>4 DEF InList
  <2> QED
    BY <2>2, <2>3, <2>4
<1>16. ASSUME NEW b \in halves
       PROVE  InList(b)' /\ ~Twice(freeLists'[b.size], b)
  <2>1. b.size \in between /\ freeLists'[b.size] = <<b>>
    BY <1>11, <1>12
  <2> QED
    BY <1>9, <2>1, SingleList DEF InList
<1>17. InList(h)' => Twice(freeLists[h.size], h)
  BY <1>5, <1>6, <1>12 DEF InList, list
<1>18. ASSUME NEW b \in halves, NEW d \in allBlocks', d = BuddyOf(b.address, b.size)
       PROVE  d = block
  <2>1. InBlock(a, d)
    BY <1>5, <1>6, <1>18, HalfMeets DEF halves
  <2>2. InBlock(a, block) /\ block \in allBlocks'
    BY <1>9, AlignedFacts
  <2> QED
    BY <1>6, <1>9, <2>1, <2>2, TileMeets
<1>19. wanted' = [wanted EXCEPT ![c] = request] /\ refused' = 0
  BY DEF allocate
<1> QED
  BY <1>1, <1>4, <1>6, <1>7, <1>9, <1>14, <1>15, <1>16, <1>17, <1>18, <1>19, BlockTaken

LEMMA RefusingKeepsBuddies ==
  ASSUME BuddyInv, NEW c \in Clients, NEW request \in Nat, BuddyRefuses(c, request)
  PROVE  BuddyInv'
<1>1. PICK size \in Sizes : size = nextPowerOf2(request)
  BY RoundedUp
<1>2. Sources(size) = {} /\ refused' = size
  BY <1>1 DEF BuddyRefuses
<1>3. /\ freeLists' = freeLists /\ allBlocks' = allBlocks /\ used' = used
      /\ holding' = holding /\ wanted' = wanted /\ remade' = remade
  BY DEF BuddyRefuses
<1>4. refused' \in Sizes /\ \A s \in Sizes : s >= refused' => freeLists'[s] = <<>>
  BY <1>2, <1>3 DEF Sources
<1>5. BuddyTyped' /\ BlocksTile(allBlocks')
  BY <1>3 DEF BuddyInv, BuddyTyped
<1>6. \A b : /\ InList(b)' <=> InList(b)
             /\ IsHeld(b)' <=> IsHeld(b)
             /\ Unshared(b)' <=> Unshared(b)
  BY <1>3 DEF InList, IsHeld, Unshared
<1> QED
  BY <1>3, <1>4, <1>5, <1>6 DEF BuddyInv

\* A block that c held is freed: merged with those of gone into last, or put to
\* its list as it is.
LEMMA BlockFreed ==
  ASSUME BuddyInv, ~Dangling, BuddyTyped', NEW c \in Clients,
         NEW block \in allBlocks, holding[c] = block,
         NEW last \in AlignedBlocks, NEW gone, block \in gone \/ block = last,
         last \notin gone, last \in allBlocks => block = last,
         BlocksTile(allBlocks'), allBlocks' = (allBlocks \ gone) \union {last},
         \A b \in gone \intersect allBlocks : b = block \/ InList(b),
         \A b \in AlignedBlocks : InList(b)' <=> (InList(b) /\ b \notin gone) \/ b = last,
         \A b \in AlignedBlocks : b # last /\ Twice(freeLists'[b.size], b) =>
                                    Twice(freeLists[b.size], b),
         block = last /\ Twice(freeLists'[last.size], last) => InList(last),
         2 * last.size <= MAX_BLOCK_SIZE /\ InList(BuddyOf(last.address, last.size)) =>
           BuddyOf(last.address, last.size) \in used,
         used' = used \ (gone \union {last}),
         remade' = IF block = last THEN remade ELSE remade \union {last},
         holding' = [holding EXCEPT ![c] = NoBlock],
         wanted' = [wanted EXCEPT ![c] = 0], refused' = 0
  PROVE  BuddyInv'
<1>0. /\ BuddyTyped /\ BlocksTile(allBlocks) /\ allBlocks \subseteq AlignedBlocks
      /\ allBlocks' \subseteq AlignedBlocks
  BY DEF BuddyInv, BlocksTile
<1>1. /\ \A b \in AlignedBlocks : InList(b) \/ IsHeld(b) => b \in allBlocks
      /\ \A d \in Clients : holding[d] \in allBlocks \union {NoBlock}
  BY <1>0, PointersLead
<1>2. holding'[c] = NoBlock /\ \A d \in Clients : d # c => holding'[d] = holding[d]
  BY <1>0 DEF BuddyTyped
<1>3. \A b \in AlignedBlocks : b # NoBlock
  BY NoBlockNotAligned
<1>4. \A b \in AlignedBlocks : IsHeld(b)' => IsHeld(b)
  BY <1>2, <1>3 DEF IsHeld
<1>5. \A b \in AlignedBlocks : IsHeld(b) /\ b # block => IsHeld(b)'
  BY <1>2 DEF IsHeld
<1>6. IsHeld(block) /\ block \in AlignedBlocks
  BY <1>0 DEF IsHeld
<1>7. ASSUME NEW b \in allBlocks'
      PROVE  InList(b)' \/ IsHeld(b)'
  <2>1. CASE b = last
    BY <2>1
  <2>2. CASE b \in allBlocks \ gone /\ b # last
    <3>1. InList(b) \/ IsHeld(b)
      BY <2>2 DEF BuddyInv
    <3> QED
      BY <1>0, <1>5, <2>2, <3>1
  <2> QED
    BY <1>7, <2>1, <2>2
<1>8. ASSUME NEW b \in allBlocks', b \notin remade'
      PROVE  Unshared(b)'
  <2>1. CASE b = last
    <3>1. block = last /\ b \notin remade
      BY <1>8, <2>1
    <3>2. Unshared(b)
      BY <2>1, <3>1 DEF BuddyInv
    <3>3. ~InList(b)
      BY <1>6, <2>1, <3>1, <3>2 DEF Unshared
    <3>4. \A d \in Clients : holding'[d] # b
      BY <1>2, <1>3, <2>1, <3>1, <3>2 DEF Unshared
    <3>5. ~Twice(freeLists'[b.size], b)
      BY <2>1, <3>1, <3>3
    <3> QED
      BY <3>4, <3>5 DEF Unshared, IsHeld
  <2>2. CASE b \in allBlocks \ gone /\ b # last
    <3>1. Unshared(b) /\ b \in AlignedBlocks
      BY <1>0, <1>8, <2>2 DEF BuddyInv
    <3>2. ~Twice(freeLists'[b.size], b)
      BY <2>2, <3>1 DEF Unshared
    <3>3. (InList(b)' => InList(b)) /\ (IsHeld(b)' => IsHeld(b))
      BY <1>4, <2>2, <3>1
    <3>4. \A d, e \in Clients : holding'[d] = b /\ holding'[e] = b => d = e
      BY <1>2, <1>3, <3>1 DEF Unshared
    <3> QED
      BY <3>1, <3>2, <3>3, <3>4 DEF Unshared
  <2> QED
    BY <1>8, <2>1, <2>2
<1>9. \A b \in used' : b \in AlignedBlocks /\ IsHeld(b)'
  <2>1. \A b \in used : b \in AlignedBlocks /\ IsHeld(b)
    BY DEF BuddyInv
  <2> QED
    BY <1>5, <2>1
\* The block that is put to its list, and its buddy.
<1>10. ASSUME NEW d \in allBlocks', 2 * last.size <= MAX_BLOCK_SIZE,
              d = BuddyOf(last.address, last.size)
       PROVE  IsHeld(d)'
  <2>1. d # last
    BY <1>10, BuddyBack
  <2>2. d \in allBlocks \ gone /\ d # block /\ d \in AlignedBlocks
    BY <1>0, <2>1
  <2>3. IsHeld(d)
    <3>1. InList(d) \/ IsHeld(d)
      BY <2>2 DEF BuddyInv
    <3>2. InList(d) => d \in used
      BY <1>10
    <3> QED
      BY <3>1, <3>2 DEF BuddyInv
  <2> QED
    BY <1>5, <2>2, <2>3
<1>11. ASSUME NEW b \in allBlocks', NEW d \in allBlocks',
              2 * b.size <= MAX_BLOCK_SIZE, d = BuddyOf(b.address, b.size)
       PROVE  IsHeld(b)' \/ IsHeld(d)'
  <2>1. b \in AlignedBlocks /\ d \in AlignedBlocks /\ b = BuddyOf(d.address, d.size) /\ d.size = b.size
    BY <1>0, <1>11, BuddyBack
  <2>2. CASE b = last
    BY <1>10, <1>11, <2>2
  <2>3. CASE d = last
    BY <1>10, <1>11, <2>1, <2>3
  <2>4. CASE b \in allBlocks \ gone /\ d \in allBlocks \ gone /\ b # last /\ d # last
    <3>1. IsHeld(b) \/ IsHeld(d)
      BY <1>11, <2>4 DEF BuddyInv
    <3> QED
      BY <1>5, <2>1, <2>4, <3>1
  <2> QED
    BY <1>11, <2>2, <2>3, <2>4
<1>12. ASSUME NEW b \in AlignedBlocks, InList(b)' \/ IsHeld(b)'
       PROVE  b \in allBlocks' \/ b \in remade'
  <2>1. CASE b = last
    BY <2>1
  <2>2. CASE b # last /\ b \notin gone
    <3>1. InList(b) \/ IsHeld(b)
      BY <1>4, <1>12, <2>2
    <3> QED
      BY <1>1, <2>2, <3>1
  <2>3. CASE b # last /\ b \in gone
    <3>1. PICK d \in Clients : d # c /\ holding[d] = b
      BY <1>2, <1>3, <1>12, <2>3 DEF IsHeld
    <3>2. b \in allBlocks /\ IsHeld(b)
      BY <1>1, <1>3, <3>1 DEF IsHeld
    <3>3. ~Unshared(b)
      BY <2>3, <3>1, <3>2 DEF Unshared
    <3> QED
      BY <3>2, <3>3 DEF BuddyInv
  <2> QED
    BY <2>1, <2>2, <2>3
<1>13. ASSUME NEW d \in Clients
       PROVE  holding'[d] = NoBlock \/ holding'[d].size >= wanted'[d] \/ wanted'[d] > MAX_BLOCK_SIZE
  <2>1. d # c => wanted'[d] = wanted[d]
    BY <1>0 DEF BuddyTyped
  <2> QED
    BY <1>2, <2>1 DEF BuddyInv
<1> QED
  BY <1>7, <1>8, <1>9, <1>11, <1>12, <1>13 DEF BuddyInv

LEMMA MergedSizeIs ==
  ASSUME NEW block \in AlignedBlocks
  PROVE  /\ mergedSize(block) \in Sizes /\ block.size <= mergedSize(block)
         /\ \A s \in Steps(block.size, mergedSize(block)) : Joins(block.address, s)
         /\ ~Joins(block.address, mergedSize(block))
<1> DEFINE Ends(t) == /\ block.size <= t
                      /\ \A s \in Sizes : block.size <= s /\ s < t => Joins(block.address, s)
                      /\ ~Joins(block.address, t)
           T == {t \in Sizes : block.size <= t /\ ~Joins(block.address, t)}
<1>1. /\ MAX_BLOCK_SIZE \in Sizes /\ MAX_BLOCK_SIZE \in Nat \ {0} /\ block.size \in Nat
      /\ block.size \in Sizes /\ \A s \in Sizes : s \in Nat /\ s <= MAX_BLOCK_SIZE
  BY SizeFacts, AlignedFacts
<1>2. MAX_BLOCK_SIZE \in T
  <2>1. ~(2 * MAX_BLOCK_SIZE <= MAX_BLOCK_SIZE)
    BY <1>1
  <2> QED
    BY <1>1, <2>1 DEF Joins
<1>3. PICK m \in T : \A s \in T : m <= s
  <2>1. T \in SUBSET Nat
    BY <1>1
  <2> HIDE DEF T
  <2> QED
    BY <1>2, <2>1, LeastExists
<1>4. Ends(m) /\ m \in Sizes
  <2>1. m \in Sizes /\ block.size <= m /\ ~Joins(block.address, m) /\ m \in Nat
    BY <1>1
  <2>2. ASSUME NEW s \in Sizes, block.size <= s, s < m PROVE Joins(block.address, s)
    <3>1. s \in Nat /\ ~(m <= s)
      BY <1>1, <2>1, <2>2
    <3>2. s \notin T
      BY <1>3, <3>1
    <3> QED
      BY <2>2, <3>2
  <2> QED
    BY <2>1, <2>2
<1>5. mergedSize(block) = CHOOSE t \in Sizes : Ends(t)
  BY DEF mergedSize
<1>6. mergedSize(block) \in Sizes /\ Ends(mergedSize(block))
  <2> HIDE DEF Ends
  <2> QED
    BY <1>4, <1>5
<1> QED
  BY <1>6 DEF Steps

LEMMA DeallocateKeepsBuddies ==
  ASSUME BuddyInv, NEW c \in Clients, deallocate(c)
  PROVE  BuddyInv'
<1>0. /\ BuddyTyped /\ BlocksTile(allBlocks) /\ ~Dangling
      /\ \A b \in AlignedBlocks : InList(b) \/ IsHeld(b) => b \in allBlocks
  BY PointersLead DEF BuddyInv, deallocate
<1>1. PICK block \in allBlocks : holding[c] = block /\ coalesce(block)
  BY <1>0, PointersLead DEF deallocate
<1>2. block \in AlignedBlocks /\ block.size \in Sizes /\ block.size \in Nat
  BY <1>0, AlignedFacts DEF BlocksTile
<1> DEFINE a == block.address
           z == block.size
           t == mergedSize(block)
           last == Around(a, t)
           gone == Chain(a, z, t)
<1>3. /\ t \in Sizes /\ z <= t /\ t \in Nat /\ ~Joins(a, t)
      /\ \A s \in Steps(z, t) : Joins(a, s)
  BY <1>2, MergedSizeIs, SizeFacts
<1>4. /\ freeLists' = [s \in Sizes |->
                         IF s # t THEN Removed(freeLists[s], gone)
                         ELSE IF t > z THEN Removed(freeLists[s], gone) \o <<last, last>>
                         ELSE Append(Removed(freeLists[s], gone), last)]
      /\ allBlocks' = (allBlocks \ gone) \union {last}
      /\ used' = used \ (gone \union {last})
      /\ remade' = IF t > z THEN remade \union {last} ELSE remade
  BY <1>1 DEF coalesce, Chain, Steps
<1> HIDE DEF t
<1>5. ASSUME NEW s \in Steps(z, t)
      PROVE  BuddyOf(a, s) \in allBlocks /\ InList(BuddyOf(a, s))
  <2>1. s \in Sizes /\ BuddyOf(a, s) \in ToSet(freeLists[s])
    BY <1>3 DEF Joins, Steps
  <2>2. freeLists[s] \in Seq(AlignedBlocks)
    BY <1>0, <2>1 DEF BuddyTyped
  <2>3. Listed(freeLists[s], BuddyOf(a, s))
    BY <2>1, <2>2, ListedInSet
  <2>4. BuddyOf(a, s) \in AlignedBlocks /\ InList(BuddyOf(a, s))
    BY <1>0, <2>1, <2>3, ListedSize
  <2> QED
    BY <1>0, <2>4
<1>6. /\ last \in AlignedBlocks /\ last.size = t
      /\ BlocksTile((allBlocks \ gone) \union {last})
      /\ \A b \in gone \intersect allBlocks : b = block \/ \E s \in Steps(z, t) : b = BuddyOf(a, s)
      /\ last \notin gone
      /\ \A b \in allBlocks : b = last => block = last
  BY <1>0, <1>3, <1>5, TileMerged
<1>7. z = t <=> block = last
  <2>1. Around(a, z) = block
    BY <1>2, AroundItself
  <2> QED
    BY <1>6, <2>1
<1>8. block \in gone \/ block = last
  <2>1. CASE z < t
    <3>1. z \in Steps(z, t) /\ Around(a, z) = block
      BY <1>2, <2>1, AroundItself DEF Steps
    <3> QED
      BY <3>1 DEF Chain
  <2> QED
    BY <1>2, <1>3, <1>7, <2>1
<1>9. 2 * last.size <= MAX_BLOCK_SIZE /\ InList(BuddyOf(last.address, last.size)) =>
        BuddyOf(last.address, last.size) \in used
  <2> SUFFICES ASSUME 2 * t <= MAX_BLOCK_SIZE, InList(BuddyOf(last.address, t))
               PROVE  BuddyOf(last.address, t) \in used
    BY <1>6
  <2>1. Around(last.address, t) = last
    BY <1>6, AroundItself
  <2>2. BuddyOf(last.address, t) = BuddyOf(a, t)
    BY <2>1 DEF BuddyOf
  <2>3. BuddyOf(a, t).size = t
    BY DEF BuddyOf, BlockAt
  <2>4. freeLists[t] \in Seq(AlignedBlocks) /\ Listed(freeLists[t], BuddyOf(a, t))
    BY <1>0, <1>3, <2>2, <2>3 DEF BuddyTyped, InList
  <2>5. BuddyOf(a, t) \in ToSet(freeLists[t])
    BY <2>4, ListedInSet
  <2> QED
    BY <1>3, <2>2, <2>5 DEF Joins
<1> HIDE DEF gone, last
<1>10. ASSUME NEW s \in Sizes
       PROVE  /\ freeLists'[s] \in Seq(AlignedBlocks)
              /\ \A b : Listed(freeLists'[s], b) <=>
                          (Listed(freeLists[s], b) /\ b \notin gone) \/ (s = t /\ b = last)
              /\ \A b : ~(s = t /\ b = last) /\ Twice(freeLists'[s], b) => Twice(freeLists[s], b)
              /\ s = t /\ z = t /\ Twice(freeLists'[s], last) => Listed(freeLists[s], last)
  <2> DEFINE left == Removed(freeLists[s], gone)
  <2>1. /\ left \in Seq(AlignedBlocks)
        /\ \A b : Listed(left, b) <=> Listed(freeLists[s], b) /\ b \notin gone
        /\ \A b : Twice(left, b) => Twice(freeLists[s], b)
    BY <1>0, RemovedLists DEF BuddyTyped
  <2>2. freeLists'[s] = IF s # t THEN left
                        ELSE IF t > z THEN left \o <<last, last>> ELSE Append(left, last)
    BY <1>4
  <2> HIDE DEF left
  <2>3. CASE s # t
    BY <2>1, <2>2, <2>3
  <2>4. CASE s = t
    <3>1. /\ Append(left, last) \in Seq(AlignedBlocks)
          /\ \A b : Listed(Append(left, last), b) <=> Listed(left, b) \/ b = last
          /\ \A b : Twice(Append(left, last), b) /\ b # last => Twice(left, b)
          /\ Twice(Append(left, last), last) => Listed(left, last)
      BY <1>6, <2>1, AppendLists
    <3> DEFINE once == Append(left, last)
    <3>2. CASE t > z
      <4>1. freeLists'[s] = Append(once, last)
        BY <1>6, <2>1, <2>2, <2>4, <3>2, AppendTwice
      <4> HIDE DEF once
      <4>2. once \in Seq(AlignedBlocks)
        BY <3>1 DEF once
      <4>3. /\ Append(once, last) \in Seq(AlignedBlocks)
            /\ \A b : Listed(Append(once, last), b) <=> Listed(once, b) \/ b = last
            /\ \A b : Twice(Append(once, last), b) /\ b # last => Twice(once, b)
        BY <1>6, <4>2, AppendLists
      <4>4. /\ \A b : Listed(once, b) <=> Listed(left, b) \/ b = last
            /\ \A b : Twice(once, b) /\ b # last => Twice(left, b)
        BY <3>1 DEF once
      <4> QED
        BY <1>2, <1>3, <2>1, <2>4, <3>2, <4>1, <4>3, <4>4
    <3>3. CASE ~(t > z)
      BY <2>1, <2>2, <2>4, <3>1, <3>3
    <3> QED
      BY <3>2, <3>3
  <2> QED
    BY <2>3, <2>4
<1>11. BuddyTyped'
  <2>1. freeLists' \in [Sizes -> Seq(AlignedBlocks)]
    <3>1. freeLists' = [s \in Sizes |-> freeLists'[s]]
      BY <1>4
    <3> QED
      BY <1>10, <3>1
  <2>2. \A s \in Sizes : \A b : Listed(freeLists'[s], b) => b.size = s
    BY <1>0, <1>6, <1>10, ListedSize
  <2>3. \A s \in Sizes : \A i \in 1..Len(freeLists'[s]) : freeLists'[s][i].size = s
    BY <2>2 DEF Listed
  <2>4. holding' \in [Clients -> AlignedBlocks \union {NoBlock}]
    BY <1>0 DEF BuddyTyped, deallocate
  <2>5. wanted' \in [Clients -> Nat]
    BY <1>0 DEF BuddyTyped, deallocate
  <2> QED
    BY <2>1, <2>3, <2>4, <2>5 DEF BuddyTyped
<1>12. ASSUME NEW b \in AlignedBlocks
       PROVE  /\ InList(b)' <=> (InList(b) /\ b \notin gone) \/ b = last
              /\ b # last /\ Twice(freeLists'[b.size], b) => Twice(freeLists[b.size], b)
  <2>1. b.size \in Sizes /\ (b = last => b.size = t)
    BY <1>6, AlignedFacts
  <2> QED
    BY <1>10, <2>1 DEF InList
<1>13. block = last /\ Twice(freeLists'[last.size], last) => InList(last)
  BY <1>3, <1>6, <1>7, <1>10 DEF InList
<1>14. remade' = IF block = last THEN remade ELSE remade \union {last}
  BY <1>2, <1>3, <1>4, <1>7
<1>15. \A b \in gone \intersect allBlocks : b = block \/ InList(b)
  BY <1>5, <1>6
<1>16. BlocksTile(allBlocks')
  BY <1>4, <1>6
<1>17. /\ holding' = [holding EXCEPT ![c] = NoBlock]
       /\ wanted' = [wanted EXCEPT ![c] = 0] /\ refused' = 0
  BY DEF deallocate
<1>18. last \in allBlocks => block = last
  BY <1>6
<1> QED
  BY <1>0, <1>1, <1>4, <1>6, <1>8, <1>9, <1>11, <1>12, <1>13, <1>14, <1>15, <1>16, <1>17, <1>18, BlockFreed

LEMMA BuddyInvNext == BuddyInv /\ [BuddyNext]_buddyVars => BuddyInv'
<1> SUFFICES ASSUME BuddyInv, [BuddyNext]_buddyVars PROVE BuddyInv'
  OBVIOUS
<1>1. ASSUME NEW c \in Clients, NEW request \in BuddyRequests, allocate(c, request)
      PROVE  BuddyInv'
  BY <1>1, BuddyAssumption, AllocateKeepsBuddies
<1>2. ASSUME NEW c \in Clients, NEW request \in BuddyRequests, BuddyRefuses(c, request)
      PROVE  BuddyInv'
  BY <1>2, BuddyAssumption, RefusingKeepsBuddies
<1>3. ASSUME NEW c \in Clients, deallocate(c)
      PROVE  BuddyInv'
  BY <1>3, DeallocateKeepsBuddies
<1>4. CASE UNCHANGED buddyVars
  <2>1. /\ freeLists' = freeLists /\ allBlocks' = allBlocks /\ used' = used
        /\ holding' = holding /\ wanted' = wanted /\ remade' = remade /\ refused' = refused
    BY <1>4 DEF buddyVars
  <2>2. BuddyTyped' /\ BlocksTile(allBlocks')
    BY <2>1 DEF BuddyInv, BuddyTyped
  <2>3. \A b : /\ InList(b)' <=> InList(b)
               /\ IsHeld(b)' <=> IsHeld(b)
               /\ Unshared(b)' <=> Unshared(b)
    BY <2>1 DEF InList, IsHeld, Unshared
  <2> QED
    BY <2>1, <2>2, <2>3 DEF BuddyInv
<1> QED
  BY <1>1, <1>2, <1>3, <1>4 DEF BuddyNext

-----------------------------------------------------------------------------
(* PageTable.                                                              *)

\* The frames of the table are the used ones, and no two pages have the same.
TableInv ==
  /\ nextPage \in 0..NUM_PAGES
  /\ frameOf \in [PageNumbers -> Frames \union {Invalid}]
  /\ usedFrames \subseteq Frames
  /\ \A p \in PageNumbers : p >= nextPage => frameOf[p] = Invalid
  /\ \A p \in PageNumbers : frameOf[p] # Invalid => frameOf[p] \in usedFrames
  /\ \A p, q \in PageNumbers : frameOf[p] = frameOf[q] /\ frameOf[p] # Invalid => p = q

LEMMA TableInvInit == TableInit => TableInv
  BY TranslationAssumption DEF TableInit, TableInv, PageNumbers

LEMMA TableInvNext == TableInv /\ [TableNext]_tableVars => TableInv'
<1> SUFFICES ASSUME TableInv, [TableNext]_tableVars PROVE TableInv'
  OBVIOUS
<1>0. NUM_PAGES \in Nat /\ NUM_FRAMES \in Nat /\ Invalid \notin Frames
  BY TranslationAssumption DEF Invalid, Frames
<1>1. CASE MapPage
  <2>1. nextPage \in PageNumbers /\ nextPage' = nextPage + 1
    BY <1>0, <1>1 DEF MapPage, TableInv, PageNumbers
  <2>2. PICK frame \in Frames \ usedFrames :
          /\ frameOf' = [frameOf EXCEPT ![nextPage] = frame]
          /\ usedFrames' = usedFrames \union {frame}
    BY <1>1 DEF MapPage, Drawable
  <2>3. frameOf'[nextPage] = frame /\ \A p \in PageNumbers \ {nextPage} : frameOf'[p] = frameOf[p]
    BY <2>1, <2>2 DEF TableInv
  <2>4. \A p \in PageNumbers : frameOf[p] # frame
    BY <1>0, <2>2 DEF TableInv
  <2>5. /\ nextPage' \in 0..NUM_PAGES
        /\ frameOf' \in [PageNumbers -> Frames \union {Invalid}]
        /\ usedFrames' \subseteq Frames
    BY <1>0, <1>1, <2>1, <2>2 DEF MapPage, TableInv
  <2>6. \A p \in PageNumbers : p >= nextPage' => frameOf'[p] = Invalid
    BY <1>0, <2>1, <2>3 DEF TableInv, PageNumbers
  <2>7. \A p \in PageNumbers : frameOf'[p] # Invalid => frameOf'[p] \in usedFrames'
    BY <2>2, <2>3 DEF TableInv
  <2>8. \A p, q \in PageNumbers : frameOf'[p] = frameOf'[q] /\ frameOf'[p] # Invalid => p = q
    BY <2>3, <2>4 DEF TableInv
  <2> QED
    BY <2>5, <2>6, <2>7, <2>8 DEF TableInv
<1>2. CASE SkipPage
  BY <1>0, <1>2 DEF SkipPage, TableInv, PageNumbers
<1>3. CASE DrawForEver \/ UNCHANGED tableVars
  BY <1>3 DEF DrawForEver, tableVars, TableInv
<1> QED
  BY <1>1, <1>2, <1>3 DEF TableNext

\* What division and remainder of an address are.
LEMMA PageAndOffset ==
  ASSUME NEW P \in Nat \ {0}, NEW a \in Nat
  PROVE  /\ a \div P \in Nat /\ a % P \in 0..P - 1
         /\ a = (a \div P) * P + (a % P)
  BY SMTT(30)

LEMMA TableApart == TableInv => PagesApart
<1> SUFFICES ASSUME TableInv, nextPage = NUM_PAGES, NEW a \in LogicalAddresses, NEW b \in LogicalAddresses
             PROVE  /\ translatePage(a) \in -1..NUM_FRAMES * PAGE_SIZE - 1
                    /\ a # b /\ translatePage(a) # -1 => translatePage(a) # translatePage(b)
  BY DEF PagesApart
<1> DEFINE P == PAGE_SIZE
           page(x) == x \div P
           mapped(x) == page(x) < NUM_PAGES /\ frameOf[page(x)] # Invalid
<1>1. /\ P \in Nat \ {0} /\ NUM_PAGES \in Nat /\ NUM_FRAMES \in Nat \ {0}
      /\ a \in Nat /\ b \in Nat
  BY TranslationAssumption DEF LogicalAddresses
<1>2. \A x \in Nat : /\ page(x) \in Nat /\ x % P \in 0..P - 1
                     /\ x = page(x) * P + (x % P)
  BY <1>1, PageAndOffset
<1>3. \A x \in Nat : translatePage(x) = IF mapped(x) THEN frameOf[page(x)] * P + (x % P) ELSE -1
  BY <1>1, <1>2 DEF translatePage
<1>4. \A x \in Nat : mapped(x) => page(x) \in PageNumbers /\ frameOf[page(x)] \in 0..NUM_FRAMES - 1
  <2> SUFFICES ASSUME NEW x \in Nat, mapped(x)
               PROVE  page(x) \in PageNumbers /\ frameOf[page(x)] \in Frames
    BY DEF Frames
  <2>1. page(x) \in Nat
    BY <1>2
  <2>2. page(x) < NUM_PAGES /\ frameOf[page(x)] # Invalid
    OBVIOUS
  <2> HIDE DEF page, mapped
  <2>3. page(x) \in PageNumbers
    BY <1>1, <2>1, <2>2 DEF PageNumbers
  <2> QED
    BY <2>2, <2>3 DEF TableInv
<1> HIDE DEF page, mapped
<1>5. ASSUME NEW x \in Nat, mapped(x)
      PROVE  frameOf[page(x)] * P + (x % P) \in 0..NUM_FRAMES * P - 1
  <2>1. PICK f \in 0..NUM_FRAMES - 1 : f = frameOf[page(x)]
    BY <1>4, <1>5
  <2>2. PICK o \in 0..P - 1 : o = x % P
    BY <1>2
  <2>3. f * P + o \in 0..NUM_FRAMES * P - 1
    <3>1. (f + 1) * P <= NUM_FRAMES * P
      BY <1>1, SMTT(30)
    <3>2. (f + 1) * P = f * P + P
      BY <1>1, SMTT(30)
    <3>3. f * P \in Nat /\ NUM_FRAMES * P \in Nat
      BY <1>1, SMTT(30)
    <3> QED
      BY <1>1, <3>1, <3>2, <3>3
  <2> QED
    BY <2>1, <2>2, <2>3
<1>6. translatePage(a) \in -1..NUM_FRAMES * P - 1
  <2>1. NUM_FRAMES * P \in Nat \ {0}
    BY <1>1, SMTT(30)
  <2> QED
    BY <1>1, <1>3, <1>5, <2>1
<1>7. ASSUME a # b, mapped(a), translatePage(a) = translatePage(b)
      PROVE  FALSE
  <2>1. mapped(b)
    BY <1>1, <1>3, <1>5, <1>7
  <2>2. frameOf[page(a)] * P + (a % P) = frameOf[page(b)] * P + (b % P)
    BY <1>1, <1>3, <1>7, <2>1
  <2>3. frameOf[page(a)] \in Nat /\ frameOf[page(b)] \in Nat
    BY <1>1, <1>4, <1>7, <2>1
  <2>4. frameOf[page(a)] = frameOf[page(b)] /\ a % P = b % P
    <3>1. PICK f, g, x, y : /\ f = frameOf[page(a)] /\ g = frameOf[page(b)]
                            /\ x = a % P /\ y = b % P
      OBVIOUS
    <3>2. x \in 0..P - 1 /\ y \in 0..P - 1
      BY <1>1, <1>2, <3>1
    <3>3. f \in Nat /\ g \in Nat /\ f * P + x = g * P + y
      BY <2>2, <2>3, <3>1
    <3>4. f = g /\ x = y
      BY <1>1, <3>2, <3>3, FrameAndOffset
    <3> QED
      BY <3>1, <3>4
  <2>5. page(a) = page(b)
    BY <1>1, <1>4, <1>7, <2>1, <2>4 DEF TableInv, mapped
  <2> QED
    BY <1>1, <1>2, <1>7, <2>4, <2>5
<1> QED
  BY <1>1, <1>3, <1>6, <1>7

-----------------------------------------------------------------------------
(* SegmentationSystem.                                                     *)

\* The segments that addSegmentAuto has placed and that are still there.
Automatic == {s \in Segments \ byHand : segmentTable[s] # NoSegment}

EndOf(s) == segmentTable[s].base + segmentTable[s].limit

\* They end below nextAvailableAddress, one after the other.
SegmentInv ==
  /\ nextAvailableAddress \in Nat
  /\ byHand \subseteq Segments
  /\ segmentTable \in [Segments -> [base : Nat, limit : Nat]]
  /\ \A s \in Automatic : EndOf(s) <= nextAvailableAddress
  /\ \A s, t \in Automatic :
       s # t => EndOf(s) <= segmentTable[t].base \/ EndOf(t) <= segmentTable[s].base

LEMMA SegmentInvInit == SegmentInit => SegmentInv
  BY TranslationAssumption DEF SegmentInit, SegmentInv, NoSegment, Automatic

LEMMA SegmentInvNext == SegmentInv /\ [SegmentNext]_segmentVars => SegmentInv'
<1> SUFFICES ASSUME SegmentInv, [SegmentNext]_segmentVars PROVE SegmentInv'
  OBVIOUS
<1>1. ASSUME NEW s \in Segments, NEW size \in SegmentSizes, NEW base \in 0..MaxAddress - 1,
             addSegment(s, base, size)
      PROVE  SegmentInv'
  <2>1. size \in Nat /\ base \in Nat
    BY TranslationAssumption
  <2>2. segmentTable' \in [Segments -> [base : Nat, limit : Nat]] /\ byHand' \subseteq Segments
        /\ nextAvailableAddress' = nextAvailableAddress
    BY <1>1, <2>1 DEF addSegment, SegmentInv
  <2>3. \A t \in Automatic' : t \in Automatic /\ segmentTable'[t] = segmentTable[t]
    BY <1>1 DEF addSegment, SegmentInv, Automatic
  <2> QED
    BY <2>2, <2>3 DEF SegmentInv, EndOf
<1>2. ASSUME NEW s \in Segments, NEW size \in SegmentSizes, addSegmentAuto(s, size)
      PROVE  SegmentInv'
  <2>1. size \in Nat /\ nextAvailableAddress \in Nat
    BY TranslationAssumption DEF SegmentInv
  <2>2. /\ segmentTable' = [segmentTable EXCEPT ![s] =
                              [base |-> nextAvailableAddress, limit |-> size]]
        /\ nextAvailableAddress' = nextAvailableAddress + size
        /\ byHand' = byHand \ {s}
    BY <1>2 DEF addSegmentAuto, Place
  <2>3. /\ segmentTable' \in [Segments -> [base : Nat, limit : Nat]]
        /\ byHand' \subseteq Segments /\ nextAvailableAddress' \in Nat
    BY <2>1, <2>2 DEF SegmentInv
  <2>4. /\ segmentTable'[s].base = nextAvailableAddress
        /\ segmentTable'[s].limit = size
    BY <2>2 DEF SegmentInv
  <2>5. \A t \in Automatic' \ {s} : t \in Automatic /\ segmentTable'[t] = segmentTable[t]
    BY <2>2 DEF SegmentInv, Automatic
  <2>6. \A t \in Automatic : EndOf(t) \in Nat /\ EndOf(t) <= nextAvailableAddress
    BY DEF SegmentInv, Automatic, EndOf
  <2>7. \A t \in Automatic' : EndOf(t)' <= nextAvailableAddress'
    BY <2>1, <2>2, <2>4, <2>5, <2>6 DEF EndOf
  <2>8. ASSUME NEW t \in Automatic', NEW u \in Automatic', t # u
        PROVE  EndOf(t)' <= segmentTable'[u].base \/ EndOf(u)' <= segmentTable'[t].base
    <3>1. CASE t # s /\ u # s
      BY <2>5, <2>8, <3>1 DEF SegmentInv, EndOf
    <3>2. CASE t = s \/ u = s
      BY <2>4, <2>5, <2>6, <2>8, <3>2 DEF EndOf
    <3> QED
      BY <3>1, <3>2
  <2> QED
    BY <2>3, <2>7, <2>8 DEF SegmentInv
<1>3. CASE UNCHANGED segmentVars
  BY <1>3 DEF segmentVars, SegmentInv, Automatic, EndOf
<1> QED
  BY <1>1, <1>2, <1>3 DEF SegmentNext

LEMMA SegmentInvApart == SegmentInv => SegmentsApart
<1> SUFFICES ASSUME SegmentInv,
                    NEW s \in -1..MAX_SEGMENTS, NEW t \in -1..MAX_SEGMENTS,
                    NEW x \in Offsets, NEW y \in Offsets,
                    s # t, translateSegment(s, x) # -1,
                    translateSegment(s, x) = translateSegment(t, y),
                    s \notin byHand, t \notin byHand
             PROVE  FALSE
  BY DEF SegmentsApart
<1>0. x \in Int /\ y \in Int
  BY DEF Offsets
<1>1. /\ s \in Automatic /\ 0 <= x /\ x < segmentTable[s].limit
      /\ translateSegment(s, x) = segmentTable[s].base + x
  BY <1>0 DEF translateSegment, Automatic, SegmentInv
<1>2. /\ t \in Automatic /\ 0 <= y /\ y < segmentTable[t].limit
      /\ translateSegment(t, y) = segmentTable[t].base + y
  BY <1>0 DEF translateSegment, Automatic, SegmentInv
<1>3. EndOf(s) <= segmentTable[t].base \/ EndOf(t) <= segmentTable[s].base
  BY <1>1, <1>2 DEF SegmentInv
<1>4. /\ segmentTable[s].base \in Nat /\ segmentTable[s].limit \in Nat
      /\ segmentTable[t].base \in Nat /\ segmentTable[t].limit \in Nat
  BY <1>1, <1>2 DEF SegmentInv, Automatic
<1>5. segmentTable[s].base + x = segmentTable[t].base + y
  BY <1>1, <1>2
<1>6. \/ segmentTable[s].base + segmentTable[s].limit <= segmentTable[t].base
      \/ segmentTable[t].base + segmentTable[t].limit <= segmentTable[s].base
  BY <1>3 DEF EndOf
<1>7. 0 <= x /\ x < segmentTable[s].limit /\ 0 <= y /\ y < segmentTable[t].limit
  BY <1>1, <1>2
<1> QED
  BY <1>0, <1>4, <1>5, <1>6, <1>7

-----------------------------------------------------------------------------
(* Memory: each step is one of the program that runs.                      *)

MemoryInv ==
  /\ FIFOInv /\ LRUInv
  /\ FitInv
  /\ LabInv /\ SearchInv
  /\ BuddyInv
  /\ TableInv
  /\ SegmentInv

LEMMA MemoryInvInit == MemoryInit => MemoryInv
  BY FIFOInvInit, LRUInvInit, FitInvInit, LabInvInit, SearchInvInit, BuddyInvInit,
     TableInvInit, SegmentInvInit
  DEF MemoryInit, PagingInit, MemoryInv

LEMMA ProgramSteps ==
  ASSUME [MemoryNext]_memoryVars
  PROVE  /\ [Next]_vars
         /\ [PagingNext]_<<vars, tlbVars>>
         /\ [FitNext]_fitVars
         /\ [LabNext]_labVars
         /\ [BuddyNext]_buddyVars
         /\ [TableNext]_tableVars
         /\ [SegmentNext]_segmentVars
<1>1. CASE UNCHANGED memoryVars
  BY <1>1 DEF memoryVars
<1>2. PagingNext => [Next]_vars
  BY DEF PagingNext, PagingReference, PagingOver, Next
<1>3. CASE MemoryNext
  BY <1>2, <1>3 DEF MemoryNext, Run
<1> QED
  BY <1>1, <1>3

LEMMA MemoryInvNext == MemoryInv /\ [MemoryNext]_memoryVars => MemoryInv'
<1> SUFFICES ASSUME MemoryInv, [MemoryNext]_memoryVars PROVE MemoryInv'
  OBVIOUS
<1> QED
  BY ProgramSteps, FIFOInvNext, LRUInvNext, FitInvNext, LabInvNext, SearchInvNext,
     BuddyInvNext, TableInvNext, SegmentInvNext
  DEF MemoryInv

LEMMA MemoryInvariance == MemorySpec => []MemoryInv
  BY MemoryInvInit, MemoryInvNext, PTL DEF MemorySpec

\* The queue and the set of Lab8 and the array and the indices of Lab9 hold the
\* same pages in the same order and count the same faults, for any number of
\* frames and any string (page_replacement_algorithm.cpp 27-49 and
\* FIFO_page_replacement_algorithm.cpp).
THEOREM FIFOsSame == MemorySpec => []FIFOsAgree
<1>1. MemoryInv => FIFOsAgree
  BY FIFOInvAgree DEF MemoryInv
<1> QED
  BY <1>1, MemoryInvariance, PTL

\* For any strings, numbers of frames, page tables and sizes of the TLBs, the
\* time stamps, the list of pages and the list of entries hold the pages that
\* were referenced last, the keys of the maps are what the lists hold, and every
\* entry has the frame of its page (LRU_page_replacement_algorithm.cpp,
\* TLB_simulator.cpp 22-49, TLB.cpp 26-74, Work_set_simulator.cpp).
THEOREM LRUsSame == MemorySpec => []LRUsKeepLatest
<1>1. MemoryInv => LRUsKeepLatest
  BY LRUInvKeeps DEF MemoryInv
<1> QED
  BY <1>1, MemoryInvariance, PTL

\* For any size of the memory and any requests, MemoryManager fails only when
\* no run of free units is long enough, since splitting and merging lose nothing
\* (memory_allocation_simulation.cpp 23-33 and 41-198), and the search of
\* BuddyAllocator goes astray only when every place is in use in part, or has
\* been split and is not merged again (Buddy_system_simulator.cpp 34-81).
THEOREM FailuresJustified == MemorySpec => []FailsOnlyIfNothingFits
<1>1. MemoryInv => FailsOnlyIfNothingFits
  BY FitInvFails, SearchInvEnds DEF MemoryInv, FailsOnlyIfNothingFits
<1> QED
  BY <1>1, MemoryInvariance, PTL

\* For any size of the memory, any clients and any requests, BuddySystem refuses
\* a request only when every aligned place for it is in use in part: two free
\* buddies are never left apart (memory_allocation_with_buddy.cpp 47-147 and
\* 167-213).
THEOREM RefusalsJustified == MemorySpec => []RefusesOnlyWithoutBlock
<1>1. MemoryInv => RefusesOnlyWithoutBlock
  BY BuddyRefusing DEF MemoryInv
<1> QED
  BY <1>1, MemoryInvariance, PTL

\* Whoever shares a block with another client, or points to one that has been
\* deleted, has got one that a chain of merges has put into its list twice
\* (memory_allocation_with_buddy.cpp 184-210); nobody gets less than he asked
\* for unless he asked for more than there is.
THEOREM SharingExplained == MemorySpec => []SharedOnlyIfRemade
<1>1. MemoryInv => SharedOnlyIfRemade
  BY BuddySharing DEF MemoryInv
<1> QED
  BY <1>1, MemoryInvariance, PTL

\* For any size of the memory, any clients and any requests, MemoryManager and
\* BuddyAllocator implement the abstract allocator: a block that is granted is as
\* large as the call asked for, within the memory and on units nobody holds; a
\* deallocation takes back what the process holds, or the block at the address,
\* and nothing else; and calls that fail change nothing in use
\* (memory_allocation_simulation.cpp 41-198, Buddy_system_simulator.cpp 34-81).
THEOREM AllocatorsImplement == MemorySpec => ImplementsAllocator
<1>1. MemoryInit => FitPlacement!Init /\ LabPlacement!Init
  BY FitStart, LabStart DEF MemoryInit
<1>2. MemoryInv /\ [MemoryNext]_memoryVars =>
        /\ [FitPlacement!Next]_<<FitInUse, fitCall>>
        /\ [LabPlacement!Next]_<<LabInUse, labCall>>
  BY ProgramSteps, FitStep, LabStep DEF MemoryInv
<1> QED
  BY <1>1, <1>2, MemoryInvariance, PTL
  DEF MemorySpec, ImplementsAllocator, FitPlacement!Spec, LabPlacement!Spec

\* For any numbers of pages, frames and segments, no two logical addresses of a
\* page table, and of the segments that addSegmentAuto places, lead to the same
\* physical address (address_translation_simulator.cpp 20-77,
\* segmentation_simulation.cpp 28-104).
THEOREM NothingAliased == MemorySpec => []NoAliasing
<1>1. MemoryInv => NoAliasing
  BY TableApart, SegmentInvApart DEF MemoryInv, NoAliasing
<1> QED
  BY <1>1, MemoryInvariance, PTL
=============================================================================
