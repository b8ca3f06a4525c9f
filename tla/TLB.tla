---------------------------------- MODULE TLB ----------------------------------
(***************************************************************************)
(* The translation look-aside buffers of Lab8/TLB.cpp, whose classes TLB   *)
(* and MemorySystem keep page and frame numbers beside a page table, and   *)
(* of Lab9/TLB_simulator.cpp, which keeps page numbers alone.  Each is a   *)
(* list, the page used last in front, and an unordered_map from the pages  *)
(* to the nodes of the list.  Nodes do not move in a std::list, so that a  *)
(* map is here the set of its keys, and the node of a key the entry of     *)
(* that page.                                                              *)
(***************************************************************************)
EXTENDS Integers, Sequences, SequencesExt

CONSTANTS TLB_SIZE,   \* entries of the Lab8 TLB
          capacity,   \* entries of the Lab9 TLB
          pageTable   \* MemorySystem::pageTable, a function from pages to frames

ASSUME SizesAssumption == TLB_SIZE \in Nat \ {0} /\ capacity \in Nat \ {0}
ASSUME PageTableAssumption == pageTable \in [DOMAIN pageTable -> Nat]

VARIABLES tlbCache, tlbMap, \* Lab8: the list of entries and the keys of the map
          lru, table,       \* Lab9: the list of pages and the keys of the map
          hits, misses      \* per program, what it has counted

tlbVars == <<tlbCache, tlbMap, lru, table, hits, misses>>

TLBInit ==
  /\ tlbCache = <<>> /\ tlbMap = {}
  /\ lru = <<>> /\ table = {}
  /\ hits = [lab8 |-> 0, lab9 |-> 0] /\ misses = [lab8 |-> 0, lab9 |-> 0]

-----------------------------------------------------------------------------
(* Mutated forms of the operations below.                                  *)

\* A hit leaves the list as it is.
AccessHitInPlace(page) ==
  /\ page \in table
  /\ UNCHANGED <<lru, table>>

-----------------------------------------------------------------------------
(* Lab8: TLB and MemorySystem.                                             *)

\* lookup finds the node of the page and moves it to the front.
Lookup(page) ==
  /\ page \in tlbMap
  /\ \E i \in DOMAIN tlbCache :
       /\ tlbCache[i].pageNumber = page
       /\ tlbCache' = <<tlbCache[i]>> \o RemoveAt(tlbCache, i)
  /\ UNCHANGED tlbMap

\* insert after a miss: the last entry makes room for the new one.  (That
\* the page is in the TLB already, which insert also provides for, cannot be
\* after a miss.)
Insert(page) ==
  LET new == [pageNumber |-> page, frameNumber |-> pageTable[page]]
  IN \/ /\ Len(tlbCache) >= TLB_SIZE
        /\ tlbCache' = <<new>> \o Front(tlbCache)
        /\ tlbMap' = (tlbMap \ {Last(tlbCache).pageNumber}) \union {page}
     \/ /\ Len(tlbCache) < TLB_SIZE
        /\ tlbCache' = <<new>> \o tlbCache
        /\ tlbMap' = tlbMap \union {page}

\* translateAddress: the TLB, then the page table, whose answer is inserted,
\* or else a page fault.
translateAddress(page) ==
  \/ Lookup(page)
  \/ page \notin tlbMap /\ page \in DOMAIN pageTable /\ Insert(page)
  \/ page \notin tlbMap /\ page \notin DOMAIN pageTable /\ UNCHANGED <<tlbCache, tlbMap>>

-----------------------------------------------------------------------------
(* Lab9: TLB::access.                                                      *)

AccessHit(page) ==
  /\ page \in table
  /\ \E i \in DOMAIN lru : lru[i] = page /\ lru' = <<page>> \o RemoveAt(lru, i)
  /\ UNCHANGED table

AccessMiss(page) ==
  /\ page \notin table
  /\ \/ /\ Len(lru) = capacity
        /\ lru' = <<page>> \o Front(lru)
        /\ table' = (table \ {Last(lru)}) \union {page}
     \/ /\ Len(lru) # capacity
        /\ lru' = <<page>> \o lru
        /\ table' = table \union {page}

-----------------------------------------------------------------------------
\* Both programs go on by one reference.
TLBReference(page) ==
  LET hit == [lab8 |-> page \in tlbMap, lab9 |-> page \in table]
  IN /\ translateAddress(page)
     /\ AccessHit(page) \/ AccessMiss(page)
     /\ hits' = [p \in DOMAIN hits |-> hits[p] + (IF hit[p] THEN 1 ELSE 0)]
     /\ misses' = [p \in DOMAIN misses |-> misses[p] + (IF hit[p] THEN 0 ELSE 1)]

TLBTypeOK ==
  /\ tlbCache \in Seq([pageNumber : DOMAIN pageTable, frameNumber : Nat])
  /\ Len(tlbCache) <= TLB_SIZE
  /\ tlbMap \subseteq DOMAIN pageTable
  /\ Len(lru) <= capacity
  /\ hits \in [{"lab8", "lab9"} -> Nat] /\ misses \in [{"lab8", "lab9"} -> Nat]
=============================================================================
