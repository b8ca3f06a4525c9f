--------------------------------- MODULE Paging --------------------------------
(***************************************************************************)
(* The simulators of PageReplacement and of TLB on one reference string,   *)
(* one reference at a time.  The programs do not call each other: this     *)
(* module states what they, written apart, must have in common.            *)
(***************************************************************************)
EXTENDS PageReplacement, TLB

PagingInit == Init /\ TLBInit

PagingReference == Reference /\ TLBReference(reference[time + 1])

PagingOver == Over /\ UNCHANGED tlbVars

PagingNext == PagingReference \/ PagingOver

PagingSpec == PagingInit /\ [][PagingNext]_<<vars, tlbVars>>

-----------------------------------------------------------------------------
\* When p was referenced last, or 0.
LastUse(p) == Max({0} \union {i \in 1..time : reference[i] = p})

\* The n pages of S that were referenced last.
Latest(S, n) ==
  {p \in S : /\ LastUse(p) > 0
             /\ Cardinality({q \in S : LastUse(q) > LastUse(p)}) < n}

\* The list holds the n pages of S that were referenced last, the latest first.
ListsLatest(list, S, n) ==
  /\ ToSet(list) = Latest(S, n)
  /\ \A i, j \in DOMAIN list : i < j => LastUse(list[i]) > LastUse(list[j])

\* LRUsKeepLatest: the three forms of LRU, by time stamps, by a list of pages
\* and by a list of entries in front of a page table, keep the pages that were
\* referenced last, however hits and evictions interleave; both maps have the
\* keys that their lists have, each entry has the frame of its page, a page
\* fault leaves the TLB as it is, and the working set is always in memory.
LRUsKeepLatest ==
  LET held == {frames[i].pageNumber : i \in Indices} \ {NoPage}
      cached == [i \in DOMAIN tlbCache |-> tlbCache[i].pageNumber]
  IN /\ held = Latest(Pages, NumFrames)
     /\ workingSet(NumFrames) \subseteq held
     /\ ListsLatest(lru, Pages, capacity) /\ table = ToSet(lru)
     /\ ListsLatest(cached, DOMAIN pageTable, TLB_SIZE) /\ tlbMap = ToSet(cached)
     /\ \A i \in DOMAIN tlbCache : tlbCache[i].frameNumber = pageTable[cached[i]]
     /\ capacity = NumFrames => faults.lru = misses.lab9
=============================================================================
