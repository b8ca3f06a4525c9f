--------------------------- MODULE ContiguousMemory ---------------------------
(***************************************************************************)
(* The class MemoryManager of Lab8/memory_allocation_simulation.cpp: one   *)
(* list of blocks in the order of their addresses, from which processes    *)
(* allocate by first, best or worst fit.  The program makes one manager    *)
(* for each of the three; here the calls of one manager may mix them.      *)
(***************************************************************************)
EXTENDS Integers, Sequences, SequencesExt

CONSTANTS TOTAL_MEMORY,
          ProcessIDs,
          FitSizes     \* the sizes that processes ask for

NoProcess == -1        \* the processID of a free block

ASSUME FitAssumption ==
  /\ TOTAL_MEMORY \in Nat \ {0}
  /\ FitSizes \subseteq Nat \ {0}
  /\ ProcessIDs \subseteq Nat

VARIABLES blocks,      \* the memory map
          fitCall      \* history: the last call, for which process and size, and its answer

fitVars == <<blocks, fitCall>>

Block(start, size, owner) ==
  [startAddress |-> start, size |-> size, processID |-> owner]

isFree(block) == block.processID = NoProcess

FitInit ==
  /\ blocks = <<Block(0, TOTAL_MEMORY, NoProcess)>>
  /\ fitCall = [handle |-> NoProcess, size |-> 0, answer |-> "none"]

FitAnswers(pid, size, answer) ==
  fitCall' = [handle |-> pid, size |-> size, answer |-> answer]

\* The blocks a request fits into.
Holes(size) == {i \in DOMAIN blocks : isFree(blocks[i]) /\ blocks[i].size >= size}

-----------------------------------------------------------------------------
(* Mutated forms of the operations below.                                  *)

\* Free neighbors stay apart.
AbsorbNothing(merged, block) == Append(merged, block)

\* deallocate does not compare the process.
FreedOfAll(pid) == [i \in DOMAIN blocks |-> [blocks[i] EXCEPT !.processID = NoProcess]]

-----------------------------------------------------------------------------
\* The hole that each policy chooses; the loops keep the first among equals.
FirstFit(size) == CHOOSE i \in Holes(size) : \A j \in Holes(size) : i <= j

BestFit(size) ==
  CHOOSE i \in Holes(size) : \A j \in Holes(size) :
    blocks[i].size < blocks[j].size \/ (blocks[i].size = blocks[j].size /\ i <= j)

WorstFit(size) ==
  CHOOSE i \in Holes(size) : \A j \in Holes(size) :
    blocks[i].size > blocks[j].size \/ (blocks[i].size = blocks[j].size /\ i <= j)

\* The map after block i is given to pid: what is left over becomes a free
\* block behind it.
Taken(i, pid, size) ==
  LET hole == blocks[i]
      mine == [blocks EXCEPT ![i] = Block(hole.startAddress, size, pid)]
  IN IF hole.size > size
     THEN InsertAt(mine, i + 1,
                   Block(hole.startAddress + size, hole.size - size, NoProcess))
     ELSE mine

allocateFit(pid, size) ==
  /\ Holes(size) # {}
  /\ \E i \in {FirstFit(size), BestFit(size), WorstFit(size)} :
       blocks' = Taken(i, pid, size)
  /\ FitAnswers(pid, size, "granted")

AllocationFails(pid, size) ==
  /\ Holes(size) = {}
  /\ FitAnswers(pid, size, "refused")
  /\ UNCHANGED blocks

\* A free block behind a free one is added to it.
Absorb(merged, block) ==
  IF merged # <<>> /\ isFree(Last(merged)) /\ isFree(block)
  THEN [merged EXCEPT ![Len(merged)].size = @ + block.size]
  ELSE Append(merged, block)

mergeAdjacentFreeBlocks(map) ==
  LET Merged[n \in 0..Len(map)] ==
        IF n = 0 THEN <<>> ELSE Absorb(Merged[n - 1], map[n])
  IN Merged[Len(map)]

Freed(pid) ==
  [i \in DOMAIN blocks |-> IF blocks[i].processID = pid
                           THEN [blocks[i] EXCEPT !.processID = NoProcess]
                           ELSE blocks[i]]

\* Every block of the process is freed, then the free neighbors are merged.
deallocateFit(pid) ==
  /\ \E i \in DOMAIN blocks : blocks[i].processID = pid
  /\ blocks' = mergeAdjacentFreeBlocks(Freed(pid))
  /\ FitAnswers(pid, 0, "freed")

\* "Process not found in memory".
NothingToFree(pid) ==
  /\ \A i \in DOMAIN blocks : blocks[i].processID # pid
  /\ FitAnswers(pid, 0, "not found")
  /\ UNCHANGED blocks

FitNext ==
  \E pid \in ProcessIDs :
    \/ \E size \in FitSizes : allocateFit(pid, size) \/ AllocationFails(pid, size)
    \/ deallocateFit(pid) \/ NothingToFree(pid)

-----------------------------------------------------------------------------
\* What clients hold, for the module Allocator.
FitInUse ==
  {[handle |-> blocks[i].processID, address |-> blocks[i].startAddress,
    size |-> blocks[i].size] :
     i \in {i \in DOMAIN blocks : ~isFree(blocks[i])}}

FreeUnits ==
  (0..TOTAL_MEMORY - 1) \ UNION {b.address .. b.address + b.size - 1 : b \in FitInUse}

\* The size that the last call asked for in vain, or 0.
unplaced == IF fitCall.answer = "refused" THEN fitCall.size ELSE 0

\* A request fails only when no run of units that nobody holds is as long: no
\* unit is lost, and holes never lie side by side.
FailsOnlyWithoutRun ==
  unplaced > 0 =>
    \A a \in 0..TOTAL_MEMORY - unplaced : ~ (a .. a + unplaced - 1 \subseteq FreeUnits)
=============================================================================
