-------------------------------- MODULE Memory --------------------------------
(***************************************************************************)
(* The memory management of Lab8 and Lab9: the paging simulators, the      *)
(* allocators, and the address translation.  They are programs of their    *)
(* own: the initial state picks one, and the others stay as they are.      *)
(***************************************************************************)
EXTENDS Paging, ContiguousMemory, BuddySystem, BuddyAllocator, AddressTranslation

VARIABLE manager      \* the program that runs

memoryVars == <<manager, vars, tlbVars, fitVars, buddyVars, labVars, tableVars, segmentVars>>

Managers == {"paging", "MemoryManager", "BuddySystem", "BuddyAllocator",
             "PageTable", "SegmentationSystem"}

MemoryInit ==
  /\ manager \in Managers
  /\ PagingInit /\ FitInit /\ BuddyInit /\ LabInit /\ TableInit /\ SegmentInit

Run(program, Step) == manager = program /\ Step /\ UNCHANGED manager

MemoryNext ==
  \/ Run("paging", PagingNext)
     /\ UNCHANGED <<fitVars, buddyVars, labVars, tableVars, segmentVars>>
  \/ Run("MemoryManager", FitNext)
     /\ UNCHANGED <<vars, tlbVars, buddyVars, labVars, tableVars, segmentVars>>
  \/ Run("BuddySystem", BuddyNext)
     /\ UNCHANGED <<vars, tlbVars, fitVars, labVars, tableVars, segmentVars>>
  \/ Run("BuddyAllocator", LabNext)
     /\ UNCHANGED <<vars, tlbVars, fitVars, buddyVars, tableVars, segmentVars>>
  \/ Run("PageTable", TableNext)
     /\ UNCHANGED <<vars, tlbVars, fitVars, buddyVars, labVars, segmentVars>>
  \/ Run("SegmentationSystem", SegmentNext)
     /\ UNCHANGED <<vars, tlbVars, fitVars, buddyVars, labVars, tableVars>>

MemorySpec == MemoryInit /\ [][MemoryNext]_memoryVars

-----------------------------------------------------------------------------
FitPlacement == INSTANCE Allocator WITH
                  Memory <- TOTAL_MEMORY, inUse <- FitInUse, call <- fitCall
LabPlacement == INSTANCE Allocator WITH
                  Memory <- totalSize, inUse <- LabInUse, call <- labCall

\* The first, best and worst fit of Lab8 and the buddy allocator of Lab9 answer
\* each call as it says in Allocator: what is granted lies on units of the memory
\* that nobody uses and is no less than the call asked for, a failing call changes
\* nothing in use, and freeing takes back all blocks of the process, or the block at
\* the address, and nobody else's (lines 41-198 of memory_allocation_simulation.cpp,
\* 34-81 of Buddy_system_simulator.cpp).
ImplementsAllocator == FitPlacement!Spec /\ LabPlacement!Spec

\* MemoryManager fails only when no run of free units is long enough, and the
\* search of the BuddyAllocator, which merges nothing, goes astray only when
\* every aligned place of that size is in use in part or has been split.
FailsOnlyIfNothingFits == FailsOnlyWithoutRun /\ SearchEndsUnlessSplit

\* The pages of a page table and the segments that SegmentationSystem places
\* itself never lead to the same physical address.
NoAliasing ==
  /\ manager = "PageTable" => PagesApart
  /\ manager = "SegmentationSystem" => SegmentsApart
=============================================================================
