---------------------------- MODULE BuddyAllocator ----------------------------
(***************************************************************************)
(* The class BuddyAllocator of Lab9/Buddy_system_simulator.cpp: free lists *)
(* by order, used from their ends, and a map of the allocated addresses.   *)
(* Blocks are split and never merged again.                                *)
(***************************************************************************)
EXTENDS Integers, Sequences, SequencesExt

CONSTANTS MaxOrder,        \* log2(totalSize); main has 10
          BuddySizes       \* the sizes that are asked for

ASSUME OrderAssumption == MaxOrder \in Nat /\ BuddySizes \subseteq Nat \ {0}

totalSize == 2^MaxOrder
NotAllocated == -1

VARIABLES freeList,     \* by order
          allocated,    \* the order of the block allocated at an address
          searching,    \* the size whose search for a block has no end, or 0
          labCall       \* history: the last call that returned, with its answer

labVars == <<freeList, allocated, searching, labCall>>

Orders == 0..MaxOrder
Addresses == 0..totalSize - 1

LabInit ==
  /\ freeList = [o \in Orders |-> IF o = MaxOrder THEN <<0>> ELSE <<>>]
  /\ allocated = [a \in Addresses |-> NotAllocated]
  /\ searching = 0
  /\ labCall = [handle |-> -1, size |-> 0, answer |-> "none"]

\* The client names a block by the address that allocate has returned.
LabAnswers(addr, size, answer) ==
  labCall' = [handle |-> addr, size |-> size, answer |-> answer]

getOrder(size) == CHOOSE o \in 0..size : size <= 2^o /\ \A p \in 0..size : size <= 2^p => o <= p

-----------------------------------------------------------------------------
(* Mutated forms of the operations below.                                  *)

\* The buddy is placed one order too close.
buddyTooClose(addr, order) == addr + 2^order \div 2

\* The search starts one order too high.
CandidatesAbove(size) == {o \in Orders : o > getOrder(size) /\ freeList[o] # <<>>}

-----------------------------------------------------------------------------
\* The orders at which the search could stop.
Candidates(size) == {o \in Orders : o >= getOrder(size) /\ freeList[o] # <<>>}

\* The upper half that is left over when a block is split down to order.
buddy(addr, order) == addr + 2^order

LabAllocate(size) ==
  /\ searching = 0
  /\ Candidates(size) # {}
  /\ LET order == getOrder(size)
         current == CHOOSE o \in Candidates(size) : \A p \in Candidates(size) : o <= p
         addr == Last(freeList[current])
     IN /\ freeList' =
             [o \in Orders |->
                IF o = current THEN Front(freeList[o])
                ELSE IF order <= o /\ o < current
                THEN Append(freeList[o], buddy(addr, o))
                ELSE freeList[o]]
        /\ allocated' = [allocated EXCEPT ![addr] = order]
        /\ LabAnswers(addr, size, "granted")
  /\ UNCHANGED searching

\* With nothing in the lists from the order up, `while (freeList[current]
\* .empty()) current++` does not end, and "Allocation failed" is not printed.
SearchForEver(size) ==
  /\ searching = 0
  /\ Candidates(size) = {}
  /\ searching' = size
  /\ UNCHANGED <<freeList, allocated, labCall>>

orderOf(addr) == allocated[addr]

LabDeallocate(addr) ==
  /\ searching = 0
  /\ allocated[addr] # NotAllocated
  /\ freeList' = [freeList EXCEPT ![orderOf(addr)] = Append(@, addr)]
  /\ allocated' = [allocated EXCEPT ![addr] = NotAllocated]
  /\ LabAnswers(addr, 0, "freed")
  /\ UNCHANGED searching

\* "Invalid free".
InvalidFree(addr) ==
  /\ searching = 0
  /\ allocated[addr] = NotAllocated
  /\ LabAnswers(addr, 0, "not found")
  /\ UNCHANGED <<freeList, allocated, searching>>

LabNext ==
  \/ \E size \in BuddySizes : LabAllocate(size) \/ SearchForEver(size)
  \/ \E addr \in Addresses : LabDeallocate(addr) \/ InvalidFree(addr)

-----------------------------------------------------------------------------
\* What clients hold, for the module Allocator.
LabInUse ==
  {[handle |-> a, address |-> a, size |-> 2^orderOf(a)] :
     a \in {a \in Addresses : allocated[a] # NotAllocated}}

\* The search for a block goes on for ever only if each place where one could
\* be is in use in part, or has been split (and nothing merges it).
SearchEndsUnlessSplit ==
  searching > 0 =>
    LET length == 2^getOrder(searching)
        Place(a) == a..a + length - 1
        Touched(a) == \E b \in LabInUse :
                        Place(a) \intersect (b.address .. b.address + b.size - 1) # {}
        Split(a) == \E o \in Orders : \E f \in ToSet(freeList[o]) :
                      f \in Place(a) /\ f + 2^o - 1 \in Place(a) /\ 2^o < length
    IN \A a \in {a \in Addresses : a % length = 0 /\ a + length <= totalSize} :
         Touched(a) \/ Split(a)
=============================================================================
