----------------------------- MODULE BuddySystem -----------------------------
(***************************************************************************)
(* The class BuddySystem of Lab8/memory_allocation_with_buddy.cpp.  Blocks *)
(* are objects on the heap that the free lists, allBlocks and the clients  *)
(* all point to.  At one time no two have the same address and size, so    *)
(* that the pair stands for the object.  coalesce can leave a block in its *)
(* free list twice; when a block is then deleted to which another pointer  *)
(* is left, the next use of that pointer is undefined, and the model ends. *)
(***************************************************************************)
EXTENDS Integers, Sequences, SequencesExt

CONSTANTS MAX_BLOCK_SIZE,
          Clients,     \* each keeps one pointer, as the locals of main do
          BuddyRequests  \* the sizes that are asked for

Sizes == {s \in 1..MAX_BLOCK_SIZE : \E k \in 0..MAX_BLOCK_SIZE : s = 2^k}

ASSUME BuddyAssumption ==
  /\ MAX_BLOCK_SIZE \in Sizes
  /\ BuddyRequests \subseteq Nat \ {0}

NoBlock == [address |-> -1, size |-> 0]

VARIABLES freeLists,   \* by size, in the order of the lists
          allBlocks,   \* the blocks that exist
          used,        \* those of which isFree is false
          holding,     \* the block each client points to, or NoBlock
          wanted,      \* history: the size each client got its block for, or 0
          refused,     \* the rounded size the last call failed to find, or 0
          remade       \* history: blocks last made by the end of a chain of merges

buddyVars == <<freeLists, allBlocks, used, holding, wanted, refused, remade>>

BlockAt(address, size) == [address |-> address, size |-> size]

BuddyInit ==
  LET all == BlockAt(0, MAX_BLOCK_SIZE)
  IN /\ freeLists = [s \in Sizes |-> IF s = MAX_BLOCK_SIZE THEN <<all>> ELSE <<>>]
     /\ allBlocks = {all}
     /\ used = {}
     /\ holding = [c \in Clients |-> NoBlock]
     /\ wanted = [c \in Clients |-> 0]
     /\ refused = 0
     /\ remade = {}

\* The blocks that lists and clients point to, though they have been deleted.
Deleted ==
  ((UNION {ToSet(freeLists[s]) : s \in Sizes}) \union {holding[c] : c \in Clients})
  \ (allBlocks \union {NoBlock})

Dangling == Deleted # {}

\* address XOR size, for an address that is a multiple of size.
findBuddy(address, size) ==
  IF (address \div size) % 2 = 0 THEN address + size ELSE address - size

\* The power of two that a request is rounded up to.  The largest block stands
\* for everything beyond it, so that the test of line 116 never fails.
nextPowerOf2(size) ==
  CHOOSE s \in Sizes :
    /\ s >= size \/ s = MAX_BLOCK_SIZE
    /\ \A t \in Sizes : t >= size => s <= t

\* The lists from which size can be taken, after splits or as it is.
Sources(size) == {s \in Sizes : s >= size /\ freeLists[s] # <<>>}

-----------------------------------------------------------------------------
(* Mutated forms of the operations below.                                  *)

\* The list of the block that is split keeps it.
splitBlockKeeping(larger, size) ==
  LET a == Head(freeLists[larger]).address
  IN [s \in Sizes |->
        IF s = size THEN <<BlockAt(a, s), BlockAt(a + s, s)>>
        ELSE IF size < s /\ s < larger THEN <<BlockAt(a + s, s)>>
        ELSE freeLists[s]]

-----------------------------------------------------------------------------
\* The free lists after splitBlock(size) has taken the block in front of the
\* list of larger: the lists in between were empty and get the upper halves.
splitBlock(larger, size) ==
  LET a == Head(freeLists[larger]).address
  IN [s \in Sizes |->
        IF s = larger THEN Tail(freeLists[s])
        ELSE IF s = size THEN <<BlockAt(a, s), BlockAt(a + s, s)>>
        ELSE IF size < s /\ s < larger THEN <<BlockAt(a + s, s)>>
        ELSE freeLists[s]]

allocate(c, request) ==
  LET size == nextPowerOf2(request)
  IN /\ ~Dangling
     /\ holding[c] = NoBlock
     /\ Sources(size) # {}
     /\ LET larger == CHOOSE s \in Sources(size) : \A t \in Sources(size) : s <= t
            split == larger > size
            lists == IF split THEN splitBlock(larger, size) ELSE freeLists
            block == Head(lists[size])
            halves == {BlockAt(block.address + s, s) :
                         s \in {s \in Sizes : size <= s /\ s < larger}}
        IN /\ freeLists' = [lists EXCEPT ![size] = Tail(@)]
           /\ IF split
              THEN /\ allBlocks' = (allBlocks \ {Head(freeLists[larger])})
                                   \union halves \union {block}
                   /\ remade' = remade \ (halves \union {block})
              ELSE UNCHANGED <<allBlocks, remade>>
           /\ used' = used \union {block}
           /\ holding' = [holding EXCEPT ![c] = block]
     /\ wanted' = [wanted EXCEPT ![c] = request]
     /\ refused' = 0

BuddyRefuses(c, request) ==
  /\ ~Dangling
  /\ holding[c] = NoBlock
  /\ Sources(nextPowerOf2(request)) = {}
  /\ refused' = nextPowerOf2(request)
  /\ UNCHANGED <<freeLists, allBlocks, used, holding, wanted, remade>>

-----------------------------------------------------------------------------
\* The block of size s that contains a given address, and its buddy.
Around(address, s) == BlockAt((address \div s) * s, s)
BuddyOf(address, s) == BlockAt(findBuddy(Around(address, s).address, s), s)

Joins(address, s) ==
  /\ 2 * s <= MAX_BLOCK_SIZE
  /\ BuddyOf(address, s) \in ToSet(freeLists[s]) \ used

\* Mutated: coalesce does not call itself with the merged block.
mergedSizeOnce(block) ==
  IF Joins(block.address, block.size) THEN 2 * block.size ELSE block.size

\* How large a block gets that is freed: the buddies at every size below it
\* are in their free lists.
mergedSize(block) ==
  CHOOSE t \in Sizes :
    /\ block.size <= t
    /\ \A s \in Sizes : block.size <= s /\ s < t => Joins(block.address, s)
    /\ ~Joins(block.address, t)

\* list::remove for each block of a set: what is left of the list.
Removed(list, gone) ==
  LET Left[n \in 0..Len(list)] ==
        IF n = 0 THEN <<>>
        ELSE IF list[n] \in gone THEN Left[n - 1]
        ELSE Append(Left[n - 1], list[n])
  IN Left[Len(list)]

\* The calls of coalesce, from the block that is freed to the one that finds
\* no buddy.  Merging removes all entries of both blocks.  The block at the end
\* is put to its list by the call that finds no buddy, and if it is the result
\* of a merge, by the call that has made it as well.
coalesce(block) ==
  LET t == mergedSize(block)
      last == Around(block.address, t)
      gone == {Around(block.address, s) : s \in {s \in Sizes : block.size <= s /\ s < t}}
              \union
              {BuddyOf(block.address, s) : s \in {s \in Sizes : block.size <= s /\ s < t}}
      merged == t > block.size
  IN /\ freeLists' =
          [s \in Sizes |->
             LET left == Removed(freeLists[s], gone)
             IN IF s # t THEN left
                ELSE IF merged THEN left \o <<last, last>> ELSE Append(left, last)]
     /\ allBlocks' = (allBlocks \ gone) \union {last}
     /\ used' = used \ (gone \union {last})
     /\ remade' = IF merged THEN remade \union {last} ELSE remade

\* A client frees its block and forgets the pointer.
deallocate(c) ==
  /\ ~Dangling
  /\ holding[c] # NoBlock
  /\ coalesce(holding[c])
  /\ holding' = [holding EXCEPT ![c] = NoBlock]
  /\ wanted' = [wanted EXCEPT ![c] = 0]
  /\ refused' = 0

BuddyNext ==
  \E c \in Clients :
    \/ \E request \in BuddyRequests : allocate(c, request) \/ BuddyRefuses(c, request)
    \/ deallocate(c)

-----------------------------------------------------------------------------
BlockUnits(block) == block.address .. block.address + block.size - 1

\* The units of the blocks clients hold.
HeldUnits == UNION {BlockUnits(holding[c]) : c \in {c \in Clients : holding[c] # NoBlock}}

\* A request fails only when every aligned block of its size is touched by a
\* block in use: free buddies never stay apart.
RefusesOnlyWithoutBlock ==
  refused > 0 =>
    \A i \in 0..(MAX_BLOCK_SIZE \div refused) - 1 :
      BlockUnits(BlockAt(i * refused, refused)) \intersect HeldUnits # {}

\* All that goes wrong goes wrong by the double entries: a pointer outlives its
\* block, or two clients share memory, only when a chain of merges has put that
\* block into its free list twice.  And only who asks for more than there is
\* gets less than he asked for.
SharedOnlyIfRemade ==
  /\ Deleted \subseteq remade
  /\ \A c, d \in Clients :
       /\ c # d
       /\ BlockUnits(holding[c]) \intersect BlockUnits(holding[d]) # {}
       /\ ~Dangling
       => holding[c] = holding[d] /\ holding[c] \in remade
  /\ \A c \in Clients :
       holding[c] # NoBlock /\ holding[c].size < wanted[c] =>
         wanted[c] > MAX_BLOCK_SIZE
=============================================================================
