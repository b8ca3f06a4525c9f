------------------------------ MODULE Allocator ------------------------------
(***************************************************************************)
(* What a memory allocator promises to its clients.  A block that it       *)
(* grants is as large as was asked for, lies in the memory and overlaps no *)
(* block in use.  Freeing takes back what belongs to the handle of the     *)
(* call, all of it and nothing else.  Calls that fail change nothing.      *)
(* Where blocks are placed, and when a request is refused, is left open.   *)
(***************************************************************************)
EXTENDS Integers

CONSTANT Memory   \* the number of units there are

VARIABLES inUse,  \* the blocks clients hold: by which handle, address and size
          call    \* the last call: its handle, its size, and its answer

Units(block) == block.address .. block.address + block.size - 1

Apart(b, c) == Units(b) \intersect Units(c) = {}

\* What is freed by a handle: a process, or the address of a block.
HeldBy(handle) == {block \in inUse : block.handle = handle}

Init == inUse = {} /\ call.answer = "none"

\* A request is granted with a block nobody uses.
Grant ==
  /\ call'.answer = "granted"
  /\ \E block \in inUse' \ inUse :
       /\ inUse' = inUse \union {block}
       /\ block.handle = call'.handle
       /\ call'.size \in 1..block.size
       /\ Units(block) \subseteq 0..Memory - 1
       /\ \A b \in inUse : Apart(block, b)

Refuse ==
  /\ call'.answer = "refused"
  /\ UNCHANGED inUse

\* What the handle holds, and nobody else, is given back.
Reclaim ==
  /\ call'.answer = "freed"
  /\ HeldBy(call'.handle) # {}
  /\ inUse' = inUse \ HeldBy(call'.handle)

NothingToReclaim ==
  /\ call'.answer = "not found"
  /\ HeldBy(call'.handle) = {}
  /\ UNCHANGED inUse

Next == Grant \/ Refuse \/ Reclaim \/ NothingToReclaim

Spec == Init /\ [][Next]_<<inUse, call>>
=============================================================================
