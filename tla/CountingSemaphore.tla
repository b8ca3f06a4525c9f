-------------------------- MODULE CountingSemaphore --------------------------
(***************************************************************************)
(* What a counting semaphore promises, without saying how: a pool of       *)
(* Permits permits, taken and given back one at a time, never more than    *)
(* Permits of them out at once.  The class Semaphore of                    *)
(* Lab5/synchronization_tools.cpp is shown to implement it.                *)
(***************************************************************************)
EXTENDS Integers

CONSTANTS Threads, \* the threads that use the semaphore
          Permits  \* the initial count

VARIABLES avail,   \* permits left in the pool
          holders  \* threads that hold a permit

Init == avail = Permits /\ holders = {}

\* P(): a permit leaves the pool; blocked while the pool is empty.
Take(t) ==
  /\ avail > 0
  /\ t \notin holders
  /\ avail' = avail - 1
  /\ holders' = holders \union {t}

\* V(): the permit of t returns to the pool.
Give(t) ==
  /\ t \in holders
  /\ avail' = avail + 1
  /\ holders' = holders \ {t}

Next == \E t \in Threads : Take(t) \/ Give(t)

Spec == Init /\ [][Next]_<<avail, holders>>
=============================================================================
