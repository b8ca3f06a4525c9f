-------------------------- MODULE LabMutexPrograms --------------------------
(***************************************************************************)
(* The threads of the labs that only lock and unlock mutexes, as sequences *)
(* of calls for the module MutexPrograms.                                  *)
(***************************************************************************)
EXTENDS Integers, Sequences

lock(m)          == [op |-> "lock", on |-> m]
unlock(m)        == [op |-> "unlock", on |-> m]
std_lock(m1, m2) == [op |-> "lock_all", on |-> <<m1, m2>>]

\* A mutated meal: the left chopstick first, without the swap.
meal_left_first(id, n) ==
  LET right == (id + 1) % n
  IN <<lock(id), lock(right), unlock(right), unlock(id)>>

\* One meal of philosopher id of n in Lab5/synchronization_tools.cpp, which
\* picks up the lower numbered chopstick first.
meal(id, n) ==
  LET right == (id + 1) % n
      low   == IF id > right THEN right ELSE id
      high  == IF id > right THEN id ELSE right
  IN <<lock(low), lock(high), unlock(high), unlock(low)>>

\* One meal of philosopher id of n in Lab3/Advanced4.cpp; the lock_guards
\* unlock in the reverse order of their construction.
advanced4_meal(id, n) ==
  LET right == (id + 1) % n
  IN <<std_lock(id, right), unlock(right), unlock(id)>>

\* The same meal `meals` times in a row.
philosopher(one_meal, meals) ==
  [i \in 1..meals * Len(one_meal) |-> one_meal[((i - 1) % Len(one_meal)) + 1]]

\* Lab6/deadlock.cpp, with m1 = 0 and m2 = 1; both lock_guards unlock at the
\* end of the function.
thread_A_func == <<lock(0), lock(1), unlock(1), unlock(0)>>
thread_B_func == <<lock(1), lock(0), unlock(0), unlock(1)>>

\* process1, process2 and process3 of Lab7/deadlock-prevention.cpp: std::lock
\* takes both resources, and the same thread then locks each of them again.
process(first, second) ==
  <<std_lock(first, second), lock(first), lock(second),
    unlock(second), unlock(first)>>
=============================================================================
