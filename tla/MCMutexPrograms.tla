--------------------------- MODULE MCMutexPrograms ---------------------------
(***************************************************************************)
(* The programs of LabMutexPrograms on TLC's instance.  Threads and        *)
(* mutexes are numbered as in the sources; a thread that a program does    *)
(* not have executes nothing.                                              *)
(***************************************************************************)
EXTENDS MutexPrograms, LabMutexPrograms

CONSTANTS N,      \* NUM_PHILOSOPHERS
          Meals,  \* meals of each philosopher
          Wanted  \* the programs to run

\* Values for the constants of MutexPrograms.
Numbers == 0..N - 1
Nobody == -1

\* The threads of a program that has fewer of them than there are numbers.
OfThreads(bodies) ==
  [t \in Numbers |-> IF t < Len(bodies) THEN bodies[t + 1] ELSE <<>>]

Lab5Dining == [t \in Numbers |-> philosopher(meal(t, N), Meals)]
Lab3Dining == [t \in Numbers |-> philosopher(advanced4_meal(t, N), Meals)]
Lab6Deadlock == OfThreads(<<thread_A_func, thread_B_func>>)
Lab7Prevention ==
  OfThreads(<<process(0, 1), process(1, 2), process(2, 0)>>)

WantedPrograms ==
  {[lab5_dining |-> Lab5Dining, lab3_dining |-> Lab3Dining,
    lab6_deadlock |-> Lab6Deadlock, lab7_prevention |-> Lab7Prevention][w] :
     w \in Wanted}

-----------------------------------------------------------------------------
\* PhilosophersFinish: the philosophers of Lab5, who pick up the lower
\* numbered chopstick first, eat all their meals ("All philosophers finished
\* dining!"), although no mutex is fair.
PhilosophersFinish == (prog = Lab5Dining) ~> AllFinished

\* ProgramCompletes: main of Lab7/deadlock-prevention.cpp joins its three
\* threads and prints "Program completed successfully!".
ProgramCompletes == <>AllFinished
=============================================================================
