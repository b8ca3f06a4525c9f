\* Four philosophers with two meals, and the two threads of Lab6, which
\* deadlock: that is what Lab6 demonstrates, so the system may stop.  Two
\* iterations of Peterson's algorithm, three users of the monitor as in Lab5,
\* two workers and three tasks, four processes behind one queue.
CONSTANTS
  N = 4
  Meals = 2
  Wanted = {"lab5_dining", "lab3_dining", "lab6_deadlock"}
  Threads <- Numbers
  Mutexes <- Numbers
  NoThread <- Nobody
  Programs <- WantedPrograms
  ITERATIONS = 2
  Users = {"u1", "u2", "u3"}
  Workers = {"w1", "w2"}
  NumTasks = 3
  Requesters = {"r1", "r2", "r3", "r4"}
SPECIFICATION DemoSpec
INVARIANT DisciplinePreventsDeadlock
INVARIANT PetersonExcludes
INVARIANT PoolLosesNothing
INVARIANT QueueNeverDecides
PROPERTY PhilosophersFinish
PROPERTY DemosEnd
CHECK_DEADLOCK FALSE
