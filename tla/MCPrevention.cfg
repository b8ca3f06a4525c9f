\* Lab7/deadlock-prevention.cpp: three threads, three resources.
CONSTANTS
  N = 3
  Meals = 1
  Wanted = {"lab7_prevention"}
  Threads <- Numbers
  Mutexes <- Numbers
  NoThread <- Nobody
  Programs <- WantedPrograms
SPECIFICATION Spec
PROPERTY ProgramCompletes
CHECK_DEADLOCK FALSE
