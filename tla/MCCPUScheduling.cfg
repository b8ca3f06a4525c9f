\* The table of main and 729 tables of three processes.
CONSTANTS
  Tables <- MCTables
  Quantum = 2
SPECIFICATION CPUSpec
INVARIANT SchedulesAreReal
INVARIANT SRTFWaitsLeast
INVARIANT TurnWithin
PROPERTY EndsUnlessEmptyBurst
CHECK_DEADLOCK FALSE
