\* The banker: three processes, three units of one resource and one of another,
\* every allocation, every claim of at most two units, and every request from
\* there.  The detector: every graph of four processes with at most six edges: a
\* path can lead into a cycle, two cycles can share processes or be apart.
CONSTANTS
  NumCustomers = 3
  NumResources = 2
  Requests <- SmallRequests
  Scenarios <- SmallScenarios
  NumProcesses = 4
  MaxEdges = 6
SPECIFICATION DeadlockSpec
INVARIANT Conserved
INVARIANT StaysSafe
INVARIANT SequenceIsSafe
INVARIANT ReportedCycleIsReal
INVARIANT NoDeadlockMissed
