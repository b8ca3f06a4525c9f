\* Does main always get to the end of join?
CONSTANTS
  Submissions <- FourThreads
  Priority <- TheirPriorities
  Nobody = Nobody
SPECIFICATION Spec
PROPERTY SchedulerStops
CHECK_DEADLOCK FALSE
