\* The submissions of main.  The scheduler may miss the call of stop(), and
\* the program then hangs in join: see MCStop.cfg.
CONSTANTS
  Submissions <- FourThreads
  Priority <- TheirPriorities
  Nobody = Nobody
SPECIFICATION Spec
INVARIANT Accounting
INVARIANT CompletionMeansIdle
PROPERTY AllThreadsExecuted
PROPERTY StopHeard
CHECK_DEADLOCK FALSE
