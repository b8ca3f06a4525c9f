\* Two cores and four tasks; a queue of three is out of balance with an empty one.
SPECIFICATION Spec
CONSTANTS
  NumCores = 2
  Tasks <- MCTasks
  Affinities <- MCAffinities
  LOAD_BALANCE_THRESHOLD = 2
  NoTask = "no task"
INVARIANT EachTaskOnce
INVARIANT CompletionMeansExecuted
PROPERTY ThreadsEnd
