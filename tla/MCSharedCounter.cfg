\* Two threads, as in every demonstration, of three updates each.
CONSTANTS
  first = t1
  second = t2
  Threads = {t1, t2}
  NoThread = NoThread
  Rounds = 3
  Cases <- Demonstrations
SPECIFICATION Spec
INVARIANT Exclusive
INVARIANT NothingLost
INVARIANT RaceBounds
PROPERTY EveryoneFinishes
