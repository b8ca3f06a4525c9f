\* The numbers of the source: five threads, three permits.
CONSTANTS
  Threads = {t1, t2, t3, t4, t5}
  Permits = 3
  NoThread = NoThread
SPECIFICATION Spec
INVARIANT NoLostWakeup
PROPERTY ImplementsCountingSemaphore
PROPERTY AllProcessesComplete
