\* Paging: three frames as in the programs, and all strings of nine references
\* to five pages: more pages than frames, and room for each to come back.  The
\* TLBs have two entries and three.  Allocation: seven or eight units, so that
\* three blocks are split, merged and shared; sizes beyond the memory are asked
\* for too.  Translation: more pages than frames.
CONSTANTS
  NumFrames = 3
  Length = 9
  Few = {0, 1, 2, 3, 4}
  Pages <- AllPages
  References <- Strings
  TLB_SIZE = 2
  capacity = 3
  pageTable <- Mapped
  TOTAL_MEMORY = 7
  ProcessIDs = {1, 2}
  FitSizes = {1, 2, 4}
  MAX_BLOCK_SIZE = 8
  Clients = {c1, c2, c3}
  BuddyRequests = {1, 2, 3, 9}
  MaxOrder = 3
  BuddySizes = {2, 3, 4, 8, 9}
  NUM_PAGES = 4
  NUM_FRAMES = 3
  PAGE_SIZE = 2
  MAX_SEGMENTS = 2
  SegmentSizes = {1, 2}
  MaxAddress = 5
SPECIFICATION MCMemorySpec
INVARIANT FIFOsAgree
INVARIANT LRUsKeepLatest
INVARIANT OptimalIsOptimal
INVARIANT FailsOnlyIfNothingFits
INVARIANT RefusesOnlyWithoutBlock
INVARIANT SharedOnlyIfRemade
INVARIANT NoAliasing
PROPERTY ImplementsAllocator
CHECK_DEADLOCK FALSE
