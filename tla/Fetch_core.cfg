SPECIFICATION FairSpec
CONSTANTS
  QueueLen = 2
  MaxRequests = 4
  MaxSwitches = 3
  MemoryMayFail = TRUE
  ArgRunsScript = FALSE
INVARIANTS
  TypeOK
  OneWorker
  PollTimerOwned
PROPERTIES
  PendingIsServed
  FetchImplementsPromise
  EveryFetchSettles
