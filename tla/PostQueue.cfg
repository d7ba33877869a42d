SPECIFICATION FairSpec
CONSTANTS
  L = L
  t1 = t1
  t2 = t2
  Threads = {L, t1, t2}
  InvalidId = InvalidId
  ReusableId = ReusableId
  INITIAL_IMPLICIT_PRODUCER_HASH_SIZE = 2
  MaxExits <- Exits
  AllocFails = TRUE
  hash_thread_id <- Hash
  MaxPosts <- Bounds
INVARIANTS OwnStream DrainedBeforeWait NoCallbackAfterDestroy
PROPERTIES OrderKept PostReturns TaskRuns
CHECK_DEADLOCK FALSE
