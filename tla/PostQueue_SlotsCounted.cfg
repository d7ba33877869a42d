SPECIFICATION Spec
CONSTANTS
  L = L
  t1 = t1
  t2 = t2
  Threads = {L, t1, t2}
  InvalidId = InvalidId
  ReusableId = ReusableId
  INITIAL_IMPLICIT_PRODUCER_HASH_SIZE = 4
  MaxExits <- Exits
  AllocFails = FALSE
  hash_thread_id <- Hash2
  MaxPosts <- Bounds2
INVARIANT SlotsCounted
CHECK_DEADLOCK FALSE
