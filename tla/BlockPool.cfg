SPECIFICATION FairSpec
CONSTANTS
  t1 = t1
  t2 = t2
  t3 = t3
  Threads = {t1, t2, t3}
  Posters = {t2, t3}
  Dequeuers = {t1}
  initialBlockPoolSize = 2
  MaxHeap = 1
INVARIANTS TypeOK OnePlace FreeListSound
PROPERTY NoLivelock
