\* t2 misses bucket 1 for block 3 and waits for the global lock; t1 then
\* recycles a free buffer of bucket 1 for block 3 in its fast path, and t2
\* steals another buffer for block 3 without searching bucket 1 again.
CONSTANTS
  Threads = {t1, t2}
  Devs = {1}
  Blocks = {1, 3}
  NBUF = 3
  NBUCKETS = 2
  None = None
  MaxPinned = 1
SPECIFICATION Spec
SYMMETRY ThreadSymmetry
PROPERTY ImplementsBlockLock
CHECK_DEADLOCK FALSE
