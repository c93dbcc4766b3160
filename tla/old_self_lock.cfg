\* The steal loop of src/bio_after.c reaches a buffer of its own bucket.
CONSTANTS
  Threads = {t1, t2}
  Devs = {1}
  Blocks = {1, 2, 3}
  NBUF = 3
  NBUCKETS = 2
  None = None
  MaxPinned = 1
SPECIFICATION Spec
SYMMETRY ThreadSymmetry
INVARIANT NoDeadlock
CHECK_DEADLOCK FALSE
