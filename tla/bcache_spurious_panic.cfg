\* A buffer of bucket id is freed between the fast path and the steal loop.
CONSTANTS
  Threads = {t1, t2}
  Devs = {1}
  Blocks = {1, 2, 3}
  NBUF = 3
  NBUCKETS = 2
  None = None
  MaxPinned = 1
SPECIFICATION Spec
SYMMETRY ThreadSymmetry
INVARIANT NoPanicWithFreeBuffer
CHECK_DEADLOCK FALSE
