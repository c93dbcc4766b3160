\* Three buckets: buffer 1 stays in list 1 with the zero blockno binit left.
CONSTANTS
  Threads = {t1, t2}
  Devs = {1}
  Blocks = {1, 2, 3, 5}
  NBUF = 3
  NBUCKETS = 3
  None = None
  MaxPinned = 1
SPECIFICATION Spec
SYMMETRY ThreadSymmetry
INVARIANT HolderMatchesRequest
CHECK_DEADLOCK FALSE
