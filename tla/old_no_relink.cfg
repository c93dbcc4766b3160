\* A stolen buffer of src/bio_after.c stays in its old bucket list.
CONSTANTS
  Threads = {t1, t2}
  Devs = {1}
  Blocks = {1, 2, 3}
  NBUF = 3
  NBUCKETS = 2
  None = None
  MaxPinned = 1
SPECIFICATION Spec
SYMMETRY ThreadSymmetry
INVARIANT BucketPlacement
CHECK_DEADLOCK FALSE
