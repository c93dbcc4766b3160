\* Two threads, one device, three blocks over two buckets of a three-buffer
\* cache: both buckets get a steal path, blocks 1 and 3 share bucket 1.
CONSTANTS
  Threads = {t1, t2}
  Devs = {1}
  Blocks = {1, 2, 3}
  NBUF = 3
  NBUCKETS = 2
  None = None
  MaxPinned = 1
SPECIFICATION Spec
SYMMETRY ThreadSymmetry
INVARIANT TypeOK
INVARIANT RefcntConserved
INVARIANT HolderMatchesRequest
INVARIANT BucketPlacement
INVARIANT NoDeadlock
CHECK_DEADLOCK FALSE
