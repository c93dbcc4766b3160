CONSTANTS
  NPTE = 2
  PGSIZE = 2
  NFRAMES = 16
  MaxSz = 4
SPECIFICATION Spec
INVARIANT FramesAccounted
INVARIANT NoDoubleFree
INVARIANT NoPanic
PROPERTY UvmCopyExact
CHECK_DEADLOCK FALSE
