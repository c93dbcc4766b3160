CONSTANTS
  NPTE = 2
  PGSIZE = 2
  NFRAMES = 12
  MaxSz = 4
SPECIFICATION SpecExec
INVARIANT FramesAccounted
INVARIANT CopyOutCorrect
PROPERTY UvmAllocAllOrNothing
PROPERTY UvmCopyExact
PROPERTY ImplementsAddrSpace
CHECK_DEADLOCK FALSE
