CONSTANTS
  NPTE = 2
  PGSIZE = 2
  NFRAMES = 9
  MaxSz = 4
SPECIFICATION Spec
INVARIANT NoPanic
CHECK_DEADLOCK FALSE
