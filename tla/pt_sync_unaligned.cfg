\* sync_pagetable called with a start that is not page-aligned, such as
\* the old process size: the loop never rounds start down.
CONSTANTS
  NPTE = 2
  PGSIZE = 2
  NFRAMES = 16
  MaxSz = 4
SPECIFICATION Spec
PROPERTY SyncMirrors
CHECK_DEADLOCK FALSE
