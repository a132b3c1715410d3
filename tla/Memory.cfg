SPECIFICATION Spec
CONSTANTS
  Procs = {0, 1, 2}
  NPAGES = 13
  PGSIZE = 2
  NV = 4
  NPTENTRIES = 2
  UINT = 32
  Deltas <- MCDeltas
  Images = {1, 5}
INVARIANTS PagesOwned SizeMapped
CHECK_DEADLOCK FALSE
