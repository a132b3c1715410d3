SPECIFICATION ObjectsSpec
CONSTANTS
  Null = Null
  Nobody = Nobody
  Procs = {p, q}
  InitProc = p
  NFILE = 3
  NOFILE = 2
  Pipes = {b}
  Inodes = {i1, i2}
  Writers = {w, v}
  Readers = {r}
  Killable = {w, v, r}
  Bytes = {0, 1}
  Counts = {3}
  PIPESIZE = 2
  UINT = 4
SYMMETRY ObjectsSymmetry
INVARIANTS RefCounts ObjectsOwned FreedOnce SleepIsWarranted
PROPERTY BytesInOrder
