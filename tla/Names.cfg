SPECIFICATION Spec
CONSTANTS
  Procs = {p, q}
  NInodes = 3
  NINODE = 3
  Elems = {"a", "b"}
  Calls <- MixedCalls
SYMMETRY ProcSymmetry
INVARIANTS RefCounts 
CHECK_DEADLOCK FALSE
