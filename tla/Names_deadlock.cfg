SPECIFICATION Spec
CONSTANTS
  Procs = {p, q}
  NInodes = 2
  NINODE = 2
  Elems = {"a", "b"}
  Calls <- OrphanCalls
SYMMETRY ProcSymmetry
INVARIANTS NoCircularWait
CHECK_DEADLOCK FALSE
