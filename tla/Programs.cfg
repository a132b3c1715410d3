SPECIFICATION ProgramsSpec
CONSTANTS
  Pages = {p1, p2, p3, p4}
  NoPage = NoPage
  AlgInputs <- MCAlgInputs
  PfInputs = {2, 3}
  RefInputs = {1, 6}
  RWs = {0, 1}
  MINREF = 6
  HEADER = 2
  MINUNITS = 4
  MAXUNITS = 11
  UINT = 32
  Requests = {0, 1, 2, 4, 7}
  MAXARGS = 3
  Pids = {1, 2, 3, 4, 5}
  NOFILE = 7
  PipeIds = {"b1", "b2", "b3"}
  Lines <- MCLines
  NLINES = 2
  Chars = {"x", " ", "|", "&", ";", "(", ")", "<", ">"}
  MAXLINE = 5
SYMMETRY PageSymmetry
INVARIANTS OptimalIsBest HeapTiled Wired NobodyHangs ForegroundDone ParsesGrammar
PROPERTY VictimIsOldest
CHECK_DEADLOCK FALSE
