SPECIFICATION Spec
CONSTANTS
  NPROC = 3
  NCPU = 2
  Killable = {2}
  Masks = {1}
  Sleeps = {1}
PROPERTIES RunnableRuns SleeperReturns TraceScope
