CONSTANTS
  NPROC = 2
  CPUs = {c1}
  Chans = {ch}
  Weights = {}
  KillPids = {}
  TIME_SLICE = 2
  INT_HALF = 8
  MaxPid = 3
SPECIFICATION FairSpec
PROPERTY RunnableRuns
CHECK_DEADLOCK FALSE
