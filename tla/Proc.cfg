CONSTANTS
  NPROC = 3
  CPUs = {c1, c2}
  Chans = {ch}
  Weights = {0, 1}
  KillPids = {2}
  TIME_SLICE = 8
  INT_HALF = 4
  MaxPid = 4
SPECIFICATION Spec
SYMMETRY CpuSymmetry
INVARIANTS IdleFindsWork CpuAgrees WaitIsWarranted ParentIsLive EmbryoOwned
CHECK_DEADLOCK FALSE
