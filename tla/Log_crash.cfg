CONSTANTS
  Procs = {p, q}
  Blocks = {a, b, c}
  NoBlock = NoBlock
  Values = {x, y}
  LOGSIZE = 4
  MAXOPBLOCKS = 2
  nlog = 4
  OpBlocks = 1
SPECIFICATION FairSpec
INVARIANTS SleepIsWarranted NoPanic DirtyIsPinned
PROPERTIES CrashAtomic SleeperWoken
