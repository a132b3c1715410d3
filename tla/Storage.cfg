SPECIFICATION StorageSpec
CONSTANTS
  Procs = {1, 2, 3}
  Inodes = {1, 2}
  FileOf <- SomeShare
  InodeOf <- TwoInodes
  NBLOCKS = 4
  BSIZE = 2
  NDIRECT = 1
  NINDIRECT = 2
  MAXOPBLOCKS = 6
  Bytes = {1, 2}
  Sizes = {3}
  Null = Null
  BioProcs = {p, q}
  DiskBlocks = {a, b, c, d}
  NBUF = 3
  MaxDirty = 1
  FSSIZE = 16
  NLOG = 1
  NINODEBLOCKS = 3
  NBITMAP = 1
  IPB = 2
  NFILES = 3
  Lengths = {0, 1, 2, 3, 4, 5, 6, 7}
SYMMETRY StorageSymmetry
INVARIANTS ReadsBack BlocksOwned ChunkFits CacheCoherent SleepIsWarranted 
PROPERTY AppendsOnly
