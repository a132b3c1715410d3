----------------------------- MODULE MCStorage ------------------------------
(***************************************************************************)
(* Small instances of FileContent and Bio, the two layers between a        *)
(* write() and the disk, and of Mkfs, which makes the disk.  A behaviour   *)
(* is one of one of the three: subject says which, and the other two stay  *)
(* as they are.                                                            *)
(***************************************************************************)
EXTENDS FileContent, TLC

CONSTANTS BioProcs, DiskBlocks, Null, NBUF, MaxDirty
CONSTANTS FSSIZE, NLOG, NINODEBLOCKS, NBITMAP, IPB, NFILES, Lengths

VARIABLES
  subject,
  disk, list, blockno, valid, dirty, refcnt, locked, data, idequeue, transfer, pc, buf,
  panicked, faulted,
  img, mpc, given

biovars == <<disk, list, blockno, valid, dirty, refcnt, locked, data, idequeue, transfer,
             pc, buf, panicked, faulted>>
mkfsvars == <<img, mpc, given>>

B == INSTANCE Bio WITH Procs <- BioProcs, Blocks <- DiskBlocks

K == INSTANCE Mkfs WITH pc <- mpc

ASSUME BioInstance == B!BioAssumption
ASSUME MkfsInstance == K!MkfsAssumption

StorageVars == <<subject, vars, biovars, mkfsvars>>
StorageInit ==
  /\ subject \in {"file", "cache", "image"}
  /\ Init /\ B!Init
  /\ IF subject = "image" THEN K!Init ELSE img = <<>> /\ mpc = "start" /\ given = <<>>

\* Nothing happens after a panic(), or after mkfs.
StorageNext ==
  \/ subject = "file" /\ Next /\ UNCHANGED <<subject, biovars, mkfsvars>>
  \/ subject = "cache" /\ B!Next /\ UNCHANGED <<subject, vars, mkfsvars>>
  \/ subject = "image" /\ K!Next /\ UNCHANGED <<subject, vars, biovars>>
  \/ (panic \/ mpc \in {"done", "failed"}) /\ UNCHANGED StorageVars

StorageSpec == StorageInit /\ [][StorageNext]_StorageVars

\* Two processes share an open file, a third has one of its own.
SomeShare == [p \in Procs |-> IF p = 3 THEN 2 ELSE 1]
TwoInodes == [f \in {1, 2} |-> f]

StorageSymmetry == Permutations(BioProcs) \cup Permutations(DiskBlocks)

-----------------------------------------------------------------------------
\* A block is in one buffer, which has one user at a time and the contents last
\* written to the block (xv6-public/bio.c).
CacheCoherent == B!CacheCoherent

\* No lost wakeup: a process that sleeps in acquiresleep() or iderw() has
\* something to wait for.
SleepIsWarranted == B!SleepIsWarranted


=============================================================================
