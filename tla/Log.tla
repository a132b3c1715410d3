--------------------------------- MODULE Log ---------------------------------
(***************************************************************************)
(* The redo log of src/xv6-public/log.c with the disk below it, crashes at *)
(* any point and recovery at boot.                                         *)
(*                                                                         *)
(* A step is one critical section of log.lock or one block written to the  *)
(* disk (a block is one sector, which the disk writes atomically).  The    *)
(* buffer cache appears as the contents and the B_DIRTY flag of each       *)
(* block; a block that is neither dirty nor locked may be recycled and     *)
(* read from the disk again.                                               *)
(***************************************************************************)
EXTENDS Integers, Sequences, FiniteSets

CONSTANTS
  Procs,        \* processes that make file-system calls
  Blocks,       \* home blocks of the file system
  NoBlock,      \* the null pointer, as a buffer
  Values,       \* contents of a block
  LOGSIZE,      \* of param.h
  MAXOPBLOCKS,  \* of param.h
  nlog,         \* sb.nlog: blocks of the on-disk log, its header included
  OpBlocks      \* the most distinct blocks a file-system call writes

ASSUME LogAssumption ==
  /\ IsFiniteSet(Procs)
  /\ LOGSIZE \in Nat \ {0} /\ MAXOPBLOCKS \in Nat \ {0} /\ nlog \in Nat \ {0}
  /\ OpBlocks \in Nat
  /\ NoBlock \notin Blocks

VARIABLES
  disk,         \* the home blocks on the disk
  logd,         \* the data blocks of the on-disk log
  head,         \* the header block of the on-disk log: block[0 .. n-1]
  lh,           \* log.lh
  cache,        \* contents of the blocks in the buffer cache
  dirty,        \* the blocks whose buffer has B_DIRTY
  outstanding,  \* log.outstanding
  committing,   \* log.committing
  phase,        \* what commit() or recover_from_log() does next
  tail,         \* its loop variable
  booting,      \* initlog() has not returned
  op,           \* where each process is
  cur,          \* the block a process passes to log_write()
  wrote,        \* the blocks it has logged in this call
  panicked

store == <<disk, logd, head>>
memory == <<lh, cache, dirty>>
commitvars == <<phase, tail, booting>>
calls == <<op, cur, wrote>>
vars == <<disk, logd, head, lh, cache, dirty, outstanding, committing, phase,
          tail, booting, op, cur, wrote, panicked>>

Ops == {"out",     \* not in a file-system call
        "begin",   \* in begin_op(), about to test its conditions again
        "asleep",  \* in begin_op(), asleep on &log
        "in",      \* between begin_op() and end_op()
        "log",     \* in log_write(), past its tests
        "commit"}  \* in end_op(), calling commit()
Phases == {"none", "read_head", "write_log", "write_head", "install_trans",
           "clear_head", "done"}

TypeOK ==
  /\ disk \in [Blocks -> Values] /\ cache \in [Blocks -> Values]
  /\ logd \in [1 .. nlog - 1 -> Values]
  /\ head \in Seq(Blocks) /\ lh \in Seq(Blocks)
  /\ dirty \subseteq Blocks
  /\ outstanding \in Nat
  /\ committing \in BOOLEAN /\ booting \in BOOLEAN /\ panicked \in BOOLEAN
  /\ phase \in Phases /\ tail \in Nat
  /\ op \in [Procs -> Ops]
  /\ cur \in [Procs -> Blocks \cup {NoBlock}]
  /\ wrote \in [Procs -> SUBSET Blocks]

-----------------------------------------------------------------------------
Logged == {lh[i] : i \in 1 .. Len(lh)}

InOp == {p \in Procs : op[p] \in {"in", "log"}}

M_WokenNobody(o) == o

\* wakeup(&log)
Woken(o) == [p \in Procs |-> IF o[p] = "asleep" THEN "begin" ELSE o[p]]

\* begin_op() sleeps while a commit runs or the log might not have room.
M_MustWaitAfterReserve ==
  committing \/ Len(lh) + outstanding * MAXOPBLOCKS > LOGSIZE

MustWait == committing \/ Len(lh) + (outstanding + 1) * MAXOPBLOCKS > LOGSIZE

\* One turn of the loop of begin_op().
BeginOp(p) ==
  /\ ~panicked /\ ~booting
  /\ op[p] \in {"out", "begin"}
  /\ IF MustWait
       THEN op' = [op EXCEPT ![p] = "asleep"] /\ UNCHANGED outstanding
       ELSE op' = [op EXCEPT ![p] = "in"] /\ outstanding' = outstanding + 1
  /\ wrote' = [wrote EXCEPT ![p] = {}]
  /\ UNCHANGED <<store, memory, committing, commitvars, cur, panicked>>

\* bread(b), a change of its data, and the tests of log_write(), which are made
\* before log.lock is taken.  The caller keeps b locked until it is logged.
LogWrite(p, b, v) ==
  /\ ~panicked
  /\ op[p] = "in"
  /\ b \notin {cur[q] : q \in Procs}
  /\ Cardinality(wrote[p] \cup {b}) <= OpBlocks
  /\ cache' = [cache EXCEPT ![b] = v]
  /\ IF Len(lh) >= LOGSIZE \/ Len(lh) >= nlog - 1 \/ outstanding < 1
       THEN panicked' = TRUE /\ UNCHANGED <<op, cur>>
       ELSE /\ op' = [op EXCEPT ![p] = "log"]
            /\ cur' = [cur EXCEPT ![p] = b]
            /\ UNCHANGED panicked
  /\ UNCHANGED <<store, lh, dirty, outstanding, committing, commitvars, wrote>>

M_LogAppendNotPinned(p) ==
  /\ ~panicked
  /\ op[p] = "log"
  /\ lh' = IF cur[p] \in Logged THEN lh ELSE Append(lh, cur[p])
  /\ op' = [op EXCEPT ![p] = "in"]
  /\ wrote' = [wrote EXCEPT ![p] = @ \cup {cur[p]}]
  /\ cur' = [cur EXCEPT ![p] = NoBlock]
  /\ UNCHANGED <<store, cache, dirty, outstanding, committing, commitvars, panicked>>

\* The critical section of log_write(), with log absorption, and brelse(b).
LogAppend(p) ==
  /\ ~panicked
  /\ op[p] = "log"
  /\ lh' = IF cur[p] \in Logged THEN lh ELSE Append(lh, cur[p])
  /\ dirty' = dirty \cup {cur[p]}
  /\ op' = [op EXCEPT ![p] = "in"]
  /\ wrote' = [wrote EXCEPT ![p] = @ \cup {cur[p]}]
  /\ cur' = [cur EXCEPT ![p] = NoBlock]
  /\ UNCHANGED <<store, cache, outstanding, committing, commitvars, panicked>>

\* The first critical section of end_op().  The last call out runs commit(),
\* which does nothing when the log is empty.
EndOp(p) ==
  /\ ~panicked
  /\ op[p] = "in"
  /\ outstanding' = outstanding - 1
  /\ IF committing THEN panicked' = TRUE /\ UNCHANGED <<op, committing, commitvars>>
     ELSE /\ IF outstanding = 1
               THEN /\ committing' = TRUE
                    /\ op' = [op EXCEPT ![p] = "commit"]
                    /\ phase' = IF lh = <<>> THEN "done" ELSE "write_log"
                    /\ tail' = 1
               ELSE /\ op' = Woken([op EXCEPT ![p] = "out"])
                    /\ UNCHANGED <<committing, phase, tail>>
          /\ UNCHANGED <<booting, panicked>>
  /\ UNCHANGED <<store, memory, cur, wrote>>

-----------------------------------------------------------------------------
(* commit() and recover_from_log(), one block write per step *)

\* write_log(): the next cached block goes to the log; after the last one
\* write_head() follows.
WriteLog ==
  /\ ~panicked /\ phase = "write_log"
  /\ logd' = [logd EXCEPT ![tail] = cache[lh[tail]]]
  /\ IF tail = Len(lh) THEN phase' = "write_head" /\ tail' = 1
                       ELSE phase' = phase /\ tail' = tail + 1
  /\ UNCHANGED <<disk, head, memory, outstanding, committing, booting, calls, panicked>>

\* write_head() of a full header: the commit point.
WriteHead ==
  /\ ~panicked /\ phase = "write_head"
  /\ head' = lh
  /\ phase' = "install_trans"
  /\ UNCHANGED <<disk, logd, memory, outstanding, committing, tail, booting, calls, panicked>>

\* read_head() at boot.
ReadHead ==
  /\ phase = "read_head"
  /\ lh' = head
  /\ phase' = IF head = <<>> THEN "clear_head" ELSE "install_trans"
  /\ tail' = 1
  /\ UNCHANGED <<store, cache, dirty, outstanding, committing, booting, calls, panicked>>

\* install_trans(): bwrite() leaves the home block's buffer clean.
InstallTrans ==
  /\ ~panicked /\ phase = "install_trans"
  /\ disk' = [disk EXCEPT ![lh[tail]] = logd[tail]]
  /\ cache' = [cache EXCEPT ![lh[tail]] = logd[tail]]
  /\ dirty' = dirty \ {lh[tail]}
  /\ IF tail = Len(lh) THEN phase' = "clear_head" /\ tail' = 1
                       ELSE phase' = phase /\ tail' = tail + 1
  /\ UNCHANGED <<logd, head, lh, outstanding, committing, booting, calls, panicked>>

M_ClearHeadInMemoryOnly ==
  /\ ~panicked /\ phase = "clear_head"
  /\ lh' = <<>>
  /\ phase' = IF booting THEN "none" ELSE "done"
  /\ booting' = FALSE
  /\ UNCHANGED <<store, cache, dirty, outstanding, committing, tail, calls, panicked>>

\* log.lh.n = 0 and write_head(); at boot initlog() returns.
ClearHead ==
  /\ ~panicked /\ phase = "clear_head"
  /\ lh' = <<>> /\ head' = <<>>
  /\ phase' = IF booting THEN "none" ELSE "done"
  /\ booting' = FALSE
  /\ UNCHANGED <<disk, logd, cache, dirty, outstanding, committing, tail, calls, panicked>>

\* The last critical section of end_op().
CommitDone(p) ==
  /\ ~panicked
  /\ op[p] = "commit" /\ phase = "done"
  /\ committing' = FALSE
  /\ phase' = "none"
  /\ op' = Woken([op EXCEPT ![p] = "out"])
  /\ UNCHANGED <<store, memory, outstanding, tail, booting, cur, wrote, panicked>>

-----------------------------------------------------------------------------
(* The environment *)

\* bget() recycles a buffer nobody holds and that is not dirty; the next bread()
\* of the block reads the disk.
Evict(b) ==
  /\ ~panicked /\ ~booting
  /\ b \notin dirty /\ b \notin {cur[p] : p \in Procs}
  /\ cache' = [cache EXCEPT ![b] = disk[b]]
  /\ UNCHANGED <<store, lh, dirty, outstanding, committing, commitvars, calls, panicked>>

\* The machine stops and boots again: memory is lost, the disk is not.
Crash ==
  /\ lh' = <<>> /\ cache' = disk /\ dirty' = {}
  /\ outstanding' = 0 /\ committing' = FALSE
  /\ phase' = "read_head" /\ tail' = 1 /\ booting' = TRUE
  /\ op' = [p \in Procs |-> "out"]
  /\ cur' = [p \in Procs |-> NoBlock]
  /\ wrote' = [p \in Procs |-> {}]
  /\ panicked' = FALSE
  /\ UNCHANGED store

\* Booting a disk with an empty log, as mkfs leaves it.
Init ==
  /\ disk \in [Blocks -> Values]
  /\ \E zero \in Values : logd = [i \in 1 .. nlog - 1 |-> zero]
  /\ head = <<>>
  /\ lh = <<>> /\ cache = disk /\ dirty = {}
  /\ outstanding = 0 /\ committing = FALSE
  /\ phase = "read_head" /\ tail = 1 /\ booting = TRUE
  /\ op = [p \in Procs |-> "out"]
  /\ cur = [p \in Procs |-> NoBlock]
  /\ wrote = [p \in Procs |-> {}]
  /\ panicked = FALSE

CommitStep == WriteLog \/ WriteHead \/ ReadHead \/ InstallTrans \/ ClearHead

Next ==
  \/ \E p \in Procs : BeginOp(p) \/ LogAppend(p) \/ EndOp(p) \/ CommitDone(p)
  \/ \E p \in Procs, b \in Blocks, v \in Values : LogWrite(p, b, v)
  \/ CommitStep
  \/ \E b \in Blocks : Evict(b)
  \/ Crash

Spec == Init /\ [][Next]_vars

\* Every process goes on in the kernel, and a file-system call comes to its
\* end_op(); how often it calls log_write() before that is left open.
FairSpec ==
  /\ Spec
  /\ WF_vars(CommitStep)
  /\ \A p \in Procs : /\ WF_vars(LogAppend(p)) /\ WF_vars(CommitDone(p))
                      /\ SF_vars(EndOp(p))

-----------------------------------------------------------------------------
(* Properties *)

\* The disk d after install_trans() of the log l with header h.
Installed(d, l, h) ==
  [b \in Blocks |->
     IF \E i \in 1 .. Len(h) : h[i] = b
       THEN l[CHOOSE i \in 1 .. Len(h) : h[i] = b]
       ELSE d[b]]

\* The disk as recover_from_log() would leave it if the machine stopped now.
Recovered == Installed(disk, logd, head)

\* The log of log.c implements the promise of AtomicLog: crashes, recovery and
\* crashes during recovery never show part of a file-system call.
Atomic == INSTANCE AtomicLog WITH
  durable <- Recovered,
  view <- IF booting THEN Recovered ELSE cache,
  active <- InOp
CrashAtomic == Atomic!Spec

\* begin_op() sleeps only while its reason to sleep lasts: no wakeup(&log) of
\* end_op() is missed.
SleepIsWarranted == \A p \in Procs : op[p] = "asleep" => MustWait

\* No log_write() finds the log full, although its test is made before log.lock
\* is taken, and no end_op() meets a commit in progress.
NoPanic == ~panicked /\ Len(lh) <= nlog - 1

\* A block with changes that are not on the disk is dirty or locked, so bget()
\* never recycles it.
DirtyIsPinned ==
  ~booting => \A b \in Blocks :
    cache[b] # disk[b] => b \in dirty \/ \E p \in Procs : cur[p] = b

\* Every process asleep in begin_op() is woken.
SleeperWoken == \A p \in Procs : op[p] = "asleep" ~> op[p] # "asleep"

=============================================================================
