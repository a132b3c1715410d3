--------------------------------- MODULE Bio ---------------------------------
(***************************************************************************)
(* The buffer cache, the sleep lock of each buffer and the IDE driver below *)
(* it: src/xv6-public/bio.c, sleeplock.c and ide.c.  A step is one critical *)
(* section of bcache.lock, of a sleep lock's spin lock or of idelock.      *)
(* Of the contents of a copy of a block the model keeps whether they are   *)
(* the ones last written to that block.                                    *)
(***************************************************************************)
EXTENDS Integers, Sequences, FiniteSets, SequencesExt

CONSTANTS
  Procs, Blocks,
  Null,       \* no block, no buffer, no process
  NBUF,
  MaxDirty    \* how many buffers the log keeps dirty at a time

BioAssumption ==
  /\ NBUF \in Nat \ {0} /\ MaxDirty \in Nat
  /\ Null \notin Blocks \cup Procs \cup (1 .. NBUF)

VARIABLES
  disk,       \* has the disk the contents last written to the block?
  list,       \* bcache.head.next ..: the most recently used buffer first
  blockno, valid, dirty, refcnt, locked,   \* the fields of struct buf
  data,       \* are b->data the contents last written to the block?
  idequeue,
  transfer,   \* the same of the data the disk has taken for a write
  pc, buf,    \* where each process is, and its buffer
  panicked,
  faulted     \* history: the disk has reported an error

cache == <<list, blockno, refcnt>>
flags == <<valid, dirty, data>>
drive == <<disk, idequeue, transfer, faulted>>
vars == <<disk, list, blockno, valid, dirty, refcnt, locked, data, idequeue, transfer,
          pc, buf, panicked, faulted>>

Bufs == 1 .. NBUF

PCs == {"user",     \* holds no buffer
        "acquire",  \* in acquiresleep(&b->lock)
        "waiting",  \* asleep on &b->lock
        "locked",   \* in bread(), has the lock
        "rw",       \* calls iderw(b)
        "io",       \* in iderw(b), asleep on b
        "done",     \* in iderw(b), woken
        "held",     \* bread() or bwrite() has returned
        "release"}  \* in brelse(), has given the lock up

-----------------------------------------------------------------------------
(* bio.c *)

Cached(blk) == {b \in Bufs : blockno[b] = blk}

\* The buffers bget() may recycle, in the order of the list.
FreeBufs == SelectSeq(list, LAMBDA b : refcnt[b] = 0 /\ ~dirty[b])

M_RecycledKept(flag) == flag

\* b->flags = 0
Recycled(flag) == FALSE

\* b->refcnt++ and b->refcnt--
Ref(n) == n + 1

Unref(n) == n - 1

\* bget(): the buffer of the block, or the least recently used free one.
Bget(p, blk) ==
  /\ ~panicked /\ pc[p] = "user"
  /\ \/ \E b \in Cached(blk) :
          /\ refcnt' = [refcnt EXCEPT ![b] = Ref(@)]
          /\ buf' = [buf EXCEPT ![p] = b] /\ pc' = [pc EXCEPT ![p] = "acquire"]
          /\ UNCHANGED <<blockno, flags, panicked>>
     \/ /\ Cached(blk) = {}
        /\ IF FreeBufs = <<>>
             THEN panicked' = TRUE /\ UNCHANGED <<blockno, flags, refcnt, buf, pc>>
             ELSE LET b == Last(FreeBufs)
                  IN /\ blockno' = [blockno EXCEPT ![b] = blk]
                     /\ valid' = [valid EXCEPT ![b] = Recycled(@)]
                     /\ dirty' = [dirty EXCEPT ![b] = Recycled(@)]
                     /\ data' = [data EXCEPT ![b] = FALSE]
                     /\ refcnt' = [refcnt EXCEPT ![b] = 1]
                     /\ buf' = [buf EXCEPT ![p] = b] /\ pc' = [pc EXCEPT ![p] = "acquire"]
                     /\ UNCHANGED panicked
  /\ UNCHANGED <<drive, list, locked>>

\* One turn of the loop of acquiresleep().
AcquireSleep(p) ==
  /\ ~panicked /\ pc[p] = "acquire"
  /\ IF locked[buf[p]] # Null
       THEN pc' = [pc EXCEPT ![p] = "waiting"] /\ UNCHANGED locked
       ELSE pc' = [pc EXCEPT ![p] = "locked"] /\ locked' = [locked EXCEPT ![buf[p]] = p]
  /\ UNCHANGED <<cache, flags, drive, buf, panicked>>

\* bread() goes to the disk unless the buffer is valid.
Bread(p) ==
  /\ ~panicked /\ pc[p] = "locked"
  /\ pc' = [pc EXCEPT ![p] = IF valid[buf[p]] THEN "held" ELSE "rw"]
  /\ UNCHANGED <<cache, flags, drive, locked, buf, panicked>>

\* The holder changes the data and calls bwrite().
Bwrite(p) ==
  /\ ~panicked /\ pc[p] = "held"
  /\ data' = [data EXCEPT ![buf[p]] = TRUE]
  /\ disk' = [disk EXCEPT ![blockno[buf[p]]] = FALSE]
  /\ dirty' = [dirty EXCEPT ![buf[p]] = TRUE]
  /\ pc' = [pc EXCEPT ![p] = "rw"]
  /\ UNCHANGED <<cache, valid, idequeue, transfer, faulted, locked, buf, panicked>>

\* The holder changes the data and calls log_write(), which pins the buffer.
LogWrite(p) ==
  /\ ~panicked /\ pc[p] = "held"
  /\ Cardinality({b \in Bufs : dirty[b]} \cup {buf[p]}) <= MaxDirty
  /\ data' = [data EXCEPT ![buf[p]] = TRUE]
  /\ disk' = [disk EXCEPT ![blockno[buf[p]]] = FALSE]
  /\ dirty' = [dirty EXCEPT ![buf[p]] = TRUE]
  /\ UNCHANGED <<cache, valid, idequeue, transfer, faulted, locked, pc, buf, panicked>>

M_WokenAfterIo(state, b) ==
  [q \in Procs |-> IF state = "io" /\ pc[q] = "io" /\ buf[q] = b THEN "done" ELSE pc[q]]

\* wakeup(): the processes that sleep in the given state for the buffer b.
Woken(state, b) ==
  [q \in Procs |-> IF pc[q] # state \/ buf[q] # b THEN pc[q]
                   ELSE IF state = "io" THEN "done" ELSE "acquire"]

\* The first half of brelse(): releasesleep() wakes all that wait for the lock.
ReleaseSleep(p) ==
  /\ ~panicked /\ pc[p] = "held"
  /\ locked' = [locked EXCEPT ![buf[p]] = Null]
  /\ pc' = [Woken("waiting", buf[p]) EXCEPT ![p] = "release"]
  /\ UNCHANGED <<cache, flags, drive, buf, panicked>>

\* The second half of brelse(): an unused buffer goes to the head of the list.
Brelse(p) ==
  LET b == buf[p]
  IN /\ ~panicked /\ pc[p] = "release"
     /\ refcnt' = [refcnt EXCEPT ![b] = Unref(@)]
     /\ list' = IF refcnt[b] = 1 THEN <<b>> \o Remove(list, b) ELSE list
     /\ pc' = [pc EXCEPT ![p] = "user"] /\ buf' = [buf EXCEPT ![p] = Null]
     /\ UNCHANGED <<blockno, flags, drive, locked, panicked>>

-----------------------------------------------------------------------------
(* ide.c *)

\* idestart(): for a write the disk takes the data at once.
Started(queue) == IF queue # <<>> /\ dirty[queue[1]] THEN data[queue[1]] ELSE transfer

\* iderw(): the request is queued, and started when it is the only one; the
\* process sleeps, its buffer not being ready yet.
Iderw(p) ==
  LET b == buf[p]
  IN /\ ~panicked /\ pc[p] = "rw"
     /\ IF locked[b] # p \/ (valid[b] /\ ~dirty[b])
          THEN panicked' = TRUE /\ UNCHANGED <<idequeue, transfer, pc>>
          ELSE /\ idequeue' = Append(idequeue, b)
               /\ transfer' = IF idequeue = <<>> THEN Started(<<b>>) ELSE transfer
               /\ pc' = [pc EXCEPT ![p] = "io"]
               /\ UNCHANGED panicked
     /\ UNCHANGED <<cache, flags, disk, locked, buf, faulted>>

\* iderw() wakes up and tests the flags again.
IderwWoken(p) ==
  /\ ~panicked /\ pc[p] = "done"
  /\ pc' = [pc EXCEPT ![p] = IF valid[buf[p]] /\ ~dirty[buf[p]] THEN "held" ELSE "io"]
  /\ UNCHANGED <<cache, flags, drive, locked, buf, panicked>>

\* The disk has finished the first request and interrupts.  A failed write is
\* not noticed, a failed read leaves the data as they were.
Ideintr(failed) ==
  LET b == idequeue[1]
  IN /\ ~panicked /\ idequeue # <<>>
     /\ idequeue' = Tail(idequeue)
     /\ disk' = IF dirty[b] /\ ~failed THEN [disk EXCEPT ![blockno[b]] = transfer] ELSE disk
     /\ data' = [data EXCEPT ![b] = IF dirty[b] \/ failed THEN @ ELSE disk[blockno[b]]]
     /\ valid' = [valid EXCEPT ![b] = TRUE] /\ dirty' = [dirty EXCEPT ![b] = FALSE]
     /\ pc' = Woken("io", b)
     /\ transfer' = Started(Tail(idequeue))
     /\ faulted' = (faulted \/ failed)
     /\ UNCHANGED <<cache, locked, buf, panicked>>

-----------------------------------------------------------------------------
\* binit() links the buffers, the last one first.
Init ==
  /\ disk = [blk \in Blocks |-> TRUE]
  /\ list = [n \in Bufs |-> NBUF + 1 - n]
  /\ blockno = [b \in Bufs |-> Null]
  /\ valid = [b \in Bufs |-> FALSE] /\ dirty = [b \in Bufs |-> FALSE]
  /\ refcnt = [b \in Bufs |-> 0] /\ locked = [b \in Bufs |-> Null]
  /\ transfer = FALSE /\ data = [b \in Bufs |-> FALSE]
  /\ idequeue = <<>>
  /\ pc = [p \in Procs |-> "user"] /\ buf = [p \in Procs |-> Null]
  /\ panicked = FALSE /\ faulted = FALSE

Step(p) ==
  AcquireSleep(p) \/ Bread(p) \/ ReleaseSleep(p) \/ Brelse(p) \/ Iderw(p) \/ IderwWoken(p)

Next ==
  \/ \E p \in Procs : Step(p) \/ Bwrite(p) \/ LogWrite(p) \/ \E blk \in Blocks : Bget(p, blk)
  \/ \E failed \in BOOLEAN : Ideintr(failed)

Spec == Init /\ [][Next]_vars

-----------------------------------------------------------------------------
(* Properties *)

\* "Only one process at a time can use a buffer": a block is in one buffer, and a
\* holder has the buffer of its block to itself.
OneBufferPerBlock ==
  /\ \A a, b \in Bufs : blockno[a] = blockno[b] /\ blockno[a] # Null => a = b
  /\ \A p, q \in Procs : pc[p] = "held" /\ pc[q] \in {"held", "rw", "io", "done"} /\ buf[p] = buf[q] => p = q

\* bread() and bwrite() return the value last written to the block, whoever wrote
\* it and whatever buffers have been recycled since, unless the disk has reported
\* an error: ideintr() marks the buffer valid all the same.
HeldIsCurrent == ~faulted => \A p \in Procs : pc[p] = "held" => data[buf[p]]

\* The value last written is in the cache or, unless the disk has reported an
\* error, on the disk.
NothingLost ==
  ~faulted => \A blk \in Blocks : disk[blk] \/ \E b \in Cached(blk) : dirty[b] /\ data[b]

\* The cache is invisible but for its speed: one buffer per block with one user at
\* a time, who sees what was last written, of which nothing is lost when a buffer is
\* recycled.
CacheCoherent == OneBufferPerBlock /\ HeldIsCurrent /\ NothingLost

\* A process asleep on a buffer's lock or on its I/O will be woken: the lock is
\* held, the request is queued.
SleepIsWarranted ==
  \A p \in Procs :
    /\ pc[p] = "waiting" => locked[buf[p]] # Null
    /\ pc[p] = "io" => \E n \in 1 .. Len(idequeue) : idequeue[n] = buf[p]

=============================================================================
