-------------------------------- MODULE Pipe ---------------------------------
(***************************************************************************)
(* The pipe of src/xv6-public/pipe.c between processes that write, read,   *)
(* are killed and close their end.  Only the holder of p->lock takes the   *)
(* steps of a call; kill() comes at any time, also between the test of     *)
(* p->killed and sleep().  sleep() gives p->lock up and goes to sleep in   *)
(* one step, which is what ptable.lock is for.                             *)
(***************************************************************************)
EXTENDS Integers, Sequences, FiniteSets

CONSTANTS
  Writers, Readers,  \* processes with the write end, with the read end open
  Killable,          \* processes that may be killed
  Nobody,
  Bytes,
  Counts,            \* sizes of a read or a write
  PIPESIZE,
  UINT               \* the range of an unsigned int, 2^32

PipeAssumption ==
  /\ PIPESIZE \in Nat \ {0} /\ UINT \in Nat
  /\ UINT > PIPESIZE /\ UINT % PIPESIZE = 0
  /\ Counts \subseteq Nat
  /\ Writers # {} /\ Readers # {} /\ Writers \cap Readers = {}
  /\ Nobody \notin Writers \cup Readers /\ Killable \subseteq Writers \cup Readers

VARIABLES
  nread, nwrite, data, readopen, writeopen,
  lock,     \* the holder of p->lock
  ppc,      \* where each process is
  i, n,     \* its loop counter and its byte count
  addr,     \* the byte a reader copied last
  killed,   \* the processes with p->killed
  freed     \* how often the pipe has been freed

Callers == Writers \cup Readers
ring == <<nread, nwrite, data>>
endvars == <<readopen, writeopen, freed>>
pipevars == <<nread, nwrite, data, readopen, writeopen, lock, ppc, i, n, addr, killed, freed>>

PCs == {"user",     \* not in a call on the pipe
        "acquire",  \* about to take p->lock, at the start of a call or after a sleep
        "loop",     \* holds p->lock, at the test of the while loop
        "copy",     \* holds p->lock, in the copying loop of piperead()
        "sleep",    \* holds p->lock, calls sleep(): it has tested p->killed
        "asleep",   \* asleep on &p->nread or &p->nwrite
        "close",    \* closes the last reference to its end
        "closed"}   \* has no reference to the pipe

-----------------------------------------------------------------------------
\* x++ of an unsigned int
Inc(x) == (x + 1) % UINT

M_FullOneLate == nwrite = (nread + PIPESIZE + 1) % UINT

Full == nwrite = (nread + PIPESIZE) % UINT
Empty == nread = nwrite

\* wakeup(): the sleepers in S go for the lock again.
Woken(S) == [p \in Callers |-> IF p \in S /\ ppc[p] = "asleep" THEN "acquire" ELSE ppc[p]]

\* A system call reaches pipewrite() or piperead().
Call(p, m) ==
  /\ ppc[p] = "user"
  /\ ppc' = [ppc EXCEPT ![p] = "acquire"]
  /\ i' = [i EXCEPT ![p] = 0] /\ n' = [n EXCEPT ![p] = m]
  /\ UNCHANGED <<ring, endvars, lock, addr, killed>>

Acquire(p) ==
  /\ ppc[p] = "acquire" /\ lock = Nobody
  /\ lock' = p /\ ppc' = [ppc EXCEPT ![p] = "loop"]
  /\ UNCHANGED <<ring, endvars, i, n, addr, killed>>

\* sleep() takes ptable.lock, gives p->lock up and sleeps.
Sleep(p) ==
  /\ ppc[p] = "sleep"
  /\ ppc' = [ppc EXCEPT ![p] = "asleep"] /\ lock' = Nobody
  /\ UNCHANGED <<ring, endvars, i, n, addr, killed>>

\* The end of a call: p->lock is released, the processes are as in state.
Return(p, state) ==
  /\ lock' = Nobody
  /\ ppc' = [state EXCEPT ![p] = "user"]
  /\ UNCHANGED <<i, n, addr, killed, endvars>>

\* pipewrite() meets a full pipe: it gives up, or wakes the readers and sleeps.
WriteFull(p) ==
  /\ ppc[p] = "loop" /\ i[p] < n[p] /\ Full
  /\ IF ~readopen \/ p \in killed
       THEN Return(p, ppc)
       ELSE /\ ppc' = [Woken(Readers) EXCEPT ![p] = "sleep"]
            /\ UNCHANGED <<lock, i, n, addr, killed, endvars>>
  /\ UNCHANGED ring

WriteByte(p, b) ==
  /\ ppc[p] = "loop" /\ i[p] < n[p] /\ ~Full
  /\ data' = [data EXCEPT ![nwrite % PIPESIZE] = b]
  /\ nwrite' = Inc(nwrite)
  /\ i' = [i EXCEPT ![p] = @ + 1]
  /\ UNCHANGED <<nread, endvars, lock, ppc, n, addr, killed>>

M_WriteDoneSilent(p) ==
  /\ ppc[p] = "loop" /\ i[p] >= n[p]
  /\ Return(p, ppc)
  /\ UNCHANGED ring

WriteDone(p) ==
  /\ ppc[p] = "loop" /\ i[p] >= n[p]
  /\ Return(p, Woken(Readers))
  /\ UNCHANGED ring

\* piperead() waits for data while the write end is open.
ReadEmpty(p) ==
  /\ ppc[p] = "loop" /\ Empty /\ writeopen
  /\ IF p \in killed
       THEN Return(p, ppc)
       ELSE /\ ppc' = [ppc EXCEPT ![p] = "sleep"]
            /\ UNCHANGED <<lock, i, n, addr, killed, endvars>>
  /\ UNCHANGED ring

Copying(p) == ppc[p] = "copy" \/ (ppc[p] = "loop" /\ ~(Empty /\ writeopen))

ReadByte(p) ==
  /\ Copying(p) /\ i[p] < n[p] /\ ~Empty
  /\ addr' = [addr EXCEPT ![p] = data[nread % PIPESIZE]]
  /\ nread' = Inc(nread)
  /\ i' = [i EXCEPT ![p] = @ + 1]
  /\ ppc' = [ppc EXCEPT ![p] = "copy"]
  /\ UNCHANGED <<nwrite, data, endvars, lock, n, killed>>

ReadDone(p) ==
  /\ Copying(p) /\ (i[p] >= n[p] \/ Empty)
  /\ Return(p, Woken(Writers))
  /\ UNCHANGED ring

\* kill() marks the process and wakes it from its sleep.
Kill(p) ==
  /\ p \notin killed /\ ppc[p] # "closed"
  /\ killed' = killed \cup {p}
  /\ ppc' = [ppc EXCEPT ![p] = IF @ = "asleep" THEN "acquire" ELSE @]
  /\ UNCHANGED <<ring, endvars, lock, i, n, addr>>

\* fileclose(): the last process of an end calls pipeclose().
Close(p) ==
  LET peers == (IF p \in Writers THEN Writers ELSE Readers) \ {p}
  IN /\ ppc[p] = "user"
     /\ ppc' = [ppc EXCEPT ![p] =
                 IF \A q \in peers : ppc[q] \in {"close", "closed"} THEN "close" ELSE "closed"]
     /\ UNCHANGED <<ring, endvars, lock, i, n, addr, killed>>

M_PipeCloseFreesWithWriter(p) ==
  /\ ppc[p] = "close" /\ lock = Nobody
  /\ IF p \in Writers
       THEN writeopen' = FALSE /\ UNCHANGED readopen /\ ppc' = [Woken(Readers) EXCEPT ![p] = "closed"]
       ELSE readopen' = FALSE /\ UNCHANGED writeopen /\ ppc' = [Woken(Writers) EXCEPT ![p] = "closed"]
  /\ freed' = IF ~writeopen' THEN freed + 1 ELSE freed
  /\ UNCHANGED <<ring, lock, i, n, addr, killed>>

\* pipeclose(), one critical section and the kfree() that may follow it.
PipeClose(p) ==
  /\ ppc[p] = "close" /\ lock = Nobody
  /\ IF p \in Writers
       THEN writeopen' = FALSE /\ UNCHANGED readopen /\ ppc' = [Woken(Readers) EXCEPT ![p] = "closed"]
       ELSE readopen' = FALSE /\ UNCHANGED writeopen /\ ppc' = [Woken(Writers) EXCEPT ![p] = "closed"]
  /\ freed' = IF ~readopen' /\ ~writeopen' THEN freed + 1 ELSE freed
  /\ UNCHANGED <<ring, lock, i, n, addr, killed>>

\* pipealloc()
PipeInit ==
  /\ nread = 0 /\ nwrite = 0 /\ \E b \in Bytes : data = [j \in 0 .. PIPESIZE - 1 |-> b]
  /\ readopen = TRUE /\ writeopen = TRUE /\ freed = 0
  /\ lock = Nobody
  /\ ppc = [p \in Callers |-> "user"]
  /\ i = [p \in Callers |-> 0] /\ n = [p \in Callers |-> 0]
  /\ \E b \in Bytes : addr = [p \in Readers |-> b]
  /\ killed = {}

Step(p) ==
  \/ Acquire(p) \/ Sleep(p) \/ PipeClose(p)
  \/ p \in Writers /\ (WriteFull(p) \/ WriteDone(p) \/ \E b \in Bytes : WriteByte(p, b))
  \/ p \in Readers /\ (ReadEmpty(p) \/ ReadByte(p) \/ ReadDone(p))

PipeNext ==
  \/ \E p \in Callers : Step(p) \/ Close(p) \/ \E m \in Counts : Call(p, m)
  \/ \E p \in Killable : Kill(p)

PipeSpec == PipeInit /\ [][PipeNext]_pipevars

-----------------------------------------------------------------------------
(* Properties *)

Contents == [j \in 1 .. (nwrite - nread) % UINT |-> data[(nread + j - 1) % PIPESIZE]]

Queue == INSTANCE ByteQueue WITH queue <- Contents, Capacity <- PIPESIZE

\* The ring buffer is a queue of PIPESIZE bytes: no byte is lost, duplicated or
\* reordered, also when the unsigned counters wrap around.
BytesInOrder == Queue!Spec

\* Nobody sleeps without a reason: a writer only while the pipe is full and has a
\* reader, a reader only while it is empty (DOC: pipe-empty, xv6-public/pipe.c:106)
\* and has a writer.  For readers this holds as long as no writer has been killed:
\* pipewrite() then returns -1 without a wakeup(), whatever it has written by then.
SleepIsWarranted ==
  lock = Nobody =>
    /\ \A p \in Writers : ppc[p] = "asleep" => Full /\ readopen
    /\ killed \cap Writers = {} =>
         \A p \in Readers : ppc[p] = "asleep" => Empty /\ writeopen

\* Two processes that close the two ends free the pipe once, after the last use.
FreedOnce ==
  /\ freed <= 1
  /\ freed = 1 <=> \A p \in Callers : ppc[p] = "closed"

=============================================================================
