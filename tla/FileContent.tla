----------------------------- MODULE FileContent -----------------------------
(***************************************************************************)
(* The content of files: balloc, bfree, bmap, itrunc, readi and writei of  *)
(* src/xv6-public/fs.c under fileread and filewrite of file.c.  Processes  *)
(* write through open files that may share an offset or an inode.  A write *)
(* is cut into transactions; under the lock of the inode it goes block by  *)
(* block, so writes to different inodes interleave.  A cell of a block     *)
(* holds a byte, or a block number in an indirect block.                   *)
(***************************************************************************)
EXTENDS Integers, Sequences, FiniteSets, FiniteSetsExt

CONSTANTS
  Procs, Inodes,
  FileOf,       \* the open file that each process uses
  InodeOf,      \* the inode of each open file
  NBLOCKS, BSIZE, NDIRECT, NINDIRECT, MAXOPBLOCKS,
  Bytes,        \* what is written
  Sizes         \* how much is written or read in one call

ASSUME ContentAssumption ==
  /\ {NBLOCKS, BSIZE, NDIRECT, NINDIRECT} \subseteq Nat \ {0}
  /\ NINDIRECT <= BSIZE
  /\ MAXOPBLOCKS \in Nat /\ MAXOPBLOCKS >= 6
  /\ Bytes \subseteq Nat /\ Sizes \subseteq Nat
  /\ 0 \notin Procs /\ \A p \in Procs : InodeOf[FileOf[p]] \in Inodes

VARIABLES
  fs,           \* the bitmap, addrs and size in memory and on disk, the blocks,
                \* and what the transaction of each process has logged
  off,          \* of each open file
  lock,         \* of each inode
  loc,          \* the locals of a filewrite()
  panic,
  written       \* history: what the files should contain

vars == <<fs, off, lock, loc, panic, written>>

Files == {FileOf[p] : p \in Procs}
Blocks == 1 .. NBLOCKS
Nil == 0
Cells == 0 .. BSIZE - 1
Zero == [c \in Cells |-> 0]
MAXFILE == NDIRECT + NINDIRECT
Idle == [pc |-> "user", left |-> 0, n |-> 0, tot |-> 0, byte |-> 0]
Ino(p) == InodeOf[FileOf[p]]

-----------------------------------------------------------------------------
(* Blocks.  The operators take and return the state of the file system. *)

\* log_write() of a block, an inode's block or a block of the bitmap; in the
\* worst case every bit is in a bitmap block of its own.
LogWrite(s, p, b) == [s EXCEPT !.logged[p] = @ \cup {b}]
DBLOCK(b) == <<"data", b>>
BBLOCK(b) == <<"bitmap", b>>
IBLOCK(i) == <<"inode", i>>

FreeBlocks(s) == Blocks \ s.used
Fresh(s) == Min(FreeBlocks(s))

M_BzeroNot(s, p, b) == LogWrite(s, p, DBLOCK(b))

\* bzero()
Bzero(s, p, b) == LogWrite([s EXCEPT !.data[b] = Zero], p, DBLOCK(b))

\* balloc(): the first free block, marked and zeroed.
Balloc(s, p) ==
  LET b == Fresh(s)
  IN Bzero(LogWrite([s EXCEPT !.used = @ \cup {b}], p, BBLOCK(b)), p, b)

\* The addresses bmap() makes up for block bn of inode i, without and with
\* allocation.  The indirect block is the last of addrs.
Entry(s, i, bn) == s.data[s.addrs[i][NDIRECT]][bn - NDIRECT]
AllocAddr(s, p, i, k) ==
  IF s.addrs[i][k] # Nil THEN s
  ELSE [Balloc(s, p) EXCEPT !.addrs[i][k] = Fresh(s)]
AllocEntry(s, p, i, bn) ==
  LET ind == s.addrs[i][NDIRECT]
  IN IF Entry(s, i, bn) # Nil THEN s
     ELSE LogWrite([Balloc(s, p) EXCEPT !.data[ind][bn - NDIRECT] = Fresh(s)], p, DBLOCK(ind))
Bmap(s, p, i, bn) ==
  IF bn < NDIRECT THEN AllocAddr(s, p, i, bn)
  ELSE AllocEntry(AllocAddr(s, p, i, NDIRECT), p, i, bn)
Addr(s, i, bn) == IF bn < NDIRECT THEN s.addrs[i][bn] ELSE Entry(s, i, bn)

\* How many blocks bmap() allocates.
Needs(s, i, bn) ==
  IF bn < NDIRECT THEN (IF s.addrs[i][bn] = Nil THEN 1 ELSE 0)
  ELSE IF s.addrs[i][NDIRECT] = Nil THEN 2
  ELSE IF Entry(s, i, bn) = Nil THEN 1 ELSE 0

\* iupdate()
Iupdate(s, p, i) ==
  LogWrite([s EXCEPT !.daddrs[i] = s.addrs[i], !.dsize[i] = s.size[i]], p, IBLOCK(i))

\* The blocks itrunc() frees.
Direct(s, i) == {s.addrs[i][k] : k \in 0 .. NDIRECT} \ {Nil}
Indirect(s, i) ==
  IF s.addrs[i][NDIRECT] = Nil THEN {}
  ELSE {s.data[s.addrs[i][NDIRECT]][k] : k \in 0 .. NINDIRECT - 1} \ {Nil}

M_TruncatedLeaks(s, i) == Direct(s, i)

Truncated(s, i) == Direct(s, i) \cup Indirect(s, i)

-----------------------------------------------------------------------------
(* filewrite(), fileread() *)

M_maxNoSlop == ((MAXOPBLOCKS - 1 - 1) \div 2) * BSIZE

\* "write a few blocks at a time to avoid exceeding the maximum log transaction
\* size"
max == ((MAXOPBLOCKS - 1 - 1 - 2) \div 2) * BSIZE

FileWrite(p, n, byte) ==
  /\ ~panic /\ loc[p].pc = "user" /\ n > 0
  /\ loc' = [loc EXCEPT ![p] = [Idle EXCEPT !.pc = "chunk", !.left = n, !.byte = byte]]
  /\ UNCHANGED <<fs, off, lock, panic, written>>

\* The tests at the head of writei().
TooFar(i, o, n) == o > fs.size[i] \/ o + n > MAXFILE * BSIZE

\* begin_op(), ilock(), and the checks of writei(); a chunk that is refused ends
\* the call, and the chunks before it stay written.
Chunk(p) ==
  LET n == Min({loc[p].left, max})
  IN /\ ~panic /\ loc[p].pc = "chunk" /\ lock[Ino(p)] = Nil
     /\ IF TooFar(Ino(p), off[FileOf[p]], n)
          THEN loc' = [loc EXCEPT ![p] = Idle] /\ UNCHANGED lock
          ELSE /\ lock' = [lock EXCEPT ![Ino(p)] = p]
               /\ loc' = [loc EXCEPT ![p] = [@ EXCEPT !.pc = "copy", !.n = n, !.tot = 0]]
     /\ UNCHANGED <<fs, off, panic, written>>

\* One round of the loop of writei().
CopyBlock(p) ==
  LET i == Ino(p)
      o == off[FileOf[p]] + loc[p].tot
      bn == o \div BSIZE
      m == Min({loc[p].n - loc[p].tot, BSIZE - (o % BSIZE)})
      s == Bmap(fs, p, i, bn)
      b == Addr(s, i, bn)
  IN /\ ~panic /\ loc[p].pc = "copy" /\ loc[p].tot < loc[p].n
     /\ IF Needs(fs, i, bn) > Cardinality(FreeBlocks(fs))
          THEN panic' = TRUE /\ UNCHANGED <<fs, loc>>
          ELSE /\ fs' = LogWrite([s EXCEPT !.data[b] =
                          [c \in Cells |-> IF c \in (o % BSIZE) .. (o % BSIZE) + m - 1
                                           THEN loc[p].byte ELSE @[c]]], p, DBLOCK(b))
               /\ loc' = [loc EXCEPT ![p].tot = @ + m]
               /\ UNCHANGED panic
     /\ UNCHANGED <<off, lock, written>>

\* The size grows, and only then the inode is written.
Grown(s, p, i, end) ==
  IF end > s.size[i] THEN Iupdate([s EXCEPT !.size[i] = end], p, i) ELSE s

M_AdvanceNot(p) == off

\* f->off += r
Advance(p) == [off EXCEPT ![FileOf[p]] = @ + loc[p].n]

\* The end of writei(): size, offset, iunlock().
ChunkDone(p) ==
  LET i == Ino(p)
      o == off[FileOf[p]]
      end == o + loc[p].n
  IN /\ ~panic /\ loc[p].pc = "copy" /\ loc[p].tot = loc[p].n
     /\ fs' = Grown(fs, p, i, end)
     /\ off' = Advance(p)
     /\ lock' = [lock EXCEPT ![i] = Nil]
     /\ loc' = [loc EXCEPT ![p] = [@ EXCEPT !.pc = "end", !.left = loc[p].left - loc[p].n]]
     /\ written' = [written EXCEPT ![i] =
          [k \in 1 .. Max({Len(@), end}) |-> IF k \in o + 1 .. end THEN loc[p].byte ELSE @[k]]]
     /\ UNCHANGED panic

\* end_op(), and the next chunk if there is one.
EndOp(p) ==
  /\ ~panic /\ loc[p].pc = "end"
  /\ fs' = [fs EXCEPT !.logged[p] = {}]
  /\ loc' = [loc EXCEPT ![p] = IF @.left = 0 THEN Idle
                               ELSE [@ EXCEPT !.pc = "chunk", !.n = 0, !.tot = 0]]
  /\ UNCHANGED <<off, lock, panic, written>>

\* fileread(): what is read follows from the state; the offset moves.
FileRead(p, n) ==
  LET f == FileOf[p]
      i == Ino(p)
  IN /\ ~panic /\ loc[p].pc = "user" /\ lock[i] = Nil
     /\ off[f] <= fs.size[i]
     /\ off' = [off EXCEPT ![f] = Min({@ + n, fs.size[i]})]
     /\ UNCHANGED <<fs, lock, loc, panic, written>>

\* iput() of an inode without links and references; its number is given to a new
\* file that is opened.
Itrunc(i) ==
  /\ ~panic /\ lock[i] = Nil
  /\ \A p \in Procs : Ino(p) = i => loc[p].pc = "user"
  /\ IF Truncated(fs, i) \subseteq fs.used
       THEN /\ fs' = [fs EXCEPT !.used = @ \ Truncated(fs, i),
                                !.addrs[i] = [k \in 0 .. NDIRECT |-> Nil], !.size[i] = 0,
                                !.daddrs[i] = [k \in 0 .. NDIRECT |-> Nil], !.dsize[i] = 0]
            /\ UNCHANGED panic
       ELSE panic' = TRUE /\ UNCHANGED fs
  /\ off' = [f \in Files |-> IF InodeOf[f] = i THEN 0 ELSE off[f]]
  /\ written' = [written EXCEPT ![i] = <<>>]
  /\ UNCHANGED <<lock, loc>>

Init ==
  /\ fs = [used |-> {}, data |-> [b \in Blocks |-> Zero],
           addrs |-> [i \in Inodes |-> [k \in 0 .. NDIRECT |-> Nil]],
           daddrs |-> [i \in Inodes |-> [k \in 0 .. NDIRECT |-> Nil]],
           size |-> [i \in Inodes |-> 0], dsize |-> [i \in Inodes |-> 0],
           logged |-> [p \in Procs |-> {}]]
  /\ off = [f \in Files |-> 0]
  /\ lock = [i \in Inodes |-> Nil]
  /\ loc = [p \in Procs |-> Idle]
  /\ panic = FALSE
  /\ written = [i \in Inodes |-> <<>>]

Next ==
  \/ \E p \in Procs :
       \/ \E n \in Sizes, byte \in Bytes : FileWrite(p, n, byte)
       \/ \E n \in Sizes : FileRead(p, n)
       \/ Chunk(p) \/ CopyBlock(p) \/ ChunkDone(p) \/ EndOp(p)
  \/ \E i \in Inodes : Itrunc(i)

Spec == Init /\ [][Next]_vars

-----------------------------------------------------------------------------
(* Properties *)

Quiet(i) == ~panic /\ lock[i] = Nil

\* What readi() returns for the whole file is what was written, across direct and
\* indirect blocks, several files and reuse of freed blocks; and the inode on disk
\* is the one in memory, though writei() calls iupdate() only if the size grew.
ReadsBack ==
  \A i \in Inodes : Quiet(i) =>
    /\ fs.dsize[i] = fs.size[i] /\ fs.daddrs[i] = fs.addrs[i]
    /\ fs.size[i] = Len(written[i])
    /\ \A k \in 1 .. Len(written[i]) :
         LET b == Addr(fs, i, (k - 1) \div BSIZE)
         IN b # Nil /\ fs.data[b][(k - 1) % BSIZE] = written[i][k]

\* The bitmap marks exactly the blocks of the files, and no two files, or two
\* places of one, share a block: nothing is leaked or used twice.
Places == Inodes \X (0 .. MAXFILE)
BlockAt(i, k) ==
  IF k <= NDIRECT THEN fs.addrs[i][k]
  ELSE IF fs.addrs[i][NDIRECT] = Nil THEN Nil
  ELSE Entry(fs, i, k - 1)
BlocksOwned ==
  /\ fs.used = {BlockAt(x[1], x[2]) : x \in Places} \ {Nil}
  /\ \A x, y \in Places : BlockAt(x[1], x[2]) = BlockAt(y[1], y[2]) /\ x # y =>
       BlockAt(x[1], x[2]) = Nil

\* A transaction of filewrite() logs no more than the MAXOPBLOCKS that begin_op()
\* reserves for it, even if every bitmap bit is in another block.
ChunkFits == \A p \in Procs : Cardinality(fs.logged[p]) <= MAXOPBLOCKS

\* v is w with more behind it.
Continues(w, v) == Len(w) <= Len(v) /\ \A k \in 1 .. Len(w) : v[k] = w[k]

\* Writes through one open file, by any number of processes, append: nothing that
\* was written is overwritten, because the offset moves under the inode's lock.
AppendsOnly ==
  [][\A i \in Inodes : Continues(written[i], written'[i]) \/ written'[i] = <<>>]_vars

=============================================================================
