-------------------------------- MODULE Mkfs --------------------------------
(***************************************************************************)
(* The program that makes the first disk image, src/xv6-public/mkfs.c.     *)
(* A block is BSIZE cells: bytes of a file, or entries of a directory or   *)
(* of an indirect block.  A step is one file of the command line.  What    *)
(* xint() and xshort() do on a machine of the other byte order is left     *)
(* out, and one block is enough for the bitmap, as balloc() asserts.       *)
(***************************************************************************)
EXTENDS Integers, FiniteSets, SequencesExt

CONSTANTS
  FSSIZE,
  BSIZE, NDIRECT, NINDIRECT,
  NLOG, NINODEBLOCKS, NBITMAP, IPB,
  NFILES,      \* how many files the command line has at most
  Lengths      \* lengths of the files

ROOTINO == 1
MAXFILE == NDIRECT + NINDIRECT
nmeta == 2 + NLOG + NINODEBLOCKS + NBITMAP
Inums == 1 .. NFILES + 1
Zeroes == [c \in 0 .. BSIZE - 1 |-> 0]

MkfsAssumption ==
  /\ {BSIZE, NDIRECT, NINDIRECT, NINODEBLOCKS, NBITMAP, IPB} \subseteq Nat \ {0}
  /\ NINDIRECT <= BSIZE /\ FSSIZE \in Nat /\ NLOG \in Nat
  /\ NFILES + 1 < NINODEBLOCKS * IPB         \* main() does not count the files,
  /\ NFILES + 2 < MAXFILE * BSIZE            \* nor the blocks of the root
  /\ Lengths \subseteq Nat

VARIABLES
  img,         \* what mkfs has written: the dinodes, the data blocks, the bitmap;
               \* freeinode and freeblock; and whether it had to give up
  pc,
  given        \* history: the cells that each file should have

vars == <<img, pc, given>>

NoInode == [type |-> 0, nlink |-> 0, size |-> 0, addrs |-> [k \in 0 .. NDIRECT |-> 0]]

-----------------------------------------------------------------------------
Ialloc(s, type) ==
  [s EXCEPT !.dinode[s.freeinode] = [NoInode EXCEPT !.type = type, !.nlink = 1],
            !.freeinode = @ + 1]

\* din.addrs[k], allocated if it was 0.
Direct(s, inum, k) ==
  IF s.dinode[inum].addrs[k] # 0 THEN s
  ELSE [s EXCEPT !.dinode[inum].addrs[k] = s.freeblock, !.freeblock = @ + 1]

(* The operators named M_... are faulty variants of the definition they stand
   before; only the mutation of the model refers to them. *)


\* Entry k of the indirect block blk.  A block behind the end of the image
\* cannot be read.
Indirect(s, blk, k) ==
  IF blk >= FSSIZE THEN [s EXCEPT !.failed = TRUE]
  ELSE IF s.disk[blk][k] # 0 THEN s
  ELSE [s EXCEPT !.disk[blk][k] = s.freeblock, !.freeblock = @ + 1]

Store(s, inum, x, blk) ==
  IF blk >= FSSIZE THEN [s EXCEPT !.failed = TRUE]
  ELSE [s EXCEPT !.disk[blk][s.dinode[inum].size % BSIZE] = x, !.dinode[inum].size = @ + 1]

\* iappend() of one cell.  The assertion fbn < MAXFILE ends the program.
AppendCell(s, inum, x) ==
  LET fbn == s.dinode[inum].size \div BSIZE IN
  IF s.failed THEN s
  ELSE IF fbn >= MAXFILE THEN [s EXCEPT !.failed = TRUE]
  ELSE IF fbn < NDIRECT
  THEN LET t == Direct(s, inum, fbn) IN Store(t, inum, x, t.dinode[inum].addrs[fbn])
  ELSE LET t == Direct(s, inum, NDIRECT)
           blk == t.dinode[inum].addrs[NDIRECT]
           u == Indirect(t, blk, fbn - NDIRECT)
       IN IF u.failed THEN u ELSE Store(u, inum, x, u.disk[blk][fbn - NDIRECT])

Iappend(s, inum, cells) == FoldLeft(LAMBDA t, x : AppendCell(t, inum, x), s, cells)

Balloc(s) == [s EXCEPT !.bitmap = 0 .. s.freeblock - 1]

-----------------------------------------------------------------------------
\* The directory entry of an inode, and the bytes of the file with this inode, all
\* different.
Entry(inum) == inum
Contents(inum, len) == [k \in 1 .. len |-> inum * (MAXFILE * BSIZE + 1) + k]

Init ==
  /\ img = [dinode |-> [i \in Inums |-> NoInode], disk |-> [b \in nmeta .. FSSIZE - 1 |-> Zeroes],
            freeinode |-> 1, freeblock |-> nmeta, bitmap |-> {}, failed |-> FALSE]
  /\ pc = "start"
  /\ given = [i \in Inums |-> <<>>]

\* "." and "..", which are both the root.
MakeRoot ==
  /\ pc = "start"
  /\ img' = Iappend(Ialloc(img, "T_DIR"), ROOTINO, <<Entry(ROOTINO), Entry(ROOTINO)>>)
  /\ given' = [given EXCEPT ![ROOTINO] = <<Entry(ROOTINO), Entry(ROOTINO)>>]
  /\ pc' = IF img'.failed THEN "failed" ELSE "files"

AddFile(len) ==
  LET inum == img.freeinode
      named == Iappend(Ialloc(img, "T_FILE"), ROOTINO, <<Entry(inum)>>)
  IN /\ pc = "files" /\ inum \in Inums
     /\ img' = Iappend(named, inum, Contents(inum, len))
     /\ given' = [given EXCEPT ![ROOTINO] = Append(@, Entry(inum)), ![inum] = Contents(inum, len)]
     /\ pc' = IF img'.failed THEN "failed" ELSE "files"

\* The size of the root becomes whole blocks, and the bitmap is written.
Finish ==
  /\ pc = "files"
  /\ img' = Balloc([img EXCEPT !.dinode[ROOTINO].size = (@ \div BSIZE + 1) * BSIZE])
  /\ pc' = "done"
  /\ UNCHANGED given

Next == MakeRoot \/ (\E len \in Lengths : AddFile(len)) \/ Finish

Spec == Init /\ [][Next]_vars

-----------------------------------------------------------------------------
(* Properties *)

\* Block fbn of a file, as bmap() of the kernel finds it.
BlockOf(i, fbn) ==
  LET a == img.dinode[i].addrs IN
  IF fbn < NDIRECT THEN a[fbn] ELSE IF a[NDIRECT] = 0 THEN 0 ELSE img.disk[a[NDIRECT]][fbn - NDIRECT]

Cell(i, k) ==
  LET b == BlockOf(i, k \div BSIZE) IN IF b = 0 THEN 0 ELSE img.disk[b][k % BSIZE]

\* The kernel reads every file as it was given, and in the root one entry per
\* file and nothing but free entries after them.
ReadsBack ==
  \A i \in 1 .. img.freeinode - 1 :
    /\ img.dinode[i].size >= Len(given[i])
    /\ i # ROOTINO => img.dinode[i].size = Len(given[i])
    /\ \A k \in 0 .. img.dinode[i].size - 1 :
         Cell(i, k) = IF k < Len(given[i]) THEN given[i][k + 1] ELSE 0

Uses == {<<i, fbn>> \in Inums \X (0 .. MAXFILE) :
           IF fbn = MAXFILE THEN img.dinode[i].addrs[NDIRECT] # 0 ELSE BlockOf(i, fbn) # 0}
UsedBlock(u) == IF u[2] = MAXFILE THEN img.dinode[u[1]].addrs[NDIRECT] ELSE BlockOf(u[1], u[2])


=============================================================================
