-------------------------- MODULE FileContentProofs --------------------------
(***************************************************************************)
(* What FileContent keeps, for every number and size of blocks, every      *)
(* number of processes and files and every limit on a transaction: a block *)
(* has one place in one file, a file reads as it was written, and a chunk  *)
(* of filewrite() fits in the log.                                         *)
(***************************************************************************)
EXTENDS FileContent, FiniteSetTheorems, TLAPS

-----------------------------------------------------------------------------
(* States of the file system *)

Items == ({"data", "bitmap"} \X Blocks) \cup ({"inode"} \X Inodes)

FS == [used : SUBSET Blocks, data : [Blocks -> [Cells -> Nat]],
       addrs : [Inodes -> [0 .. NDIRECT -> Blocks \cup {Nil}]],
       daddrs : [Inodes -> [0 .. NDIRECT -> Blocks \cup {Nil}]],
       size : [Inodes -> Nat], dsize : [Inodes -> Nat],
       logged : [Procs -> SUBSET Items]]

\* BlockAt() of a state s.
Place(s, i, k) ==
  IF k <= NDIRECT THEN s.addrs[i][k]
  ELSE IF s.addrs[i][NDIRECT] = Nil THEN Nil
  ELSE s.data[s.addrs[i][NDIRECT]][k - 1 - NDIRECT]

Spots == 0 .. MAXFILE

\* The place of block bn of a file: the indirect block is between them.
Spot(bn) == IF bn < NDIRECT THEN bn ELSE bn + 1

Typed(s) == s \in FS /\ \A i \in Inodes, k \in Spots : Place(s, i, k) \in Blocks \cup {Nil}

Owned(s) ==
  /\ \A i \in Inodes, k \in Spots : Place(s, i, k) # Nil => Place(s, i, k) \in s.used
  /\ \A b \in s.used : \E i \in Inodes, k \in Spots : Place(s, i, k) = b
  /\ \A i, j \in Inodes, k, l \in Spots :
       Place(s, i, k) = Place(s, j, l) /\ Place(s, i, k) # Nil => i = j /\ k = l

LEMMA Constants ==
  /\ NBLOCKS \in Nat \ {0} /\ BSIZE \in Nat \ {0} /\ NDIRECT \in Nat \ {0} /\ NINDIRECT \in Nat \ {0}
  /\ NINDIRECT <= BSIZE /\ MAXOPBLOCKS \in Nat /\ MAXOPBLOCKS >= 6
BY ContentAssumption

LEMMA BlockFacts == Nil \notin Blocks /\ Zero \in [Cells -> Nat] /\ NDIRECT \in 0 .. NDIRECT /\ NDIRECT \in Spots
BY Constants DEF Nil, Blocks, Zero, Cells, Spots, MAXFILE

LEMMA LeastNatural ==
  ASSUME NEW S, S \subseteq Nat, S # {}
  PROVE  Min(S) \in S /\ \A y \in S : Min(S) <= y
<1>1. PICK x \in S : \A y \in S : ~(<<y, x>> \in OpToRel(<, Nat))
  BY NatLessThanWellFounded, WFMin, Zenon
<1>2. \A y \in S : (<<y, x>> \in OpToRel(<, Nat)) <=> y < x
  BY Zenon DEF OpToRel
<1>3. \A y \in S : ~(y < x)
  BY Zenon, <1>1, <1>2
<1>4. \A y \in S : x <= y
  BY <1>3
<1> QED BY Zenon, <1>4 DEF Min

LEMMA LesserOfTwo ==
  ASSUME NEW a \in Nat, NEW b \in Nat
  PROVE  Min({a, b}) = IF a <= b THEN a ELSE b
<1>1. {a, b} \subseteq Nat /\ {a, b} # {}
  OBVIOUS
<1>2. Min({a, b}) \in {a, b} /\ \A y \in {a, b} : Min({a, b}) <= y
  BY Zenon, <1>1, LeastNatural
<1> QED BY <1>2

LEMMA FreshFacts ==
  ASSUME NEW s \in FS, FreeBlocks(s) # {}
  PROVE  Fresh(s) \in Blocks /\ Fresh(s) \notin s.used /\ Fresh(s) # Nil
<1>1. FreeBlocks(s) \subseteq Nat
  BY DEF FreeBlocks, Blocks
<1>2. Fresh(s) \in FreeBlocks(s)
  BY Zenon, <1>1, LeastNatural DEF Fresh
<1> QED BY <1>2, BlockFacts DEF FreeBlocks

-----------------------------------------------------------------------------
(* The fields of a state *)

\* t is s but for the bitmap, the blocks, the addresses and the log.
Becomes(s, t, used, data, addrs, logged) ==
  /\ t \in FS /\ t.used = used /\ t.data = data /\ t.addrs = addrs /\ t.logged = logged
  /\ t.daddrs = s.daddrs /\ t.size = s.size /\ t.dsize = s.dsize

\* What a transaction has logged after x.
LoggedAlso(l, p, x) == [l EXCEPT ![p] = @ \cup {x}]

LEMMA SetUsed ==
  ASSUME NEW s \in FS, NEW b \in Blocks
  PROVE  Becomes(s, [s EXCEPT !.used = @ \cup {b}], s.used \cup {b}, s.data, s.addrs, s.logged)
BY Zenon DEF FS, Becomes

LEMMA SetData ==
  ASSUME NEW s \in FS, NEW b \in Blocks, NEW v \in [Cells -> Nat]
  PROVE  Becomes(s, [s EXCEPT !.data[b] = v], s.used, [s.data EXCEPT ![b] = v], s.addrs, s.logged)
BY Zenon DEF FS, Becomes

LEMMA SetCell ==
  ASSUME NEW s \in FS, NEW b \in Blocks, NEW c \in Cells, NEW v \in Nat
  PROVE  Becomes(s, [s EXCEPT !.data[b][c] = v], s.used, [s.data EXCEPT ![b][c] = v], s.addrs, s.logged)
BY Zenon DEF FS, Becomes

LEMMA SetAddr ==
  ASSUME NEW s \in FS, NEW i \in Inodes, NEW k \in 0 .. NDIRECT, NEW b \in Blocks
  PROVE  Becomes(s, [s EXCEPT !.addrs[i][k] = b], s.used, s.data, [s.addrs EXCEPT ![i][k] = b], s.logged)
BY Zenon DEF FS, Becomes

LEMMA SetLog ==
  ASSUME NEW s \in FS, NEW p \in Procs, NEW x \in Items
  PROVE  Becomes(s, LogWrite(s, p, x), s.used, s.data, s.addrs, LoggedAlso(s.logged, p, x))
BY Zenon DEF FS, Becomes, LogWrite, LoggedAlso

LEMMA ItemFacts ==
  /\ \A b \in Blocks : BBLOCK(b) \in Items /\ DBLOCK(b) \in Items
  /\ \A i \in Inodes : IBLOCK(i) \in Items
BY Zenon DEF Items, BBLOCK, DBLOCK, IBLOCK

\* balloc() changes the bitmap, the block and the log.
LEMMA BallocFields ==
  ASSUME NEW s \in FS, NEW p \in Procs, FreeBlocks(s) # {}
  PROVE  Becomes(s, Balloc(s, p), s.used \cup {Fresh(s)}, [s.data EXCEPT ![Fresh(s)] = Zero], s.addrs,
                 LoggedAlso(LoggedAlso(s.logged, p, BBLOCK(Fresh(s))), p, DBLOCK(Fresh(s))))
<1>1. PICK b \in Blocks : b = Fresh(s)
  BY FreshFacts
<1>2. PICK s1 : s1 = [s EXCEPT !.used = @ \cup {b}]
  BY Zenon
<1>3. Becomes(s, s1, s.used \cup {b}, s.data, s.addrs, s.logged)
  BY Zenon, <1>2, SetUsed
<1>4. PICK s2 : s2 = LogWrite(s1, p, BBLOCK(b))
  BY Zenon
<1>5. Becomes(s1, s2, s1.used, s1.data, s1.addrs, LoggedAlso(s1.logged, p, BBLOCK(b)))
  <2>1. s1 \in FS /\ BBLOCK(b) \in Items
    BY Zenon, <1>3, ItemFacts DEF Becomes
  <2> QED BY Zenon, <1>4, <2>1, SetLog
<1>6. PICK s3 : s3 = [s2 EXCEPT !.data[b] = Zero]
  BY Zenon
<1>7. Becomes(s2, s3, s2.used, [s2.data EXCEPT ![b] = Zero], s2.addrs, s2.logged)
  <2>1. s2 \in FS /\ Zero \in [Cells -> Nat]
    BY Zenon, <1>5, BlockFacts DEF Becomes
  <2> QED BY Zenon, <1>6, <2>1, SetData
<1>8. PICK s4 : s4 = LogWrite(s3, p, DBLOCK(b))
  BY Zenon
<1>9. Becomes(s3, s4, s3.used, s3.data, s3.addrs, LoggedAlso(s3.logged, p, DBLOCK(b)))
  <2>1. s3 \in FS /\ DBLOCK(b) \in Items
    BY Zenon, <1>7, ItemFacts DEF Becomes
  <2> QED BY Zenon, <1>8, <2>1, SetLog
<1>10. Balloc(s, p) = s4
  BY Zenon, <1>1, <1>2, <1>4, <1>6, <1>8 DEF Balloc, Bzero
<1> QED BY Zenon, <1>1, <1>3, <1>5, <1>7, <1>9, <1>10 DEF Becomes

\* An address that bmap() adds to the inode, of a block that balloc() has given.
LEMMA AllocAddrFields ==
  ASSUME NEW s \in FS, NEW p \in Procs, NEW i \in Inodes, NEW k \in 0 .. NDIRECT,
         s.addrs[i][k] = Nil, FreeBlocks(s) # {}
  PROVE  Becomes(s, AllocAddr(s, p, i, k), s.used \cup {Fresh(s)}, [s.data EXCEPT ![Fresh(s)] = Zero],
                 [s.addrs EXCEPT ![i][k] = Fresh(s)], Balloc(s, p).logged)
<1>1. PICK b \in Blocks : b = Fresh(s)
  BY FreshFacts
<1>2. PICK s1 : s1 = Balloc(s, p)
  BY Zenon
<1>3. PICK t : t = [s1 EXCEPT !.addrs[i][k] = b]
  BY Zenon
<1>4. /\ s1 \in FS /\ s1.used = s.used \cup {b} /\ s1.data = [s.data EXCEPT ![b] = Zero]
      /\ s1.addrs = s.addrs /\ s1.daddrs = s.daddrs /\ s1.size = s.size /\ s1.dsize = s.dsize
  BY Zenon, <1>1, <1>2, BallocFields DEF Becomes
<1>5. Becomes(s1, t, s1.used, s1.data, [s1.addrs EXCEPT ![i][k] = b], s1.logged)
  BY Zenon, <1>3, <1>4, SetAddr
<1>6. AllocAddr(s, p, i, k) = t
  BY Zenon, <1>1, <1>2, <1>3 DEF AllocAddr
<1> QED BY Zenon, <1>1, <1>2, <1>4, <1>5, <1>6 DEF Becomes

\* An entry that bmap() adds to the indirect block.
LEMMA AllocEntryFields ==
  ASSUME NEW s \in FS, NEW p \in Procs, NEW i \in Inodes, NEW bn \in NDIRECT .. MAXFILE - 1,
         NEW ind \in Blocks, s.addrs[i][NDIRECT] = ind, Entry(s, i, bn) = Nil, FreeBlocks(s) # {}
  PROVE  Becomes(s, AllocEntry(s, p, i, bn), s.used \cup {Fresh(s)},
                 [[s.data EXCEPT ![Fresh(s)] = Zero] EXCEPT ![ind][bn - NDIRECT] = Fresh(s)], s.addrs,
                 LoggedAlso(Balloc(s, p).logged, p, DBLOCK(ind)))
<1>1. PICK b \in Blocks : b = Fresh(s)
  BY FreshFacts
<1>2. PICK s1 : s1 = Balloc(s, p)
  BY Zenon
<1>3. PICK s2 : s2 = [s1 EXCEPT !.data[ind][bn - NDIRECT] = b]
  BY Zenon
<1>4. PICK t : t = LogWrite(s2, p, DBLOCK(ind))
  BY Zenon
<1>5. /\ s1 \in FS /\ s1.used = s.used \cup {b} /\ s1.data = [s.data EXCEPT ![b] = Zero]
      /\ s1.addrs = s.addrs /\ s1.daddrs = s.daddrs /\ s1.size = s.size /\ s1.dsize = s.dsize
  BY Zenon, <1>1, <1>2, BallocFields DEF Becomes
<1>6. bn - NDIRECT \in Cells /\ b \in Nat
  BY Constants DEF Cells, Blocks, MAXFILE
<1>7. Becomes(s1, s2, s1.used, [s1.data EXCEPT ![ind][bn - NDIRECT] = b], s1.addrs, s1.logged)
  BY Zenon, <1>3, <1>5, <1>6, SetCell
<1>8. Becomes(s2, t, s2.used, s2.data, s2.addrs, LoggedAlso(s2.logged, p, DBLOCK(ind)))
  <2>1. s2 \in FS /\ DBLOCK(ind) \in Items
    BY Zenon, <1>7, ItemFacts DEF Becomes
  <2> QED BY Zenon, <1>4, <2>1, SetLog
<1>9. AllocEntry(s, p, i, bn) = t
  BY Zenon, <1>1, <1>2, <1>3, <1>4 DEF AllocEntry
<1> QED BY Zenon, <1>1, <1>2, <1>5, <1>7, <1>8, <1>9 DEF Becomes

-----------------------------------------------------------------------------
(* Places *)

LEMMA SpotFacts ==
  /\ \A bn \in 0 .. MAXFILE - 1 : Spot(bn) \in Spots /\ Spot(bn) # NDIRECT
  /\ \A bn, cn \in 0 .. MAXFILE - 1 : Spot(bn) = Spot(cn) => bn = cn
  /\ \A k \in Spots : k <= NDIRECT \/ k - 1 - NDIRECT \in Cells
  /\ \A k \in Spots : k <= NDIRECT => k \in 0 .. NDIRECT
BY Constants DEF Spots, Spot, MAXFILE, Cells

LEMMA TypedFields ==
  ASSUME NEW s \in FS
  PROVE  /\ s.used \subseteq Blocks /\ s.data \in [Blocks -> [Cells -> Nat]]
         /\ s.addrs \in [Inodes -> [0 .. NDIRECT -> Blocks \cup {Nil}]]
         /\ s.daddrs \in [Inodes -> [0 .. NDIRECT -> Blocks \cup {Nil}]]
         /\ s.size \in [Inodes -> Nat] /\ s.dsize \in [Inodes -> Nat]
         /\ s.logged \in [Procs -> SUBSET Items]
BY DEF FS

\* The indirect block of a file is in use.
LEMMA IndirectUsed ==
  ASSUME NEW s, Owned(s), NEW i \in Inodes, s.addrs[i][NDIRECT] # Nil
  PROVE  s.addrs[i][NDIRECT] \in s.used
<1>1. Place(s, i, NDIRECT) = s.addrs[i][NDIRECT]
  BY Constants DEF Place
<1> QED BY <1>1, BlockFacts DEF Owned

\* A block that was free is given one place.
LEMMA GrowOwned ==
  ASSUME NEW s \in FS, NEW t, Typed(s), Owned(s), NEW b \in Blocks, b \notin s.used,
         NEW i \in Inodes, NEW k \in Spots, Place(s, i, k) = Nil, t \in FS, t.used = s.used \cup {b},
         \A j \in Inodes, m \in Spots : Place(t, j, m) = IF j = i /\ m = k THEN b ELSE Place(s, j, m)
  PROVE  Typed(t) /\ Owned(t)
<1>1. Typed(t)
  BY Zenon DEF Typed
<1>2. ASSUME NEW j \in Inodes, NEW m \in Spots, Place(t, j, m) # Nil PROVE Place(t, j, m) \in t.used
  BY <1>2 DEF Owned
<1>3. ASSUME NEW c \in t.used PROVE \E j \in Inodes, m \in Spots : Place(t, j, m) = c
  <2>1. CASE c = b
    BY Zenon, <2>1
  <2>2. CASE c \in s.used
    <3>1. PICK j \in Inodes, m \in Spots : Place(s, j, m) = c
      BY Zenon, <2>2 DEF Owned
    <3>2. c # Nil
      BY Zenon, <2>2, TypedFields, BlockFacts
    <3> QED BY Zenon, <3>1, <3>2
  <2> QED BY Zenon, <2>1, <2>2
<1>4. ASSUME NEW j \in Inodes, NEW n \in Inodes, NEW m \in Spots, NEW o \in Spots,
             Place(t, j, m) = Place(t, n, o), Place(t, j, m) # Nil
      PROVE  j = n /\ m = o
  <2>1. \A x \in Inodes, y \in Spots : Place(s, x, y) # Nil => Place(s, x, y) # b
    BY DEF Owned
  <2> QED BY <1>4, <2>1 DEF Owned
<1> QED BY <1>1, <1>2, <1>3, <1>4 DEF Owned

\* The other places of s, and the blocks of the files, are as they were.
Adds(s, t, i, k) ==
  /\ Typed(t) /\ Owned(t)
  /\ Place(t, i, k) = Fresh(s) /\ t.used = s.used \cup {Fresh(s)}
  /\ \A j \in Inodes, m \in Spots : ~(j = i /\ m = k) => Place(t, j, m) = Place(s, j, m)
  /\ \A j \in Inodes, m \in Spots \ {NDIRECT} :
       Place(s, j, m) # Nil => t.data[Place(s, j, m)] = s.data[Place(s, j, m)]
  /\ t.daddrs = s.daddrs /\ t.size = s.size /\ t.dsize = s.dsize

LEMMA AllocAddrAdds ==
  ASSUME NEW s \in FS, Typed(s), Owned(s), NEW p \in Procs, NEW i \in Inodes, NEW k \in 0 .. NDIRECT,
         s.addrs[i][k] = Nil, FreeBlocks(s) # {}
  PROVE  Adds(s, AllocAddr(s, p, i, k), i, k)
<1>1. PICK t : t = AllocAddr(s, p, i, k)
  BY Zenon
<1>2. PICK b \in Blocks : b = Fresh(s) /\ b \notin s.used /\ b # Nil
  BY Zenon, FreshFacts
<1>3. /\ t \in FS /\ t.used = s.used \cup {b} /\ t.data = [s.data EXCEPT ![b] = Zero]
      /\ t.addrs = [s.addrs EXCEPT ![i][k] = b]
      /\ t.daddrs = s.daddrs /\ t.size = s.size /\ t.dsize = s.dsize
  BY <1>1, <1>2, AllocAddrFields DEF Becomes
<1>4. k \in Spots /\ Place(s, i, k) = Nil
  BY Constants DEF Spots, MAXFILE, Place
<1>5. \A c \in s.used : t.data[c] = s.data[c]
  BY Zenon, <1>2, <1>3, TypedFields
<1>6. ASSUME NEW j \in Inodes, NEW m \in Spots
      PROVE  Place(t, j, m) = IF j = i /\ m = k THEN b ELSE Place(s, j, m)
  <2>1. CASE m <= NDIRECT
    <3>1. m \in 0 .. NDIRECT
      BY Zenon, <2>1, SpotFacts
    <3>2. t.addrs[j][m] = IF j = i /\ m = k THEN b ELSE s.addrs[j][m]
      <4>1. s.addrs \in [Inodes -> [0 .. NDIRECT -> Blocks \cup {Nil}]]
        BY Zenon, TypedFields
      <4>2. CASE j = i
        <5>1. s.addrs[i] \in [0 .. NDIRECT -> Blocks \cup {Nil}]
          BY Zenon, <4>1
        <5>2. t.addrs[i] = [s.addrs[i] EXCEPT ![k] = b]
          BY <1>3, <4>1
        <5> QED BY Zenon, <3>1, <4>2, <5>1, <5>2
      <4>3. CASE j # i
        BY <1>3, <3>1, <4>1, <4>3
      <4> QED BY Zenon, <4>2, <4>3
    <3> QED BY Zenon, <2>1, <3>2 DEF Place
  <2>2. CASE ~(m <= NDIRECT)
    <3>1. m # k /\ m - 1 - NDIRECT \in Cells
      BY <2>2, Constants, SpotFacts
    <3>2. CASE j = i /\ k = NDIRECT
      <4>1. t.addrs[j][NDIRECT] = b /\ t.data[b] = Zero
        BY <1>3, <3>2, TypedFields
      <4>2. Zero[m - 1 - NDIRECT] = Nil
        BY <3>1 DEF Zero, Nil
      <4> QED BY Zenon, <1>2, <2>2, <3>1, <3>2, <4>1, <4>2 DEF Place
    <3>3. CASE ~(j = i /\ k = NDIRECT)
      <4>1. t.addrs[j][NDIRECT] = s.addrs[j][NDIRECT]
        BY <1>3, <3>3, TypedFields, BlockFacts
      <4>2. s.addrs[j][NDIRECT] # Nil => t.data[s.addrs[j][NDIRECT]] = s.data[s.addrs[j][NDIRECT]]
        BY Zenon, <1>5, IndirectUsed
      <4> QED BY Zenon, <2>2, <3>1, <4>1, <4>2 DEF Place
    <3> QED BY Zenon, <3>2, <3>3
  <2> QED BY Zenon, <2>1, <2>2
<1>7. Typed(t) /\ Owned(t)
  BY <1>2, <1>3, <1>4, <1>6, GrowOwned
<1> QED BY <1>1, <1>2, <1>3, <1>4, <1>5, <1>6, <1>7 DEF Adds, Owned

LEMMA AllocEntryAdds ==
  ASSUME NEW s \in FS, Typed(s), Owned(s), NEW p \in Procs, NEW i \in Inodes,
         NEW bn \in NDIRECT .. MAXFILE - 1, NEW ind \in Blocks, s.addrs[i][NDIRECT] = ind,
         Entry(s, i, bn) = Nil, FreeBlocks(s) # {}
  PROVE  Adds(s, AllocEntry(s, p, i, bn), i, bn + 1)
<1>1. PICK t : t = AllocEntry(s, p, i, bn)
  BY Zenon
<1>2. PICK b \in Blocks : b = Fresh(s) /\ b \notin s.used /\ b # Nil
  BY Zenon, FreshFacts
<1>3. /\ t \in FS /\ t.used = s.used \cup {b}
      /\ t.data = [[s.data EXCEPT ![b] = Zero] EXCEPT ![ind][bn - NDIRECT] = b]
      /\ t.addrs = s.addrs
      /\ t.daddrs = s.daddrs /\ t.size = s.size /\ t.dsize = s.dsize
  BY <1>1, <1>2, AllocEntryFields DEF Becomes
<1>4. ind \in s.used /\ ind # b
  BY <1>2, IndirectUsed, BlockFacts
<1>5. bn + 1 \in Spots /\ bn - NDIRECT \in Cells /\ ~(bn + 1 <= NDIRECT) /\ (bn + 1) - 1 - NDIRECT = bn - NDIRECT
  BY Constants DEF Spots, MAXFILE, Cells
<1>6. Place(s, i, bn + 1) = Nil
  BY Zenon, <1>5 DEF Place, Entry
<1>7. /\ \A c \in s.used \ {ind} : t.data[c] = s.data[c]
      /\ t.data[ind] = [s.data[ind] EXCEPT ![bn - NDIRECT] = b]
  BY Zenon, <1>2, <1>3, <1>4, TypedFields
<1>8. s.data[ind] \in [Cells -> Nat]
  BY TypedFields
<1>9. \A j \in Inodes, m \in Spots \ {NDIRECT} : Place(s, j, m) # Nil => Place(s, j, m) \in s.used \ {ind}
  <2>1. Place(s, i, NDIRECT) = ind /\ ind # Nil
    BY Constants, BlockFacts DEF Place
  <2> QED BY <2>1, BlockFacts DEF Owned
<1>10. \A j \in Inodes : j # i /\ s.addrs[j][NDIRECT] # Nil => s.addrs[j][NDIRECT] \in s.used \ {ind}
  <2>1. \A j \in Inodes : Place(s, j, NDIRECT) = s.addrs[j][NDIRECT]
    BY Constants DEF Place
  <2> QED BY <2>1, BlockFacts DEF Owned
<1>11. ASSUME NEW j \in Inodes, NEW m \in Spots
       PROVE  Place(t, j, m) = IF j = i /\ m = bn + 1 THEN b ELSE Place(s, j, m)
  <2>1. CASE m <= NDIRECT
    <3>1. m # bn + 1
      BY Zenon, <1>5, <2>1
    <3> QED BY Zenon, <1>3, <2>1, <3>1 DEF Place
  <2>2. CASE ~(m <= NDIRECT) /\ j = i
    <3>1. m - 1 - NDIRECT \in Cells /\ (m - 1 - NDIRECT = bn - NDIRECT <=> m = bn + 1)
      BY <2>2, Constants, SpotFacts DEF Spots
    <3>2. t.data[ind][m - 1 - NDIRECT] = IF m = bn + 1 THEN b ELSE s.data[ind][m - 1 - NDIRECT]
      BY <1>5, <1>7, <1>8, <3>1
    <3> QED BY Zenon, <1>3, <2>2, <3>2, BlockFacts DEF Place
  <2>3. CASE ~(m <= NDIRECT) /\ j # i
    BY Zenon, <1>3, <1>7, <1>10, <2>3 DEF Place
  <2> QED BY Zenon, <2>1, <2>2, <2>3
<1>12. Typed(t) /\ Owned(t)
  BY <1>2, <1>3, <1>5, <1>6, <1>11, GrowOwned
<1>13. \A j \in Inodes, m \in Spots \ {NDIRECT} :
         Place(s, j, m) # Nil => t.data[Place(s, j, m)] = s.data[Place(s, j, m)]
  BY Zenon, <1>7, <1>9
<1> QED BY <1>1, <1>2, <1>3, <1>5, <1>11, <1>12, <1>13 DEF Adds

-----------------------------------------------------------------------------
(* bmap() *)

\* The transaction of p logs no more than X.
Logs(s, t, p, X) ==
  /\ \A q \in Procs \ {p} : t.logged[q] = s.logged[q]
  /\ t.logged[p] \subseteq s.logged[p] \cup X

Both(b) == {DBLOCK(b), BBLOCK(b)}

LEMMA AllocLogs ==
  ASSUME NEW s \in FS, NEW p \in Procs, NEW i \in Inodes, FreeBlocks(s) # {}
  PROVE  /\ \A k \in 0 .. NDIRECT : s.addrs[i][k] = Nil => Logs(s, AllocAddr(s, p, i, k), p, Both(Fresh(s)))
         /\ \A bn \in NDIRECT .. MAXFILE - 1 : \A ind \in Blocks :
              s.addrs[i][NDIRECT] = ind /\ Entry(s, i, bn) = Nil =>
                Logs(s, AllocEntry(s, p, i, bn), p, Both(Fresh(s)) \cup Both(ind))
<1>1. Logs(s, Balloc(s, p), p, Both(Fresh(s))) /\ Balloc(s, p).logged \in [Procs -> SUBSET Items]
  <2>1. /\ Balloc(s, p).logged = LoggedAlso(LoggedAlso(s.logged, p, BBLOCK(Fresh(s))), p, DBLOCK(Fresh(s)))
        /\ Balloc(s, p) \in FS
    BY Zenon, BallocFields DEF Becomes
  <2>2. s.logged \in [Procs -> SUBSET Items]
    BY Zenon, TypedFields
  <2>3. Balloc(s, p).logged \in [Procs -> SUBSET Items]
    BY Zenon, <2>1, TypedFields
  <2> QED BY <2>1, <2>2, <2>3 DEF Logs, LoggedAlso, Both
<1>2. ASSUME NEW k \in 0 .. NDIRECT, s.addrs[i][k] = Nil PROVE Logs(s, AllocAddr(s, p, i, k), p, Both(Fresh(s)))
  <2>1. AllocAddr(s, p, i, k).logged = Balloc(s, p).logged
    <3>1. Becomes(s, AllocAddr(s, p, i, k), s.used \cup {Fresh(s)}, [s.data EXCEPT ![Fresh(s)] = Zero],
                  [s.addrs EXCEPT ![i][k] = Fresh(s)], Balloc(s, p).logged)
      BY Zenon, <1>2, AllocAddrFields
    <3> QED BY Zenon, <3>1 DEF Becomes
  <2> QED BY <1>1, <2>1 DEF Logs
<1>3. ASSUME NEW bn \in NDIRECT .. MAXFILE - 1, NEW ind \in Blocks, s.addrs[i][NDIRECT] = ind, Entry(s, i, bn) = Nil
      PROVE  Logs(s, AllocEntry(s, p, i, bn), p, Both(Fresh(s)) \cup Both(ind))
  <2>1. AllocEntry(s, p, i, bn).logged = LoggedAlso(Balloc(s, p).logged, p, DBLOCK(ind))
    <3>1. Becomes(s, AllocEntry(s, p, i, bn), s.used \cup {Fresh(s)},
                  [[s.data EXCEPT ![Fresh(s)] = Zero] EXCEPT ![ind][bn - NDIRECT] = Fresh(s)], s.addrs,
                  LoggedAlso(Balloc(s, p).logged, p, DBLOCK(ind)))
      BY Zenon, <1>3, AllocEntryFields
    <3> QED BY Zenon, <3>1 DEF Becomes
  <2> QED BY <1>1, <2>1 DEF Logs, LoggedAlso, Both
<1> QED BY Zenon, <1>2, <1>3

LEMMA FreeEnough ==
  ASSUME NEW s \in FS
  PROVE  /\ Cardinality(FreeBlocks(s)) \in Nat
         /\ Cardinality(FreeBlocks(s)) >= 1 => FreeBlocks(s) # {}
         /\ \A t \in FS, b \in Blocks : Cardinality(FreeBlocks(s)) >= 2 /\ t.used = s.used \cup {b} =>
              FreeBlocks(t) # {}
<1>1. IsFiniteSet(Blocks)
  BY FS_Interval, Constants DEF Blocks
<1>2. IsFiniteSet(FreeBlocks(s))
  BY <1>1, FS_Subset DEF FreeBlocks
<1>3. Cardinality(FreeBlocks(s)) \in Nat
  BY <1>2, FS_CardinalityType
<1>4. Cardinality({}) = 0
  BY FS_EmptySet
<1>5. ASSUME NEW t \in FS, NEW b \in Blocks, Cardinality(FreeBlocks(s)) >= 2, t.used = s.used \cup {b},
             FreeBlocks(t) = {}
      PROVE  FALSE
  <2>1. FreeBlocks(s) \subseteq {b}
    BY <1>5 DEF FreeBlocks
  <2>2. IsFiniteSet({b}) /\ Cardinality({b}) = 1
    BY Zenon, FS_Singleton
  <2>3. Cardinality(FreeBlocks(s)) <= 1
    BY <2>1, <2>2, FS_Subset
  <2> QED BY <1>3, <1>5, <2>3
<1> QED BY <1>3, <1>4, <1>5

LEMMA AddrIsPlace ==
  ASSUME NEW s, NEW i \in Inodes, NEW bn \in 0 .. MAXFILE - 1
  PROVE  /\ bn < NDIRECT \/ s.addrs[i][NDIRECT] # Nil => Addr(s, i, bn) = Place(s, i, Spot(bn))
         /\ bn >= NDIRECT /\ s.addrs[i][NDIRECT] = Nil => Place(s, i, Spot(bn)) = Nil
<1>1. CASE bn < NDIRECT
  BY <1>1, Constants DEF Addr, Place, Spot
<1>2. CASE bn >= NDIRECT
  <2>1. Spot(bn) = bn + 1 /\ ~(bn + 1 <= NDIRECT) /\ (bn + 1) - 1 - NDIRECT = bn - NDIRECT /\ ~(bn < NDIRECT)
    BY <1>2, Constants DEF Spot, MAXFILE
  <2> QED BY Zenon, <2>1 DEF Addr, Place, Entry
<1> QED BY <1>1, <1>2, Constants DEF MAXFILE

\* What bmap() of block bn leaves: the block has an address, the other blocks of
\* the files have the address and the contents they had.
Maps(s, t, p, i, bn) ==
  /\ Typed(t) /\ Owned(t)
  /\ Place(t, i, Spot(bn)) # Nil /\ Addr(t, i, bn) = Place(t, i, Spot(bn))
  /\ Place(s, i, Spot(bn)) # Nil => t = s
  /\ \A j \in Inodes, m \in Spots : ~(j = i /\ m \in {Spot(bn), NDIRECT}) => Place(t, j, m) = Place(s, j, m)
  /\ s.addrs[i][NDIRECT] # Nil => t.addrs[i][NDIRECT] = s.addrs[i][NDIRECT]
  /\ \A j \in Inodes, m \in Spots \ {NDIRECT} :
       Place(s, j, m) # Nil => t.data[Place(s, j, m)] = s.data[Place(s, j, m)]
  /\ t.daddrs = s.daddrs /\ t.size = s.size /\ t.dsize = s.dsize
  /\ Logs(s, t, p, Both(Place(t, i, Spot(bn))) \cup Both(t.addrs[i][NDIRECT]))

LEMMA BmapMaps ==
  ASSUME NEW s \in FS, Typed(s), Owned(s), NEW p \in Procs, NEW i \in Inodes, NEW bn \in 0 .. MAXFILE - 1,
         Needs(s, i, bn) <= Cardinality(FreeBlocks(s))
  PROVE  Maps(s, Bmap(s, p, i, bn), p, i, bn)
<1>1. PICK t : t = Bmap(s, p, i, bn)
  BY Zenon
<1>2. Spot(bn) \in Spots /\ Spot(bn) # NDIRECT /\ NDIRECT \in Spots /\ NDIRECT \in 0 .. NDIRECT
  BY Zenon, SpotFacts, BlockFacts
<1>3. \A x \in FS : Place(x, i, NDIRECT) = x.addrs[i][NDIRECT]
  BY Constants DEF Place
<1>4. Logs(s, s, p, Both(Place(s, i, Spot(bn))) \cup Both(s.addrs[i][NDIRECT]))
  BY Zenon DEF Logs
<1>5. CASE bn < NDIRECT
  <2>1. /\ t = AllocAddr(s, p, i, bn) /\ Spot(bn) = bn /\ bn \in 0 .. NDIRECT /\ Place(s, i, bn) = s.addrs[i][bn]
        /\ \A x : Addr(x, i, bn) = Place(x, i, bn)
    BY <1>1, <1>5, Constants DEF Bmap, Spot, Place, Addr
  <2>2. CASE s.addrs[i][bn] # Nil
    <3>1. t = s
      BY Zenon, <2>1, <2>2 DEF AllocAddr
    <3> QED BY Zenon, <1>1, <1>4, <2>1, <2>2, <3>1 DEF Maps
  <2>3. CASE s.addrs[i][bn] = Nil
    <3>1. FreeBlocks(s) # {}
      BY <1>5, <2>3, FreeEnough DEF Needs
    <3>2. Adds(s, t, i, bn)
      BY Zenon, <2>1, <2>3, <3>1, AllocAddrAdds
    <3>3. Logs(s, t, p, Both(Fresh(s)))
      BY Zenon, <2>1, <2>3, <3>1, AllocLogs
    <3>4. Fresh(s) # Nil
      BY Zenon, <3>1, FreshFacts
    <3>5. t.addrs[i][NDIRECT] = s.addrs[i][NDIRECT]
      BY Zenon, <1>2, <1>3, <2>1, <3>2 DEF Adds, Typed
    <3>6. Logs(s, t, p, Both(Place(t, i, Spot(bn))) \cup Both(t.addrs[i][NDIRECT]))
      BY Zenon, <2>1, <3>2, <3>3 DEF Logs, Adds
    <3> QED BY Zenon, <1>1, <2>1, <2>3, <3>2, <3>4, <3>5, <3>6 DEF Maps, Adds
  <2> QED BY Zenon, <2>2, <2>3
<1>6. CASE bn >= NDIRECT
  <2>1. PICK s1 : s1 = AllocAddr(s, p, i, NDIRECT)
    BY Zenon
  <2>2. /\ t = AllocEntry(s1, p, i, bn) /\ Spot(bn) = bn + 1 /\ bn \in NDIRECT .. MAXFILE - 1 /\ ~(bn < NDIRECT)
    BY <1>1, <1>6, <2>1, Constants DEF Bmap, Spot, MAXFILE
  <2>3. \A x : x.addrs[i][NDIRECT] # Nil => Entry(x, i, bn) = Place(x, i, Spot(bn)) /\ Addr(x, i, bn) = Place(x, i, Spot(bn))
    BY Zenon, <2>2, AddrIsPlace DEF Addr
  <2>4. CASE s.addrs[i][NDIRECT] # Nil
    <3>1. s1 = s
      BY Zenon, <2>1, <2>4 DEF AllocAddr
    <3>2. CASE Place(s, i, Spot(bn)) # Nil
      <4>1. t = s
        BY Zenon, <2>2, <2>3, <2>4, <3>1, <3>2 DEF AllocEntry
      <4> QED BY Zenon, <1>1, <1>4, <2>3, <2>4, <3>2, <4>1 DEF Maps
    <3>3. CASE Place(s, i, Spot(bn)) = Nil
      <4>1. Entry(s, i, bn) = Nil /\ s.addrs[i][NDIRECT] \in Blocks
        BY Zenon, <1>2, <1>3, <2>3, <2>4, <3>3 DEF Typed
      <4>2. FreeBlocks(s) # {}
        BY <2>2, <2>4, <4>1, FreeEnough DEF Needs
      <4>3. Adds(s, t, i, Spot(bn))
        BY Zenon, <2>2, <3>1, <4>1, <4>2, AllocEntryAdds
      <4>4. Logs(s, t, p, Both(Fresh(s)) \cup Both(s.addrs[i][NDIRECT]))
        BY Zenon, <2>2, <3>1, <4>1, <4>2, AllocLogs
      <4>5. Fresh(s) # Nil
        BY Zenon, <4>2, FreshFacts
      <4>6. t.addrs[i][NDIRECT] = s.addrs[i][NDIRECT]
        BY Zenon, <1>2, <1>3, <4>3 DEF Adds, Typed
      <4>7. Logs(s, t, p, Both(Place(t, i, Spot(bn))) \cup Both(t.addrs[i][NDIRECT]))
        BY Zenon, <4>3, <4>4, <4>6 DEF Adds
      <4> QED BY Zenon, <1>1, <2>3, <2>4, <3>3, <4>3, <4>5, <4>6, <4>7 DEF Maps, Adds
    <3> QED BY Zenon, <3>2, <3>3
  <2>5. CASE s.addrs[i][NDIRECT] = Nil
    <3>1. Needs(s, i, bn) = 2 /\ Place(s, i, Spot(bn)) = Nil
      BY Zenon, <1>6, <2>2, <2>5, AddrIsPlace DEF Needs
    <3>2. FreeBlocks(s) # {}
      BY <3>1, FreeEnough
    <3>3. Fresh(s) \in Blocks /\ Fresh(s) # Nil
      BY Zenon, <3>2, FreshFacts
    <3>4. Adds(s, s1, i, NDIRECT)
      BY Zenon, <1>2, <2>1, <2>5, <3>2, AllocAddrAdds
    <3>5. Logs(s, s1, p, Both(Fresh(s)))
      BY Zenon, <1>2, <2>1, <2>5, <3>2, AllocLogs
    <3>6. s1 \in FS /\ s1.addrs[i][NDIRECT] = Fresh(s) /\ Place(s1, i, Spot(bn)) = Nil
      BY Zenon, <1>2, <1>3, <3>1, <3>4 DEF Adds, Typed
    <3>7. FreeBlocks(s1) # {}
      BY <3>1, <3>3, <3>4, <3>6, FreeEnough DEF Adds
    <3>8. Entry(s1, i, bn) = Nil
      BY Zenon, <2>3, <3>3, <3>6
    <3>9. Adds(s1, t, i, Spot(bn))
      <4>1. Typed(s1) /\ Owned(s1)
        BY Zenon, <3>4 DEF Adds
      <4> QED BY Zenon, <2>2, <3>3, <3>6, <3>7, <3>8, <4>1, AllocEntryAdds
    <3>10. Logs(s1, t, p, Both(Fresh(s1)) \cup Both(Fresh(s)))
      BY Zenon, <2>2, <3>3, <3>6, <3>7, <3>8, AllocLogs
    <3>11. Fresh(s1) # Nil
      BY Zenon, <3>6, <3>7, FreshFacts
    <3>12. t.addrs[i][NDIRECT] = Fresh(s)
      BY Zenon, <1>2, <1>3, <3>6, <3>9 DEF Adds, Typed
    <3>13. Logs(s, t, p, Both(Place(t, i, Spot(bn))) \cup Both(t.addrs[i][NDIRECT]))
      BY <3>5, <3>9, <3>10, <3>12 DEF Adds, Logs
    <3>14. \A j \in Inodes, m \in Spots \ {NDIRECT} :
             Place(s, j, m) # Nil => t.data[Place(s, j, m)] = s.data[Place(s, j, m)]
      <4>1. \A j \in Inodes, m \in Spots \ {NDIRECT} : Place(s1, j, m) = Place(s, j, m)
        BY Zenon, <3>4 DEF Adds
      <4>2. \A j \in Inodes, m \in Spots \ {NDIRECT} :
              Place(s, j, m) # Nil => s1.data[Place(s, j, m)] = s.data[Place(s, j, m)]
        BY Zenon, <3>4 DEF Adds
      <4>3. \A j \in Inodes, m \in Spots \ {NDIRECT} :
              Place(s1, j, m) # Nil => t.data[Place(s1, j, m)] = s1.data[Place(s1, j, m)]
        BY Zenon, <3>9 DEF Adds
      <4> QED BY <4>1, <4>2, <4>3
    <3>15. \A j \in Inodes, m \in Spots : ~(j = i /\ m \in {Spot(bn), NDIRECT}) => Place(t, j, m) = Place(s, j, m)
      BY Zenon, <3>4, <3>9 DEF Adds
    <3> QED BY Zenon, <1>1, <2>3, <2>5, <3>1, <3>3, <3>4, <3>9, <3>11, <3>12, <3>13, <3>14, <3>15 DEF Maps, Adds
  <2> QED BY Zenon, <2>4, <2>5
<1> QED BY <1>5, <1>6, Constants DEF MAXFILE

-----------------------------------------------------------------------------
(* Offsets in a file *)

Offsets == 0 .. MAXFILE * BSIZE - 1

LEMMA DivMod ==
  ASSUME NEW x \in Int
  PROVE  /\ x \div BSIZE \in Int /\ x % BSIZE \in 0 .. BSIZE - 1
         /\ x = BSIZE * (x \div BSIZE) + (x % BSIZE)
BY Constants

LEMMA DivUnique ==
  ASSUME NEW q \in Int, NEW r \in 0 .. BSIZE - 1, NEW x \in Int, x = BSIZE * q + r
  PROVE  x \div BSIZE = q /\ x % BSIZE = r
<1> DEFINE k == x \div BSIZE
           s == x % BSIZE
<1>1. s \in 0 .. BSIZE - 1 /\ k \in Int /\ x = BSIZE * k + s /\ BSIZE \in Nat \ {0}
  BY Zenon, DivMod, Constants
<1> HIDE DEF k, s
<1>2. BSIZE * (k - q) = r - s
  BY <1>1
<1>3. k - q = 0
  <2>1. ASSUME k - q >= 1 PROVE FALSE
    <3>1. BSIZE * (k - q) >= BSIZE
      BY <1>1, <2>1
    <3> QED BY <1>1, <1>2, <3>1
  <2>2. ASSUME k - q <= -1 PROVE FALSE
    <3>1. BSIZE * (k - q) <= -BSIZE
      BY <1>1, <2>2
    <3> QED BY <1>1, <1>2, <3>1
  <2> QED BY <1>1, <2>1, <2>2
<1>4. k = q
  BY <1>1, <1>3
<1>5. s = r
  BY <1>1, <1>4
<1> QED BY Zenon, <1>4, <1>5 DEF k, s

LEMMA DivLess ==
  ASSUME NEW x \in Nat, NEW n \in Int, x < n * BSIZE
  PROVE  x \div BSIZE \in 0 .. n - 1
<1> DEFINE q == x \div BSIZE
<1>1. q \in Int /\ BSIZE \in Nat \ {0}
  BY DivMod, Constants
<1>2. BSIZE * q <= x /\ x <= BSIZE * q + BSIZE - 1
  BY <1>1, DivMod
<1> HIDE DEF q
<1>3. ASSUME q >= n PROVE FALSE
  <2>1. BSIZE * q >= BSIZE * n
    BY <1>1, <1>3
  <2> QED BY <1>1, <1>2, <2>1
<1>4. ASSUME q <= -1 PROVE FALSE
  <2>1. BSIZE * q <= -BSIZE
    BY <1>1, <1>4
  <2> QED BY <1>1, <1>2, <2>1
<1>5. q \in 0 .. n - 1
  BY <1>1, <1>3, <1>4
<1> QED BY Zenon, <1>5 DEF q

LEMMA OffsetFacts ==
  ASSUME NEW x \in Offsets
  PROVE  x \in Nat /\ x \div BSIZE \in 0 .. MAXFILE - 1 /\ x % BSIZE \in Cells
<1>1. MAXFILE \in Nat /\ BSIZE \in Nat
  BY Constants DEF MAXFILE
<1>2. MAXFILE * BSIZE \in Nat
  BY <1>1
<1>3. x \in Nat /\ x < MAXFILE * BSIZE
  BY <1>2 DEF Offsets
<1> QED BY <1>1, <1>3, DivLess, DivMod DEF Cells

\* The part of a block that one round of writei() fills.
LEMMA SameBlock ==
  ASSUME NEW o \in Nat, NEW m \in Nat, m <= BSIZE - (o % BSIZE), NEW x \in Nat
  PROVE  /\ x \in o .. o + m - 1 => x \div BSIZE = o \div BSIZE
         /\ x \div BSIZE = o \div BSIZE =>
              (x % BSIZE \in (o % BSIZE) .. (o % BSIZE) + m - 1 <=> x \in o .. o + m - 1)
<1> DEFINE q == o \div BSIZE
           r == o % BSIZE
           k == x \div BSIZE
           s == x % BSIZE
<1>1. /\ q \in Int /\ r \in 0 .. BSIZE - 1 /\ o = BSIZE * q + r
      /\ k \in Int /\ s \in 0 .. BSIZE - 1 /\ x = BSIZE * k + s
      /\ BSIZE \in Nat \ {0} /\ m <= BSIZE - r
  BY DivMod, Constants
<1>2. ASSUME x \in o .. o + m - 1 PROVE k = q
  <2> HIDE DEF q, r, k, s
  <2>1. r + (x - o) \in 0 .. BSIZE - 1 /\ x = BSIZE * q + (r + (x - o))
    BY <1>1, <1>2
  <2>2. x \div BSIZE = q
    BY <1>1, <2>1, DivUnique
  <2> QED BY <2>2 DEF k
<1>3. ASSUME k = q PROVE s \in r .. r + m - 1 <=> x \in o .. o + m - 1
  <2> HIDE DEF q, r, k, s
  <2> QED BY <1>1, <1>3
<1> QED BY Zenon, <1>2, <1>3

\* The last block before an offset.
LEMMA BlockBefore ==
  ASSUME NEW o \in Nat \ {0}
  PROVE  /\ o % BSIZE = 0 => (o - 1) \div BSIZE = (o \div BSIZE) - 1
         /\ o % BSIZE # 0 => (o - 1) \div BSIZE = o \div BSIZE
<1> DEFINE q == o \div BSIZE
           r == o % BSIZE
<1>1. q \in Int /\ r \in 0 .. BSIZE - 1 /\ o = BSIZE * q + r /\ BSIZE \in Nat \ {0}
  BY DivMod, Constants
<1>2. ASSUME r = 0 PROVE (o - 1) \div BSIZE = q - 1
  <2> HIDE DEF q, r
  <2>1. BSIZE * (q - 1) = BSIZE * q - BSIZE
    BY <1>1
  <2>2. o - 1 = BSIZE * (q - 1) + (BSIZE - 1) /\ BSIZE - 1 \in 0 .. BSIZE - 1 /\ q - 1 \in Int /\ o - 1 \in Int
    BY <1>1, <1>2, <2>1
  <2> QED BY Zenon, <2>2, DivUnique
<1>3. ASSUME r # 0 PROVE (o - 1) \div BSIZE = q
  <2> HIDE DEF q, r
  <2>1. o - 1 = BSIZE * q + (r - 1) /\ r - 1 \in 0 .. BSIZE - 1 /\ o - 1 \in Int
    BY <1>1, <1>3
  <2> QED BY Zenon, <1>1, <2>1, DivUnique
<1> QED BY Zenon, <1>2, <1>3

\* How many blocks n bytes from offset o touch.
LEMMA BlocksTouched ==
  ASSUME NEW o \in Nat, NEW K \in Nat, NEW n \in Nat \ {0}, n <= K * BSIZE
  PROVE  ((o + n - 1) \div BSIZE) - (o \div BSIZE) + 1 <= IF o % BSIZE = 0 THEN K ELSE K + 1
<1> DEFINE q == o \div BSIZE
           r == o % BSIZE
           e == (o + n - 1) \div BSIZE
<1>1. q \in Int /\ r \in 0 .. BSIZE - 1 /\ o = BSIZE * q + r /\ BSIZE \in Nat \ {0} /\ e \in Int
  BY DivMod, Constants
<1>2. o + n - 1 \in Nat
  OBVIOUS
<1>3. CASE r = 0
  <2>1. o + n - 1 < (q + K) * BSIZE
    <3> HIDE DEF q, r
    <3>1. (q + K) * BSIZE = BSIZE * q + K * BSIZE
      BY <1>1
    <3> QED BY <1>1, <1>3, <3>1
  <2>2. e \in 0 .. q + K - 1
    BY <1>1, <1>2, <2>1, DivLess
  <2>3. e - q + 1 <= K
    <3> HIDE DEF q, e
    <3> QED BY <1>1, <2>2
  <2> QED BY Zenon, <1>3, <2>3
<1>4. CASE r # 0
  <2>1. o + n - 1 < (q + K + 1) * BSIZE
    <3> HIDE DEF q, r
    <3>1. (q + K + 1) * BSIZE = BSIZE * q + K * BSIZE + BSIZE
      BY <1>1
    <3> QED BY <1>1, <1>4, <3>1
  <2>2. e \in 0 .. q + K + 1 - 1
    BY <1>1, <1>2, <2>1, DivLess
  <2>3. e - q + 1 <= K + 1
    <3> HIDE DEF q, e
    <3> QED BY <1>1, <2>2
  <2> QED BY Zenon, <1>4, <2>3
<1> QED BY Zenon, <1>3, <1>4

-----------------------------------------------------------------------------
(* A round of writei() *)

LEMMA SameFunction ==
  ASSUME NEW S, NEW T
  PROVE  \A f, g \in [S -> T] : (\A x \in S : f[x] = g[x]) => f = g
OBVIOUS

Overwrites(t, u, p, b, v) ==
  /\ Becomes(t, u, t.used, [t.data EXCEPT ![b] = v], t.addrs, LoggedAlso(t.logged, p, DBLOCK(b)))
  /\ Typed(u) /\ Owned(u) /\ \A j \in Inodes, m \in Spots : Place(u, j, m) = Place(t, j, m)
  /\ \A c \in Blocks \ {b} : u.data[c] = t.data[c]
  /\ u.data[b] = v
  /\ Logs(t, u, p, {DBLOCK(b)})

\* Writing a block of data moves no block of a file.
LEMMA WriteBlock ==
  ASSUME NEW t \in FS, Typed(t), Owned(t), NEW p \in Procs, NEW i \in Inodes, NEW bn \in 0 .. MAXFILE - 1,
         Place(t, i, Spot(bn)) # Nil, NEW v \in [Cells -> Nat]
  PROVE  LET b == Place(t, i, Spot(bn))
         IN Overwrites(t, LogWrite([t EXCEPT !.data[b] = v], p, DBLOCK(b)), p, b, v)
<1>0. PICK b, u : b = Place(t, i, Spot(bn)) /\ u = LogWrite([t EXCEPT !.data[b] = v], p, DBLOCK(b))
  BY Zenon
<1>1. b \in Blocks /\ Spot(bn) \in Spots /\ Spot(bn) # NDIRECT
  BY Zenon, <1>0, SpotFacts DEF Typed
<1>2. PICK r : r = [t EXCEPT !.data[b] = v]
  BY Zenon
<1>3. Becomes(t, r, t.used, [t.data EXCEPT ![b] = v], t.addrs, t.logged)
  BY Zenon, <1>1, <1>2, SetData
<1>4. r \in FS /\ u = LogWrite(r, p, DBLOCK(b)) /\ DBLOCK(b) \in Items
  BY Zenon, <1>0, <1>1, <1>2, <1>3, ItemFacts DEF Becomes
<1>5. Becomes(r, u, r.used, r.data, r.addrs, LoggedAlso(r.logged, p, DBLOCK(b)))
  BY Zenon, <1>4, SetLog
<1>6. Becomes(t, u, t.used, [t.data EXCEPT ![b] = v], t.addrs, LoggedAlso(t.logged, p, DBLOCK(b)))
  BY Zenon, <1>3, <1>5 DEF Becomes
<1>7. /\ t.data \in [Blocks -> [Cells -> Nat]] /\ t.logged \in [Procs -> SUBSET Items]
  BY Zenon, TypedFields
<1>8. u.data[b] = v /\ \A c \in Blocks \ {b} : u.data[c] = t.data[c]
  BY Zenon, <1>1, <1>6, <1>7 DEF Becomes
<1>9. Logs(t, u, p, {DBLOCK(b)})
  BY Zenon, <1>6, <1>7 DEF Becomes, Logs, LoggedAlso
<1>10. ASSUME NEW j \in Inodes, NEW m \in Spots PROVE Place(u, j, m) = Place(t, j, m)
  <2>1. u.addrs = t.addrs
    BY Zenon, <1>6 DEF Becomes
  <2>2. ASSUME t.addrs[j][NDIRECT] # Nil PROVE t.addrs[j][NDIRECT] \in Blocks \ {b}
    <3>1. Place(t, j, NDIRECT) = t.addrs[j][NDIRECT] /\ NDIRECT \in Spots
      <4>1. NDIRECT <= NDIRECT
        BY Constants
      <4> QED BY Zenon, <4>1, BlockFacts DEF Place
    <3>2. Place(t, j, NDIRECT) \in Blocks
      BY Zenon, <2>2, <3>1 DEF Typed
    <3>3. Place(t, j, NDIRECT) # b
      BY <1>0, <1>1, <2>2, <3>1 DEF Owned
    <3> QED BY Zenon, <3>1, <3>2, <3>3
  <2> QED BY Zenon, <1>8, <2>1, <2>2 DEF Place
<1>11. u \in FS /\ u.used = t.used
  BY Zenon, <1>6 DEF Becomes
<1>12. Typed(u)
  BY Zenon, <1>10, <1>11 DEF Typed
<1>13. Owned(u)
  BY <1>10, <1>11 DEF Owned
<1>14. Overwrites(t, u, p, b, v)
  BY Zenon, <1>6, <1>8, <1>9, <1>10, <1>12, <1>13 DEF Overwrites
<1> QED BY Zenon, <1>0, <1>14

\* Byte x of file i.
Has(s, i, x) == Place(s, i, Spot(x \div BSIZE)) # Nil
Byte(s, i, x) == s.data[Place(s, i, Spot(x \div BSIZE))][x % BSIZE]

\* The round of writei() that writes m bytes at offset o of file i.
Round(s, p, i, o, m, byte) ==
  LET t == Bmap(s, p, i, o \div BSIZE)
      b == Addr(t, i, o \div BSIZE)
  IN LogWrite([t EXCEPT !.data[b] = [c \in Cells |-> IF c \in (o % BSIZE) .. (o % BSIZE) + m - 1
                                                     THEN byte ELSE @[c]]], p, DBLOCK(b))

\* The bytes it writes are there; the other bytes of the files are as they were.
Writes(s, u, p, i, o, m, byte) ==
  /\ Typed(u) /\ Owned(u)
  /\ u.daddrs = s.daddrs /\ u.size = s.size /\ u.dsize = s.dsize
  /\ \A x \in o .. o + m - 1 : x \in Offsets /\ Has(u, i, x) /\ Byte(u, i, x) = byte
  /\ \A j \in Inodes, x \in Offsets : Has(s, j, x) /\ ~(j = i /\ x \in o .. o + m - 1) =>
       Has(u, j, x) /\ Byte(u, j, x) = Byte(s, j, x)
  /\ \A j \in Inodes \ {i} : u.addrs[j] = s.addrs[j]
  /\ Has(s, i, o) => u.addrs = s.addrs
  /\ s.addrs[i][NDIRECT] # Nil => u.addrs[i][NDIRECT] = s.addrs[i][NDIRECT]
  /\ \E b : /\ Logs(s, u, p, Both(b) \cup Both(u.addrs[i][NDIRECT]))
            /\ Has(s, i, o) => Logs(s, u, p, {DBLOCK(b)})

LEMMA RoundWrites ==
  ASSUME NEW s \in FS, Typed(s), Owned(s), NEW p \in Procs, NEW i \in Inodes, NEW o \in Offsets,
         NEW m \in Nat, m <= BSIZE - (o % BSIZE), NEW byte \in Nat,
         Needs(s, i, o \div BSIZE) <= Cardinality(FreeBlocks(s))
  PROVE  Writes(s, Round(s, p, i, o, m, byte), p, i, o, m, byte)
<1>1. PICK bn : bn = o \div BSIZE
  BY Zenon
<1>2. o \in Nat /\ bn \in 0 .. MAXFILE - 1 /\ o % BSIZE \in Cells
  BY <1>1, OffsetFacts
<1>3. PICK t : t = Bmap(s, p, i, bn)
  BY Zenon
<1>4. Maps(s, t, p, i, bn)
  BY Zenon, <1>1, <1>2, <1>3, BmapMaps
<1>5. PICK b : b = Place(t, i, Spot(bn))
  BY Zenon
<1>6. /\ t \in FS /\ Typed(t) /\ Owned(t) /\ b # Nil /\ Addr(t, i, bn) = b
      /\ t.daddrs = s.daddrs /\ t.size = s.size /\ t.dsize = s.dsize
  BY Zenon, <1>4, <1>5 DEF Maps, Typed
<1>7. Spot(bn) \in Spots /\ Spot(bn) # NDIRECT /\ b \in Blocks /\ NDIRECT \in Spots
  BY Zenon, <1>2, <1>5, <1>6, SpotFacts, BlockFacts DEF Typed
<1>8. PICK v : v = [c \in Cells |-> IF c \in (o % BSIZE) .. (o % BSIZE) + m - 1 THEN byte ELSE t.data[b][c]]
  BY Zenon
<1>9. v \in [Cells -> Nat]
  <2>1. t.data[b] \in [Cells -> Nat]
    BY Zenon, <1>6, <1>7, TypedFields
  <2> QED BY Zenon, <1>8, <2>1
<1>10. PICK u : u = LogWrite([t EXCEPT !.data[b] = v], p, DBLOCK(b))
  BY Zenon
<1>11. u = Round(s, p, i, o, m, byte)
  <2>1. [t EXCEPT !.data[b] = v] = [t EXCEPT !.data[b] = [c \in Cells |-> IF c \in (o % BSIZE) .. (o % BSIZE) + m - 1
                                                     THEN byte ELSE @[c]]]
    BY <1>8
  <2> QED BY ZenonT(30), <1>1, <1>3, <1>6, <1>10, <2>1 DEF Round
<1>12. /\ Becomes(t, u, t.used, [t.data EXCEPT ![b] = v], t.addrs, LoggedAlso(t.logged, p, DBLOCK(b)))
       /\ Typed(u) /\ Owned(u) /\ \A j \in Inodes, k \in Spots : Place(u, j, k) = Place(t, j, k)
       /\ \A c \in Blocks \ {b} : u.data[c] = t.data[c]
       /\ u.data[b] = v
       /\ Logs(t, u, p, {DBLOCK(b)})
  <2>1. Overwrites(t, LogWrite([t EXCEPT !.data[Place(t, i, Spot(bn))] = v], p, DBLOCK(Place(t, i, Spot(bn)))),
                   p, Place(t, i, Spot(bn)), v)
    BY Zenon, <1>2, <1>5, <1>6, <1>9, WriteBlock
  <2>2. Overwrites(t, u, p, b, v)
    BY Zenon, <1>5, <1>10, <2>1
  <2> QED BY Zenon, <2>2 DEF Overwrites
<1>13. u.daddrs = s.daddrs /\ u.size = s.size /\ u.dsize = s.dsize /\ u.addrs = t.addrs
  BY Zenon, <1>6, <1>12 DEF Becomes
<1>14. \A x \in Offsets : x \in Nat /\ x \div BSIZE \in 0 .. MAXFILE - 1 /\ x % BSIZE \in Cells
  BY Zenon, OffsetFacts
<1>15. \A x \in Nat : /\ x \in o .. o + m - 1 => x \div BSIZE = bn
                      /\ x \div BSIZE = bn =>
                         (x % BSIZE \in (o % BSIZE) .. (o % BSIZE) + m - 1 <=> x \in o .. o + m - 1)
  BY Zenon, <1>1, <1>2, SameBlock
<1>16. ASSUME NEW x \in o .. o + m - 1 PROVE x \in Offsets /\ Has(u, i, x) /\ Byte(u, i, x) = byte
  <2>1. x \in Nat
    BY <1>2
  <2>2. x \div BSIZE = bn /\ x % BSIZE \in (o % BSIZE) .. (o % BSIZE) + m - 1
    BY Zenon, <1>15, <2>1
  <2>3. x % BSIZE \in Cells
    BY <2>1, DivMod DEF Cells
  <2>4. x \in Offsets
    <3>1. x = BSIZE * bn + (x % BSIZE) /\ BSIZE \in Nat \ {0} /\ MAXFILE \in Nat
      <4>1. x \in Int /\ BSIZE \in Nat \ {0} /\ MAXFILE \in Nat
        BY <2>1, Constants DEF MAXFILE
      <4>2. x = BSIZE * (x \div BSIZE) + (x % BSIZE)
        BY Zenon, <4>1, DivMod
      <4> QED BY Zenon, <2>2, <4>1, <4>2
    <3>2. BSIZE * bn <= BSIZE * (MAXFILE - 1)
      BY <1>2, <3>1
    <3>3. BSIZE * (MAXFILE - 1) = MAXFILE * BSIZE - BSIZE
      BY <3>1
    <3>4. BSIZE * bn \in Int /\ MAXFILE * BSIZE \in Int /\ BSIZE * (MAXFILE - 1) \in Int
      BY <1>2, <3>1
    <3>5. x % BSIZE <= BSIZE - 1 /\ x % BSIZE \in Int
      BY <2>3, <3>1 DEF Cells
    <3> QED BY <2>1, <3>1, <3>2, <3>3, <3>4, <3>5 DEF Offsets
  <2>5. Place(u, i, Spot(bn)) = b
    BY Zenon, <1>5, <1>7, <1>12
  <2>6. u.data[b][x % BSIZE] = byte
    BY Zenon, <1>8, <1>12, <2>2, <2>3
  <2> QED BY Zenon, <1>6, <2>2, <2>4, <2>5, <2>6 DEF Has, Byte

<1>17. ASSUME NEW j \in Inodes, NEW x \in Offsets, Has(s, j, x), ~(j = i /\ x \in o .. o + m - 1)
       PROVE  Has(u, j, x) /\ Byte(u, j, x) = Byte(s, j, x)
  <2>1. PICK k : k = Spot(x \div BSIZE)
    BY Zenon
  <2>2. k \in Spots /\ k # NDIRECT /\ x \in Nat /\ x % BSIZE \in Cells
    BY Zenon, <1>14, <2>1, SpotFacts
  <2>3. PICK c : c = Place(s, j, k)
    BY Zenon
  <2>4. c # Nil /\ c \in Blocks
    BY Zenon, <1>17, <2>1, <2>2, <2>3 DEF Has, Typed
  <2>5. Place(t, j, k) = c
    BY Zenon, <1>4, <2>2, <2>3, <2>4 DEF Maps
  <2>6. t.data[c] = s.data[c]
    BY Zenon, <1>4, <2>2, <2>3, <2>4 DEF Maps
  <2>7. u.data[c][x % BSIZE] = t.data[c][x % BSIZE]
    <3>1. CASE c # b
      BY Zenon, <1>12, <2>4, <3>1
    <3>2. CASE c = b
      <4>1. j = i /\ k = Spot(bn)
        BY <1>5, <1>6, <1>7, <2>2, <2>4, <2>5, <3>2 DEF Owned
      <4>2. x \div BSIZE = bn
        BY Zenon, <1>2, <1>14, <2>1, <4>1, SpotFacts
      <4>3. ~(x % BSIZE \in (o % BSIZE) .. (o % BSIZE) + m - 1)
        BY Zenon, <1>15, <1>17, <2>2, <4>1, <4>2
      <4> QED BY Zenon, <1>8, <1>12, <2>2, <3>2, <4>3
    <3> QED BY Zenon, <3>1, <3>2
  <2>8. Place(u, j, k) = c
    BY Zenon, <1>12, <2>2, <2>5
  <2> QED BY Zenon, <2>1, <2>3, <2>4, <2>6, <2>7, <2>8 DEF Has, Byte
<1>18. ASSUME NEW j \in Inodes \ {i} PROVE u.addrs[j] = s.addrs[j]
  <2>1. \A k \in 0 .. NDIRECT : k \in Spots /\ Place(t, j, k) = t.addrs[j][k] /\ Place(s, j, k) = s.addrs[j][k]
    BY Constants DEF Place, Spots, MAXFILE
  <2>2. \A k \in 0 .. NDIRECT : t.addrs[j][k] = s.addrs[j][k]
    <3>1. \A k \in Spots : Place(t, j, k) = Place(s, j, k)
      BY Zenon, <1>4 DEF Maps
    <3> QED BY Zenon, <2>1, <3>1
  <2>3. t.addrs[j] \in [0 .. NDIRECT -> Blocks \cup {Nil}] /\ s.addrs[j] \in [0 .. NDIRECT -> Blocks \cup {Nil}]
    BY Zenon, <1>6, TypedFields
  <2>4. t.addrs[j] = s.addrs[j]
    <3>1. \A f, g \in [0 .. NDIRECT -> Blocks \cup {Nil}] : (\A k \in 0 .. NDIRECT : f[k] = g[k]) => f = g
      BY Zenon, SameFunction
    <3> QED BY Zenon, <2>2, <2>3, <3>1
  <2> QED BY Zenon, <1>13, <2>4
<1>19. Has(s, i, o) => t = s
  BY Zenon, <1>1, <1>4 DEF Has, Maps
<1>20. s.addrs[i][NDIRECT] # Nil => u.addrs[i][NDIRECT] = s.addrs[i][NDIRECT]
  BY Zenon, <1>4, <1>13 DEF Maps
<1>21. Logs(s, u, p, Both(b) \cup Both(u.addrs[i][NDIRECT]))
  <2>1. Logs(s, t, p, Both(b) \cup Both(u.addrs[i][NDIRECT]))
    BY Zenon, <1>4, <1>5, <1>13 DEF Maps
  <2>2. Logs(t, u, p, {DBLOCK(b)}) /\ DBLOCK(b) \in Both(b)
    BY Zenon, <1>12 DEF Both
  <2> QED BY Zenon, <2>1, <2>2 DEF Logs
<1>22. Has(s, i, o) => Logs(s, u, p, {DBLOCK(b)})
  BY Zenon, <1>12, <1>19
<1>23. Has(s, i, o) => u.addrs = s.addrs
  BY Zenon, <1>13, <1>19
<1>24. Writes(s, u, p, i, o, m, byte)
  BY Zenon, <1>12, <1>13, <1>16, <1>17, <1>18, <1>20, <1>21, <1>22, <1>23 DEF Writes
<1> QED BY Zenon, <1>11, <1>24

-----------------------------------------------------------------------------
(* The invariant *)

Labels == {"user", "chunk", "copy", "end"}

ContentTypeOK ==
  /\ Typed(fs)
  /\ off \in [Files -> Nat] /\ lock \in [Inodes -> Procs \cup {Nil}]
  /\ loc \in [Procs -> [pc : Labels, left : Nat, n : Nat, tot : Nat, byte : Nat]]
  /\ written \in [Inodes -> Seq(Nat)]

\* The lock of an inode is held in writei(), by the process that is in it.
LockInv ==
  /\ \A i \in Inodes : lock[i] # Nil => Ino(lock[i]) = i /\ loc[lock[i]].pc = "copy"
  /\ \A p \in Procs : loc[p].pc = "copy" => lock[Ino(p)] = p

\* Where a write starts, and where it is.
Start(p) == off[FileOf[p]]
Here(p) == Start(p) + loc[p].tot

\* A chunk starts inside of the file or at its end, and ends inside of the
\* largest file; a round but the first starts a block.
ChunkOK(p) ==
  /\ loc[p].pc = "chunk" => loc[p].left > 0
  /\ loc[p].pc = "copy" =>
       /\ 0 < loc[p].n /\ loc[p].n <= max /\ loc[p].n <= loc[p].left /\ loc[p].tot <= loc[p].n
       /\ Start(p) <= fs.size[Ino(p)] /\ Start(p) + loc[p].n <= MAXFILE * BSIZE
       /\ 0 < loc[p].tot /\ loc[p].tot < loc[p].n => Here(p) % BSIZE = 0

\* What the writer of file i has copied so far.
Copied(i) == IF lock[i] = Nil THEN {} ELSE Start(lock[i]) .. Here(lock[i]) - 1

\* Files have no holes: every byte up to the size has a block, and holds what was
\* written last.
BytesOK(i) ==
  /\ fs.size[i] = Len(written[i]) /\ fs.size[i] <= MAXFILE * BSIZE
  /\ \A x \in 0 .. fs.size[i] - 1 :
       Has(fs, i, x) /\ (x \notin Copied(i) => Byte(fs, i, x) = written[i][x + 1])
  /\ \A x \in Copied(i) : Has(fs, i, x) /\ Byte(fs, i, x) = loc[lock[i]].byte

\* The inode on disk is the one in memory, until a writer is past the end.
DiskOK(i) ==
  /\ fs.dsize[i] = fs.size[i]
  /\ fs.daddrs[i] = fs.addrs[i] \/ (lock[i] # Nil /\ Here(lock[i]) > fs.size[i])

\* The blocks that a chunk has touched.
Touched(p) == ((Here(p) - 1) \div BSIZE) - (Start(p) \div BSIZE) + 1

\* What a transaction has logged besides the indirect block: two for a block, and
\* one for a first block that was there.
LogOK(p) ==
  /\ IsFiniteSet(fs.logged[p])
  /\ loc[p].pc \in {"user", "chunk"} => fs.logged[p] = {}
  /\ loc[p].pc = "copy" /\ loc[p].tot = 0 => fs.logged[p] = {}
  /\ loc[p].pc = "copy" /\ loc[p].tot > 0 =>
       Cardinality(fs.logged[p] \ Both(fs.addrs[Ino(p)][NDIRECT]))
         <= 2 * Touched(p) - (IF Start(p) % BSIZE = 0 THEN 0 ELSE 1)
  /\ loc[p].pc = "end" => Cardinality(fs.logged[p]) <= MAXOPBLOCKS

ContentInv ==
  /\ ContentTypeOK /\ Owned(fs) /\ LockInv
  /\ \A p \in Procs : ChunkOK(p) /\ LogOK(p)
  /\ \A i \in Inodes : BytesOK(i) /\ DiskOK(i)


-----------------------------------------------------------------------------
(* The other operations on the file system *)

\* A place depends on the addresses and the blocks only.
LEMMA SameFiles ==
  ASSUME NEW s, NEW t \in FS, Typed(s), Owned(s), t.used = s.used, t.data = s.data, t.addrs = s.addrs
  PROVE  /\ Typed(t) /\ Owned(t)
         /\ \A i \in Inodes, x \in Nat : (Has(t, i, x) <=> Has(s, i, x)) /\ Byte(t, i, x) = Byte(s, i, x)
<1>1. \A i, k : Place(t, i, k) = Place(s, i, k)
  BY Zenon DEF Place
<1>2. Typed(t)
  BY Zenon, <1>1 DEF Typed
<1>3. Owned(t)
  BY <1>1 DEF Owned
<1> QED BY Zenon, <1>1, <1>2, <1>3 DEF Has, Byte

\* iupdate() after the size has grown.
Grows(s, t, p, i, end) ==
  /\ t \in FS /\ t.used = s.used /\ t.data = s.data /\ t.addrs = s.addrs
  /\ t.size = [s.size EXCEPT ![i] = end] /\ t.dsize = [s.dsize EXCEPT ![i] = end]
  /\ t.daddrs = [s.daddrs EXCEPT ![i] = s.addrs[i]]
  /\ t.logged = LoggedAlso(s.logged, p, IBLOCK(i))

LEMMA GrownFields ==
  ASSUME NEW s \in FS, NEW p \in Procs, NEW i \in Inodes, NEW end \in Nat, end > s.size[i]
  PROVE  Grows(s, Grown(s, p, i, end), p, i, end)
<1>1. PICK a : a = [s EXCEPT !.size[i] = end]
  BY Zenon
<1>2. /\ a \in FS /\ a.used = s.used /\ a.data = s.data /\ a.addrs = s.addrs /\ a.daddrs = s.daddrs
      /\ a.dsize = s.dsize /\ a.logged = s.logged /\ a.size = [s.size EXCEPT ![i] = end]
  BY Zenon, <1>1 DEF FS
<1>3. a.size[i] = end /\ s.addrs[i] \in [0 .. NDIRECT -> Blocks \cup {Nil}]
  BY Zenon, <1>2, TypedFields
<1>4. PICK b : b = [a EXCEPT !.daddrs[i] = s.addrs[i]]
  BY Zenon
<1>5. /\ b \in FS /\ b.used = a.used /\ b.data = a.data /\ b.addrs = a.addrs /\ b.size = a.size
      /\ b.dsize = a.dsize /\ b.logged = a.logged /\ b.daddrs = [a.daddrs EXCEPT ![i] = s.addrs[i]]
  BY Zenon, <1>2, <1>3, <1>4 DEF FS
<1>6. PICK c : c = [b EXCEPT !.dsize[i] = end]
  BY Zenon
<1>7. /\ c \in FS /\ c.used = b.used /\ c.data = b.data /\ c.addrs = b.addrs /\ c.size = b.size
      /\ c.daddrs = b.daddrs /\ c.logged = b.logged /\ c.dsize = [b.dsize EXCEPT ![i] = end]
  BY Zenon, <1>5, <1>6 DEF FS
<1>8. c = [a EXCEPT !.daddrs[i] = a.addrs[i], !.dsize[i] = a.size[i]]
  BY Zenon, <1>2, <1>3, <1>4, <1>6
<1>9. Grown(s, p, i, end) = LogWrite(c, p, IBLOCK(i))
  BY Zenon, <1>1, <1>8 DEF Grown, Iupdate
<1>10. Becomes(c, LogWrite(c, p, IBLOCK(i)), c.used, c.data, c.addrs, LoggedAlso(c.logged, p, IBLOCK(i)))
  BY Zenon, <1>7, ItemFacts, SetLog
<1> QED BY ZenonT(30), <1>2, <1>5, <1>7, <1>9, <1>10 DEF Becomes, Grows

NoAddrs == [k \in 0 .. NDIRECT |-> Nil]

\* The file system after itrunc().
Truncation(s, i) ==
  [s EXCEPT !.used = @ \ Truncated(s, i),
            !.addrs[i] = [k \in 0 .. NDIRECT |-> Nil], !.size[i] = 0,
            !.daddrs[i] = [k \in 0 .. NDIRECT |-> Nil], !.dsize[i] = 0]

LEMMA TruncationFields ==
  ASSUME NEW s \in FS, NEW i \in Inodes
  PROVE  LET t == Truncation(s, i)
         IN /\ t \in FS /\ t.used = s.used \ Truncated(s, i) /\ t.data = s.data /\ t.logged = s.logged
            /\ t.addrs = [s.addrs EXCEPT ![i] = NoAddrs] /\ t.daddrs = [s.daddrs EXCEPT ![i] = NoAddrs]
            /\ t.size = [s.size EXCEPT ![i] = 0] /\ t.dsize = [s.dsize EXCEPT ![i] = 0]
<1>0. NoAddrs \in [0 .. NDIRECT -> Blocks \cup {Nil}] /\ 0 \in Nat
  BY DEF NoAddrs
<1>1. PICK a : a = [s EXCEPT !.used = @ \ Truncated(s, i)]
  BY Zenon
<1>2. /\ a \in FS /\ a.used = s.used \ Truncated(s, i) /\ a.data = s.data /\ a.addrs = s.addrs
      /\ a.daddrs = s.daddrs /\ a.size = s.size /\ a.dsize = s.dsize /\ a.logged = s.logged
  BY Zenon, <1>1 DEF FS
<1>3. PICK b : b = [a EXCEPT !.addrs[i] = NoAddrs]
  BY Zenon
<1>4. /\ b \in FS /\ b.used = a.used /\ b.data = a.data /\ b.addrs = [a.addrs EXCEPT ![i] = NoAddrs]
      /\ b.daddrs = a.daddrs /\ b.size = a.size /\ b.dsize = a.dsize /\ b.logged = a.logged
  BY Zenon, <1>0, <1>2, <1>3 DEF FS
<1>5. PICK c : c = [b EXCEPT !.size[i] = 0]
  BY Zenon
<1>6. /\ c \in FS /\ c.used = b.used /\ c.data = b.data /\ c.addrs = b.addrs
      /\ c.daddrs = b.daddrs /\ c.size = [b.size EXCEPT ![i] = 0] /\ c.dsize = b.dsize /\ c.logged = b.logged
  BY Zenon, <1>0, <1>4, <1>5 DEF FS
<1>7. PICK d : d = [c EXCEPT !.daddrs[i] = NoAddrs]
  BY Zenon
<1>8. /\ d \in FS /\ d.used = c.used /\ d.data = c.data /\ d.addrs = c.addrs
      /\ d.daddrs = [c.daddrs EXCEPT ![i] = NoAddrs] /\ d.size = c.size /\ d.dsize = c.dsize /\ d.logged = c.logged
  BY Zenon, <1>0, <1>6, <1>7 DEF FS
<1>9. PICK e : e = [d EXCEPT !.dsize[i] = 0]
  BY Zenon
<1>10. /\ e \in FS /\ e.used = d.used /\ e.data = d.data /\ e.addrs = d.addrs
       /\ e.daddrs = d.daddrs /\ e.size = d.size /\ e.dsize = [d.dsize EXCEPT ![i] = 0] /\ e.logged = d.logged
  BY Zenon, <1>0, <1>8, <1>9 DEF FS
<1>11. Truncation(s, i) = e
  BY <1>1, <1>3, <1>5, <1>7, <1>9 DEF Truncation, NoAddrs
<1>12. e.used = s.used \ Truncated(s, i) /\ e.data = s.data /\ e.logged = s.logged
  BY Zenon, <1>2, <1>4, <1>6, <1>8, <1>10
<1>13. e.addrs = [s.addrs EXCEPT ![i] = NoAddrs] /\ e.daddrs = [s.daddrs EXCEPT ![i] = NoAddrs]
  BY Zenon, <1>2, <1>4, <1>6, <1>8, <1>10
<1>14. e.size = [s.size EXCEPT ![i] = 0] /\ e.dsize = [s.dsize EXCEPT ![i] = 0]
  <2>1. e.size = c.size /\ b.size = s.size /\ c.size = [b.size EXCEPT ![i] = 0]
    BY Zenon, <1>2, <1>4, <1>6, <1>8, <1>10
  <2>2. d.dsize = s.dsize /\ e.dsize = [d.dsize EXCEPT ![i] = 0]
    BY Zenon, <1>2, <1>4, <1>6, <1>8, <1>10
  <2> QED BY Zenon, <2>1, <2>2
<1> QED BY Zenon, <1>10, <1>11, <1>12, <1>13, <1>14


\* itrunc() frees the blocks of one file, all of them used, and no other.
LEMMA TruncatedPlaces ==
  ASSUME NEW s \in FS, Typed(s), Owned(s), NEW i \in Inodes
  PROVE  /\ \A b : b \in Truncated(s, i) <=> \E k \in Spots : b = Place(s, i, k) /\ b # Nil
         /\ Truncated(s, i) \subseteq s.used
<1>1. \A k \in 0 .. NDIRECT : k \in Spots /\ Place(s, i, k) = s.addrs[i][k]
  BY Constants DEF Place, Spots, MAXFILE
<1>2. \A k \in 0 .. NINDIRECT - 1 : /\ k + 1 + NDIRECT \in Spots /\ ~(k + 1 + NDIRECT <= NDIRECT)
                                    /\ (k + 1 + NDIRECT) - 1 - NDIRECT = k
  BY Constants DEF Spots, MAXFILE
<1>3. \A k \in Spots : k \in 0 .. NDIRECT \/ (~(k <= NDIRECT) /\ k - 1 - NDIRECT \in 0 .. NINDIRECT - 1)
  BY Constants DEF Spots, MAXFILE
<1>4. ASSUME NEW b, b \in Truncated(s, i) PROVE \E k \in Spots : b = Place(s, i, k) /\ b # Nil
  <2>1. CASE b \in Direct(s, i)
    BY Zenon, <1>1, <2>1 DEF Direct
  <2>2. CASE b \in Indirect(s, i)
    <3>1. s.addrs[i][NDIRECT] # Nil /\ b # Nil
      BY Zenon, <2>2 DEF Indirect
    <3>2. PICK k \in 0 .. NINDIRECT - 1 : b = s.data[s.addrs[i][NDIRECT]][k]
      BY Zenon, <2>2, <3>1 DEF Indirect
    <3>3. Place(s, i, k + 1 + NDIRECT) = b
      BY Zenon, <1>2, <3>1, <3>2 DEF Place
    <3> QED BY Zenon, <1>2, <3>1, <3>3
  <2> QED BY Zenon, <1>4, <2>1, <2>2 DEF Truncated
<1>5. ASSUME NEW k \in Spots, Place(s, i, k) # Nil PROVE Place(s, i, k) \in Truncated(s, i)
  <2>1. CASE k \in 0 .. NDIRECT
    BY Zenon, <1>1, <1>5, <2>1 DEF Truncated, Direct
  <2>2. CASE ~(k <= NDIRECT) /\ k - 1 - NDIRECT \in 0 .. NINDIRECT - 1
    BY Zenon, <1>5, <2>2 DEF Truncated, Indirect, Place
  <2> QED BY Zenon, <1>3, <2>1, <2>2
<1>6. Truncated(s, i) \subseteq s.used
  <2>1. \A k \in Spots : Place(s, i, k) # Nil => Place(s, i, k) \in s.used
    BY Zenon DEF Owned
  <2> QED BY Zenon, <1>4, <2>1
<1> QED BY Zenon, <1>4, <1>5, <1>6

LEMMA TruncationOwned ==
  ASSUME NEW s \in FS, Typed(s), Owned(s), NEW i \in Inodes
  PROVE  LET t == Truncation(s, i)
         IN /\ Typed(t) /\ Owned(t)
            /\ \A j \in Inodes \ {i}, x \in Offsets :
                 (Has(t, j, x) <=> Has(s, j, x)) /\ Byte(t, j, x) = Byte(s, j, x)
<1>1. PICK t : t = Truncation(s, i)
  BY Zenon
<1>2. /\ t \in FS /\ t.used = s.used \ Truncated(s, i) /\ t.data = s.data
      /\ t.addrs = [s.addrs EXCEPT ![i] = NoAddrs]
  BY Zenon, <1>1, TruncationFields
<1>3. s.addrs \in [Inodes -> [0 .. NDIRECT -> Blocks \cup {Nil}]] /\ NDIRECT \in 0 .. NDIRECT
  BY Zenon, TypedFields, BlockFacts
<1>4. \A k \in 0 .. NDIRECT : t.addrs[i][k] = Nil
  BY <1>2, <1>3 DEF NoAddrs
<1>5. \A k \in Spots : Place(t, i, k) = Nil
  BY Zenon, <1>3, <1>4, SpotFacts DEF Place
<1>6. ASSUME NEW j \in Inodes \ {i} PROVE \A k \in Spots : Place(t, j, k) = Place(s, j, k)
  <2>1. t.addrs[j] = s.addrs[j]
    BY Zenon, <1>2, <1>3
  <2> QED BY Zenon, <1>2, <2>1 DEF Place
<1>7. Typed(t)
  BY Zenon, <1>2, <1>5, <1>6 DEF Typed
<1>8. \A b : b \in Truncated(s, i) <=> \E k \in Spots : b = Place(s, i, k) /\ b # Nil
  BY Zenon, TruncatedPlaces
<1>9. Owned(t)
  <2>1. ASSUME NEW j \in Inodes, NEW k \in Spots, Place(t, j, k) # Nil PROVE Place(t, j, k) \in t.used
    <3>1. j # i /\ Place(t, j, k) = Place(s, j, k)
      BY Zenon, <1>5, <1>6, <2>1
    <3>2. Place(s, j, k) \in s.used
      BY Zenon, <2>1, <3>1 DEF Owned
    <3>3. Place(s, j, k) \notin Truncated(s, i)
      BY <1>8, <2>1, <3>1 DEF Owned
    <3> QED BY Zenon, <1>2, <3>1, <3>2, <3>3
  <2>2. ASSUME NEW b \in t.used PROVE \E j \in Inodes, k \in Spots : Place(t, j, k) = b
    <3>1. b \in s.used /\ b \notin Truncated(s, i) /\ b # Nil
      BY Zenon, <1>2, TypedFields, BlockFacts
    <3>2. PICK j \in Inodes, k \in Spots : Place(s, j, k) = b
      BY Zenon, <3>1 DEF Owned
    <3>3. j # i
      BY Zenon, <1>8, <3>1, <3>2
    <3> QED BY Zenon, <1>6, <3>2, <3>3
  <2>3. ASSUME NEW j \in Inodes, NEW n \in Inodes, NEW k \in Spots, NEW l \in Spots,
               Place(t, j, k) = Place(t, n, l), Place(t, j, k) # Nil
        PROVE  j = n /\ k = l
    <3>1. j # i /\ n # i
      BY Zenon, <1>5, <2>3
    <3> QED BY <1>6, <2>3, <3>1 DEF Owned
  <2> QED BY <2>1, <2>2, <2>3 DEF Owned
<1>10. ASSUME NEW j \in Inodes \ {i}, NEW x \in Offsets
       PROVE  (Has(t, j, x) <=> Has(s, j, x)) /\ Byte(t, j, x) = Byte(s, j, x)
  <2>1. Spot(x \div BSIZE) \in Spots
    BY Zenon, OffsetFacts, SpotFacts
  <2> QED BY Zenon, <1>2, <1>6, <2>1 DEF Has, Byte
<1> QED BY Zenon, <1>1, <1>7, <1>9, <1>10


-----------------------------------------------------------------------------
(* What a step of another process leaves alone *)

LEMMA Participants ==
  /\ \A p \in Procs : p # Nil /\ Ino(p) \in Inodes /\ FileOf[p] \in Files /\ Ino(p) = InodeOf[FileOf[p]]
  /\ max \in Nat /\ max > 0 /\ MAXFILE * BSIZE \in Nat
<1>1. \A p \in Procs : p # Nil /\ Ino(p) \in Inodes /\ FileOf[p] \in Files /\ Ino(p) = InodeOf[FileOf[p]]
  BY Zenon, ContentAssumption DEF Nil, Ino, Files
<1>2. ((MAXOPBLOCKS - 1 - 1 - 2) \div 2) \in Nat \ {0} /\ BSIZE \in Nat \ {0} /\ MAXFILE \in Nat
  BY Constants DEF MAXFILE
<1>3. \A x, y \in Nat \ {0} : x * y \in Nat /\ x * y > 0
  OBVIOUS
<1>4. \A x, y \in Nat : x * y \in Nat
  OBVIOUS
<1> QED BY Zenon, <1>1, <1>2, <1>3, <1>4 DEF max

LEMMA LocFields ==
  ASSUME ContentTypeOK, NEW p \in Procs
  PROVE  /\ loc[p] \in [pc : Labels, left : Nat, n : Nat, tot : Nat, byte : Nat]
         /\ loc[p].pc \in Labels /\ loc[p].left \in Nat /\ loc[p].n \in Nat /\ loc[p].tot \in Nat /\ loc[p].byte \in Nat
         /\ Start(p) \in Nat /\ Here(p) \in Nat
<1>1. loc[p] \in [pc : Labels, left : Nat, n : Nat, tot : Nat, byte : Nat] /\ Start(p) \in Nat
  BY Zenon, Participants DEF ContentTypeOK, Start
<1>2. loc[p].pc \in Labels /\ loc[p].left \in Nat /\ loc[p].n \in Nat /\ loc[p].tot \in Nat /\ loc[p].byte \in Nat
  BY Zenon, <1>1
<1> QED BY <1>1, <1>2 DEF Here

\* Two processes in writei() are in different files.
LEMMA Exclusion ==
  ASSUME LockInv, NEW p \in Procs, NEW q \in Procs, p # q, loc[p].pc = "copy", loc[q].pc = "copy"
  PROVE  Ino(p) # Ino(q) /\ FileOf[p] # FileOf[q]
BY ZenonT(30) DEF LockInv, Ino

\* The writer of file i, if there is one, is where it was.
Undisturbed(i) ==
  /\ lock'[i] = lock[i]
  /\ lock[i] # Nil => /\ loc'[lock[i]] = loc[lock[i]]
                      /\ off'[FileOf[lock[i]]] = off[FileOf[lock[i]]]

LEMMA CopiedFacts ==
  ASSUME ContentInv, NEW i \in Inodes
  PROVE  /\ \A x \in Copied(i) : x \in Offsets /\ lock[i] # Nil
         /\ \A x \in 0 .. fs.size[i] - 1 : x \in Offsets
         /\ fs.size[i] \in Nat /\ written[i] \in Seq(Nat)
<1>1. fs.size[i] \in Nat /\ written[i] \in Seq(Nat)
  BY Zenon, TypedFields DEF ContentInv, ContentTypeOK, Typed
<1>2. fs.size[i] <= MAXFILE * BSIZE /\ MAXFILE * BSIZE \in Nat
  BY Zenon, Participants DEF ContentInv, BytesOK
<1>3. \A x \in 0 .. fs.size[i] - 1 : x \in Offsets
  BY <1>1, <1>2 DEF Offsets
<1>4. ASSUME NEW x \in Copied(i) PROVE x \in Offsets /\ lock[i] # Nil
  <2>1. lock[i] # Nil /\ x \in Start(lock[i]) .. Here(lock[i]) - 1
    BY Zenon DEF Copied
  <2>2. PICK p \in Procs : p = lock[i]
    BY Zenon, <2>1 DEF ContentInv, ContentTypeOK
  <2>3. loc[p].pc = "copy" /\ ChunkOK(p) /\ ContentTypeOK
    BY Zenon, <2>1, <2>2 DEF ContentInv, LockInv
  <2>4. loc[p].tot <= loc[p].n /\ Start(p) + loc[p].n <= MAXFILE * BSIZE
    BY Zenon, <2>3 DEF ChunkOK
  <2>5. loc[p].tot \in Nat /\ loc[p].n \in Nat /\ Start(p) \in Nat /\ Here(p) = Start(p) + loc[p].tot
    BY Zenon, <2>3, LocFields DEF Here
  <2> QED BY <1>2, <2>1, <2>2, <2>4, <2>5 DEF Offsets
<1> QED BY Zenon, <1>1, <1>3, <1>4

LEMMA BytesFrame ==
  ASSUME ContentInv, NEW i \in Inodes, Undisturbed(i), written'[i] = written[i], fs'.size[i] = fs.size[i],
         \A x \in Offsets : Has(fs, i, x) => Has(fs', i, x) /\ Byte(fs', i, x) = Byte(fs, i, x)
  PROVE  BytesOK(i)'
<1>1. BytesOK(i)
  BY Zenon DEF ContentInv
<1>2. Copied(i)' = Copied(i)
  BY Zenon DEF Copied, Start, Here, Undisturbed
<1>3. lock[i] # Nil => loc'[lock'[i]].byte = loc[lock[i]].byte
  BY Zenon DEF Undisturbed
<1>4. ASSUME NEW x \in 0 .. fs.size[i] - 1
      PROVE  Has(fs', i, x) /\ (x \notin Copied(i) => Byte(fs', i, x) = written[i][x + 1])
  BY Zenon, <1>1, CopiedFacts DEF BytesOK
<1>5. ASSUME NEW x \in Copied(i) PROVE Has(fs', i, x) /\ Byte(fs', i, x) = loc'[lock'[i]].byte
  <2>1. Has(fs, i, x) /\ Byte(fs, i, x) = loc[lock[i]].byte
    BY Zenon, <1>1 DEF BytesOK
  <2> QED BY Zenon, <1>3, <2>1, CopiedFacts
<1> QED BY Zenon, <1>1, <1>2, <1>4, <1>5 DEF BytesOK

LEMMA DiskFrame ==
  ASSUME ContentInv, NEW i \in Inodes, Undisturbed(i), fs'.size[i] = fs.size[i], fs'.dsize[i] = fs.dsize[i],
         fs'.addrs[i] = fs.addrs[i], fs'.daddrs[i] = fs.daddrs[i]
  PROVE  DiskOK(i)'
BY Zenon DEF ContentInv, DiskOK, Undisturbed, Here, Start

LEMMA ChunkFrame ==
  ASSUME ContentInv, NEW p \in Procs, loc'[p] = loc[p],
         loc[p].pc = "copy" => off'[FileOf[p]] = off[FileOf[p]] /\ fs'.size[Ino(p)] = fs.size[Ino(p)]
  PROVE  ChunkOK(p)'
BY Zenon DEF ContentInv, ChunkOK, Here, Start

LEMMA LogFrame ==
  ASSUME ContentInv, NEW p \in Procs, loc'[p] = loc[p], fs'.logged[p] = fs.logged[p],
         loc[p].pc = "copy" => off'[FileOf[p]] = off[FileOf[p]] /\ fs'.addrs[Ino(p)] = fs.addrs[Ino(p)]
  PROVE  LogOK(p)'
BY Zenon DEF ContentInv, LogOK, Here, Start, Touched


-----------------------------------------------------------------------------
(* The steps *)

LEMMA InitInv ==
  ASSUME Init PROVE ContentInv
<1>1. fs \in FS
  <2>1. Zero \in [Cells -> Nat] /\ NoAddrs \in [0 .. NDIRECT -> Blocks \cup {Nil}] /\ 0 \in Nat
    BY BlockFacts DEF NoAddrs
  <2> QED BY <2>1 DEF Init, FS, NoAddrs
<1>2. /\ fs.used = {} /\ fs.addrs = [i \in Inodes |-> NoAddrs] /\ fs.daddrs = [i \in Inodes |-> NoAddrs]
      /\ fs.size = [i \in Inodes |-> 0] /\ fs.dsize = [i \in Inodes |-> 0] /\ fs.logged = [p \in Procs |-> {}]
  BY Zenon DEF Init, NoAddrs
<1>3. \A i \in Inodes, k \in Spots : Place(fs, i, k) = Nil
  <2>1. \A i \in Inodes, k \in 0 .. NDIRECT : fs.addrs[i][k] = Nil
    BY <1>2 DEF NoAddrs
  <2> QED BY Zenon, <2>1, SpotFacts, BlockFacts DEF Place
<1>4. Typed(fs) /\ Owned(fs)
  BY Zenon, <1>1, <1>2, <1>3 DEF Typed, Owned
<1>5. ContentTypeOK
  <2>1. Idle \in [pc : Labels, left : Nat, n : Nat, tot : Nat, byte : Nat] /\ <<>> \in Seq(Nat) /\ 0 \in Nat
    BY DEF Idle, Labels
  <2> QED BY Zenon, <1>4, <2>1 DEF Init, ContentTypeOK
<1>6. /\ \A p \in Procs : loc[p].pc = "user" /\ fs.logged[p] = {}
      /\ \A i \in Inodes : lock[i] = Nil /\ fs.size[i] = 0 /\ fs.dsize[i] = 0 /\ fs.addrs[i] = fs.daddrs[i] /\ written[i] = <<>>
  BY Zenon, <1>2 DEF Init, Idle
<1>7. LockInv
  BY Zenon, <1>6 DEF LockInv
<1>8. \A p \in Procs : ChunkOK(p) /\ LogOK(p)
  BY Zenon, <1>6, FS_EmptySet DEF ChunkOK, LogOK
<1>9. ASSUME NEW i \in Inodes PROVE BytesOK(i) /\ DiskOK(i)
  <2>1. Len(<<>>) = 0 /\ 0 .. 0 - 1 = {} /\ 0 <= MAXFILE * BSIZE
    BY Participants
  <2> QED BY Zenon, <1>6, <1>9, <2>1 DEF BytesOK, DiskOK, Copied
<1> QED BY Zenon, <1>4, <1>5, <1>7, <1>8, <1>9 DEF ContentInv

\* A step of p outside of writei() that leaves the file system alone.
LEMMA QuietStep ==
  ASSUME ContentInv, NEW p \in Procs, fs' = fs, lock' = lock, written' = written,
         loc[p].pc # "copy", loc'[p].pc # "copy", \A q \in Procs \ {p} : loc'[q] = loc[q],
         \A f \in Files : off'[f] # off[f] => lock[InodeOf[f]] = Nil,
         ContentTypeOK', ChunkOK(p)', LogOK(p)'
  PROVE  ContentInv'
<1>1. LockInv
  BY Zenon DEF ContentInv
<1>2. \A q \in Procs : loc[q].pc = "copy" => q # p /\ off'[FileOf[q]] = off[FileOf[q]]
  <2> SUFFICES ASSUME NEW q \in Procs, loc[q].pc = "copy" PROVE q # p /\ off'[FileOf[q]] = off[FileOf[q]]
    BY Zenon
  <2>1. lock[Ino(q)] = q /\ q # Nil /\ FileOf[q] \in Files /\ Ino(q) = InodeOf[FileOf[q]]
    BY Zenon, <1>1, Participants DEF LockInv
  <2> QED BY Zenon, <2>1
<1>3. LockInv'
  <2>1. ASSUME NEW i \in Inodes, lock[i] # Nil PROVE Ino(lock[i]) = i /\ loc'[lock[i]].pc = "copy"
    <3>1. PICK q \in Procs : q = lock[i]
      BY Zenon, <2>1 DEF ContentInv, ContentTypeOK
    <3>2. Ino(q) = i /\ loc[q].pc = "copy"
      BY Zenon, <1>1, <2>1, <3>1 DEF LockInv
    <3>3. loc'[q] = loc[q]
      BY Zenon, <3>2
    <3> QED BY Zenon, <3>1, <3>2, <3>3
  <2>2. ASSUME NEW q \in Procs, loc'[q].pc = "copy" PROVE lock[Ino(q)] = q
    <3>1. loc'[q] = loc[q]
      BY Zenon, <2>2
    <3> QED BY Zenon, <1>1, <2>2, <3>1 DEF LockInv
  <2> QED BY Zenon, <2>1, <2>2 DEF LockInv
<1>4. \A q \in Procs \ {p} : ChunkOK(q)' /\ LogOK(q)'
  BY Zenon, <1>2, ChunkFrame, LogFrame
<1>5. \A i \in Inodes : lock[i] # Nil => lock[i] \in Procs
  BY Zenon DEF ContentInv, ContentTypeOK
<1>6. \A i \in Inodes : Undisturbed(i)
  BY Zenon, <1>1, <1>2, <1>5 DEF Undisturbed, LockInv
<1>7. \A i \in Inodes : BytesOK(i)' /\ DiskOK(i)'
  BY Zenon, <1>6, BytesFrame, DiskFrame
<1>8. Owned(fs')
  BY Zenon DEF ContentInv
<1> QED BY Zenon, <1>3, <1>4, <1>7, <1>8 DEF ContentInv

LEMMA FileWriteInv ==
  ASSUME ContentInv, NEW p \in Procs, NEW n \in Sizes, NEW byte \in Bytes, FileWrite(p, n, byte)
  PROVE  ContentInv'
<1>1. n \in Nat /\ byte \in Nat /\ n > 0 /\ ContentTypeOK /\ LogOK(p) /\ fs.logged[p] = {}
  BY Zenon, ContentAssumption DEF FileWrite, ContentInv, LogOK
<1>2. PICK r : r = [Idle EXCEPT !.pc = "chunk", !.left = n, !.byte = byte]
  BY Zenon
<1>3. r = [pc |-> "chunk", left |-> n, n |-> 0, tot |-> 0, byte |-> byte]
  BY Zenon, <1>2 DEF Idle
<1>4. r \in [pc : Labels, left : Nat, n : Nat, tot : Nat, byte : Nat] /\ r.pc = "chunk" /\ r.left > 0
  BY <1>1, <1>3 DEF Labels
<1>5. /\ loc' = [loc EXCEPT ![p] = r] /\ loc[p].pc = "user"
      /\ fs' = fs /\ off' = off /\ lock' = lock /\ panic' = panic /\ written' = written
  BY Zenon, <1>2 DEF FileWrite
<1>6. /\ loc' \in [Procs -> [pc : Labels, left : Nat, n : Nat, tot : Nat, byte : Nat]]
      /\ loc'[p] = r /\ \A q \in Procs \ {p} : loc'[q] = loc[q]
  BY Zenon, <1>1, <1>4, <1>5 DEF ContentTypeOK
<1>7. ContentTypeOK'
  BY Zenon, <1>1, <1>5, <1>6 DEF ContentTypeOK
<1>8. ChunkOK(p)' /\ LogOK(p)'
  BY Zenon, <1>1, <1>4, <1>5, <1>6, FS_EmptySet DEF ChunkOK, LogOK
<1> QED BY Zenon, <1>4, <1>5, <1>6, <1>7, <1>8, QuietStep

LEMMA FileReadInv ==
  ASSUME ContentInv, NEW p \in Procs, NEW n \in Sizes, FileRead(p, n)
  PROVE  ContentInv'
<1>1. ContentTypeOK /\ n \in Nat /\ FileOf[p] \in Files /\ Ino(p) = InodeOf[FileOf[p]] /\ Ino(p) \in Inodes
  BY Zenon, ContentAssumption, Participants DEF ContentInv
<1>2. PICK o : o = Min({off[FileOf[p]] + n, fs.size[Ino(p)]})
  BY Zenon
<1>3. /\ off' = [off EXCEPT ![FileOf[p]] = o] /\ loc[p].pc = "user" /\ lock[Ino(p)] = Nil
      /\ fs' = fs /\ lock' = lock /\ loc' = loc /\ written' = written
  BY Zenon, <1>2 DEF FileRead
<1>4. off \in [Files -> Nat] /\ off[FileOf[p]] \in Nat /\ fs.size[Ino(p)] \in Nat
  BY Zenon, <1>1, TypedFields DEF ContentTypeOK, Typed
<1>5. off[FileOf[p]] + n \in Nat
  BY <1>1, <1>4
<1>6. o \in Nat
  BY <1>2, <1>4, <1>5, LesserOfTwo
<1>7. off' \in [Files -> Nat] /\ \A f \in Files : off'[f] # off[f] => lock[InodeOf[f]] = Nil
  BY Zenon, <1>1, <1>3, <1>4, <1>6
<1>8. ContentTypeOK'
  BY Zenon, <1>1, <1>3, <1>7 DEF ContentTypeOK
<1>9. loc[p].pc # "copy"
  BY <1>3
<1>10. ChunkOK(p)' /\ LogOK(p)'
  BY Zenon, <1>3, <1>9, ChunkFrame, LogFrame
<1> QED BY Zenon, <1>3, <1>7, <1>8, <1>9, <1>10, QuietStep


\* begin_op(), ilock() and the tests of writei().
LEMMA ChunkStepInv ==
  ASSUME ContentInv, NEW p \in Procs, Chunk(p)
  PROVE  ContentInv'
<1>1. /\ ContentTypeOK /\ LockInv /\ ChunkOK(p) /\ LogOK(p)
      /\ FileOf[p] \in Files /\ Ino(p) = InodeOf[FileOf[p]] /\ Ino(p) \in Inodes /\ p # Nil
  BY Zenon, Participants DEF ContentInv
<1>2. /\ loc[p] \in [pc : Labels, left : Nat, n : Nat, tot : Nat, byte : Nat]
      /\ loc[p].pc \in Labels /\ loc[p].left \in Nat /\ loc[p].n \in Nat /\ loc[p].tot \in Nat /\ loc[p].byte \in Nat
      /\ Start(p) \in Nat
  BY Zenon, <1>1, LocFields
<1>3. PICK n : n = Min({loc[p].left, max})
  BY Zenon
<1>4. /\ loc[p].pc = "chunk" /\ lock[Ino(p)] = Nil /\ fs' = fs /\ off' = off /\ written' = written
      /\ IF TooFar(Ino(p), off[FileOf[p]], n)
           THEN loc' = [loc EXCEPT ![p] = Idle] /\ lock' = lock
           ELSE /\ lock' = [lock EXCEPT ![Ino(p)] = p]
                /\ loc' = [loc EXCEPT ![p] = [@ EXCEPT !.pc = "copy", !.n = n, !.tot = 0]]
  BY Zenon, <1>3 DEF Chunk
<1>5. n \in Nat /\ n > 0 /\ n <= max /\ n <= loc[p].left
  <2>1. loc[p].left > 0 /\ max \in Nat /\ max > 0
    BY Zenon, <1>1, <1>4, Participants DEF ChunkOK
  <2>2. n = IF loc[p].left <= max THEN loc[p].left ELSE max
    BY Zenon, <1>2, <1>3, <2>1, LesserOfTwo
  <2> QED BY <1>2, <2>1, <2>2
<1>6. fs.logged[p] = {}
  BY Zenon, <1>1, <1>4 DEF LogOK
<1>7. CASE TooFar(Ino(p), off[FileOf[p]], n)
  <2>1. Idle \in [pc : Labels, left : Nat, n : Nat, tot : Nat, byte : Nat] /\ Idle.pc = "user"
    BY DEF Idle, Labels
  <2>2. /\ loc' \in [Procs -> [pc : Labels, left : Nat, n : Nat, tot : Nat, byte : Nat]]
        /\ loc'[p] = Idle /\ \A q \in Procs \ {p} : loc'[q] = loc[q] /\ lock' = lock
    BY Zenon, <1>1, <1>4, <1>7, <2>1 DEF ContentTypeOK
  <2>3. lock' = lock
    BY Zenon, <1>4, <1>7
  <2>4. ContentTypeOK'
    BY Zenon, <1>1, <1>4, <2>2, <2>3 DEF ContentTypeOK
  <2>5. ChunkOK(p)' /\ LogOK(p)'
    BY Zenon, <1>4, <1>6, <2>1, <2>2, FS_EmptySet DEF ChunkOK, LogOK
  <2> QED BY Zenon, <1>4, <2>1, <2>2, <2>3, <2>4, <2>5, QuietStep
<1>8. CASE ~TooFar(Ino(p), off[FileOf[p]], n)
  <2>1. PICK r : r = [loc[p] EXCEPT !.pc = "copy", !.n = n, !.tot = 0]
    BY Zenon
  <2>2. /\ r \in [pc : Labels, left : Nat, n : Nat, tot : Nat, byte : Nat] /\ r.pc = "copy"
        /\ r.left = loc[p].left /\ r.n = n /\ r.tot = 0 /\ r.byte = loc[p].byte
    <3>1. 0 \in Nat
      OBVIOUS
    <3> QED BY Zenon, <1>2, <1>5, <2>1, <3>1 DEF Labels
  <2>3. loc \in [Procs -> [pc : Labels, left : Nat, n : Nat, tot : Nat, byte : Nat]]
    BY Zenon, <1>1 DEF ContentTypeOK
  <2>4. loc' = [loc EXCEPT ![p] = r]
    <3>1. loc' = [loc EXCEPT ![p] = [loc[p] EXCEPT !.pc = "copy", !.n = n, !.tot = 0]]
      BY Zenon, <1>4, <1>8
    <3> QED BY Zenon, <2>1, <3>1
  <2>5. /\ loc' \in [Procs -> [pc : Labels, left : Nat, n : Nat, tot : Nat, byte : Nat]]
        /\ loc'[p] = r /\ \A q \in Procs \ {p} : loc'[q] = loc[q]
    BY Zenon, <2>2, <2>3, <2>4
  <2>6. lock \in [Inodes -> Procs \cup {Nil}] /\ lock' = [lock EXCEPT ![Ino(p)] = p]
    BY Zenon, <1>1, <1>4, <1>8 DEF ContentTypeOK
  <2>7. lock' \in [Inodes -> Procs \cup {Nil}] /\ lock'[Ino(p)] = p /\ \A i \in Inodes \ {Ino(p)} : lock'[i] = lock[i]
    BY Zenon, <1>1, <2>6
  <2>8. ContentTypeOK'
    BY Zenon, <1>1, <1>4, <2>5, <2>7 DEF ContentTypeOK
  <2>9. \A q \in Procs : loc[q].pc = "copy" => q # p /\ Ino(q) # Ino(p)
    <3>1. \A q \in Procs : loc[q].pc = "copy" => lock[Ino(q)] # Nil
      BY Zenon, <1>1, Participants DEF LockInv
    <3> QED BY Zenon, <1>4, <3>1
  <2>10. LockInv'
    <3>1. ASSUME NEW i \in Inodes, lock'[i] # Nil PROVE Ino(lock'[i]) = i /\ loc'[lock'[i]].pc = "copy"
      <4>1. CASE i = Ino(p)
        BY Zenon, <2>2, <2>5, <2>7, <4>1
      <4>2. CASE i # Ino(p)
        <5>1. PICK q \in Procs : q = lock[i]
          BY Zenon, <2>6, <2>7, <3>1, <4>2
        <5>2. lock'[i] = q /\ Ino(q) = i /\ loc[q].pc = "copy"
          BY Zenon, <1>1, <2>7, <3>1, <4>2, <5>1 DEF LockInv
        <5> QED BY Zenon, <2>5, <2>9, <5>2
      <4> QED BY Zenon, <4>1, <4>2
    <3>2. ASSUME NEW q \in Procs, loc'[q].pc = "copy" PROVE lock'[Ino(q)] = q
      <4>1. CASE q = p
        BY Zenon, <2>7, <4>1
      <4>2. CASE q # p
        <5>1. loc[q].pc = "copy" /\ Ino(q) \in Inodes
          BY Zenon, <2>5, <3>2, <4>2, Participants
        <5> QED BY Zenon, <1>1, <2>7, <2>9, <5>1 DEF LockInv
      <4> QED BY Zenon, <4>1, <4>2
    <3> QED BY Zenon, <3>1, <3>2 DEF LockInv
  <2>11. ASSUME NEW q \in Procs \ {p} PROVE ChunkOK(q)' /\ LogOK(q)'
    BY Zenon, <1>4, <2>5, ChunkFrame, LogFrame
  <2>12. ChunkOK(p)'
    <3>1. ~(Start(p) > fs.size[Ino(p)]) /\ ~(Start(p) + n > MAXFILE * BSIZE) /\ fs.size[Ino(p)] \in Nat
      BY Zenon, <1>1, <1>8, TypedFields DEF TooFar, Start, ContentTypeOK, Typed
    <3>2. Start(p) <= fs.size[Ino(p)] /\ Start(p) + n <= MAXFILE * BSIZE /\ 0 < n /\ ~(0 < 0) /\ 0 <= n
      BY <1>2, <1>5, <3>1, Participants
    <3>3. Start(p)' = Start(p) /\ fs' = fs
      BY Zenon, <1>4 DEF Start
    <3> QED BY Zenon, <1>5, <2>2, <2>5, <3>2, <3>3 DEF ChunkOK
  <2>13. LogOK(p)'
    <3>1. r.pc \notin {"user", "chunk"} /\ ~(r.tot > 0) /\ r.pc # "end"
      BY <2>2
    <3> QED BY Zenon, <1>4, <1>6, <2>5, <3>1, FS_EmptySet DEF LogOK
  <2>14. ASSUME NEW i \in Inodes \ {Ino(p)} PROVE BytesOK(i)' /\ DiskOK(i)'
    <3>1. Undisturbed(i)
      <4>1. ASSUME lock[i] # Nil PROVE lock[i] \in Procs \ {p}
        BY Zenon, <1>1, <2>6, <2>9, <4>1 DEF LockInv
      <4> QED BY Zenon, <1>4, <2>5, <2>7, <4>1 DEF Undisturbed
    <3> QED BY Zenon, <1>4, <3>1, BytesFrame, DiskFrame
  <2>15. BytesOK(Ino(p))' /\ DiskOK(Ino(p))'
    <3>1. BytesOK(Ino(p)) /\ DiskOK(Ino(p)) /\ Copied(Ino(p)) = {}
      BY Zenon, <1>1, <1>4 DEF ContentInv, Copied
    <3>2. Here(p)' = Start(p)
      BY <1>2, <1>4, <2>2, <2>5 DEF Here, Start
    <3>3. Start(p) .. Start(p) - 1 = {}
      BY <1>2
    <3>4. Copied(Ino(p))' = {}
      BY Zenon, <1>1, <1>4, <2>7, <3>2, <3>3 DEF Copied, Start
    <3>5. BytesOK(Ino(p))'
      BY Zenon, <1>4, <3>1, <3>4 DEF BytesOK
    <3>6. DiskOK(Ino(p))'
      BY Zenon, <1>4, <3>1 DEF DiskOK
    <3> QED BY Zenon, <3>5, <3>6
  <2>16. Owned(fs')
    BY Zenon, <1>4 DEF ContentInv
  <2> QED BY Zenon, <2>8, <2>10, <2>11, <2>12, <2>13, <2>14, <2>15, <2>16 DEF ContentInv
<1> QED BY Zenon, <1>7, <1>8


LEMMA StutterInv ==
  ASSUME ContentInv, UNCHANGED <<fs, off, lock, loc, written>>
  PROVE  ContentInv'
<1>0. fs' = fs /\ off' = off /\ lock' = lock /\ loc' = loc /\ written' = written
  BY Zenon
<1>1. ContentTypeOK' /\ LockInv' /\ Owned(fs')
  BY Zenon, <1>0 DEF ContentInv, ContentTypeOK, LockInv
<1>2. \A p \in Procs : ChunkOK(p)' /\ LogOK(p)'
  BY Zenon, <1>0, ChunkFrame, LogFrame
<1>3. \A i \in Inodes : Undisturbed(i)
  BY Zenon, <1>0 DEF Undisturbed
<1>4. \A i \in Inodes : BytesOK(i)' /\ DiskOK(i)'
  BY Zenon, <1>0, <1>3, BytesFrame, DiskFrame
<1> QED BY Zenon, <1>1, <1>2, <1>4 DEF ContentInv

LEMMA AddOne ==
  ASSUME NEW S, IsFiniteSet(S), NEW T, NEW x, T \subseteq S \cup {x}
  PROVE  IsFiniteSet(T) /\ Cardinality(T) \in Nat /\ Cardinality(S) \in Nat /\ Cardinality(T) <= Cardinality(S) + 1
<1>1. IsFiniteSet(S \cup {x}) /\ Cardinality(S \cup {x}) = IF x \in S THEN Cardinality(S) ELSE Cardinality(S) + 1
  BY Zenon, FS_AddElement
<1>2. IsFiniteSet(T) /\ Cardinality(T) <= Cardinality(S \cup {x})
  BY Zenon, <1>1, FS_Subset
<1>3. Cardinality(T) \in Nat /\ Cardinality(S) \in Nat
  BY Zenon, <1>2, FS_CardinalityType
<1> QED BY <1>1, <1>2, <1>3

LEMMA AddTwo ==
  ASSUME NEW S, IsFiniteSet(S), NEW T, NEW x, NEW y, T \subseteq S \cup {x, y}
  PROVE  IsFiniteSet(T) /\ Cardinality(T) \in Nat /\ Cardinality(S) \in Nat /\ Cardinality(T) <= Cardinality(S) + 2
<1>1. PICK R : R = S \cup {x}
  BY Zenon
<1>2. R \subseteq S \cup {x} /\ T \subseteq R \cup {y}
  BY Zenon, <1>1
<1>3. IsFiniteSet(R) /\ Cardinality(R) \in Nat /\ Cardinality(S) \in Nat /\ Cardinality(R) <= Cardinality(S) + 1
  BY Zenon, <1>2, AddOne
<1>4. IsFiniteSet(T) /\ Cardinality(T) \in Nat /\ Cardinality(T) <= Cardinality(R) + 1
  BY Zenon, <1>2, <1>3, AddOne
<1> QED BY <1>3, <1>4

\* Besides the indirect block of the file, a round logs a block and its bit.
LEMMA RoundLogged ==
  ASSUME NEW L, L \subseteq Items, IsFiniteSet(L), NEW M, NEW b, NEW k, NEW l, k # Nil => l = k,
         M \subseteq L \cup (Both(b) \cup Both(l))
  PROVE  /\ IsFiniteSet(M) /\ Cardinality(M \ Both(l)) \in Nat /\ Cardinality(L \ Both(k)) \in Nat
         /\ Cardinality(M \ Both(l)) <= Cardinality(L \ Both(k)) + 2
<1>1. L \ Both(k) \subseteq L /\ IsFiniteSet(L \ Both(k))
  BY Zenon, FS_Subset
<1>2. k = Nil => L \ Both(k) = L
  <2>1. DBLOCK(Nil) \notin Items /\ BBLOCK(Nil) \notin Items
    BY BlockFacts DEF Items, DBLOCK, BBLOCK
  <2> QED BY Zenon, <2>1 DEF Both
<1>3. M \ Both(l) \subseteq (L \ Both(k)) \cup {DBLOCK(b), BBLOCK(b)}
  <2>1. CASE k = Nil
    BY Zenon, <1>2, <2>1 DEF Both
  <2>2. CASE k # Nil
    BY Zenon, <2>2 DEF Both
  <2> QED BY Zenon, <2>1, <2>2
<1>4. /\ IsFiniteSet(M \ Both(l)) /\ Cardinality(M \ Both(l)) \in Nat /\ Cardinality(L \ Both(k)) \in Nat
      /\ Cardinality(M \ Both(l)) <= Cardinality(L \ Both(k)) + 2
  BY Zenon, <1>1, <1>3, AddTwo
<1>5. M \subseteq (M \ Both(l)) \cup {DBLOCK(l), BBLOCK(l)}
  BY Zenon DEF Both
<1>6. IsFiniteSet(M)
  BY ZenonT(30), <1>4, <1>5, AddTwo
<1> QED BY Zenon, <1>4, <1>6


\* What is known of a round before it.
LEMMA RoundFacts ==
  ASSUME ContentInv, NEW p \in Procs, loc[p].pc = "copy", loc[p].tot < loc[p].n
  PROVE  LET o == Here(p)
             m == Min({loc[p].n - loc[p].tot, BSIZE - (o % BSIZE)})
         IN /\ o \in Offsets /\ m \in Nat \ {0} /\ m <= BSIZE - (o % BSIZE) /\ loc[p].tot + m <= loc[p].n
            /\ loc[p].tot + m < loc[p].n => (o + m) % BSIZE = 0
            /\ loc[p].tot = 0 /\ o % BSIZE # 0 => Has(fs, Ino(p), o)
            /\ o < fs.size[Ino(p)] => Has(fs, Ino(p), o)
            /\ loc[p].tot > 0 => o % BSIZE = 0
<1>1. ContentTypeOK /\ ChunkOK(p) /\ Ino(p) \in Inodes /\ BytesOK(Ino(p)) /\ LockInv
  BY Zenon, Participants DEF ContentInv
<1>2. /\ loc[p].n \in Nat /\ loc[p].tot \in Nat /\ Start(p) \in Nat /\ Here(p) \in Nat
      /\ Here(p) = Start(p) + loc[p].tot
  BY Zenon, <1>1, LocFields DEF Here
<1>3. /\ Start(p) <= fs.size[Ino(p)] /\ Start(p) + loc[p].n <= MAXFILE * BSIZE
      /\ 0 < loc[p].tot /\ loc[p].tot < loc[p].n => Here(p) % BSIZE = 0
  BY Zenon, <1>1 DEF ChunkOK
<1>4. fs.size[Ino(p)] \in Nat /\ MAXFILE * BSIZE \in Nat /\ BSIZE \in Nat \ {0}
  BY Zenon, <1>1, CopiedFacts, Participants, Constants
<1>5. PICK o : o = Here(p)
  BY Zenon
<1>6. PICK r, q : r = o % BSIZE /\ q = o \div BSIZE
  BY Zenon
<1>7. r \in 0 .. BSIZE - 1 /\ q \in Int /\ o = BSIZE * q + r
  BY <1>2, <1>5, <1>6, DivMod
<1>8. PICK m : m = Min({loc[p].n - loc[p].tot, BSIZE - r})
  BY Zenon
<1>9. m = IF loc[p].n - loc[p].tot <= BSIZE - r THEN loc[p].n - loc[p].tot ELSE BSIZE - r
  <2>1. loc[p].n - loc[p].tot \in Nat /\ BSIZE - r \in Nat
    BY <1>2, <1>4, <1>7
  <2> QED BY Zenon, <1>8, <2>1, LesserOfTwo
<1>10. m \in Nat \ {0} /\ m <= BSIZE - r /\ loc[p].tot + m <= loc[p].n /\ (loc[p].tot + m < loc[p].n => m = BSIZE - r)
  BY SMTT(30), <1>2, <1>4, <1>7, <1>9
<1>11. o \in Offsets
  BY <1>2, <1>3, <1>4, <1>5 DEF Offsets
<1>12. ASSUME loc[p].tot + m < loc[p].n PROVE (o + m) % BSIZE = 0
  <2>1. BSIZE * (q + 1) = BSIZE * q + BSIZE
    BY <1>4, <1>7
  <2>2. o + m = BSIZE * (q + 1) + 0 /\ 0 \in 0 .. BSIZE - 1 /\ q + 1 \in Int /\ o + m \in Int
    BY <1>2, <1>4, <1>5, <1>7, <1>10, <1>12, <2>1
  <2> QED BY Zenon, <2>2, DivUnique
<1>13. \A x \in 0 .. fs.size[Ino(p)] - 1 : Has(fs, Ino(p), x)
  BY Zenon, <1>1 DEF BytesOK
<1>14. o < fs.size[Ino(p)] => Has(fs, Ino(p), o)
  BY <1>2, <1>4, <1>5, <1>13
<1>15. ASSUME loc[p].tot = 0, r # 0 PROVE Has(fs, Ino(p), o)
  <2>1. CASE o < fs.size[Ino(p)]
    BY Zenon, <1>14, <2>1
  <2>2. CASE ~(o < fs.size[Ino(p)])
    <3>1. o = fs.size[Ino(p)]
      BY <1>2, <1>3, <1>4, <1>5, <1>15, <2>2
    <3>2. o # 0
      <4>1. 0 % BSIZE = 0
        BY <1>4
      <4> QED BY Zenon, <1>6, <1>15, <4>1
    <3>3. o \in Nat \ {0} /\ o - 1 \in 0 .. fs.size[Ino(p)] - 1
      BY <1>2, <1>5, <3>1, <3>2
    <3>4. (o - 1) \div BSIZE = o \div BSIZE
      BY Zenon, <1>6, <1>15, <3>3, BlockBefore
    <3>5. Has(fs, Ino(p), o - 1)
      BY Zenon, <1>13, <3>3
    <3> QED BY Zenon, <3>4, <3>5 DEF Has
  <2> QED BY Zenon, <2>1, <2>2
<1>16. loc[p].tot > 0 => r = 0
  BY <1>2, <1>3, <1>5, <1>6
<1> QED BY Zenon, <1>5, <1>6, <1>8, <1>10, <1>11, <1>12, <1>14, <1>15, <1>16


\* A round touches one block more, and logs two, or one if it has been there.
LEMMA RoundLogOK ==
  ASSUME ContentInv, NEW p \in Procs, loc[p].pc = "copy", loc[p].tot < loc[p].n,
         NEW m \in Nat \ {0}, m <= BSIZE - (Here(p) % BSIZE), NEW byte,
         Writes(fs, fs', p, Ino(p), Here(p), m, byte),
         loc'[p].pc = "copy", loc'[p].tot = loc[p].tot + m, Start(p)' = Start(p)
  PROVE  LogOK(p)'
<1>1. ContentTypeOK /\ LogOK(p) /\ Ino(p) \in Inodes /\ fs \in FS
  BY Zenon, Participants DEF ContentInv, ContentTypeOK, Typed
<1>2. /\ loc[p].n \in Nat /\ loc[p].tot \in Nat /\ Start(p) \in Nat /\ Here(p) \in Nat
      /\ Here(p) = Start(p) + loc[p].tot
  BY Zenon, <1>1, LocFields DEF Here
<1>3. PICK L, M, k, l : L = fs.logged[p] /\ M = fs'.logged[p] /\ k = fs.addrs[Ino(p)][NDIRECT] /\ l = fs'.addrs[Ino(p)][NDIRECT]
  BY Zenon
<1>4. PICK b : /\ Logs(fs, fs', p, Both(b) \cup Both(l))
               /\ Has(fs, Ino(p), Here(p)) => Logs(fs, fs', p, {DBLOCK(b)})
  BY Zenon, <1>3 DEF Writes
<1>5. M \subseteq L \cup (Both(b) \cup Both(l)) /\ (Has(fs, Ino(p), Here(p)) => M \subseteq L \cup {DBLOCK(b)})
  BY Zenon, <1>3, <1>4 DEF Logs
<1>6. L \subseteq Items /\ IsFiniteSet(L) /\ (k # Nil => l = k)
  BY Zenon, <1>1, <1>3, TypedFields DEF LogOK, Writes
<1>7. /\ IsFiniteSet(M) /\ Cardinality(M \ Both(l)) \in Nat /\ Cardinality(L \ Both(k)) \in Nat
      /\ Cardinality(M \ Both(l)) <= Cardinality(L \ Both(k)) + 2
  BY Zenon, <1>5, <1>6, RoundLogged
<1>8. PICK q, c, d : q = Here(p) \div BSIZE /\ c = Start(p) \div BSIZE /\ d = (IF Start(p) % BSIZE = 0 THEN 0 ELSE 1)
  BY Zenon
<1>9. q \in Int /\ c \in Int /\ d \in {0, 1}
  BY <1>2, <1>8, DivMod
<1>10. (Here(p) + m - 1) \div BSIZE = q
  <2>1. Here(p) + m - 1 \in Nat /\ Here(p) + m - 1 \in Here(p) .. Here(p) + m - 1 /\ m \in Nat
    BY <1>2
  <2>2. \A x \in Nat : x \in Here(p) .. Here(p) + m - 1 => x \div BSIZE = Here(p) \div BSIZE
    BY Zenon, <1>2, <2>1, SameBlock
  <2> QED BY Zenon, <1>8, <2>1, <2>2
<1>11. Here(p)' = Here(p) + m
  BY <1>2 DEF Here
<1>12. Touched(p)' = q - c + 1
  <2>1. Touched(p)' = ((Here(p)' - 1) \div BSIZE) - (Start(p)' \div BSIZE) + 1
    BY Zenon DEF Touched
  <2>2. (Here(p)' - 1) \div BSIZE = q
    <3>1. Here(p)' - 1 = Here(p) + m - 1
      BY <1>2, <1>11
    <3> QED BY ZenonT(30), <1>10, <3>1
  <2>3. Start(p)' \div BSIZE = c
    BY Zenon, <1>8
  <2> QED BY Zenon, <2>1, <2>2, <2>3
<1>13. Cardinality(M \ Both(l)) <= 2 * (q - c + 1) - d
  <2>1. CASE loc[p].tot = 0
    <3>1. L = {} /\ q = c
      BY SMTT(30), <1>1, <1>2, <1>3, <1>8, <2>1 DEF LogOK
    <3>2. L \ Both(k) = {} /\ Cardinality({}) = 0 /\ IsFiniteSet({})
      BY Zenon, <3>1, FS_EmptySet
    <3>3. CASE Start(p) % BSIZE = 0
      <4>1. Cardinality(L \ Both(k)) = 0 /\ d = 0
        BY Zenon, <1>8, <3>2, <3>3
      <4> QED BY <1>7, <1>9, <3>1, <4>1
    <3>4. CASE Start(p) % BSIZE # 0
      <4>1. Here(p) = Start(p)
        BY <1>2, <2>1
      <4>2. Has(fs, Ino(p), Here(p))
        BY Zenon, <2>1, <3>4, <4>1, RoundFacts
      <4>3. M \ Both(l) \subseteq {} \cup {DBLOCK(b)}
        BY Zenon, <1>5, <3>1, <4>2
      <4>4. Cardinality(M \ Both(l)) <= Cardinality({}) + 1
        BY Zenon, <3>2, <4>3, AddOne
      <4>5. d = 1
        BY Zenon, <1>8, <3>4
      <4> QED BY SMTT(30), <1>7, <1>9, <3>1, <3>2, <4>4, <4>5
    <3> QED BY ZenonT(30), <3>3, <3>4
  <2>2. CASE loc[p].tot > 0
    <3>1. Here(p) \in Nat \ {0} /\ Here(p) % BSIZE = 0
      <4>1. Here(p) % BSIZE = 0
        BY Zenon, <2>2, RoundFacts
      <4> QED BY <1>2, <2>2, <4>1
    <3>2. (Here(p) - 1) \div BSIZE = q - 1
      BY Zenon, <1>8, <3>1, BlockBefore
    <3>3. Touched(p) = q - 1 - c + 1
      BY Zenon, <1>8, <3>2 DEF Touched
    <3>4. Cardinality(L \ Both(k)) <= 2 * Touched(p) - d
      BY Zenon, <1>1, <1>3, <1>8, <2>2 DEF LogOK
    <3> QED BY SMTT(30), <1>7, <1>9, <3>3, <3>4
  <2> QED BY <1>2, <2>1, <2>2
<1>14. loc'[p].pc \notin {"user", "chunk"} /\ loc'[p].pc # "end" /\ loc'[p].tot # 0
  BY <1>2
<1>15. Start(p)' % BSIZE = Start(p) % BSIZE
  BY Zenon
<1> QED BY Zenon, <1>3, <1>7, <1>8, <1>12, <1>13, <1>14, <1>15 DEF LogOK


\* A round of writei().
LEMMA CopyBlockInv ==
  ASSUME ContentInv, NEW p \in Procs, CopyBlock(p)
  PROVE  ContentInv' /\ fs'.size = fs.size
<1>1. /\ ContentTypeOK /\ LockInv /\ ChunkOK(p) /\ Owned(fs) /\ Typed(fs) /\ fs \in FS
      /\ FileOf[p] \in Files /\ Ino(p) = InodeOf[FileOf[p]] /\ Ino(p) \in Inodes /\ p # Nil
  BY Zenon, Participants DEF ContentInv, ContentTypeOK, Typed
<1>2. /\ loc[p] \in [pc : Labels, left : Nat, n : Nat, tot : Nat, byte : Nat]
      /\ loc[p].pc \in Labels /\ loc[p].left \in Nat /\ loc[p].n \in Nat /\ loc[p].tot \in Nat /\ loc[p].byte \in Nat
      /\ Start(p) \in Nat /\ Here(p) \in Nat /\ Here(p) = Start(p) + loc[p].tot
  BY Zenon, <1>1, LocFields DEF Here
<1>3. PICK i, o, byte : i = Ino(p) /\ o = Here(p) /\ byte = loc[p].byte
  BY Zenon
<1>4. PICK m : m = Min({loc[p].n - loc[p].tot, BSIZE - (o % BSIZE)})
  BY Zenon
<1>5. loc[p].pc = "copy" /\ loc[p].tot < loc[p].n /\ off' = off /\ lock' = lock /\ written' = written
  BY Zenon DEF CopyBlock
<1>6. CASE Needs(fs, i, o \div BSIZE) > Cardinality(FreeBlocks(fs))
  <2>1. fs' = fs /\ loc' = loc
    BY Zenon, <1>3, <1>6 DEF CopyBlock, Here, Start
  <2> QED BY Zenon, <1>5, <2>1, StutterInv
<1>7. CASE ~(Needs(fs, i, o \div BSIZE) > Cardinality(FreeBlocks(fs)))
  <2>1. fs' = Round(fs, p, i, o, m, byte) /\ loc' = [loc EXCEPT ![p].tot = @ + m]
    BY Zenon, <1>3, <1>4, <1>7 DEF CopyBlock, Here, Start, Round
  <2>2. /\ o \in Offsets /\ m \in Nat \ {0} /\ m <= BSIZE - (o % BSIZE) /\ loc[p].tot + m <= loc[p].n
        /\ loc[p].tot + m < loc[p].n => (o + m) % BSIZE = 0
        /\ o < fs.size[i] => Has(fs, i, o)
    BY Zenon, <1>3, <1>4, <1>5, RoundFacts
  <2>3. Needs(fs, i, o \div BSIZE) <= Cardinality(FreeBlocks(fs))
    <3>1. Cardinality(FreeBlocks(fs)) \in Nat
      BY Zenon, <1>1, FreeEnough
    <3>2. Needs(fs, i, o \div BSIZE) \in {0, 1, 2}
      BY Zenon DEF Needs
    <3> QED BY <1>7, <3>1, <3>2
  <2>4. Writes(fs, fs', p, i, o, m, byte)
    <3>1. i \in Inodes /\ byte \in Nat /\ m \in Nat
      BY Zenon, <1>1, <1>2, <1>3, <2>2
    <3> QED BY Zenon, <1>1, <2>1, <2>2, <2>3, <3>1, RoundWrites
  <2>5. PICK r : r = [loc[p] EXCEPT !.tot = loc[p].tot + m]
    BY Zenon
  <2>6. /\ r \in [pc : Labels, left : Nat, n : Nat, tot : Nat, byte : Nat] /\ r.pc = "copy"
        /\ r.left = loc[p].left /\ r.n = loc[p].n /\ r.tot = loc[p].tot + m /\ r.byte = loc[p].byte
    <3>1. loc[p].tot + m \in Nat
      BY <1>2, <2>2
    <3> QED BY Zenon, <1>2, <1>5, <2>5, <3>1
  <2>7. loc \in [Procs -> [pc : Labels, left : Nat, n : Nat, tot : Nat, byte : Nat]]
    BY Zenon, <1>1 DEF ContentTypeOK
  <2>8. loc' = [loc EXCEPT ![p] = r]
    BY Zenon, <2>1, <2>5
  <2>9. /\ loc' \in [Procs -> [pc : Labels, left : Nat, n : Nat, tot : Nat, byte : Nat]]
        /\ loc'[p] = r /\ \A q \in Procs \ {p} : loc'[q] = loc[q]
    BY Zenon, <2>6, <2>7, <2>8
  <2>10. Start(p)' = Start(p) /\ Here(p)' = Start(p) + (loc[p].tot + m)
    BY ZenonT(30), <1>5, <2>6, <2>9 DEF Start, Here
  <2>11. Here(p)' = o + m /\ lock[i] = p
    BY SMTT(30), <1>1, <1>2, <1>3, <1>5, <2>2, <2>10 DEF LockInv
  <2>12. Typed(fs') /\ Owned(fs') /\ fs'.daddrs = fs.daddrs /\ fs'.size = fs.size /\ fs'.dsize = fs.dsize
    BY Zenon, <2>4 DEF Writes
  <2>13. ContentTypeOK'
    BY Zenon, <1>1, <1>5, <2>9, <2>12 DEF ContentTypeOK
  <2>14. LockInv'
    <3>1. ASSUME NEW j \in Inodes, lock[j] # Nil PROVE Ino(lock[j]) = j /\ loc'[lock[j]].pc = "copy"
      <4>1. lock[j] \in Procs
        BY Zenon, <1>1, <3>1 DEF ContentTypeOK
      <4>2. Ino(lock[j]) = j /\ loc[lock[j]].pc = "copy"
        BY Zenon, <1>1, <3>1 DEF LockInv
      <4> QED BY Zenon, <2>6, <2>9, <4>1, <4>2
    <3>2. ASSUME NEW q \in Procs, loc'[q].pc = "copy" PROVE lock[Ino(q)] = q
      <4>1. loc[q].pc = "copy"
        BY Zenon, <1>5, <2>9, <3>2
      <4> QED BY Zenon, <1>1, <4>1 DEF LockInv
    <3> QED BY Zenon, <1>5, <3>1, <3>2 DEF LockInv
  <2>15. ASSUME NEW q \in Procs \ {p} PROVE ChunkOK(q)' /\ LogOK(q)'
    <3>1. loc'[q] = loc[q] /\ off' = off /\ fs'.size = fs.size
      BY Zenon, <1>5, <2>9, <2>12
    <3>2. loc[q].pc = "copy" => Ino(q) \in Inodes \ {i}
      BY Zenon, <1>1, <1>3, <1>5, Exclusion, Participants
    <3>3. loc[q].pc = "copy" => fs'.addrs[Ino(q)] = fs.addrs[Ino(q)]
      BY Zenon, <2>4, <3>2 DEF Writes
    <3>4. fs'.logged[q] = fs.logged[q]
      BY Zenon, <2>4 DEF Writes, Logs
    <3> QED BY Zenon, <3>1, <3>3, <3>4, ChunkFrame, LogFrame
  <2>16. ChunkOK(p)'
    <3>1. /\ 0 < loc[p].n /\ loc[p].n <= max /\ loc[p].n <= loc[p].left
          /\ Start(p) <= fs.size[Ino(p)] /\ Start(p) + loc[p].n <= MAXFILE * BSIZE
      BY Zenon, <1>1, <1>5 DEF ChunkOK
    <3> QED BY Zenon, <2>2, <2>6, <2>9, <2>10, <2>11, <2>12, <3>1 DEF ChunkOK
  <2>17. LogOK(p)'
    BY Zenon, <1>3, <1>5, <2>2, <2>4, <2>6, <2>9, <2>10, RoundLogOK
  <2>18. ASSUME NEW j \in Inodes \ {i} PROVE BytesOK(j)' /\ DiskOK(j)'
    <3>1. Undisturbed(j)
      <4>1. ASSUME lock[j] # Nil PROVE lock[j] \in Procs \ {p}
        <5>1. lock[j] \in Procs
          BY Zenon, <1>1, <4>1 DEF ContentTypeOK
        <5>2. Ino(lock[j]) = j
          BY Zenon, <1>1, <4>1 DEF LockInv
        <5> QED BY Zenon, <1>3, <5>1, <5>2
      <4> QED BY Zenon, <1>5, <2>9, <4>1 DEF Undisturbed
    <3>2. fs'.addrs[j] = fs.addrs[j]
      BY Zenon, <2>4 DEF Writes
    <3>3. \A x \in Offsets : Has(fs, j, x) => Has(fs', j, x) /\ Byte(fs', j, x) = Byte(fs, j, x)
      BY Zenon, <2>4 DEF Writes
    <3> QED BY Zenon, <1>5, <2>12, <3>1, <3>2, <3>3, BytesFrame, DiskFrame
  <2>19. BytesOK(i)'
    <3>1. BytesOK(i) /\ i \in Inodes
      BY Zenon, <1>1, <1>3 DEF ContentInv
    <3>2. Copied(i) = Start(p) .. o - 1 /\ Copied(i)' = Start(p) .. (o + m) - 1
      BY Zenon, <1>1, <1>3, <1>5, <2>10, <2>11 DEF Copied
    <3>3. \A x \in Copied(i)' : x \in Copied(i) \/ x \in o .. o + m - 1
      <4>1. \A x \in Start(p) .. (o + m) - 1 : x \in Start(p) .. o - 1 \/ x \in o .. o + m - 1
        <5>1. Start(p) \in Nat /\ o \in Nat /\ m \in Nat
          BY Zenon, <1>2, <1>3, <2>2
        <5> QED BY <5>1
      <4> QED BY Zenon, <3>2, <4>1
    <3>4. \A x : x \in Copied(i) \/ x \in o .. o + m - 1 => x \in Copied(i)'
      <4>1. Start(p) \in Nat /\ o \in Nat /\ m \in Nat /\ Start(p) <= o
        BY <1>2, <1>3, <2>2
      <4>2. \A x : x \in Start(p) .. o - 1 => x \in Start(p) .. (o + m) - 1
        BY <4>1
      <4>3. \A x : x \in o .. o + m - 1 => x \in Start(p) .. (o + m) - 1
        BY <4>1
      <4> QED BY ZenonT(30), <3>2, <4>2, <4>3
    <3>5. loc'[lock'[i]].byte = byte /\ loc[lock[i]].byte = byte
      BY Zenon, <1>3, <1>5, <2>6, <2>9, <2>11
    <3>6. \A x \in o .. o + m - 1 : Has(fs', i, x) /\ Byte(fs', i, x) = byte
      BY Zenon, <2>4 DEF Writes
    <3>7. \A x \in Offsets : Has(fs, i, x) /\ ~(x \in o .. o + m - 1) => Has(fs', i, x) /\ Byte(fs', i, x) = Byte(fs, i, x)
      BY Zenon, <2>4, <3>1 DEF Writes
    <3>8. ASSUME NEW x \in Copied(i)' PROVE Has(fs', i, x) /\ Byte(fs', i, x) = byte
      <4>1. CASE x \in o .. o + m - 1
        BY Zenon, <3>6, <4>1
      <4>2. CASE x \in Copied(i) /\ ~(x \in o .. o + m - 1)
        <5>1. x \in Offsets /\ Has(fs, i, x) /\ Byte(fs, i, x) = byte
          BY Zenon, <3>1, <3>5, <4>2, CopiedFacts DEF BytesOK
        <5> QED BY Zenon, <3>7, <4>2, <5>1
      <4> QED BY Zenon, <3>3, <4>1, <4>2
    <3>9. ASSUME NEW x \in 0 .. fs.size[i] - 1
          PROVE  Has(fs', i, x) /\ (x \notin Copied(i)' => Byte(fs', i, x) = written[i][x + 1])
      <4>1. x \in Offsets /\ Has(fs, i, x) /\ (x \notin Copied(i) => Byte(fs, i, x) = written[i][x + 1])
        BY Zenon, <3>1, CopiedFacts DEF BytesOK
      <4> QED BY Zenon, <3>4, <3>6, <3>7, <4>1
    <3> QED BY Zenon, <1>5, <2>12, <3>1, <3>5, <3>8, <3>9 DEF BytesOK
  <2>20. DiskOK(i)'
    <3>1. DiskOK(i) /\ fs.size[i] \in Nat /\ o \in Nat
      BY Zenon, <1>1, <1>2, <1>3, CopiedFacts DEF ContentInv
    <3>2. CASE Has(fs, i, o)
      <4>1. fs'.addrs = fs.addrs
        BY Zenon, <2>4, <3>2 DEF Writes
      <4>2. Here(lock[i]) > fs.size[i] => o + m > fs.size[i]
        BY <1>3, <2>2, <2>11, <3>1
      <4> QED BY Zenon, <1>5, <2>11, <2>12, <3>1, <4>1, <4>2 DEF DiskOK
    <3>3. CASE ~Has(fs, i, o)
      <4>1. o + m > fs.size[i]
        BY <2>2, <3>1, <3>3
      <4> QED BY ZenonT(30), <1>1, <1>5, <2>11, <2>12, <3>1, <4>1 DEF DiskOK
    <3> QED BY Zenon, <3>2, <3>3
  <2>21. ContentInv'
    BY Zenon, <1>3, <2>12, <2>13, <2>14, <2>15, <2>16, <2>17, <2>18, <2>19, <2>20 DEF ContentInv
  <2> QED BY Zenon, <2>12, <2>21
<1> QED BY Zenon, <1>6, <1>7


\* The transaction of a chunk leaves room for the inode.
LEMMA LogBound ==
  ASSUME ContentInv, NEW p \in Procs, loc[p].pc = "copy"
  PROVE  /\ IsFiniteSet(fs.logged[p]) /\ Cardinality(fs.logged[p]) \in Nat
         /\ Cardinality(fs.logged[p]) <= MAXOPBLOCKS - 1
<1>1. ContentTypeOK /\ ChunkOK(p) /\ LogOK(p) /\ IsFiniteSet(fs.logged[p])
  BY Zenon DEF ContentInv, LogOK
<1>2. /\ loc[p].n \in Nat /\ loc[p].tot \in Nat /\ Start(p) \in Nat /\ Here(p) = Start(p) + loc[p].tot
      /\ loc[p].tot <= loc[p].n /\ loc[p].n <= max
  BY Zenon, <1>1, LocFields DEF Here, ChunkOK
<1>3. Cardinality(fs.logged[p]) \in Nat /\ MAXOPBLOCKS \in Nat /\ MAXOPBLOCKS >= 6
  BY Zenon, <1>1, FS_CardinalityType, Constants
<1>4. CASE loc[p].tot = 0
  <2>1. Cardinality(fs.logged[p]) = 0
    BY ZenonT(30), <1>1, <1>4, FS_EmptySet DEF LogOK
  <2>2. Cardinality(fs.logged[p]) <= MAXOPBLOCKS - 1
    BY SMTT(30), <1>3, <2>1
  <2> QED BY Zenon, <1>1, <1>3, <2>2
<1>5. CASE loc[p].tot # 0
  <2>1. PICK K : K = (MAXOPBLOCKS - 1 - 1 - 2) \div 2
    BY Zenon
  <2>2. K \in Nat /\ 2 * K <= MAXOPBLOCKS - 4 /\ max = K * BSIZE
    BY <1>3, <2>1 DEF max
  <2>3. loc[p].tot \in Nat \ {0} /\ loc[p].tot <= K * BSIZE
    BY <1>2, <1>5, <2>2, Participants
  <2>4. ((Start(p) + loc[p].tot - 1) \div BSIZE) - (Start(p) \div BSIZE) + 1 <= IF Start(p) % BSIZE = 0 THEN K ELSE K + 1
    BY Zenon, <1>2, <2>2, <2>3, BlocksTouched
  <2>5. Here(p) - 1 = Start(p) + loc[p].tot - 1
    BY <1>2
  <2>6. Touched(p) <= IF Start(p) % BSIZE = 0 THEN K ELSE K + 1
    BY Zenon, <2>4, <2>5 DEF Touched
  <2>7. Touched(p) \in Int
    <3>1. Here(p) - 1 \in Int /\ Start(p) \in Int
      BY <1>2
    <3>2. (Here(p) - 1) \div BSIZE \in Int /\ Start(p) \div BSIZE \in Int
      BY Zenon, <3>1, DivMod
    <3> QED BY <3>2 DEF Touched
  <2>8. PICK l, d : l = fs.addrs[Ino(p)][NDIRECT] /\ d = IF Start(p) % BSIZE = 0 THEN 0 ELSE 1
    BY Zenon
  <2>9. loc[p].tot > 0
    BY <1>2, <1>5
  <2>10. Cardinality(fs.logged[p] \ Both(l)) <= 2 * Touched(p) - d
    BY Zenon, <1>1, <2>8, <2>9 DEF LogOK
  <2>11. d \in {0, 1} /\ (d = 0 => Touched(p) <= K) /\ Touched(p) <= K + 1
    BY SMTT(30), <2>2, <2>6, <2>7, <2>8
  <2>12. IsFiniteSet(fs.logged[p] \ Both(l))
    BY Zenon, <1>1, FS_Subset
  <2>13. fs.logged[p] \subseteq (fs.logged[p] \ Both(l)) \cup {DBLOCK(l), BBLOCK(l)}
    BY Zenon DEF Both
  <2>14. /\ Cardinality(fs.logged[p] \ Both(l)) \in Nat
         /\ Cardinality(fs.logged[p]) <= Cardinality(fs.logged[p] \ Both(l)) + 2
    BY ZenonT(30), <2>12, <2>13, AddTwo
  <2>15. Cardinality(fs.logged[p]) <= MAXOPBLOCKS - 1
    BY <1>3, <2>2, <2>7, <2>10, <2>11, <2>14
  <2> QED BY Zenon, <1>1, <1>3, <2>15
<1> QED BY Zenon, <1>4, <1>5

LEMMA GreaterOfTwo ==
  ASSUME NEW a \in Nat, NEW b \in Nat
  PROVE  Max({a, b}) = IF a <= b THEN b ELSE a
<1>1. PICK x \in {a, b} : \A y \in {a, b} : x >= y
  <2>1. CASE a <= b
    BY <2>1
  <2>2. CASE ~(a <= b)
    BY <2>2
  <2> QED BY <2>1, <2>2
<1>2. Max({a, b}) \in {a, b} /\ \A y \in {a, b} : Max({a, b}) >= y
  BY Zenon, <1>1 DEF Max
<1> QED BY <1>2


\* The file system after a chunk: the inode on disk is the one in memory.
LEMMA ChunkGrown ==
  ASSUME ContentInv, NEW p \in Procs, loc[p].pc = "copy", loc[p].tot = loc[p].n,
         fs' = Grown(fs, p, Ino(p), Here(p))
  PROVE  /\ Typed(fs') /\ Owned(fs') /\ fs'.addrs = fs.addrs
         /\ \A j \in Inodes, x \in Nat : (Has(fs', j, x) <=> Has(fs, j, x)) /\ Byte(fs', j, x) = Byte(fs, j, x)
         /\ fs'.size[Ino(p)] = IF Here(p) > fs.size[Ino(p)] THEN Here(p) ELSE fs.size[Ino(p)]
         /\ fs'.dsize[Ino(p)] = fs'.size[Ino(p)] /\ fs'.daddrs[Ino(p)] = fs.addrs[Ino(p)]
         /\ \A j \in Inodes \ {Ino(p)} : /\ fs'.size[j] = fs.size[j] /\ fs'.dsize[j] = fs.dsize[j]
                                         /\ fs'.daddrs[j] = fs.daddrs[j]
         /\ \A q \in Procs \ {p} : fs'.logged[q] = fs.logged[q]
         /\ fs'.logged[p] \subseteq fs.logged[p] \cup {IBLOCK(Ino(p))}
<1>1. /\ ContentTypeOK /\ LockInv /\ Owned(fs) /\ Typed(fs) /\ fs \in FS /\ Ino(p) \in Inodes /\ p # Nil
      /\ DiskOK(Ino(p))
  BY Zenon, Participants DEF ContentInv, ContentTypeOK, Typed
<1>2. PICK i, end : i = Ino(p) /\ end = Here(p)
  BY Zenon
<1>3. i \in Inodes /\ end \in Nat /\ lock[i] = p
  BY Zenon, <1>1, <1>2, LocFields DEF LockInv
<1>0. fs' = Grown(fs, p, i, end)
  BY Zenon, <1>2
<1>4. /\ fs.size \in [Inodes -> Nat] /\ fs.dsize \in [Inodes -> Nat] /\ fs.logged \in [Procs -> SUBSET Items]
      /\ fs.daddrs \in [Inodes -> [0 .. NDIRECT -> Blocks \cup {Nil}]]
  BY Zenon, <1>1, TypedFields
<1>5. CASE end > fs.size[i]
  <2>1. /\ fs' \in FS /\ fs'.used = fs.used /\ fs'.data = fs.data /\ fs'.addrs = fs.addrs
        /\ fs'.size = [fs.size EXCEPT ![i] = end] /\ fs'.dsize = [fs.dsize EXCEPT ![i] = end]
        /\ fs'.daddrs = [fs.daddrs EXCEPT ![i] = fs.addrs[i]]
        /\ fs'.logged = LoggedAlso(fs.logged, p, IBLOCK(i))
    <3>1. Grows(fs, Grown(fs, p, i, end), p, i, end)
      BY Zenon, <1>1, <1>3, <1>5, GrownFields
    <3>2. Grows(fs, fs', p, i, end)
      BY Zenon, <1>0, <3>1
    <3> QED BY Zenon, <3>2 DEF Grows
  <2>2. /\ Typed(fs') /\ Owned(fs')
        /\ \A j \in Inodes, x \in Nat : (Has(fs', j, x) <=> Has(fs, j, x)) /\ Byte(fs', j, x) = Byte(fs, j, x)
    BY Zenon, <1>1, <2>1, SameFiles
  <2>3. /\ fs'.size[i] = end /\ fs'.dsize[i] = end /\ fs'.daddrs[i] = fs.addrs[i]
        /\ \A j \in Inodes \ {i} : fs'.size[j] = fs.size[j] /\ fs'.dsize[j] = fs.dsize[j] /\ fs'.daddrs[j] = fs.daddrs[j]
    BY Zenon, <1>3, <1>4, <2>1
  <2>4. /\ \A q \in Procs \ {p} : fs'.logged[q] = fs.logged[q]
        /\ fs'.logged[p] \subseteq fs.logged[p] \cup {IBLOCK(i)}
    BY Zenon, <1>4, <2>1 DEF LoggedAlso
  <2> QED BY Zenon, <1>2, <1>5, <2>1, <2>2, <2>3, <2>4
<1>6. CASE ~(end > fs.size[i])
  <2>1. fs' = fs
    BY Zenon, <1>0, <1>6 DEF Grown
  <2>2. fs.dsize[i] = fs.size[i] /\ fs.daddrs[i] = fs.addrs[i]
    BY Zenon, <1>1, <1>2, <1>3, <1>6 DEF DiskOK
  <2> QED BY Zenon, <1>1, <1>2, <1>6, <2>1, <2>2
<1> QED BY Zenon, <1>5, <1>6


\* What a file should contain after bytes o .. end - 1 have been written.
Overlay(w, o, end, byte) ==
  [k \in 1 .. Max({Len(w), end}) |-> IF k \in o + 1 .. end THEN byte ELSE w[k]]

Overlays(v, w, o, end, byte) ==
  /\ v \in Seq(Nat) /\ Len(v) = IF end > Len(w) THEN end ELSE Len(w)
  /\ \A x \in Nat : x < Len(w) \/ x < end => v[x + 1] = IF x \in o .. end - 1 THEN byte ELSE w[x + 1]

LEMMA OverlayFacts ==
  ASSUME NEW w \in Seq(Nat), NEW o \in Nat, NEW end \in Nat, NEW byte \in Nat, o <= Len(w), o <= end
  PROVE  Overlays(Overlay(w, o, end, byte), w, o, end, byte)
<1>1. Len(w) \in Nat /\ \A k \in 1 .. Len(w) : w[k] \in Nat
  OBVIOUS
<1>2. PICK l : l = IF end > Len(w) THEN end ELSE Len(w)
  BY Zenon
<1>3. l \in Nat /\ Max({Len(w), end}) = l
  BY SMTT(30), <1>1, <1>2, GreaterOfTwo
<1>4. PICK v : v = [k \in 1 .. l |-> IF k \in o + 1 .. end THEN byte ELSE w[k]]
  BY Zenon
<1>5. \A k \in 1 .. l : k \in o + 1 .. end \/ k \in 1 .. Len(w)
  BY <1>1, <1>2
<1>6. v \in [1 .. l -> Nat]
  BY Zenon, <1>1, <1>4, <1>5
<1>7. v \in Seq(Nat) /\ Len(v) = l
  BY <1>3, <1>6
<1>8. ASSUME NEW x \in Nat, x < Len(w) \/ x < end
      PROVE  v[x + 1] = IF x \in o .. end - 1 THEN byte ELSE w[x + 1]
  <2>1. x + 1 \in 1 .. l /\ (x + 1 \in o + 1 .. end <=> x \in o .. end - 1)
    BY <1>1, <1>2, <1>8
  <2>2. v[x + 1] = IF x + 1 \in o + 1 .. end THEN byte ELSE w[x + 1]
    BY Zenon, <1>4, <2>1
  <2> QED BY Zenon, <2>1, <2>2
<1>9. Overlay(w, o, end, byte) = v
  BY Zenon, <1>3, <1>4 DEF Overlay
<1>10. Overlays(v, w, o, end, byte)
  BY Zenon, <1>2, <1>7, <1>8 DEF Overlays
<1> QED BY Zenon, <1>9, <1>10

\* The end of writei().
LEMMA ChunkDoneInv ==
  ASSUME ContentInv, NEW p \in Procs, ChunkDone(p)
  PROVE  ContentInv'
<1>1. /\ ContentTypeOK /\ LockInv /\ ChunkOK(p) /\ Owned(fs) /\ Typed(fs) /\ fs \in FS
      /\ FileOf[p] \in Files /\ Ino(p) = InodeOf[FileOf[p]] /\ Ino(p) \in Inodes /\ p # Nil
  BY Zenon, Participants DEF ContentInv, ContentTypeOK, Typed
<1>2. /\ loc[p] \in [pc : Labels, left : Nat, n : Nat, tot : Nat, byte : Nat]
      /\ loc[p].pc \in Labels /\ loc[p].left \in Nat /\ loc[p].n \in Nat /\ loc[p].tot \in Nat /\ loc[p].byte \in Nat
      /\ Start(p) \in Nat /\ Here(p) \in Nat /\ Here(p) = Start(p) + loc[p].tot
  BY Zenon, <1>1, LocFields DEF Here
<1>3. PICK i, o, end, byte : i = Ino(p) /\ o = Start(p) /\ end = Here(p) /\ byte = loc[p].byte
  BY Zenon
<1>4. loc[p].pc = "copy" /\ loc[p].tot = loc[p].n /\ off[FileOf[p]] + loc[p].n = end
  BY ZenonT(30), <1>2, <1>3 DEF ChunkDone, Start
<1>5. /\ i \in Inodes /\ o \in Nat /\ end \in Nat /\ byte \in Nat /\ o <= end /\ end <= MAXFILE * BSIZE
      /\ loc[p].n <= loc[p].left /\ o <= fs.size[i] /\ lock[i] = p
  BY <1>1, <1>2, <1>3, <1>4 DEF ChunkOK, LockInv
<1>6. /\ fs' = Grown(fs, p, i, end)
      /\ off' = [off EXCEPT ![FileOf[p]] = end]
      /\ lock' = [lock EXCEPT ![i] = Nil]
      /\ loc' = [loc EXCEPT ![p] = [loc[p] EXCEPT !.pc = "end", !.left = loc[p].left - loc[p].n]]
      /\ written' = [written EXCEPT ![i] = Overlay(written[i], o, end, byte)]
  <2>1. fs' = Grown(fs, p, i, end) /\ lock' = [lock EXCEPT ![i] = Nil]
    BY Zenon, <1>3, <1>4 DEF ChunkDone
  <2>2. off' = [off EXCEPT ![FileOf[p]] = end]
    BY Zenon, <1>4 DEF ChunkDone, Advance
  <2>3. loc' = [loc EXCEPT ![p] = [loc[p] EXCEPT !.pc = "end", !.left = loc[p].left - loc[p].n]]
    BY Zenon DEF ChunkDone
  <2>4. written' = [written EXCEPT ![i] = Overlay(written[i], o, end, byte)]
    BY Zenon, <1>3, <1>4 DEF ChunkDone, Overlay, Start
  <2> QED BY Zenon, <2>1, <2>2, <2>3, <2>4
<1>7. PICK r : r = [loc[p] EXCEPT !.pc = "end", !.left = loc[p].left - loc[p].n]
  BY Zenon
<1>8. r \in [pc : Labels, left : Nat, n : Nat, tot : Nat, byte : Nat] /\ r.pc = "end"
  <2>1. loc[p].left - loc[p].n \in Nat
    BY <1>2, <1>5
  <2> QED BY Zenon, <1>2, <1>7, <2>1 DEF Labels
<1>9. loc \in [Procs -> [pc : Labels, left : Nat, n : Nat, tot : Nat, byte : Nat]]
  BY Zenon, <1>1 DEF ContentTypeOK
<1>10. /\ loc' \in [Procs -> [pc : Labels, left : Nat, n : Nat, tot : Nat, byte : Nat]]
       /\ loc'[p] = r /\ \A q \in Procs \ {p} : loc'[q] = loc[q]
  BY Zenon, <1>6, <1>7, <1>8, <1>9
<1>11. lock \in [Inodes -> Procs \cup {Nil}] /\ off \in [Files -> Nat] /\ written \in [Inodes -> Seq(Nat)]
  BY Zenon, <1>1 DEF ContentTypeOK
<1>12. lock' \in [Inodes -> Procs \cup {Nil}] /\ lock'[i] = Nil /\ \A j \in Inodes \ {i} : lock'[j] = lock[j]
  BY Zenon, <1>5, <1>6, <1>11
<1>13. off' \in [Files -> Nat] /\ \A f \in Files \ {FileOf[p]} : off'[f] = off[f]
  BY Zenon, <1>1, <1>5, <1>6, <1>11
<1>14. BytesOK(i) /\ fs.size[i] = Len(written[i]) /\ written[i] \in Seq(Nat) /\ fs.size[i] \in Nat
  BY Zenon, <1>5, <1>11, CopiedFacts DEF ContentInv, BytesOK
<1>15. PICK v : v = Overlay(written[i], o, end, byte)
  BY Zenon
<1>16. /\ v \in Seq(Nat) /\ Len(v) = IF end > Len(written[i]) THEN end ELSE Len(written[i])
       /\ \A x \in Nat : x < Len(written[i]) \/ x < end =>
            v[x + 1] = IF x \in o .. end - 1 THEN byte ELSE written[i][x + 1]
  <2>1. o <= Len(written[i])
    BY Zenon, <1>5, <1>14
  <2>2. Overlays(Overlay(written[i], o, end, byte), written[i], o, end, byte)
    BY Zenon, <1>5, <1>14, <2>1, OverlayFacts
  <2>3. Overlays(v, written[i], o, end, byte)
    BY Zenon, <1>15, <2>2
  <2> QED BY Zenon, <2>3 DEF Overlays
<1>17. written' \in [Inodes -> Seq(Nat)] /\ written'[i] = v /\ \A j \in Inodes \ {i} : written'[j] = written[j]
  BY Zenon, <1>5, <1>6, <1>11, <1>15, <1>16
<1>18. /\ Typed(fs') /\ Owned(fs') /\ fs'.addrs = fs.addrs
       /\ \A j \in Inodes, x \in Nat : (Has(fs', j, x) <=> Has(fs, j, x)) /\ Byte(fs', j, x) = Byte(fs, j, x)
       /\ fs'.size[i] = IF end > fs.size[i] THEN end ELSE fs.size[i]
       /\ fs'.dsize[i] = fs'.size[i] /\ fs'.daddrs[i] = fs.addrs[i]
       /\ \A j \in Inodes \ {i} : /\ fs'.size[j] = fs.size[j] /\ fs'.dsize[j] = fs.dsize[j]
                                  /\ fs'.daddrs[j] = fs.daddrs[j]
       /\ \A q \in Procs \ {p} : fs'.logged[q] = fs.logged[q]
       /\ fs'.logged[p] \subseteq fs.logged[p] \cup {IBLOCK(i)}
  BY Zenon, <1>3, <1>4, <1>6, ChunkGrown
<1>19. ContentTypeOK'
  BY Zenon, <1>10, <1>12, <1>13, <1>17, <1>18 DEF ContentTypeOK

<1>20. \A q \in Procs \ {p} : loc[q].pc = "copy" => Ino(q) \in Inodes \ {i} /\ FileOf[q] \in Files \ {FileOf[p]}
  BY Zenon, <1>1, <1>3, <1>4, Exclusion, Participants
<1>21. \A j \in Inodes \ {i} : lock[j] # Nil => lock[j] \in Procs \ {p} /\ Ino(lock[j]) = j /\ loc[lock[j]].pc = "copy"
  <2> SUFFICES ASSUME NEW j \in Inodes \ {i}, lock[j] # Nil
               PROVE  lock[j] \in Procs \ {p} /\ Ino(lock[j]) = j /\ loc[lock[j]].pc = "copy"
    BY Zenon
  <2>1. lock[j] \in Procs
    BY Zenon, <1>11
  <2>2. Ino(lock[j]) = j /\ loc[lock[j]].pc = "copy"
    BY Zenon, <1>1 DEF LockInv
  <2> QED BY Zenon, <1>3, <2>1, <2>2
<1>22. LockInv'
  <2>1. ASSUME NEW j \in Inodes, lock'[j] # Nil PROVE Ino(lock'[j]) = j /\ loc'[lock'[j]].pc = "copy"
    <3>1. j \in Inodes \ {i} /\ lock'[j] = lock[j]
      BY Zenon, <1>12, <2>1
    <3> QED BY Zenon, <1>10, <1>21, <2>1, <3>1
  <2>2. ASSUME NEW q \in Procs, loc'[q].pc = "copy" PROVE lock'[Ino(q)] = q
    <3>1. q # p
      BY <1>8, <1>10, <2>2
    <3>2. loc[q].pc = "copy" /\ Ino(q) \in Inodes \ {i}
      BY Zenon, <1>10, <1>20, <2>2, <3>1
    <3> QED BY Zenon, <1>1, <1>12, <3>2 DEF LockInv
  <2> QED BY Zenon, <2>1, <2>2 DEF LockInv
<1>23. ASSUME NEW q \in Procs \ {p} PROVE ChunkOK(q)' /\ LogOK(q)'
  <2>1. loc'[q] = loc[q] /\ fs'.logged[q] = fs.logged[q] /\ fs'.addrs = fs.addrs
    BY Zenon, <1>10, <1>18
  <2>2. loc[q].pc = "copy" => off'[FileOf[q]] = off[FileOf[q]] /\ fs'.size[Ino(q)] = fs.size[Ino(q)]
    BY ZenonT(30), <1>13, <1>18, <1>20
  <2> QED BY Zenon, <2>1, <2>2, ChunkFrame, LogFrame
<1>24. ChunkOK(p)'
  BY SMTT(30), <1>8, <1>10 DEF ChunkOK
<1>25. LogOK(p)'
  <2>1. IsFiniteSet(fs.logged[p]) /\ Cardinality(fs.logged[p]) \in Nat /\ Cardinality(fs.logged[p]) <= MAXOPBLOCKS - 1
    BY Zenon, <1>4, LogBound
  <2>2. /\ IsFiniteSet(fs'.logged[p]) /\ Cardinality(fs'.logged[p]) \in Nat
        /\ Cardinality(fs'.logged[p]) <= Cardinality(fs.logged[p]) + 1
    BY Zenon, <1>18, <2>1, AddOne
  <2>3. Cardinality(fs'.logged[p]) <= MAXOPBLOCKS
    BY SMTT(30), <2>1, <2>2, Constants
  <2>4. loc'[p].pc \notin {"user", "chunk", "copy"}
    BY <1>8, <1>10
  <2> QED BY Zenon, <2>2, <2>3, <2>4 DEF LogOK
<1>26. ASSUME NEW j \in Inodes \ {i} PROVE BytesOK(j)' /\ DiskOK(j)'
  <2>1. Undisturbed(j)
    BY Zenon, <1>10, <1>12, <1>13, <1>20, <1>21 DEF Undisturbed
  <2>2. \A x \in Offsets : x \in Nat
    BY Zenon, OffsetFacts
  <2>3. \A x \in Offsets : Has(fs, j, x) => Has(fs', j, x) /\ Byte(fs', j, x) = Byte(fs, j, x)
    BY Zenon, <1>18, <2>2
  <2> QED BY Zenon, <1>17, <1>18, <2>1, <2>3, BytesFrame, DiskFrame
<1>27. BytesOK(i)'
  <2>1. Copied(i) = o .. end - 1 /\ Copied(i)' = {}
    BY Zenon, <1>1, <1>3, <1>5, <1>12 DEF Copied
  <2>2. /\ \A x \in 0 .. fs.size[i] - 1 : Has(fs, i, x) /\ (x \notin Copied(i) => Byte(fs, i, x) = written[i][x + 1])
        /\ \A x \in Copied(i) : Has(fs, i, x) /\ Byte(fs, i, x) = byte
        /\ fs.size[i] <= MAXFILE * BSIZE
    BY Zenon, <1>3, <1>5, <1>14 DEF BytesOK
  <2>3. fs'.size[i] = Len(v) /\ fs'.size[i] <= MAXFILE * BSIZE
    BY Zenon, <1>5, <1>14, <1>16, <1>18, <2>2
  <2>4. ASSUME NEW x \in 0 .. fs'.size[i] - 1 PROVE Has(fs', i, x) /\ Byte(fs', i, x) = v[x + 1]
    <3>1. x \in Nat /\ (x < Len(written[i]) \/ x < end) /\ (x \in o .. end - 1 \/ x \in 0 .. fs.size[i] - 1)
      BY <1>5, <1>14, <1>18
    <3>2. v[x + 1] = IF x \in o .. end - 1 THEN byte ELSE written[i][x + 1]
      BY Zenon, <1>16, <3>1
    <3>3. Has(fs, i, x) /\ Byte(fs, i, x) = IF x \in o .. end - 1 THEN byte ELSE written[i][x + 1]
      BY Zenon, <2>1, <2>2, <3>1
    <3> QED BY ZenonT(30), <1>5, <1>18, <3>1, <3>2, <3>3
  <2> QED BY Zenon, <1>17, <2>1, <2>3, <2>4 DEF BytesOK
<1>28. DiskOK(i)'
  BY Zenon, <1>18 DEF DiskOK
<1> QED BY Zenon, <1>18, <1>19, <1>22, <1>23, <1>24, <1>25, <1>26, <1>27, <1>28 DEF ContentInv


\* end_op()
LEMMA EndOpInv ==
  ASSUME ContentInv, NEW p \in Procs, EndOp(p)
  PROVE  ContentInv'
<1>1. /\ ContentTypeOK /\ LockInv /\ Owned(fs) /\ Typed(fs) /\ fs \in FS /\ p # Nil
  BY Zenon, Participants DEF ContentInv, ContentTypeOK, Typed
<1>2. /\ loc[p] \in [pc : Labels, left : Nat, n : Nat, tot : Nat, byte : Nat] /\ loc[p].left \in Nat
  BY Zenon, <1>1, LocFields
<1>3. /\ loc[p].pc = "end" /\ off' = off /\ lock' = lock /\ written' = written
      /\ fs' = [fs EXCEPT !.logged[p] = {}]
  BY Zenon DEF EndOp
<1>4. PICK r : r = IF loc[p].left = 0 THEN Idle ELSE [loc[p] EXCEPT !.pc = "chunk", !.n = 0, !.tot = 0]
  BY Zenon
<1>5. loc' = [loc EXCEPT ![p] = r]
  BY Zenon, <1>4 DEF EndOp
<1>6. /\ r \in [pc : Labels, left : Nat, n : Nat, tot : Nat, byte : Nat] /\ r.pc \in {"user", "chunk"}
      /\ r.pc = "chunk" => r.left > 0
  <2>1. CASE loc[p].left = 0
    <3>1. r = Idle
      BY Zenon, <1>4, <2>1
    <3> QED BY <3>1 DEF Idle, Labels
  <2>2. CASE loc[p].left # 0
    <3>1. r = [loc[p] EXCEPT !.pc = "chunk", !.n = 0, !.tot = 0] /\ 0 \in Nat
      BY Zenon, <1>4, <2>2
    <3>2. r \in [pc : Labels, left : Nat, n : Nat, tot : Nat, byte : Nat] /\ r.pc = "chunk" /\ r.left = loc[p].left
      BY Zenon, <1>2, <3>1 DEF Labels
    <3> QED BY <1>2, <2>2, <3>2
  <2> QED BY Zenon, <2>1, <2>2
<1>7. loc \in [Procs -> [pc : Labels, left : Nat, n : Nat, tot : Nat, byte : Nat]]
  BY Zenon, <1>1 DEF ContentTypeOK
<1>8. /\ loc' \in [Procs -> [pc : Labels, left : Nat, n : Nat, tot : Nat, byte : Nat]]
      /\ loc'[p] = r /\ \A q \in Procs \ {p} : loc'[q] = loc[q]
  BY Zenon, <1>5, <1>6, <1>7
<1>9. /\ fs' \in FS /\ fs'.used = fs.used /\ fs'.data = fs.data /\ fs'.addrs = fs.addrs /\ fs'.daddrs = fs.daddrs
      /\ fs'.size = fs.size /\ fs'.dsize = fs.dsize /\ fs'.logged = [fs.logged EXCEPT ![p] = {}]
  BY Zenon, <1>1, <1>3 DEF FS
<1>10. /\ Typed(fs') /\ Owned(fs')
       /\ \A j \in Inodes, x \in Nat : (Has(fs', j, x) <=> Has(fs, j, x)) /\ Byte(fs', j, x) = Byte(fs, j, x)
  BY Zenon, <1>1, <1>9, SameFiles
<1>11. fs'.logged[p] = {} /\ \A q \in Procs \ {p} : fs'.logged[q] = fs.logged[q]
  BY Zenon, <1>1, <1>9, TypedFields
<1>12. ContentTypeOK'
  BY Zenon, <1>1, <1>3, <1>8, <1>10 DEF ContentTypeOK
<1>13. \A i \in Inodes : lock[i] # Nil => lock[i] \in Procs \ {p} /\ Ino(lock[i]) = i /\ loc[lock[i]].pc = "copy"
  <2> SUFFICES ASSUME NEW i \in Inodes, lock[i] # Nil
               PROVE  lock[i] \in Procs \ {p} /\ Ino(lock[i]) = i /\ loc[lock[i]].pc = "copy"
    BY Zenon
  <2>1. lock[i] \in Procs
    BY Zenon, <1>1 DEF ContentTypeOK
  <2>2. Ino(lock[i]) = i /\ loc[lock[i]].pc = "copy"
    BY Zenon, <1>1 DEF LockInv
  <2> QED BY Zenon, <1>3, <2>1, <2>2
<1>14. LockInv'
  <2>1. ASSUME NEW q \in Procs, loc'[q].pc = "copy" PROVE lock[Ino(q)] = q
    <3>1. q # p
      BY <1>6, <1>8, <2>1
    <3> QED BY Zenon, <1>1, <1>8, <2>1, <3>1 DEF LockInv
  <2> QED BY Zenon, <1>3, <1>8, <1>13, <2>1 DEF LockInv
<1>15. ASSUME NEW q \in Procs \ {p} PROVE ChunkOK(q)' /\ LogOK(q)'
  BY Zenon, <1>3, <1>8, <1>9, <1>11, ChunkFrame, LogFrame
<1>16. r.pc # "copy" /\ r.pc # "end"
  BY <1>6
<1>17. ChunkOK(p)' /\ LogOK(p)'
  BY Zenon, <1>6, <1>8, <1>11, <1>16, FS_EmptySet DEF ChunkOK, LogOK
<1>18. ASSUME NEW i \in Inodes PROVE BytesOK(i)' /\ DiskOK(i)'
  <2>1. Undisturbed(i)
    BY Zenon, <1>3, <1>8, <1>13 DEF Undisturbed
  <2>2. \A x \in Offsets : x \in Nat
    BY Zenon, OffsetFacts
  <2>3. \A x \in Offsets : Has(fs, i, x) => Has(fs', i, x) /\ Byte(fs', i, x) = Byte(fs, i, x)
    BY Zenon, <1>10, <2>2
  <2> QED BY Zenon, <1>3, <1>9, <2>1, <2>3, BytesFrame, DiskFrame
<1> QED BY Zenon, <1>10, <1>12, <1>14, <1>15, <1>17, <1>18 DEF ContentInv

\* itrunc(): no block is freed that was free, so that bfree() does not panic.
LEMMA ItruncInv ==
  ASSUME ContentInv, NEW i \in Inodes, Itrunc(i)
  PROVE  ContentInv'
<1>1. /\ ContentTypeOK /\ LockInv /\ Owned(fs) /\ Typed(fs) /\ fs \in FS
  BY Zenon DEF ContentInv, ContentTypeOK, Typed
<1>2. /\ lock[i] = Nil /\ lock' = lock /\ loc' = loc /\ \A p \in Procs : Ino(p) = i => loc[p].pc = "user"
      /\ off' = [f \in Files |-> IF InodeOf[f] = i THEN 0 ELSE off[f]] /\ written' = [written EXCEPT ![i] = <<>>]
  BY Zenon DEF Itrunc
<1>3. fs' = Truncation(fs, i)
  <2>1. Truncated(fs, i) \subseteq fs.used
    BY Zenon, <1>1, TruncatedPlaces
  <2> QED BY Zenon, <2>1 DEF Itrunc, Truncation
<1>4. /\ fs'.logged = fs.logged
      /\ fs'.addrs = [fs.addrs EXCEPT ![i] = NoAddrs] /\ fs'.daddrs = [fs.daddrs EXCEPT ![i] = NoAddrs]
      /\ fs'.size = [fs.size EXCEPT ![i] = 0] /\ fs'.dsize = [fs.dsize EXCEPT ![i] = 0]
  BY Zenon, <1>1, <1>3, TruncationFields
<1>5. /\ Typed(fs') /\ Owned(fs')
      /\ \A j \in Inodes \ {i}, x \in Offsets :
           (Has(fs', j, x) <=> Has(fs, j, x)) /\ Byte(fs', j, x) = Byte(fs, j, x)
  BY Zenon, <1>1, <1>3, TruncationOwned
<1>6. /\ fs'.addrs[i] = NoAddrs /\ fs'.daddrs[i] = NoAddrs /\ fs'.size[i] = 0 /\ fs'.dsize[i] = 0
      /\ \A j \in Inodes \ {i} : /\ fs'.addrs[j] = fs.addrs[j] /\ fs'.daddrs[j] = fs.daddrs[j]
                                 /\ fs'.size[j] = fs.size[j] /\ fs'.dsize[j] = fs.dsize[j]
  <2>1. /\ fs.addrs \in [Inodes -> [0 .. NDIRECT -> Blocks \cup {Nil}]]
        /\ fs.daddrs \in [Inodes -> [0 .. NDIRECT -> Blocks \cup {Nil}]]
        /\ fs.size \in [Inodes -> Nat] /\ fs.dsize \in [Inodes -> Nat]
    BY Zenon, <1>1, TypedFields
  <2>2. fs'.addrs[i] = NoAddrs /\ \A j \in Inodes \ {i} : fs'.addrs[j] = fs.addrs[j]
    BY Zenon, <1>4, <2>1
  <2>3. fs'.daddrs[i] = NoAddrs /\ \A j \in Inodes \ {i} : fs'.daddrs[j] = fs.daddrs[j]
    BY Zenon, <1>4, <2>1
  <2>4. fs'.size[i] = 0 /\ \A j \in Inodes \ {i} : fs'.size[j] = fs.size[j]
    BY Zenon, <1>4, <2>1
  <2>5. fs'.dsize[i] = 0 /\ \A j \in Inodes \ {i} : fs'.dsize[j] = fs.dsize[j]
    BY Zenon, <1>4, <2>1
  <2> QED BY Zenon, <2>2, <2>3, <2>4, <2>5
<1>7. off \in [Files -> Nat] /\ written \in [Inodes -> Seq(Nat)] /\ 0 \in Nat /\ <<>> \in Seq(Nat) /\ Len(<<>>) = 0
  BY <1>1 DEF ContentTypeOK
<1>8. /\ off' \in [Files -> Nat] /\ \A f \in Files : InodeOf[f] # i => off'[f] = off[f]
  BY Zenon, <1>2, <1>7
<1>9. written' \in [Inodes -> Seq(Nat)] /\ written'[i] = <<>> /\ \A j \in Inodes \ {i} : written'[j] = written[j]
  BY Zenon, <1>2, <1>7
<1>10. ContentTypeOK'
  BY Zenon, <1>1, <1>2, <1>5, <1>8, <1>9 DEF ContentTypeOK
<1>11. LockInv'
  BY Zenon, <1>1, <1>2 DEF LockInv
<1>12. \A q \in Procs : loc[q].pc = "copy" => Ino(q) \in Inodes \ {i} /\ off'[FileOf[q]] = off[FileOf[q]]
  <2> SUFFICES ASSUME NEW q \in Procs, loc[q].pc = "copy"
               PROVE  Ino(q) \in Inodes \ {i} /\ off'[FileOf[q]] = off[FileOf[q]]
    BY Zenon
  <2>1. Ino(q) # i
    BY <1>2
  <2> QED BY Zenon, <1>8, <2>1, Participants
<1>13. ASSUME NEW q \in Procs PROVE ChunkOK(q)' /\ LogOK(q)'
  BY Zenon, <1>2, <1>4, <1>6, <1>12, ChunkFrame, LogFrame
<1>14. ASSUME NEW j \in Inodes \ {i} PROVE BytesOK(j)' /\ DiskOK(j)'
  <2>1. Undisturbed(j)
    <3>1. ASSUME lock[j] # Nil PROVE off'[FileOf[lock[j]]] = off[FileOf[lock[j]]]
      <4>1. lock[j] \in Procs
        BY Zenon, <1>1, <3>1 DEF ContentTypeOK
      <4>2. loc[lock[j]].pc = "copy"
        BY Zenon, <1>1, <3>1 DEF LockInv
      <4> QED BY Zenon, <1>12, <4>1, <4>2
    <3> QED BY Zenon, <1>2, <3>1 DEF Undisturbed
  <2> QED BY Zenon, <1>5, <1>6, <1>9, <2>1, BytesFrame, DiskFrame
<1>15. BytesOK(i)' /\ DiskOK(i)'
  <2>1. 0 .. 0 - 1 = {} /\ 0 <= MAXFILE * BSIZE
    BY Participants
  <2>2. Copied(i)' = {}
    BY Zenon, <1>2 DEF Copied
  <2> QED BY Zenon, <1>6, <1>7, <1>9, <2>1, <2>2 DEF BytesOK, DiskOK
<1> QED BY Zenon, <1>5, <1>10, <1>11, <1>13, <1>14, <1>15 DEF ContentInv

LEMMA NextInv ==
  ASSUME ContentInv, [Next]_vars
  PROVE  ContentInv'
<1>1. CASE Next
  BY Zenon, <1>1, FileWriteInv, FileReadInv, ChunkStepInv, CopyBlockInv, ChunkDoneInv, EndOpInv, ItruncInv DEF Next
<1>2. CASE UNCHANGED vars
  BY Zenon, <1>2, StutterInv DEF vars
<1> QED BY Zenon, <1>1, <1>2


-----------------------------------------------------------------------------
(* The theorems *)

LEMMA ContentInvariant == Spec => []ContentInv
<1>1. Init => ContentInv
  BY Zenon, InitInv
<1>2. ContentInv /\ [Next]_vars => ContentInv'
  BY Zenon, NextInv
<1> QED BY <1>1, <1>2, PTL DEF Spec

\* For every number of blocks, files and processes: balloc(), bmap() and itrunc()
\* keep the bitmap equal to the blocks the inodes point to, each in one place.
THEOREM BlocksHaveOneOwner == Spec => []BlocksOwned
<1>1. ContentInv => BlocksOwned
  <2> SUFFICES ASSUME ContentInv PROVE BlocksOwned
    BY Zenon
  <2>1. Owned(fs) /\ Typed(fs) /\ fs \in FS
    BY Zenon DEF ContentInv, ContentTypeOK, Typed
  <2>2. \A i, k : BlockAt(i, k) = Place(fs, i, k)
    BY Zenon DEF BlockAt, Place, Entry
  <2>3. \A x \in Places : x[1] \in Inodes /\ x[2] \in Spots /\ x = <<x[1], x[2]>>
    BY DEF Places, Spots
  <2>4. \A i \in Inodes, k \in Spots : <<i, k>> \in Places /\ <<i, k>>[1] = i /\ <<i, k>>[2] = k
    BY DEF Places, Spots
  <2>5. ASSUME NEW b \in fs.used PROVE b \in {BlockAt(x[1], x[2]) : x \in Places} \ {Nil}
    <3>1. PICK i \in Inodes, k \in Spots : Place(fs, i, k) = b
      BY Zenon, <2>1 DEF Owned
    <3>2. b # Nil
      BY Zenon, <2>1, TypedFields, BlockFacts
    <3>3. PICK x \in Places : x[1] = i /\ x[2] = k
      BY Zenon, <2>4
    <3> QED BY Zenon, <2>2, <3>1, <3>2, <3>3
  <2>6. ASSUME NEW b \in {BlockAt(x[1], x[2]) : x \in Places} \ {Nil} PROVE b \in fs.used
    <3>1. PICK x \in Places : b = BlockAt(x[1], x[2])
      BY Zenon
    <3>2. b # Nil /\ x[1] \in Inodes /\ x[2] \in Spots /\ b = Place(fs, x[1], x[2])
      BY Zenon, <2>2, <2>3, <3>1
    <3>3. \A i \in Inodes, k \in Spots : Place(fs, i, k) # Nil => Place(fs, i, k) \in fs.used
      BY Zenon, <2>1 DEF Owned
    <3> QED BY Zenon, <3>2, <3>3
  <2>7. ASSUME NEW x \in Places, NEW y \in Places, BlockAt(x[1], x[2]) = BlockAt(y[1], y[2]), x # y,
               BlockAt(x[1], x[2]) # Nil
        PROVE  FALSE
    <3>1. x[1] \in Inodes /\ x[2] \in Spots /\ y[1] \in Inodes /\ y[2] \in Spots
      BY Zenon, <2>3
    <3>2. Place(fs, x[1], x[2]) = Place(fs, y[1], y[2]) /\ Place(fs, x[1], x[2]) # Nil
      BY Zenon, <2>2, <2>7
    <3>3. \A i, j \in Inodes, k, l \in Spots :
            Place(fs, i, k) = Place(fs, j, l) /\ Place(fs, i, k) # Nil => i = j /\ k = l
      BY <2>1 DEF Owned
    <3>4. x[1] = y[1] /\ x[2] = y[2]
      BY <3>1, <3>2, <3>3
    <3>5. x = <<x[1], x[2]>> /\ y = <<y[1], y[2]>>
      BY Zenon, <2>3
    <3> QED BY Zenon, <2>7, <3>4, <3>5
  <2>8. fs.used = {BlockAt(x[1], x[2]) : x \in Places} \ {Nil}
    BY Zenon, <2>5, <2>6
  <2> QED BY Zenon, <2>7, <2>8 DEF BlocksOwned
<1> QED BY <1>1, ContentInvariant, PTL

\* When no writei() is under way a file reads as it was written, through direct
\* and indirect blocks and blocks that other files have used, and the inode on
\* disk is the one in memory.
THEOREM FilesReadBack == Spec => []ReadsBack
<1>1. ContentInv => ReadsBack
  <2> SUFFICES ASSUME ContentInv, NEW i \in Inodes, lock[i] = Nil
               PROVE  /\ fs.dsize[i] = fs.size[i] /\ fs.daddrs[i] = fs.addrs[i]
                      /\ fs.size[i] = Len(written[i])
                      /\ \A k \in 1 .. Len(written[i]) :
                           LET b == Addr(fs, i, (k - 1) \div BSIZE)
                           IN b # Nil /\ fs.data[b][(k - 1) % BSIZE] = written[i][k]
    BY Zenon DEF ReadsBack, Quiet
  <2>1. BytesOK(i) /\ DiskOK(i) /\ Copied(i) = {} /\ fs.size[i] \in Nat
    BY Zenon, CopiedFacts DEF ContentInv, Copied
  <2>2. fs.dsize[i] = fs.size[i] /\ fs.daddrs[i] = fs.addrs[i] /\ fs.size[i] = Len(written[i])
    BY Zenon, <2>1 DEF BytesOK, DiskOK
  <2>3. ASSUME NEW k \in 1 .. Len(written[i])
        PROVE  /\ Addr(fs, i, (k - 1) \div BSIZE) # Nil
               /\ fs.data[Addr(fs, i, (k - 1) \div BSIZE)][(k - 1) % BSIZE] = written[i][k]
    <3>1. PICK x : x = k - 1
      BY Zenon
    <3>2. x \in 0 .. fs.size[i] - 1 /\ x + 1 = k
      BY <2>1, <2>2, <3>1
    <3>3. x \in Offsets /\ Has(fs, i, x) /\ Byte(fs, i, x) = written[i][k]
      BY Zenon, <2>1, <3>2, CopiedFacts DEF BytesOK
    <3>4. PICK bn : bn = x \div BSIZE
      BY Zenon
    <3>5. bn \in 0 .. MAXFILE - 1 /\ Place(fs, i, Spot(bn)) # Nil
      BY Zenon, <3>3, <3>4, OffsetFacts DEF Has
    <3>6. bn < NDIRECT \/ bn >= NDIRECT
      BY <3>5, Constants
    <3>7. Addr(fs, i, bn) = Place(fs, i, Spot(bn))
      BY Zenon, <3>5, <3>6, AddrIsPlace
    <3> QED BY Zenon, <3>1, <3>3, <3>4, <3>5, <3>7 DEF Byte
  <2> QED BY Zenon, <2>2, <2>3
<1> QED BY <1>1, ContentInvariant, PTL

\* The chunk size of filewrite() is right for every MAXOPBLOCKS: a transaction
\* logs no more blocks than begin_op() has reserved for it.
THEOREM ChunksFit == Spec => []ChunkFits
<1>1. ContentInv => ChunkFits
  <2> SUFFICES ASSUME ContentInv, NEW p \in Procs PROVE Cardinality(fs.logged[p]) <= MAXOPBLOCKS
    BY Zenon DEF ChunkFits
  <2>1. loc[p].pc \in {"user", "chunk", "copy", "end"} /\ LogOK(p) /\ MAXOPBLOCKS \in Nat
    BY Zenon, LocFields, Constants DEF ContentInv, Labels
  <2>2. CASE loc[p].pc \in {"user", "chunk"}
    <3>1. Cardinality(fs.logged[p]) = 0
      BY Zenon, <2>1, <2>2, FS_EmptySet DEF LogOK
    <3> QED BY <2>1, <3>1
  <2>3. CASE loc[p].pc = "copy"
    <3>1. Cardinality(fs.logged[p]) \in Nat /\ Cardinality(fs.logged[p]) <= MAXOPBLOCKS - 1
      BY Zenon, <2>3, LogBound
    <3> QED BY <2>1, <3>1
  <2>4. CASE loc[p].pc = "end"
    BY Zenon, <2>1, <2>4 DEF LogOK
  <2> QED BY Zenon, <2>1, <2>2, <2>3, <2>4
<1> QED BY <1>1, ContentInvariant, PTL


-----------------------------------------------------------------------------
(* Writing through one open file *)

LEMMA Prefix ==
  ASSUME NEW w \in Seq(Nat), NEW v \in Seq(Nat), Len(w) <= Len(v), \A k \in 1 .. Len(w) : v[k] = w[k]
  PROVE  Continues(w, v)
BY Zenon DEF Continues

\* No inode is open twice.
OpenOnce == \A f, g \in Files : InodeOf[f] = InodeOf[g] => f = g

\* The offset of an open file is at its end.
AtEnd == \A f \in Files : off[f] = fs.size[InodeOf[f]]

LEMMA AtEndStep ==
  ASSUME OpenOnce, ContentInv, AtEnd, [Next]_vars
  PROVE  AtEnd'
<1>1. ContentTypeOK /\ fs \in FS /\ Typed(fs) /\ Owned(fs)
  BY Zenon DEF ContentInv, ContentTypeOK, Typed
<1>2. off \in [Files -> Nat] /\ fs.size \in [Inodes -> Nat] /\ \A f \in Files : InodeOf[f] \in Inodes
  BY Zenon, <1>1, TypedFields, ContentAssumption DEF ContentTypeOK, Files
<1>3. ASSUME fs'.size = fs.size, off' = off PROVE AtEnd'
  BY Zenon, <1>3 DEF AtEnd
<1>4. ASSUME NEW p \in Procs, NEW n \in Sizes, NEW byte \in Bytes, FileWrite(p, n, byte) PROVE AtEnd'
  BY Zenon, <1>3, <1>4 DEF FileWrite
<1>5. ASSUME NEW p \in Procs, NEW n \in Sizes, FileRead(p, n) PROVE AtEnd'
  <2>1. n \in Nat /\ FileOf[p] \in Files /\ Ino(p) = InodeOf[FileOf[p]]
    BY Zenon, ContentAssumption, Participants
  <2>2. off[FileOf[p]] = fs.size[Ino(p)] /\ off[FileOf[p]] \in Nat
    BY Zenon, <1>2, <2>1 DEF AtEnd
  <2>3. PICK o : o = off[FileOf[p]]
    BY Zenon
  <2>4. o \in Nat /\ o + n \in Nat /\ (o + n <= o => o + n = o)
    BY <2>1, <2>2, <2>3
  <2>5. Min({o + n, o}) = o
    BY Zenon, <2>4, LesserOfTwo
  <2>6. off' = [off EXCEPT ![FileOf[p]] = off[FileOf[p]]] /\ fs' = fs
    BY Zenon, <1>5, <2>2, <2>3, <2>5 DEF FileRead
  <2>7. off' = off
    BY Zenon, <1>2, <2>6
  <2> QED BY Zenon, <1>3, <2>6, <2>7
<1>6. ASSUME NEW p \in Procs, Chunk(p) PROVE AtEnd'
  BY Zenon, <1>3, <1>6 DEF Chunk
<1>7. ASSUME NEW p \in Procs, CopyBlock(p) PROVE AtEnd'
  <2>1. fs'.size = fs.size
    BY Zenon, <1>7, CopyBlockInv
  <2>2. off' = off
    BY Zenon, <1>7 DEF CopyBlock
  <2> QED BY Zenon, <1>3, <2>1, <2>2
<1>8. ASSUME NEW p \in Procs, ChunkDone(p) PROVE AtEnd'
  <2>1. FileOf[p] \in Files /\ Ino(p) = InodeOf[FileOf[p]] /\ Ino(p) \in Inodes
    BY Zenon, Participants
  <2>2. /\ loc[p].n \in Nat /\ loc[p].tot \in Nat /\ Start(p) \in Nat /\ Here(p) \in Nat /\ Here(p) = Start(p) + loc[p].tot
    BY Zenon, <1>1, LocFields DEF Here
  <2>3. loc[p].pc = "copy" /\ loc[p].tot = loc[p].n /\ off[FileOf[p]] + loc[p].n = Here(p)
    BY Zenon, <1>8, <2>2 DEF ChunkDone, Start
  <2>4. fs' = Grown(fs, p, Ino(p), Here(p)) /\ off' = [off EXCEPT ![FileOf[p]] = Here(p)]
    BY Zenon, <1>8, <2>3 DEF ChunkDone, Advance
  <2>5. /\ fs'.size[Ino(p)] = IF Here(p) > fs.size[Ino(p)] THEN Here(p) ELSE fs.size[Ino(p)]
        /\ \A j \in Inodes \ {Ino(p)} : fs'.size[j] = fs.size[j]
    BY Zenon, <2>3, <2>4, ChunkGrown
  <2>6. Start(p) = fs.size[Ino(p)]
    BY Zenon, <2>1 DEF AtEnd, Start
  <2>7. fs'.size[Ino(p)] = Here(p)
    BY <2>2, <2>5, <2>6
  <2>8. ASSUME NEW f \in Files PROVE off'[f] = fs'.size[InodeOf[f]]
    <3>1. CASE f = FileOf[p]
      BY Zenon, <1>2, <2>1, <2>4, <2>7, <3>1
    <3>2. CASE f # FileOf[p]
      <4>1. InodeOf[f] \in Inodes \ {Ino(p)}
        BY Zenon, <1>2, <2>1, <3>2 DEF OpenOnce
      <4> QED BY Zenon, <1>2, <2>1, <2>4, <2>5, <3>2, <4>1 DEF AtEnd
    <3> QED BY Zenon, <3>1, <3>2
  <2> QED BY Zenon, <2>8 DEF AtEnd
<1>9. ASSUME NEW p \in Procs, EndOp(p) PROVE AtEnd'
  <2>1. fs' = [fs EXCEPT !.logged[p] = {}] /\ off' = off
    BY Zenon, <1>9 DEF EndOp
  <2>2. fs'.size = fs.size
    BY Zenon, <1>1, <2>1 DEF FS
  <2> QED BY Zenon, <1>3, <2>1, <2>2
<1>10. ASSUME NEW i \in Inodes, Itrunc(i) PROVE AtEnd'
  <2>1. Truncated(fs, i) \subseteq fs.used
    BY Zenon, <1>1, TruncatedPlaces
  <2>2. fs' = Truncation(fs, i) /\ off' = [f \in Files |-> IF InodeOf[f] = i THEN 0 ELSE off[f]]
    BY Zenon, <1>10, <2>1 DEF Itrunc, Truncation
  <2>3. fs'.size = [fs.size EXCEPT ![i] = 0]
    BY Zenon, <1>1, <2>2, TruncationFields
  <2>4. ASSUME NEW f \in Files PROVE off'[f] = fs'.size[InodeOf[f]]
    <3>1. CASE InodeOf[f] = i
      BY Zenon, <1>2, <2>2, <2>3, <3>1
    <3>2. CASE InodeOf[f] # i
      BY Zenon, <1>2, <2>2, <2>3, <3>2 DEF AtEnd
    <3> QED BY Zenon, <3>1, <3>2
  <2> QED BY Zenon, <2>4 DEF AtEnd
<1>11. CASE UNCHANGED vars
  BY Zenon, <1>3, <1>11 DEF vars
<1> QED BY Zenon, <1>4, <1>5, <1>6, <1>7, <1>8, <1>9, <1>10, <1>11 DEF Next


\* A chunk that starts at the end of the file leaves what was written before it.
LEMMA ChunkAppends ==
  ASSUME ContentInv, AtEnd, NEW p \in Procs, ChunkDone(p), NEW i \in Inodes
  PROVE  Continues(written[i], written'[i])
<1>1. ContentTypeOK /\ BytesOK(i) /\ written \in [Inodes -> Seq(Nat)]
  BY Zenon DEF ContentInv, ContentTypeOK
<1>2. PICK w : w = written[i]
  BY Zenon
<1>3. w \in Seq(Nat) /\ fs.size[i] = Len(w)
  BY Zenon, <1>1, <1>2 DEF BytesOK
<1>4. CASE i # Ino(p)
  <2>1. written'[i] = w
    BY Zenon, <1>1, <1>2, <1>4 DEF ChunkDone
  <2>2. Len(w) <= Len(w) /\ \A k \in 1 .. Len(w) : w[k] = w[k]
    BY <1>3
  <2>3. Continues(w, w)
    BY Zenon, <1>3, <2>2, Prefix
  <2> QED BY Zenon, <1>2, <2>1, <2>3
<1>5. CASE i = Ino(p)
  <2>1. PICK o, end, byte : o = off[FileOf[p]] /\ end = off[FileOf[p]] + loc[p].n /\ byte = loc[p].byte
    BY Zenon
  <2>2. /\ loc[p].n \in Nat /\ byte \in Nat /\ o \in Nat
    BY Zenon, <1>1, <2>1, LocFields DEF Start
  <2>3. end \in Nat /\ o <= end
    BY <2>1, <2>2
  <2>4. o = Len(w)
    BY Zenon, <1>3, <1>5, <2>1, Participants DEF AtEnd
  <2>5. o <= Len(w)
    BY <2>2, <2>4
  <2>6. written' = [written EXCEPT ![i] = Overlay(written[i], o, end, byte)]
    BY Zenon, <1>5, <2>1 DEF ChunkDone, Overlay
  <2>7. PICK v : v = Overlay(w, o, end, byte)
    BY Zenon
  <2>8. written'[i] = v
    BY Zenon, <1>1, <1>2, <2>6, <2>7
  <2>9. Overlays(Overlay(w, o, end, byte), w, o, end, byte)
    BY Zenon, <1>3, <2>2, <2>3, <2>5, OverlayFacts
  <2>10. Overlays(v, w, o, end, byte)
    BY Zenon, <2>7, <2>9
  <2>11. v \in Seq(Nat) /\ Len(w) <= Len(v)
    <3>1. v \in Seq(Nat) /\ Len(v) = IF end > Len(w) THEN end ELSE Len(w)
      BY Zenon, <2>10 DEF Overlays
    <3> QED BY <1>3, <2>3, <3>1
  <2>12. ASSUME NEW k \in 1 .. Len(w) PROVE v[k] = w[k]
    <3>1. PICK x : x = k - 1
      BY Zenon
    <3>2. x \in Nat /\ x < Len(w) /\ x + 1 = k /\ x \notin o .. end - 1
      BY SMTT(30), <1>3, <2>2, <2>3, <2>4, <3>1
    <3>3. v[x + 1] = w[x + 1]
      BY Zenon, <2>10, <3>2 DEF Overlays
    <3> QED BY Zenon, <3>2, <3>3
  <2>13. Continues(w, v)
    BY Zenon, <1>3, <2>11, <2>12, Prefix
  <2> QED BY Zenon, <1>2, <2>8, <2>13
<1> QED BY Zenon, <1>4, <1>5

\* If every inode is open once, by whatever number of processes, filewrite()
\* appends: no chunk overwrites what another has written.
THEOREM WritesAppend == ASSUME OpenOnce PROVE Spec => AppendsOnly
<1>1. Init => AtEnd
  <2> SUFFICES ASSUME Init, NEW f \in Files PROVE off[f] = fs.size[InodeOf[f]]
    BY Zenon DEF AtEnd
  <2>1. InodeOf[f] \in Inodes /\ fs.size = [i \in Inodes |-> 0] /\ off = [g \in Files |-> 0]
    BY Zenon, ContentAssumption DEF Files, Init
  <2> QED BY Zenon, <2>1
<1>2. ContentInv /\ AtEnd /\ [Next]_vars => AtEnd'
  BY Zenon, AtEndStep
<1>3. ContentInv /\ AtEnd /\ [Next]_vars =>
        [\A i \in Inodes : Continues(written[i], written'[i]) \/ written'[i] = <<>>]_vars
  <2> SUFFICES ASSUME ContentInv, AtEnd, Next, NEW i \in Inodes
               PROVE  Continues(written[i], written'[i]) \/ written'[i] = <<>>
    BY Zenon
  <2>1. written \in [Inodes -> Seq(Nat)] /\ written[i] \in Seq(Nat)
    BY Zenon DEF ContentInv, ContentTypeOK
  <2>2. ASSUME written' = written PROVE Continues(written[i], written'[i])
    <3>1. PICK w : w = written[i]
      BY Zenon
    <3>2. w \in Seq(Nat) /\ Len(w) <= Len(w) /\ \A k \in 1 .. Len(w) : w[k] = w[k]
      BY <2>1, <3>1
    <3>3. Continues(w, w)
      BY Zenon, <3>2, Prefix
    <3> QED BY Zenon, <2>2, <3>1, <3>3
  <2>3. ASSUME NEW p \in Procs, ChunkDone(p) PROVE Continues(written[i], written'[i])
    BY Zenon, <2>3, ChunkAppends
  <2>4. ASSUME NEW j \in Inodes, Itrunc(j) PROVE Continues(written[i], written'[i]) \/ written'[i] = <<>>
    <3>1. written' = [written EXCEPT ![j] = <<>>]
      BY Zenon, <2>4 DEF Itrunc
    <3>2. CASE i = j
      BY Zenon, <2>1, <3>1, <3>2
    <3>3. CASE i # j
      <4>1. PICK w : w = written[i]
        BY Zenon
      <4>2. w \in Seq(Nat) /\ Len(w) <= Len(w) /\ \A k \in 1 .. Len(w) : w[k] = w[k]
        BY <2>1, <4>1
      <4>3. Continues(w, w) /\ written'[i] = w
        BY ZenonT(30), <2>1, <3>1, <3>3, <4>1, <4>2, Prefix
      <4> QED BY Zenon, <4>1, <4>3
    <3> QED BY Zenon, <3>2, <3>3
  <2>5. ASSUME NEW p \in Procs,
               \/ \E n \in Sizes, byte \in Bytes : FileWrite(p, n, byte)
               \/ \E n \in Sizes : FileRead(p, n)
               \/ Chunk(p) \/ CopyBlock(p) \/ EndOp(p)
        PROVE  written' = written
    BY Zenon, <2>5 DEF FileWrite, FileRead, Chunk, CopyBlock, EndOp
  <2> QED BY Zenon, <2>2, <2>3, <2>4, <2>5 DEF Next
<1> QED BY <1>1, <1>2, <1>3, ContentInvariant, PTL DEF Spec, AppendsOnly

=============================================================================
