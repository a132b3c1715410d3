-------------------------- MODULE FileTableProofs ---------------------------
(***************************************************************************)
(* Every action of FileTable preserves the invariant of FileRefs: the      *)
(* reference counts of files and inodes are exact, and every open end of a *)
(* pipe has one owner.                                                     *)
(***************************************************************************)
EXTENDS FileRefs, TLAPS

-----------------------------------------------------------------------------
(* The owners of the objects *)

\* The directories and calls that refer to an inode.
Calls(i) == Cardinality(Cwds(i)) + Cardinality(Targets(i))

OwnType == ends \in [Pipes -> SUBSET BOOLEAN] /\ iref \in [Inodes -> Int]

OwnInv ==
  /\ OwnType
  /\ \A b \in Pipes, w \in BOOLEAN : Count(PipeEnd(b, w)) = IF w \in ends[b] THEN 1 ELSE 0
  /\ \A i \in Inodes : iref[i] = Count(Inode(i)) + Calls(i)

LEMMA OwnFacts ==
  /\ Inv => OwnInv
  /\ OwnInv' => OwnType' /\ PipeEndsOwned' /\ InodeRefs'
<1>1. ASSUME Inv PROVE OwnInv
  <2>1. OwnType /\ PipeEndsOwned /\ InodeRefs
    BY Zenon, <1>1 DEF Inv, TypeOK, OwnType
  <2>2. \A i \in Inodes : Cardinality(Using(Inode(i))) \in Nat /\ Cardinality(Pending(Inode(i))) \in Nat
                          /\ Cardinality(Cwds(i)) \in Nat /\ Cardinality(Targets(i)) \in Nat
    BY Zenon, Sizes
  <2>3. \A i \in Inodes :
          iref[i] = Cardinality(Using(Inode(i))) + Cardinality(Pending(Inode(i)))
                    + Cardinality(Cwds(i)) + Cardinality(Targets(i))
    BY Zenon, <2>1 DEF InodeRefs, Cwds, Targets
  <2>4. \A i \in Inodes : iref[i] = Count(Inode(i)) + Calls(i)
    BY <2>2, <2>3 DEF Count, Calls
  <2>5. \A b \in Pipes, w \in BOOLEAN : Count(PipeEnd(b, w)) = IF w \in ends[b] THEN 1 ELSE 0
    BY Zenon, <2>1 DEF PipeEndsOwned, Count
  <2> QED BY Zenon, <2>1, <2>4, <2>5 DEF OwnInv
<1>2. ASSUME OwnInv' PROVE OwnType' /\ PipeEndsOwned' /\ InodeRefs'
  <2>1. OwnType' /\ PipeEndsOwned'
    BY Zenon, <1>2 DEF OwnInv, PipeEndsOwned, Count
  <2>2. ASSUME NEW i \in Inodes
        PROVE  iref'[i] = Cardinality(Using(Inode(i))') + Cardinality(Pending(Inode(i))')
                          + Cardinality(Cwds(i)') + Cardinality(Targets(i)')
    <3>1. /\ Cardinality(Using(Inode(i))') \in Nat /\ Cardinality(Pending(Inode(i))') \in Nat
          /\ Cardinality(Cwds(i)') \in Nat /\ Cardinality(Targets(i)') \in Nat
      <4>1. Using(Inode(i))' \in SUBSET Files /\ Pending(Inode(i))' \in SUBSET Procs
        BY Zenon DEF Using, Pending
      <4>2. Cwds(i)' \in SUBSET Procs /\ Targets(i)' \in SUBSET Procs
        BY Zenon DEF Cwds, Targets
      <4> QED BY Zenon, <4>1, <4>2, Finite
    <3>2. iref'[i] = (Cardinality(Using(Inode(i))') + Cardinality(Pending(Inode(i))'))
                     + (Cardinality(Cwds(i)') + Cardinality(Targets(i)'))
      BY Zenon, <1>2 DEF OwnInv, Count, Calls
    <3> QED BY <3>1, <3>2
  <2>3. InodeRefs'
    BY Zenon, <2>2 DEF InodeRefs, Cwds, Targets
  <2> QED BY Zenon, <2>1, <2>3
<1> QED BY Zenon, <1>1, <1>2

\* One process joins a set, or leaves it.
LEMMA MoveCount ==
  ASSUME NEW A, NEW B, A \subseteq Procs, B \subseteq Procs, NEW p \in Procs,
         \A q \in Procs \ {p} : q \in A <=> q \in B
  PROVE  /\ Cardinality(A) \in Nat /\ Cardinality(B) \in Nat
         /\ Cardinality(B) = Cardinality(A) + (IF p \in B THEN 1 ELSE 0) - (IF p \in A THEN 1 ELSE 0)
<1>1. IsFiniteSet(A) /\ Cardinality(A) \in Nat /\ IsFiniteSet(B) /\ Cardinality(B) \in Nat
  BY Zenon, Finite
<1>2. CASE p \in A <=> p \in B
  <2>1. A = B
    BY <1>2
  <2> QED BY <1>1, <2>1
<1>3. CASE p \in B /\ p \notin A
  <2>1. B = A \cup {p}
    BY Zenon, <1>3
  <2>2. Cardinality(B) = Cardinality(A) + 1
    BY Zenon, <1>1, <1>3, <2>1, CardPlus
  <2> QED BY <1>1, <1>3, <2>2
<1>4. CASE p \notin B /\ p \in A
  <2>1. B = A \ {p}
    BY Zenon, <1>4
  <2>2. Cardinality(B) = Cardinality(A) - 1
    BY Zenon, <1>1, <1>4, <2>1, CardMinus
  <2> QED BY <1>1, <1>4, <2>2
<1> QED BY Zenon, <1>2, <1>3, <1>4

LEMMA CwdMove ==
  ASSUME NEW p \in Procs, \A q \in Procs \ {p} : cwd'[q] = cwd[q], NEW i
  PROVE  /\ Cardinality(Cwds(i)) \in Nat /\ Cardinality(Cwds(i)') \in Nat
         /\ Cardinality(Cwds(i)') =
              Cardinality(Cwds(i)) + (IF cwd'[p] = i THEN 1 ELSE 0) - (IF cwd[p] = i THEN 1 ELSE 0)
<1>1. /\ Cwds(i) \subseteq Procs /\ Cwds(i)' \subseteq Procs
      /\ \A q \in Procs \ {p} : q \in Cwds(i) <=> q \in Cwds(i)'
      /\ p \in Cwds(i) <=> cwd[p] = i
      /\ p \in Cwds(i)' <=> cwd'[p] = i
  BY Zenon DEF Cwds
<1>2. /\ Cardinality(Cwds(i)) \in Nat /\ Cardinality(Cwds(i)') \in Nat
      /\ Cardinality(Cwds(i)') =
           Cardinality(Cwds(i)) + (IF p \in Cwds(i)' THEN 1 ELSE 0) - (IF p \in Cwds(i) THEN 1 ELSE 0)
  BY Zenon, <1>1, MoveCount
<1> QED BY Zenon, <1>1, <1>2

LEMMA TargetMove ==
  ASSUME NEW p \in Procs, \A q \in Procs \ {p} : target'[q] = target[q], NEW i
  PROVE  /\ Cardinality(Targets(i)) \in Nat /\ Cardinality(Targets(i)') \in Nat
         /\ Cardinality(Targets(i)') =
              Cardinality(Targets(i)) + (IF target'[p] = i THEN 1 ELSE 0) - (IF target[p] = i THEN 1 ELSE 0)
<1>1. /\ Targets(i) \subseteq Procs /\ Targets(i)' \subseteq Procs
      /\ \A q \in Procs \ {p} : q \in Targets(i) <=> q \in Targets(i)'
      /\ p \in Targets(i) <=> target[p] = i
      /\ p \in Targets(i)' <=> target'[p] = i
  BY DEF Targets
<1>2. /\ Cardinality(Targets(i)) \in Nat /\ Cardinality(Targets(i)') \in Nat
      /\ Cardinality(Targets(i)') =
           Cardinality(Targets(i)) + (IF p \in Targets(i)' THEN 1 ELSE 0) - (IF p \in Targets(i) THEN 1 ELSE 0)
  BY Zenon, <1>1, MoveCount
<1> QED BY <1>1, <1>2

\* The owners of every object stay as many as they were.
LEMMA OwnKept ==
  ASSUME OwnInv, UNCHANGED <<ends, iref>>, \A o \in Objects \ {None} : Count(o)' = Count(o),
         \A i \in Inodes : Calls(i)' = Calls(i)
  PROVE  OwnInv'
<1>1. OwnType'
  BY Zenon DEF OwnInv, OwnType
<1>2. /\ \A b \in Pipes, w \in BOOLEAN : Count(PipeEnd(b, w))' = Count(PipeEnd(b, w))
      /\ \A i \in Inodes : Count(Inode(i))' = Count(Inode(i))
  BY Zenon, ObjectFacts
<1> QED BY Zenon, <1>1, <1>2 DEF OwnInv

LEMMA CallsKept ==
  ASSUME UNCHANGED <<cwd, target>>
  PROVE  \A i \in Inodes : Calls(i)' = Calls(i)
BY Zenon DEF Calls, Cwds, Targets

\* A step that changes what refers to the inodes, and no pipe.
LEMMA OwnMoved ==
  ASSUME OwnInv, UNCHANGED ends, iref' \in [Inodes -> Int],
         \A b \in Pipes, w \in BOOLEAN : Count(PipeEnd(b, w))' = Count(PipeEnd(b, w)),
         \A i \in Inodes : iref'[i] = Count(Inode(i))' + Calls(i)'
  PROVE  OwnInv'
<1>1. OwnType'
  BY Zenon DEF OwnInv, OwnType
<1> QED BY Zenon, <1>1 DEF OwnInv

-----------------------------------------------------------------------------
(* Steps that leave the owners of the objects as they are *)

LEMMA DupStep ==
  ASSUME Inv, NEW p \in Procs, NEW fd \in Fds, SysDup(p, fd)
  PROVE  RefInv' /\ OwnInv'
<1>0. TypeOK /\ RefInv /\ CallType /\ OwnInv
  BY Zenon, InvType, OwnFacts DEF Inv
<1> PICK f, d : f = ofile[p][fd] /\ d = First(Closed(p))
  BY Zenon
<1>1. d \in Fds /\ ofile[p][d] = Null
  <2>1. First(Closed(p)) \in Closed(p)
    BY Zenon, <1>0, FirstOpen DEF SysDup
  <2> QED BY Zenon, <2>1 DEF Closed, Open
<1>2. f \in Files /\ Descriptors(f) # {}
  <2>1. f \in Files /\ <<p, fd>> \in Procs \X Fds
    BY <1>0 DEF SysDup, Open, RefInv, FileType
  <2> QED BY <2>1 DEF Descriptors
<1>3. /\ FileDup(f) /\ ofile' = [ofile EXCEPT ![p][d] = f]
      /\ UNCHANGED <<hand, pc, obj, put, cwd, target, ends, iref>>
  BY Zenon DEF SysDup
<1>4. RefInv' /\ \A o : Count(o)' = Count(o)
  BY Zenon, <1>0, <1>1, <1>2, <1>3, DupSlot
<1> QED BY Zenon, <1>0, <1>3, <1>4, OwnKept, CallsKept

LEMMA ForkDupStep ==
  ASSUME Inv, NEW p \in Procs, ForkDup(p)
  PROVE  RefInv' /\ OwnInv'
<1>0. TypeOK /\ RefInv /\ CallType /\ OwnInv
  BY Zenon, InvType, OwnFacts DEF Inv
<1> PICK q, d : q = target[p] /\ d = First(Missing(p))
  BY Zenon
<1> PICK f : f = ofile[p][d]
  BY Zenon
<1>1. q \in Procs
  BY Zenon DEF Inv, ForkInv, ForkDup, Ready
<1>2. d \in Missing(p)
  <2>1. Missing(p) \subseteq Nat /\ Missing(p) # {}
    BY FileAssumption DEF ForkDup, Missing, Open, Fds
  <2> QED BY Zenon, <2>1, LeastFirst
<1>3. d \in Fds /\ ofile[p][d] # Null /\ ofile[q][d] = Null
  BY Zenon, <1>2 DEF Missing, Open
<1>4. f \in Files /\ Descriptors(f) # {}
  <2>1. f \in Files /\ <<p, d>> \in Procs \X Fds
    BY <1>0, <1>3 DEF RefInv, FileType
  <2> QED BY <2>1 DEF Descriptors
<1>5. /\ FileDup(f) /\ ofile' = [ofile EXCEPT ![q][d] = f]
      /\ UNCHANGED <<hand, pc, obj, put, cwd, target, ends, iref>>
  BY Zenon DEF ForkDup
<1>6. RefInv' /\ \A o : Count(o)' = Count(o)
  BY Zenon, <1>0, <1>1, <1>3, <1>4, <1>5, DupSlot
<1> QED BY Zenon, <1>0, <1>5, <1>6, OwnKept, CallsKept

LEMMA CloseStep ==
  ASSUME Inv, NEW p \in Procs, ExitClose(p) \/ \E fd \in Fds : SysClose(p, fd)
  PROVE  RefInv' /\ OwnInv'
<1>0. TypeOK /\ RefInv /\ CallType /\ OwnInv
  BY Zenon, InvType, OwnFacts DEF Inv
<1>1. PICK fd \in Open(p) : FileClose(p, ofile[p][fd]) /\ ofile' = [ofile EXCEPT ![p][fd] = Null]
  BY Zenon, <1>0, FirstOpen DEF ExitClose, SysClose
<1>2. put[p] = <<>> /\ UNCHANGED <<cwd, pc, hand, target, ends, iref>>
  BY Zenon DEF ExitClose, SysClose, Ready
<1>3. RefInv' /\ \A o \in Objects \ {None} : Count(o)' = Count(o)
  BY Zenon, <1>0, <1>1, <1>2, CloseSlot
<1> QED BY Zenon, <1>0, <1>2, <1>3, OwnKept, CallsKept

LEMMA PipeFileStep ==
  ASSUME Inv, NEW p \in Procs, PipeFile(p)
  PROVE  RefInv' /\ OwnInv'
<1>0. TypeOK /\ RefInv /\ CallType /\ OwnInv
  BY InvType, OwnFacts DEF Inv
<1>1. UNCHANGED <<obj, ofile, put, panicked, cwd, target, ends, iref>>
  BY Zenon DEF PipeFile
<1>2. RefInv' /\ \A o \in Objects \ {None} : Count(o)' = Count(o)
  <2>1. CASE FreeFiles = {}
    <3>1. pc' = [pc EXCEPT ![p] = "close"] /\ UNCHANGED <<ref, hand>>
      BY Zenon, <2>1 DEF PipeFile
    <3>2. \A q \in Procs : pc'[q] = "pipe" => pc[q] = "pipe"
      BY Zenon, <1>0, <3>1 DEF CallType
    <3>3. put' \in [Procs -> Puts]
      BY Zenon, <1>0, <1>1 DEF RefInv, FileType
    <3> QED BY Zenon, <1>0, <1>1, <3>1, <3>2, <3>3, FilesKept, CountKeep
  <2>2. CASE FreeFiles # {}
    <3> PICK f : f = First(FreeFiles)
      BY Zenon
    <3>1. f \in Files /\ ref[f] = 0
      BY Zenon, <1>0, <2>2, FirstOpen DEF FreeFiles
    <3>2. /\ ref' = [ref EXCEPT ![f] = 1] /\ hand' = [hand EXCEPT ![p] = Append(@, f)]
          /\ pc' = pc /\ Len(hand[p]) < 2
      BY Zenon, <2>2 DEF PipeFile
    <3> QED BY Zenon, <1>0, <1>1, <3>1, <3>2, AllocHand
  <2> QED BY Zenon, <2>1, <2>2
<1> QED BY Zenon, <1>0, <1>1, <1>2, OwnKept, CallsKept

LEMMA TurnStep ==
  ASSUME Inv, NEW p \in Procs, SysPipe(p) \/ Exit(p) \/ \E q \in Procs : Fork(p, q)
  PROVE  RefInv' /\ OwnInv'
<1>0. TypeOK /\ RefInv /\ CallType /\ OwnInv /\ CallInv
  BY Zenon, InvType, OwnFacts DEF Inv
<1>1. /\ UNCHANGED <<ref, obj, ofile, cwd, hand, put, ends, iref, panicked>>
      /\ pc[p] = "user"
      /\ \/ pc' = [pc EXCEPT ![p] = "pipe"] /\ target' = target
         \/ pc' = [pc EXCEPT ![p] = "exit"] /\ target' = target
         \/ \E q \in Procs :
              pc' = [pc EXCEPT ![p] = "fork", ![q] = "embryo"] /\ target' = [target EXCEPT ![p] = q]
  BY Zenon DEF SysPipe, Exit, Fork, Ready
<1>2. \A x \in Procs : pc'[x] = "pipe" => pc[x] = "pipe" \/ hand[x] = <<>>
  BY Zenon, <1>0, <1>1 DEF CallType, CallInv
<1>3. put' \in [Procs -> Puts]
  BY Zenon, <1>0, <1>1 DEF RefInv, FileType
<1>4. RefInv' /\ \A o \in Objects \ {None} : Count(o)' = Count(o)
  BY Zenon, <1>0, <1>1, <1>2, <1>3, FilesKept, CountKeep
<1>5. \A i \in Inodes, x \in Procs : target'[x] = i <=> target[x] = i
  BY ZenonT(30), <1>0, <1>1, FileAssumption DEF CallType, CallInv
<1>6. \A i \in Inodes : Calls(i)' = Calls(i)
  BY Zenon, <1>1, <1>5 DEF Calls, Cwds, Targets
<1> QED BY Zenon, <1>0, <1>1, <1>4, <1>6, OwnKept

-----------------------------------------------------------------------------
(* Steps that change who owns an inode *)

LEMMA SysOpenStep ==
  ASSUME Inv, NEW p \in Procs, NEW i \in Inodes, SysOpen(p, i)
  PROVE  RefInv' /\ OwnInv'
<1>0. TypeOK /\ RefInv /\ CallType /\ OwnInv /\ CallInv
  BY Zenon, InvType, OwnFacts DEF Inv
<1>1. /\ UNCHANGED <<ref, obj, ofile, cwd, hand, put, ends, panicked>>
      /\ iref' = [iref EXCEPT ![i] = @ + 1]
      /\ pc[p] = "user" /\ pc' = [pc EXCEPT ![p] = "open"] /\ target' = [target EXCEPT ![p] = i]
  BY Zenon DEF SysOpen, Ready
<1>2. /\ \A x \in Procs : pc'[x] = "pipe" => pc[x] = "pipe"
      /\ put' \in [Procs -> Puts]
  BY Zenon, <1>0, <1>1 DEF CallType, RefInv, FileType
<1>3. RefInv' /\ \A o : Count(o)' = Count(o)
  BY Zenon, <1>0, <1>1, <1>2, FilesKept, CountKeep
<1>4. /\ target[p] = Null /\ Null \notin Inodes /\ target'[p] = i
      /\ \A q \in Procs \ {p} : target'[q] = target[q]
  BY Zenon, <1>0, <1>1, FileAssumption DEF CallType, CallInv
<1>5. /\ iref' \in [Inodes -> Int]
      /\ \A j \in Inodes : iref[j] \in Int /\ iref'[j] = iref[j] + (IF i = j THEN 1 ELSE 0)
  BY <1>0, <1>1 DEF OwnInv, OwnType
<1>6. ASSUME NEW j \in Inodes PROVE iref'[j] = Count(Inode(j))' + Calls(j)'
  <2>1. /\ Cardinality(Targets(j)) \in Nat
        /\ Cardinality(Targets(j)') = Cardinality(Targets(j)) + (IF i = j THEN 1 ELSE 0)
    BY <1>4, TargetMove
  <2>2. Cardinality(Cwds(j)) \in Nat /\ Cwds(j)' = Cwds(j)
    BY Zenon, <1>1, Sizes DEF Cwds
  <2>3. iref[j] = Count(Inode(j)) + (Cardinality(Cwds(j)) + Cardinality(Targets(j)))
    BY Zenon, <1>0 DEF OwnInv, Calls
  <2>4. Calls(j)' = Cardinality(Cwds(j)) + Cardinality(Targets(j)')
    BY Zenon, <2>2 DEF Calls
  <2>5. Count(Inode(j)) \in Nat /\ Count(Inode(j))' = Count(Inode(j))
    BY Zenon, <1>3, CountType
  <2> QED BY <1>5, <2>1, <2>2, <2>3, <2>4, <2>5
<1> QED BY Zenon, <1>0, <1>1, <1>3, <1>5, <1>6, OwnMoved

LEMMA CloseHandStep ==
  ASSUME Inv, NEW p \in Procs, CloseHand(p)
  PROVE  RefInv' /\ OwnInv'
<1>0. TypeOK /\ RefInv /\ CallType /\ OwnInv /\ CallInv
  BY Zenon, InvType, OwnFacts DEF Inv
<1>1. UNCHANGED <<ofile, cwd, ends>> /\ put[p] = <<>> /\ pc[p] = "close"
  BY Zenon DEF CloseHand, Ready
<1>2. CASE hand[p] # <<>>
  <2>1. /\ FileClose(p, Head(hand[p])) /\ hand' = [hand EXCEPT ![p] = Tail(@)]
        /\ UNCHANGED <<pc, target, iref>>
    BY Zenon, <1>2 DEF CloseHand
  <2>2. RefInv' /\ \A o \in Objects \ {None} : Count(o)' = Count(o)
    BY Zenon, <1>0, <1>1, <1>2, <2>1, CloseFirst
  <2> QED BY Zenon, <1>0, <1>1, <2>1, <2>2, OwnKept, CallsKept
<1>3. CASE hand[p] = <<>>
  <2>1. /\ UNCHANGED <<ref, obj, hand, put, panicked>> /\ pc' = [pc EXCEPT ![p] = "user"]
        /\ iref' = IF target[p] = Null THEN iref ELSE Iput(target[p])
        /\ target' = [target EXCEPT ![p] = Null]
    BY Zenon, <1>3 DEF CloseHand
  <2>2. /\ \A x \in Procs : pc'[x] = "pipe" => pc[x] = "pipe"
        /\ put' \in [Procs -> Puts]
    BY Zenon, <1>0, <2>1 DEF CallType, RefInv, FileType
  <2>3. RefInv' /\ \A o : Count(o)' = Count(o)
    BY Zenon, <1>0, <1>1, <2>1, <2>2, FilesKept, CountKeep
  <2>4. /\ target[p] \in Inodes \cup {Null} /\ Null \notin Inodes /\ target'[p] = Null
        /\ \A q \in Procs \ {p} : target'[q] = target[q]
    BY Zenon, <1>0, <1>1, <2>1, FileAssumption DEF CallType, CallInv
  <2>5. /\ iref' \in [Inodes -> Int]
        /\ \A j \in Inodes : iref[j] \in Int /\ iref'[j] = iref[j] - (IF target[p] = j THEN 1 ELSE 0)
    BY <1>0, <2>1, <2>4 DEF OwnInv, OwnType, Iput
  <2>6. ASSUME NEW j \in Inodes PROVE iref'[j] = Count(Inode(j))' + Calls(j)'
    <3>1. /\ Cardinality(Targets(j)) \in Nat
          /\ Cardinality(Targets(j)') = Cardinality(Targets(j)) - (IF target[p] = j THEN 1 ELSE 0)
      BY <2>4, TargetMove
    <3>2. Cardinality(Cwds(j)) \in Nat /\ Cwds(j)' = Cwds(j)
      BY Zenon, <1>1, Sizes DEF Cwds
    <3>3. iref[j] = Count(Inode(j)) + (Cardinality(Cwds(j)) + Cardinality(Targets(j)))
      BY Zenon, <1>0 DEF OwnInv, Calls
    <3>4. Calls(j)' = Cardinality(Cwds(j)) + Cardinality(Targets(j)')
      BY Zenon, <3>2 DEF Calls
    <3>5. Count(Inode(j)) \in Nat /\ Count(Inode(j))' = Count(Inode(j))
      BY Zenon, <2>3, CountType
    <3> QED BY <2>5, <3>1, <3>2, <3>3, <3>4, <3>5
  <2> QED BY Zenon, <1>0, <1>1, <2>3, <2>5, <2>6, OwnMoved
<1> QED BY Zenon, <1>2, <1>3

\* Objects are told apart by what they stand for.
LEMMA Distinct ==
  /\ \A i \in Inodes, j \in Inodes : Inode(i) = Inode(j) <=> i = j
  /\ \A b \in Pipes, w \in BOOLEAN, i \in Inodes : PipeEnd(b, w) # Inode(i)
  /\ \A b \in Pipes, w \in BOOLEAN, c \in Pipes, v \in BOOLEAN :
       PipeEnd(b, w) = PipeEnd(c, v) <=> b = c /\ w = v
<1>1. \A i \in Inodes, j \in Inodes : Inode(i) = Inode(j) <=> i = j
  BY Zenon DEF Inode
<1>2. \A b \in Pipes, w \in BOOLEAN, i \in Inodes : PipeEnd(b, w) # Inode(i)
  BY ObjectFacts
<1>3. \A b \in Pipes, w \in BOOLEAN, c \in Pipes, v \in BOOLEAN :
        PipeEnd(b, w) = PipeEnd(c, v) <=> b = c /\ w = v
  BY Zenon DEF PipeEnd
<1> QED BY Zenon, <1>1, <1>2, <1>3

LEMMA OpenFileStep ==
  ASSUME Inv, NEW p \in Procs, OpenFile(p)
  PROVE  RefInv' /\ OwnInv'
<1>0. TypeOK /\ RefInv /\ CallType /\ OwnInv /\ CallInv
  BY InvType, OwnFacts DEF Inv
<1>1. UNCHANGED <<cwd, put, ends, iref, panicked>> /\ pc[p] = "open"
  BY Zenon DEF OpenFile, Ready
<1>2. hand[p] = <<>> /\ target[p] \in Inodes
  BY Zenon, <1>0, <1>1 DEF CallInv
<1>3. CASE FreeFiles = {}
  <2>1. UNCHANGED <<ref, obj, ofile, hand, target>> /\ pc' = [pc EXCEPT ![p] = "close"]
    BY Zenon, <1>3 DEF OpenFile
  <2>2. /\ \A x \in Procs : pc'[x] = "pipe" => pc[x] = "pipe"
        /\ put' \in [Procs -> Puts]
    BY Zenon, <1>0, <1>1, <2>1 DEF CallType, RefInv, FileType
  <2>3. RefInv' /\ \A o : Count(o)' = Count(o)
    BY Zenon, <1>0, <1>1, <2>1, <2>2, FilesKept, CountKeep
  <2> QED BY Zenon, <1>0, <1>1, <2>1, <2>3, OwnKept, CallsKept
<1>4. ASSUME FreeFiles # {} PROVE First(FreeFiles) \in Files /\ ref[First(FreeFiles)] = 0
  BY Zenon, <1>0, <1>4, FirstOpen DEF FreeFiles
<1> PICK f : f = First(FreeFiles)
  OBVIOUS
<1>5. CASE FreeFiles # {} /\ Closed(p) = {}
  <2>1. /\ UNCHANGED <<obj, ofile, target>> /\ pc' = [pc EXCEPT ![p] = "close"]
        /\ ref' = [ref EXCEPT ![f] = 1] /\ hand' = [hand EXCEPT ![p] = <<f>>]
    BY Zenon, <1>5 DEF OpenFile
  <2>2. \A x \in Procs : pc'[x] = "pipe" => pc[x] = "pipe"
    BY Zenon, <1>0, <2>1 DEF CallType
  <2>3. hand' = [hand EXCEPT ![p] = Append(@, f)] /\ Len(hand[p]) < 2
    BY <1>2, <2>1
  <2>4. RefInv' /\ \A o \in Objects \ {None} : Count(o)' = Count(o)
    BY Zenon, <1>0, <1>1, <1>4, <1>5, <2>1, <2>2, <2>3, AllocHand
  <2> QED BY Zenon, <1>0, <1>1, <2>1, <2>4, OwnKept, CallsKept
<1>6. CASE FreeFiles # {} /\ Closed(p) # {}
  <2> PICK d : d = First(Closed(p))
    BY Zenon
  <2>1. d \in Fds /\ ofile[p][d] = Null
    <3>1. First(Closed(p)) \in Closed(p)
      BY Zenon, <1>0, <1>6, FirstOpen
    <3> QED BY Zenon, <3>1 DEF Closed, Open
  <2> PICK x : x = Inode(target[p])
    BY Zenon
  <2>2. /\ ref' = [ref EXCEPT ![f] = 1] /\ obj' = [obj EXCEPT ![f] = x]
        /\ ofile' = [ofile EXCEPT ![p][d] = f] /\ hand' = hand
        /\ target' = [target EXCEPT ![p] = Null] /\ pc' = [pc EXCEPT ![p] = "user"]
    BY Zenon, <1>6 DEF OpenFile
  <2>3. \A q \in Procs : pc'[q] = "pipe" => pc[q] = "pipe"
    BY Zenon, <1>0, <2>2 DEF CallType
  <2>4. x \in Objects
    <3>1. Inode(target[p]) \in Objects \ {None}
      BY Zenon, <1>2, ObjectFacts
    <3> QED BY Zenon, <3>1
  <2>5. RefInv' /\ \A o \in Objects \ {None} : Count(o)' = Count(o) + (IF o = x THEN 1 ELSE 0)
    <3>1. f \in Files /\ ref[f] = 0 /\ UNCHANGED <<hand, put, panicked>>
      BY Zenon, <1>1, <1>4, <1>6, <2>2
    <3> QED BY ZenonT(60), <1>0, <2>1, <2>2, <2>3, <2>4, <3>1, OpenSlot
  <2>6. /\ Null \notin Inodes /\ target'[p] = Null
        /\ \A q \in Procs \ {p} : target'[q] = target[q]
    BY Zenon, <1>0, <2>2, FileAssumption DEF CallType
  <2>7. \A b \in Pipes, w \in BOOLEAN : Count(PipeEnd(b, w))' = Count(PipeEnd(b, w))
    <3> TAKE b \in Pipes, w \in BOOLEAN
    <3>1. PipeEnd(b, w) \in Objects \ {None} /\ PipeEnd(b, w) # x
      BY Zenon, <1>2, ObjectFacts, Distinct
    <3>2. Count(PipeEnd(b, w))' = Count(PipeEnd(b, w)) + 0
      BY Zenon, <2>5, <3>1
    <3> QED BY <3>2, CountType
  <2>8. ASSUME NEW j \in Inodes PROVE iref'[j] = Count(Inode(j))' + Calls(j)'
    <3>1. /\ Cardinality(Targets(j)) \in Nat
          /\ Cardinality(Targets(j)') = Cardinality(Targets(j)) - (IF target[p] = j THEN 1 ELSE 0)
      BY <2>6, TargetMove
    <3>2. Cardinality(Cwds(j)) \in Nat /\ Cwds(j)' = Cwds(j)
      BY Zenon, <1>1, Sizes DEF Cwds
    <3>3. iref[j] = Count(Inode(j)) + (Cardinality(Cwds(j)) + Cardinality(Targets(j)))
      BY Zenon, <1>0 DEF OwnInv, Calls
    <3>4. Calls(j)' = Cardinality(Cwds(j)) + Cardinality(Targets(j)')
      BY Zenon, <3>2 DEF Calls
    <3>5. /\ Count(Inode(j)) \in Nat
          /\ Count(Inode(j))' = Count(Inode(j)) + (IF target[p] = j THEN 1 ELSE 0)
      BY <1>2, <2>5, CountType, ObjectFacts, Distinct
    <3> QED BY <1>1, <3>1, <3>2, <3>3, <3>4, <3>5
  <2>9. iref' \in [Inodes -> Int]
    BY Zenon, <1>0, <1>1 DEF OwnInv, OwnType
  <2> QED BY Zenon, <1>0, <1>1, <2>5, <2>7, <2>8, <2>9, OwnMoved
<1> QED BY Zenon, <1>3, <1>5, <1>6

LEMMA ChdirStep ==
  ASSUME Inv, NEW p \in Procs, NEW i \in Inodes, SysChdir(p, i)
  PROVE  RefInv' /\ OwnInv'
<1>0. TypeOK /\ RefInv /\ CallType /\ OwnInv /\ CallInv
  BY InvType, OwnFacts DEF Inv
<1>1. /\ UNCHANGED <<ref, obj, ofile, pc, hand, target, put, ends, panicked>>
      /\ iref' = [j \in Inodes |-> iref[j] + (IF j = i THEN 1 ELSE 0) - (IF j = cwd[p] THEN 1 ELSE 0)]
      /\ cwd' = [cwd EXCEPT ![p] = i]
  BY Zenon DEF SysChdir
<1>2. put' \in [Procs -> Puts]
  BY Zenon, <1>0, <1>1 DEF RefInv, FileType
<1>3. RefInv' /\ \A o : Count(o)' = Count(o)
  BY Zenon, <1>0, <1>1, <1>2, FilesKept, CountKeep
<1>4. cwd'[p] = i /\ \A q \in Procs \ {p} : cwd'[q] = cwd[q]
  BY Zenon, <1>0, <1>1 DEF CallType
<1>5. \A j \in Inodes : iref[j] \in Int
  BY Zenon, <1>0 DEF OwnInv, OwnType
<1>6. iref' \in [Inodes -> Int]
  BY <1>1, <1>5
<1>7. ASSUME NEW j \in Inodes PROVE iref'[j] = Count(Inode(j))' + Calls(j)'
  <2>1. /\ Cardinality(Cwds(j)) \in Nat /\ Cardinality(Cwds(j)') \in Nat
        /\ Cardinality(Cwds(j)') =
             Cardinality(Cwds(j)) + (IF cwd'[p] = j THEN 1 ELSE 0) - (IF cwd[p] = j THEN 1 ELSE 0)
    BY Zenon, <1>4, CwdMove
  <2>2. Cardinality(Targets(j)) \in Nat /\ Targets(j)' = Targets(j)
    BY Zenon, <1>1, Sizes DEF Targets
  <2>3. iref[j] = Count(Inode(j)) + (Cardinality(Cwds(j)) + Cardinality(Targets(j)))
    BY <1>0 DEF OwnInv, Calls
  <2>4. Calls(j)' = Cardinality(Cwds(j)') + Cardinality(Targets(j))
    BY Zenon, <2>2 DEF Calls
  <2>5. Count(Inode(j)) \in Nat /\ Count(Inode(j))' = Count(Inode(j))
    BY <1>3, CountType
  <2>6. iref'[j] = iref[j] + (IF cwd'[p] = j THEN 1 ELSE 0) - (IF cwd[p] = j THEN 1 ELSE 0)
    BY Zenon, <1>1, <1>4
  <2> QED BY <1>5, <2>1, <2>2, <2>3, <2>4, <2>5, <2>6
<1> QED BY Zenon, <1>0, <1>1, <1>3, <1>6, <1>7, OwnMoved

LEMMA ForkDoneStep ==
  ASSUME Inv, NEW p \in Procs, ForkDone(p)
  PROVE  RefInv' /\ OwnInv'
<1>0. TypeOK /\ RefInv /\ CallType /\ OwnInv /\ CallInv /\ ForkInv
  BY Zenon, InvType, OwnFacts DEF Inv
<1> PICK q, i : q = target[p] /\ i = cwd[p]
  BY Zenon
<1>1. /\ UNCHANGED <<ref, obj, ofile, hand, put, ends, panicked>>
      /\ iref' = [iref EXCEPT ![i] = @ + 1] /\ cwd' = [cwd EXCEPT ![q] = i]
      /\ pc[p] = "fork" /\ pc' = [pc EXCEPT ![p] = "user", ![q] = "user"]
      /\ target' = [target EXCEPT ![p] = Null]
  BY Zenon DEF ForkDone, Ready
<1>2. q \in Procs /\ pc[q] = "embryo" /\ cwd[q] = Null /\ i \in Inodes
  <2>1. target[p] \in Procs /\ pc[target[p]] = "embryo"
    BY Zenon, <1>0, <1>1 DEF ForkInv
  <2>2. cwd[target[p]] = Null /\ cwd[p] # Null
    BY Zenon, <1>0, <1>1, <2>1 DEF CallInv
  <2> QED BY Zenon, <1>0, <2>1, <2>2 DEF CallType
<1>3. /\ \A x \in Procs : pc'[x] = "pipe" => pc[x] = "pipe"
      /\ put' \in [Procs -> Puts]
  BY Zenon, <1>0, <1>1 DEF CallType, RefInv, FileType
<1>4. RefInv' /\ \A o : Count(o)' = Count(o)
  BY Zenon, <1>0, <1>1, <1>3, FilesKept, CountKeep
<1>5. /\ cwd'[q] = i /\ \A x \in Procs \ {q} : cwd'[x] = cwd[x]
      /\ target'[p] = Null /\ \A x \in Procs \ {p} : target'[x] = target[x]
      /\ Null \notin Inodes /\ target[p] \notin Inodes
  <2>1. Null \notin Inodes /\ target[p] \notin Inodes
    BY Zenon, <1>2, FileAssumption
  <2> QED BY Zenon, <1>0, <1>1, <1>2, <2>1 DEF CallType
<1>6. /\ iref' \in [Inodes -> Int]
      /\ \A j \in Inodes : iref[j] \in Int /\ iref'[j] = iref[j] + (IF i = j THEN 1 ELSE 0)
  BY <1>0, <1>1, <1>2 DEF OwnInv, OwnType
<1>7. ASSUME NEW j \in Inodes PROVE iref'[j] = Count(Inode(j))' + Calls(j)'
  <2>1. /\ Cardinality(Cwds(j)) \in Nat
        /\ Cardinality(Cwds(j)') = Cardinality(Cwds(j)) + (IF i = j THEN 1 ELSE 0)
    BY <1>2, <1>5, CwdMove
  <2>2. Cardinality(Targets(j)) \in Nat /\ Cardinality(Targets(j)') = Cardinality(Targets(j))
    BY <1>5, TargetMove
  <2>3. iref[j] = Count(Inode(j)) + (Cardinality(Cwds(j)) + Cardinality(Targets(j)))
    BY Zenon, <1>0 DEF OwnInv, Calls
  <2>4. Calls(j)' = Cardinality(Cwds(j)') + Cardinality(Targets(j)')
    BY Zenon DEF Calls
  <2>5. Count(Inode(j)) \in Nat /\ Count(Inode(j))' = Count(Inode(j))
    BY Zenon, <1>4, CountType
  <2> QED BY <1>6, <2>1, <2>2, <2>3, <2>4, <2>5
<1> QED BY Zenon, <1>0, <1>1, <1>4, <1>6, <1>7, OwnMoved

LEMMA ExitDoneStep ==
  ASSUME Inv, NEW p \in Procs, ExitDone(p)
  PROVE  RefInv' /\ OwnInv'
<1>0. TypeOK /\ RefInv /\ CallType /\ OwnInv /\ CallInv
  BY InvType, OwnFacts DEF Inv
<1> PICK i : i = cwd[p]
  BY Zenon
<1>1. /\ UNCHANGED <<ref, obj, ofile, hand, target, put, ends, panicked>>
      /\ iref' = [iref EXCEPT ![i] = @ - 1] /\ cwd' = [cwd EXCEPT ![p] = Null]
      /\ pc[p] = "exit" /\ pc' = [pc EXCEPT ![p] = "dead"]
  BY Zenon DEF ExitDone, Ready, Iput
<1>2. i \in Inodes
  BY Zenon, <1>0, <1>1 DEF CallInv, CallType
<1>3. /\ \A x \in Procs : pc'[x] = "pipe" => pc[x] = "pipe"
      /\ put' \in [Procs -> Puts]
  BY Zenon, <1>0, <1>1 DEF CallType, RefInv, FileType
<1>4. RefInv' /\ \A o : Count(o)' = Count(o)
  BY Zenon, <1>0, <1>1, <1>3, FilesKept, CountKeep
<1>5. cwd'[p] = Null /\ Null \notin Inodes /\ \A x \in Procs \ {p} : cwd'[x] = cwd[x]
  BY Zenon, <1>0, <1>1, FileAssumption DEF CallType
<1>6. /\ iref' \in [Inodes -> Int]
      /\ \A j \in Inodes : iref[j] \in Int /\ iref'[j] = iref[j] - (IF i = j THEN 1 ELSE 0)
  BY <1>0, <1>1, <1>2 DEF OwnInv, OwnType
<1>7. ASSUME NEW j \in Inodes PROVE iref'[j] = Count(Inode(j))' + Calls(j)'
  <2>1. /\ Cardinality(Cwds(j)) \in Nat
        /\ Cardinality(Cwds(j)') = Cardinality(Cwds(j)) - (IF i = j THEN 1 ELSE 0)
    BY <1>5, CwdMove
  <2>2. Cardinality(Targets(j)) \in Nat /\ Targets(j)' = Targets(j)
    BY Zenon, <1>1, Sizes DEF Targets
  <2>3. iref[j] = Count(Inode(j)) + (Cardinality(Cwds(j)) + Cardinality(Targets(j)))
    BY Zenon, <1>0 DEF OwnInv, Calls
  <2>4. Calls(j)' = Cardinality(Cwds(j)') + Cardinality(Targets(j))
    BY Zenon, <2>2 DEF Calls
  <2>5. Count(Inode(j)) \in Nat /\ Count(Inode(j))' = Count(Inode(j))
    BY Zenon, <1>4, CountType
  <2> QED BY <1>6, <2>1, <2>2, <2>3, <2>4, <2>5
<1> QED BY Zenon, <1>0, <1>1, <1>4, <1>6, <1>7, OwnMoved

-----------------------------------------------------------------------------
(* Releasing an object, and making a pipe *)

LEMMA ReleaseCount ==
  ASSUME RefInv, NEW p \in Procs, NEW o \in Objects, put[p] = <<o>>, put' = [put EXCEPT ![p] = <<>>],
         UNCHANGED <<ref, obj>>
  PROVE  /\ Count(o) >= 1
         /\ \A x : Count(x)' = Count(x) - (IF x = o THEN 1 ELSE 0)
<1>0. put \in [Procs -> Puts]
  BY Zenon DEF RefInv, FileType
<1>1. put'[p] = <<>> /\ \A q \in Procs \ {p} : put'[q] = put[q]
  BY Zenon, <1>0
<1>2. ASSUME NEW x
      PROVE  /\ Cardinality(Pending(x)) \in Nat /\ Cardinality(Pending(x)') \in Nat
             /\ Cardinality(Pending(x)') = Cardinality(Pending(x)) - (IF x = o THEN 1 ELSE 0)
  <2>1. /\ Pending(x) \subseteq Procs /\ Pending(x)' \subseteq Procs
        /\ \A q \in Procs \ {p} : q \in Pending(x) <=> q \in Pending(x)'
        /\ p \in Pending(x) <=> x = o
        /\ p \notin Pending(x)'
    BY Zenon, <1>1, PutFacts DEF Pending
  <2>2. /\ Cardinality(Pending(x)) \in Nat /\ Cardinality(Pending(x)') \in Nat
        /\ Cardinality(Pending(x)') =
             Cardinality(Pending(x)) + (IF p \in Pending(x)' THEN 1 ELSE 0) - (IF p \in Pending(x) THEN 1 ELSE 0)
    BY <2>1, MoveCount
  <2> QED BY <2>1, <2>2
<1>3. ASSUME NEW x
      PROVE  Cardinality(Using(x)) \in Nat /\ Cardinality(Using(x)') = Cardinality(Using(x))
  <2>1. Using(x)' = Using(x)
    BY Zenon DEF Using
  <2> QED BY Zenon, <2>1, Sizes
<1>4. ASSUME NEW x PROVE Count(x)' = Count(x) - (IF x = o THEN 1 ELSE 0)
  <2>1. Count(x) = Cardinality(Using(x)) + Cardinality(Pending(x))
    BY Zenon DEF Count
  <2>2. Count(x)' = Cardinality(Using(x)') + Cardinality(Pending(x)')
    BY Zenon DEF Count
  <2> QED BY <1>2, <1>3, <2>1, <2>2
<1>5. Count(o) >= 1
  BY <1>2, <1>3 DEF Count
<1> QED BY Zenon, <1>4, <1>5

LEMMA ReleaseStep ==
  ASSUME Inv, NEW p \in Procs, Release(p)
  PROVE  RefInv' /\ OwnInv'
<1>0. TypeOK /\ RefInv /\ CallType /\ OwnInv
  BY InvType, OwnFacts DEF Inv
<1>1. PICK o \in Objects : put[p] = <<o>>
  BY Zenon, <1>0 DEF Release, RefInv, FileType, Puts
<1>2. Head(put[p]) = o /\ Tail(put[p]) = <<>>
  BY <1>1
<1>3. /\ ends' = IF o.type = "FD_PIPE" THEN [ends EXCEPT ![o.pipe] = @ \ {o.writable}] ELSE ends
      /\ iref' = IF o.type = "FD_INODE" THEN [iref EXCEPT ![o.ip] = @ - 1] ELSE iref
      /\ put' = [put EXCEPT ![p] = <<>>]
      /\ UNCHANGED <<ref, obj, ofile, cwd, pc, hand, target, panicked>>
  BY Zenon, <1>2 DEF Release, Iput
<1>4. Count(o) >= 1 /\ \A x : Count(x)' = Count(x) - (IF x = o THEN 1 ELSE 0)
  BY Zenon, <1>0, <1>1, <1>3, ReleaseCount
<1>5. RefInv'
  <2>1. put' \in [Procs -> Puts]
    BY Zenon, <1>0, <1>3 DEF RefInv, FileType, Puts
  <2> QED BY Zenon, <1>0, <1>3, <2>1, FilesKept
<1>6. \A x : x # o => Count(x)' = Count(x)
  BY <1>4, CountType
<1>7. Count(o) \in Nat /\ Count(o)' = Count(o) - 1
  BY Zenon, <1>4, CountType
<1>8. \A i \in Inodes : Calls(i)' = Calls(i)
  BY Zenon, <1>3, CallsKept
<1>9. CASE o = None
  <2>1. UNCHANGED <<ends, iref>>
    BY Zenon, <1>3, <1>9, ObjectFacts
  <2> QED BY Zenon, <1>0, <1>5, <1>6, <1>8, <1>9, <2>1, OwnKept
<1>10. CASE \E i \in Inodes : o = Inode(i)
  <2> PICK i \in Inodes : o = Inode(i)
    BY Zenon, <1>10
  <2>1. UNCHANGED ends /\ iref' = [iref EXCEPT ![i] = @ - 1]
    BY Zenon, <1>3, ObjectFacts
  <2>2. \A b \in Pipes, w \in BOOLEAN : Count(PipeEnd(b, w))' = Count(PipeEnd(b, w))
    BY <1>6, Distinct
  <2>3. /\ iref' \in [Inodes -> Int]
        /\ \A j \in Inodes : iref[j] \in Int /\ iref'[j] = iref[j] - (IF i = j THEN 1 ELSE 0)
    BY <1>0, <2>1 DEF OwnInv, OwnType
  <2>4. ASSUME NEW j \in Inodes PROVE iref'[j] = Count(Inode(j))' + Calls(j)'
    <3>1. Calls(j) \in Nat /\ Calls(j)' = Calls(j)
      BY <1>8, Sizes DEF Calls
    <3>2. iref[j] = Count(Inode(j)) + Calls(j)
      BY Zenon, <1>0 DEF OwnInv
    <3>3. Inode(j) = o <=> i = j
      BY Zenon, Distinct
    <3>4. Count(Inode(j)) \in Nat /\ Count(Inode(j))' = Count(Inode(j)) - (IF i = j THEN 1 ELSE 0)
      BY Zenon, <1>4, <3>3, CountType
    <3> QED BY <2>3, <3>1, <3>2, <3>4
  <2> QED BY Zenon, <1>0, <1>5, <2>1, <2>2, <2>3, <2>4, OwnMoved
<1>11. CASE \E b \in Pipes, w \in BOOLEAN : o = PipeEnd(b, w)
  <2> PICK b \in Pipes, w \in BOOLEAN : o = PipeEnd(b, w)
    BY Zenon, <1>11
  <2>1. ends' = [ends EXCEPT ![b] = @ \ {w}] /\ iref' = iref
    <3>1. o.type = "FD_PIPE" /\ o.pipe = b /\ o.writable = w
      BY ObjectFacts
    <3>2. ends' = [ends EXCEPT ![o.pipe] = @ \ {o.writable}] /\ iref' = iref
      BY Zenon, <1>3, <3>1
    <3> QED BY Zenon, <3>1, <3>2
  <2>2. OwnType'
    BY Zenon, <1>0, <2>1 DEF OwnInv, OwnType
  <2>3. \A i \in Inodes : iref'[i] = Count(Inode(i))' + Calls(i)'
    <3>1. \A i \in Inodes : Count(Inode(i))' = Count(Inode(i))
      BY <1>6, Distinct
    <3> QED BY Zenon, <1>0, <1>8, <2>1, <3>1 DEF OwnInv
  <2>4. ASSUME NEW c \in Pipes, NEW v \in BOOLEAN
        PROVE  Count(PipeEnd(c, v))' = IF v \in ends'[c] THEN 1 ELSE 0
    <3>1. v \in ends'[c] <=> v \in ends[c] /\ ~(c = b /\ v = w)
      BY Zenon, <1>0, <2>1 DEF OwnInv, OwnType
    <3>2. Count(PipeEnd(c, v)) = IF v \in ends[c] THEN 1 ELSE 0
      BY Zenon, <1>0 DEF OwnInv
    <3>3. CASE c = b /\ v = w
      BY <1>4, <1>7, <3>1, <3>2, <3>3
    <3>4. CASE ~(c = b /\ v = w)
      <4>1. PipeEnd(c, v) # o
        BY <3>4, Distinct
      <4>2. Count(PipeEnd(c, v))' = Count(PipeEnd(c, v))
        BY Zenon, <1>6, <4>1
      <4> QED BY Zenon, <3>1, <3>2, <3>4, <4>2
    <3> QED BY Zenon, <3>3, <3>4
  <2> QED BY Zenon, <1>5, <2>2, <2>3, <2>4 DEF OwnInv
<1> QED BY Zenon, <1>9, <1>10, <1>11, ObjectFacts

\* sys_pipe() with two files at hand, once kalloc() has given it a pipe.
LEMMA PipeMade ==
  ASSUME Inv, NEW p \in Procs, PipeInstall(p), NEW b \in Pipes, ends[b] = {},
         ends' = [ends EXCEPT ![b] = BOOLEAN],
         \A o \in Objects \ {None} :
           Count(o)' = Count(o) + (IF o \in {PipeEnd(b, FALSE), PipeEnd(b, TRUE)} THEN 1 ELSE 0)
  PROVE  OwnInv'
<1>0. OwnInv
  BY Zenon, OwnFacts
<1>1. UNCHANGED <<cwd, target, iref>>
  BY Zenon DEF PipeInstall
<1>2. OwnType'
  BY Zenon, <1>0, <1>1 DEF OwnInv, OwnType
<1>3. \A i \in Inodes : iref'[i] = Count(Inode(i))' + Calls(i)'
  <2>1. ASSUME NEW i \in Inodes PROVE Count(Inode(i))' = Count(Inode(i))
    <3>1. Inode(i) \in Objects \ {None} /\ Inode(i) \notin {PipeEnd(b, FALSE), PipeEnd(b, TRUE)}
      BY Zenon, ObjectFacts, Distinct
    <3>2. Count(Inode(i))' = Count(Inode(i)) + 0
      BY Zenon, <3>1
    <3> QED BY <3>2, CountType
  <2>2. \A i \in Inodes : Calls(i)' = Calls(i)
    BY Zenon, <1>1, CallsKept
  <2> QED BY Zenon, <1>0, <1>1, <2>1, <2>2 DEF OwnInv
<1>4. ASSUME NEW c \in Pipes, NEW v \in BOOLEAN
      PROVE  Count(PipeEnd(c, v))' = IF v \in ends'[c] THEN 1 ELSE 0
  <2>1. PipeEnd(c, v) \in {PipeEnd(b, FALSE), PipeEnd(b, TRUE)} <=> c = b
    <3>1. PipeEnd(c, v) = PipeEnd(b, FALSE) <=> c = b /\ v = FALSE
      BY Zenon DEF PipeEnd
    <3>2. PipeEnd(c, v) = PipeEnd(b, TRUE) <=> c = b /\ v = TRUE
      BY Zenon DEF PipeEnd
    <3> QED BY Zenon, <3>1, <3>2
  <2>2. Count(PipeEnd(c, v))' = Count(PipeEnd(c, v)) + (IF c = b THEN 1 ELSE 0)
    BY Zenon, <2>1, ObjectFacts
  <2>3. Count(PipeEnd(c, v)) = IF v \in ends[c] THEN 1 ELSE 0
    BY Zenon, <1>0 DEF OwnInv
  <2>4. v \in ends'[c] <=> v \in ends[c] \/ c = b
    BY Zenon, <1>0 DEF OwnInv, OwnType
  <2>5. c = b => v \notin ends[c]
    BY Zenon
  <2> QED BY <2>2, <2>3, <2>4, <2>5
<1> QED BY Zenon, <1>2, <1>3, <1>4 DEF OwnInv

LEMMA PipeInstallStep ==
  ASSUME Inv, NEW p \in Procs, PipeInstall(p)
  PROVE  RefInv' /\ OwnInv'
<1>0. TypeOK /\ RefInv /\ CallType /\ OwnInv
  BY InvType, OwnFacts DEF Inv
<1>1. /\ UNCHANGED <<ref, cwd, target, put, iref, panicked>>
      /\ pc[p] = "pipe" /\ Len(hand[p]) = 2
  BY Zenon DEF PipeInstall, Ready
<1>2. CASE pc' = [pc EXCEPT ![p] = "close"] /\ UNCHANGED <<obj, ofile, hand, ends>>
  <2>1. /\ \A x \in Procs : pc'[x] = "pipe" => pc[x] = "pipe"
        /\ put' \in [Procs -> Puts]
    BY Zenon, <1>0, <1>1, <1>2 DEF CallType, RefInv, FileType
  <2>2. RefInv' /\ \A o : Count(o)' = Count(o)
    BY Zenon, <1>0, <1>1, <1>2, <2>1, FilesKept, CountKeep
  <2> QED BY Zenon, <1>0, <1>1, <1>2, <2>2, OwnKept, CallsKept
<1>3. ASSUME NEW b \in Pipes, ends[b] = {}, ends' = [ends EXCEPT ![b] = BOOLEAN],
             obj' = [obj EXCEPT ![hand[p][1]] = PipeEnd(b, FALSE), ![hand[p][2]] = PipeEnd(b, TRUE)],
             IF Cardinality(Closed(p)) < 2
               THEN /\ ofile' = IF Closed(p) = {} THEN ofile ELSE Undo(p, First(Closed(p)), hand[p][1])
                    /\ pc' = [pc EXCEPT ![p] = "close"]
                    /\ UNCHANGED hand
               ELSE LET fd0 == First(Closed(p))
                        fd1 == First(Closed(p) \ {fd0})
                    IN /\ ofile' = [ofile EXCEPT ![p][fd0] = hand[p][1], ![p][fd1] = hand[p][2]]
                       /\ hand' = [hand EXCEPT ![p] = <<>>]
                       /\ pc' = [pc EXCEPT ![p] = "user"]
      PROVE  RefInv' /\ OwnInv'
  <2> PICK x, y : x = PipeEnd(b, FALSE) /\ y = PipeEnd(b, TRUE)
    BY Zenon
  <2>1. /\ x \in Objects \ {None} /\ y \in Objects \ {None} /\ x # y
        /\ obj' = [obj EXCEPT ![hand[p][1]] = x, ![hand[p][2]] = y]
    BY Zenon, <1>3, ObjectFacts, Distinct
  <2>2. CASE Cardinality(Closed(p)) < 2
    <3>1. pc' = [pc EXCEPT ![p] = "close"] /\ hand' = hand
      BY Zenon, <1>3, <2>2
    <3>2. ofile' = ofile
      <4>1. CASE Closed(p) = {}
        BY Zenon, <1>3, <2>2, <4>1
      <4>2. CASE Closed(p) # {}
        <5>1. First(Closed(p)) \in Fds /\ ofile[p][First(Closed(p))] = Null
          BY Zenon, <1>0, <4>2, FirstOpen DEF Closed, Open
        <5>2. ofile' = [ofile EXCEPT ![p][First(Closed(p))] = Null]
          BY Zenon, <1>3, <2>2, <4>2 DEF Undo
        <5> QED BY Zenon, <1>0, <5>1, <5>2 DEF RefInv, FileType
      <4> QED BY Zenon, <4>1, <4>2
    <3>3. UNCHANGED <<ref, put, hand, ofile, panicked>>
      BY Zenon, <1>1, <3>1, <3>2
    <3>4. RefInv' /\ \A o \in Objects \ {None} : Count(o)' = Count(o) + (IF o \in {x, y} THEN 1 ELSE 0)
      BY Zenon, <1>0, <1>1, <2>1, <3>1, <3>3, PipeNoRoom
    <3> QED BY Zenon, <1>3, <3>4, PipeMade
  <2>3. CASE ~(Cardinality(Closed(p)) < 2)
    <3> PICK d0 : d0 = First(Closed(p))
      BY Zenon
    <3> PICK d1 : d1 = First(Closed(p) \ {d0})
      BY Zenon
    <3>1. /\ ofile' = [ofile EXCEPT ![p][d0] = hand[p][1], ![p][d1] = hand[p][2]]
          /\ hand' = [hand EXCEPT ![p] = <<>>] /\ pc' = [pc EXCEPT ![p] = "user"]
      BY Zenon, <1>3, <2>3
    <3>2. Closed(p) # {} /\ Closed(p) \ {d0} # {}
      <4>1. Cardinality({}) = 0 /\ Cardinality({d0}) = 1
        BY Zenon, FS_EmptySet, FS_Singleton
      <4>2. Closed(p) # {} /\ Closed(p) # {d0}
        BY <2>3, <4>1
      <4> QED BY Zenon, <4>2
    <3>3. d0 \in Closed(p) /\ d1 \in Closed(p) \ {d0}
      <4>1. Closed(p) \subseteq Nat
        BY FileAssumption DEF Closed, Fds
      <4> QED BY Zenon, <3>2, <4>1, LeastFirst
    <3>4. d0 \in Fds /\ d1 \in Fds /\ d0 # d1 /\ ofile[p][d0] = Null /\ ofile[p][d1] = Null
      BY Zenon, <3>3 DEF Closed, Open
    <3>5. UNCHANGED <<ref, put, panicked>>
      BY Zenon, <1>1
    <3>6. RefInv' /\ \A o \in Objects \ {None} : Count(o)' = Count(o) + (IF o \in {x, y} THEN 1 ELSE 0)
      <4>1. Installed(p, x, y, d0, d1)
        BY Zenon, <1>1, <2>1, <3>1, <3>4, <3>5 DEF Installed
      <4>2. d0 \in Fds /\ d1 \in Fds
        BY Zenon, <3>4
      <4>3. RefInv /\ CallType
        BY Zenon, <1>0
      <4>4. x \in Objects \ {None} /\ y \in Objects \ {None} /\ x # y
        BY Zenon, <2>1
      <4>5. RefInv'
        BY Zenon, <4>1, <4>2, <4>3, <4>4, PipeDone
      <4>6. \A o \in Objects \ {None} : Count(o)' = Count(o) + (IF o \in {x, y} THEN 1 ELSE 0)
        <5>1. UNCHANGED <<ref, put>>
          BY Zenon, <1>1
        <5> QED BY Zenon, <1>1, <2>1, <4>3, <4>4, <5>1, PipeObjects
      <4> QED BY Zenon, <4>5, <4>6
    <3> QED BY Zenon, <1>3, <3>6, PipeMade
  <2> QED BY Zenon, <2>2, <2>3
<1> QED BY Zenon, <1>2, <1>3 DEF PipeInstall

-----------------------------------------------------------------------------
(* The theorems *)

LEMMA InitInv == Init => Inv
<1> SUFFICES ASSUME Init PROVE Inv
  BY Zenon
<1> PICK root \in Inodes : /\ cwd = [p \in Procs |-> IF p = InitProc THEN root ELSE Null]
                           /\ iref = [i \in Inodes |-> IF i = root THEN 1 ELSE 0]
  BY Zenon DEF Init
<1>1. Null \notin Inodes /\ Null \notin Files /\ InitProc \in Procs /\ <<>> \in Seq(Files) /\ Len(<<>>) = 0
  BY FileAssumption DEF Files
<1>2. TypeOK
  <2>1. /\ ref \in [Files -> Nat] /\ obj \in [Files -> Objects]
        /\ ofile \in [Procs -> [Fds -> Files \cup {Null}]] /\ cwd \in [Procs -> Inodes \cup {Null}]
    BY <1>1 DEF Init, Objects
  <2>2. pc \in [Procs -> PCs] /\ target \in [Procs -> Procs \cup Inodes \cup {Null}]
    BY Zenon DEF Init, PCs
  <2>3. hand \in [Procs -> Seq(Files)] /\ \A p \in Procs : Len(hand[p]) <= 2
    BY <1>1 DEF Init
  <2>4. put \in [Procs -> {<<>>} \cup {<<o>> : o \in Objects}]
    BY Zenon DEF Init
  <2>5. ends \in [Pipes -> SUBSET BOOLEAN] /\ iref \in [Inodes -> Int] /\ panicked = FALSE
    BY DEF Init
  <2> QED BY Zenon, <2>1, <2>2, <2>3, <2>4, <2>5 DEF TypeOK
<1>3. CallInv /\ ForkInv
  BY Zenon, <1>1 DEF Init, CallInv, ForkInv
<1>4. \A f \in Files : Descriptors(f) = {} /\ Allocated(f) = {}
  <2>1. \A f \in Files : Descriptors(f) = {}
    BY Zenon, <1>1 DEF Init, Descriptors
  <2>2. \A e \in Procs \X (1 .. 2) : e[1] \in Procs /\ e[2] \in 1 .. 2
    BY Zenon
  <2>3. \A e \in Procs \X (1 .. 2) : ~(e[2] <= Len(hand[e[1]]))
    BY <1>1, <2>2 DEF Init
  <2> QED BY Zenon, <2>1, <2>3 DEF Allocated
<1>5. Cardinality({}) = 0
  BY Zenon, FS_EmptySet
<1>6. HandInv /\ FreeInv /\ RefCounts
  <2>1. \A f \in Files : ref[f] = 0 /\ obj[f] = None
    BY Zenon DEF Init
  <2> QED BY <1>4, <1>5, <2>1 DEF HandInv, FreeInv, RefCounts
<1>7. \A o : Using(o) = {} /\ Pending(o) = {}
  <2>1. \A o : Using(o) = {}
    BY DEF Init, Using
  <2>2. \A o : Pending(o) = {}
    BY Zenon, PutFacts DEF Init, Pending
  <2> QED BY Zenon, <2>1, <2>2
<1>8. PipeEndsOwned
  <2>1. \A b \in Pipes : ends[b] = {}
    BY Zenon DEF Init
  <2> QED BY <1>5, <1>7, <2>1 DEF PipeEndsOwned
<1>9. InodeRefs
  <2> SUFFICES ASSUME NEW i \in Inodes
               PROVE  iref[i] = Cardinality(Using(Inode(i))) + Cardinality(Pending(Inode(i)))
                                + Cardinality({p \in Procs : cwd[p] = i})
                                + Cardinality({p \in Procs : target[p] = i})
    BY Zenon DEF InodeRefs
  <2>1. {p \in Procs : target[p] = i} = {}
    BY Zenon, <1>1 DEF Init
  <2>2. {p \in Procs : cwd[p] = i} = IF i = root THEN {InitProc} ELSE {}
    BY Zenon, <1>1
  <2>3. Cardinality({InitProc}) = 1
    BY Zenon, FS_Singleton
  <2>4. iref[i] = IF i = root THEN 1 ELSE 0
    BY Zenon
  <2>5. Cardinality({p \in Procs : cwd[p] = i}) = IF i = root THEN 1 ELSE 0
    BY Zenon, <1>5, <2>2, <2>3
  <2> QED BY <1>5, <1>7, <2>1, <2>4, <2>5
<1> QED BY Zenon, <1>2, <1>3, <1>6, <1>8, <1>9 DEF Inv

LEMMA FileStep ==
  ASSUME Inv, [Next]_vars
  PROVE  RefInv' /\ OwnInv'
<1>1. CASE UNCHANGED vars
  <2>1. UNCHANGED <<ref, obj, ofile, cwd, pc, hand, target, put, ends, iref, panicked>>
    BY Zenon, <1>1 DEF vars
  <2>2. TypeOK /\ RefInv /\ CallType /\ OwnInv /\ put' \in [Procs -> Puts]
    BY Zenon, <2>1, InvType, OwnFacts DEF Inv, RefInv, FileType
  <2>3. RefInv' /\ \A o : Count(o)' = Count(o)
    BY Zenon, <2>1, <2>2, FilesKept, CountKeep
  <2> QED BY Zenon, <2>1, <2>2, <2>3, OwnKept, CallsKept
<1>2. CASE Next
  <2>1. PICK p \in Procs :
          \/ Release(p) \/ CloseHand(p)
          \/ \E fd \in Fds : SysDup(p, fd) \/ SysClose(p, fd)
          \/ SysPipe(p) \/ PipeFile(p) \/ PipeInstall(p)
          \/ \E i \in Inodes : SysOpen(p, i) \/ SysChdir(p, i)
          \/ OpenFile(p)
          \/ \E q \in Procs : Fork(p, q)
          \/ ForkDup(p) \/ ForkDone(p)
          \/ Exit(p) \/ ExitClose(p) \/ ExitDone(p)
    BY Zenon, <1>2 DEF Next
  <2>2. ASSUME NEW fd \in Fds, SysDup(p, fd) \/ SysClose(p, fd) PROVE RefInv' /\ OwnInv'
    BY Zenon, <2>2, DupStep, CloseStep
  <2>3. ASSUME NEW i \in Inodes, SysOpen(p, i) \/ SysChdir(p, i) PROVE RefInv' /\ OwnInv'
    BY Zenon, <2>3, SysOpenStep, ChdirStep
  <2>4. ASSUME SysPipe(p) \/ (\E q \in Procs : Fork(p, q)) \/ Exit(p) \/ ExitClose(p)
        PROVE  RefInv' /\ OwnInv'
    BY Zenon, <2>4, CloseStep, TurnStep
  <2> QED BY Zenon, <2>1, <2>2, <2>3, <2>4, ReleaseStep, CloseHandStep, PipeFileStep, PipeInstallStep,
             OpenFileStep, ForkDupStep, ForkDoneStep, ExitDoneStep
<1> QED BY Zenon, <1>1, <1>2

LEMMA NextInv == Inv /\ [Next]_vars => Inv'
<1> SUFFICES ASSUME Inv, [Next]_vars PROVE Inv'
  BY Zenon
<1>1. CallType' /\ CallInv' /\ ForkInv'
  BY Zenon, CallStep
<1>2. RefInv' /\ OwnInv'
  BY Zenon, FileStep
<1>3. FileType' /\ HandInv' /\ FreeInv' /\ RefCounts'
  BY Zenon, <1>2 DEF RefInv
<1>4. OwnType' /\ PipeEndsOwned' /\ InodeRefs'
  BY Zenon, <1>2, OwnFacts
<1>5. TypeOK'
  BY Zenon, <1>1, <1>3, <1>4 DEF TypeOK, CallType, FileType, Puts, OwnType
<1> QED BY Zenon, <1>1, <1>3, <1>4, <1>5 DEF Inv

LEMMA InvInvariant == Spec => []Inv
BY InitInv, NextInv, PTL DEF Spec

\* However open(), pipe(), dup(), close(), fork() and exit() of any number of
\* processes interleave, and whichever of them fail, f->ref of every file is the
\* number of descriptors and of calls in progress that hold it.
THEOREM FileRefsExact == Spec => []RefCounts
<1>1. Inv => RefCounts
  BY Zenon DEF Inv
<1> QED BY <1>1, InvInvariant, PTL

\* An open end of a pipe has exactly one owner and ip->ref counts the owners of an
\* inode, also while fileclose() has dropped ftable.lock and not yet called
\* pipeclose() or iput().
THEOREM ObjectsHaveOwners == Spec => []ObjectsOwned
<1>1. Inv => ObjectsOwned
  BY Zenon DEF Inv, ObjectsOwned
<1> QED BY <1>1, InvInvariant, PTL

\* filedup() and fileclose() are only called on files that are referred to: their
\* panics are out of reach.
THEOREM FileCallsNeverPanic == Spec => [](panicked = FALSE)
<1>1. Inv => panicked = FALSE
  BY Zenon DEF Inv, TypeOK
<1> QED BY <1>1, InvInvariant, PTL

=============================================================================
