------------------------------ MODULE FileRefs ------------------------------
(***************************************************************************)
(* The inductive invariant of FileTable, for every number of processes,    *)
(* descriptors, files, pipes and inodes, and what the operations on files  *)
(* do to it: how a call goes on, and how filealloc(), filedup(),           *)
(* fileclose() and fdalloc() change ref and the owners of the objects.     *)
(* FileTableProofs puts the actions together.                              *)
(***************************************************************************)
EXTENDS FileTable, FiniteSetTheorems, TLAPS

Objects == {None} \cup {PipeEnd(b, w) : b \in Pipes, w \in BOOLEAN} \cup {Inode(i) : i \in Inodes}
PCs == {"user", "pipe", "open", "close", "fork", "embryo", "exit", "dead"}

TypeOK ==
  /\ ref \in [Files -> Nat] /\ obj \in [Files -> Objects]
  /\ ofile \in [Procs -> [Fds -> Files \cup {Null}]]
  /\ cwd \in [Procs -> Inodes \cup {Null}]
  /\ pc \in [Procs -> PCs]
  /\ hand \in [Procs -> Seq(Files)] /\ \A p \in Procs : Len(hand[p]) <= 2
  /\ target \in [Procs -> Procs \cup Inodes \cup {Null}]
  /\ put \in [Procs -> {<<>>} \cup {<<o>> : o \in Objects}]
  /\ ends \in [Pipes -> SUBSET BOOLEAN]
  /\ iref \in [Inodes -> Int]
  /\ panicked = FALSE

\* What a process has at each place of its calls.
CallInv ==
  \A p \in Procs :
    /\ cwd[p] = Null <=> pc[p] \in {"embryo", "dead"}
    /\ pc[p] = "open" => target[p] \in Inodes
    /\ pc[p] = "close" => target[p] \in Inodes \cup {Null}
    /\ pc[p] \notin {"open", "close", "fork"} => target[p] = Null
    /\ pc[p] \notin {"pipe", "close"} => hand[p] = <<>>

\* Every fork() has a child of its own.
ForkInv ==
  \A p \in Procs : pc[p] = "fork" =>
    /\ target[p] \in Procs /\ pc[target[p]] = "embryo"
    /\ \A q \in Procs \ {p} : pc[q] = "fork" => target[q] # target[p]

\* A file that a call has allocated is its own until it is installed.
HandInv ==
  \A f \in Files : \A e \in Allocated(f) :
    /\ Descriptors(f) = {} /\ Allocated(f) = {e}
    /\ pc[e[1]] = "pipe" => obj[f] = None

\* A file without references stands for nothing.
FreeInv == \A f \in Files : ref[f] = 0 => obj[f] = None

Inv ==
  /\ TypeOK /\ CallInv /\ ForkInv
  /\ HandInv /\ FreeInv /\ RefCounts
  /\ PipeEndsOwned /\ InodeRefs

-----------------------------------------------------------------------------
(* Sets *)

LEMMA LeastFirst ==
  ASSUME NEW S, S \subseteq Nat, S # {}
  PROVE  First(S) \in S
<1>1. PICK x \in S : \A y \in S : ~(<<y, x>> \in OpToRel(<, Nat))
  BY NatLessThanWellFounded, WFMin, Zenon
<1>2. \A y \in S : (<<y, x>> \in OpToRel(<, Nat)) <=> y < x
  BY Zenon DEF OpToRel
<1>3. \A y \in S : ~(y < x)
  BY <1>1, <1>2, Zenon
<1>4. \A y \in S : x <= y
  BY <1>3, SMT
<1> QED BY <1>4, Zenon DEF First

LEMMA FirstOpen ==
  ASSUME TypeOK, NEW p \in Procs
  PROVE  /\ Open(p) # {} => First(Open(p)) \in Open(p)
         /\ Closed(p) # {} => First(Closed(p)) \in Closed(p)
         /\ FreeFiles # {} => First(FreeFiles) \in FreeFiles
<1>1. Open(p) \subseteq Nat /\ Closed(p) \subseteq Nat /\ FreeFiles \subseteq Nat
  BY FileAssumption DEF Open, Closed, Fds, FreeFiles, Files
<1> QED BY Zenon, <1>1, LeastFirst

LEMMA CardPlus ==
  ASSUME NEW S, IsFiniteSet(S), NEW x, x \notin S
  PROVE  Cardinality(S \cup {x}) = Cardinality(S) + 1
BY Zenon, FS_AddElement

LEMMA CardMinus ==
  ASSUME NEW S, IsFiniteSet(S), NEW x \in S
  PROVE  Cardinality(S \ {x}) = Cardinality(S) - 1
BY Zenon, FS_RemoveElement

\* The processes in a directory, and those with an inode at hand.
Cwds(i) == {p \in Procs : cwd[p] = i}
Targets(i) == {p \in Procs : target[p] = i}

LEMMA Finite ==
  /\ \A S \in SUBSET (Procs \X Fds) : IsFiniteSet(S) /\ Cardinality(S) \in Nat
  /\ \A S \in SUBSET (Procs \X (1 .. 2)) : IsFiniteSet(S) /\ Cardinality(S) \in Nat
  /\ \A S \in SUBSET Procs : IsFiniteSet(S) /\ Cardinality(S) \in Nat
  /\ \A S \in SUBSET Files : IsFiniteSet(S) /\ Cardinality(S) \in Nat
  /\ \A S \in SUBSET Fds : IsFiniteSet(S) /\ Cardinality(S) \in Nat
<1>1. IsFiniteSet(Fds) /\ IsFiniteSet(1 .. 2) /\ IsFiniteSet(Files) /\ IsFiniteSet(Procs)
  <2>1. 1 \in Int /\ 2 \in Int /\ NOFILE \in Int /\ NFILE \in Int
    BY FileAssumption
  <2> QED BY Zenon, <2>1, FS_Interval, FileAssumption DEF Fds, Files
<1>2. IsFiniteSet(Procs \X Fds) /\ IsFiniteSet(Procs \X (1 .. 2))
  BY Zenon, <1>1, FS_Product
<1>3. ASSUME NEW T, IsFiniteSet(T)
      PROVE  \A S \in SUBSET T : IsFiniteSet(S) /\ Cardinality(S) \in Nat
  BY Zenon, <1>3, FS_Subset, FS_CardinalityType
<1> QED BY Zenon, <1>1, <1>2, <1>3

LEMMA Sizes ==
  ASSUME NEW x
  PROVE  /\ IsFiniteSet(Descriptors(x)) /\ Cardinality(Descriptors(x)) \in Nat
         /\ IsFiniteSet(Allocated(x)) /\ Cardinality(Allocated(x)) \in Nat
         /\ IsFiniteSet(Using(x)) /\ Cardinality(Using(x)) \in Nat
         /\ IsFiniteSet(Pending(x)) /\ Cardinality(Pending(x)) \in Nat
         /\ IsFiniteSet(Cwds(x)) /\ Cardinality(Cwds(x)) \in Nat
         /\ IsFiniteSet(Targets(x)) /\ Cardinality(Targets(x)) \in Nat
<1>1. Descriptors(x) \in SUBSET (Procs \X Fds) /\ Allocated(x) \in SUBSET (Procs \X (1 .. 2))
  BY Zenon DEF Descriptors, Allocated
<1>2. Using(x) \in SUBSET Files /\ Pending(x) \in SUBSET Procs
  BY Zenon DEF Using, Pending
<1>3. Cwds(x) \in SUBSET Procs /\ Targets(x) \in SUBSET Procs
  BY Zenon DEF Cwds, Targets
<1> QED BY Zenon, <1>1, <1>2, <1>3, Finite

-----------------------------------------------------------------------------
(* Objects *)

LEMMA ObjectFacts ==
  /\ \A b \in Pipes, w \in BOOLEAN :
       /\ PipeEnd(b, w) \in Objects \ {None} /\ PipeEnd(b, w).type = "FD_PIPE"
       /\ PipeEnd(b, w).pipe = b /\ PipeEnd(b, w).writable = w
  /\ \A i \in Inodes : /\ Inode(i) \in Objects \ {None} /\ Inode(i).type = "FD_INODE"
                       /\ Inode(i).ip = i
  /\ None \in Objects /\ None.type = "FD_NONE"
  /\ \A o \in Objects \ {None} : \/ \E b \in Pipes, w \in BOOLEAN : o = PipeEnd(b, w)
                                 \/ \E i \in Inodes : o = Inode(i)
<1>1. \A b \in Pipes, w \in BOOLEAN :
        /\ PipeEnd(b, w).type = "FD_PIPE"
        /\ PipeEnd(b, w).pipe = b /\ PipeEnd(b, w).writable = w
  BY Zenon DEF PipeEnd
<1>2. \A i \in Inodes : Inode(i).type = "FD_INODE" /\ Inode(i).ip = i
  BY Zenon DEF Inode
<1>3. None.type = "FD_NONE"
  BY Zenon DEF None
<1> QED BY <1>1, <1>2, <1>3 DEF Objects

\* What refers to an object, apart from directories and calls.
Count(o) == Cardinality(Using(o)) + Cardinality(Pending(o))

LEMMA CountType == \A o : Count(o) \in Nat
BY Sizes DEF Count

LEMMA CountPrimes ==
  ASSUME NEW o
  PROVE  Count(o)' = Cardinality(Using(o)') + Cardinality(Pending(o)')
BY Zenon DEF Count

LEMMA CountKeep ==
  ASSUME TypeOK, UNCHANGED <<obj, put>>, NEW o, \A f \in Files : ref'[f] > 0 <=> ref[f] > 0
  PROVE  Count(o)' = Count(o)
<1>1. Using(o)' = Using(o) /\ Pending(o)' = Pending(o)
  BY Zenon DEF Using, Pending
<1> QED BY Zenon, <1>1 DEF Count

-----------------------------------------------------------------------------
(* The calls *)

CallType ==
  /\ cwd \in [Procs -> Inodes \cup {Null}]
  /\ pc \in [Procs -> PCs]
  /\ hand \in [Procs -> Seq(Files)] /\ \A p \in Procs : Len(hand[p]) <= 2
  /\ target \in [Procs -> Procs \cup Inodes \cup {Null}]

\* What process p has changes, as far as calls go; nobody else's does.
Alone(p) ==
  \A q \in Procs \ {p} :
    pc'[q] = pc[q] /\ target'[q] = target[q] /\ hand'[q] = hand[q] /\ cwd'[q] = cwd[q]

\* CallInv for one process.
AtCall(p) ==
  /\ cwd[p] = Null <=> pc[p] \in {"embryo", "dead"}
  /\ pc[p] = "open" => target[p] \in Inodes
  /\ pc[p] = "close" => target[p] \in Inodes \cup {Null}
  /\ pc[p] \notin {"open", "close", "fork"} => target[p] = Null
  /\ pc[p] \notin {"pipe", "close"} => hand[p] = <<>>

LEMMA AloneInv ==
  ASSUME CallInv, ForkInv, NEW p \in Procs, Alone(p), AtCall(p)',
         pc[p] \notin {"fork", "embryo"}, pc'[p] \notin {"fork", "embryo"}
  PROVE  CallInv' /\ ForkInv'
<1>1. CallInv'
  BY Zenon DEF CallInv, AtCall, Alone
<1>2. ForkInv'
  BY DEF ForkInv, Alone
<1> QED BY Zenon, <1>1, <1>2

LEMMA CallStep ==
  ASSUME Inv, [Next]_vars
  PROVE  CallType' /\ CallInv' /\ ForkInv'
<1>0. TypeOK /\ CallType /\ CallInv /\ ForkInv
  BY Zenon DEF Inv, TypeOK, CallType
<1>1. ASSUME UNCHANGED <<cwd, pc, hand, target>> PROVE CallType' /\ CallInv' /\ ForkInv'
  BY Zenon, <1>0, <1>1 DEF CallType, CallInv, ForkInv
<1>2. ASSUME NEW p \in Procs, CloseHand(p) PROVE CallType' /\ CallInv' /\ ForkInv'
  <2>1. pc[p] = "close" /\ cwd' = cwd /\ AtCall(p)
    BY Zenon, <1>0, <1>2 DEF CloseHand, Ready, CallInv, AtCall
  <2>2. CASE hand[p] = <<>>
    <3>1. /\ hand' = hand /\ pc' = [pc EXCEPT ![p] = "user"]
          /\ target' = [target EXCEPT ![p] = Null]
      BY Zenon, <1>2, <2>2 DEF CloseHand
    <3>2. CallType'
      BY Zenon, <1>0, <2>1, <3>1 DEF CallType, PCs
    <3>3. Alone(p) /\ pc'[p] = "user" /\ target'[p] = Null
      BY Zenon, <1>0, <2>1, <3>1 DEF Alone, CallType
    <3>4. AtCall(p)'
      BY Zenon, <2>1, <2>2, <3>1, <3>3 DEF AtCall
    <3> QED BY Zenon, <1>0, <2>1, <3>2, <3>3, <3>4, AloneInv
  <2>3. CASE hand[p] # <<>>
    <3>1. UNCHANGED <<pc, target>> /\ hand' = [hand EXCEPT ![p] = Tail(@)]
      BY Zenon, <1>2, <2>3 DEF CloseHand
    <3>2. Tail(hand[p]) \in Seq(Files) /\ Len(Tail(hand[p])) <= 2
      BY <1>0, <2>3 DEF CallType
    <3>3. CallType'
      BY Zenon, <1>0, <2>1, <3>1, <3>2 DEF CallType
    <3>4. Alone(p) /\ AtCall(p)'
      BY Zenon, <1>0, <2>1, <3>1 DEF Alone, CallType, AtCall
    <3> QED BY Zenon, <1>0, <2>1, <3>1, <3>3, <3>4, AloneInv
  <2> QED BY Zenon, <2>2, <2>3
<1>3. ASSUME NEW p \in Procs, SysPipe(p) \/ Exit(p) PROVE CallType' /\ CallInv' /\ ForkInv'
  <2>1. /\ AtCall(p) /\ pc[p] = "user" /\ UNCHANGED <<cwd, hand, target>>
        /\ \E l \in {"pipe", "exit"} : pc' = [pc EXCEPT ![p] = l]
    BY Zenon, <1>0, <1>3 DEF SysPipe, Exit, Ready, CallInv, AtCall
  <2>2. CallType' /\ Alone(p) /\ pc'[p] \in {"pipe", "exit"}
    BY Zenon, <1>0, <2>1 DEF CallType, Alone, PCs
  <2>3. AtCall(p)'
    BY Zenon, <2>1, <2>2 DEF AtCall
  <2> QED BY Zenon, <1>0, <2>1, <2>2, <2>3, AloneInv
<1>4. ASSUME NEW p \in Procs, PipeFile(p) PROVE CallType' /\ CallInv' /\ ForkInv'
  <2>1. AtCall(p) /\ pc[p] = "pipe" /\ UNCHANGED <<cwd, target>>
    BY Zenon, <1>0, <1>4 DEF PipeFile, Ready, CallInv, AtCall
  <2>2. CASE FreeFiles = {}
    <3>1. pc' = [pc EXCEPT ![p] = "close"] /\ hand' = hand
      BY Zenon, <1>4, <2>2 DEF PipeFile
    <3>2. CallType' /\ Alone(p) /\ pc'[p] = "close"
      BY Zenon, <1>0, <2>1, <3>1 DEF CallType, Alone, PCs
    <3>3. AtCall(p)'
      BY Zenon, <2>1, <3>1, <3>2 DEF AtCall
    <3> QED BY Zenon, <1>0, <2>1, <3>2, <3>3, AloneInv
  <2>3. CASE FreeFiles # {}
    <3>1. First(FreeFiles) \in Files
      BY Zenon, <1>0, <2>3, FirstOpen DEF FreeFiles
    <3>2. hand' = [hand EXCEPT ![p] = Append(@, First(FreeFiles))] /\ pc' = pc /\ Len(hand[p]) < 2
      BY Zenon, <1>4, <2>3 DEF PipeFile
    <3>3. /\ Append(hand[p], First(FreeFiles)) \in Seq(Files)
          /\ Len(Append(hand[p], First(FreeFiles))) <= 2
      BY <1>0, <3>1, <3>2 DEF CallType
    <3>4. CallType'
      BY Zenon, <1>0, <2>1, <3>2, <3>3 DEF CallType
    <3>5. Alone(p) /\ AtCall(p)'
      BY Zenon, <1>0, <2>1, <3>2 DEF Alone, CallType, AtCall
    <3> QED BY Zenon, <1>0, <2>1, <3>2, <3>4, <3>5, AloneInv
  <2> QED BY Zenon, <2>2, <2>3
<1>5. ASSUME NEW p \in Procs, PipeInstall(p) PROVE CallType' /\ CallInv' /\ ForkInv'
  <2>1. /\ UNCHANGED <<cwd, target>> /\ pc[p] = "pipe" /\ AtCall(p)
        /\ \/ pc' = [pc EXCEPT ![p] = "close"] /\ hand' = hand
           \/ pc' = [pc EXCEPT ![p] = "user"] /\ hand' = [hand EXCEPT ![p] = <<>>]
    BY Zenon, <1>0, <1>5 DEF PipeInstall, Ready, CallInv, AtCall
  <2>2. CallType' /\ Alone(p) /\ (pc'[p] = "close" \/ (pc'[p] = "user" /\ hand'[p] = <<>>))
    <3>1. <<>> \in Seq(Files) /\ Len(<<>>) = 0
      OBVIOUS
    <3>2. hand' \in [Procs -> Seq(Files)] /\ \A x \in Procs : Len(hand'[x]) <= 2
      <4>1. CASE hand' = hand
        BY Zenon, <1>0, <4>1 DEF CallType
      <4>2. CASE hand' = [hand EXCEPT ![p] = <<>>]
        BY <1>0, <3>1, <4>2 DEF CallType
      <4> QED BY Zenon, <2>1, <4>1, <4>2
    <3>3. pc' \in [Procs -> PCs]
      BY Zenon, <1>0, <2>1 DEF CallType, PCs
    <3>4. CallType'
      BY Zenon, <1>0, <2>1, <3>2, <3>3 DEF CallType
    <3> QED BY Zenon, <1>0, <2>1, <3>4 DEF CallType, Alone
  <2>3. AtCall(p)'
    BY Zenon, <2>1, <2>2 DEF AtCall
  <2> QED BY Zenon, <1>0, <2>1, <2>2, <2>3, AloneInv
<1>6. ASSUME NEW p \in Procs, NEW i \in Inodes, SysOpen(p, i) PROVE CallType' /\ CallInv' /\ ForkInv'
  <2>1. /\ UNCHANGED <<cwd, hand>> /\ pc[p] = "user" /\ AtCall(p)
        /\ pc' = [pc EXCEPT ![p] = "open"] /\ target' = [target EXCEPT ![p] = i]
    BY Zenon, <1>0, <1>6 DEF SysOpen, Ready, CallInv, AtCall
  <2>2. CallType' /\ Alone(p) /\ pc'[p] = "open" /\ target'[p] = i
    BY Zenon, <1>0, <2>1 DEF CallType, Alone, PCs
  <2>3. AtCall(p)'
    BY Zenon, <2>1, <2>2 DEF AtCall
  <2> QED BY Zenon, <1>0, <2>1, <2>2, <2>3, AloneInv
<1>7. ASSUME NEW p \in Procs, OpenFile(p) PROVE CallType' /\ CallInv' /\ ForkInv'
  <2>1. /\ cwd' = cwd /\ pc[p] = "open" /\ AtCall(p)
        /\ \/ pc' = [pc EXCEPT ![p] = "user"] /\ target' = [target EXCEPT ![p] = Null] /\ hand' = hand
           \/ pc' = [pc EXCEPT ![p] = "close"] /\ target' = target /\ hand' = hand
           \/ /\ pc' = [pc EXCEPT ![p] = "close"] /\ target' = target
              /\ \E f \in Files : hand' = [hand EXCEPT ![p] = <<f>>]
    <3>1. FreeFiles # {} => First(FreeFiles) \in Files
      BY Zenon, <1>0, FirstOpen DEF FreeFiles
    <3>2. cwd' = cwd /\ pc[p] = "open" /\ AtCall(p)
      BY Zenon, <1>0, <1>7 DEF OpenFile, Ready, CallInv, AtCall
    <3> QED BY Zenon, <1>7, <3>1, <3>2 DEF OpenFile
  <2>2. \A f \in Files : <<f>> \in Seq(Files) /\ Len(<<f>>) <= 2
    OBVIOUS
  <2>3. CallType'
    BY Zenon, <1>0, <2>1, <2>2 DEF CallType, PCs
  <2>4. /\ Alone(p)
        /\ \/ pc'[p] = "user" /\ target'[p] = Null /\ hand'[p] = hand[p]
           \/ pc'[p] = "close" /\ target'[p] = target[p]
    BY Zenon, <1>0, <2>1 DEF CallType, Alone
  <2>5. AtCall(p)'
    BY Zenon, <2>1, <2>4 DEF AtCall
  <2> QED BY Zenon, <1>0, <2>1, <2>3, <2>4, <2>5, AloneInv
<1>8. ASSUME NEW p \in Procs, NEW i \in Inodes, SysChdir(p, i) PROVE CallType' /\ CallInv' /\ ForkInv'
  <2>1. /\ UNCHANGED <<pc, hand, target>> /\ pc[p] = "user" /\ AtCall(p)
        /\ cwd' = [cwd EXCEPT ![p] = i]
    BY Zenon, <1>0, <1>8 DEF SysChdir, Ready, CallInv, AtCall
  <2>2. CallType' /\ Alone(p) /\ cwd'[p] = i /\ i # Null
    BY Zenon, <1>0, <2>1, FileAssumption DEF CallType, Alone
  <2>3. AtCall(p)'
    BY Zenon, <2>1, <2>2 DEF AtCall
  <2> QED BY Zenon, <1>0, <2>1, <2>2, <2>3, AloneInv
<1>9. ASSUME NEW p \in Procs, NEW q \in Procs, Fork(p, q) PROVE CallType' /\ CallInv' /\ ForkInv'
  <2>1. /\ UNCHANGED <<cwd, hand>> /\ pc[p] = "user" /\ pc[q] = "dead"
        /\ pc' = [pc EXCEPT ![p] = "fork", ![q] = "embryo"]
        /\ target' = [target EXCEPT ![p] = q]
    BY Zenon, <1>9 DEF Fork, Ready
  <2>2. CallType'
    BY Zenon, <1>0, <2>1 DEF CallType, PCs
  <2>3. /\ p # q /\ pc'[p] = "fork" /\ pc'[q] = "embryo" /\ target'[p] = q /\ target'[q] = target[q]
        /\ \A x \in Procs \ {p, q} : pc'[x] = pc[x] /\ target'[x] = target[x]
    BY Zenon, <1>0, <2>1 DEF CallType
  <2>4. CallInv'
    BY Zenon, <1>0, <2>1, <2>3 DEF CallInv
  <2>5. ForkInv'
    <3> SUFFICES ASSUME NEW x \in Procs, pc'[x] = "fork"
                 PROVE  /\ target'[x] \in Procs /\ pc'[target'[x]] = "embryo"
                        /\ \A y \in Procs \ {x} : pc'[y] = "fork" => target'[y] # target'[x]
      BY Zenon DEF ForkInv
    <3>1. \A y \in Procs \ {p} : pc'[y] = "fork" => y # q /\ pc[y] = "fork" /\ target'[y] = target[y]
      BY Zenon, <2>3
    <3>2. \A y \in Procs : pc[y] = "fork" => target[y] \in Procs \ {p, q}
      BY Zenon, <1>0, <2>1 DEF ForkInv
    <3>3. CASE x = p
      BY Zenon, <2>3, <3>1, <3>2, <3>3
    <3>4. CASE x # p
      <4>1. pc[x] = "fork" /\ target'[x] = target[x] /\ target[x] \in Procs \ {p, q}
        BY Zenon, <3>1, <3>2, <3>4
      <4>2. pc'[target[x]] = "embryo"
        BY Zenon, <1>0, <2>3, <4>1 DEF ForkInv
      <4>3. ASSUME NEW y \in Procs \ {x}, pc'[y] = "fork" PROVE target'[y] # target'[x]
        BY <1>0, <2>3, <3>1, <4>1, <4>3 DEF ForkInv
      <4> QED BY Zenon, <4>1, <4>2, <4>3
    <3> QED BY Zenon, <3>3, <3>4
  <2> QED BY Zenon, <2>2, <2>4, <2>5
<1>10. ASSUME NEW p \in Procs, ForkDone(p) PROVE CallType' /\ CallInv' /\ ForkInv'
  <2> DEFINE q == target[p]
  <2>1. /\ hand' = hand /\ pc[p] = "fork" /\ q \in Procs /\ pc[q] = "embryo"
        /\ cwd[p] \in Inodes /\ target[q] = Null
        /\ \A x \in Procs \ {p} : pc[x] = "fork" => target[x] # q
        /\ pc' = [pc EXCEPT ![p] = "user", ![q] = "user"]
        /\ target' = [target EXCEPT ![p] = Null]
        /\ cwd' = [cwd EXCEPT ![q] = cwd[p]]
    BY <1>0, <1>10 DEF ForkDone, Ready, ForkInv, CallInv, CallType
  <2> HIDE DEF q
  <2>2. CallType'
    BY Zenon, <1>0, <2>1 DEF CallType, PCs
  <2>3. /\ p # q /\ pc'[p] = "user" /\ pc'[q] = "user" /\ target'[p] = Null /\ target'[q] = Null
        /\ cwd'[p] = cwd[p] /\ cwd'[q] \in Inodes
        /\ \A x \in Procs \ {p, q} : pc'[x] = pc[x] /\ target'[x] = target[x] /\ cwd'[x] = cwd[x]
    BY Zenon, <1>0, <2>1 DEF CallType
  <2>4. CallInv'
    <3>1. UNCHANGED hand /\ cwd'[p] # Null /\ cwd'[q] # Null /\ hand[p] = <<>> /\ hand[q] = <<>>
      BY Zenon, <1>0, <2>1, <2>3, FileAssumption DEF CallInv
    <3> QED BY Zenon, <1>0, <2>3, <3>1 DEF CallInv
  <2>5. ForkInv'
    <3> SUFFICES ASSUME NEW x \in Procs, pc'[x] = "fork"
                 PROVE  /\ target'[x] \in Procs /\ pc'[target'[x]] = "embryo"
                        /\ \A y \in Procs \ {x} : pc'[y] = "fork" => target'[y] # target'[x]
      BY Zenon DEF ForkInv
    <3>1. \A y \in Procs : pc'[y] = "fork" =>
            y \notin {p, q} /\ pc[y] = "fork" /\ target'[y] = target[y]
      BY Zenon, <2>3
    <3>2. \A y \in Procs \ {p} : pc[y] = "fork" => target[y] \in Procs \ {p, q}
      BY Zenon, <1>0, <2>1 DEF ForkInv
    <3>3. pc'[target[x]] = pc[target[x]] /\ pc[x] = "fork" /\ target'[x] = target[x]
      BY Zenon, <2>3, <3>1, <3>2
    <3> QED BY <1>0, <3>1, <3>3 DEF ForkInv
  <2> QED BY Zenon, <2>2, <2>4, <2>5
<1>11. ASSUME NEW p \in Procs, ExitDone(p) PROVE CallType' /\ CallInv' /\ ForkInv'
  <2>1. /\ UNCHANGED <<hand, target>> /\ pc[p] = "exit" /\ AtCall(p)
        /\ pc' = [pc EXCEPT ![p] = "dead"] /\ cwd' = [cwd EXCEPT ![p] = Null]
    BY Zenon, <1>0, <1>11 DEF ExitDone, Ready, CallInv, AtCall
  <2>2. CallType' /\ Alone(p) /\ cwd'[p] = Null /\ pc'[p] = "dead"
    BY Zenon, <1>0, <2>1 DEF CallType, Alone, PCs
  <2>3. AtCall(p)'
    BY Zenon, <2>1, <2>2 DEF AtCall
  <2> QED BY Zenon, <1>0, <2>1, <2>2, <2>3, AloneInv
<1>12. ASSUME NEW p \in Procs,
              \/ Release(p) \/ ForkDup(p) \/ ExitClose(p)
              \/ \E fd \in Fds : SysDup(p, fd) \/ SysClose(p, fd)
       PROVE  UNCHANGED <<cwd, pc, hand, target>>
  BY Zenon, <1>12 DEF Release, ForkDup, ExitClose, SysDup, SysClose
<1>13. CASE UNCHANGED vars
  BY Zenon, <1>1, <1>13 DEF vars
<1> QED
  BY Zenon, <1>1, <1>2, <1>3, <1>4, <1>5, <1>6, <1>7, <1>8, <1>9, <1>10, <1>11, <1>12, <1>13 DEF Next

-----------------------------------------------------------------------------
(* The files *)

Puts == {<<>>} \cup {<<o>> : o \in Objects}

FileType ==
  /\ ref \in [Files -> Nat] /\ obj \in [Files -> Objects]
  /\ ofile \in [Procs -> [Fds -> Files \cup {Null}]]
  /\ put \in [Procs -> Puts]
  /\ panicked = FALSE

RefInv == FileType /\ HandInv /\ FreeInv /\ RefCounts

LEMMA InvType == Inv => CallType /\ RefInv
BY Zenon DEF Inv, TypeOK, CallType, RefInv, FileType, Puts

\* Two puts are the same only if their objects are.
LEMMA PutFacts == \A o, x : <<o>> # <<>> /\ (<<o>> = <<x>> => o = x)
BY Zenon

\* A file with a descriptor or in a hand is referred to.
LEMMA Referred ==
  ASSUME RefInv, NEW f \in Files, Descriptors(f) # {} \/ Allocated(f) # {}
  PROVE  ref[f] >= 1
<1>1. /\ Cardinality(Descriptors(f)) \in Nat /\ Cardinality(Allocated(f)) \in Nat
      /\ Cardinality(Descriptors(f)) # 0 \/ Cardinality(Allocated(f)) # 0
  BY Zenon, Sizes, FS_EmptySet
<1> QED BY <1>1 DEF RefInv, RefCounts

\* A free file has neither.
LEMMA Unreferred ==
  ASSUME RefInv, NEW f \in Files, ref[f] = 0
  PROVE  Descriptors(f) = {} /\ Allocated(f) = {} /\ obj[f] = None
<1>1. /\ Cardinality(Descriptors(f)) \in Nat /\ Cardinality(Allocated(f)) \in Nat
      /\ Cardinality(Descriptors(f)) = 0 => Descriptors(f) = {}
      /\ Cardinality(Allocated(f)) = 0 => Allocated(f) = {}
  BY Zenon, Sizes, FS_EmptySet
<1> QED BY <1>1 DEF RefInv, RefCounts, FreeInv

\* fileclose() of a file that is referred to.
LEMMA CloseFacts ==
  ASSUME RefInv, NEW p \in Procs, NEW f \in Files, put[p] = <<>>, ref[f] >= 1, FileClose(p, f)
  PROVE  /\ panicked' = FALSE
         /\ ref' = [ref EXCEPT ![f] = @ - 1]
         /\ ref' \in [Files -> Nat] /\ obj' \in [Files -> Objects] /\ put' \in [Procs -> Puts]
         /\ FreeInv'
         /\ \A g \in Files \ {f} : obj'[g] = obj[g]
         /\ \A o \in Objects \ {None} : Count(o)' = Count(o)
<1>0. FileType /\ FreeInv
  BY Zenon DEF RefInv
<1>1. /\ panicked' = FALSE
      /\ ref' = [ref EXCEPT ![f] = @ - 1]
      /\ IF Last(f) THEN obj' = Cleared(f) /\ put' = [put EXCEPT ![p] = <<obj[f]>>]
         ELSE UNCHANGED <<obj, put>>
  BY <1>0 DEF FileClose, FileType
<1>2. ref' \in [Files -> Nat] /\ ref'[f] = ref[f] - 1 /\ \A g \in Files \ {f} : ref'[g] = ref[g]
  BY <1>0, <1>1 DEF FileType
<1>3. CASE ~Last(f)
  <2>1. UNCHANGED <<obj, put>> /\ ref[f] > 1
    BY <1>0, <1>1, <1>3 DEF Last, FileType
  <2>2. \A g \in Files : (ref'[g] > 0 <=> ref[g] > 0) /\ (ref'[g] = 0 <=> ref[g] = 0)
    BY <1>0, <1>2, <2>1 DEF FileType
  <2>3. FreeInv'
    BY Zenon, <1>0, <2>1, <2>2 DEF FreeInv
  <2>4. \A o : Using(o)' = Using(o) /\ Pending(o)' = Pending(o)
    BY Zenon, <2>1, <2>2 DEF Using, Pending
  <2> QED BY Zenon, <1>0, <1>1, <1>2, <2>1, <2>3, <2>4 DEF FileType, Count
<1>4. CASE Last(f)
  <2>1. /\ obj' = [obj EXCEPT ![f] = None] /\ put' = [put EXCEPT ![p] = <<obj[f]>>]
        /\ ref[f] = 1 /\ ref'[f] = 0
    BY <1>1, <1>2, <1>4 DEF Last, Cleared
  <2>2. obj' \in [Files -> Objects] /\ obj'[f] = None /\ \A g \in Files \ {f} : obj'[g] = obj[g]
    BY <1>0, <2>1, ObjectFacts DEF FileType
  <2>3. /\ put' \in [Procs -> Puts] /\ put'[p] = <<obj[f]>>
        /\ \A q \in Procs \ {p} : put'[q] = put[q]
    BY Zenon, <1>0, <2>1 DEF FileType, Puts
  <2>4. FreeInv'
    BY Zenon, <1>0, <1>2, <2>1, <2>2 DEF FreeInv
  <2>5. ASSUME NEW o \in Objects \ {None} PROVE Count(o)' = Count(o)
    <3>1. Using(o)' = Using(o) \ {f}
      BY Zenon, <1>2, <2>1, <2>2 DEF Using
    <3>2. p \notin Pending(o)
      BY Zenon, PutFacts DEF Pending
    <3>3. CASE obj[f] = o
      <4>1. f \in Using(o) /\ Pending(o)' = Pending(o) \cup {p}
        BY <2>1, <2>3, <3>3 DEF Using, Pending
      <4> QED BY <3>1, <3>2, <4>1, Sizes, CardPlus, CardMinus DEF Count
    <3>4. CASE obj[f] # o
      <4>1. Using(o)' = Using(o) /\ Pending(o)' = Pending(o)
        BY <2>3, <3>1, <3>4, PutFacts DEF Using, Pending
      <4> QED BY Zenon, <4>1 DEF Count
    <3> QED BY Zenon, <3>3, <3>4
  <2> QED BY Zenon, <1>1, <1>2, <2>2, <2>3, <2>4, <2>5
<1> QED BY Zenon, <1>3, <1>4

\* filedup() of a file that is referred to.
LEMMA DupFacts ==
  ASSUME RefInv, NEW f \in Files, ref[f] >= 1, FileDup(f), UNCHANGED <<obj, put>>
  PROVE  /\ panicked' = FALSE
         /\ ref' = [ref EXCEPT ![f] = @ + 1]
         /\ ref' \in [Files -> Nat]
         /\ FreeInv'
         /\ \A o : Count(o)' = Count(o)
<1>0. FileType /\ FreeInv
  BY Zenon DEF RefInv
<1>1. panicked' = FALSE /\ ref' = [ref EXCEPT ![f] = @ + 1]
  BY <1>0 DEF FileDup, FileType
<1>2. \A g \in Files : (ref'[g] > 0 <=> ref[g] > 0) /\ (ref'[g] = 0 <=> ref[g] = 0)
  BY <1>0, <1>1 DEF FileType
<1>3. FreeInv'
  BY Zenon, <1>0, <1>2 DEF FreeInv
<1>4. \A o : Using(o)' = Using(o) /\ Pending(o)' = Pending(o)
  BY Zenon, <1>2 DEF Using, Pending
<1> QED BY <1>0, <1>1, <1>3, <1>4 DEF FileType, Count

\* filealloc(): the file has one reference now, and may be given an object.
LEMMA AllocFacts ==
  ASSUME RefInv, NEW f \in Files, ref[f] = 0, ref' = [ref EXCEPT ![f] = 1],
         NEW x \in Objects, obj' = [obj EXCEPT ![f] = x], UNCHANGED put
  PROVE  /\ ref' \in [Files -> Nat] /\ obj' \in [Files -> Objects]
         /\ FreeInv'
         /\ \A o \in Objects \ {None} : Count(o)' = Count(o) + (IF o = x THEN 1 ELSE 0)
<1>0. FileType /\ FreeInv /\ obj[f] = None
  BY Zenon DEF RefInv, FreeInv
<1>1. /\ ref' \in [Files -> Nat] /\ ref'[f] = 1 /\ \A g \in Files \ {f} : ref'[g] = ref[g]
      /\ obj' \in [Files -> Objects] /\ obj'[f] = x /\ \A g \in Files \ {f} : obj'[g] = obj[g]
  BY Zenon, <1>0 DEF FileType
<1>2. FreeInv'
  BY <1>0, <1>1 DEF FreeInv
<1>3. ASSUME NEW o \in Objects \ {None} PROVE Count(o)' = Count(o) + (IF o = x THEN 1 ELSE 0)
  <2>1. f \notin Using(o) /\ Pending(o)' = Pending(o)
    BY DEF Using, Pending
  <2>2. Using(o)' = IF o = x THEN Using(o) \cup {f} ELSE Using(o)
    BY <1>1, <2>1 DEF Using
  <2>3. Cardinality(Using(o) \cup {f}) = Cardinality(Using(o)) + 1
    BY Zenon, <2>1, Sizes, CardPlus
  <2>4. Cardinality(Using(o)) \in Nat /\ Cardinality(Pending(o)) \in Nat
    BY Zenon, Sizes
  <2>5. CASE o = x
    BY <2>1, <2>2, <2>3, <2>4, <2>5 DEF Count
  <2>6. CASE o # x
    BY <2>1, <2>2, <2>4, <2>6 DEF Count
  <2> QED BY Zenon, <2>5, <2>6
<1> QED BY Zenon, <1>1, <1>2, <1>3

\* One descriptor is set to x: f loses it, or x gains it.
LEMMA SlotFacts ==
  ASSUME FileType, NEW p \in Procs, NEW fd \in Fds, NEW x \in Files \cup {Null},
         ofile' = [ofile EXCEPT ![p][fd] = x]
  PROVE  /\ ofile' \in [Procs -> [Fds -> Files \cup {Null}]]
         /\ \A f \in Files :
              Descriptors(f)' = IF f = x THEN Descriptors(f) \cup {<<p, fd>>}
                                ELSE Descriptors(f) \ {<<p, fd>>}
         /\ \A f : <<p, fd>> \in Descriptors(f) <=> ofile[p][fd] = f
<1>1. ofile' \in [Procs -> [Fds -> Files \cup {Null}]]
  BY Zenon DEF FileType
<1>2. \A q \in Procs, d \in Fds : ofile'[q][d] = IF q = p /\ d = fd THEN x ELSE ofile[q][d]
  BY Zenon DEF FileType
<1>3. ASSUME NEW f
      PROVE  Descriptors(f)' = IF f = x THEN Descriptors(f) \cup {<<p, fd>>}
                               ELSE Descriptors(f) \ {<<p, fd>>}
  <2>1. \A e \in Procs \X Fds :
          /\ e = <<e[1], e[2]>> /\ e[1] \in Procs /\ e[2] \in Fds
          /\ e = <<p, fd>> <=> e[1] = p /\ e[2] = fd
    OBVIOUS
  <2>2. \A e \in Procs \X Fds : ofile'[e[1]][e[2]] = IF e = <<p, fd>> THEN x ELSE ofile[e[1]][e[2]]
    BY <1>2, <2>1
  <2>3. <<p, fd>> \in Procs \X Fds
    BY Zenon
  <2> QED BY Zenon, <2>2, <2>3 DEF Descriptors
<1>4. \A f : <<p, fd>> \in Descriptors(f) <=> ofile[p][fd] = f
  BY Zenon DEF Descriptors
<1> QED BY Zenon, <1>1, <1>3, <1>4

LEMMA CloseSlot ==
  ASSUME RefInv, CallType, NEW p \in Procs, NEW fd \in Open(p), put[p] = <<>>,
         FileClose(p, ofile[p][fd]), ofile' = [ofile EXCEPT ![p][fd] = Null], UNCHANGED <<hand, pc>>
  PROVE  RefInv' /\ \A o \in Objects \ {None} : Count(o)' = Count(o)
<1> DEFINE f == ofile[p][fd]
<1>0. FileType /\ HandInv /\ RefCounts
  BY Zenon DEF RefInv
<1>1. fd \in Fds /\ f \in Files /\ Null \notin Files
  BY <1>0, FileAssumption DEF Open, FileType, Files
<1>2. /\ ofile' \in [Procs -> [Fds -> Files \cup {Null}]]
      /\ \A g \in Files : Descriptors(g)' = Descriptors(g) \ {<<p, fd>>}
      /\ \A g : <<p, fd>> \in Descriptors(g) <=> g = f
  <2>1. /\ ofile' \in [Procs -> [Fds -> Files \cup {Null}]]
        /\ \A g \in Files :
             Descriptors(g)' = IF g = Null THEN Descriptors(g) \cup {<<p, fd>>}
                               ELSE Descriptors(g) \ {<<p, fd>>}
        /\ \A g : <<p, fd>> \in Descriptors(g) <=> f = g
    BY Zenon, <1>0, <1>1, SlotFacts
  <2> QED BY Zenon, <1>1, <2>1
<1>3. ref[f] >= 1
  BY Zenon, <1>1, <1>2, Referred
<1>4. /\ panicked' = FALSE
      /\ ref' = [ref EXCEPT ![f] = @ - 1]
      /\ ref' \in [Files -> Nat] /\ obj' \in [Files -> Objects] /\ put' \in [Procs -> Puts]
      /\ FreeInv'
      /\ \A g \in Files \ {f} : obj'[g] = obj[g]
      /\ \A o \in Objects \ {None} : Count(o)' = Count(o)
  BY Zenon, <1>1, <1>3, CloseFacts
<1>5. \A g : Allocated(g)' = Allocated(g)
  BY Zenon DEF Allocated
<1> HIDE DEF f
<1>6. RefCounts'
  <2> SUFFICES ASSUME NEW g \in Files
               PROVE  ref'[g] = Cardinality(Descriptors(g)') + Cardinality(Allocated(g)')
    BY Zenon DEF RefCounts
  <2>1. ref[g] = Cardinality(Descriptors(g)) + Cardinality(Allocated(g))
    BY Zenon, <1>0 DEF RefCounts
  <2>2. ref'[g] = IF g = f THEN ref[g] - 1 ELSE ref[g]
    BY Zenon, <1>0, <1>1, <1>4 DEF FileType
  <2>3. Cardinality(Descriptors(g)) \in Nat /\ Cardinality(Allocated(g)) \in Nat
    BY Zenon, Sizes
  <2>4. CASE g = f
    <3>1. Cardinality(Descriptors(g)') = Cardinality(Descriptors(g)) - 1
      BY Zenon, <1>2, <2>4, Sizes, CardMinus
    <3> QED BY <1>5, <2>1, <2>2, <2>3, <2>4, <3>1
  <2>5. CASE g # f
    <3>1. Descriptors(g)' = Descriptors(g)
      BY Zenon, <1>2, <2>5
    <3> QED BY Zenon, <1>5, <2>1, <2>2, <2>5, <3>1
  <2> QED BY Zenon, <2>4, <2>5
<1>7. HandInv'
  <2> SUFFICES ASSUME NEW g \in Files, NEW e \in Allocated(g)'
               PROVE  /\ Descriptors(g)' = {} /\ Allocated(g)' = {e}
                      /\ pc'[e[1]] = "pipe" => obj'[g] = None
    BY Zenon DEF HandInv
  <2>1. /\ Descriptors(g) = {} /\ Allocated(g) = {e}
        /\ pc[e[1]] = "pipe" => obj[g] = None
    BY Zenon, <1>0, <1>5 DEF HandInv
  <2>2. g # f
    BY Zenon, <1>2, <2>1
  <2> QED BY Zenon, <1>2, <1>4, <1>5, <2>1, <2>2
<1> QED BY Zenon, <1>2, <1>4, <1>6, <1>7 DEF RefInv, FileType

LEMMA RemoveAbsent == ASSUME NEW S, NEW x, x \notin S PROVE S \ {x} = S
BY Zenon

LEMMA DupSlot ==
  ASSUME RefInv, NEW p \in Procs, NEW fd \in Fds, ofile[p][fd] = Null,
         NEW f \in Files, Descriptors(f) # {}, FileDup(f),
         ofile' = [ofile EXCEPT ![p][fd] = f], UNCHANGED <<hand, pc, obj, put>>
  PROVE  RefInv' /\ \A o : Count(o)' = Count(o)
<1>0. FileType /\ HandInv /\ RefCounts /\ f # Null
  BY Zenon, FileAssumption DEF RefInv, Files
<1>1. /\ ofile' \in [Procs -> [Fds -> Files \cup {Null}]]
      /\ \A g \in Files : Descriptors(g)' = IF g = f THEN Descriptors(g) \cup {<<p, fd>>}
                                            ELSE Descriptors(g) \ {<<p, fd>>}
      /\ \A g \in Files : <<p, fd>> \notin Descriptors(g)
  <2>1. \A g \in Files : g # Null
    BY Zenon, FileAssumption DEF Files
  <2>2. /\ ofile' \in [Procs -> [Fds -> Files \cup {Null}]]
        /\ \A g \in Files : Descriptors(g)' = IF g = f THEN Descriptors(g) \cup {<<p, fd>>}
                                              ELSE Descriptors(g) \ {<<p, fd>>}
        /\ \A g : <<p, fd>> \in Descriptors(g) <=> ofile[p][fd] = g
    BY Zenon, <1>0, SlotFacts
  <2> QED BY Zenon, <2>1, <2>2
<1>2. ref[f] >= 1
  BY Zenon, Referred
<1>3. /\ panicked' = FALSE
      /\ ref' = [ref EXCEPT ![f] = @ + 1]
      /\ ref' \in [Files -> Nat]
      /\ FreeInv'
      /\ \A o : Count(o)' = Count(o)
  BY Zenon, <1>2, DupFacts
<1>4. \A g : Allocated(g)' = Allocated(g)
  BY Zenon DEF Allocated
<1>5. RefCounts'
  <2> SUFFICES ASSUME NEW g \in Files
               PROVE  ref'[g] = Cardinality(Descriptors(g)') + Cardinality(Allocated(g)')
    BY Zenon DEF RefCounts
  <2>1. ref[g] = Cardinality(Descriptors(g)) + Cardinality(Allocated(g))
    BY Zenon, <1>0 DEF RefCounts
  <2>2. ref'[g] = IF g = f THEN ref[g] + 1 ELSE ref[g]
    BY Zenon, <1>0, <1>3 DEF FileType
  <2>3. Cardinality(Descriptors(g)) \in Nat /\ Cardinality(Allocated(g)) \in Nat
    BY Zenon, Sizes
  <2>4. CASE g = f
    <3>1. Cardinality(Descriptors(g)') = Cardinality(Descriptors(g)) + 1
      BY Zenon, <1>1, <2>4, Sizes, CardPlus
    <3> QED BY <1>4, <2>1, <2>2, <2>3, <2>4, <3>1
  <2>5. CASE g # f
    <3>1. Descriptors(g)' = Descriptors(g) \ {<<p, fd>>} /\ <<p, fd>> \notin Descriptors(g)
      BY Zenon, <1>1, <2>5
    <3>2. Descriptors(g)' = Descriptors(g)
      BY Zenon, <3>1, RemoveAbsent
    <3> QED BY Zenon, <1>4, <2>1, <2>2, <2>5, <3>2
  <2> QED BY Zenon, <2>4, <2>5
<1>6. HandInv'
  <2> SUFFICES ASSUME NEW g \in Files, NEW e \in Allocated(g)'
               PROVE  /\ Descriptors(g)' = {} /\ Allocated(g)' = {e}
                      /\ pc'[e[1]] = "pipe" => obj'[g] = None
    BY Zenon DEF HandInv
  <2>1. /\ Descriptors(g) = {} /\ Allocated(g) = {e}
        /\ pc[e[1]] = "pipe" => obj[g] = None
    BY Zenon, <1>0, <1>4 DEF HandInv
  <2>2. g # f
    BY Zenon, <2>1
  <2> QED BY Zenon, <1>1, <1>4, <2>1, <2>2
<1> QED BY Zenon, <1>0, <1>1, <1>3, <1>5, <1>6 DEF RefInv, FileType

\* Pairs of a process and a place are all there is in Allocated.
LEMMA Pairs ==
  ASSUME NEW f
  PROVE  /\ Allocated(f) \subseteq Procs \X (1 .. 2) /\ Allocated(f)' \subseteq Procs \X (1 .. 2)
         /\ \A e \in Procs \X (1 .. 2) : \E q \in Procs, k \in 1 .. 2 : e = <<q, k>>
BY DEF Allocated

\* A call allocates a file and keeps it at hand.
LEMMA AllocHand ==
  ASSUME RefInv, CallType, NEW p \in Procs, NEW f \in Files, ref[f] = 0, ref' = [ref EXCEPT ![f] = 1],
         Len(hand[p]) < 2, hand' = [hand EXCEPT ![p] = Append(@, f)],
         UNCHANGED <<obj, put, ofile, panicked>>,
         \A q \in Procs : pc'[q] = "pipe" => pc[q] = "pipe"
  PROVE  RefInv' /\ \A o \in Objects \ {None} : Count(o)' = Count(o)
<1> DEFINE n == Len(hand[p]) + 1
<1>0. FileType /\ HandInv /\ RefCounts /\ n \in 1 .. 2
  <2>1. Len(hand[p]) \in Nat
    BY DEF CallType
  <2> QED BY <2>1 DEF RefInv
<1>1. Descriptors(f) = {} /\ Allocated(f) = {} /\ obj[f] = None
  BY Zenon, Unreferred
<1>2. \A g : Descriptors(g)' = Descriptors(g)
  BY Zenon DEF Descriptors
<1>3. \A g \in Files : Allocated(g)' = IF g = f THEN {<<p, n>>} ELSE Allocated(g)
  <2>1. \A q \in Procs \ {p} : hand'[q] = hand[q]
    BY Zenon DEF CallType
  <2>2. /\ Len(hand'[p]) = n /\ hand'[p][n] = f
        /\ \A k \in 1 .. Len(hand[p]) : hand'[p][k] = hand[p][k]
    BY DEF CallType
  <2> SUFFICES ASSUME NEW g \in Files PROVE Allocated(g)' = IF g = f THEN {<<p, n>>} ELSE Allocated(g)
    BY Zenon
  <2>3. ASSUME NEW q \in Procs, NEW k \in 1 .. 2
        PROVE  <<q, k>> \in Allocated(g)' <=> (<<q, k>> \in Allocated(g) \/ (q = p /\ k = n /\ g = f))
    <3>0. /\ <<q, k>> \in Allocated(g)' <=> k <= Len(hand'[q]) /\ hand'[q][k] = g
          /\ <<q, k>> \in Allocated(g) <=> k <= Len(hand[q]) /\ hand[q][k] = g
      BY Zenon DEF Allocated
    <3>1. CASE q # p
      BY Zenon, <2>1, <3>0, <3>1
    <3>2. CASE q = p
      <4>1. Len(hand[p]) = n - 1 /\ Len(hand[p]) \in Nat
        BY DEF CallType
      <4>2. k \in 1 .. n - 1 \/ k = n \/ k > n
        BY <1>0
      <4>3. k \in 1 .. n - 1 => hand'[p][k] = hand[p][k]
        BY Zenon, <2>2, <4>1
      <4> HIDE DEF n
      <4> QED BY <1>0, <2>2, <3>0, <3>2, <4>1, <4>2, <4>3
    <3> QED BY Zenon, <3>1, <3>2
  <2>4. g = f => Allocated(g) = {}
    BY Zenon, <1>1
  <2>5. <<p, n>> \in Procs \X (1 .. 2)
    BY Zenon, <1>0
  <2> HIDE DEF n
  <2>6. ASSUME NEW e PROVE e \in Allocated(g)' <=> (e \in Allocated(g) \/ (e = <<p, n>> /\ g = f))
    <3>1. CASE e \in Procs \X (1 .. 2)
      <4>1. PICK q \in Procs, k \in 1 .. 2 : e = <<q, k>>
        BY <3>1
      <4>2. e = <<p, n>> <=> q = p /\ k = n
        BY Zenon, <4>1
      <4> QED BY Zenon, <2>3, <4>1, <4>2
    <3>2. CASE e \notin Procs \X (1 .. 2)
      BY Zenon, <2>5, <3>2, Pairs
    <3> QED BY Zenon, <3>1, <3>2
  <2> QED BY Zenon, <2>4, <2>6
<1> HIDE DEF n
<1>4. /\ ref' \in [Files -> Nat] /\ FreeInv'
      /\ \A o \in Objects \ {None} : Count(o)' = Count(o)
  <2>1. obj' = [obj EXCEPT ![f] = None]
    BY Zenon, <1>0, <1>1 DEF FileType
  <2>2. None \in Objects
    BY Zenon, ObjectFacts
  <2>3. /\ ref' \in [Files -> Nat] /\ FreeInv'
        /\ \A o \in Objects \ {None} : Count(o)' = Count(o) + (IF o = None THEN 1 ELSE 0)
    BY Zenon, <2>1, <2>2, AllocFacts
  <2> QED BY <2>3, CountType
<1>5. RefCounts'
  <2> SUFFICES ASSUME NEW g \in Files
               PROVE  ref'[g] = Cardinality(Descriptors(g)') + Cardinality(Allocated(g)')
    BY Zenon DEF RefCounts
  <2>1. CASE g = f
    <3>1. ref'[g] = 1
      BY Zenon, <1>0, <2>1 DEF FileType
    <3>2. Descriptors(g)' = {} /\ Allocated(g)' = {<<p, n>>}
      BY Zenon, <1>1, <1>2, <1>3, <2>1
    <3>3. Cardinality({}) = 0 /\ Cardinality({<<p, n>>}) = 1
      BY Zenon, FS_EmptySet, FS_Singleton
    <3> QED BY <3>1, <3>2, <3>3
  <2>2. CASE g # f
    <3>1. ref'[g] = ref[g]
      BY Zenon, <1>0, <2>2 DEF FileType
    <3> QED BY Zenon, <1>0, <1>2, <1>3, <2>2, <3>1 DEF RefCounts
  <2> QED BY Zenon, <2>1, <2>2
<1>6. HandInv'
  <2> SUFFICES ASSUME NEW g \in Files, NEW e \in Allocated(g)'
               PROVE  /\ Descriptors(g)' = {} /\ Allocated(g)' = {e}
                      /\ pc'[e[1]] = "pipe" => obj'[g] = None
    BY Zenon DEF HandInv
  <2>1. CASE g = f
    BY Zenon, <1>1, <1>2, <1>3, <2>1
  <2>2. CASE g # f
    <3>1. e \in Allocated(g) /\ e[1] \in Procs
      BY <1>3, <2>2, Pairs
    <3> QED BY Zenon, <1>0, <1>2, <1>3, <2>2, <3>1 DEF HandInv
  <2> QED BY Zenon, <2>1, <2>2
<1> QED BY Zenon, <1>0, <1>4, <1>5, <1>6 DEF RefInv, FileType

\* The first file at hand: only this call refers to it.
LEMMA AtHand ==
  ASSUME RefInv, CallType, NEW p \in Procs, NEW k \in 1 .. Len(hand[p])
  PROVE  /\ hand[p][k] \in Files
         /\ Descriptors(hand[p][k]) = {} /\ Allocated(hand[p][k]) = {<<p, k>>}
         /\ ref[hand[p][k]] = 1
         /\ pc[p] = "pipe" => obj[hand[p][k]] = None
<1> DEFINE f == hand[p][k]
<1>1. f \in Files /\ k \in 1 .. 2
  BY DEF CallType
<1>2. <<p, k>> \in Allocated(f) /\ <<p, k>>[1] = p
  BY <1>1 DEF Allocated
<1> HIDE DEF f
<1>3. /\ Descriptors(f) = {} /\ Allocated(f) = {<<p, k>>}
      /\ pc[p] = "pipe" => obj[f] = None
  BY Zenon, <1>1, <1>2 DEF RefInv, HandInv
<1>4. Cardinality({}) = 0 /\ Cardinality({<<p, k>>}) = 1
  BY Zenon, FS_EmptySet, FS_Singleton
<1>5. ref[f] = Cardinality(Descriptors(f)) + Cardinality(Allocated(f))
  BY Zenon, <1>1 DEF RefInv, RefCounts
<1>6. ref[f] = 1
  BY <1>3, <1>4, <1>5
<1> QED BY Zenon, <1>1, <1>3, <1>6 DEF f

\* The error paths close the first file at hand.
LEMMA CloseFirst ==
  ASSUME RefInv, CallType, NEW p \in Procs, put[p] = <<>>, hand[p] # <<>>,
         FileClose(p, Head(hand[p])), hand' = [hand EXCEPT ![p] = Tail(@)], UNCHANGED <<ofile, pc>>
  PROVE  RefInv' /\ \A o \in Objects \ {None} : Count(o)' = Count(o)
<1> DEFINE f == hand[p][1]
<1>0. FileType /\ HandInv /\ RefCounts
  BY Zenon DEF RefInv
<1>1. /\ Head(hand[p]) = f /\ Len(hand[p]) \in 1 .. 2
      /\ Len(hand'[p]) = Len(hand[p]) - 1
      /\ Len(hand[p]) = 2 => hand'[p][1] = hand[p][2]
      /\ \A q \in Procs \ {p} : hand'[q] = hand[q]
  <2>1. hand[p] \in Seq(Files) /\ Len(hand[p]) \in Nat /\ Len(hand[p]) # 0 /\ Len(hand[p]) <= 2
    BY DEF CallType
  <2>2. hand'[p] = Tail(hand[p]) /\ \A q \in Procs \ {p} : hand'[q] = hand[q]
    BY Zenon DEF CallType
  <2>3. /\ Len(Tail(hand[p])) = Len(hand[p]) - 1 /\ Head(hand[p]) = hand[p][1]
        /\ Len(hand[p]) = 2 => Tail(hand[p])[1] = hand[p][2]
    BY <2>1
  <2>4. \A n \in Nat : n # 0 /\ n <= 2 => n \in 1 .. 2
    OBVIOUS
  <2> QED BY Zenon, <2>1, <2>2, <2>3, <2>4
<1>2. f \in Files /\ Descriptors(f) = {} /\ Allocated(f) = {<<p, 1>>} /\ ref[f] = 1
  BY <1>1, AtHand
<1>3. /\ panicked' = FALSE
      /\ ref' = [ref EXCEPT ![f] = @ - 1]
      /\ ref' \in [Files -> Nat] /\ obj' \in [Files -> Objects] /\ put' \in [Procs -> Puts]
      /\ FreeInv'
      /\ \A g \in Files \ {f} : obj'[g] = obj[g]
      /\ \A o \in Objects \ {None} : Count(o)' = Count(o)
  <2>1. FileClose(p, f) /\ ref[f] >= 1
    BY <1>1, <1>2
  <2> QED BY Zenon, <1>2, <2>1, CloseFacts
<1>4. \A g : Descriptors(g)' = Descriptors(g)
  BY Zenon DEF Descriptors
<1>5. ASSUME NEW g, NEW e \in Procs \X (1 .. 2)
      PROVE  /\ e \in Allocated(g)' <=> \/ e[1] # p /\ e \in Allocated(g)
                                        \/ e = <<p, 1>> /\ <<p, 2>> \in Allocated(g)
             /\ e[1] = p => e = <<p, 1>> \/ e = <<p, 2>>
             /\ <<p, 1>> \in Allocated(g) => g = f
  <2>1. PICK q \in Procs, k \in 1 .. 2 : e = <<q, k>>
    OBVIOUS
  <2>2. /\ <<q, k>> \in Allocated(g)' <=> k <= Len(hand'[q]) /\ hand'[q][k] = g
        /\ <<q, k>> \in Allocated(g) <=> k <= Len(hand[q]) /\ hand[q][k] = g
        /\ <<p, 2>> \in Allocated(g) <=> 2 <= Len(hand[p]) /\ hand[p][2] = g
        /\ <<p, 1>> \in Allocated(g) => hand[p][1] = g
    BY DEF Allocated
  <2>3. e[1] = q /\ (k = 1 \/ k = 2) /\ (e = <<p, 1>> <=> q = p /\ k = 1)
    BY <2>1
  <2>4. CASE q # p
    BY Zenon, <1>1, <2>1, <2>2, <2>3, <2>4
  <2>5. CASE q = p
    <3>1. CASE k = 1
      BY <1>1, <2>1, <2>2, <2>3, <2>5, <3>1
    <3>2. CASE k = 2
      BY <1>1, <2>1, <2>2, <2>3, <2>5, <3>2
    <3> QED BY Zenon, <2>3, <3>1, <3>2
  <2> QED BY Zenon, <2>4, <2>5
<1>6. /\ <<p, 1>> \in Procs \X (1 .. 2) /\ <<p, 2>> \in Procs \X (1 .. 2) /\ <<p, 1>> # <<p, 2>>
      /\ <<p, 1>>[1] = p /\ <<p, 2>>[1] = p
  OBVIOUS
<1> HIDE DEF f
<1>7. ASSUME NEW g \in Files
      PROVE  /\ g = f => Allocated(g)' = {}
             /\ <<p, 2>> \in Allocated(g) => g # f /\ Allocated(g) = {<<p, 2>>} /\ Allocated(g)' = {<<p, 1>>}
             /\ g # f /\ <<p, 2>> \notin Allocated(g) => Allocated(g)' = Allocated(g)
  <2>1. Allocated(g) \subseteq Procs \X (1 .. 2) /\ Allocated(g)' \subseteq Procs \X (1 .. 2)
    BY Zenon, Pairs
  <2>2. \A e \in Procs \X (1 .. 2) :
             /\ e \in Allocated(g)' <=> \/ e[1] # p /\ e \in Allocated(g)
                                        \/ e = <<p, 1>> /\ <<p, 2>> \in Allocated(g)
             /\ e[1] = p => e = <<p, 1>> \/ e = <<p, 2>>
    BY Zenon, <1>5
  <2>3. <<p, 1>> \in Allocated(g) => g = f
    BY Zenon, <1>5, <1>6
  <2>4. <<p, 2>> \in Allocated(g) => g # f /\ Allocated(g) = {<<p, 2>>}
    BY Zenon, <1>0, <1>2, <1>6 DEF HandInv
  <2>5. ASSUME g = f PROVE Allocated(g)' = {}
    BY Zenon, <1>2, <1>6, <2>1, <2>2, <2>5
  <2>6. ASSUME <<p, 2>> \in Allocated(g) PROVE Allocated(g)' = {<<p, 1>>}
    BY Zenon, <1>6, <2>1, <2>2, <2>4, <2>6
  <2>7. ASSUME g # f, <<p, 2>> \notin Allocated(g) PROVE Allocated(g)' = Allocated(g)
    BY Zenon, <2>1, <2>2, <2>3, <2>7
  <2> QED BY Zenon, <2>4, <2>5, <2>6, <2>7
<1>8. RefCounts'
  <2> SUFFICES ASSUME NEW g \in Files
               PROVE  ref'[g] = Cardinality(Descriptors(g)') + Cardinality(Allocated(g)')
    BY Zenon DEF RefCounts
  <2>1. \A e : Cardinality({e}) = 1
    BY Zenon, FS_Singleton
  <2>2. Cardinality({}) = 0
    BY Zenon, FS_EmptySet
  <2>3. ref[g] = Cardinality(Descriptors(g)) + Cardinality(Allocated(g))
    BY Zenon, <1>0 DEF RefCounts
  <2>4. CASE g = f
    <3>1. ref'[g] = 0
      BY <1>0, <1>2, <1>3, <2>4 DEF FileType
    <3>2. Descriptors(g)' = {} /\ Allocated(g)' = {}
      BY Zenon, <1>2, <1>4, <1>7, <2>4
    <3> QED BY <2>2, <3>1, <3>2
  <2>5. CASE g # f
    <3>1. ref'[g] = ref[g]
      BY Zenon, <1>0, <1>2, <1>3, <2>5 DEF FileType
    <3>2. Cardinality(Allocated(g)') = Cardinality(Allocated(g))
      BY Zenon, <1>7, <2>1, <2>5
    <3> QED BY Zenon, <1>4, <2>3, <3>1, <3>2
  <2> QED BY Zenon, <2>4, <2>5
<1>9. HandInv'
  <2> SUFFICES ASSUME NEW g \in Files, NEW e \in Allocated(g)'
               PROVE  /\ Descriptors(g)' = {} /\ Allocated(g)' = {e}
                      /\ pc'[e[1]] = "pipe" => obj'[g] = None
    BY Zenon DEF HandInv
  <2>1. g # f
    BY Zenon, <1>7
  <2>2. CASE <<p, 2>> \in Allocated(g)
    <3>1. e = <<p, 1>> /\ e[1] = p /\ Allocated(g)' = {e} /\ <<p, 2>>[1] = p
      BY <1>7, <2>2
    <3>2. Descriptors(g) = {} /\ (pc[p] = "pipe" => obj[g] = None)
      BY Zenon, <1>0, <2>2, <3>1 DEF HandInv
    <3> QED BY Zenon, <1>3, <1>4, <2>1, <3>1, <3>2
  <2>3. CASE <<p, 2>> \notin Allocated(g)
    <3>1. Allocated(g)' = Allocated(g)
      BY Zenon, <1>7, <2>1, <2>3
    <3> QED BY Zenon, <1>0, <1>3, <1>4, <2>1, <3>1 DEF HandInv
  <2> QED BY Zenon, <2>2, <2>3
<1> QED BY Zenon, <1>0, <1>3, <1>8, <1>9 DEF RefInv, FileType

\* sys_open() gives a new file its inode and a descriptor.
LEMMA OpenSlot ==
  ASSUME RefInv, NEW p \in Procs, NEW fd \in Fds, ofile[p][fd] = Null,
         NEW f \in Files, ref[f] = 0, ref' = [ref EXCEPT ![f] = 1],
         NEW x \in Objects, obj' = [obj EXCEPT ![f] = x],
         ofile' = [ofile EXCEPT ![p][fd] = f], UNCHANGED <<hand, put, panicked>>,
         \A q \in Procs : pc'[q] = "pipe" => pc[q] = "pipe"
  PROVE  RefInv' /\ \A o \in Objects \ {None} : Count(o)' = Count(o) + (IF o = x THEN 1 ELSE 0)
<1>0. FileType /\ HandInv /\ RefCounts
  BY Zenon DEF RefInv
<1>1. /\ ofile' \in [Procs -> [Fds -> Files \cup {Null}]]
      /\ Descriptors(f)' = Descriptors(f) \cup {<<p, fd>>}
      /\ \A g \in Files \ {f} : Descriptors(g)' = Descriptors(g)
  <2>1. \A g \in Files : g # Null
    BY Zenon, FileAssumption DEF Files
  <2>2. /\ ofile' \in [Procs -> [Fds -> Files \cup {Null}]]
        /\ \A g \in Files : Descriptors(g)' = IF g = f THEN Descriptors(g) \cup {<<p, fd>>}
                                              ELSE Descriptors(g) \ {<<p, fd>>}
        /\ \A g : <<p, fd>> \in Descriptors(g) <=> ofile[p][fd] = g
    BY Zenon, <1>0, SlotFacts
  <2>3. \A g \in Files : <<p, fd>> \notin Descriptors(g)
    BY Zenon, <2>1, <2>2
  <2>4. \A g \in Files : Descriptors(g) \ {<<p, fd>>} = Descriptors(g)
    BY Zenon, <2>3
  <2> QED BY Zenon, <2>2, <2>4
<1>2. Descriptors(f) = {} /\ Allocated(f) = {}
  BY Zenon, Unreferred
<1>3. /\ ref' \in [Files -> Nat] /\ obj' \in [Files -> Objects] /\ FreeInv'
      /\ \A o \in Objects \ {None} : Count(o)' = Count(o) + (IF o = x THEN 1 ELSE 0)
  BY Zenon, AllocFacts
<1>4. \A g : Allocated(g)' = Allocated(g)
  BY Zenon DEF Allocated
<1>5. RefCounts'
  <2> SUFFICES ASSUME NEW g \in Files
               PROVE  ref'[g] = Cardinality(Descriptors(g)') + Cardinality(Allocated(g)')
    BY Zenon DEF RefCounts
  <2>1. CASE g = f
    <3>1. ref'[g] = 1
      BY Zenon, <1>0, <2>1 DEF FileType
    <3>2. Descriptors(g)' = {<<p, fd>>} /\ Allocated(g)' = {}
      BY Zenon, <1>1, <1>2, <1>4, <2>1
    <3>3. Cardinality({}) = 0 /\ Cardinality({<<p, fd>>}) = 1
      BY Zenon, FS_EmptySet, FS_Singleton
    <3> QED BY <3>1, <3>2, <3>3
  <2>2. CASE g # f
    <3>1. ref'[g] = ref[g]
      BY Zenon, <1>0, <2>2 DEF FileType
    <3> QED BY Zenon, <1>0, <1>1, <1>4, <2>2, <3>1 DEF RefCounts
  <2> QED BY Zenon, <2>1, <2>2
<1>6. HandInv'
  <2> SUFFICES ASSUME NEW g \in Files, NEW e \in Allocated(g)'
               PROVE  /\ Descriptors(g)' = {} /\ Allocated(g)' = {e}
                      /\ pc'[e[1]] = "pipe" => obj'[g] = None
    BY Zenon DEF HandInv
  <2>1. g # f /\ e \in Allocated(g) /\ e[1] \in Procs
    BY <1>2, <1>4, Pairs
  <2>2. obj'[g] = obj[g]
    BY Zenon, <1>0, <2>1 DEF FileType
  <2> QED BY Zenon, <1>0, <1>1, <1>4, <2>1, <2>2 DEF HandInv
<1> QED BY Zenon, <1>0, <1>1, <1>3, <1>5, <1>6 DEF RefInv, FileType

\* pipealloc() gives the two files at hand the two ends of a pipe.
LEMMA PipeObjects ==
  ASSUME RefInv, CallType, NEW p \in Procs, Len(hand[p]) = 2, pc[p] = "pipe",
         NEW x \in Objects \ {None}, NEW y \in Objects \ {None}, x # y,
         obj' = [obj EXCEPT ![hand[p][1]] = x, ![hand[p][2]] = y], UNCHANGED <<ref, put>>
  PROVE  /\ hand[p][1] # hand[p][2]
         /\ obj' \in [Files -> Objects]
         /\ \A g \in Files \ {hand[p][1], hand[p][2]} : obj'[g] = obj[g]
         /\ FreeInv'
         /\ \A o \in Objects \ {None} : Count(o)' = Count(o) + (IF o \in {x, y} THEN 1 ELSE 0)
<1> DEFINE rf == hand[p][1]
           wf == hand[p][2]
<1>1. /\ rf \in Files /\ Allocated(rf) = {<<p, 1>>} /\ ref[rf] = 1 /\ obj[rf] = None
      /\ wf \in Files /\ Allocated(wf) = {<<p, 2>>} /\ ref[wf] = 1 /\ obj[wf] = None
  <2>1. 1 \in 1 .. Len(hand[p]) /\ 2 \in 1 .. Len(hand[p])
    OBVIOUS
  <2> QED BY <2>1, AtHand
<1>2. <<p, 1>> # <<p, 2>>
  OBVIOUS
<1> HIDE DEF rf, wf
<1>3. rf # wf
  BY Zenon, <1>1, <1>2
<1>4. obj' = [obj EXCEPT ![rf] = x, ![wf] = y]
  BY Zenon DEF rf, wf
<1>5. /\ obj' \in [Files -> Objects] /\ obj'[rf] = x /\ obj'[wf] = y
      /\ \A g \in Files \ {rf, wf} : obj'[g] = obj[g]
  BY <1>1, <1>3, <1>4 DEF RefInv, FileType
<1>6. FreeInv'
  BY <1>1, <1>5 DEF RefInv, FreeInv
<1>7. ASSUME NEW o \in Objects \ {None} PROVE Count(o)' = Count(o) + (IF o \in {x, y} THEN 1 ELSE 0)
  <2>1. rf \notin Using(o) /\ wf \notin Using(o) /\ Pending(o)' = Pending(o)
    BY Zenon, <1>1 DEF Using, Pending
  <2>2. Using(o)' = IF o = x THEN Using(o) \cup {rf} ELSE IF o = y THEN Using(o) \cup {wf} ELSE Using(o)
    BY <1>1, <1>3, <1>5, <2>1 DEF Using
  <2>3. /\ Cardinality(Using(o) \cup {rf}) = Cardinality(Using(o)) + 1
        /\ Cardinality(Using(o) \cup {wf}) = Cardinality(Using(o)) + 1
    BY Zenon, <2>1, Sizes, CardPlus
  <2>4. Cardinality(Using(o)) \in Nat /\ Cardinality(Pending(o)) \in Nat
    BY Zenon, Sizes
  <2>5. CASE o \in {x, y}
    BY <2>1, <2>2, <2>3, <2>4, <2>5 DEF Count
  <2>6. CASE o \notin {x, y}
    BY <2>1, <2>2, <2>4, <2>6 DEF Count
  <2> QED BY Zenon, <2>5, <2>6
<1> QED BY Zenon, <1>3, <1>5, <1>6, <1>7 DEF rf, wf

\* sys_pipe() has no room for both descriptors: the files stay at hand.
LEMMA PipeNoRoom ==
  ASSUME RefInv, CallType, NEW p \in Procs, Len(hand[p]) = 2, pc[p] = "pipe",
         NEW x \in Objects \ {None}, NEW y \in Objects \ {None}, x # y,
         obj' = [obj EXCEPT ![hand[p][1]] = x, ![hand[p][2]] = y],
         UNCHANGED <<ref, put, hand, ofile, panicked>>, pc' = [pc EXCEPT ![p] = "close"]
  PROVE  /\ RefInv'
         /\ \A o \in Objects \ {None} : Count(o)' = Count(o) + (IF o \in {x, y} THEN 1 ELSE 0)
<1>0. FileType /\ HandInv /\ RefCounts
  BY Zenon DEF RefInv
<1>1. /\ obj' \in [Files -> Objects] /\ FreeInv'
      /\ \A g \in Files \ {hand[p][1], hand[p][2]} : obj'[g] = obj[g]
      /\ \A o \in Objects \ {None} : Count(o)' = Count(o) + (IF o \in {x, y} THEN 1 ELSE 0)
  BY Zenon, PipeObjects
<1>2. \A g : Allocated(g)' = Allocated(g) /\ Descriptors(g)' = Descriptors(g)
  BY Zenon DEF Allocated, Descriptors
<1>3. RefCounts'
  BY Zenon, <1>0, <1>2 DEF RefCounts
<1>4. HandInv'
  <2> SUFFICES ASSUME NEW g \in Files, NEW e \in Allocated(g)'
               PROVE  /\ Descriptors(g)' = {} /\ Allocated(g)' = {e}
                      /\ pc'[e[1]] = "pipe" => obj'[g] = None
    BY Zenon DEF HandInv
  <2>1. e \in Allocated(g) /\ e[1] \in Procs
    BY <1>2, Pairs
  <2>2. Descriptors(g) = {} /\ Allocated(g) = {e} /\ (pc[e[1]] = "pipe" => obj[g] = None)
    BY Zenon, <1>0, <2>1 DEF HandInv
  <2>3. CASE e[1] = p
    BY Zenon, <1>2, <2>1, <2>2, <2>3 DEF CallType
  <2>4. CASE e[1] # p
    <3>1. pc'[e[1]] = pc[e[1]]
      BY Zenon, <2>1, <2>4 DEF CallType
    <3>2. g # hand[p][1] /\ g # hand[p][2]
      <4>1. <<p, 1>>[1] = p /\ <<p, 2>>[1] = p /\ 1 \in 1 .. Len(hand[p]) /\ 2 \in 1 .. Len(hand[p])
        OBVIOUS
      <4> QED BY <2>2, <2>4, <4>1, AtHand
    <3> QED BY Zenon, <1>1, <1>2, <2>2, <3>1, <3>2
  <2> QED BY Zenon, <2>3, <2>4
<1> QED BY Zenon, <1>0, <1>1, <1>3, <1>4 DEF RefInv, FileType

\* Both files of sys_pipe() get their descriptors.
Installed(p, x, y, fd0, fd1) ==
  /\ Len(hand[p]) = 2 /\ pc[p] = "pipe"
  /\ obj' = [obj EXCEPT ![hand[p][1]] = x, ![hand[p][2]] = y]
  /\ fd0 # fd1 /\ ofile[p][fd0] = Null /\ ofile[p][fd1] = Null
  /\ ofile' = [ofile EXCEPT ![p][fd0] = hand[p][1], ![p][fd1] = hand[p][2]]
  /\ hand' = [hand EXCEPT ![p] = <<>>] /\ pc' = [pc EXCEPT ![p] = "user"]
  /\ UNCHANGED <<ref, put, panicked>>

LEMMA PipeDone ==
  ASSUME RefInv, CallType, NEW p \in Procs, NEW fd0 \in Fds, NEW fd1 \in Fds,
         NEW x \in Objects \ {None}, NEW y \in Objects \ {None}, x # y, Installed(p, x, y, fd0, fd1)
  PROVE  /\ RefInv'
         /\ \A o \in Objects \ {None} : Count(o)' = Count(o) + (IF o \in {x, y} THEN 1 ELSE 0)
<1> /\ Len(hand[p]) = 2 /\ pc[p] = "pipe"
    /\ obj' = [obj EXCEPT ![hand[p][1]] = x, ![hand[p][2]] = y]
    /\ fd0 # fd1 /\ ofile[p][fd0] = Null /\ ofile[p][fd1] = Null
    /\ ofile' = [ofile EXCEPT ![p][fd0] = hand[p][1], ![p][fd1] = hand[p][2]]
    /\ hand' = [hand EXCEPT ![p] = <<>>] /\ pc' = [pc EXCEPT ![p] = "user"]
    /\ UNCHANGED <<ref, put, panicked>>
  BY Zenon DEF Installed
<1> PICK rf, wf : rf = hand[p][1] /\ wf = hand[p][2]
  BY Zenon
<1>0. FileType /\ HandInv /\ RefCounts
  BY Zenon DEF RefInv
<1>1. /\ rf \in Files /\ Descriptors(rf) = {} /\ Allocated(rf) = {<<p, 1>>} /\ ref[rf] = 1
      /\ wf \in Files /\ Descriptors(wf) = {} /\ Allocated(wf) = {<<p, 2>>} /\ ref[wf] = 1
  <2>1. 1 \in 1 .. Len(hand[p]) /\ 2 \in 1 .. Len(hand[p])
    OBVIOUS
  <2> QED BY ZenonT(30), <2>1, AtHand
<1>2. /\ rf # wf /\ obj' \in [Files -> Objects] /\ FreeInv'
      /\ \A g \in Files \ {rf, wf} : obj'[g] = obj[g]
      /\ \A o \in Objects \ {None} : Count(o)' = Count(o) + (IF o \in {x, y} THEN 1 ELSE 0)
  BY Zenon, PipeObjects
<1>3. \A g, e : e \in Allocated(g)' <=> e[1] # p /\ e \in Allocated(g)
  <2>1. hand'[p] = <<>> /\ \A q \in Procs \ {p} : hand'[q] = hand[q]
    BY Zenon DEF CallType
  <2>2. \A e \in Procs \X (1 .. 2) : e[1] \in Procs /\ e[2] \in 1 .. 2
    BY Zenon
  <2>3. \A e \in Procs \X (1 .. 2) : e[1] = p => ~(e[2] <= Len(hand'[e[1]]))
    BY <2>1, <2>2
  <2>4. \A e \in Procs \X (1 .. 2) : e[1] # p => hand'[e[1]] = hand[e[1]]
    BY Zenon, <2>1, <2>2
  <2> QED BY Zenon, <2>3, <2>4 DEF Allocated
<1>4. ASSUME NEW g, NEW e \in Allocated(g), e[1] = p PROVE g = rf \/ g = wf
  <2>1. e \in Procs \X (1 .. 2) /\ hand[e[1]][e[2]] = g
    BY Zenon DEF Allocated
  <2>2. e[2] = 1 \/ e[2] = 2
    BY <2>1
  <2> QED BY Zenon, <1>4, <2>1, <2>2
<1>5. ofile' = [ofile EXCEPT ![p][fd0] = rf, ![p][fd1] = wf]
  BY Zenon
<1>6. ofile' \in [Procs -> [Fds -> Files \cup {Null}]]
  BY <1>0, <1>1, <1>5 DEF FileType
<1>7. \A q \in Procs, d \in Fds :
        ofile'[q][d] = IF q = p /\ d = fd0 THEN rf ELSE IF q = p /\ d = fd1 THEN wf ELSE ofile[q][d]
  BY <1>0, <1>5 DEF FileType
<1>8. \A e \in Procs \X Fds :
        ofile'[e[1]][e[2]] = IF e = <<p, fd0>> THEN rf ELSE IF e = <<p, fd1>> THEN wf ELSE ofile[e[1]][e[2]]
  <2>1. \A e \in Procs \X Fds :
          /\ e[1] \in Procs /\ e[2] \in Fds
          /\ e = <<p, fd0>> <=> e[1] = p /\ e[2] = fd0
          /\ e = <<p, fd1>> <=> e[1] = p /\ e[2] = fd1
    OBVIOUS
  <2> TAKE e \in Procs \X Fds
  <2>2. ofile'[e[1]][e[2]] = IF e[1] = p /\ e[2] = fd0 THEN rf
                             ELSE IF e[1] = p /\ e[2] = fd1 THEN wf ELSE ofile[e[1]][e[2]]
    BY Zenon, <1>7, <2>1
  <2> QED BY Zenon, <2>1, <2>2
<1>9. <<p, fd0>> \in Procs \X Fds /\ <<p, fd1>> \in Procs \X Fds /\ <<p, fd0>> # <<p, fd1>>
  BY Zenon
<1>10. Descriptors(rf)' = {<<p, fd0>>} /\ Descriptors(wf)' = {<<p, fd1>>}
  <2>1. \A g, e : e \in Descriptors(g)' <=> e \in Procs \X Fds /\ ofile'[e[1]][e[2]] = g
    BY Zenon DEF Descriptors
  <2>2. \A e \in Procs \X Fds : ofile[e[1]][e[2]] # rf /\ ofile[e[1]][e[2]] # wf
    BY Zenon, <1>1 DEF Descriptors
  <2>3. \A e : e \in Descriptors(rf)' <=> e = <<p, fd0>>
    BY ZenonT(30), <1>2, <1>8, <1>9, <2>2 DEF Descriptors
  <2>4. \A e : e \in Descriptors(wf)' <=> e = <<p, fd1>>
    BY ZenonT(30), <1>2, <1>8, <1>9, <2>2 DEF Descriptors
  <2> QED BY Zenon, <2>3, <2>4
<1>11. ASSUME NEW g \in Files \ {rf, wf} PROVE Descriptors(g)' = Descriptors(g) /\ Allocated(g)' = Allocated(g)
  <2>1. g # Null
    BY Zenon, FileAssumption DEF Files
  <2>2. <<p, fd0>> \notin Descriptors(g) /\ <<p, fd1>> \notin Descriptors(g)
    BY Zenon, <2>1 DEF Descriptors
  <2>3. \A e \in Procs \X Fds : ofile'[e[1]][e[2]] = g <=> ofile[e[1]][e[2]] = g
    BY ZenonT(30), <1>8, <1>9, <2>2 DEF Descriptors
  <2>4. Descriptors(g)' = Descriptors(g)
    BY Zenon, <2>3 DEF Descriptors
  <2>5. \A e : e \in Allocated(g)' <=> e \in Allocated(g)
    BY Zenon, <1>3, <1>4
  <2> QED BY Zenon, <2>4, <2>5
<1>12. Allocated(rf)' = {} /\ Allocated(wf)' = {}
  <2>1. <<p, 1>>[1] = p /\ <<p, 2>>[1] = p
    BY Zenon
  <2>2. \A e : e \notin Allocated(rf)' /\ e \notin Allocated(wf)'
    <3>1. \A e : e \in Allocated(rf) => e[1] = p
      BY Zenon, <1>1, <2>1
    <3>2. \A e : e \in Allocated(wf) => e[1] = p
      BY Zenon, <1>1, <2>1
    <3> QED BY Zenon, <1>3, <3>1, <3>2
  <2> QED BY Zenon, <2>2
<1>13. RefCounts'
  <2> SUFFICES ASSUME NEW g \in Files
               PROVE  ref'[g] = Cardinality(Descriptors(g)') + Cardinality(Allocated(g)')
    BY Zenon DEF RefCounts
  <2>1. CASE g \in {rf, wf}
    <3>1. PICK e : Descriptors(g)' = {e} /\ Allocated(g)' = {}
      BY Zenon, <1>10, <1>12, <2>1
    <3>2. Cardinality({}) = 0 /\ Cardinality({e}) = 1
      BY Zenon, FS_EmptySet, FS_Singleton
    <3> QED BY <1>1, <2>1, <3>1, <3>2
  <2>2. CASE g \notin {rf, wf}
    BY Zenon, <1>0, <1>11, <2>2 DEF RefCounts
  <2> QED BY Zenon, <2>1, <2>2
<1>14. HandInv'
  <2> SUFFICES ASSUME NEW g \in Files, NEW e \in Allocated(g)'
               PROVE  /\ Descriptors(g)' = {} /\ Allocated(g)' = {e}
                      /\ pc'[e[1]] = "pipe" => obj'[g] = None
    BY Zenon DEF HandInv
  <2>1. e \in Allocated(g) /\ e[1] \in Procs /\ e[1] # p
    BY <1>3, Pairs
  <2>2. g \notin {rf, wf}
    BY Zenon, <1>12
  <2>3. pc'[e[1]] = pc[e[1]] /\ obj'[g] = obj[g]
    BY Zenon, <1>2, <2>1, <2>2 DEF CallType
  <2> QED BY Zenon, <1>0, <1>11, <2>1, <2>2, <2>3 DEF HandInv
<1> QED BY Zenon, <1>0, <1>2, <1>6, <1>13, <1>14 DEF RefInv, FileType

\* A step of a call that leaves the files alone.
LEMMA FilesKept ==
  ASSUME RefInv, CallType, UNCHANGED <<ref, obj, ofile, hand, panicked>>, put' \in [Procs -> Puts],
         \A q \in Procs : pc'[q] = "pipe" => pc[q] = "pipe" \/ hand[q] = <<>>
  PROVE  RefInv'
<1>0. FileType /\ HandInv /\ FreeInv /\ RefCounts
  BY Zenon DEF RefInv
<1>1. FileType' /\ FreeInv'
  BY Zenon, <1>0 DEF FileType, FreeInv
<1>2. \A f : Descriptors(f)' = Descriptors(f) /\ Allocated(f)' = Allocated(f)
  BY Zenon DEF Descriptors, Allocated
<1>3. RefCounts'
  BY Zenon, <1>0, <1>2 DEF RefCounts
<1>4. HandInv'
  <2> SUFFICES ASSUME NEW g \in Files, NEW e \in Allocated(g)'
               PROVE  /\ Descriptors(g)' = {} /\ Allocated(g)' = {e}
                      /\ pc'[e[1]] = "pipe" => obj'[g] = None
    BY Zenon DEF HandInv
  <2>1. e \in Allocated(g) /\ e[1] \in Procs
    BY <1>2, Pairs
  <2>2. hand[e[1]] # <<>>
    <3>1. e[2] \in 1 .. 2 /\ e[2] <= Len(hand[e[1]])
      BY Zenon, <2>1 DEF Allocated
    <3> QED BY <3>1
  <2>3. pc'[e[1]] = "pipe" => pc[e[1]] = "pipe"
    BY Zenon, <2>1, <2>2
  <2> QED BY Zenon, <1>0, <1>2, <2>1, <2>3 DEF HandInv
<1> QED BY Zenon, <1>1, <1>3, <1>4 DEF RefInv

=============================================================================
