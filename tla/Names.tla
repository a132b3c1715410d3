-------------------------------- MODULE Names --------------------------------
(***************************************************************************)
(* The name space of the file system: inodes, the inode cache and          *)
(* directories of src/xv6-public/fs.c and the calls of sysfile.c that look *)
(* names up and change them.  A step is what a process does between two    *)
(* points where it may have to wait for the lock of an inode: it waits for *)
(* one lock at the start and may keep it.  A call is inside one            *)
(* transaction of the log (module Log), so a crash is not modelled here.   *)
(***************************************************************************)
EXTENDS Integers, Sequences, FiniteSets

CONSTANTS
  Procs,
  NInodes,    \* sb.ninodes - 1: the numbers 1 .. NInodes
  NINODE,     \* entries of the inode cache
  Elems,      \* path elements that are not dots
  Calls       \* the system calls made: [op, path, new]

Inums == 1 .. NInodes
ROOTINO == 1
Nil == 0
DirElems == Elems \cup {".", ".."}
Paths == [abs : BOOLEAN, elems : Seq(DirElems)]

ASSUME NamesAssumption ==
  /\ NInodes \in Nat \ {0} /\ NINODE \in Nat \ {0}
  /\ {".", ".."} \cap Elems = {}
  /\ \A c \in Calls : c.path \in Paths /\ c.new \in Paths

VARIABLES
  dinode,     \* type, nlink and entries: on the disk, and in the cache while valid
  ref, valid, lock,  \* of the cache entry of each inode
  loc,        \* the locals of each process
  fd,         \* an open file of each process
  cwd,
  panic       \* the panic() that has been called

vars == <<dinode, ref, valid, lock, loc, fd, cwd, panic>>

NoEntries == [e \in DirElems |-> Nil]
Free == [type |-> "0", nlink |-> 0, ents |-> NoEntries]
Idle == [pc |-> "user", op |-> "", cur |-> Nil, ip |-> Nil, name |-> ".",
         rest |-> <<>>, new |-> [abs |-> TRUE, elems |-> <<>>], puts |-> <<>>]

TypeOK ==
  /\ dinode \in [Inums -> [type : {"0", "T_DIR", "T_FILE", "T_DEV"}, nlink : Nat,
                           ents : [DirElems -> Inums \cup {Nil}]]]
  /\ ref \in [Inums -> Nat] /\ valid \in [Inums -> BOOLEAN]
  /\ lock \in [Inums -> Procs \cup {Nil}]
  /\ fd \in [Procs -> Inums \cup {Nil}] /\ cwd \in [Procs -> Inums]
  /\ \A p \in Procs : /\ {loc[p].cur, loc[p].ip} \subseteq Inums \cup {Nil}
                     /\ loc[p].name \in DirElems

-----------------------------------------------------------------------------
(* iget(), ilock() and iput() *)

Cached == {i \in Inums : ref[i] > 0}

M_RefOne(i) == [ref EXCEPT ![i] = 1]

\* ip->ref++, or 1 for an entry that is recycled.
Ref(i) == [ref EXCEPT ![i] = @ + 1]

\* iget() of i; v is valid as the step has left it so far.
Iget(i, v) ==
  IF i \in Cached \/ Cardinality(Cached) < NINODE
    THEN /\ ref' = Ref(i)
         /\ valid' = [v EXCEPT ![i] = @ /\ i \in Cached]
         /\ UNCHANGED panic
    ELSE panic' = "iget: no inodes" /\ valid' = v /\ UNCHANGED ref

\* ilock() of i gets the lock and finds an allocated inode.
Ilock(i) == lock[i] = Nil /\ dinode[i].type # "0"
Read(i) == [valid EXCEPT ![i] = TRUE]

\* A process goes on at pc after it has dealt with the inodes in puts.
Goto(p, pc, puts) ==
  [loc EXCEPT ![p] = [(IF pc = "user" THEN Idle ELSE @) EXCEPT !.pc = pc, !.puts = puts]]
At(p, pc) == panic = "" /\ loc[p].pc = pc /\ loc[p].puts = <<>>

\* The members of puts: iunlockput(i), iput(i).
UnlockPut(i) == <<i, "unlock">>
Put(i) == <<i, "put">>
Doing(p, what) == panic = "" /\ loc[p].puts # <<>> /\ Head(loc[p].puts)[2] = what
Target(p) == Head(loc[p].puts)[1]

Iunlock(p) ==
  /\ Doing(p, "unlock")
  /\ lock' = [lock EXCEPT ![Target(p)] = Nil]
  /\ loc' = [loc EXCEPT ![p].puts[1] = Put(Target(p))]
  /\ UNCHANGED <<dinode, ref, valid, fd, cwd, panic>>

\* "inode has no links and no other references"
Doomed(i) == valid[i] /\ dinode[i].nlink = 0 /\ ref[i] = 1

\* The part of iput() under the lock of the inode.
IputLocked(p) ==
  LET i == Target(p)
  IN /\ Doing(p, "put") /\ lock[i] = Nil
     /\ IF Doomed(i)
          THEN dinode' = [dinode EXCEPT ![i] = Free] /\ valid' = [valid EXCEPT ![i] = FALSE]
          ELSE UNCHANGED <<dinode, valid>>
     /\ loc' = [loc EXCEPT ![p].puts[1] = <<i, "dec">>]
     /\ UNCHANGED <<ref, lock, fd, cwd, panic>>

\* ip->ref--
Dec(i) == [ref EXCEPT ![i] = @ - 1]

\* The part of iput() under icache.lock.
IputDec(p) ==
  /\ Doing(p, "dec")
  /\ ref' = Dec(Target(p))
  /\ loc' = [loc EXCEPT ![p].puts = Tail(@)]
  /\ UNCHANGED <<dinode, valid, lock, fd, cwd, panic>>

-----------------------------------------------------------------------------
(* namex() *)

\* The calls that look for the parent of the last element, and the inode that a
\* lookup starts from.
ByParent(p) == loc[p].op \in {"create", "mkdir", "mknod", "unlink", "linknew"}
From(p, path) == IF path.abs THEN ROOTINO ELSE cwd[p]

Call(p, c) ==
  /\ At(p, "user")
  /\ c.op \in {"open", "create"} => fd[p] = Nil
  /\ Iget(From(p, c.path), valid)
  /\ loc' = [loc EXCEPT ![p] = [Idle EXCEPT !.pc = "namex", !.op = c.op, !.new = c.new,
                                             !.cur = From(p, c.path), !.rest = c.path.elems]]
  /\ UNCHANGED <<dinode, lock, fd, cwd>>

\* Where a call goes on when the lookup fails.
Failed(p) == IF loc[p].op = "linknew" THEN "linkbad" ELSE "user"

\* iunlock() after a lookup in i that p has locked.
Unlocked(p, i) == [lock EXCEPT ![i] = Nil]

\* The next element of the path: a lookup in the directory cur, under its lock.
Lookup(p) ==
  LET l == loc[p]
      next == dinode[l.cur].ents[Head(l.rest)]
  IN /\ At(p, "namex") /\ l.rest # <<>> /\ Ilock(l.cur)
     /\ ~(ByParent(p) /\ Len(l.rest) = 1 /\ dinode[l.cur].type = "T_DIR")
     /\ IF dinode[l.cur].type # "T_DIR" \/ next = Nil
          THEN /\ loc' = Goto(p, Failed(p), <<Put(l.cur)>>)
               /\ valid' = Read(l.cur) /\ UNCHANGED <<ref, panic>>
          ELSE /\ Iget(next, Read(l.cur))
               /\ loc' = [loc EXCEPT ![p].puts = <<Put(l.cur)>>, ![p].cur = next,
                                    ![p].rest = Tail(@)]
     /\ lock' = Unlocked(p, l.cur)
     /\ UNCHANGED <<dinode, fd, cwd>>

\* "Stop one level early": nameiparent() returns cur, unlocked.
StopEarly(p) ==
  LET l == loc[p]
  IN /\ At(p, "namex") /\ ByParent(p) /\ Len(l.rest) = 1
     /\ Ilock(l.cur) /\ dinode[l.cur].type = "T_DIR"
     /\ valid' = Read(l.cur)
     /\ loc' = [loc EXCEPT ![p].pc = "dir", ![p].name = Head(l.rest)]
     /\ UNCHANGED <<dinode, ref, lock, fd, cwd, panic>>

\* nameiparent() of a path without elements.
NoParent(p) ==
  /\ At(p, "namex") /\ loc[p].rest = <<>> /\ ByParent(p)
  /\ loc' = Goto(p, Failed(p), <<Put(loc[p].cur)>>)
  /\ UNCHANGED <<dinode, ref, valid, lock, fd, cwd, panic>>

\* namei() has found the inode of op, and it can be locked.
Found(p, op) ==
  /\ At(p, "namex") /\ loc[p].op = op /\ loc[p].rest = <<>>
  /\ Ilock(loc[p].cur) /\ valid' = Read(loc[p].cur)

-----------------------------------------------------------------------------
(* sys_open() of an existing file, sys_chdir(), and closing *)

\* The file takes the reference, or the call fails after the lookup.
Open(p) ==
  /\ Found(p, "open")
  /\ \/ fd' = [fd EXCEPT ![p] = loc[p].cur] /\ loc' = Goto(p, "user", <<>>)
     \/ UNCHANGED fd /\ loc' = Goto(p, "user", <<Put(loc[p].cur)>>)
  /\ UNCHANGED <<dinode, ref, lock, cwd, panic>>

Close(p) ==
  /\ At(p, "user") /\ fd[p] # Nil
  /\ fd' = [fd EXCEPT ![p] = Nil]
  /\ loc' = Goto(p, "user", <<Put(fd[p])>>)
  /\ UNCHANGED <<dinode, ref, valid, lock, cwd, panic>>

Chdir(p) ==
  /\ Found(p, "chdir")
  /\ IF dinode[loc[p].cur].type = "T_DIR"
       THEN cwd' = [cwd EXCEPT ![p] = loc[p].cur] /\ loc' = Goto(p, "user", <<Put(cwd[p])>>)
       ELSE UNCHANGED cwd /\ loc' = Goto(p, "user", <<Put(loc[p].cur)>>)
  /\ UNCHANGED <<dinode, ref, lock, fd, panic>>

-----------------------------------------------------------------------------
(* create() *)

\* The type that ialloc() gives to the inode.
CreateType(op) == CASE op = "mkdir" -> "T_DIR" [] op = "mknod" -> "T_DEV" [] OTHER -> "T_FILE"
Creating(p) == loc[p].op \in {"create", "mkdir", "mknod"}
FreeInums == {i \in Inums : dinode[i].type = "0"}
First(S) == CHOOSE i \in S : \A j \in S : i <= j

\* ilock(dp) and dirlookup(): the name exists, or ialloc() takes the first free
\* inode and dp stays locked.
CreateInDir(p) ==
  LET l == loc[p]
      old == dinode[l.cur].ents[l.name]
      new == First(FreeInums)
  IN /\ At(p, "dir") /\ Creating(p) /\ Ilock(l.cur)
     /\ \/ /\ old # Nil
           /\ Iget(old, Read(l.cur))
           /\ loc' = [loc EXCEPT ![p].pc = "exists", ![p].ip = old, ![p].puts = <<Put(l.cur)>>]
           /\ UNCHANGED <<dinode, lock>>
        \/ /\ old = Nil /\ FreeInums = {}
           /\ panic' = "ialloc: no inodes"
           /\ UNCHANGED <<dinode, ref, valid, lock, loc>>
        \/ /\ old = Nil /\ FreeInums # {}
           /\ dinode' = [dinode EXCEPT ![new] = [Free EXCEPT !.type = CreateType(l.op)]]
           /\ Iget(new, Read(l.cur))
           /\ lock' = [lock EXCEPT ![l.cur] = p]
           /\ loc' = [loc EXCEPT ![p].pc = "fill", ![p].ip = new]
     /\ UNCHANGED <<fd, cwd>>

\* ilock(ip) of the new inode; links are made, and dp is put while ip stays locked.
CreateFill(p) ==
  LET l == loc[p]
      isdir == l.op = "mkdir"
  IN /\ At(p, "fill") /\ Ilock(l.ip)
     /\ dinode' = [dinode EXCEPT
          ![l.ip].nlink = 1,
          ![l.ip].ents = IF isdir THEN [NoEntries EXCEPT !["."] = l.ip, ![".."] = l.cur] ELSE @,
          ![l.cur].nlink = IF isdir THEN @ + 1 ELSE @,
          ![l.cur].ents[l.name] = l.ip]
     /\ lock' = [lock EXCEPT ![l.ip] = p]
     /\ valid' = Read(l.ip)
     /\ loc' = Goto(p, "created", <<UnlockPut(l.cur)>>)
     /\ UNCHANGED <<ref, fd, cwd, panic>>

\* ilock(ip) of an inode that exists; only open(O_CREATE) of a file accepts it.
CreateExists(p) ==
  LET l == loc[p]
  IN /\ At(p, "exists") /\ Ilock(l.ip)
     /\ valid' = Read(l.ip)
     /\ IF l.op = "create" /\ dinode[l.ip].type = "T_FILE"
          THEN lock' = [lock EXCEPT ![l.ip] = p] /\ loc' = Goto(p, "created", <<>>)
          ELSE UNCHANGED lock /\ loc' = Goto(p, "user", <<Put(l.ip)>>)
     /\ UNCHANGED <<dinode, ref, fd, cwd, panic>>

\* create() has returned ip locked: open() keeps it, or fails; mkdir() and
\* mknod() put it.
Created(p) ==
  LET l == loc[p]
  IN /\ At(p, "created")
     /\ \/ /\ l.op = "create"
           /\ fd' = [fd EXCEPT ![p] = l.ip]
           /\ lock' = [lock EXCEPT ![l.ip] = Nil]
           /\ loc' = Goto(p, "user", <<>>)
        \/ /\ loc' = Goto(p, "user", <<UnlockPut(l.ip)>>)
           /\ UNCHANGED <<fd, lock>>
     /\ UNCHANGED <<dinode, ref, valid, cwd, panic>>

-----------------------------------------------------------------------------
(* sys_unlink() *)

UnlinkInDir(p) ==
  LET l == loc[p]
      i == dinode[l.cur].ents[l.name]
  IN /\ At(p, "dir") /\ l.op = "unlink" /\ Ilock(l.cur)
     /\ IF l.name \in {".", ".."} \/ i = Nil
          THEN /\ loc' = Goto(p, "user", <<Put(l.cur)>>)
               /\ valid' = Read(l.cur)
               /\ UNCHANGED <<ref, lock, panic>>
          ELSE /\ Iget(i, Read(l.cur))
               /\ lock' = [lock EXCEPT ![l.cur] = p]
               /\ loc' = [loc EXCEPT ![p].pc = "unlink", ![p].ip = i]
     /\ UNCHANGED <<dinode, fd, cwd>>

\* isdirempty()
IsDirEmpty(i) == \A e \in Elems : dinode[i].ents[e] = Nil

\* ilock(ip): the entry goes, and dp is put while ip stays locked.
UnlinkEntry(p) ==
  LET l == loc[p]
      isdir == dinode[l.ip].type = "T_DIR"
  IN /\ At(p, "unlink") /\ Ilock(l.ip)
     /\ valid' = Read(l.ip)
     /\ IF dinode[l.ip].nlink < 1
          THEN panic' = "unlink: nlink < 1" /\ UNCHANGED <<dinode, lock, loc>>
          ELSE /\ UNCHANGED panic
               /\ \/ /\ isdir /\ ~IsDirEmpty(l.ip)
                     /\ loc' = Goto(p, "user", <<Put(l.ip), UnlockPut(l.cur)>>)
                     /\ UNCHANGED <<dinode, lock>>
                  \/ /\ isdir => IsDirEmpty(l.ip)
                     /\ dinode' = [dinode EXCEPT ![l.cur].ents[l.name] = Nil,
                                                 ![l.cur].nlink = IF isdir THEN @ - 1 ELSE @]
                     /\ lock' = [lock EXCEPT ![l.ip] = p]
                     /\ loc' = Goto(p, "unlinked", <<UnlockPut(l.cur)>>)
     /\ UNCHANGED <<ref, fd, cwd>>

Unlinked(p) ==
  LET l == loc[p]
  IN /\ At(p, "unlinked")
     /\ dinode' = [dinode EXCEPT ![l.ip].nlink = @ - 1]
     /\ loc' = Goto(p, "user", <<UnlockPut(l.ip)>>)
     /\ UNCHANGED <<ref, valid, lock, fd, cwd, panic>>

-----------------------------------------------------------------------------
(* sys_link() *)

\* ip->nlink++
Counted(i) == [dinode EXCEPT ![i].nlink = @ + 1]

\* The old path is found: count the link before it is made, and look the new
\* path up.
LinkOld(p) ==
  LET l == loc[p]
  IN /\ Found(p, "link") /\ dinode[l.cur].type # "T_DIR"
     /\ dinode' = Counted(l.cur)
     /\ loc' = [loc EXCEPT ![p].pc = "linknew", ![p].ip = l.cur]
     /\ UNCHANGED <<ref, lock, fd, cwd, panic>>

LinkOldIsDir(p) ==
  /\ Found(p, "link") /\ dinode[loc[p].cur].type = "T_DIR"
  /\ loc' = Goto(p, "user", <<Put(loc[p].cur)>>)
  /\ UNCHANGED <<dinode, ref, lock, fd, cwd, panic>>

LinkNew(p) ==
  LET l == loc[p]
  IN /\ At(p, "linknew")
     /\ Iget(From(p, l.new), valid)
     /\ loc' = [loc EXCEPT ![p].pc = "namex", ![p].op = "linknew",
                          ![p].cur = From(p, l.new), ![p].rest = l.new.elems]
     /\ UNCHANGED <<dinode, lock, fd, cwd>>

\* ilock(dp) and dirlink(): a name that exists is put with dp locked.
LinkInDir(p) ==
  LET l == loc[p]
      old == dinode[l.cur].ents[l.name]
  IN /\ At(p, "dir") /\ l.op = "linknew" /\ Ilock(l.cur)
     /\ IF old # Nil
          THEN /\ Iget(old, Read(l.cur))
               /\ lock' = [lock EXCEPT ![l.cur] = p]
               /\ loc' = Goto(p, "linkbad", <<Put(old), UnlockPut(l.cur)>>)
               /\ UNCHANGED dinode
          ELSE /\ dinode' = [dinode EXCEPT ![l.cur].ents[l.name] = l.ip]
               /\ loc' = Goto(p, "user", <<Put(l.cur), Put(l.ip)>>)
               /\ valid' = Read(l.cur)
               /\ UNCHANGED <<ref, lock, panic>>
     /\ UNCHANGED <<fd, cwd>>


\* ip->nlink--
UnlinkOld(i) == [dinode EXCEPT ![i].nlink = @ - 1]

LinkBad(p) ==
  /\ At(p, "linkbad") /\ Ilock(loc[p].ip)
  /\ valid' = Read(loc[p].ip)
  /\ dinode' = UnlinkOld(loc[p].ip)
  /\ loc' = Goto(p, "user", <<Put(loc[p].ip)>>)
  /\ UNCHANGED <<ref, lock, fd, cwd, panic>>

-----------------------------------------------------------------------------
\* The inode whose lock p has to get next.
Wants(p) ==
  LET l == loc[p]
  IN IF l.puts # <<>> THEN (IF Head(l.puts)[2] = "put" THEN Head(l.puts)[1] ELSE Nil)
     ELSE CASE l.pc = "dir" -> l.cur
            [] l.pc = "namex" /\ ~(l.rest = <<>> /\ ByParent(p)) -> l.cur
            [] l.pc \in {"exists", "fill", "unlink", "linkbad"} -> l.ip
            [] OTHER -> Nil

\* ilock() has read an inode that is not allocated.
IlockPanic(p) ==
  /\ panic = "" /\ loc[p].puts = <<>>
  /\ Wants(p) # Nil /\ lock[Wants(p)] = Nil /\ dinode[Wants(p)].type = "0"
  /\ panic' = "ilock: no type"
  /\ UNCHANGED <<dinode, ref, valid, lock, loc, fd, cwd>>

Root == [type |-> "T_DIR", nlink |-> 1,
         ents |-> [NoEntries EXCEPT !["."] = ROOTINO, ![".."] = ROOTINO]]

\* The empty file system of mkfs, every process in the root directory.
Init ==
  /\ dinode = [i \in Inums |-> IF i = ROOTINO THEN Root ELSE Free]
  /\ ref = [i \in Inums |-> IF i = ROOTINO THEN Cardinality(Procs) ELSE 0]
  /\ valid = [i \in Inums |-> FALSE]
  /\ lock = [i \in Inums |-> Nil]
  /\ loc = [p \in Procs |-> Idle]
  /\ fd = [p \in Procs |-> Nil] /\ cwd = [p \in Procs |-> ROOTINO]
  /\ panic = ""

Step(p) ==
  \/ Iunlock(p) \/ IputLocked(p) \/ IputDec(p)
  \/ \E c \in Calls : Call(p, c)
  \/ Lookup(p) \/ StopEarly(p) \/ NoParent(p) \/ IlockPanic(p)
  \/ Open(p) \/ Close(p) \/ Chdir(p)
  \/ CreateInDir(p) \/ CreateFill(p) \/ CreateExists(p) \/ Created(p)
  \/ UnlinkInDir(p) \/ UnlinkEntry(p) \/ Unlinked(p)
  \/ LinkOld(p) \/ LinkOldIsDir(p) \/ LinkNew(p) \/ LinkInDir(p) \/ LinkBad(p)

Next == \E p \in Procs : Step(p)

Spec == Init /\ [][Next]_vars

-----------------------------------------------------------------------------
(* Properties *)

\* The pointers to i among the locals of p.
One(b) == IF b THEN 1 ELSE 0
Pointers(p, i) ==
  LET l == loc[p]
  IN Cardinality({k \in DOMAIN l.puts : l.puts[k][1] = i})
     + One(l.cur = i /\ l.pc \in {"namex", "dir", "fill", "unlink"})
     + One(l.ip = i)
     + One(fd[p] = i) + One(cwd[p] = i)

\* ip->ref counts the pointers to the inode: open files, current directories and
\* the calls in progress.
RefCounts ==
  panic = "" => \A i \in Inums :
    LET F[S \in SUBSET Procs] == IF S = {} THEN 0
                                 ELSE LET p == CHOOSE x \in S : TRUE IN Pointers(p, i) + F[S \ {p}]
    IN ref[i] = F[Procs]

\* iput() never frees what a process has open or stands in.
UsedIsAllocated ==
  \A p \in Procs : dinode[cwd[p]].type = "T_DIR" /\ (fd[p] # Nil => dinode[fd[p]].type # "0")

Entries(i) == {<<d, e>> \in Inums \X Elems : dinode[d].ents[e] = i}

\* The calls that have counted a link of i and not made it, or removed one and
\* not counted it.
Pending(i) == {p \in Procs : loc[p].ip = i /\ (loc[p].pc \in {"linknew", "unlinked", "linkbad"}
                                             \/ loc[p].op = "linknew")}

\* nlink of a file counts its names, up to the calls in progress: sys_link()
\* counts before it links and takes the count back if that fails.
NlinkCounts ==
  \A i \in Inums : dinode[i].type \in {"T_FILE", "T_DEV"} =>
    dinode[i].nlink = Cardinality(Entries(i)) + Cardinality(Pending(i))


\* "The separation also helps avoid deadlock and races during pathname lookup"
\* (xv6-public/fs.c:149), of iget() and ilock(): no two
\* processes wait for each other's inode, and none waits for its own.
NoCircularWait ==
  \A p, q \in Procs :
    ~ (Wants(p) # Nil /\ lock[Wants(p)] = q /\ Wants(q) # Nil /\ lock[Wants(q)] = p)

=============================================================================
