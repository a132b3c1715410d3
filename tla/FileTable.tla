------------------------------ MODULE FileTable ------------------------------
(***************************************************************************)
(* Open files: ftable of src/xv6-public/file.c, the descriptors of every   *)
(* process and the calls of sysfile.c, pipe.c and proc.c that create,      *)
(* share and drop them.  A step is one critical section of ftable.lock     *)
(* with the caller's own work around it; what a file refers to (one end of *)
(* a pipe, an inode) is released in a later step.                          *)
(***************************************************************************)
EXTENDS Integers, Sequences, FiniteSets

CONSTANTS
  Procs, InitProc,
  NFILE, NOFILE,
  Pipes,      \* pages that kalloc() may give to a pipe
  Inodes,
  Null

ASSUME FileAssumption ==
  /\ NFILE \in Nat \ {0} /\ NOFILE \in Nat \ {0}
  /\ IsFiniteSet(Procs) /\ InitProc \in Procs
  /\ Null \notin Inodes \cup (1 .. NFILE) /\ Procs \cap Inodes = {}

VARIABLES
  ref, obj,   \* of each file: its ref, and what type, pipe, writable and ip say
  ofile, cwd, \* of each process
  pc,
  hand,       \* files a call has allocated and not yet installed
  target,     \* the inode of an open(), the child of a fork()
  put,        \* what a process has to release after it closed a file
  ends,       \* the open ends of each pipe
  iref,       \* ip->ref of each inode
  panicked

vars == <<ref, obj, ofile, cwd, pc, hand, target, put, ends, iref, panicked>>

Files == 1 .. NFILE
Fds == 1 .. NOFILE
None == [type |-> "FD_NONE"]
PipeEnd(b, writable) == [type |-> "FD_PIPE", pipe |-> b, writable |-> writable]
Inode(i) == [type |-> "FD_INODE", ip |-> i]
-----------------------------------------------------------------------------
Open(p) == {fd \in Fds : ofile[p][fd] # Null}
Closed(p) == Fds \ Open(p)
First(S) == CHOOSE x \in S : \A y \in S : x <= y

\* filealloc() takes the first file with ref 0.
FreeFiles == {f \in Files : ref[f] = 0}

\* --f->ref > 0 is false: the caller had the last reference.
Last(f) == ref[f] = 1

M_ClearedNot(f) == obj

\* f->type = FD_NONE
Cleared(f) == [obj EXCEPT ![f] = None]

\* The critical section of fileclose() for the file f; the last reference leaves
\* its object to be released.
FileClose(p, f) ==
  IF ref[f] < 1
    THEN panicked' = TRUE /\ UNCHANGED <<ref, obj, put>>
    ELSE /\ ref' = [ref EXCEPT ![f] = @ - 1]
         /\ IF Last(f)
              THEN obj' = Cleared(f) /\ put' = [put EXCEPT ![p] = <<obj[f]>>]
              ELSE UNCHANGED <<obj, put>>
         /\ UNCHANGED panicked

\* filedup()
FileDup(f) ==
  IF ref[f] < 1 THEN panicked' = TRUE /\ UNCHANGED ref
                ELSE ref' = [ref EXCEPT ![f] = @ + 1] /\ UNCHANGED panicked

\* iput() in a transaction, as far as ip->ref goes.
Iput(i) == [iref EXCEPT ![i] = @ - 1]

\* pipeclose() or iput() of what FileClose left over.
Release(p) ==
  /\ ~panicked /\ put[p] # <<>>
  /\ LET o == Head(put[p])
     IN /\ ends' = IF o.type = "FD_PIPE" THEN [ends EXCEPT ![o.pipe] = @ \ {o.writable}] ELSE ends
        /\ iref' = IF o.type = "FD_INODE" THEN Iput(o.ip) ELSE iref
  /\ put' = [put EXCEPT ![p] = Tail(@)]
  /\ UNCHANGED <<ref, obj, ofile, cwd, pc, hand, target, panicked>>

Ready(p, where) == ~panicked /\ pc[p] = where /\ put[p] = <<>>

\* sys_dup()
SysDup(p, fd) ==
  /\ Ready(p, "user") /\ fd \in Open(p) /\ Closed(p) # {}
  /\ LET f == ofile[p][fd]
     IN /\ FileDup(f)
        /\ ofile' = [ofile EXCEPT ![p][First(Closed(p))] = f]
  /\ UNCHANGED <<obj, cwd, pc, hand, target, put, ends, iref>>

\* sys_close()
SysClose(p, fd) ==
  /\ Ready(p, "user") /\ fd \in Open(p)
  /\ ofile' = [ofile EXCEPT ![p][fd] = Null]
  /\ FileClose(p, ofile[p][fd])
  /\ UNCHANGED <<cwd, pc, hand, target, ends, iref>>

-----------------------------------------------------------------------------
(* sys_pipe() *)

SysPipe(p) ==
  /\ Ready(p, "user")
  /\ pc' = [pc EXCEPT ![p] = "pipe"]
  /\ UNCHANGED <<ref, obj, ofile, cwd, hand, target, put, ends, iref, panicked>>

\* filealloc() of the one file, then of the other.
PipeFile(p) ==
  /\ Ready(p, "pipe") /\ Len(hand[p]) < 2
  /\ IF FreeFiles = {}
       THEN pc' = [pc EXCEPT ![p] = "close"] /\ UNCHANGED <<ref, hand>>
       ELSE /\ ref' = [ref EXCEPT ![First(FreeFiles)] = 1]
            /\ hand' = [hand EXCEPT ![p] = Append(@, First(FreeFiles))]
            /\ UNCHANGED pc
  /\ UNCHANGED <<obj, ofile, cwd, target, put, ends, iref, panicked>>

M_UndoNothing(p, fd, f) == [ofile EXCEPT ![p][fd] = f]

\* A descriptor that fdalloc() gave to f and the error path of sys_pipe() takes back.
Undo(p, fd, f) == [ofile EXCEPT ![p][fd] = Null]

\* kalloc() of the pipe, which may fail, and fdalloc() of both descriptors; if
\* there is room for one only, its slot is cleared again.
PipeInstall(p) ==
  LET rf == hand[p][1]
      wf == hand[p][2]
  IN /\ Ready(p, "pipe") /\ Len(hand[p]) = 2
     /\ \/ /\ pc' = [pc EXCEPT ![p] = "close"]
           /\ UNCHANGED <<obj, ofile, hand, ends>>
        \/ \E b \in {x \in Pipes : ends[x] = {}} :
             /\ ends' = [ends EXCEPT ![b] = BOOLEAN]
             /\ obj' = [obj EXCEPT ![rf] = PipeEnd(b, FALSE), ![wf] = PipeEnd(b, TRUE)]
             /\ IF Cardinality(Closed(p)) < 2
                  THEN /\ ofile' = IF Closed(p) = {} THEN ofile ELSE Undo(p, First(Closed(p)), rf)
                       /\ pc' = [pc EXCEPT ![p] = "close"]
                       /\ UNCHANGED hand
                  ELSE LET fd0 == First(Closed(p))
                           fd1 == First(Closed(p) \ {fd0})
                       IN /\ ofile' = [ofile EXCEPT ![p][fd0] = rf, ![p][fd1] = wf]
                          /\ hand' = [hand EXCEPT ![p] = <<>>]
                          /\ pc' = [pc EXCEPT ![p] = "user"]
     /\ UNCHANGED <<ref, cwd, target, put, iref, panicked>>

\* The error paths of sys_pipe() and sys_open() close the files the call has
\* allocated; sys_open() then puts its inode.
CloseHand(p) ==
  /\ Ready(p, "close")
  /\ IF hand[p] = <<>>
       THEN /\ pc' = [pc EXCEPT ![p] = "user"]
            /\ iref' = IF target[p] = Null THEN iref ELSE Iput(target[p])
            /\ target' = [target EXCEPT ![p] = Null]
            /\ UNCHANGED <<ref, obj, hand, put, panicked>>
       ELSE /\ FileClose(p, Head(hand[p]))
            /\ hand' = [hand EXCEPT ![p] = Tail(@)]
            /\ UNCHANGED <<pc, target, iref>>
  /\ UNCHANGED <<ofile, cwd, ends>>

-----------------------------------------------------------------------------
(* sys_open() and sys_chdir() *)

\* namei() or create() has returned a reference to the inode.
SysOpen(p, i) ==
  /\ Ready(p, "user")
  /\ iref' = [iref EXCEPT ![i] = @ + 1]
  /\ target' = [target EXCEPT ![p] = i]
  /\ pc' = [pc EXCEPT ![p] = "open"]
  /\ UNCHANGED <<ref, obj, ofile, cwd, hand, put, ends, panicked>>

\* filealloc() and fdalloc(); the file takes the reference over.
OpenFile(p) ==
  /\ Ready(p, "open")
  /\ IF FreeFiles = {} \/ Closed(p) = {}
       THEN /\ hand' = IF FreeFiles = {} THEN hand
                       ELSE [hand EXCEPT ![p] = <<First(FreeFiles)>>]
            /\ ref' = IF FreeFiles = {} THEN ref ELSE [ref EXCEPT ![First(FreeFiles)] = 1]
            /\ pc' = [pc EXCEPT ![p] = "close"]
            /\ UNCHANGED <<obj, ofile, target>>
       ELSE /\ ref' = [ref EXCEPT ![First(FreeFiles)] = 1]
            /\ obj' = [obj EXCEPT ![First(FreeFiles)] = Inode(target[p])]
            /\ ofile' = [ofile EXCEPT ![p][First(Closed(p))] = First(FreeFiles)]
            /\ target' = [target EXCEPT ![p] = Null]
            /\ pc' = [pc EXCEPT ![p] = "user"]
            /\ UNCHANGED hand
  /\ UNCHANGED <<cwd, put, ends, iref, panicked>>

\* sys_chdir() to a directory: the old one is put, the new one keeps the
\* reference of namei().
SysChdir(p, i) ==
  /\ Ready(p, "user")
  /\ iref' = [j \in Inodes |-> iref[j] + (IF j = i THEN 1 ELSE 0) - (IF j = cwd[p] THEN 1 ELSE 0)]
  /\ cwd' = [cwd EXCEPT ![p] = i]
  /\ UNCHANGED <<ref, obj, ofile, pc, hand, target, put, ends, panicked>>

-----------------------------------------------------------------------------
(* fork() and exit() *)

Fork(p, q) ==
  /\ Ready(p, "user") /\ pc[q] = "dead"
  /\ pc' = [pc EXCEPT ![p] = "fork", ![q] = "embryo"]
  /\ target' = [target EXCEPT ![p] = q]
  /\ UNCHANGED <<ref, obj, ofile, cwd, hand, put, ends, iref, panicked>>

\* The descriptors the child still lacks.
Missing(p) == Open(p) \ Open(target[p])

\* filedup() of the next file for the child.
ForkDup(p) ==
  LET q == target[p]
      fd == First(Missing(p))
  IN /\ Ready(p, "fork") /\ Missing(p) # {}
     /\ FileDup(ofile[p][fd])
     /\ ofile' = [ofile EXCEPT ![q][fd] = ofile[p][fd]]
     /\ UNCHANGED <<obj, cwd, pc, hand, target, put, ends, iref>>

\* idup(cwd), and the child may run.
ForkDone(p) ==
  LET q == target[p]
  IN /\ Ready(p, "fork") /\ Missing(p) = {}
     /\ cwd' = [cwd EXCEPT ![q] = cwd[p]]
     /\ iref' = [iref EXCEPT ![cwd[p]] = @ + 1]
     /\ pc' = [pc EXCEPT ![p] = "user", ![q] = "user"]
     /\ target' = [target EXCEPT ![p] = Null]
     /\ UNCHANGED <<ref, obj, ofile, hand, put, ends, panicked>>

Exit(p) ==
  /\ Ready(p, "user") /\ p # InitProc
  /\ pc' = [pc EXCEPT ![p] = "exit"]
  /\ UNCHANGED <<ref, obj, ofile, cwd, hand, target, put, ends, iref, panicked>>

\* exit() closes its files one by one, then puts its directory.
ExitClose(p) ==
  /\ Ready(p, "exit") /\ Open(p) # {}
  /\ LET fd == First(Open(p))
     IN FileClose(p, ofile[p][fd]) /\ ofile' = [ofile EXCEPT ![p][fd] = Null]
  /\ UNCHANGED <<cwd, pc, hand, target, ends, iref>>

ExitDone(p) ==
  /\ Ready(p, "exit") /\ Open(p) = {}
  /\ iref' = Iput(cwd[p])
  /\ cwd' = [cwd EXCEPT ![p] = Null]
  /\ pc' = [pc EXCEPT ![p] = "dead"]
  /\ UNCHANGED <<ref, obj, ofile, hand, target, put, ends, panicked>>

-----------------------------------------------------------------------------
\* userinit() gives the first process its directory and no files.
Init ==
  /\ ref = [f \in Files |-> 0] /\ obj = [f \in Files |-> None]
  /\ ofile = [p \in Procs |-> [fd \in Fds |-> Null]]
  /\ \E root \in Inodes :
       /\ cwd = [p \in Procs |-> IF p = InitProc THEN root ELSE Null]
       /\ iref = [i \in Inodes |-> IF i = root THEN 1 ELSE 0]
  /\ pc = [p \in Procs |-> IF p = InitProc THEN "user" ELSE "dead"]
  /\ hand = [p \in Procs |-> <<>>] /\ put = [p \in Procs |-> <<>>]
  /\ target = [p \in Procs |-> Null]
  /\ ends = [b \in Pipes |-> {}]
  /\ panicked = FALSE

Next ==
  \E p \in Procs :
    \/ Release(p) \/ CloseHand(p)
    \/ \E fd \in Fds : SysDup(p, fd) \/ SysClose(p, fd)
    \/ SysPipe(p) \/ PipeFile(p) \/ PipeInstall(p)
    \/ \E i \in Inodes : SysOpen(p, i) \/ SysChdir(p, i)
    \/ OpenFile(p)
    \/ \E q \in Procs : Fork(p, q)
    \/ ForkDup(p) \/ ForkDone(p)
    \/ Exit(p) \/ ExitClose(p) \/ ExitDone(p)

Spec == Init /\ [][Next]_vars

-----------------------------------------------------------------------------
(* Properties *)

\* The descriptors of a file, and the places of a call that hold it.
Descriptors(f) == {e \in Procs \X Fds : ofile[e[1]][e[2]] = f}
Allocated(f) == {e \in Procs \X (1 .. 2) : e[2] <= Len(hand[e[1]]) /\ hand[e[1]][e[2]] = f}

\* ref counts the descriptors of all processes and the files that calls in
\* progress hold, on every path including the failing ones.
RefCounts ==
  \A f \in Files :
    ref[f] = Cardinality(Descriptors(f)) + Cardinality(Allocated(f))

Pending(o) == {p \in Procs : put[p] = <<o>>}
Using(o) == {f \in Files : ref[f] > 0 /\ obj[f] = o}

\* An end of a pipe is open exactly while one file, or one process about to call
\* pipeclose(), refers to it: no end is closed twice, closed early or leaked.
PipeEndsOwned ==
  \A b \in Pipes, w \in BOOLEAN :
    Cardinality(Using(PipeEnd(b, w))) + Cardinality(Pending(PipeEnd(b, w)))
      = IF w \in ends[b] THEN 1 ELSE 0

\* ip->ref counts the files, the current directories and the calls in progress
\* that refer to the inode.
InodeRefs ==
  \A i \in Inodes :
    iref[i] = Cardinality(Using(Inode(i))) + Cardinality(Pending(Inode(i)))
              + Cardinality({p \in Procs : cwd[p] = i})
              + Cardinality({p \in Procs : target[p] = i})

\* What a file stands for lives as long as something refers to it, although
\* fileclose() gives it back only after it has released ftable.lock.
ObjectsOwned == PipeEndsOwned /\ InodeRefs

=============================================================================
