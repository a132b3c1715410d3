------------------------------- MODULE Shell --------------------------------
(***************************************************************************)
(* The shell, src/xv6-public/sh.c: main(), and runcmd() in the processes   *)
(* it forks.  The kernel is external: processes, the pipes they share and  *)
(* their descriptors are modelled by what fork(), wait(), exit(), pipe(),  *)
(* dup(), close() and open() do for the shell.                             *)
(*                                                                         *)
(* A step is one system call that other processes can notice, with what    *)
(* the process does on its own descriptors after it.                       *)
(***************************************************************************)
EXTENDS ShellGrammar

CONSTANTS
  Pids,        \* the processes besides the shell that can be there at a time
  NOFILE,
  PipeIds,
  Lines,       \* what is typed
  NLINES       \* how many lines are typed

VARIABLES
  proc,        \* of each process: state, parent, pc, cmd, its descriptors, p[0] and
               \* p[1]; and history: where its standard input and output should be,
               \* and whether an & put it in the background
  typed,       \* how many lines have been typed
  forkfailed   \* history: fork() has failed

vars == <<proc, typed, forkfailed>>

Sh == 0
InitPid == -1
All == Pids \cup {Sh}
Fds == 0 .. NOFILE - 1

ShellAssumption == NLINES \in Nat /\ Pids \subseteq Nat \ {0} /\ NOFILE >= 5 /\ MAXARGS \in Nat \ {0}

Obj(kind, id) == [kind |-> kind, id |-> <<id>>]
Closed == Obj("closed", "")
Console == Obj("console", "")
Reader(b) == Obj("reader", b)
Writer(b) == Obj("writer", b)
File(name) == [kind |-> "file", id |-> name]

Unused == [state |-> "UNUSED", par |-> InitPid, pc |-> "none", cmd |-> Error,
           fds |-> [fd \in Fds |-> Closed], p |-> <<0, 0>>, in |-> Console, out |-> Console,
           back |-> FALSE]

-----------------------------------------------------------------------------
(* System calls *)

Live(p) == proc[p].state = "LIVE"
Kids(p) == {q \in Pids : proc[q].state # "UNUSED" /\ proc[q].par = p}
Dead(p) == {q \in Kids(p) : proc[q].state = "ZOMBIE"}

LowestFree(fds) == CHOOSE fd \in Fds : fds[fd] = Closed /\ \A g \in Fds : fds[g] = Closed => fd <= g
HasFree(fds, k) == Cardinality({fd \in Fds : fds[fd] = Closed}) >= k
Open(fds, obj) == [fds EXCEPT ![LowestFree(fds)] = obj]
Close(fds, fd) == [fds EXCEPT ![fd] = Closed]
Dup(fds, fd) == Open(fds, fds[fd])

Refers(p, obj) == \E fd \in Fds : proc[p].fds[fd] = obj
FreePipes == {b \in PipeIds : \A p \in All : ~Refers(p, Reader(b)) /\ ~Refers(p, Writer(b))}

\* exit(): init takes over the children and waits for them.
Exited(t, p) ==
  [q \in All |->
     IF q = p THEN IF t[p].par = InitPid /\ p # Sh THEN Unused
                   ELSE [Unused EXCEPT !.state = "ZOMBIE", !.par = t[p].par]
     ELSE IF t[q].par # p \/ t[q].state = "UNUSED" THEN t[q]
     ELSE IF t[q].state = "ZOMBIE" THEN Unused
     ELSE [t[q] EXCEPT !.par = InitPid]]

Exit(p) == proc' = Exited(proc, p) /\ UNCHANGED forkfailed

\* fork1() in process p, which goes on as parent; the child starts at child.
Fork(p, parent, child) ==
  LET free == {q \in Pids : proc[q].state = "UNUSED"} IN
  IF free = {} THEN proc' = Exited(proc, p) /\ forkfailed' = TRUE
  ELSE /\ \E q \in free : (\A r \in free : q <= r) /\ proc' = [proc EXCEPT ![p] = parent, ![q] = child]
       /\ UNCHANGED forkfailed

-----------------------------------------------------------------------------
(* main() *)

\* The child runs runcmd(parsecmd(buf)).
GetCmd(line) ==
  /\ proc[Sh].pc = "prompt" /\ typed < NLINES
  /\ typed' = typed + 1
  /\ Fork(Sh, [proc[Sh] EXCEPT !.pc = "wait"],
              [proc[Sh] EXCEPT !.par = Sh, !.pc = "run", !.cmd = ParseCmd(line)])

\* The end of the input.
GetEof == proc[Sh].pc = "prompt" /\ Exit(Sh)

-----------------------------------------------------------------------------
(* runcmd() *)

Runs(p, type) == Live(p) /\ proc[p].pc = "run" /\ proc[p].cmd.type = type

\* A syntax error, or no command at all.
RunNothing(p) ==
  /\ Runs(p, "ERROR") \/ (Runs(p, "EXEC") /\ proc[p].cmd.argv = <<>>)
  /\ Exit(p)

RunExec(p) ==
  /\ Runs(p, "EXEC") /\ proc[p].cmd.argv # <<>>
  /\ proc' = [proc EXCEPT ![p].pc = "program"]
  /\ UNCHANGED forkfailed

ExecFails(p) == Runs(p, "EXEC") /\ proc[p].cmd.argv # <<>> /\ Exit(p)

(* The operators named M_... are faulty variants of the definition they stand
   before; only the mutation of the model refers to them. *)

M_RunRedirNoClose(p) ==
  LET c == proc[p].cmd
      file == File(c.file)
  IN /\ Runs(p, "REDIR")
     /\ proc' = [proc EXCEPT ![p].cmd = c.cmd, ![p].fds = Open(@, file),
                             ![p].in = IF c.fd = 0 THEN file ELSE @,
                             ![p].out = IF c.fd = 1 THEN file ELSE @]
     /\ UNCHANGED forkfailed

RunRedir(p) ==
  LET c == proc[p].cmd
      file == File(c.file)
  IN /\ Runs(p, "REDIR")
     /\ proc' = [proc EXCEPT ![p].cmd = c.cmd, ![p].fds = Open(Close(@, c.fd), file),
                             ![p].in = IF c.fd = 0 THEN file ELSE @,
                             ![p].out = IF c.fd = 1 THEN file ELSE @]
     /\ UNCHANGED forkfailed

OpenFails(p) == Runs(p, "REDIR") /\ Exit(p)

Sub(p, cmd) == [proc[p] EXCEPT !.par = p, !.pc = "run", !.cmd = cmd]

M_RunListNoWait(p) ==
  /\ Runs(p, "LIST")
  /\ Fork(p, [proc[p] EXCEPT !.cmd = proc[p].cmd.right], Sub(p, proc[p].cmd.left))

RunList(p) ==
  /\ Runs(p, "LIST")
  /\ Fork(p, [proc[p] EXCEPT !.pc = "list"], Sub(p, proc[p].cmd.left))

RunPipe(p) ==
  LET fds == proc[p].fds IN
  /\ Runs(p, "PIPE") /\ FreePipes # {} /\ HasFree(fds, 2)
  /\ LET b == CHOOSE b \in FreePipes : TRUE
         p0 == LowestFree(fds)
         half == Open(fds, Reader(b))
     IN proc' = [proc EXCEPT ![p].fds = Open(half, Writer(b)), ![p].p = <<p0, LowestFree(half)>>,
                             ![p].pc = "left"]
  /\ UNCHANGED forkfailed

PipeFails(p) == Runs(p, "PIPE") /\ Exit(p)

ForkLeft(p) ==
  /\ Live(p) /\ proc[p].pc = "left"
  /\ Fork(p, [proc[p] EXCEPT !.pc = "right"],
             [Sub(p, proc[p].cmd.left) EXCEPT !.pc = "dupleft", !.out = proc[p].fds[proc[p].p[2]]])

\* After the second fork1() the parent closes its ends.
ForkRight(p) ==
  LET s == proc[p] IN
  /\ Live(p) /\ s.pc = "right"
  /\ Fork(p, [s EXCEPT !.pc = "wait2", !.fds = Close(Close(@, s.p[1]), s.p[2])],
             [Sub(p, s.cmd.right) EXCEPT !.pc = "dupright", !.in = s.fds[s.p[1]]])

DupLeft(p) ==
  LET s == proc[p] IN
  /\ Live(p) /\ s.pc = "dupleft"
  /\ proc' = [proc EXCEPT ![p].pc = "run",
                ![p].fds = Close(Close(Dup(Close(@, 1), s.p[2]), s.p[1]), s.p[2])]
  /\ UNCHANGED forkfailed

M_DupRightKeeps(p) ==
  LET s == proc[p] IN
  /\ Live(p) /\ s.pc = "dupright"
  /\ proc' = [proc EXCEPT ![p].pc = "run", ![p].fds = Close(Dup(Close(@, 0), s.p[1]), s.p[1])]
  /\ UNCHANGED forkfailed

DupRight(p) ==
  LET s == proc[p] IN
  /\ Live(p) /\ s.pc = "dupright"
  /\ proc' = [proc EXCEPT ![p].pc = "run",
                ![p].fds = Close(Close(Dup(Close(@, 0), s.p[1]), s.p[1]), s.p[2])]
  /\ UNCHANGED forkfailed

\* The parent does not wait: it exits at once.
RunBack(p) ==
  /\ Runs(p, "BACK")
  /\ Fork(p, [proc[p] EXCEPT !.pc = "exit"], [Sub(p, proc[p].cmd.cmd) EXCEPT !.back = TRUE])

BackExit(p) == Live(p) /\ proc[p].pc = "exit" /\ Exit(p)

-----------------------------------------------------------------------------
\* wait() returns with a dead child, or at once if there is no child.
Waiting == {"wait", "list", "wait2", "wait1"}
Reaped(q) == [proc EXCEPT ![q] = Unused]

Wait(p) ==
  /\ Live(p) /\ proc[p].pc \in Waiting
  /\ \E t \in {Reaped(q) : q \in Dead(p)} \cup (IF Kids(p) = {} THEN {proc} ELSE {}) :
       proc' = CASE proc[p].pc = "wait" -> [t EXCEPT ![p].pc = "prompt"]
                 [] proc[p].pc = "list" -> [t EXCEPT ![p].pc = "run", ![p].cmd = @.right]
                 [] proc[p].pc = "wait2" -> [t EXCEPT ![p].pc = "wait1"]
                 [] proc[p].pc = "wait1" -> Exited(t, p)
  /\ UNCHANGED forkfailed

\* Programs are external.  A program reads its input to the end, which a pipe
\* has when no process has its other end open, and exits.
AtEnd(p) ==
  LET in == proc[p].fds[0] IN
  in.kind = "reader" => \A q \in All : ~Refers(q, [in EXCEPT !.kind = "writer"])

ProgramExit(p) == Live(p) /\ proc[p].pc = "program" /\ AtEnd(p) /\ Exit(p)

Init ==
  /\ proc = [p \in All |->
       IF p = Sh THEN [Unused EXCEPT !.state = "LIVE", !.pc = "prompt",
                                     !.fds = [fd \in Fds |-> IF fd < 3 THEN Console ELSE Closed]]
       ELSE Unused]
  /\ typed = 0 /\ forkfailed = FALSE

RunCmd(p) ==
  \/ RunNothing(p) \/ RunExec(p) \/ ExecFails(p) \/ RunRedir(p) \/ OpenFails(p)
  \/ RunList(p) \/ RunPipe(p) \/ PipeFails(p) \/ ForkLeft(p) \/ ForkRight(p)
  \/ DupLeft(p) \/ DupRight(p) \/ RunBack(p) \/ BackExit(p)

Next ==
  \/ \E line \in Lines : GetCmd(line)
  \/ /\ GetEof \/ (\E p \in All : Wait(p)) \/ (\E p \in Pids : RunCmd(p) \/ ProgramExit(p))
     /\ UNCHANGED typed

Spec == Init /\ [][Next]_vars

-----------------------------------------------------------------------------
(* Properties *)

\* A program starts with the standard input and output that the line gives it,
\* through any nesting of pipes, blocks and redirections, and with no other
\* descriptor but the standard error.
Wired ==
  \A p \in Pids : Live(p) /\ proc[p].pc = "program" =>
    \A fd \in Fds : proc[p].fds[fd] = CASE fd = 0 -> proc[p].in
                                        [] fd = 1 -> proc[p].out
                                        [] fd = 2 -> Console
                                        [] OTHER -> Closed

\* Not everyone waits for someone else: while the shell waits, some process
\* is neither in wait() with living children only nor reads from a pipe that
\* still has a writer.  A descriptor runcmd() forgot to close would hang the line.
NobodyHangs ==
  Live(Sh) /\ proc[Sh].pc = "wait" =>
    \E p \in All :
      /\ Live(p)
      /\ proc[p].pc \in Waiting => Dead(p) # {} \/ Kids(p) = {}
      /\ proc[p].pc = "program" => AtEnd(p)

\* When the shell prompts again, the commands of the earlier lines are done, all
\* but those an & put in the background, as long as no fork() has failed: runcmd()
\* then exits without waiting for the left side of a pipe.
ForegroundDone ==
  Live(Sh) /\ proc[Sh].pc = "prompt" /\ ~forkfailed =>
    \A p \in Pids : Live(p) => proc[p].back

=============================================================================
