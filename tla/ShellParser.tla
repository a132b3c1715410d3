---------------------------- MODULE ShellParser -----------------------------
(***************************************************************************)
(* The parser of the shell, src/xv6-public/sh.c: from a line to a tree of  *)
(* commands.  A line is a sequence of characters; what is not white space  *)
(* or a symbol is part of a word.  A position is an index into the line,   *)
(* es is behind its end.  Every function that takes char **ps returns the  *)
(* new position, and Error for a call of panic(), which exits.             *)
(***************************************************************************)
EXTENDS Integers, Sequences

CONSTANT MAXARGS

Space == " "
Symbols == {"<", "|", ">", "&", ";", "(", ")"}

Error == [type |-> "ERROR"]
ExecCmd(argv) == [type |-> "EXEC", argv |-> argv]
RedirCmd(cmd, file, fd) == [type |-> "REDIR", cmd |-> cmd, file |-> file, fd |-> fd]
PipeCmd(left, right) == [type |-> "PIPE", left |-> left, right |-> right]
ListCmd(left, right) == [type |-> "LIST", left |-> left, right |-> right]
BackCmd(cmd) == [type |-> "BACK", cmd |-> cmd]

-----------------------------------------------------------------------------
At(line, s) == IF s <= Len(line) THEN line[s] ELSE "nul"

RECURSIVE SkipSpace(_, _), SkipWord(_, _)
SkipSpace(line, s) == IF At(line, s) = Space THEN SkipSpace(line, s + 1) ELSE s
SkipWord(line, s) ==
  IF At(line, s) \in Symbols \cup {Space, "nul"} THEN s ELSE SkipWord(line, s + 1)

\* gettoken(): the token, where it starts and ends, and the new position.
GetToken(line, ps) ==
  LET q == SkipSpace(line, ps)
      c == At(line, q)
      eq == IF c = "nul" THEN q
            ELSE IF c = ">" /\ At(line, q + 1) = ">" THEN q + 2
            ELSE IF c \in Symbols THEN q + 1
            ELSE SkipWord(line, q)
      tok == IF c = ">" /\ eq = q + 2 THEN "+" ELSE IF c \in Symbols \cup {"nul"} THEN c ELSE "a"
  IN [tok |-> tok, word |-> <<q, eq>>, s |-> SkipSpace(line, eq)]

Peek(line, s, toks) == At(line, SkipSpace(line, s)) \in toks

\* A command and the position behind it.
Result(cmd, s) == [cmd |-> cmd, s |-> s]
Failed(r) == r.cmd = Error

-----------------------------------------------------------------------------
RECURSIVE ParseLine(_, _), ParsePipe(_, _), ParseExec(_, _), ParseRedirs(_, _, _),
          ParseArgs(_, _, _), Backs(_, _)

(* The operators named M_... are faulty variants of the definition they stand
   before; only the mutation of the model refers to them. *)

M_ParseRedirsIf(line, cmd, s) ==
  IF ~Peek(line, s, {"<", ">"}) THEN Result(cmd, s)
  ELSE LET op == GetToken(line, s)
           name == GetToken(line, op.s)
       IN IF name.tok # "a" THEN Result(Error, s)
          ELSE Result(RedirCmd(cmd, name.word, IF op.tok = "<" THEN 0 ELSE 1), name.s)

ParseRedirs(line, cmd, s) ==
  IF ~Peek(line, s, {"<", ">"}) THEN Result(cmd, s)
  ELSE LET op == GetToken(line, s)
           name == GetToken(line, op.s)
       IN IF name.tok # "a" THEN Result(Error, s)
          ELSE ParseRedirs(line, RedirCmd(cmd, name.word, IF op.tok = "<" THEN 0 ELSE 1), name.s)

\* ret, with one more argument for the execcmd inside.
RECURSIVE AddArg(_, _)
AddArg(ret, word) ==
  IF ret.type = "EXEC" THEN ExecCmd(Append(ret.argv, word))
  ELSE [ret EXCEPT !.cmd = AddArg(@, word)]

\* The loop of parseexec(), with argc arguments so far.
ParseArgs(line, r, argc) ==
  LET t == GetToken(line, r.s) IN
  IF Failed(r) \/ Peek(line, r.s, {"|", ")", "&", ";"}) THEN r
  ELSE IF t.tok = "nul" THEN Result(r.cmd, t.s)
  ELSE IF t.tok # "a" \/ argc + 1 >= MAXARGS THEN Result(Error, t.s)
  ELSE ParseArgs(line, ParseRedirs(line, AddArg(r.cmd, t.word), t.s), argc + 1)

\* The rest of parseblock(), parsepipe() and parseline(), behind the first command.
CloseBlock(line, r) ==
  IF Failed(r) THEN r
  ELSE IF ~Peek(line, r.s, {")"}) THEN Result(Error, r.s)
  ELSE ParseRedirs(line, r.cmd, GetToken(line, r.s).s)

PipeOf(l, r) == Result(IF Failed(r) THEN Error ELSE PipeCmd(l.cmd, r.cmd), r.s)
PipeRest(line, l) ==
  IF Failed(l) \/ ~Peek(line, l.s, {"|"}) THEN l
  ELSE PipeOf(l, ParsePipe(line, GetToken(line, l.s).s))

ListOf(l, r) == Result(IF Failed(r) THEN Error ELSE ListCmd(l.cmd, r.cmd), r.s)
ListRest(line, l) ==
  IF Failed(l) \/ ~Peek(line, l.s, {";"}) THEN l
  ELSE ListOf(l, ParseLine(line, GetToken(line, l.s).s))

ParseBlock(line, s) == CloseBlock(line, ParseLine(line, GetToken(line, s).s))

ParseExec(line, s) ==
  IF Peek(line, s, {"("}) THEN ParseBlock(line, s)
  ELSE ParseArgs(line, ParseRedirs(line, ExecCmd(<<>>), s), 0)

ParsePipe(line, s) == PipeRest(line, ParseExec(line, s))

\* The loop of parseline() over "&".
Backs(line, r) ==
  IF Failed(r) \/ ~Peek(line, r.s, {"&"}) THEN r
  ELSE Backs(line, Result(BackCmd(r.cmd), GetToken(line, r.s).s))

ParseLine(line, s) == ListRest(line, Backs(line, ParsePipe(line, s)))

\* parsecmd(), before nulterminate().
Whole(line, r) == IF Failed(r) \/ SkipSpace(line, r.s) <= Len(line) THEN Error ELSE r.cmd
ParseTree(line) == Whole(line, ParseLine(line, 1))

-----------------------------------------------------------------------------
(* nulterminate() *)

\* The ends of the words of a tree, which get a NUL.
RECURSIVE Words(_)
Words(cmd) ==
  CASE cmd.type = "EXEC" -> {cmd.argv[k] : k \in 1 .. Len(cmd.argv)}
    [] cmd.type = "REDIR" -> Words(cmd.cmd) \cup {cmd.file}
    [] cmd.type = "BACK" -> Words(cmd.cmd)
    [] cmd.type \in {"PIPE", "LIST"} -> Words(cmd.left) \cup Words(cmd.right)
    [] OTHER -> {}

Terminated(line, cmd) ==
  [k \in 1 .. Len(line) |-> IF \E word \in Words(cmd) : word[2] = k THEN "nul" ELSE line[k]]

\* The string that starts at position q.
RECURSIVE StringAt(_, _)
StringAt(line, q) == IF At(line, q) = "nul" THEN <<>> ELSE <<line[q]>> \o StringAt(line, q + 1)

\* The tree with the strings that runcmd() sees.
RECURSIVE Read(_, _)
Read(line, cmd) ==
  CASE cmd.type = "EXEC" -> ExecCmd([k \in 1 .. Len(cmd.argv) |-> StringAt(line, cmd.argv[k][1])])
    [] cmd.type = "REDIR" -> RedirCmd(Read(line, cmd.cmd), StringAt(line, cmd.file[1]), cmd.fd)
    [] cmd.type = "BACK" -> BackCmd(Read(line, cmd.cmd))
    [] cmd.type = "PIPE" -> PipeCmd(Read(line, cmd.left), Read(line, cmd.right))
    [] cmd.type = "LIST" -> ListCmd(Read(line, cmd.left), Read(line, cmd.right))
    [] OTHER -> Error

NulTerminate(line, cmd) == Read(Terminated(line, cmd), cmd)
ParseCmd(line) == NulTerminate(line, ParseTree(line))

=============================================================================
