---------------------------- MODULE ShellGrammar ----------------------------
(***************************************************************************)
(* What the lines of the shell mean: a grammar over tokens,                *)
(*                                                                         *)
(*   line  ::= pipe "&"* [";" line]                                        *)
(*   pipe  ::= exec ["|" pipe]                                             *)
(*   exec  ::= redir* (word redir* )*  |  "(" line ")" redir*              *)
(*   redir ::= ("<" | ">" | ">>") word                                     *)
(*                                                                         *)
(* given by the set of trees of every sequence of tokens.  A word is the   *)
(* sequence of its characters, a symbol the sequence of one or two.  Of    *)
(* several redirections the first one is the innermost.                    *)
(***************************************************************************)
EXTENDS ShellParser, FiniteSets

RECURSIVE Lex(_)
Lex(line) ==
  LET isword(n) == \A k \in 1 .. n : line[k] \notin Symbols \cup {Space}
      longest == CHOOSE n \in 1 .. Len(line) : isword(n) /\ (n = Len(line) \/ ~isword(n + 1))
      cut == IF line[1] \notin Symbols THEN longest
             ELSE IF Len(line) > 1 /\ line[1] = ">" /\ line[2] = ">" THEN 2 ELSE 1
  IN IF line = <<>> THEN <<>>
     ELSE IF line[1] = Space THEN Lex(Tail(line))
     ELSE <<SubSeq(line, 1, cut)>> \o Lex(SubSeq(line, cut + 1, Len(line)))

IsWord(t) == t[1] \notin Symbols
IsRedir(t) == t[1] \in {"<", ">"}
Upto(ts, k) == SubSeq(ts, 1, k)
From(ts, k) == SubSeq(ts, k, Len(ts))

\* The tokens ts, of which every redirection is followed by its file.
Simple(ts) ==
  \A k \in 1 .. Len(ts) :
    \/ IsWord(ts[k])
    \/ IsRedir(ts[k]) /\ k < Len(ts) /\ IsWord(ts[k + 1])

IsFile(ts, k) == k > 1 /\ IsRedir(ts[k - 1])

RECURSIVE Args(_, _), Redirs(_, _)
Args(ts, k) ==
  IF k > Len(ts) THEN <<>>
  ELSE (IF IsWord(ts[k]) /\ ~IsFile(ts, k) THEN <<ts[k]>> ELSE <<>>) \o Args(ts, k + 1)
Redirs(ts, cmd) ==
  LET R == {k \in 1 .. Len(ts) : IsRedir(ts[k])} IN
  IF R = {} THEN cmd
  ELSE LET last == CHOOSE k \in R : \A j \in R : j <= k
       IN RedirCmd(Redirs(Upto(ts, last - 1), cmd), ts[last + 1], IF ts[last] = <<"<">> THEN 0 ELSE 1)

RECURSIVE LineTrees(_), PipeTrees(_), ExecTrees(_)
ExecTrees(ts) ==
  (IF Simple(ts) /\ Len(Args(ts, 1)) < MAXARGS THEN {Redirs(ts, ExecCmd(Args(ts, 1)))} ELSE {})
  \cup UNION {IF /\ ts[1] = <<"(">> /\ ts[k] = <<")">>
                 /\ Simple(From(ts, k + 1)) /\ Args(From(ts, k + 1), 1) = <<>>
              THEN {Redirs(From(ts, k + 1), t) : t \in LineTrees(SubSeq(ts, 2, k - 1))}
              ELSE {} : k \in 2 .. Len(ts)}
PipeTrees(ts) ==
  ExecTrees(ts)
  \cup UNION {IF ts[k] = <<"|">>
              THEN {PipeCmd(l, r) : l \in ExecTrees(Upto(ts, k - 1)), r \in PipeTrees(From(ts, k + 1))}
              ELSE {} : k \in 1 .. Len(ts)}

RECURSIVE BackTrees(_)
BackTrees(ts) ==
  PipeTrees(ts)
  \cup (IF ts # <<>> /\ ts[Len(ts)] = <<"&">>
        THEN {BackCmd(t) : t \in BackTrees(Upto(ts, Len(ts) - 1))} ELSE {})
LineTrees(ts) ==
  BackTrees(ts)
  \cup UNION {IF ts[k] = <<";">>
              THEN {ListCmd(l, r) : l \in BackTrees(Upto(ts, k - 1)), r \in LineTrees(From(ts, k + 1))}
              ELSE {} : k \in 1 .. Len(ts)}

Meaning(line) == LET T == LineTrees(Lex(line)) IN IF T = {} THEN {Error} ELSE T

=============================================================================
