------------------------------- MODULE MCNames -------------------------------
(* Small instances of Names: which calls are made, with which paths. *)
EXTENDS Names, TLC

Abs(elems) == [abs |-> TRUE, elems |-> elems]
Rel(elems) == [abs |-> FALSE, elems |-> elems]
C(op, path) == [op |-> op, path |-> path, new |-> Abs(<<>>)]
L(path, new) == [op |-> "link", path |-> path, new |-> new]

\* One file that is created, opened and unlinked.
OrphanCalls ==
  {C("create", Abs(<<"a">>)), C("open", Abs(<<"a">>)), C("unlink", Abs(<<"a">>))}

\* Files, links and directories together.
MixedCalls ==
  {C("create", Abs(<<"a">>)), C("unlink", Abs(<<"a">>)), C("mkdir", Abs(<<"a">>)), C("chdir", Abs(<<"a", "a">>)),
   C("mkdir", Abs(<<"a", "a">>)),  C("unlink", Abs(<<"a", "a">>)), C("open", Rel(<<"..">>)), C("unlink", Abs(<<>>)), C("open", Abs(<<"a">>)),
   L(Abs(<<"a">>), Abs(<<"b">>)), L(Abs(<<>>), Abs(<<"b">>))}

ProcSymmetry == Permutations(Procs)

=============================================================================
