-------------------------------- MODULE MCLog --------------------------------
(* Instances of Log for TLC. *)
EXTENDS Log, TLC

LogSymmetry ==
  Permutations(Procs) \cup Permutations(Blocks) \cup Permutations(Values)

=============================================================================
