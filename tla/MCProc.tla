------------------------------- MODULE MCProc -------------------------------
(* Instances of Proc for TLC. *)
EXTENDS Proc, TLC

\* The two CPUs of an instance behave alike.
CpuSymmetry == Permutations(CPUs)
=============================================================================
