---------------------------- MODULE MCRoundRobin ----------------------------
(* A small instance of RoundRobin. *)
EXTENDS RoundRobin, TLC

=============================================================================
