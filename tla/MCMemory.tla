------------------------------ MODULE MCMemory ------------------------------
(* A small instance of Memory. *)
EXTENDS Memory, TLC

MCDeltas == {-2, -1, 3}

=============================================================================
