------------------------------ MODULE MCConsole ------------------------------
(* A small instance of Console. *)
EXTENDS Console, TLC

\* Values nobody reads again are left out of the fingerprint of a state: intena
\* of a CPU with ncli 0, the cells of the ring that are not in use, doprocdump
\* outside the loop of consoleintr().
ConsoleView ==
  <<locked, lkcpu, ncli, [c \in CPUs |-> ncli[c] > 0 /\ intena[c]], fl, spin, panicked,
    threads, Typed(r, Minus(e, r)), r, w, e, n, target,
    doprocdump /\ Cur(on[BootCpu]) \in {"getc", "notify", "notified"}>>

=============================================================================
