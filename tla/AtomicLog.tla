------------------------------ MODULE AtomicLog ------------------------------
(***************************************************************************)
(* What the log of src/xv6-public/log.c promises to file-system calls and  *)
(* to the machine after a crash.  Calls see the latest contents of every   *)
(* block; the contents that survive a crash change only when no call is in *)
(* progress, and then to everything the finished calls have written.       *)
(***************************************************************************)
CONSTANTS Procs, Blocks, Values

VARIABLES
  durable,   \* the blocks as a crash now would leave them
  view,      \* the blocks as file-system calls see them
  active     \* the processes between begin_op() and end_op()

vars == <<durable, view, active>>

Init ==
  /\ durable \in [Blocks -> Values]
  /\ view = durable
  /\ active = {}

Begin(p) ==
  /\ p \notin active
  /\ active' = active \cup {p}
  /\ UNCHANGED <<durable, view>>

Write(p, b, v) ==
  /\ p \in active
  /\ view' = [view EXCEPT ![b] = v]
  /\ UNCHANGED <<durable, active>>

End(p) ==
  /\ p \in active
  /\ active' = active \ {p}
  /\ UNCHANGED <<durable, view>>

Commit ==
  /\ active = {}
  /\ durable' = view
  /\ UNCHANGED <<view, active>>

Crash ==
  /\ view' = durable
  /\ active' = {}
  /\ UNCHANGED durable

Next ==
  \/ \E p \in Procs : Begin(p) \/ End(p)
  \/ \E p \in Procs, b \in Blocks, v \in Values : Write(p, b, v)
  \/ Commit
  \/ Crash

Spec == Init /\ [][Next]_vars

=============================================================================
