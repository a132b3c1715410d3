----------------------------- MODULE LineEditor ------------------------------
(***************************************************************************)
(* What the console promises its readers: the line being typed can be      *)
(* edited until it is complete; complete lines are read once, in order,    *)
(* and what has been handed over is no longer edited.                      *)
(***************************************************************************)
EXTENDS Naturals, Sequences

CONSTANTS
  Ends,       \* characters that complete a line
  Others,     \* characters that do not
  Capacity

VARIABLES
  line,    \* the line being typed
  queue    \* the characters that may be read

vars == <<line, queue>>

Init == line = <<>> /\ queue = <<>>

Room == Len(line) + Len(queue) < Capacity

\* A character that completes the line, or the last one there is room for,
\* hands the line over.
Type(ch) ==
  /\ Room
  /\ IF ch \in Ends \/ Len(line) + Len(queue) + 1 = Capacity
     THEN line' = <<>> /\ queue' = queue \o Append(line, ch)
     ELSE line' = Append(line, ch) /\ UNCHANGED queue

Erase == line # <<>> /\ line' = SubSeq(line, 1, Len(line) - 1) /\ UNCHANGED queue

KillLine == line' = <<>> /\ UNCHANGED queue

Take == queue # <<>> /\ queue' = Tail(queue) /\ UNCHANGED line

Next == (\E ch \in Ends \cup Others : Type(ch)) \/ Erase \/ KillLine \/ Take

Spec == Init /\ [][Next]_vars

=============================================================================
