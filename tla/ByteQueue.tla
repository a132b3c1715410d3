------------------------------ MODULE ByteQueue ------------------------------
(***************************************************************************)
(* What a pipe promises: a bounded queue of bytes, put at one end and taken *)
(* from the other in the same order.                                       *)
(***************************************************************************)
EXTENDS Naturals, Sequences

CONSTANTS Bytes, Capacity, Readers

VARIABLES
  queue,   \* the bytes in the pipe
  addr     \* the byte each reader took last

vars == <<queue, addr>>

Init == queue = <<>> /\ addr \in [Readers -> Bytes]

Put(b) == Len(queue) < Capacity /\ queue' = Append(queue, b) /\ UNCHANGED addr

Get(r) ==
  /\ queue # <<>>
  /\ addr' = [addr EXCEPT ![r] = Head(queue)]
  /\ queue' = Tail(queue)

Next == (\E b \in Bytes : Put(b)) \/ (\E r \in Readers : Get(r))

Spec == Init /\ [][Next]_vars

=============================================================================
