----------------------------- MODULE MCObjects ------------------------------
(***************************************************************************)
(* Small instances of FileTable and Pipe, the objects that processes share *)
(* through their file descriptors.  A behaviour is one of one of the two:  *)
(* subject says which, and the other one stays in an initial state.        *)
(***************************************************************************)
EXTENDS FileTable, Pipe, TLC

VARIABLE subject

ASSUME PipeInstance == PipeAssumption

ObjectsInit ==
  /\ subject \in {"file", "pipe"}
  /\ Init /\ PipeInit
  /\ subject # "pipe" => \E b \in Bytes : (\A c \in Bytes : b <= c) /\ data[0] = b
                                       /\ \A p \in Readers : addr[p] = b

\* The ends of a pipe may all be closed; nothing happens then.
ObjectsNext ==
  \/ subject = "file" /\ Next /\ UNCHANGED <<subject, pipevars>>
  \/ subject = "pipe" /\ PipeNext /\ UNCHANGED <<subject, vars>>
  \/ subject = "pipe" /\ freed > 0 /\ UNCHANGED <<subject, vars, pipevars>>

ObjectsVars == <<subject, vars, pipevars>>
ObjectsSpec == ObjectsInit /\ [][ObjectsNext]_ObjectsVars

ObjectsSymmetry == Permutations(Inodes) \cup Permutations(Writers) \cup Permutations(Readers)

=============================================================================
