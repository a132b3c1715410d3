----------------------------- MODULE LogProofs ------------------------------
(***************************************************************************)
(* The inductive invariant of Log, for every set of processes and blocks   *)
(* and every size of the log: what each step preserves, and that the       *)
(* reservation of begin_op() leaves room for what is logged.  From it: the *)
(* log never fills up, no block is lost from the cache, Log implements     *)
(* AtomicLog, and nobody sleeps in begin_op() in vain, if a file-system    *)
(* call writes fewer than MAXOPBLOCKS blocks.                              *)
(***************************************************************************)
EXTENDS Log, FiniteSetTheorems, TLAPS

\* What begin_op() takes for granted: with LOGSIZE data blocks reserved in an
\* on-disk log of nlog blocks, a call may log at most MAXOPBLOCKS - 1 blocks.
LogHasRoom ==
  /\ OpBlocks < MAXOPBLOCKS
  /\ OpBlocks <= LOGSIZE - 2
  /\ LOGSIZE <= nlog

-----------------------------------------------------------------------------
(* Control: who is where while a commit or a recovery runs. *)

Control ==
  /\ outstanding = Cardinality(InOp)
  /\ committing => InOp = {}
  /\ booting => /\ \A p \in Procs : op[p] = "out"
                /\ phase \in {"read_head", "install_trans", "clear_head"}
                /\ ~committing
  /\ ~booting => phase # "read_head" /\ (committing <=> phase # "none")
  /\ \A p \in Procs : op[p] = "log" <=> cur[p] # NoBlock
  /\ \A p, q \in Procs : cur[p] = cur[q] /\ cur[p] # NoBlock => p = q
  /\ ~committing /\ ~booting /\ InOp = {} => lh = <<>>
  /\ \A p \in Procs : op[p] = "commit" => committing
  /\ \A p, q \in Procs : op[p] = "commit" /\ op[q] = "commit" => p = q
  /\ phase \in {"write_log", "install_trans"} => tail \in 1 .. Len(lh)
  /\ phase = "write_head" => tail = 1 /\ lh # <<>>

Headers ==
  /\ phase \in {"none", "write_log", "write_head", "done"} => head = <<>>
  /\ phase \in {"install_trans", "clear_head"} => head = lh
  /\ phase = "done" => lh = <<>>
  /\ \A i, j \in 1 .. Len(lh) : lh[i] = lh[j] => i = j
  /\ \A i, j \in 1 .. Len(head) : head[i] = head[j] => i = j
  /\ Len(head) <= LOGSIZE - 2

\* The blocks in the cache, in the log and at home.
Contents ==
  /\ booting => cache = disk
  /\ ~booting => \A b \in Blocks :
       b \notin Logged /\ (\A p \in Procs : cur[p] # b) => cache[b] = disk[b]
  /\ phase \in {"none", "write_log", "write_head"} => Logged \subseteq dirty
  /\ phase = "write_log" => \A i \in 1 .. tail - 1 : logd[i] = cache[lh[i]]
  /\ phase = "write_head" => \A i \in 1 .. Len(lh) : logd[i] = cache[lh[i]]
  /\ phase = "install_trans" =>
       /\ \A i \in 1 .. tail - 1 : disk[lh[i]] = logd[i] /\ cache[lh[i]] = logd[i]
       /\ ~booting => \A i \in 1 .. Len(lh) : logd[i] = cache[lh[i]]
       /\ ~booting => \A i \in tail .. Len(lh) : lh[i] \in dirty
  /\ phase = "clear_head" =>
       \A i \in 1 .. Len(lh) : disk[lh[i]] = logd[i] /\ cache[lh[i]] = logd[i]

\* The log still has room for all that the calls in progress may log.  Tokens
\* are the log entries promised to them, Remaining the ones not used yet.
Tokens == InOp \X (1 .. OpBlocks)
Remaining == {t \in Tokens : t[2] > Cardinality(wrote[t[1]])}

Space ==
  /\ \A p \in Procs : IsFiniteSet(wrote[p])
  /\ \A p \in Procs : op[p] = "in" => wrote[p] \subseteq Logged
  /\ \A p \in Procs : op[p] = "log" =>
       /\ wrote[p] \subseteq Logged
       /\ Cardinality(wrote[p] \cup {cur[p]}) <= OpBlocks
  /\ IsFiniteSet(Tokens) /\ Cardinality(Tokens) = outstanding * OpBlocks
  /\ Len(lh) + Cardinality(Remaining) <= LOGSIZE - 2
  /\ ~panicked

Inv == TypeOK /\ Control /\ Headers /\ Contents /\ Space

-----------------------------------------------------------------------------
\* Facts every step lemma uses.
LEMMA Basics ==
  ASSUME LogHasRoom, Inv
  PROVE  /\ Len(lh) \in Nat /\ Len(lh) <= LOGSIZE - 2 /\ Len(lh) <= nlog - 2
         /\ Len(head) \in Nat /\ Len(head) <= nlog - 1
         /\ \A i \in 1 .. Len(lh) : lh[i] \in Blocks /\ i \in 1 .. nlog - 1
         /\ \A i \in 1 .. Len(head) : head[i] \in Blocks /\ i \in 1 .. nlog - 1
         /\ IsFiniteSet(InOp)
         /\ \A p \in InOp : outstanding >= 1
<1>1. IsFiniteSet(InOp)
  <2>1. InOp \subseteq Procs
    BY Zenon DEF InOp
  <2> QED BY Zenon, <2>1, FS_Subset, LogAssumption
<1>2. IsFiniteSet(Remaining)
  <2>1. Remaining \subseteq Tokens
    BY Zenon DEF Remaining
  <2> QED BY Zenon, <2>1, FS_Subset DEF Inv, Space
<1>3. Cardinality(Remaining) \in Nat
  BY Zenon, <1>2, FS_CardinalityType
<1>4. Len(lh) \in Nat /\ Len(head) \in Nat
  BY DEF Inv, TypeOK
<1>5. Len(lh) <= LOGSIZE - 2 /\ Len(lh) <= nlog - 2 /\ Len(head) <= nlog - 1
  BY <1>3, <1>4, LogAssumption DEF Inv, Space, Headers, LogHasRoom
<1>6. \A i \in 1 .. Len(lh) : lh[i] \in Blocks /\ i \in 1 .. nlog - 1
  BY <1>4, <1>5, LogAssumption DEF Inv, TypeOK
<1>7. \A i \in 1 .. Len(head) : head[i] \in Blocks /\ i \in 1 .. nlog - 1
  BY <1>4, <1>5, LogAssumption DEF Inv, TypeOK
<1>8. \A p \in InOp : outstanding >= 1
  <2> SUFFICES ASSUME NEW p \in InOp PROVE outstanding >= 1
    BY Zenon
  <2>1. Cardinality(InOp) # 0
    BY Zenon, <1>1, FS_EmptySet
  <2>2. Cardinality(InOp) \in Nat
    BY Zenon, <1>1, FS_CardinalityType
  <2> QED BY <2>1, <2>2 DEF Inv, Control
<1> QED BY Zenon, <1>1, <1>4, <1>5, <1>6, <1>7, <1>8

\* What log_write() does to the list of logged blocks.
LEMMA AppendLogged ==
  ASSUME TypeOK, NEW b \in Blocks, lh' = IF b \in Logged THEN lh ELSE Append(lh, b)
  PROVE  /\ Logged' = Logged \cup {b}
         /\ Len(lh') = Len(lh) + (IF b \in Logged THEN 0 ELSE 1)
         /\ Len(lh) \in Nat
<1>0. lh \in Seq(Blocks) /\ Len(lh) \in Nat
  BY DEF TypeOK
<1>1. CASE b \in Logged
  BY <1>0, <1>1 DEF Logged
<1>2. CASE b \notin Logged
  <2>1. lh' = Append(lh, b)
    BY Zenon, <1>2
  <2>2. /\ Len(lh') = Len(lh) + 1 /\ lh'[Len(lh) + 1] = b
        /\ \A i \in 1 .. Len(lh) : lh'[i] = lh[i]
    BY ONLY <1>0, <2>1, b \in Blocks
  <2>3. Logged' = Logged \cup {b}
    BY <1>0, <2>2 DEF Logged
  <2> QED BY Zenon, <1>0, <1>2, <2>2, <2>3
<1> QED BY Zenon, <1>1, <1>2

LEMMA InitInv == LogHasRoom /\ Init => Inv
<1> SUFFICES ASSUME LogHasRoom, Init PROVE Inv
  BY Zenon
<1>1. TypeOK
  <2>1. committing \in BOOLEAN /\ booting \in BOOLEAN /\ panicked \in BOOLEAN
    BY Zenon DEF Init
  <2>2. /\ head \in Seq(Blocks) /\ lh \in Seq(Blocks)
        /\ logd \in [1 .. nlog - 1 -> Values]
    BY DEF Init
  <2> QED BY Zenon, <2>1, <2>2 DEF Init, TypeOK, Ops, Phases
<1>2. InOp = {} /\ Tokens = {} /\ Remaining = {}
  BY Zenon DEF Init, InOp, Tokens, Remaining
<1>3. Control
  BY Zenon, <1>2, FS_EmptySet DEF Init, Control
<1>4. Headers
  BY LogAssumption DEF Init, Headers, LogHasRoom
<1>5. Contents
  BY Zenon DEF Init, Contents
<1>6. Space
  <2>1. outstanding * OpBlocks = 0
    BY LogAssumption DEF Init
  <2>2. Len(lh) = 0 /\ LOGSIZE - 2 >= 0
    BY LogAssumption DEF Init, LogHasRoom
  <2> QED BY <1>2, <2>1, <2>2, FS_EmptySet DEF Init, Space
<1> QED BY Zenon, <1>1, <1>3, <1>4, <1>5, <1>6 DEF Inv

LEMMA TypeStep == LogHasRoom /\ Inv /\ [Next]_vars => TypeOK'
<1> SUFFICES ASSUME LogHasRoom, Inv, [Next]_vars PROVE TypeOK'
  BY Zenon
<1> USE DEF store, memory, commitvars, calls
<1>0. TypeOK
  BY Zenon DEF Inv
<1>1. ASSUME NEW p \in Procs, BeginOp(p) PROVE TypeOK'
  BY <1>0, <1>1 DEF BeginOp, TypeOK, Ops
<1>2. ASSUME NEW p \in Procs, LogAppend(p) PROVE TypeOK'
  <2>1. cur[p] \in Blocks
    BY Zenon, <1>0, <1>2 DEF LogAppend, Inv, Control, TypeOK
  <2> QED BY <1>0, <1>2, <2>1 DEF LogAppend, TypeOK, Ops
<1>3. ASSUME NEW p \in Procs, EndOp(p) PROVE TypeOK'
  <2>1. p \in InOp /\ outstanding - 1 \in Nat
    BY <1>0, <1>3, Basics DEF EndOp, InOp, TypeOK
  <2> QED BY Zenon, <1>0, <1>3, <2>1 DEF EndOp, TypeOK, Woken, Ops, Phases
<1>4. ASSUME NEW p \in Procs, CommitDone(p) PROVE TypeOK'
  BY Zenon, <1>0, <1>4 DEF CommitDone, TypeOK, Woken, Ops, Phases
<1>5. ASSUME NEW p \in Procs, NEW b \in Blocks, NEW v \in Values, LogWrite(p, b, v)
      PROVE  TypeOK'
  BY Zenon, <1>0, <1>5 DEF LogWrite, TypeOK, Ops
<1>6. CASE WriteLog
  <2>1. cache[lh[tail]] \in Values
    BY Zenon, <1>0, <1>6, Basics DEF WriteLog, Inv, Control, TypeOK
  <2>2. logd' \in [1 .. nlog - 1 -> Values]
    BY Zenon, <1>0, <1>6, <2>1 DEF WriteLog, TypeOK
  <2>3. phase' \in Phases /\ tail' \in Nat
    BY <1>0, <1>6 DEF WriteLog, TypeOK, Phases
  <2> QED BY Zenon, <1>0, <1>6, <2>2, <2>3 DEF WriteLog, TypeOK
<1>7. CASE WriteHead
  BY Zenon, <1>0, <1>7 DEF WriteHead, TypeOK, Phases
<1>8. CASE ReadHead
  BY Zenon, <1>0, <1>8 DEF ReadHead, TypeOK, Phases
<1>9. CASE InstallTrans
  <2>1. logd[tail] \in Values
    BY Zenon, <1>0, <1>9, Basics DEF InstallTrans, Inv, Control, TypeOK
  <2>2. disk' \in [Blocks -> Values] /\ cache' \in [Blocks -> Values]
    BY Zenon, <1>0, <1>9, <2>1 DEF InstallTrans, TypeOK
  <2>3. phase' \in Phases /\ tail' \in Nat /\ dirty' \subseteq Blocks
    BY <1>0, <1>9 DEF InstallTrans, TypeOK, Phases
  <2> QED BY Zenon, <1>0, <1>9, <2>2, <2>3 DEF InstallTrans, TypeOK
<1>10. CASE ClearHead
  <2>1. committing' \in BOOLEAN /\ booting' \in BOOLEAN /\ panicked' \in BOOLEAN
    BY <1>0, <1>10, Zenon DEF ClearHead, TypeOK
  <2>2. head' \in Seq(Blocks) /\ lh' \in Seq(Blocks) /\ phase' \in Phases
    BY <1>0, <1>10 DEF ClearHead, TypeOK, Phases
  <2> QED BY Zenon, <1>0, <1>10, <2>1, <2>2 DEF ClearHead, TypeOK
<1>11. ASSUME NEW b \in Blocks, Evict(b) PROVE TypeOK'
  BY Zenon, <1>0, <1>11 DEF Evict, TypeOK
<1>12. CASE Crash
  <2>1. committing' \in BOOLEAN /\ booting' \in BOOLEAN /\ panicked' \in BOOLEAN
    BY <1>12, Zenon DEF Crash
  <2>2. lh' \in Seq(Blocks)
    BY <1>12 DEF Crash
  <2> QED BY Zenon, <1>0, <1>12, <2>1, <2>2 DEF Crash, TypeOK, Ops, Phases
<1>13. CASE UNCHANGED vars
  BY Zenon, <1>0, <1>13 DEF vars, TypeOK
<1> QED
  BY Zenon, <1>1, <1>2, <1>3, <1>4, <1>5, <1>6, <1>7, <1>8, <1>9, <1>10, <1>11, <1>12,
     <1>13 DEF Next, CommitStep

\* Steps that leave the calls in progress alone.
LEMMA ControlFrame ==
  ASSUME Control, op' = op, cur' = cur, outstanding' = outstanding,
         committing' = committing, booting' = booting,
         ~committing /\ ~booting => lh' = lh,
         booting => phase' \in {"read_head", "install_trans", "clear_head"},
         ~booting => phase' # "read_head" /\ (phase' # "none" <=> phase # "none"),
         phase' \in {"write_log", "install_trans"} => tail' \in 1 .. Len(lh'),
         phase' = "write_head" => tail' = 1 /\ lh' # <<>>
  PROVE  Control'
<1>1. InOp' = InOp
  BY Zenon DEF InOp
<1> QED BY Zenon, <1>1 DEF Control

LEMMA ControlStep == LogHasRoom /\ Inv /\ [Next]_vars => Control'
<1> SUFFICES ASSUME LogHasRoom, Inv, [Next]_vars PROVE Control'
  BY Zenon
<1> USE DEF store, memory, commitvars, calls
<1>0. TypeOK /\ Control
  BY Zenon DEF Inv
<1>1. ASSUME NEW p \in Procs, BeginOp(p) PROVE Control'
  <2>0. /\ ~booting /\ op[p] \in {"out", "begin"} /\ lh' = lh /\ phase' = phase
        /\ tail' = tail /\ committing' = committing /\ booting' = booting /\ cur' = cur
    BY Zenon, <1>1 DEF BeginOp
  <2>1. CASE MustWait
    <3>1. op' = [op EXCEPT ![p] = "asleep"] /\ outstanding' = outstanding
      BY Zenon, <1>1, <2>1 DEF BeginOp
    <3>2. InOp' = InOp
      BY Zenon, <1>0, <2>0, <3>1 DEF InOp, TypeOK
    <3> QED BY Zenon, <1>0, <2>0, <3>1, <3>2 DEF Control, TypeOK
  <2>2. CASE ~MustWait
    <3>1. op' = [op EXCEPT ![p] = "in"] /\ outstanding' = outstanding + 1
      BY Zenon, <1>1, <2>2 DEF BeginOp
    <3>2. InOp' = InOp \cup {p} /\ p \notin InOp
      BY Zenon, <1>0, <2>0, <3>1 DEF InOp, TypeOK
    <3>3. Cardinality(InOp') = outstanding'
      BY Zenon, <1>0, <3>1, <3>2, Basics, FS_AddElement DEF Control
    <3>4. ~committing
      BY Zenon, <2>2 DEF MustWait
    <3> QED BY Zenon, <1>0, <2>0, <3>1, <3>2, <3>3, <3>4 DEF Control, TypeOK
  <2> QED BY Zenon, <2>1, <2>2
<1>2. ASSUME NEW p \in Procs, LogAppend(p) PROVE Control'
  <2>1. /\ op[p] = "log" /\ op' = [op EXCEPT ![p] = "in"]
        /\ cur' = [cur EXCEPT ![p] = NoBlock] /\ UNCHANGED <<outstanding, committing, phase, tail, booting>>
    BY Zenon, <1>2 DEF LogAppend
  <2>2. InOp' = InOp /\ p \in InOp
    BY Zenon, <1>0, <2>1 DEF InOp, TypeOK
  <2>3. ~committing /\ ~booting /\ phase = "none"
    BY Zenon, <1>0, <2>1, <2>2 DEF Control
  <2> QED BY Zenon, <1>0, <2>1, <2>2, <2>3 DEF Control, TypeOK
<1>3. ASSUME NEW p \in Procs, EndOp(p) PROVE Control'
  <2>0. op[p] = "in" /\ p \in InOp /\ outstanding' = outstanding - 1 /\ cur' = cur /\ lh' = lh
    BY Zenon, <1>3 DEF EndOp, InOp
  <2>1. ~committing /\ ~booting /\ phase = "none" /\ booting' = booting
    BY Zenon, <1>0, <1>3, <2>0 DEF Control, EndOp
  <2>2. Cardinality(InOp \ {p}) = outstanding - 1 /\ IsFiniteSet(InOp \ {p})
    BY Zenon, <1>0, <2>0, Basics, FS_RemoveElement DEF Control
  <2>3. CASE outstanding = 1
    <3>1. /\ committing' = TRUE /\ op' = [op EXCEPT ![p] = "commit"]
          /\ phase' = (IF lh = <<>> THEN "done" ELSE "write_log") /\ tail' = 1
      BY Zenon, <1>3, <2>1, <2>3 DEF EndOp
    <3>2. InOp' = InOp \ {p}
      BY Zenon, <1>0, <3>1 DEF InOp, TypeOK
    <3>3. InOp' = {}
      BY <2>2, <2>3, <3>2, FS_EmptySet
    <3>4. phase' = "write_log" => tail' \in 1 .. Len(lh')
      BY <1>0, <2>0, <3>1 DEF TypeOK
    <3> QED BY Zenon, <1>0, <2>0, <2>1, <2>2, <3>1, <3>2, <3>3, <3>4 DEF Control, TypeOK
  <2>4. CASE outstanding # 1
    <3>1. /\ op' = Woken([op EXCEPT ![p] = "out"]) /\ UNCHANGED <<committing, phase, tail>>
      BY Zenon, <1>3, <2>1, <2>4 DEF EndOp
    <3>2. \A q \in Procs : op'[q] = IF q = p THEN "out"
                                    ELSE IF op[q] = "asleep" THEN "begin" ELSE op[q]
      BY Zenon, <1>0, <3>1 DEF Woken, TypeOK
    <3>3. InOp' = InOp \ {p}
      BY Zenon, <3>2 DEF InOp
    <3>4. InOp' # {}
      BY <1>0, <2>2, <2>4, <3>3, FS_EmptySet DEF TypeOK
    <3> QED BY Zenon, <1>0, <2>0, <2>1, <2>2, <3>1, <3>2, <3>3, <3>4 DEF Control
  <2> QED BY Zenon, <2>3, <2>4
<1>4. ASSUME NEW p \in Procs, CommitDone(p) PROVE Control'
  <2>1. /\ op[p] = "commit" /\ phase = "done" /\ phase' = "none" /\ committing' = FALSE
        /\ op' = Woken([op EXCEPT ![p] = "out"])
        /\ UNCHANGED <<lh, outstanding, tail, booting, cur>>
    BY Zenon, <1>4 DEF CommitDone
  <2>2. \A q \in Procs : op'[q] = IF q = p THEN "out"
                                  ELSE IF op[q] = "asleep" THEN "begin" ELSE op[q]
    BY Zenon, <1>0, <2>1 DEF Woken, TypeOK
  <2>3. InOp' = InOp /\ lh = <<>>
    BY Zenon, <2>1, <2>2 DEF InOp, Inv, Headers
  <2> QED BY Zenon, <1>0, <2>1, <2>2, <2>3 DEF Control
<1>5. ASSUME NEW p \in Procs, NEW b \in Blocks, NEW v \in Values, LogWrite(p, b, v)
      PROVE  Control'
  <2>1. op[p] = "in" /\ (\A q \in Procs : cur[q] # b)
    BY Zenon, <1>5 DEF LogWrite
  <2>2. UNCHANGED <<lh, outstanding, committing, phase, tail, booting>>
    BY Zenon, <1>5 DEF LogWrite
  <2>3. CASE UNCHANGED <<op, cur>>
    BY Zenon, <1>0, <2>2, <2>3, ControlFrame DEF Control
  <2>4. CASE op' = [op EXCEPT ![p] = "log"] /\ cur' = [cur EXCEPT ![p] = b]
    <3>1. InOp' = InOp /\ p \in InOp
      BY Zenon, <1>0, <2>1, <2>4 DEF InOp, TypeOK
    <3> QED BY Zenon, <1>0, <2>1, <2>2, <2>4, <3>1, LogAssumption DEF Control, TypeOK
  <2> QED BY Zenon, <1>5, <2>3, <2>4 DEF LogWrite
<1>6. CASE WriteLog
  BY <1>0, <1>6, ControlFrame DEF WriteLog, Control, TypeOK
<1>7. CASE WriteHead
  <2>1. tail \in 1 .. Len(lh)
    BY <1>0, <1>7 DEF WriteHead, Control, TypeOK
  <2> QED BY Zenon, <1>0, <1>7, <2>1, ControlFrame DEF WriteHead, Control, TypeOK
<1>8. CASE ReadHead
  <2>1. head # <<>> => 1 \in 1 .. Len(head)
    BY <1>0 DEF TypeOK
  <2> QED BY Zenon, <1>0, <1>8, <2>1, ControlFrame DEF ReadHead, Control, TypeOK
<1>9. CASE InstallTrans
  BY <1>0, <1>9, ControlFrame DEF InstallTrans, Control, TypeOK
<1>10. CASE ClearHead
  <2>1. InOp' = InOp
    BY Zenon, <1>10 DEF ClearHead, InOp
  <2> QED BY Zenon, <1>0, <1>10, <2>1 DEF ClearHead, Control, TypeOK
<1>11. ASSUME NEW b \in Blocks, Evict(b) PROVE Control'
  BY Zenon, <1>0, <1>11, ControlFrame DEF Evict, Control
<1>12. CASE Crash
  <2>1. InOp' = {}
    BY Zenon, <1>12 DEF Crash, InOp
  <2> QED BY Zenon, <1>12, <2>1, FS_EmptySet DEF Crash, Control
<1>13. CASE UNCHANGED vars
  BY Zenon, <1>0, <1>13, ControlFrame DEF vars, Control
<1> QED
  BY Zenon, <1>1, <1>2, <1>3, <1>4, <1>5, <1>6, <1>7, <1>8, <1>9, <1>10, <1>11, <1>12,
     <1>13 DEF Next, CommitStep

LEMMA HeadersStep == LogHasRoom /\ Inv /\ [Next]_vars => Headers'
<1> SUFFICES ASSUME LogHasRoom, Inv, [Next]_vars PROVE Headers'
  OBVIOUS
<1> USE DEF store, memory, commitvars, calls
<1>0. TypeOK /\ Control /\ Headers
  BY Zenon DEF Inv
<1>1. ASSUME NEW p \in Procs, LogAppend(p) PROVE Headers'
  <2>1. op[p] = "log" /\ UNCHANGED <<head, phase>>
    BY Zenon, <1>1 DEF LogAppend
  <2>2. phase = "none"
    BY Zenon, <1>0, <2>1 DEF Control, InOp
  <2>3. CASE cur[p] \in Logged
    BY <1>0, <1>1, <2>1, <2>2, <2>3 DEF LogAppend, Headers
  <2>4. CASE cur[p] \notin Logged
    <3>1. lh' = Append(lh, cur[p]) /\ cur[p] \in Blocks
      BY Zenon, <1>0, <1>1, <2>1, <2>4 DEF LogAppend, Control, TypeOK
    <3>2. \A i \in 1 .. Len(lh) : lh[i] # cur[p]
      BY Zenon, <2>4 DEF Logged
    <3>3. /\ Len(lh') = Len(lh) + 1 /\ lh'[Len(lh) + 1] = cur[p]
          /\ \A i \in 1 .. Len(lh) : lh'[i] = lh[i]
      BY <1>0, <3>1 DEF TypeOK
    <3>4. \A i, j \in 1 .. Len(lh') : lh'[i] = lh'[j] => i = j
      BY <1>0, <3>2, <3>3, Basics DEF Headers
    <3> QED BY <1>0, <2>1, <2>2, <3>4 DEF Headers
  <2> QED BY Zenon, <2>3, <2>4
<1>2. ASSUME NEW p \in Procs, EndOp(p) PROVE Headers'
  <2>1. op[p] = "in" /\ UNCHANGED <<head, lh>>
    BY Zenon, <1>2 DEF EndOp
  <2>2. phase = "none"
    BY Zenon, <1>0, <2>1 DEF Control, InOp
  <2>3. phase' \in {"none", "done", "write_log"} /\ (phase' = "done" => lh = <<>>)
    BY Zenon, <1>2, <2>2 DEF EndOp
  <2> QED BY <1>0, <2>1, <2>2, <2>3 DEF Headers
<1>3. ASSUME NEW p \in Procs, CommitDone(p) PROVE Headers'
  BY <1>0, <1>3 DEF CommitDone, Headers
<1>4. CASE WriteLog
  BY <1>0, <1>4 DEF WriteLog, Headers
<1>5. CASE WriteHead
  BY <1>0, <1>5, Basics DEF WriteHead, Headers
<1>6. CASE ReadHead
  BY <1>0, <1>6 DEF ReadHead, Headers
<1>7. CASE InstallTrans
  BY <1>0, <1>7 DEF InstallTrans, Headers
<1>8. CASE ClearHead
  <2>1. Len(<<>>) = 0 /\ 0 <= LOGSIZE - 2
    BY LogAssumption DEF LogHasRoom
  <2> QED BY <1>8, <2>1 DEF ClearHead, Headers
<1>9. CASE Crash
  BY <1>0, <1>9 DEF Crash, Headers
<1>10. CASE UNCHANGED <<lh, head, phase>>
  BY <1>0, <1>10 DEF Headers
<1> QED
  BY Zenon, <1>1, <1>2, <1>3, <1>4, <1>5, <1>6, <1>7, <1>8, <1>9, <1>10
     DEF Next, CommitStep, BeginOp, LogWrite, Evict, vars

\* Recycling a buffer that bget() may recycle loses nothing.
LEMMA EvictHarmless ==
  ASSUME LogHasRoom, Inv, NEW b \in Blocks, ~booting, b \notin dirty,
         \A p \in Procs : cur[p] # b
  PROVE  cache[b] = disk[b]
<1>0. TypeOK /\ Control /\ Headers /\ Contents
  BY Zenon DEF Inv
<1>1. CASE b \notin Logged
  BY Zenon, <1>0, <1>1 DEF Contents
<1>2. CASE b \in Logged
  <2>1. PICK i \in 1 .. Len(lh) : lh[i] = b
    BY Zenon, <1>2 DEF Logged
  <2>2. phase \in {"install_trans", "clear_head"}
    BY <1>0, <1>2 DEF Contents, Headers, Logged, TypeOK, Phases, Control
  <2>3. CASE phase = "clear_head"
    BY Zenon, <1>0, <2>1, <2>3 DEF Contents
  <2>4. CASE phase = "install_trans"
    BY <1>0, <2>1, <2>4, Basics DEF Contents, Control
  <2> QED BY Zenon, <2>2, <2>3, <2>4
<1> QED BY Zenon, <1>1, <1>2

\* Contents of blocks.
LEMMA ContentsStep == LogHasRoom /\ Inv /\ [Next]_vars => Contents'
<1> SUFFICES ASSUME LogHasRoom, Inv, [Next]_vars PROVE Contents'
  OBVIOUS
<1> USE DEF store, memory, commitvars, calls
<1>0. TypeOK /\ Control /\ Headers /\ Contents
  BY Zenon DEF Inv
<1>1. ASSUME NEW p \in Procs, LogAppend(p) PROVE Contents'
  <2>1. op[p] = "log" /\ UNCHANGED <<disk, logd, cache, phase, tail, booting>>
    BY Zenon, <1>1 DEF LogAppend
  <2>2. phase = "none" /\ ~booting /\ cur[p] \in Blocks
    BY Zenon, <1>0, <2>1 DEF Control, InOp, TypeOK
  <2>3. Logged' = Logged \cup {cur[p]}
    <3>1. CASE cur[p] \in Logged
      BY Zenon, <1>1, <3>1 DEF LogAppend, Logged
    <3>2. CASE cur[p] \notin Logged
      <4>1. lh' = Append(lh, cur[p])
        BY Zenon, <1>1, <3>2 DEF LogAppend
      <4>2. /\ Len(lh') = Len(lh) + 1 /\ lh'[Len(lh) + 1] = cur[p] /\ Len(lh) \in Nat
            /\ \A i \in 1 .. Len(lh) : lh'[i] = lh[i]
        BY <1>0, <2>2, <4>1 DEF TypeOK
      <4> QED BY <4>2 DEF Logged
    <3> QED BY Zenon, <3>1, <3>2
  <2>4. dirty' = dirty \cup {cur[p]} /\ cur' = [cur EXCEPT ![p] = NoBlock]
    BY Zenon, <1>1 DEF LogAppend
  <2> QED BY Zenon, <1>0, <2>1, <2>2, <2>3, <2>4 DEF Contents, TypeOK
<1>2. ASSUME NEW p \in Procs, EndOp(p) PROVE Contents'
  <2>1. op[p] = "in" /\ UNCHANGED <<disk, logd, head, lh, cache, dirty, cur>>
    BY Zenon, <1>2 DEF EndOp
  <2>2. phase = "none" /\ ~booting
    BY Zenon, <1>0, <2>1 DEF Control, InOp
  <2>3. /\ phase' \in {"none", "done", "write_log"} /\ (phase' = "write_log" => tail' = 1)
        /\ booting' = booting
    BY Zenon, <1>2, <2>2 DEF EndOp
  <2>4. Logged' = Logged
    BY Zenon, <2>1 DEF Logged
  <2> QED BY <1>0, <2>1, <2>2, <2>3, <2>4 DEF Contents
<1>3. ASSUME NEW p \in Procs, CommitDone(p) PROVE Contents'
  <2>1. phase = "done" /\ phase' = "none" /\ UNCHANGED <<disk, lh, cache, dirty, cur, booting>>
    BY Zenon, <1>3 DEF CommitDone
  <2>2. Logged = {} /\ Logged' = {}
    BY <1>0, <2>1 DEF Headers, Logged
  <2>3. ~booting
    BY Zenon, <1>0, <2>1 DEF Control
  <2> QED BY Zenon, <1>0, <2>1, <2>2, <2>3 DEF Contents
<1>4. ASSUME NEW p \in Procs, NEW b \in Blocks, NEW v \in Values, LogWrite(p, b, v)
      PROVE  Contents'
  <2>1. /\ op[p] = "in" /\ cache' = [cache EXCEPT ![b] = v]
        /\ UNCHANGED <<disk, logd, lh, dirty, phase, tail, booting>>
    BY Zenon, <1>4 DEF LogWrite
  <2>2. phase = "none" /\ ~booting
    BY Zenon, <1>0, <2>1 DEF Control, InOp
  <2>3. Logged' = Logged
    BY Zenon, <2>1 DEF Logged
  <2>4. ~(Len(lh) >= LOGSIZE \/ Len(lh) >= nlog - 1 \/ outstanding < 1)
    <3>1. p \in InOp
      BY Zenon, <2>1 DEF InOp
    <3> QED BY <1>0, <3>1, Basics, LogAssumption DEF TypeOK
  <2>5. cur' = [cur EXCEPT ![p] = b] /\ cur[p] = NoBlock
    BY Zenon, <1>0, <1>4, <2>1, <2>4 DEF LogWrite, Control
  <2>6. ASSUME NEW a \in Blocks, a \notin Logged, \A q \in Procs : cur'[q] # a
        PROVE  cache'[a] = disk'[a]
    <3>1. a # b
      BY Zenon, <1>0, <2>5, <2>6 DEF TypeOK
    <3>2. \A q \in Procs : cur[q] # a
      BY Zenon, <1>0, <2>5, <2>6, LogAssumption DEF TypeOK
    <3> QED BY Zenon, <1>0, <2>1, <2>2, <2>6, <3>1, <3>2 DEF Contents, TypeOK
  <2> QED BY Zenon, <1>0, <2>1, <2>2, <2>3, <2>6 DEF Contents
<1>5. CASE WriteLog
  <2>1. /\ phase = "write_log" /\ logd' = [logd EXCEPT ![tail] = cache[lh[tail]]]
        /\ UNCHANGED <<disk, lh, cache, dirty, booting, cur>>
        /\ IF tail = Len(lh) THEN phase' = "write_head" /\ tail' = 1
                             ELSE phase' = phase /\ tail' = tail + 1
    BY Zenon, <1>5 DEF WriteLog
  <2>2. tail \in 1 .. Len(lh) /\ tail \in 1 .. nlog - 1 /\ Len(lh) \in Nat
    BY Zenon, <1>0, <2>1, Basics DEF Control
  <2>3. \A i \in 1 .. tail : logd'[i] = cache'[lh'[i]]
    BY SMTT(40), <1>0, <2>1, <2>2, Basics DEF Contents, TypeOK
  <2>4. Logged' = Logged /\ ~booting
    BY Zenon, <1>0, <2>1 DEF Logged, Control
  <2>5. /\ ~booting' /\ Logged' \subseteq dirty'
        /\ \A b \in Blocks : b \notin Logged' /\ (\A p \in Procs : cur'[p] # b) => cache'[b] = disk'[b]
    BY Zenon, <1>0, <2>1, <2>4 DEF Contents
  <2>6. CASE tail = Len(lh)
    <3>1. phase' = "write_head" /\ \A i \in 1 .. Len(lh') : logd'[i] = cache'[lh'[i]]
      BY Zenon, <2>1, <2>3, <2>6
    <3> QED BY Zenon, <2>5, <3>1 DEF Contents
  <2>7. CASE tail # Len(lh)
    <3>1. phase' = "write_log" /\ tail' - 1 = tail
      BY <2>1, <2>2, <2>7
    <3> QED BY Zenon, <2>3, <2>5, <3>1 DEF Contents
  <2> QED BY Zenon, <2>6, <2>7
<1>6. CASE WriteHead
  <2>1. /\ phase = "write_head" /\ phase' = "install_trans" /\ tail' = tail
        /\ UNCHANGED <<disk, logd, lh, cache, dirty, booting, cur>>
    BY Zenon, <1>6 DEF WriteHead
  <2>2. tail = 1 /\ ~booting /\ Logged' = Logged
    BY Zenon, <1>0, <2>1 DEF Control, Logged
  <2>3. \A i \in 1 .. Len(lh) : lh[i] \in dirty
    BY Zenon, <1>0, <2>1 DEF Contents, Logged
  <2>4. ~booting' /\ tail' = 1
    BY Zenon, <2>1, <2>2
  <2>5. \A b \in Blocks :
          b \notin Logged' /\ (\A p \in Procs : cur'[p] # b) => cache'[b] = disk'[b]
    BY Zenon, <1>0, <2>1, <2>2 DEF Contents
  <2>6. \A i \in 1 .. Len(lh') : logd'[i] = cache'[lh'[i]]
    BY Zenon, <1>0, <2>1 DEF Contents
  <2>7. \A i \in 1 .. Len(lh') : lh'[i] \in dirty'
    BY Zenon, <2>1, <2>3
  <2>8. 1 .. tail' - 1 = {}
    BY <2>4
  <2> QED BY Zenon, <2>1, <2>4, <2>5, <2>6, <2>7, <2>8 DEF Contents
<1>7. CASE ReadHead
  <2>1. /\ phase' \in {"clear_head", "install_trans"} /\ tail' = 1 /\ lh' = head
        /\ UNCHANGED <<disk, logd, cache, dirty, booting, cur>>
        /\ phase' = "clear_head" => head = <<>>
    BY Zenon, <1>7 DEF ReadHead
  <2>2. booting
    BY Zenon, <1>0, <1>7 DEF ReadHead, Control
  <2>3. booting' /\ cache' = disk'
    BY Zenon, <1>0, <2>1, <2>2 DEF Contents
  <2>4. 1 .. tail' - 1 = {}
    BY <2>1
  <2>5. phase' = "clear_head" => 1 .. Len(lh') = {}
    BY <2>1
  <2> QED BY Zenon, <2>1, <2>3, <2>4, <2>5 DEF Contents
<1>8. CASE InstallTrans
  <2>1. /\ phase = "install_trans" /\ UNCHANGED <<logd, lh, booting, cur>>
        /\ disk' = [disk EXCEPT ![lh[tail]] = logd[tail]]
        /\ cache' = [cache EXCEPT ![lh[tail]] = logd[tail]]
        /\ dirty' = dirty \ {lh[tail]}
        /\ IF tail = Len(lh) THEN phase' = "clear_head" /\ tail' = 1
                             ELSE phase' = phase /\ tail' = tail + 1
    BY Zenon, <1>8 DEF InstallTrans
  <2>2. tail \in 1 .. Len(lh) /\ Len(lh) \in Nat /\ lh[tail] \in Blocks
    BY Zenon, <1>0, <2>1, Basics DEF Control
  <2>3. \A i \in 1 .. tail : disk'[lh'[i]] = logd'[i] /\ cache'[lh'[i]] = logd'[i]
    BY <1>0, <2>1, <2>2, Basics DEF Contents, TypeOK, Headers
  <2>4. booting => cache' = disk'
    BY Zenon, <1>0, <2>1 DEF Contents
  <2>5. ~booting => \A i \in 1 .. Len(lh) : logd'[i] = cache'[lh'[i]]
    BY <1>0, <2>1, <2>2, Basics DEF Contents, TypeOK, Headers
  <2>6. ~booting => \A i \in tail + 1 .. Len(lh) : lh'[i] \in dirty'
    BY <1>0, <2>1, <2>2, Basics DEF Contents, Headers
  <2>7. Logged' = Logged /\ lh[tail] \in Logged
    BY Zenon, <2>1, <2>2 DEF Logged
  <2>8. ~booting => \A b \in Blocks :
          b \notin Logged' /\ (\A p \in Procs : cur'[p] # b) => cache'[b] = disk'[b]
    BY Zenon, <1>0, <2>1, <2>2, <2>7 DEF Contents, TypeOK
  <2>9. CASE tail = Len(lh)
    <3>1. phase' = "clear_head"
      BY Zenon, <2>1, <2>9
    <3> QED BY Zenon, <2>1, <2>3, <2>4, <2>8, <2>9, <3>1 DEF Contents
  <2>10. CASE tail # Len(lh)
    <3>1. phase' = "install_trans" /\ tail' = tail + 1 /\ tail' - 1 = tail
      BY <2>1, <2>2, <2>10
    <3> QED BY Zenon, <2>1, <2>3, <2>4, <2>5, <2>6, <2>8, <3>1 DEF Contents
  <2> QED BY <2>9, <2>10
<1>9. CASE ClearHead
  <2>1. /\ phase = "clear_head" /\ phase' \in {"none", "done"} /\ ~booting' /\ lh' = <<>>
        /\ UNCHANGED <<disk, logd, cache, dirty, cur>>
    BY Zenon, <1>9 DEF ClearHead
  <2>2. Logged' = {}
    BY <2>1 DEF Logged
  <2>3. InOp = {}
    BY Zenon, <1>0, <2>1 DEF Control, InOp
  <2>4. \A p \in Procs : cur[p] = NoBlock
    BY Zenon, <1>0, <2>3 DEF Control, InOp
  <2>5. \A b \in Blocks : cache[b] = disk[b]
    BY <1>0, <2>1, <2>4, LogAssumption DEF Contents, Logged
  <2> QED BY Zenon, <2>1, <2>2, <2>5 DEF Contents
<1>10. ASSUME NEW b \in Blocks, Evict(b) PROVE Contents'
  <2>1. /\ ~booting /\ b \notin dirty /\ (\A p \in Procs : cur[p] # b)
        /\ cache' = [cache EXCEPT ![b] = disk[b]]
        /\ UNCHANGED <<disk, logd, lh, dirty, phase, tail, booting, cur>>
    BY Zenon, <1>10 DEF Evict
  <2>2. cache[b] = disk[b]
    BY Zenon, <2>1, EvictHarmless
  <2>3. cache' = cache
    BY Zenon, <1>0, <2>1, <2>2 DEF TypeOK
  <2>4. Logged' = Logged
    BY Zenon, <2>1 DEF Logged
  <2> QED BY <1>0, <2>1, <2>3, <2>4 DEF Contents
<1>11. CASE Crash
  BY Zenon, <1>11 DEF Crash, Contents
<1>12. CASE UNCHANGED <<disk, logd, lh, cache, dirty, phase, tail, booting, cur>>
  BY <1>0, <1>12 DEF Contents, Logged
<1> QED
  BY Zenon, <1>1, <1>2, <1>3, <1>4, <1>5, <1>6, <1>7, <1>8, <1>9, <1>10, <1>11, <1>12
     DEF Next, CommitStep, BeginOp, vars

-----------------------------------------------------------------------------
(* The reservation of begin_op() *)

\* One call is promised OpBlocks entries of the log.
LEMMA TokensOfOne ==
  ASSUME NEW p
  PROVE  IsFiniteSet({p} \X (1 .. OpBlocks)) /\ Cardinality({p} \X (1 .. OpBlocks)) = OpBlocks
<1> DEFINE T == {p} \X (1 .. OpBlocks)
           f == [i \in 1 .. OpBlocks |-> <<p, i>>]
<1>1. IsFiniteSet(1 .. OpBlocks) /\ Cardinality(1 .. OpBlocks) = OpBlocks
  BY FS_Interval, LogAssumption
<1>2. f \in Bijection(1 .. OpBlocks, T)
  BY DEF Bijection, Injection, Surjection, IsInjective
<1>3. ExistsBijection(1 .. OpBlocks, T)
  BY <1>2, Zenon DEF ExistsBijection
<1> QED BY Zenon, <1>1, <1>3, FS_Bijection

LEMMA AddTokens ==
  ASSUME NEW p, NEW S, IsFiniteSet(S), S \cap ({p} \X (1 .. OpBlocks)) = {}
  PROVE  /\ IsFiniteSet(S \cup ({p} \X (1 .. OpBlocks)))
         /\ Cardinality(S \cup ({p} \X (1 .. OpBlocks))) = Cardinality(S) + OpBlocks
<1> DEFINE T == {p} \X (1 .. OpBlocks)
<1>1. IsFiniteSet(T) /\ Cardinality(T) = OpBlocks
  BY Zenon, TokensOfOne
<1>2. S \cap T = {}
  BY Zenon
<1> HIDE DEF T
<1>3. IsFiniteSet(S \cup T)
  BY Zenon, <1>1, FS_Union
<1>4. Cardinality(S \cup T) = Cardinality(S) + Cardinality(T) - Cardinality(S \cap T)
  BY Zenon, <1>1, FS_Union
<1>5. Cardinality(S \cap T) = 0 /\ Cardinality(S) \in Nat
  BY Zenon, <1>2, FS_EmptySet, FS_CardinalityType
<1>6. Cardinality(S \cup T) = Cardinality(S) + OpBlocks
  BY <1>1, <1>4, <1>5, LogAssumption
<1> QED BY Zenon, <1>3, <1>6 DEF T

LEMMA SpaceFrame ==
  ASSUME Inv, InOp' = InOp, outstanding' = outstanding, Len(lh') = Len(lh),
         ~panicked',
         \A p \in Procs : IsFiniteSet(wrote'[p]),
         \A p \in InOp : wrote'[p] = wrote[p] /\ wrote'[p] \subseteq Logged',
         \A p \in Procs : op'[p] = "log" => Cardinality(wrote'[p] \cup {cur'[p]}) <= OpBlocks
  PROVE  Space'
<1>1. Tokens' = Tokens
  BY Zenon DEF Tokens
<1>2. Remaining' = Remaining
  BY Zenon, <1>1 DEF Remaining, Tokens
<1>3. \A p \in Procs : op'[p] \in {"in", "log"} => p \in InOp
  BY Zenon DEF InOp
<1> QED BY Zenon, <1>1, <1>2, <1>3 DEF Space, Inv

LEMMA SpaceStep == LogHasRoom /\ Inv /\ [Next]_vars => Space'
<1> SUFFICES ASSUME LogHasRoom, Inv, [Next]_vars PROVE Space'
  OBVIOUS
<1> USE DEF store, memory, commitvars, calls
<1>0. TypeOK /\ Control /\ Headers /\ Space
  BY Zenon DEF Inv
<1>r. /\ Remaining \subseteq Tokens /\ IsFiniteSet(Remaining)
      /\ Cardinality(Remaining) \in Nat /\ Cardinality(Tokens) \in Nat
  <2>1. Remaining \subseteq Tokens
    BY Zenon DEF Remaining
  <2> QED BY Zenon, <1>0, <2>1, FS_Subset, FS_CardinalityType DEF Space
<1>e. ASSUME InOp' = {}, outstanding' = 0, Len(lh') <= LOGSIZE - 2, ~panicked',
             \A p \in Procs : IsFiniteSet(wrote'[p]), Len(lh') \in Nat
      PROVE  Space'
  <2>1. Tokens' = {} /\ Remaining' = {}
    BY Zenon, <1>e DEF Tokens, Remaining
  <2>2. \A p \in Procs : op'[p] \notin {"in", "log"}
    BY Zenon, <1>e DEF InOp
  <2>3. outstanding' * OpBlocks = 0
    BY <1>e, LogAssumption
  <2>4. Cardinality(Tokens') = 0 /\ Cardinality(Remaining') = 0 /\ IsFiniteSet(Tokens')
    BY Zenon, <2>1, FS_EmptySet
  <2>5. /\ \A p \in Procs : op'[p] = "in" => wrote'[p] \subseteq Logged'
        /\ \A p \in Procs : op'[p] = "log" =>
             /\ wrote'[p] \subseteq Logged'
             /\ Cardinality(wrote'[p] \cup {cur'[p]}) <= OpBlocks
    BY Zenon, <2>2
  <2>6. Cardinality(Tokens') = outstanding' * OpBlocks
    BY Zenon, <2>3, <2>4
  <2>7. Len(lh') + Cardinality(Remaining') <= LOGSIZE - 2
    BY <1>e, <2>4, LogAssumption
  <2> QED BY Zenon, <1>e, <2>4, <2>5, <2>6, <2>7 DEF Space
<1>1. ASSUME NEW p \in Procs, BeginOp(p) PROVE Space'
  <2>0. /\ ~booting /\ op[p] \in {"out", "begin"} /\ lh' = lh /\ cur' = cur
        /\ wrote' = [wrote EXCEPT ![p] = {}] /\ panicked' = panicked /\ p \notin InOp
    BY Zenon, <1>1 DEF BeginOp, InOp
  <2>1. \A q \in Procs : /\ IsFiniteSet(wrote'[q])
                         /\ q # p => wrote'[q] = wrote[q]
    BY Zenon, <1>0, <2>0, FS_EmptySet DEF Space, TypeOK
  <2>2. wrote'[p] = {} /\ Logged' = Logged
    BY Zenon, <1>0, <2>0 DEF TypeOK, Logged
  <2>3. CASE MustWait
    <3>1. op' = [op EXCEPT ![p] = "asleep"] /\ outstanding' = outstanding
      BY <1>1, <2>3 DEF BeginOp
    <3>2. InOp' = InOp
      BY Zenon, <1>0, <2>0, <3>1 DEF InOp, TypeOK
    <3>3. \A q \in InOp : wrote'[q] = wrote[q] /\ wrote'[q] \subseteq Logged'
      BY Zenon, <1>0, <2>0, <2>1, <2>2 DEF Space, InOp
    <3>4. \A q \in Procs : op'[q] = "log" => q # p /\ op[q] = "log" /\ cur'[q] = cur[q]
      BY Zenon, <1>0, <2>0, <3>1 DEF TypeOK
    <3>5. \A q \in Procs : op'[q] = "log" => Cardinality(wrote'[q] \cup {cur'[q]}) <= OpBlocks
      BY Zenon, <1>0, <2>1, <3>4 DEF Space
    <3>6. ~panicked'
      BY Zenon, <1>0, <2>0 DEF Space
    <3> QED BY Zenon, <2>0, <2>1, <3>1, <3>2, <3>3, <3>5, <3>6, SpaceFrame
  <2>4. CASE ~MustWait
    <3>1. op' = [op EXCEPT ![p] = "in"] /\ outstanding' = outstanding + 1
      BY <1>1, <2>4 DEF BeginOp
    <3>2. InOp' = InOp \cup {p}
      BY Zenon, <1>0, <2>0, <3>1 DEF InOp, TypeOK
    <3>3. Tokens' = Tokens \cup ({p} \X (1 .. OpBlocks)) /\ Tokens \cap ({p} \X (1 .. OpBlocks)) = {}
      BY Zenon, <2>0, <3>2 DEF Tokens
    <3>4. IsFiniteSet(Tokens') /\ Cardinality(Tokens') = Cardinality(Tokens) + OpBlocks
      <4>1. IsFiniteSet(Tokens)
        BY Zenon, <1>0 DEF Space
      <4> QED BY Zenon, <3>3, <4>1, AddTokens
    <3>5. Cardinality(Tokens') = (outstanding + 1) * OpBlocks
      BY <1>0, <3>4, LogAssumption DEF Space, TypeOK
    <3>6. Remaining' \subseteq Tokens'
      BY Zenon DEF Remaining
    <3>7. Cardinality(Remaining') <= Cardinality(Tokens') /\ Cardinality(Remaining') \in Nat
      BY Zenon, <3>4, <3>6, FS_Subset, FS_CardinalityType
    <3>8. Len(lh) + (outstanding + 1) * OpBlocks <= LOGSIZE - 2
      <4>1. ~committing /\ Len(lh) + (outstanding + 1) * MAXOPBLOCKS <= LOGSIZE
        BY <1>0, <2>4, LogAssumption DEF MustWait, TypeOK
      <4>2. CASE outstanding = 0
        <5>1. InOp = {}
          BY Zenon, <1>0, <4>2, Basics, FS_EmptySet DEF Control
        <5>2. lh = <<>>
          BY Zenon, <1>0, <2>0, <4>1, <5>1 DEF Control
        <5> QED BY <4>2, <5>2, LogAssumption DEF LogHasRoom
      <4>3. CASE outstanding >= 1
        <5>1. \A o, m, k \in Nat : o >= 1 /\ k < m => (o + 1) * k + 2 <= (o + 1) * m
          <6> SUFFICES ASSUME NEW o \in Nat, NEW m \in Nat, NEW k \in Nat, o >= 1, k < m
                       PROVE  (o + 1) * k + 2 <= (o + 1) * m
            BY Zenon
          <6>1. (o + 1) * m - (o + 1) * k = (o + 1) * (m - k)
            OBVIOUS
          <6>2. (o + 1) * (m - k) >= o + 1
            OBVIOUS
          <6> QED BY <6>1, <6>2
        <5>2. (outstanding + 1) * OpBlocks + 2 <= (outstanding + 1) * MAXOPBLOCKS
          BY Zenon, <1>0, <4>3, <5>1, LogAssumption DEF TypeOK, LogHasRoom
        <5>3. /\ (outstanding + 1) * OpBlocks \in Nat
              /\ (outstanding + 1) * MAXOPBLOCKS \in Nat
          BY <1>0, LogAssumption DEF TypeOK
        <5> QED BY <4>1, <5>2, <5>3, Basics, LogAssumption
      <4> QED BY <1>0, <4>2, <4>3 DEF TypeOK
    <3>9. Len(lh') + Cardinality(Remaining') <= LOGSIZE - 2
      <4>1. (outstanding + 1) * OpBlocks \in Nat
        BY <1>0, LogAssumption DEF TypeOK
      <4> QED BY <2>0, <3>5, <3>7, <3>8, <4>1, Basics, LogAssumption
    <3>10. \A q \in Procs : /\ op'[q] = "in" => wrote'[q] \subseteq Logged'
                            /\ op'[q] = "log" => /\ wrote'[q] \subseteq Logged'
                                 /\ Cardinality(wrote'[q] \cup {cur'[q]}) <= OpBlocks
      BY Zenon, <1>0, <2>0, <2>1, <2>2, <3>1 DEF Space, TypeOK
    <3>11. ~panicked'
      BY <1>0, <2>0 DEF Space
    <3> QED BY Zenon, <2>1, <3>1, <3>4, <3>5, <3>9, <3>10, <3>11 DEF Space
  <2> QED BY <2>3, <2>4
<1>2. ASSUME NEW p \in Procs, LogAppend(p) PROVE Space'
  <2>0. /\ op[p] = "log" /\ op' = [op EXCEPT ![p] = "in"]
        /\ cur' = [cur EXCEPT ![p] = NoBlock]
        /\ wrote' = [wrote EXCEPT ![p] = @ \cup {cur[p]}]
        /\ lh' = (IF cur[p] \in Logged THEN lh ELSE Append(lh, cur[p]))
        /\ panicked' = panicked /\ outstanding' = outstanding
    BY Zenon, <1>2 DEF LogAppend
  <2>1. InOp' = InOp /\ p \in InOp /\ Tokens' = Tokens
    BY Zenon, <1>0, <2>0 DEF InOp, Tokens, TypeOK
  <2>2. /\ wrote'[p] = wrote[p] \cup {cur[p]} /\ cur[p] \in Blocks
        /\ \A q \in Procs : q # p => wrote'[q] = wrote[q] /\ op'[q] = op[q] /\ cur'[q] = cur[q]
    BY Zenon, <1>0, <2>0 DEF TypeOK, Control
  <2>3. /\ IsFiniteSet(wrote[p]) /\ IsFiniteSet(wrote'[p])
        /\ Cardinality(wrote[p]) \in Nat /\ Cardinality(wrote'[p]) \in Nat
        /\ Cardinality(wrote'[p]) =
             IF cur[p] \in wrote[p] THEN Cardinality(wrote[p]) ELSE Cardinality(wrote[p]) + 1
        /\ Cardinality(wrote'[p]) <= OpBlocks
    <3>1. IsFiniteSet(wrote[p]) /\ Cardinality(wrote[p] \cup {cur[p]}) <= OpBlocks
      BY Zenon, <1>0, <2>0 DEF Space
    <3>2. /\ IsFiniteSet(wrote[p] \cup {cur[p]})
          /\ Cardinality(wrote[p] \cup {cur[p]}) =
               IF cur[p] \in wrote[p] THEN Cardinality(wrote[p]) ELSE Cardinality(wrote[p]) + 1
      BY Zenon, <3>1, FS_AddElement
    <3>3. Cardinality(wrote[p]) \in Nat /\ Cardinality(wrote[p] \cup {cur[p]}) \in Nat
      BY Zenon, <3>1, <3>2, FS_CardinalityType
    <3>4. wrote'[p] = wrote[p] \cup {cur[p]}
      BY Zenon, <2>2
    <3> QED BY Zenon, <3>1, <3>2, <3>3, <3>4
  <2>4. Logged' = Logged \cup {cur[p]} /\ Len(lh') = Len(lh) + (IF cur[p] \in Logged THEN 0 ELSE 1)
    BY Zenon, <1>0, <2>0, <2>2, AppendLogged
  <2>5. Remaining' \subseteq Remaining
    <3> SUFFICES ASSUME NEW t \in Tokens, t[2] > Cardinality(wrote'[t[1]])
                 PROVE  t[2] > Cardinality(wrote[t[1]])
      BY Zenon, <2>1 DEF Remaining
    <3>1. t[1] \in Procs /\ t[2] \in Int
      BY DEF Tokens, InOp
    <3>2. CASE t[1] = p
      BY <2>3, <3>1, <3>2
    <3>3. CASE t[1] # p
      BY Zenon, <2>2, <3>1, <3>3
    <3> QED BY Zenon, <3>2, <3>3
  <2>6. Len(lh') + Cardinality(Remaining') <= LOGSIZE - 2
    <3>1. CASE cur[p] \in Logged
      <4>1. Cardinality(Remaining') <= Cardinality(Remaining) /\ Cardinality(Remaining') \in Nat
        BY Zenon, <1>r, <2>5, FS_Subset, FS_CardinalityType
      <4>2. Len(lh) + Cardinality(Remaining) <= LOGSIZE - 2
        BY Zenon, <1>0 DEF Space
      <4>3. Len(lh) \in Nat /\ Cardinality(Remaining) \in Nat /\ LOGSIZE \in Nat
        BY Zenon, <1>0, <1>r, Basics, LogAssumption, FS_CardinalityType
      <4>4. Len(lh') = Len(lh) + 0
        BY Zenon, <2>4, <3>1
      <4> HIDE DEF Remaining
      <4> QED BY <4>1, <4>2, <4>3, <4>4
    <3>2. CASE cur[p] \notin Logged
      <4> DEFINE t == <<p, Cardinality(wrote'[p])>>
      <4>1. cur[p] \notin wrote[p]
        BY Zenon, <1>0, <2>0, <3>2 DEF Space
      <4>2. Cardinality(wrote'[p]) = Cardinality(wrote[p]) + 1
        BY Zenon, <2>3, <4>1
      <4>3. t \in Tokens
        <5>1. Cardinality(wrote'[p]) \in 1 .. OpBlocks
          BY <2>3, <4>2, LogAssumption
        <5> QED BY Zenon, <2>1, <5>1 DEF Tokens
      <4>4. t \in Remaining
        BY <2>3, <4>2, <4>3 DEF Remaining
      <4>5. t \notin Remaining'
        BY <2>3 DEF Remaining
      <4>6. Remaining' \subseteq Remaining \ {t}
        BY Zenon, <2>5, <4>5
      <4>7. /\ IsFiniteSet(Remaining \ {t})
            /\ Cardinality(Remaining \ {t}) = Cardinality(Remaining) - 1
        BY Zenon, <1>r, <4>4, FS_RemoveElement
      <4>8. Cardinality(Remaining') <= Cardinality(Remaining) - 1 /\ Cardinality(Remaining') \in Nat
        BY <4>6, <4>7, FS_Subset, FS_CardinalityType
      <4> QED BY <1>0, <1>r, <2>4, <3>2, <4>8, Basics, LogAssumption DEF Space
    <3> QED BY Zenon, <3>1, <3>2
  <2>7. \A q \in Procs : IsFiniteSet(wrote'[q])
    BY Zenon, <1>0, <2>2, <2>3 DEF Space
  <2>8. op'[p] = "in" /\ wrote'[p] \subseteq Logged'
    BY Zenon, <1>0, <2>0, <2>2, <2>4 DEF Space, TypeOK
  <2>9. \A q \in Procs : /\ op'[q] = "in" => wrote'[q] \subseteq Logged'
                         /\ op'[q] = "log" => /\ wrote'[q] \subseteq Logged'
                              /\ Cardinality(wrote'[q] \cup {cur'[q]}) <= OpBlocks
    BY Zenon, <1>0, <2>2, <2>4, <2>8 DEF Space
  <2>10. ~panicked'
    BY Zenon, <1>0, <2>0 DEF Space
  <2> QED BY Zenon, <1>0, <2>0, <2>1, <2>6, <2>7, <2>9, <2>10 DEF Space
<1>3. ASSUME NEW p \in Procs, EndOp(p) PROVE Space'
  <2>0. /\ op[p] = "in" /\ p \in InOp /\ outstanding' = outstanding - 1
        /\ UNCHANGED <<lh, cur, wrote>>
    BY Zenon, <1>3 DEF EndOp, InOp
  <2>1. ~committing /\ panicked' = panicked
    BY Zenon, <1>0, <1>3, <2>0 DEF Control, EndOp
  <2>2. \A q \in Procs :
          /\ op'[q] \in {"in", "log"} <=> op[q] \in {"in", "log"} /\ q # p
          /\ op'[q] \in {"in", "log"} => op'[q] = op[q]
    <3>1. \/ op' = [op EXCEPT ![p] = "commit"]
          \/ op' = Woken([op EXCEPT ![p] = "out"])
      BY Zenon, <1>3, <2>1 DEF EndOp
    <3>2. CASE op' = [op EXCEPT ![p] = "commit"]
      BY Zenon, <1>0, <3>2 DEF TypeOK
    <3>3. CASE op' = Woken([op EXCEPT ![p] = "out"])
      BY Zenon, <1>0, <3>3 DEF TypeOK, Woken
    <3> QED BY Zenon, <3>1, <3>2, <3>3
  <2>3. InOp' = InOp \ {p}
    BY Zenon, <2>0, <2>2 DEF InOp
  <2>4. Tokens = Tokens' \cup ({p} \X (1 .. OpBlocks)) /\ Tokens' \cap ({p} \X (1 .. OpBlocks)) = {}
    BY Zenon, <2>0, <2>3 DEF Tokens
  <2>5. IsFiniteSet(Tokens') /\ Cardinality(Tokens') \in Nat
    BY Zenon, <1>0, <2>4, FS_Subset, FS_CardinalityType DEF Space
  <2>6. Cardinality(Tokens) = Cardinality(Tokens') + OpBlocks
    BY Zenon, <2>4, <2>5, AddTokens
  <2>7. Cardinality(Tokens') = outstanding' * OpBlocks
    <3>1. outstanding * OpBlocks = (outstanding - 1) * OpBlocks + OpBlocks
      BY <1>0, LogAssumption DEF TypeOK
    <3>2. (outstanding - 1) * OpBlocks \in Int
      BY <1>0, LogAssumption DEF TypeOK
    <3> QED BY <1>0, <2>0, <2>5, <2>6, <3>1, <3>2, LogAssumption DEF Space
  <2>8. Remaining' \subseteq Remaining
    BY Zenon, <2>0, <2>4 DEF Remaining
  <2>9. Cardinality(Remaining') <= Cardinality(Remaining) /\ Cardinality(Remaining') \in Nat
    BY <1>r, <2>8, FS_Subset, FS_CardinalityType
  <2>10. Len(lh') + Cardinality(Remaining') <= LOGSIZE - 2
    <3>1. /\ Len(lh) + Cardinality(Remaining) <= LOGSIZE - 2 /\ Len(lh') = Len(lh)
          /\ Len(lh) \in Nat
      BY Zenon, <1>0, <2>0, Basics DEF Space
    <3> QED BY <1>r, <2>9, <3>1, LogAssumption
  <2>11. Logged' = Logged
    BY Zenon, <2>0 DEF Logged
  <2> QED BY Zenon, <1>0, <2>0, <2>1, <2>2, <2>5, <2>7, <2>10, <2>11 DEF Space
<1>4. ASSUME NEW p \in Procs, NEW b \in Blocks, NEW v \in Values, LogWrite(p, b, v)
      PROVE  Space'
  <2>1. /\ op[p] = "in" /\ Cardinality(wrote[p] \cup {b}) <= OpBlocks /\ p \in InOp
        /\ UNCHANGED <<lh, wrote, outstanding>>
    BY Zenon, <1>4 DEF LogWrite, InOp
  <2>2. ~(Len(lh) >= LOGSIZE \/ Len(lh) >= nlog - 1 \/ outstanding < 1)
    <3>1. Len(lh) \in Nat /\ Len(lh) <= LOGSIZE - 2 /\ Len(lh) <= nlog - 2 /\ outstanding >= 1
      BY Zenon, <1>0, <2>1, Basics
    <3>2. LOGSIZE \in Nat /\ nlog \in Nat /\ outstanding \in Int
      BY <1>0, LogAssumption DEF TypeOK
    <3> QED BY <3>1, <3>2
  <2>3. /\ cur' = [cur EXCEPT ![p] = b] /\ op' = [op EXCEPT ![p] = "log"]
        /\ panicked' = panicked
    BY Zenon, <1>4, <2>2 DEF LogWrite
  <2>4. InOp' = InOp /\ Logged' = Logged
    BY Zenon, <1>0, <2>1, <2>3 DEF InOp, TypeOK, Logged
  <2>5. \A q \in Procs : op'[q] = "log" => Cardinality(wrote'[q] \cup {cur'[q]}) <= OpBlocks
    BY Zenon, <1>0, <2>1, <2>3 DEF Space, TypeOK
  <2>6. ~panicked'
    BY Zenon, <1>0, <2>3 DEF Space
  <2>7. \A q \in InOp : wrote'[q] \subseteq Logged'
    BY Zenon, <1>0, <2>1, <2>4 DEF Space, InOp
  <2>8. \A q \in Procs : IsFiniteSet(wrote'[q])
    BY Zenon, <1>0, <2>1 DEF Space
  <2> QED BY Zenon, <2>1, <2>4, <2>5, <2>6, <2>7, <2>8, SpaceFrame
<1>5. ASSUME NEW p \in Procs, CommitDone(p) PROVE Space'
  <2>1. /\ UNCHANGED <<lh, wrote, outstanding, cur, panicked>> /\ op[p] = "commit"
        /\ op' = Woken([op EXCEPT ![p] = "out"])
    BY Zenon, <1>5 DEF CommitDone
  <2>2. \A q \in Procs : op'[q] \in {"in", "log"} \/ op[q] \in {"in", "log"} => op'[q] = op[q]
    BY Zenon, <1>0, <2>1 DEF Woken, TypeOK
  <2>3. InOp' = InOp /\ Logged' = Logged
    BY Zenon, <2>1, <2>2 DEF InOp, Logged
  <2>4. \A q \in InOp : wrote[q] \subseteq Logged
    BY Zenon, <1>0 DEF Space, InOp
  <2>5. ~panicked' /\ \A q \in Procs : IsFiniteSet(wrote'[q])
    BY Zenon, <1>0, <2>1 DEF Space
  <2> QED BY Zenon, <1>0, <2>1, <2>2, <2>3, <2>4, <2>5, SpaceFrame DEF Space
<1>6. CASE ReadHead \/ ClearHead
  <2>1. InOp = {} /\ op' = op /\ outstanding' = outstanding /\ wrote' = wrote /\ panicked' = panicked
    BY Zenon, <1>0, <1>6 DEF ReadHead, ClearHead, Control, InOp
  <2>2. InOp' = {} /\ outstanding' = 0
    BY Zenon, <1>0, <2>1, FS_EmptySet DEF Control, InOp
  <2>3. Len(lh') <= LOGSIZE - 2 /\ Len(lh') \in Nat
    BY <1>0, <1>6, Basics, LogAssumption DEF ReadHead, ClearHead, Headers, LogHasRoom
  <2>4. ~panicked' /\ \A q \in Procs : IsFiniteSet(wrote'[q])
    BY Zenon, <1>0, <2>1 DEF Space
  <2> QED BY Zenon, <1>e, <2>2, <2>3, <2>4
<1>7. CASE Crash
  <2>1. InOp' = {} /\ outstanding' = 0 /\ Len(lh') = 0 /\ ~panicked'
    BY Zenon, <1>7 DEF Crash, InOp
  <2>2. \A q \in Procs : IsFiniteSet(wrote'[q])
    BY Zenon, <1>7, FS_EmptySet DEF Crash
  <2>3. 0 <= LOGSIZE - 2
    BY LogAssumption DEF LogHasRoom
  <2> QED BY <1>e, <2>1, <2>2, <2>3
<1>8. CASE UNCHANGED <<lh, wrote, outstanding, op, cur, panicked>>
  <2>1. InOp' = InOp /\ Logged' = Logged
    BY Zenon, <1>8 DEF InOp, Logged
  <2>2. \A q \in InOp : wrote[q] \subseteq Logged
    BY Zenon, <1>0 DEF Space, InOp
  <2>3. ~panicked' /\ \A q \in Procs : IsFiniteSet(wrote'[q])
    BY Zenon, <1>0, <1>8 DEF Space
  <2> QED BY Zenon, <1>0, <1>8, <2>1, <2>2, <2>3, SpaceFrame DEF Space
<1> QED
  BY Zenon, <1>1, <1>2, <1>3, <1>4, <1>5, <1>6, <1>7, <1>8
     DEF Next, CommitStep, WriteLog, WriteHead, InstallTrans, Evict, vars

-----------------------------------------------------------------------------
LEMMA InvInvariant ==
  ASSUME LogHasRoom
  PROVE  Spec => []Inv
<1>1. Init => Inv
  BY Zenon, InitInv
<1>2. Inv /\ [Next]_vars => Inv'
  BY Zenon, TypeStep, ControlStep, HeadersStep, ContentsStep, SpaceStep DEF Inv
<1> QED BY <1>1, <1>2, PTL DEF Spec

\* log_write() never panics and the log never outgrows its blocks on the disk, if
\* every call logs fewer than MAXOPBLOCKS blocks.
THEOREM LogNeverFull ==
  ASSUME LogHasRoom
  PROVE  Spec => []NoPanic
<1>1. Inv => NoPanic
  <2> SUFFICES ASSUME Inv PROVE ~panicked /\ Len(lh) <= nlog - 1
    BY Zenon DEF NoPanic
  <2>1. ~panicked
    BY Zenon DEF Inv, Space
  <2>2. Len(lh) <= nlog - 1
    BY Basics, LogAssumption
  <2> QED BY Zenon, <2>1, <2>2
<1> QED BY <1>1, InvInvariant, PTL

\* bget() cannot recycle a buffer whose contents the disk does not have yet.
THEOREM NoUpdateLost ==
  ASSUME LogHasRoom
  PROVE  Spec => []DirtyIsPinned
<1>1. Inv => DirtyIsPinned
  <2> SUFFICES ASSUME Inv, ~booting, NEW b \in Blocks, cache[b] # disk[b],
                      \A p \in Procs : cur[p] # b
               PROVE  b \in dirty
    BY Zenon DEF DirtyIsPinned
  <2>1. b \in Logged
    BY Zenon DEF Inv, Contents
  <2>2. PICK i \in 1 .. Len(lh) : lh[i] = b
    BY Zenon, <2>1 DEF Logged
  <2>3. phase \in {"none", "write_log", "write_head"} => b \in dirty
    BY Zenon, <2>1 DEF Inv, Contents
  <2>4. phase # "clear_head" /\ phase # "done" /\ phase # "read_head"
    <3>1. phase # "clear_head"
      BY Zenon, <2>2 DEF Inv, Contents
    <3>2. phase # "done"
      BY <2>2 DEF Inv, Headers
    <3> QED BY Zenon, <3>1, <3>2 DEF Inv, Control
  <2>5. ASSUME phase = "install_trans" PROVE b \in dirty
    <3>1. tail \in 1 .. Len(lh) /\ Len(lh) \in Nat
      BY Zenon, <2>5, Basics DEF Inv, Control
    <3>2. /\ \A j \in 1 .. tail - 1 : disk[lh[j]] = logd[j] /\ cache[lh[j]] = logd[j]
          /\ \A j \in tail .. Len(lh) : lh[j] \in dirty
      BY Zenon, <2>5 DEF Inv, Contents
    <3>3. i \notin 1 .. tail - 1
      BY Zenon, <2>2, <3>2
    <3>4. i \in tail .. Len(lh)
      BY <3>1, <3>3
    <3> QED BY Zenon, <2>2, <3>2, <3>4
  <2> QED BY Zenon, <2>3, <2>4, <2>5 DEF Inv, TypeOK, Phases
<1> QED BY <1>1, InvInvariant, PTL

-----------------------------------------------------------------------------
-----------------------------------------------------------------------------
(* The refinement of AtomicLog. *)

View == IF booting THEN Recovered ELSE cache

\* Without a header on the disk, recovery changes nothing.
LEMMA InstalledEmpty ==
  ASSUME NEW d \in [Blocks -> Values], NEW l
  PROVE  Installed(d, l, <<>>) = d
<1>1. \A i \in 1 .. Len(<<>>) : FALSE
  OBVIOUS
<1>2. Installed(d, l, <<>>) = [b \in Blocks |-> d[b]]
  BY <1>1, Zenon DEF Installed
<1> QED BY Zenon, <1>2

\* What recovery leaves in a block that the header does not name.
LEMMA InstalledElse ==
  ASSUME NEW d, NEW l, NEW h, NEW b \in Blocks, \A i \in 1 .. Len(h) : h[i] # b
  PROVE  Installed(d, l, h)[b] = d[b]
BY Zenon DEF Installed

\* A disk that agrees with d outside the header and with the log at its blocks.
Installs(d, l, h, e) ==
  /\ e \in [Blocks -> Values]
  /\ \A k \in 1 .. Len(h) : h[k] \in Blocks
  /\ \A k, j \in 1 .. Len(h) : h[k] = h[j] => k = j
  /\ \A i \in 1 .. Len(h) : e[h[i]] = l[i]
  /\ \A b \in Blocks : (\A i \in 1 .. Len(h) : h[i] # b) => e[b] = d[b]

LEMMA InstalledIs ==
  ASSUME NEW d, NEW l, NEW h, NEW e, Installs(d, l, h, e)
  PROVE  Installed(d, l, h) = e
<1>1. ASSUME NEW b \in Blocks PROVE Installed(d, l, h)[b] = e[b]
  <2>1. CASE \E i \in 1 .. Len(h) : h[i] = b
    <3>1. PICK i \in 1 .. Len(h) : h[i] = b
      BY Zenon, <2>1
    <3>2. e[b] = l[i] /\ \A k, j \in 1 .. Len(h) : h[k] = h[j] => k = j
      BY Zenon, <3>1 DEF Installs
    <3>3. (CHOOSE k \in 1 .. Len(h) : h[k] = b) = i
      BY ONLY <3>1, <3>2, i \in 1 .. Len(h)
    <3>4. Installed(d, l, h)[b] = l[CHOOSE k \in 1 .. Len(h) : h[k] = b]
      BY Zenon, <2>1 DEF Installed
    <3> QED BY Zenon, <3>2, <3>3, <3>4
  <2>2. CASE \A i \in 1 .. Len(h) : h[i] # b
    <3>1. Installed(d, l, h)[b] = d[b]
      BY SMTT(40), <2>2, InstalledElse
    <3> QED BY Zenon, <2>2, <3>1 DEF Installs
  <2> QED BY Zenon, <2>1, <2>2
<1>2. Installed(d, l, h) = [b \in Blocks |-> Installed(d, l, h)[b]]
  BY Zenon DEF Installed
<1>3. e = [b \in Blocks |-> e[b]]
  BY Zenon DEF Installs
<1> QED BY Zenon, <1>1, <1>2, <1>3

LEMMA RefinementInit == LogHasRoom /\ Init => Atomic!Init
<1> SUFFICES ASSUME LogHasRoom, Init PROVE Atomic!Init
  BY Zenon
<1>1. Recovered = disk
  BY Zenon, InstalledEmpty DEF Init, Recovered
<1>2. InOp = {}
  BY Zenon DEF Init, InOp
<1> QED BY Zenon, <1>1, <1>2 DEF Init, Atomic!Init

LEMMA RefinementStep ==
  LogHasRoom /\ Inv /\ Inv' /\ [Next]_vars => [Atomic!Next]_(Atomic!vars)
<1> SUFFICES ASSUME LogHasRoom, Inv, Inv', [Next]_vars
             PROVE  Atomic!Next \/ UNCHANGED <<Recovered, View, InOp>>
  BY Zenon DEF Atomic!vars, View
<1> USE DEF store, memory, commitvars, calls
<1>0. TypeOK /\ Control /\ Headers /\ Contents /\ TypeOK' /\ Headers'
  BY Zenon DEF Inv
<1>1. ASSUME UNCHANGED <<disk, logd, head>> PROVE Recovered' = Recovered
  BY Zenon, <1>1 DEF Recovered
<1>2. ASSUME NEW p \in Procs, BeginOp(p)
      PROVE  Atomic!Begin(p) \/ UNCHANGED <<Recovered, View, InOp>>
  <2>1. Recovered' = Recovered /\ View' = View
    BY Zenon, <1>1, <1>2 DEF BeginOp, View
  <2>2. p \notin InOp /\ (InOp' = InOp \/ InOp' = InOp \cup {p})
    BY <1>0, <1>2 DEF BeginOp, InOp, TypeOK
  <2> QED BY Zenon, <2>1, <2>2 DEF Atomic!Begin, View
<1>3. ASSUME NEW p \in Procs, LogAppend(p) PROVE UNCHANGED <<Recovered, View, InOp>>
  BY Zenon, <1>0, <1>1, <1>3 DEF LogAppend, View, InOp, TypeOK
<1>4. ASSUME NEW p \in Procs, EndOp(p) PROVE Atomic!End(p) \/ UNCHANGED <<Recovered, View, InOp>>
  <2>0. op[p] = "in" /\ p \in InOp /\ ~booting /\ ~committing
    BY Zenon, <1>0, <1>4 DEF EndOp, InOp, Control
  <2>1. Recovered' = Recovered /\ View' = View
    BY Zenon, <1>1, <1>4, <2>0 DEF EndOp, View
  <2>2. \/ op' = [op EXCEPT ![p] = "commit"]
        \/ op' = Woken([op EXCEPT ![p] = "out"])
    BY Zenon, <1>4, <2>0 DEF EndOp
  <2>3. InOp' = InOp \ {p}
    <3>1. CASE op' = [op EXCEPT ![p] = "commit"]
      BY Zenon, <1>0, <3>1 DEF TypeOK, InOp
    <3>2. CASE op' = Woken([op EXCEPT ![p] = "out"])
      BY Zenon, <1>0, <3>2 DEF TypeOK, Woken, InOp
    <3> QED BY Zenon, <2>2, <3>1, <3>2
  <2> QED BY Zenon, <2>0, <2>1, <2>3 DEF Atomic!End, View
<1>5. ASSUME NEW p \in Procs, CommitDone(p) PROVE UNCHANGED <<Recovered, View, InOp>>
  BY Zenon, <1>0, <1>1, <1>5 DEF CommitDone, View, InOp, Woken, TypeOK
<1>6. ASSUME NEW p \in Procs, NEW b \in Blocks, NEW v \in Values, LogWrite(p, b, v)
      PROVE  Atomic!Write(p, b, v)
  <2>1. p \in InOp /\ ~booting /\ booting' = booting /\ cache' = [cache EXCEPT ![b] = v]
    BY Zenon, <1>0, <1>6 DEF LogWrite, InOp, Control
  <2>2. Recovered' = Recovered
    BY Zenon, <1>1, <1>6 DEF LogWrite
  <2>3. InOp' = InOp
    BY Zenon, <1>0, <1>6 DEF LogWrite, InOp, TypeOK
  <2> QED BY Zenon, <2>1, <2>2, <2>3 DEF Atomic!Write
<1>7. CASE WriteLog
  <2>1. head = <<>> /\ head' = <<>> /\ UNCHANGED <<disk, cache, op, booting>>
    BY Zenon, <1>0, <1>7 DEF WriteLog, Headers
  <2>2. Recovered' = Recovered
    BY Zenon, <1>0, <2>1, InstalledEmpty DEF Recovered, TypeOK
  <2> QED BY Zenon, <2>1, <2>2 DEF View, InOp
<1>8. CASE WriteHead
  <2>1. /\ phase = "write_head" /\ head' = lh
        /\ UNCHANGED <<disk, logd, cache, op, cur, booting>>
    BY Zenon, <1>8 DEF WriteHead
  <2>2. ~booting /\ InOp = {} /\ InOp' = {} /\ \A p \in Procs : cur[p] = NoBlock
    BY Zenon, <1>0, <2>1 DEF Control, InOp
  <2>3. \A b \in Blocks : (\A i \in 1 .. Len(lh) : lh[i] # b) => cache[b] = disk[b]
    BY SMTT(40), <1>0, <2>2, LogAssumption DEF Contents, Logged
  <2>4. \A i \in 1 .. Len(lh) : lh[i] \in Blocks /\ cache[lh[i]] = logd[i]
    BY Zenon, <1>0, <2>1, Basics DEF Contents
  <2>5. Installed(disk, logd, lh) = cache
    <3>1. cache \in [Blocks -> Values]
      BY Zenon, <1>0 DEF TypeOK
    <3>2. \A k, j \in 1 .. Len(lh) : lh[k] = lh[j] => k = j
      BY Zenon, <1>0 DEF Headers
    <3>3. Installs(disk, logd, lh, cache)
      BY Zenon, <2>3, <2>4, <3>1, <3>2 DEF Installs
    <3> QED BY ONLY <3>3, InstalledIs
  <2>6. Recovered' = cache
    BY Zenon, <2>1, <2>5 DEF Recovered
  <2> QED BY Zenon, <2>1, <2>2, <2>6 DEF Atomic!Next, Atomic!Commit
<1>9. CASE ReadHead
  BY Zenon, <1>0, <1>1, <1>9 DEF ReadHead, View, InOp, Control
<1>10. CASE InstallTrans
  <2>1. /\ phase = "install_trans" /\ head = lh /\ UNCHANGED <<logd, lh, head, op, booting>>
        /\ disk' = [disk EXCEPT ![lh[tail]] = logd[tail]]
        /\ cache' = [cache EXCEPT ![lh[tail]] = logd[tail]]
        /\ tail \in 1 .. Len(lh)
    BY Zenon, <1>0, <1>10 DEF InstallTrans, Headers, Control
  <2>2. \A b \in Blocks : (\A i \in 1 .. Len(head) : head[i] # b) => disk'[b] = disk[b]
    BY Zenon, <1>0, <2>1 DEF TypeOK
  <2>3. Recovered' = Recovered
    BY Zenon, <1>0, <2>1, <2>2 DEF Recovered, Installed
  <2>4. ~booting => cache' = cache
    <3> SUFFICES ASSUME ~booting PROVE cache' = cache
      BY Zenon
    <3>1. cache[lh[tail]] = logd[tail]
      BY Zenon, <1>0, <2>1 DEF Contents
    <3>2. cache \in [Blocks -> Values]
      BY Zenon, <1>0 DEF TypeOK
    <3> QED BY Zenon, <2>1, <3>1, <3>2
  <2> QED BY Zenon, <2>1, <2>3, <2>4 DEF View, InOp
<1>11. CASE ClearHead
  <2>1. /\ phase = "clear_head" /\ head = lh /\ head' = <<>> /\ ~booting'
        /\ UNCHANGED <<disk, logd, cache, op>>
    BY Zenon, <1>0, <1>11 DEF ClearHead, Headers
  <2>2. Recovered = disk
    <3>1. disk \in [Blocks -> Values]
      BY Zenon, <1>0 DEF TypeOK
    <3>2. \A k, j \in 1 .. Len(lh) : lh[k] = lh[j] => k = j
      BY <1>0 DEF Headers
    <3>3. \A i \in 1 .. Len(lh) : lh[i] \in Blocks /\ disk[lh[i]] = logd[i]
      BY Zenon, <1>0, <2>1, Basics DEF Contents
    <3>4. Installs(disk, logd, lh, disk)
      BY Zenon, <3>1, <3>2, <3>3 DEF Installs
    <3>5. Installed(disk, logd, lh) = disk
      BY ONLY <3>4, InstalledIs
    <3> QED BY Zenon, <2>1, <3>5 DEF Recovered
  <2>3. Recovered' = disk
    BY Zenon, <1>0, <2>1, InstalledEmpty DEF Recovered, TypeOK
  <2>4. View' = View
    BY Zenon, <1>0, <2>1, <2>2, <2>3 DEF View, Contents
  <2> QED BY Zenon, <2>1, <2>2, <2>3, <2>4 DEF InOp
<1>12. ASSUME NEW b \in Blocks, Evict(b) PROVE UNCHANGED <<Recovered, View, InOp>>
  <2>1. Recovered' = Recovered
    BY Zenon, <1>1, <1>12 DEF Evict
  <2>2. cache' = cache
    BY Zenon, <1>0, <1>12, EvictHarmless DEF Evict, TypeOK
  <2> QED BY Zenon, <1>12, <2>1, <2>2 DEF Evict, View, InOp
<1>13. CASE Crash
  <2>1. Recovered' = Recovered /\ booting' /\ InOp' = {}
    BY Zenon, <1>1, <1>13 DEF Crash, InOp
  <2> QED BY Zenon, <2>1 DEF Atomic!Next, Atomic!Crash
<1>14. CASE UNCHANGED vars
  BY Zenon, <1>1, <1>14 DEF vars, View, InOp
<1> QED
  BY Zenon, <1>2, <1>3, <1>4, <1>5, <1>6, <1>7, <1>8, <1>9, <1>10, <1>11, <1>12, <1>13,
     <1>14 DEF Next, CommitStep, Atomic!Next

\* The log of log.c implements AtomicLog for every instance with enough room: a
\* crash, also one during recovery, shows all or nothing of a set of complete
\* file-system calls.
THEOREM CrashSafety ==
  ASSUME LogHasRoom
  PROVE  Spec => CrashAtomic
<1>1. Init => Atomic!Init
  BY Zenon, RefinementInit
<1>2. Inv /\ Inv' /\ [Next]_vars => [Atomic!Next]_(Atomic!vars)
  BY Zenon, RefinementStep
<1> QED BY <1>1, <1>2, InvInvariant, PTL DEF Spec, CrashAtomic, Atomic!Spec

-----------------------------------------------------------------------------
(* No missed wakeup. *)

LEMMA SleepStep ==
  LogHasRoom /\ Inv /\ Inv' /\ SleepIsWarranted /\ [Next]_vars => SleepIsWarranted'
<1> SUFFICES ASSUME LogHasRoom, Inv, Inv', SleepIsWarranted, [Next]_vars
             PROVE  SleepIsWarranted'
  BY Zenon
<1> USE DEF store, memory, commitvars, calls
<1>0. TypeOK /\ Control /\ TypeOK' /\ Control'
  BY Zenon DEF Inv
<1>1. /\ Len(lh) \in Nat /\ outstanding \in Nat /\ MAXOPBLOCKS \in Nat /\ LOGSIZE \in Nat
      /\ Len(lh') \in Nat /\ outstanding' \in Nat
  BY <1>0, LogAssumption DEF TypeOK
<1>2. ASSUME NEW p \in Procs, BeginOp(p) PROVE SleepIsWarranted'
  <2>1. lh' = lh /\ committing' = committing
    BY Zenon, <1>2 DEF BeginOp
  <2>2. CASE MustWait
    <3>1. outstanding' = outstanding
      BY Zenon, <1>2, <2>2 DEF BeginOp
    <3>2. MustWait'
      BY Zenon, <2>1, <2>2, <3>1 DEF MustWait
    <3> QED BY Zenon, <3>2 DEF SleepIsWarranted
  <2>3. CASE ~MustWait
    <3>1. op' = [op EXCEPT ![p] = "in"]
      BY Zenon, <1>2, <2>3 DEF BeginOp
    <3> QED BY Zenon, <1>0, <2>3, <3>1 DEF SleepIsWarranted, TypeOK
  <2> QED BY Zenon, <2>2, <2>3
<1>3. ASSUME NEW p \in Procs, LogAppend(p) PROVE SleepIsWarranted'
  <2>1. Len(lh') >= Len(lh) /\ UNCHANGED <<committing, outstanding>>
    <3>1. cur[p] \in Blocks
      BY Zenon, <1>0, <1>3 DEF LogAppend, Inv, TypeOK, Control
    <3>2. lh' = IF cur[p] \in Logged THEN lh ELSE Append(lh, cur[p])
      BY Zenon, <1>3 DEF LogAppend
    <3>3. Len(lh') = Len(lh) + (IF cur[p] \in Logged THEN 0 ELSE 1) /\ Len(lh) \in Nat
      BY Zenon, <1>0, <3>1, <3>2, AppendLogged DEF Inv
    <3> QED BY <1>3, <3>3 DEF LogAppend
  <2>2. \A q \in Procs : op'[q] = "asleep" => op[q] = "asleep"
    BY Zenon, <1>0, <1>3 DEF LogAppend, TypeOK
  <2>3. MustWait => MustWait'
    <3> SUFFICES ASSUME MustWait PROVE MustWait'
      BY Zenon
    <3> DEFINE need == (outstanding + 1) * MAXOPBLOCKS
    <3>1. need \in Int
      BY <1>1
    <3>2. committing \/ Len(lh) + need > LOGSIZE
      BY Zenon DEF MustWait
    <3>3. committing \/ Len(lh') + need > LOGSIZE
      <4> HIDE DEF need
      <4> QED BY <1>1, <2>1, <3>1, <3>2
    <3> QED BY Zenon, <2>1, <3>3 DEF MustWait
  <2> QED BY Zenon, <2>2, <2>3 DEF SleepIsWarranted
<1>4. ASSUME NEW p \in Procs, EndOp(p) PROVE SleepIsWarranted'
  <2>1. ~committing
    BY Zenon, <1>0, <1>4 DEF EndOp, Control, InOp
  <2>2. CASE outstanding = 1
    BY Zenon, <1>4, <2>1, <2>2 DEF EndOp, SleepIsWarranted, MustWait
  <2>3. CASE outstanding # 1
    BY Zenon, <1>0, <1>4, <2>1, <2>3 DEF EndOp, Woken, SleepIsWarranted, TypeOK
  <2> QED BY Zenon, <2>2, <2>3
<1>5. ASSUME NEW p \in Procs, CommitDone(p) PROVE SleepIsWarranted'
  BY Zenon, <1>0, <1>5 DEF CommitDone, Woken, SleepIsWarranted, TypeOK
<1>6. ASSUME NEW p \in Procs, NEW b \in Blocks, NEW v \in Values, LogWrite(p, b, v)
      PROVE  SleepIsWarranted'
  <2>1. UNCHANGED <<lh, committing, outstanding>>
    BY Zenon, <1>6 DEF LogWrite
  <2>2. \A q \in Procs : op'[q] = "asleep" => op[q] = "asleep"
    BY <1>0, <1>6 DEF LogWrite, TypeOK
  <2> QED BY Zenon, <2>1, <2>2 DEF SleepIsWarranted, MustWait
<1>7. CASE CommitStep
  <2>1. /\ UNCHANGED <<op, committing>> /\ phase # "none"
    BY Zenon, <1>7 DEF CommitStep, WriteLog, WriteHead, ReadHead, InstallTrans, ClearHead
  <2>2. CASE committing
    BY Zenon, <2>1, <2>2 DEF SleepIsWarranted, MustWait
  <2>3. CASE ~committing
    BY Zenon, <1>0, <2>1, <2>3 DEF SleepIsWarranted, Control
  <2> QED BY Zenon, <2>2, <2>3
<1>8. ASSUME NEW b \in Blocks, Evict(b) PROVE SleepIsWarranted'
  BY Zenon, <1>8 DEF Evict, SleepIsWarranted, MustWait
<1>9. CASE Crash
  BY Zenon, <1>9 DEF Crash, SleepIsWarranted
<1>10. CASE UNCHANGED vars
  BY Zenon, <1>10 DEF vars, SleepIsWarranted, MustWait
<1> QED BY Zenon, <1>2, <1>3, <1>4, <1>5, <1>6, <1>7, <1>8, <1>9, <1>10 DEF Next

\* A process asleep in begin_op() always has its reason to sleep: every step
\* that ends the reason, in end_op() and at the end of a commit, also wakes it.
THEOREM NoMissedWakeup ==
  ASSUME LogHasRoom
  PROVE  Spec => []SleepIsWarranted
<1>1. Init => SleepIsWarranted
  BY Zenon DEF Init, SleepIsWarranted
<1>2. Inv /\ Inv' /\ SleepIsWarranted /\ [Next]_vars => SleepIsWarranted'
  BY Zenon, SleepStep
<1> QED BY <1>1, <1>2, InvInvariant, PTL DEF Spec

=============================================================================
