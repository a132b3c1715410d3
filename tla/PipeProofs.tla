----------------------------- MODULE PipeProofs -----------------------------
(***************************************************************************)
(* Proofs about Pipe for every set of readers and writers, every size of   *)
(* the ring that divides the range of its counters, and every count.       *)
(***************************************************************************)
EXTENDS Pipe, TLAPS

TypeOK ==
  /\ nread \in 0 .. UINT - 1 /\ nwrite \in 0 .. UINT - 1
  /\ data \in [0 .. PIPESIZE - 1 -> Bytes]
  /\ readopen \in BOOLEAN /\ writeopen \in BOOLEAN
  /\ lock \in Callers \cup {Nobody}
  /\ ppc \in [Callers -> PCs]
  /\ i \in [Callers -> Nat] /\ n \in [Callers -> Nat]
  /\ addr \in [Readers -> Bytes]
  /\ killed \subseteq Callers
  /\ freed \in Nat

\* Exactly the holder of p->lock is inside a call.
Holding == \A p \in Callers : ppc[p] \in {"loop", "copy", "sleep"} <=> lock = p

\* The bytes in the ring, with unsigned arithmetic.
Used == (nwrite - nread) % UINT

\* An end is open while somebody refers to it, and the process that closes it
\* is the last one.
EndInv(S, open) ==
  /\ open <=> \E p \in S : ppc[p] # "closed"
  /\ \A p \in S : ppc[p] = "close" => \A q \in S \ {p} : ppc[q] = "closed"

\* Why a writer sleeps: the pipe is full, unless a reader is about to take
\* bytes and to wake it up.
WriterInv ==
  \A p \in Writers :
    /\ ppc[p] = "sleep" => Full /\ readopen
    /\ ppc[p] = "asleep" => readopen /\ (Full \/ \E q \in Readers : ppc[q] = "copy")

\* Why a reader sleeps: the pipe is empty, unless a writer is about to put
\* bytes and to wake it up.
ReaderInv ==
  \A p \in Readers :
    /\ ppc[p] = "sleep" => Empty /\ writeopen
    /\ ppc[p] = "asleep" /\ killed \cap Writers = {} =>
         writeopen /\ (Empty \/ \E q \in Writers : ppc[q] = "loop")

\* Only readers copy.
CopyInv == \A p \in Writers : ppc[p] # "copy"

Inv ==
  /\ TypeOK /\ Holding /\ Used <= PIPESIZE
  /\ EndInv(Writers, writeopen) /\ EndInv(Readers, readopen)
  /\ freed = IF readopen \/ writeopen THEN 0 ELSE 1
  /\ CopyInv /\ WriterInv /\ ReaderInv

-----------------------------------------------------------------------------
(* Remainders *)

LEMMA ModDef ==
  ASSUME NEW a \in Int, NEW m \in Nat \ {0}
  PROVE  /\ a % m \in 0 .. m - 1 /\ a \div m \in Int
         /\ a = m * (a \div m) + (a % m)
OBVIOUS

LEMMA ModUnique ==
  ASSUME NEW m \in Nat \ {0}, NEW q \in Int, NEW r \in 0 .. m - 1, NEW a \in Int, a = m * q + r
  PROVE  a % m = r
<1> DEFINE k == a \div m
           s == a % m
<1>1. s \in 0 .. m - 1 /\ k \in Int /\ a = m * k + s
  BY ModDef
<1> HIDE DEF k, s
<1>2. m * (k - q) = r - s
  BY <1>1
<1>3. k - q = 0
  <2>1. ASSUME k - q >= 1 PROVE FALSE
    <3>1. m * (k - q) >= m
      BY <1>1, <2>1
    <3> QED BY <1>1, <1>2, <3>1
  <2>2. ASSUME k - q <= -1 PROVE FALSE
    <3>1. m * (k - q) <= -m
      BY <1>1, <2>2
    <3> QED BY <1>1, <1>2, <3>1
  <2> QED BY <1>1, <2>1, <2>2
<1> QED BY <1>1, <1>2, <1>3 DEF s

LEMMA ModShift ==
  ASSUME NEW m \in Nat \ {0}, NEW a \in Int, NEW u \in Int, u % m = 0
  PROVE  (a + u) % m = a % m
<1> DEFINE q == (a \div m) + (u \div m)
           r == a % m
           b == a + u
<1>1. q \in Int /\ r \in 0 .. m - 1 /\ b \in Int
  BY ModDef
<1>2. b = m * q + r
  BY ModDef
<1> HIDE DEF q, r, b
<1>3. b % m = r
  BY <1>1, <1>2, ModUnique
<1> QED BY <1>3 DEF r, b

LEMMA ModDiffers ==
  ASSUME NEW m \in Nat \ {0}, NEW a \in Int, NEW d \in 1 .. m - 1
  PROVE  (a + d) % m # a % m
<1> DEFINE k == a \div m
           s == a % m
           q == IF s + d >= m THEN k + 1 ELSE k
           r == IF s + d >= m THEN s + d - m ELSE s + d
           b == a + d
<1>1. s \in 0 .. m - 1 /\ k \in Int /\ a = m * k + s
  BY ModDef
<1> HIDE DEF k, s
<1>2. q \in Int /\ r \in 0 .. m - 1 /\ b \in Int /\ r # s
  BY <1>1
<1>3. m * (k + 1) = m * k + m
  BY <1>1
<1>4. b = m * q + r
  BY <1>1, <1>3
<1> HIDE DEF q, r, b
<1>5. b % m = r
  BY <1>2, <1>4, ModUnique
<1> QED BY <1>2, <1>5 DEF b, s

\* One turn past the range, or one before it.
LEMMA ModWrap ==
  ASSUME NEW m \in Nat \ {0}, NEW a \in Int
  PROVE  /\ a \in 0 .. m - 1 => a % m = a
         /\ a \in m .. 2 * m - 1 => a % m = a - m
         /\ a \in -m .. -1 => a % m = a + m
<1>1. ASSUME a \in 0 .. m - 1 PROVE a % m = a
  BY <1>1, a = m * 0 + a, ModUnique
<1>2. ASSUME a \in m .. 2 * m - 1 PROVE a % m = a - m
  BY <1>2, a = m * 1 + (a - m), ModUnique
<1>3. ASSUME a \in -m .. -1 PROVE a % m = a + m
  BY <1>3, a = m * (-1) + (a + m), ModUnique
<1> QED BY <1>1, <1>2, <1>3

-----------------------------------------------------------------------------
(* The ring *)

LEMMA Counters ==
  ASSUME PipeAssumption, NEW x \in 0 .. UINT - 1
  PROVE  Inc(x) = (IF x = UINT - 1 THEN 0 ELSE x + 1) /\ Inc(x) \in 0 .. UINT - 1
<1>1. UINT \in Nat \ {0} /\ x + 1 \in Int
  BY DEF PipeAssumption
<1>2. x + 1 \in 0 .. UINT - 1 \/ x + 1 \in UINT .. 2 * UINT - 1
  BY <1>1
<1> QED BY <1>1, <1>2, ModWrap DEF Inc

\* The number of bytes between two counters.
LEMMA Distance ==
  ASSUME PipeAssumption, NEW x \in 0 .. UINT - 1, NEW y \in 0 .. UINT - 1
  PROVE  (y - x) % UINT = IF y >= x THEN y - x ELSE y - x + UINT
<1>1. UINT \in Nat \ {0} /\ y - x \in Int
  BY DEF PipeAssumption
<1>2. CASE y >= x
  <2>1. y - x \in 0 .. UINT - 1
    BY <1>1, <1>2
  <2>2. (y - x) % UINT = y - x
    BY <1>1, <2>1, ModWrap
  <2> QED BY <1>2, <2>2
<1>3. CASE ~(y >= x)
  <2>1. y - x \in -UINT .. -1
    BY <1>1, <1>3
  <2>2. (y - x) % UINT = y - x + UINT
    BY Zenon, <1>1, <2>1, ModWrap
  <2> QED BY <1>3, <2>2
<1> QED BY <1>2, <1>3

LEMMA RingFacts ==
  ASSUME PipeAssumption, nread \in 0 .. UINT - 1, nwrite \in 0 .. UINT - 1
  PROVE  /\ Used = IF nwrite >= nread THEN nwrite - nread ELSE nwrite - nread + UINT
         /\ Used \in 0 .. UINT - 1
         /\ Full <=> Used = PIPESIZE
         /\ Empty <=> Used = 0
<1>1. UINT \in Nat \ {0} /\ PIPESIZE \in Nat \ {0} /\ UINT > PIPESIZE
  BY DEF PipeAssumption
<1>2. Used = IF nwrite >= nread THEN nwrite - nread ELSE nwrite - nread + UINT
  BY Distance DEF Used
<1>3. Used \in 0 .. UINT - 1
  BY <1>1, <1>2
<1>4. (nread + PIPESIZE) % UINT = IF nread + PIPESIZE < UINT THEN nread + PIPESIZE
                                  ELSE nread + PIPESIZE - UINT
  <2>1. nread + PIPESIZE \in Int /\ nread + PIPESIZE \in 0 .. 2 * UINT - 1
    BY <1>1
  <2> QED BY <1>1, <2>1, ModWrap
<1>5. Full <=> Used = PIPESIZE
  BY <1>1, <1>2, <1>4 DEF Full
<1>6. Empty <=> Used = 0
  BY <1>1, <1>2 DEF Empty
<1> QED BY <1>2, <1>3, <1>5, <1>6

LEMMA WokenFacts ==
  ASSUME TypeOK, NEW S
  PROVE  /\ Woken(S) \in [Callers -> PCs]
         /\ \A q \in Callers :
              \/ Woken(S)[q] = ppc[q] /\ (q \in S => ppc[q] # "asleep")
              \/ q \in S /\ ppc[q] = "asleep" /\ Woken(S)[q] = "acquire"
BY DEF TypeOK, Woken, PCs

LEMMA InitInv == PipeAssumption /\ PipeInit => Inv
<1> SUFFICES ASSUME PipeAssumption, PipeInit PROVE Inv
  OBVIOUS
<1>1. UINT \in Nat \ {0} /\ PIPESIZE \in Nat \ {0} /\ UINT > PIPESIZE
  BY DEF PipeAssumption
<1>2. TypeOK
  BY <1>1 DEF PipeInit, TypeOK, PCs
<1>3. Used <= PIPESIZE
  BY <1>1, RingFacts DEF PipeInit
<1>4. Holding /\ CopyInv /\ WriterInv /\ ReaderInv
  BY DEF PipeInit, Holding, CopyInv, WriterInv, ReaderInv, Callers, PipeAssumption
<1>5. EndInv(Writers, writeopen) /\ EndInv(Readers, readopen)
  BY DEF PipeInit, EndInv, Callers, PipeAssumption
<1> QED BY <1>2, <1>3, <1>4, <1>5 DEF Inv, PipeInit

-----------------------------------------------------------------------------
(* Every step *)

LEMMA TypeStep ==
  ASSUME PipeAssumption, Inv, [PipeNext]_pipevars
  PROVE  TypeOK' /\ Used' <= PIPESIZE
<1> USE DEF ring, endvars, Return
<1>0. TypeOK /\ Used <= PIPESIZE
  BY DEF Inv
<1>1. ASSUME UNCHANGED ring PROVE Used' <= PIPESIZE
  BY <1>0, <1>1 DEF Used
<1>2. ASSUME NEW p \in Callers, Acquire(p) \/ Sleep(p) PROVE TypeOK' /\ UNCHANGED ring
  BY Zenon, <1>0, <1>2 DEF Acquire, Sleep, TypeOK, PCs
<1>3. ASSUME NEW p \in Callers, PipeClose(p) PROVE TypeOK' /\ UNCHANGED ring
  <2>1. ppc' = [Woken(Readers) EXCEPT ![p] = "closed"] \/ ppc' = [Woken(Writers) EXCEPT ![p] = "closed"]
    BY <1>3 DEF PipeClose
  <2>2. ppc' \in [Callers -> PCs]
    BY <1>0, <2>1, WokenFacts DEF PCs
  <2>3. readopen' \in BOOLEAN /\ writeopen' \in BOOLEAN
    BY Zenon, <1>0, <1>3 DEF PipeClose, TypeOK
  <2>4. freed' \in Nat
    BY <1>0, <1>3 DEF PipeClose, TypeOK
  <2>5. UNCHANGED <<ring, lock, i, n, addr, killed>>
    BY Zenon, <1>3 DEF PipeClose
  <2> QED BY <1>0, <2>2, <2>3, <2>4, <2>5 DEF TypeOK
<1>4. ASSUME NEW p \in Writers, WriteFull(p) \/ WriteDone(p) PROVE TypeOK' /\ UNCHANGED ring
  <2>1. p \in Callers
    BY DEF Callers
  <2>2. ppc' \in [Callers -> PCs]
    <3>1. PICK f \in {ppc, Woken(Readers)}, l \in PCs : ppc' = [f EXCEPT ![p] = l]
      BY <1>4 DEF WriteFull, WriteDone, PCs
    <3>2. f \in [Callers -> PCs]
      BY <1>0, WokenFacts DEF TypeOK
    <3> QED BY Zenon, <3>1, <3>2
  <2> QED BY <1>0, <1>4, <2>2 DEF WriteFull, WriteDone, TypeOK
<1>5. ASSUME NEW p \in Writers, NEW b \in Bytes, WriteByte(p, b) PROVE TypeOK' /\ Used' <= PIPESIZE
  <2>1. p \in Callers
    BY DEF Callers
  <2>2. nwrite' = Inc(nwrite) /\ nwrite' \in 0 .. UINT - 1 /\ nread' = nread /\ ~Full
    BY <1>0, <1>5, Counters DEF WriteByte, TypeOK
  <2>3. TypeOK'
    <3>1. data' \in [0 .. PIPESIZE - 1 -> Bytes]
      BY Zenon, <1>0, <1>5 DEF WriteByte, TypeOK
    <3>2. i' \in [Callers -> Nat]
      BY <1>0, <1>5, <2>1 DEF WriteByte, TypeOK
    <3> QED BY <1>0, <1>5, <2>2, <3>1, <3>2 DEF WriteByte, TypeOK
  <2>4. Used' <= PIPESIZE
    <3>1. Used < PIPESIZE /\ Used \in 0 .. UINT - 1
      BY <1>0, <2>2, RingFacts DEF TypeOK, PipeAssumption
    <3>2. Used' = IF nwrite' >= nread' THEN nwrite' - nread' ELSE nwrite' - nread' + UINT
      <4>1. nwrite' \in 0 .. UINT - 1 /\ nread' \in 0 .. UINT - 1
        BY <1>0, <2>2 DEF TypeOK
      <4>2. \A x, y \in 0 .. UINT - 1 : (y - x) % UINT = IF y >= x THEN y - x ELSE y - x + UINT
        BY Zenon, Distance
      <4> QED BY Zenon, <4>1, <4>2 DEF Used
    <3>3. nwrite' = IF nwrite = UINT - 1 THEN 0 ELSE nwrite + 1
      BY <1>0, <2>2, Counters DEF TypeOK
    <3> QED BY <1>0, <2>2, <3>1, <3>2, <3>3, RingFacts DEF TypeOK, PipeAssumption
  <2> QED BY <2>3, <2>4
<1>6. ASSUME NEW p \in Readers, ReadEmpty(p) \/ ReadDone(p) PROVE TypeOK' /\ UNCHANGED ring
  <2>1. p \in Callers
    BY DEF Callers
  <2>2. ppc' \in [Callers -> PCs]
    <3>1. PICK f \in {ppc, Woken(Writers)}, l \in PCs : ppc' = [f EXCEPT ![p] = l]
      BY <1>6 DEF ReadEmpty, ReadDone, PCs
    <3>2. f \in [Callers -> PCs]
      BY <1>0, WokenFacts DEF TypeOK
    <3> QED BY Zenon, <3>1, <3>2
  <2> QED BY <1>0, <1>6, <2>2 DEF ReadEmpty, ReadDone, TypeOK
<1>7. ASSUME NEW p \in Readers, ReadByte(p) PROVE TypeOK' /\ Used' <= PIPESIZE
  <2>1. p \in Callers
    BY DEF Callers
  <2>2. nread' = Inc(nread) /\ nread' \in 0 .. UINT - 1 /\ nwrite' = nwrite /\ ~Empty
    BY <1>0, <1>7, Counters DEF ReadByte, TypeOK
  <2>3. TypeOK'
    <3>1. addr' \in [Readers -> Bytes]
      <4>1. nread % PIPESIZE \in 0 .. PIPESIZE - 1
        <5>1. PIPESIZE \in Nat \ {0} /\ nread \in Int
          BY <1>0 DEF TypeOK, PipeAssumption
        <5> QED BY <5>1, ModDef
      <4> QED BY <1>0, <1>7, <4>1 DEF ReadByte, TypeOK
    <3>2. i' \in [Callers -> Nat]
      BY <1>0, <1>7, <2>1 DEF ReadByte, TypeOK
    <3>3. ppc' \in [Callers -> PCs]
      BY <1>0, <1>7, <2>1 DEF ReadByte, TypeOK, PCs
    <3> QED BY <1>0, <1>7, <2>2, <3>1, <3>2, <3>3 DEF ReadByte, TypeOK
  <2>4. Used' <= PIPESIZE
    <3>1. Used > 0
      BY <1>0, <2>2, RingFacts DEF TypeOK
    <3>2. Used' = IF nwrite' >= nread' THEN nwrite' - nread' ELSE nwrite' - nread' + UINT
      <4>1. nwrite' \in 0 .. UINT - 1 /\ nread' \in 0 .. UINT - 1
        BY <1>0, <2>2 DEF TypeOK
      <4>2. \A x, y \in 0 .. UINT - 1 : (y - x) % UINT = IF y >= x THEN y - x ELSE y - x + UINT
        BY Zenon, Distance
      <4> QED BY Zenon, <4>1, <4>2 DEF Used
    <3>3. nread' = IF nread = UINT - 1 THEN 0 ELSE nread + 1
      BY <1>0, <2>2, Counters DEF TypeOK
    <3> QED BY <1>0, <2>2, <3>1, <3>2, <3>3, RingFacts DEF TypeOK, PipeAssumption
  <2> QED BY <2>3, <2>4
<1>8. ASSUME NEW p \in Callers, NEW m \in Counts, Call(p, m) PROVE TypeOK' /\ UNCHANGED ring
  BY <1>0, <1>8 DEF Call, TypeOK, PCs, PipeAssumption
<1>9. ASSUME NEW p \in Callers, Close(p) PROVE TypeOK' /\ UNCHANGED ring
  BY <1>0, <1>9 DEF Close, TypeOK, PCs
<1>10. ASSUME NEW p \in Killable, Kill(p) PROVE TypeOK' /\ UNCHANGED ring
  BY <1>0, <1>10 DEF Kill, TypeOK, PCs, PipeAssumption, Callers
<1>11. ASSUME UNCHANGED pipevars PROVE TypeOK' /\ UNCHANGED ring
  BY <1>0, <1>11 DEF pipevars, TypeOK
<1> HIDE DEF ring
<1> QED
  BY <1>1, <1>2, <1>3, <1>4, <1>5, <1>6, <1>7, <1>8, <1>9, <1>10, <1>11 DEF PipeNext, Step

\* Process p goes from one label to another, and wakes up the sleepers of W.
Goes(p, from, to, W) ==
  /\ ppc[p] = from /\ ppc'[p] = to
  /\ \A q \in Callers \ {p} :
       ppc'[q] = IF q \in W /\ ppc[q] = "asleep" THEN "acquire" ELSE ppc[q]

\* Where each action takes its process.
LEMMA WriterGoes ==
  ASSUME PipeAssumption, Inv, NEW p \in Writers
  PROVE  /\ WriteFull(p) => \/ Goes(p, "loop", "user", {}) /\ lock' = Nobody
                            \/ Goes(p, "loop", "sleep", Readers) /\ lock' = lock
         /\ WriteDone(p) => Goes(p, "loop", "user", Readers) /\ lock' = Nobody
         /\ \A b \in Bytes : WriteByte(p, b) => Goes(p, "loop", "loop", {}) /\ lock' = lock
<1>1. p \in Callers /\ TypeOK /\ p \notin Readers
  BY DEF Callers, Inv, PipeAssumption
<1>2. ASSUME WriteFull(p)
      PROVE  \/ Goes(p, "loop", "user", {}) /\ lock' = Nobody
             \/ Goes(p, "loop", "sleep", Readers) /\ lock' = lock
  BY Zenon, <1>1, <1>2 DEF WriteFull, Return, Goes, Woken, TypeOK
<1>3. ASSUME WriteDone(p) PROVE Goes(p, "loop", "user", Readers) /\ lock' = Nobody
  BY <1>1, <1>3 DEF WriteDone, Return, Goes, Woken, TypeOK
<1>4. ASSUME NEW b \in Bytes, WriteByte(p, b) PROVE Goes(p, "loop", "loop", {}) /\ lock' = lock
  BY <1>1, <1>4 DEF WriteByte, Goes, TypeOK
<1> QED BY <1>2, <1>3, <1>4

LEMMA ReaderGoes ==
  ASSUME PipeAssumption, Inv, NEW p \in Readers
  PROVE  /\ ReadEmpty(p) => \/ Goes(p, "loop", "user", {}) /\ lock' = Nobody
                            \/ Goes(p, "loop", "sleep", {}) /\ lock' = lock
         /\ ReadDone(p) => \E from \in {"loop", "copy"} : Goes(p, from, "user", Writers) /\ lock' = Nobody
         /\ ReadByte(p) => \E from \in {"loop", "copy"} : Goes(p, from, "copy", {}) /\ lock' = lock
<1>1. p \in Callers /\ TypeOK /\ p \notin Writers
  BY DEF Callers, Inv, PipeAssumption
<1>2. ASSUME ReadEmpty(p)
      PROVE  \/ Goes(p, "loop", "user", {}) /\ lock' = Nobody
             \/ Goes(p, "loop", "sleep", {}) /\ lock' = lock
  BY <1>1, <1>2 DEF ReadEmpty, Return, Goes, TypeOK
<1>3. ASSUME ReadDone(p)
      PROVE  \E from \in {"loop", "copy"} : Goes(p, from, "user", Writers) /\ lock' = Nobody
  <2>1. ppc[p] \in {"loop", "copy"} /\ lock' = Nobody /\ ppc' = [Woken(Writers) EXCEPT ![p] = "user"]
    BY <1>3 DEF ReadDone, Copying, Return
  <2> QED BY <1>1, <2>1 DEF Goes, Woken
<1>4. ASSUME ReadByte(p)
      PROVE  \E from \in {"loop", "copy"} : Goes(p, from, "copy", {}) /\ lock' = lock
  <2>1. ppc[p] \in {"loop", "copy"} /\ lock' = lock /\ ppc' = [ppc EXCEPT ![p] = "copy"]
    BY <1>4 DEF ReadByte, Copying
  <2> QED BY <1>1, <2>1 DEF Goes, TypeOK
<1> QED BY <1>2, <1>3, <1>4

LEMMA CallerGoes ==
  ASSUME PipeAssumption, Inv, NEW p \in Callers
  PROVE  /\ Acquire(p) => Goes(p, "acquire", "loop", {}) /\ lock = Nobody /\ lock' = p
         /\ Sleep(p) => Goes(p, "sleep", "asleep", {}) /\ lock' = Nobody
         /\ PipeClose(p) => Goes(p, "close", "closed", IF p \in Writers THEN Readers ELSE Writers)
                            /\ lock = Nobody /\ lock' = Nobody
         /\ Close(p) => (\E to \in {"close", "closed"} : Goes(p, "user", to, {})) /\ lock' = lock
         /\ \A m \in Counts : Call(p, m) => Goes(p, "user", "acquire", {}) /\ lock' = lock
         /\ Kill(p) => /\ Goes(p, ppc[p], IF ppc[p] = "asleep" THEN "acquire" ELSE ppc[p], {})
                       /\ lock' = lock
<1>1. TypeOK
  BY DEF Inv
<1>2. ASSUME Acquire(p) PROVE Goes(p, "acquire", "loop", {}) /\ lock = Nobody /\ lock' = p
  BY <1>1, <1>2 DEF Acquire, Goes, TypeOK
<1>3. ASSUME Sleep(p) PROVE Goes(p, "sleep", "asleep", {}) /\ lock' = Nobody
  BY <1>1, <1>3 DEF Sleep, Goes, TypeOK
<1>4. ASSUME PipeClose(p)
      PROVE  Goes(p, "close", "closed", IF p \in Writers THEN Readers ELSE Writers)
             /\ lock = Nobody /\ lock' = Nobody
  BY Zenon, <1>1, <1>4 DEF PipeClose, Goes, TypeOK, Woken
<1>5. ASSUME Close(p)
      PROVE  (\E to \in {"close", "closed"} : Goes(p, "user", to, {})) /\ lock' = lock
  BY <1>1, <1>5 DEF Close, Goes, TypeOK
<1>6. ASSUME NEW m \in Counts, Call(p, m) PROVE Goes(p, "user", "acquire", {}) /\ lock' = lock
  BY <1>1, <1>6 DEF Call, Goes, TypeOK
<1>7. ASSUME Kill(p)
      PROVE  /\ Goes(p, ppc[p], IF ppc[p] = "asleep" THEN "acquire" ELSE ppc[p], {})
             /\ lock' = lock
  BY <1>1, <1>7 DEF Kill, Goes, TypeOK
<1> QED BY <1>2, <1>3, <1>4, <1>5, <1>6, <1>7

\* Only the holder of p->lock is in its critical section.
LEMMA HoldStep ==
  ASSUME PipeAssumption, Inv, [PipeNext]_pipevars
  PROVE  Holding' /\ CopyInv'
<1> DEFINE In == {"loop", "copy", "sleep"}
<1>0. Holding /\ CopyInv /\ Nobody \notin Callers /\ TypeOK
  BY DEF Inv, Callers, PipeAssumption
<1>a. ASSUME NEW p \in Callers, NEW from, NEW to, NEW W, Goes(p, from, to, W),
             \/ from \notin In /\ to \notin In /\ lock' = lock
             \/ from \notin In /\ to \in In /\ lock = Nobody /\ lock' = p
             \/ from \in In /\ to \notin In /\ lock' = Nobody
             \/ from \in In /\ to \in In /\ lock' = lock,
             to = "copy" => from = "copy" \/ p \in Readers
      PROVE  Holding' /\ CopyInv'
  <2>1. Holding'
    BY <1>0, <1>a DEF Holding, Goes
  <2>2. CopyInv'
    BY <1>0, <1>a DEF CopyInv, Goes, Callers, PipeAssumption
  <2> QED BY <2>1, <2>2
<1>1. ASSUME NEW p \in Callers, Acquire(p) PROVE Holding' /\ CopyInv'
  <2>1. Goes(p, "acquire", "loop", {}) /\ lock = Nobody /\ lock' = p
    BY <1>1, CallerGoes
  <2> QED BY <2>1, <1>a
<1>2. ASSUME NEW p \in Callers, Sleep(p) PROVE Holding' /\ CopyInv'
  <2>1. Goes(p, "sleep", "asleep", {}) /\ lock' = Nobody
    BY <1>2, CallerGoes
  <2> QED BY <2>1, <1>a
<1>3. ASSUME NEW p \in Callers, PipeClose(p) PROVE Holding' /\ CopyInv'
  <2>1. (\E W : Goes(p, "close", "closed", W)) /\ lock' = lock
    BY <1>3, CallerGoes
  <2> QED BY <2>1, <1>a
<1>4. ASSUME NEW p \in Writers, WriteFull(p) PROVE Holding' /\ CopyInv'
  <2>1. p \in Callers
    BY DEF Callers
  <2>2. \/ Goes(p, "loop", "user", {}) /\ lock' = Nobody
        \/ Goes(p, "loop", "sleep", Readers) /\ lock' = lock
    BY <1>4, WriterGoes
  <2> QED BY <2>1, <2>2, <1>a
<1>5. ASSUME NEW p \in Writers, WriteDone(p) PROVE Holding' /\ CopyInv'
  <2>1. Goes(p, "loop", "user", Readers) /\ lock' = Nobody /\ p \in Callers
    BY <1>5, WriterGoes DEF Callers
  <2> QED BY <2>1, <1>a
<1>6. ASSUME NEW p \in Writers, NEW b \in Bytes, WriteByte(p, b) PROVE Holding' /\ CopyInv'
  <2>1. Goes(p, "loop", "loop", {}) /\ lock' = lock /\ p \in Callers
    BY <1>6, WriterGoes DEF Callers
  <2> QED BY <2>1, <1>a
<1>7. ASSUME NEW p \in Readers, ReadEmpty(p) PROVE Holding' /\ CopyInv'
  <2>1. p \in Callers
    BY DEF Callers
  <2>2. \/ Goes(p, "loop", "user", {}) /\ lock' = Nobody
        \/ Goes(p, "loop", "sleep", {}) /\ lock' = lock
    BY <1>7, ReaderGoes
  <2> QED BY <2>1, <2>2, <1>a
<1>8. ASSUME NEW p \in Readers, ReadDone(p) \/ ReadByte(p) PROVE Holding' /\ CopyInv'
  <2>1. p \in Callers
    BY DEF Callers
  <2>2. PICK from \in {"loop", "copy"} :
          \/ Goes(p, from, "user", Writers) /\ lock' = Nobody
          \/ Goes(p, from, "copy", {}) /\ lock' = lock
    BY <1>8, ReaderGoes
  <2> QED BY <2>1, <2>2, <1>a
<1>9. ASSUME NEW p \in Callers, Close(p) \/ \E m \in Counts : Call(p, m)
      PROVE  Holding' /\ CopyInv'
  <2>1. (\E to \in {"close", "closed", "acquire"} : Goes(p, "user", to, {})) /\ lock' = lock
    BY <1>9, CallerGoes
  <2> QED BY <2>1, <1>a
<1>10. ASSUME NEW p \in Killable, Kill(p) PROVE Holding' /\ CopyInv'
  <2>1. p \in Callers
    BY DEF PipeAssumption, Callers
  <2>2. (\E to : /\ Goes(p, ppc[p], to, {})
                 /\ to = IF ppc[p] = "asleep" THEN "acquire" ELSE ppc[p]) /\ lock' = lock
    BY <1>10, <2>1, CallerGoes
  <2> QED BY <2>1, <2>2, <1>a
<1>11. CASE UNCHANGED pipevars
  BY <1>0, <1>11 DEF pipevars, Holding, CopyInv
<1> QED
  BY <1>1, <1>2, <1>3, <1>4, <1>5, <1>6, <1>7, <1>8, <1>9, <1>10, <1>11 DEF PipeNext, Step

\* The last process of an end closes it, and the one that closes the second end
\* frees the pipe.
LEMMA EndStep ==
  ASSUME PipeAssumption, Inv, [PipeNext]_pipevars
  PROVE  /\ EndInv(Writers, writeopen)' /\ EndInv(Readers, readopen)'
         /\ freed' = IF readopen' \/ writeopen' THEN 0 ELSE 1
<1> DEFINE Ends == /\ EndInv(Writers, writeopen)' /\ EndInv(Readers, readopen)'
                   /\ freed' = IF readopen' \/ writeopen' THEN 0 ELSE 1
<1>0. /\ EndInv(Writers, writeopen) /\ EndInv(Readers, readopen) /\ TypeOK
      /\ freed = IF readopen \/ writeopen THEN 0 ELSE 1
      /\ Writers \cap Readers = {} /\ Callers = Writers \cup Readers
  BY DEF Inv, PipeAssumption, Callers
\* A step inside calls.
<1>a. ASSUME NEW p \in Callers, NEW from, NEW to, NEW W, Goes(p, from, to, W), UNCHANGED endvars,
             from = to \/ {from, to} \cap {"close", "closed"} = {}
      PROVE  Ends
  <2>1. \A q \in Callers : /\ ppc'[q] = "close" <=> ppc[q] = "close"
                           /\ ppc'[q] = "closed" <=> ppc[q] = "closed"
    BY Zenon, <1>a DEF Goes
  <2> QED BY <1>0, <1>a, <2>1 DEF EndInv, endvars
<1>1. ASSUME NEW p \in Callers, Acquire(p) \/ Sleep(p) \/ \E m \in Counts : Call(p, m) PROVE Ends
  <2>1. UNCHANGED endvars
    BY <1>1 DEF Acquire, Sleep, Call
  <2>2. \/ Goes(p, "acquire", "loop", {}) \/ Goes(p, "sleep", "asleep", {})
        \/ Goes(p, "user", "acquire", {})
    BY <1>1, CallerGoes
  <2> QED BY <2>1, <2>2, <1>a
<1>2. ASSUME NEW p \in Writers,
             WriteFull(p) \/ WriteDone(p) \/ \E b \in Bytes : WriteByte(p, b)
      PROVE  Ends
  <2>1. UNCHANGED endvars /\ p \in Callers
    BY <1>2 DEF WriteFull, WriteDone, WriteByte, Return, endvars, Callers
  <2>2. \E to \in {"user", "sleep", "loop"}, W \in {{}, Readers} : Goes(p, "loop", to, W)
    BY <1>2, WriterGoes
  <2> QED BY <2>1, <2>2, <1>a
<1>3. ASSUME NEW p \in Readers, ReadEmpty(p) \/ ReadDone(p) \/ ReadByte(p) PROVE Ends
  <2>1. UNCHANGED endvars /\ p \in Callers
    BY <1>3 DEF ReadEmpty, ReadDone, ReadByte, Return, endvars, Callers
  <2>2. \E from \in {"loop", "copy"}, to \in {"user", "sleep", "copy"}, W \in {{}, Writers} :
          Goes(p, from, to, W)
    BY <1>3, ReaderGoes
  <2> QED BY <2>1, <2>2, <1>a
<1>4. ASSUME NEW p \in Killable, Kill(p) PROVE Ends
  <2>1. UNCHANGED endvars /\ p \in Callers
    BY <1>4 DEF Kill, PipeAssumption, Callers
  <2>2. \E to : Goes(p, ppc[p], to, {}) /\ (to = ppc[p] \/ (ppc[p] = "asleep" /\ to = "acquire"))
    BY <1>4, <2>1, CallerGoes
  <2> QED BY <2>1, <2>2, <1>a
<1>5. ASSUME NEW p \in Callers, Close(p) PROVE Ends
  <2> DEFINE S == IF p \in Writers THEN Writers ELSE Readers
  <2>1. /\ UNCHANGED endvars /\ ppc[p] = "user"
        /\ ppc' = [ppc EXCEPT ![p] = IF \A q \in S \ {p} : ppc[q] \in {"close", "closed"}
                                   THEN "close" ELSE "closed"]
    BY <1>5 DEF Close
  <2>2. ppc[p] = "user" /\ \A q \in Callers \ {p} : ppc'[q] = ppc[q]
    BY <1>0, <2>1 DEF TypeOK
  <2>3. CASE \A q \in S \ {p} : ppc[q] \in {"close", "closed"}
    <3>1. ppc'[p] = "close"
      BY <1>0, <2>1, <2>3 DEF TypeOK
    <3>2. \A q \in S \ {p} : ppc[q] = "closed"
      BY <1>0, <2>2, <2>3 DEF EndInv
    <3> QED BY <1>0, <2>1, <2>2, <3>1, <3>2 DEF EndInv, endvars
  <2>4. CASE ~\A q \in S \ {p} : ppc[q] \in {"close", "closed"}
    <3>1. ppc'[p] = "closed"
      BY <1>0, <2>1, <2>4 DEF TypeOK
    <3> QED BY <1>0, <2>1, <2>2, <2>4, <3>1 DEF EndInv, endvars
  <2> QED BY <2>3, <2>4
<1>6. ASSUME NEW p \in Callers, PipeClose(p) PROVE Ends
  <2>1. Goes(p, "close", "closed", IF p \in Writers THEN Readers ELSE Writers)
    BY <1>6, CallerGoes
  <2>2. \A q \in Callers \ {p} : /\ ppc'[q] = "close" <=> ppc[q] = "close"
                                 /\ ppc'[q] = "closed" <=> ppc[q] = "closed"
    BY <2>1 DEF Goes
  <2>3. ppc[p] = "close" /\ ppc'[p] = "closed"
    BY <2>1 DEF Goes
  <2>4. freed' = IF ~readopen' /\ ~writeopen' THEN freed + 1 ELSE freed
    BY <1>6 DEF PipeClose
  <2>5. CASE p \in Writers
    <3>1. writeopen' = FALSE /\ readopen' = readopen
      BY <1>6, <2>5 DEF PipeClose
    <3> QED BY <1>0, <2>2, <2>3, <2>4, <2>5, <3>1 DEF EndInv
  <2>6. CASE p \in Readers
    <3>1. readopen' = FALSE /\ writeopen' = writeopen
      BY <1>0, <1>6, <2>6 DEF PipeClose
    <3> QED BY <1>0, <2>2, <2>3, <2>4, <2>6, <3>1 DEF EndInv
  <2> QED BY <1>0, <2>5, <2>6
<1>7. CASE UNCHANGED pipevars
  BY <1>0, <1>7 DEF pipevars, EndInv
<1> QED BY <1>1, <1>2, <1>3, <1>4, <1>5, <1>6, <1>7 DEF PipeNext, Step

\* A writer that sleeps has a reason to: its wakeup() is not lost.
LEMMA WriterStep ==
  ASSUME PipeAssumption, Inv, [PipeNext]_pipevars
  PROVE  WriterInv'
<1>0. /\ WriterInv /\ CopyInv /\ Holding /\ TypeOK /\ EndInv(Readers, readopen)
      /\ Writers \cap Readers = {} /\ Callers = Writers \cup Readers
  BY DEF Inv, PipeAssumption, Callers
<1>1. ~(Full /\ Empty)
  BY <1>0, RingFacts DEF TypeOK, PipeAssumption
\* A step that leaves ring and endvars alone.
<1>a. ASSUME NEW p \in Callers, NEW from, NEW to, NEW W, Goes(p, from, to, W),
             UNCHANGED <<ring, readopen>>,
             from = "copy" /\ to # "copy" => W = Writers,
             p \in Writers => to # "asleep" \/ from = "sleep",
             p \in Writers => to # "sleep" \/ (Full /\ readopen)
      PROVE  WriterInv'
  <2>1. Full' <=> Full
    BY <1>a DEF Full, ring
  <2> SUFFICES ASSUME NEW x \in Writers
               PROVE  /\ ppc'[x] = "sleep" => Full /\ readopen
                      /\ ppc'[x] = "asleep" => readopen /\ (Full \/ \E q \in Readers : ppc'[q] = "copy")
    BY <1>a, <2>1 DEF WriterInv
  <2>2. CASE x = p
    BY <1>0, <1>a, <2>2 DEF WriterInv, Goes
  <2>3. CASE x # p
    <3>1. ppc'[x] \in {"sleep", "asleep"} => ppc'[x] = ppc[x] /\ (ppc[x] = "asleep" => x \notin W)
      BY <1>0, <1>a, <2>3 DEF Goes
    <3>2. ASSUME NEW q \in Readers, ppc[q] = "copy", x \notin W PROVE ppc'[q] = "copy"
      BY <1>0, <1>a, <3>2 DEF Goes
    <3> QED BY <1>0, <3>1, <3>2 DEF WriterInv
  <2> QED BY <2>2, <2>3
<1>2. ASSUME NEW p \in Callers,
             Acquire(p) \/ Sleep(p) \/ Close(p) \/ \E m \in Counts : Call(p, m)
      PROVE  WriterInv'
  <2>1. UNCHANGED <<ring, readopen>>
    BY <1>2 DEF Acquire, Sleep, Call, Close, endvars
  <2>2. \/ Goes(p, "acquire", "loop", {}) \/ Goes(p, "sleep", "asleep", {})
        \/ \E to \in {"acquire", "close", "closed"} : Goes(p, "user", to, {})
    BY <1>2, CallerGoes
  <2> QED BY <2>1, <2>2, <1>a
<1>3. ASSUME NEW p \in Writers, WriteFull(p) \/ WriteDone(p) PROVE WriterInv'
  <2>1. UNCHANGED <<ring, readopen>> /\ p \in Callers
    BY <1>3 DEF WriteFull, WriteDone, Return, endvars, Callers
  <2>2. \/ \E W \in {{}, Readers} : Goes(p, "loop", "user", W)
        \/ Goes(p, "loop", "sleep", Readers) /\ Full /\ readopen
    <3>1. WriteFull(p) => Full /\ (readopen \/ ppc' = [ppc EXCEPT ![p] = "user"])
      BY DEF WriteFull, Return
    <3>2. ppc' = [ppc EXCEPT ![p] = "user"] => ppc'[p] = "user"
      BY <1>0, <2>1 DEF TypeOK
    <3>3. Goes(p, "loop", "sleep", Readers) => ppc'[p] = "sleep"
      BY DEF Goes
    <3> QED BY <1>3, <3>1, <3>2, <3>3, WriterGoes
  <2> QED BY <2>1, <2>2, <1>a
<1>4. ASSUME NEW p \in Writers, NEW b \in Bytes, WriteByte(p, b) PROVE WriterInv'
  <2>1. ~Full /\ Goes(p, "loop", "loop", {}) /\ p \in Callers
    BY Zenon, <1>4, WriterGoes DEF WriteByte, Callers
  <2>2. \A q \in Callers : ppc'[q] = ppc[q]
    BY <2>1 DEF Goes
  <2>3. \A q \in Readers : ppc[q] # "copy"
    BY <1>0, <2>1 DEF Holding, Goes
  <2>4. \A x \in Writers : ppc[x] \notin {"sleep", "asleep"}
    BY <1>0, <2>1, <2>3 DEF WriterInv
  <2> QED BY <1>0, <2>2, <2>4 DEF WriterInv
<1>5. ASSUME NEW p \in Readers, ReadEmpty(p) \/ ReadDone(p) PROVE WriterInv'
  <2>1. UNCHANGED <<ring, readopen>> /\ p \in Callers /\ p \notin Writers
    BY <1>0, <1>5 DEF ReadEmpty, ReadDone, Return, endvars, Callers
  <2>2. \/ \E to \in {"user", "sleep"} : Goes(p, "loop", to, {})
        \/ \E from \in {"loop", "copy"} : Goes(p, from, "user", Writers)
    BY <1>5, ReaderGoes
  <2> QED BY <2>1, <2>2, <1>a
<1>6. ASSUME NEW p \in Readers, ReadByte(p) PROVE WriterInv'
  <2>1. PICK from \in {"loop", "copy"} : Goes(p, from, "copy", {})
    BY <1>6, ReaderGoes
  <2>2. readopen' = readopen /\ p \in Callers /\ p \notin Writers
    BY <1>0, <1>6 DEF ReadByte, endvars
  <2>3. \A x \in Writers : ppc'[x] = ppc[x]
    BY <1>0, <2>1, <2>2 DEF Goes
  <2>4. \A x \in Writers : ppc[x] # "sleep"
    BY <1>0, <2>1, <2>2 DEF Holding, Goes
  <2>5. ppc'[p] = "copy"
    BY <2>1 DEF Goes
  <2> QED BY <1>0, <2>2, <2>3, <2>4, <2>5 DEF WriterInv
<1>7. ASSUME NEW p \in Killable, Kill(p) PROVE WriterInv'
  <2>1. UNCHANGED <<ring, readopen>> /\ p \in Callers
    BY <1>7 DEF Kill, PipeAssumption, Callers, endvars
  <2>2. PICK to : Goes(p, ppc[p], to, {}) /\ to = IF ppc[p] = "asleep" THEN "acquire" ELSE ppc[p]
    BY <1>7, <2>1, CallerGoes
  <2>3. p \in Writers => to # "sleep" \/ (Full /\ readopen)
    BY <1>0, <2>2 DEF WriterInv
  <2> QED BY <2>1, <2>2, <2>3, <1>a
<1>8. ASSUME NEW p \in Callers, PipeClose(p) PROVE WriterInv'
  <2>1. Goes(p, "close", "closed", IF p \in Writers THEN Readers ELSE Writers) /\ lock = Nobody
    BY <1>8, CallerGoes
  <2>2. CASE p \in Writers
    <3>1. UNCHANGED <<ring, readopen>>
      BY <1>8, <2>2 DEF PipeClose
    <3> QED BY <2>1, <2>2, <3>1, <1>a
  <2>3. CASE p \notin Writers
    <3>1. \A x \in Writers : ppc[x] # "sleep"
      BY <1>0, <2>1 DEF Holding, PipeAssumption
    <3>2. \A x \in Writers : ppc'[x] \notin {"sleep", "asleep"}
      BY <1>0, <2>1, <2>3, <3>1 DEF Goes
    <3> QED BY <3>2 DEF WriterInv
  <2> QED BY <2>2, <2>3
<1>9. CASE UNCHANGED pipevars
  BY <1>0, <1>9 DEF pipevars, WriterInv, Full
<1> QED BY <1>2, <1>3, <1>4, <1>5, <1>6, <1>7, <1>8, <1>9 DEF PipeNext, Step

\* A reader that sleeps has a reason to, as long as no writer has been killed.
LEMMA ReaderStep ==
  ASSUME PipeAssumption, Inv, [PipeNext]_pipevars
  PROVE  ReaderInv'
<1>0. /\ ReaderInv /\ CopyInv /\ Holding /\ TypeOK /\ EndInv(Readers, readopen)
      /\ Writers \cap Readers = {} /\ Callers = Writers \cup Readers
  BY DEF Inv, PipeAssumption, Callers
\* A step that leaves ring and endvars alone.
<1>a. ASSUME NEW p \in Callers, NEW from, NEW to, NEW W, Goes(p, from, to, W),
             UNCHANGED <<ring, writeopen>>, killed \subseteq killed',
             p \in Writers /\ from = "loop" /\ to # "loop" => W = Readers \/ p \in killed \/ ~readopen,
             p \in Readers => to # "asleep" \/ from = "sleep",
             p \in Readers => to # "sleep" \/ (Empty /\ writeopen)
      PROVE  ReaderInv'
  <2>1. Empty' <=> Empty
    BY <1>a DEF Empty, ring
  <2> SUFFICES ASSUME NEW x \in Readers
               PROVE  /\ ppc'[x] = "sleep" => Empty /\ writeopen
                      /\ ppc'[x] = "asleep" /\ killed \cap Writers = {} =>
                           writeopen /\ (Empty \/ \E q \in Writers : ppc'[q] = "loop")
    BY <1>a, <2>1 DEF ReaderInv
  <2>2. CASE x = p
    BY <1>0, <1>a, <2>2 DEF ReaderInv, Goes
  <2>3. CASE x # p
    <3>1. ppc'[x] \in {"sleep", "asleep"} => ppc'[x] = ppc[x] /\ (ppc[x] = "asleep" => x \notin W)
      BY <1>0, <1>a, <2>3 DEF Goes
    <3>2. ppc[x] = "asleep" => readopen
      BY <1>0 DEF EndInv
    <3>3. ASSUME NEW q \in Writers, ppc[q] = "loop", x \notin W, readopen, killed \cap Writers = {}
          PROVE  ppc'[q] = "loop"
      BY <1>0, <1>a, <3>3 DEF Goes
    <3> QED BY <1>0, <3>1, <3>2, <3>3 DEF ReaderInv
  <2> QED BY <2>2, <2>3
<1>2. ASSUME NEW p \in Callers,
             Acquire(p) \/ Sleep(p) \/ Close(p) \/ \E m \in Counts : Call(p, m)
      PROVE  ReaderInv'
  <2>1. UNCHANGED <<ring, writeopen, killed>>
    BY <1>2 DEF Acquire, Sleep, Call, Close, endvars
  <2>2. \/ Goes(p, "acquire", "loop", {}) \/ Goes(p, "sleep", "asleep", {})
        \/ \E to \in {"acquire", "close", "closed"} : Goes(p, "user", to, {})
    BY <1>2, CallerGoes
  <2> QED BY <2>1, <2>2, <1>a
<1>3. ASSUME NEW p \in Writers, WriteFull(p) \/ WriteDone(p) PROVE ReaderInv'
  <2>1. UNCHANGED <<ring, writeopen, killed>> /\ p \in Callers /\ p \notin Readers
    BY <1>0, <1>3 DEF WriteFull, WriteDone, Return, endvars, Callers
  <2>2. \/ \E to \in {"user", "sleep"} : Goes(p, "loop", to, Readers)
        \/ Goes(p, "loop", "user", {}) /\ (p \in killed \/ ~readopen)
    <3>1. WriteFull(p) => p \in killed \/ ~readopen \/ ppc' = [Woken(Readers) EXCEPT ![p] = "sleep"]
      BY DEF WriteFull
    <3>2. ppc' = [Woken(Readers) EXCEPT ![p] = "sleep"] => ppc'[p] = "sleep"
      BY <1>0, <2>1, WokenFacts
    <3>3. Goes(p, "loop", "user", {}) => ppc'[p] = "user"
      BY DEF Goes
    <3> QED BY <1>3, <3>1, <3>2, <3>3, WriterGoes
  <2> QED BY <2>1, <2>2, <1>a
<1>4. ASSUME NEW p \in Writers, NEW b \in Bytes, WriteByte(p, b) PROVE ReaderInv'
  <2>1. Goes(p, "loop", "loop", {}) /\ p \in Callers /\ UNCHANGED <<writeopen, killed>>
    BY Zenon, <1>4, WriterGoes DEF WriteByte, Callers, endvars
  <2>2. ppc[p] = "loop" /\ \A q \in Callers : ppc'[q] = ppc[q]
    BY <2>1 DEF Goes
  <2>3. \A x \in Readers : ppc[x] # "sleep"
    BY <1>0, <2>1, <2>2 DEF Holding
  <2> QED BY <1>0, <2>1, <2>2, <2>3 DEF ReaderInv
<1>5. ASSUME NEW p \in Readers, ReadEmpty(p) \/ ReadDone(p) PROVE ReaderInv'
  <2>1. UNCHANGED <<ring, writeopen, killed>> /\ p \in Callers /\ p \notin Writers
    BY <1>0, <1>5 DEF ReadEmpty, ReadDone, Return, endvars, Callers
  <2>2. \/ Goes(p, "loop", "user", {}) \/ (Goes(p, "loop", "sleep", {}) /\ Empty /\ writeopen)
        \/ \E from \in {"loop", "copy"} : Goes(p, from, "user", Writers)
    BY <1>5, ReaderGoes DEF ReadEmpty
  <2> QED BY <2>1, <2>2, <1>a
<1>6. ASSUME NEW p \in Readers, ReadByte(p) PROVE ReaderInv'
  <2>1. PICK from \in {"loop", "copy"} : Goes(p, from, "copy", {})
    BY <1>6, ReaderGoes
  <2>2. p \in Callers /\ p \notin Writers /\ ~Empty /\ UNCHANGED <<writeopen, killed>>
    BY <1>0, <1>6 DEF ReadByte, endvars
  <2>3. \A x \in Readers \ {p} : ppc'[x] = ppc[x]
    BY <1>0, <2>1, <2>2 DEF Goes
  <2>4. \A x \in Callers \ {p} : ppc[x] \notin {"sleep", "loop"}
    BY <1>0, <2>1, <2>2 DEF Holding, Goes
  <2>5. ppc'[p] = "copy"
    BY <2>1 DEF Goes
  <2>6. \A x \in Readers \ {p} : ppc[x] = "asleep" => killed \cap Writers # {}
    BY <1>0, <2>2, <2>4 DEF ReaderInv
  <2> QED BY <1>0, <2>2, <2>3, <2>4, <2>5, <2>6 DEF ReaderInv
<1>7. ASSUME NEW p \in Killable, Kill(p) PROVE ReaderInv'
  <2>1. UNCHANGED <<ring, writeopen>> /\ p \in Callers /\ killed \subseteq killed'
    BY <1>7 DEF Kill, PipeAssumption, Callers, endvars
  <2>2. PICK to : Goes(p, ppc[p], to, {}) /\ to = IF ppc[p] = "asleep" THEN "acquire" ELSE ppc[p]
    BY <1>7, <2>1, CallerGoes
  <2>3. p \in Readers => to # "sleep" \/ (Empty /\ writeopen)
    BY <1>0, <2>2 DEF ReaderInv
  <2> QED BY <2>1, <2>2, <2>3, <1>a
<1>8. ASSUME NEW p \in Callers, PipeClose(p) PROVE ReaderInv'
  <2>1. Goes(p, "close", "closed", IF p \in Writers THEN Readers ELSE Writers) /\ lock = Nobody
    BY <1>8, CallerGoes
  <2>2. CASE p \notin Writers
    <3>1. UNCHANGED <<ring, writeopen, killed>>
      BY <1>8, <2>2 DEF PipeClose
    <3> QED BY <2>1, <2>2, <3>1, <1>a
  <2>3. CASE p \in Writers
    <3>1. \A x \in Readers : ppc[x] # "sleep"
      BY <1>0, <2>1 DEF Holding, PipeAssumption
    <3>2. \A x \in Readers : ppc'[x] \notin {"sleep", "asleep"}
      BY <1>0, <2>1, <2>3, <3>1 DEF Goes
    <3> QED BY <3>2 DEF ReaderInv
  <2> QED BY <2>2, <2>3
<1>9. CASE UNCHANGED pipevars
  BY <1>0, <1>9 DEF pipevars, ReaderInv, Empty
<1> QED BY <1>2, <1>3, <1>4, <1>5, <1>6, <1>7, <1>8, <1>9 DEF PipeNext, Step

LEMMA InvInvariant ==
  ASSUME PipeAssumption
  PROVE  PipeSpec => []Inv
<1>1. PipeInit => Inv
  BY InitInv
<1>2. Inv /\ [PipeNext]_pipevars => Inv'
  BY TypeStep, HoldStep, EndStep, WriterStep, ReaderStep DEF Inv
<1> QED BY <1>1, <1>2, PTL DEF PipeSpec

-----------------------------------------------------------------------------
(* The theorems *)

\* pipeclose() frees the pipe once, after the last process has let go of it.
THEOREM PipeFreedOnce ==
  ASSUME PipeAssumption
  PROVE  PipeSpec => []FreedOnce
<1>1. Inv => FreedOnce
  <2> SUFFICES ASSUME Inv PROVE FreedOnce
    OBVIOUS
  <2>1. freed = IF readopen \/ writeopen THEN 0 ELSE 1
    BY DEF Inv
  <2>2. readopen \/ writeopen <=> \E p \in Callers : ppc[p] # "closed"
    BY DEF Inv, EndInv, Callers
  <2> QED BY <2>1, <2>2 DEF FreedOnce
<1> QED BY <1>1, InvInvariant, PTL

\* The wakeup() calls of pipewrite(), piperead() and pipeclose() reach everyone
\* who sleeps without a reason; readers as long as no writer has been killed.
THEOREM PipeWakeups ==
  ASSUME PipeAssumption
  PROVE  PipeSpec => []SleepIsWarranted
<1>1. Inv => SleepIsWarranted
  <2> SUFFICES ASSUME Inv, lock = Nobody
               PROVE  /\ \A p \in Writers : ppc[p] = "asleep" => Full /\ readopen
                      /\ killed \cap Writers = {} =>
                           \A p \in Readers : ppc[p] = "asleep" => Empty /\ writeopen
    BY DEF SleepIsWarranted
  <2>1. \A q \in Writers \cup Readers : ppc[q] \notin {"loop", "copy"}
    BY DEF Inv, Holding, Callers, PipeAssumption
  <2> QED BY <2>1 DEF Inv, WriterInv, ReaderInv
<1> QED BY <1>1, InvInvariant, PTL

-----------------------------------------------------------------------------
(* The refinement of ByteQueue. *)

LEMMA ContentsType ==
  ASSUME PipeAssumption, TypeOK
  PROVE  Contents \in Seq(Bytes) /\ Len(Contents) = Used
<1>1. Used \in Nat
  BY RingFacts DEF TypeOK, PipeAssumption
<1>2. \A j \in 1 .. Used : (nread + j - 1) % PIPESIZE \in 0 .. PIPESIZE - 1
  <2> SUFFICES ASSUME NEW j \in 1 .. Used PROVE (nread + j - 1) % PIPESIZE \in 0 .. PIPESIZE - 1
    OBVIOUS
  <2>1. nread + j - 1 \in Int /\ PIPESIZE \in Nat \ {0}
    BY <1>1 DEF TypeOK, PipeAssumption
  <2> QED BY Zenon, <2>1, ModDef
<1>3. Contents \in [1 .. Used -> Bytes]
  BY <1>2 DEF Contents, Used, TypeOK
<1> QED BY <1>1, <1>3

\* A counter that has wrapped around names the same slot.
LEMMA SameSlot ==
  ASSUME PipeAssumption, NEW a \in Int
  PROVE  (a + UINT) % PIPESIZE = a % PIPESIZE
<1>1. PIPESIZE \in Nat \ {0} /\ UINT \in Int /\ UINT % PIPESIZE = 0
  BY DEF PipeAssumption
<1> QED BY Zenon, <1>1, ModShift

LEMMA PutStep ==
  ASSUME PipeAssumption, TypeOK, TypeOK', NEW p \in Writers, NEW b \in Bytes, Used <= PIPESIZE,
         WriteByte(p, b)
  PROVE  Queue!Put(b)
<1>1. /\ UINT \in Nat \ {0} /\ PIPESIZE \in Nat \ {0}
      /\ nread \in 0 .. UINT - 1 /\ nwrite \in 0 .. UINT - 1 /\ nwrite' \in 0 .. UINT - 1
      /\ nread' = nread /\ addr' = addr
      /\ data' = [data EXCEPT ![nwrite % PIPESIZE] = b]
  BY DEF TypeOK, PipeAssumption, WriteByte
<1>2. /\ Used = IF nwrite >= nread THEN nwrite - nread ELSE nwrite - nread + UINT
      /\ Used \in 0 .. PIPESIZE - 1
  <2>1. Used # PIPESIZE
    BY <1>1, RingFacts DEF WriteByte
  <2> QED BY <1>1, <2>1, RingFacts
<1>3. (nwrite' - nread') % UINT = Used + 1
  <2>1. nwrite' = IF nwrite = UINT - 1 THEN 0 ELSE nwrite + 1
    BY <1>1, Counters DEF WriteByte
  <2>2. (nwrite' - nread) % UINT = IF nwrite' >= nread THEN nwrite' - nread ELSE nwrite' - nread + UINT
    BY Zenon, <1>1, Distance
  <2>3. Used + 1 < UINT
    BY <1>2 DEF PipeAssumption
  <2> QED BY <1>1, <1>2, <2>1, <2>2, <2>3
<1>4. nwrite % PIPESIZE = (nread + Used) % PIPESIZE
  <2>1. nread + Used = nwrite \/ nread + Used = nwrite + UINT
    BY <1>1, <1>2
  <2>2. nwrite \in Int
    BY <1>1
  <2>3. (nwrite + UINT) % PIPESIZE = nwrite % PIPESIZE
    BY <2>2, SameSlot
  <2> QED BY <2>1, <2>3
<1>5. \A j \in 1 .. Used : (nread + j - 1) % PIPESIZE # nwrite % PIPESIZE
  <2> SUFFICES ASSUME NEW j \in 1 .. Used PROVE (nread + j - 1) % PIPESIZE # nwrite % PIPESIZE
    OBVIOUS
  <2>1. nread + j - 1 \in Int /\ Used - j + 1 \in 1 .. PIPESIZE - 1
    BY <1>1, <1>2
  <2>2. ((nread + j - 1) + (Used - j + 1)) % PIPESIZE # (nread + j - 1) % PIPESIZE
    BY Zenon, <1>1, <2>1, ModDiffers
  <2>3. (nread + j - 1) + (Used - j + 1) = nread + Used
    BY <1>1, <1>2
  <2> QED BY <1>4, <2>2, <2>3
<1>6. \A j \in 1 .. Used + 1 : (nread + j - 1) % PIPESIZE \in 0 .. PIPESIZE - 1
  <2> SUFFICES ASSUME NEW j \in 1 .. Used + 1 PROVE (nread + j - 1) % PIPESIZE \in 0 .. PIPESIZE - 1
    OBVIOUS
  <2>1. nread + j - 1 \in Int
    BY <1>1, <1>2
  <2> QED BY Zenon, <1>1, <2>1, ModDef
<1>7. \A j \in 1 .. Used + 1 :
        data'[(nread + j - 1) % PIPESIZE] =
          IF j = Used + 1 THEN b ELSE data[(nread + j - 1) % PIPESIZE]
  <2> SUFFICES ASSUME NEW j \in 1 .. Used + 1
               PROVE  data'[(nread + j - 1) % PIPESIZE] =
                        IF j = Used + 1 THEN b ELSE data[(nread + j - 1) % PIPESIZE]
    OBVIOUS
  <2>1. CASE j = Used + 1
    <3>1. nread + j - 1 = nread + Used
      BY <1>1, <1>2, <2>1
    <3> QED BY Zenon, <1>1, <1>4, <1>6, <2>1, <3>1 DEF TypeOK
  <2>2. CASE j \in 1 .. Used
    <3>1. j # Used + 1
      BY <1>2, <2>2
    <3> QED BY <1>1, <1>5, <1>6, <2>2, <3>1 DEF TypeOK
  <2> QED BY <1>2, <2>1, <2>2
<1>8. Contents' = [j \in 1 .. Used + 1 |-> IF j = Used + 1 THEN b ELSE data[(nread + j - 1) % PIPESIZE]]
  BY Zenon, <1>1, <1>3, <1>7 DEF Contents
<1>9. Contents = [j \in 1 .. Used |-> data[(nread + j - 1) % PIPESIZE]]
  BY DEF Contents, Used
<1>10. Contents \in Seq(Bytes) /\ Len(Contents) = Used
  BY ContentsType
<1>11. Contents' = Append(Contents, b)
  BY <1>2, <1>8, <1>9, <1>10
<1> QED BY <1>1, <1>2, <1>10, <1>11 DEF Queue!Put

LEMMA TailElements ==
  ASSUME NEW S, NEW s \in Seq(S), s # <<>>
  PROVE  Tail(s) = [j \in 1 .. Len(s) - 1 |-> s[j + 1]]
<1>1. Len(s) \in Nat /\ Len(s) # 0
  OBVIOUS
<1>2. Tail(s) \in Seq(S) /\ Len(Tail(s)) = Len(s) - 1
  BY <1>1
<1>3. \A j \in 1 .. Len(s) - 1 : Tail(s)[j] = s[j + 1]
  BY <1>1
<1>4. \A t \in Seq(S) : t = [j \in 1 .. Len(t) |-> t[j]]
  OBVIOUS
<1> QED BY Zenon, <1>2, <1>3, <1>4

LEMMA GetStep ==
  ASSUME PipeAssumption, TypeOK, TypeOK', NEW p \in Readers, Used <= PIPESIZE, ReadByte(p)
  PROVE  Queue!Get(p)
<1>1. /\ UINT \in Nat \ {0} /\ PIPESIZE \in Nat \ {0}
      /\ nread \in 0 .. UINT - 1 /\ nwrite \in 0 .. UINT - 1 /\ nread' \in 0 .. UINT - 1
      /\ nwrite' = nwrite
  BY DEF TypeOK, PipeAssumption, ReadByte
<1>2. /\ Used = IF nwrite >= nread THEN nwrite - nread ELSE nwrite - nread + UINT
      /\ Used \in 1 .. UINT - 1
  <2>1. Used # 0
    BY <1>1, RingFacts DEF ReadByte
  <2> QED BY <1>1, <2>1, RingFacts
<1>3. nread' = IF nread = UINT - 1 THEN 0 ELSE nread + 1
  BY <1>1, Counters DEF ReadByte
<1>4. (nwrite' - nread') % UINT = Used - 1
  <2>1. (nwrite - nread') % UINT = IF nwrite >= nread' THEN nwrite - nread' ELSE nwrite - nread' + UINT
    BY <1>1, Distance
  <2> QED BY <1>1, <1>2, <1>3, <2>1
<1>5. \A j \in 1 .. Used - 1 : (nread' + j - 1) % PIPESIZE = (nread + (j + 1) - 1) % PIPESIZE
  <2> SUFFICES ASSUME NEW j \in 1 .. Used - 1
               PROVE  (nread' + j - 1) % PIPESIZE = (nread + (j + 1) - 1) % PIPESIZE
    OBVIOUS
  <2>1. nread' + j - 1 \in Int
    BY <1>1, <1>2
  <2>2. \/ nread + (j + 1) - 1 = nread' + j - 1
        \/ nread + (j + 1) - 1 = (nread' + j - 1) + UINT
    <3>1. nread \in Int /\ nread' \in Int /\ UINT \in Int /\ j \in Int
      BY <1>1, <1>2
    <3> QED BY <1>3, <3>1
  <2> QED BY <2>1, <2>2, SameSlot
<1>6. Contents' = [j \in 1 .. Used - 1 |-> data[(nread + (j + 1) - 1) % PIPESIZE]]
  BY Zenon, <1>1, <1>4, <1>5 DEF Contents, ReadByte
<1>7. Contents = [j \in 1 .. Used |-> data[(nread + j - 1) % PIPESIZE]]
  BY DEF Contents, Used
<1>8. Contents \in Seq(Bytes) /\ Len(Contents) = Used
  BY ContentsType
<1>9. Contents # <<>> /\ Contents' = Tail(Contents)
  <2>1. Contents # <<>>
    BY <1>2, <1>8
  <2>2. Tail(Contents) = [j \in 1 .. Used - 1 |-> Contents[j + 1]]
    BY <1>8, <2>1, TailElements
  <2>3. \A j \in 1 .. Used - 1 : Contents[j + 1] = data[(nread + (j + 1) - 1) % PIPESIZE]
    BY <1>2, <1>7
  <2> QED BY <1>6, <2>1, <2>2, <2>3
<1>10. Head(Contents) = data[nread % PIPESIZE]
  <2>1. nread + 1 - 1 = nread
    BY <1>1
  <2> QED BY <1>2, <1>7, <1>8, <1>9, <2>1
<1> QED BY Zenon, <1>9, <1>10 DEF Queue!Get, ReadByte

\* A step that leaves the ring alone leaves the queue alone.
LEMMA QuietStep ==
  ASSUME UNCHANGED <<ring, addr>>
  PROVE  UNCHANGED Queue!vars
BY DEF ring, Queue!vars, Contents

\* The ring buffer of struct pipe, filled by pipewrite() and drained by piperead()
\* with counters that wrap around, is a queue of at most PIPESIZE bytes.
THEOREM PipeIsAQueue ==
  ASSUME PipeAssumption
  PROVE  PipeSpec => BytesInOrder
<1>1. PipeInit => Queue!Init
  <2> SUFFICES ASSUME PipeInit PROVE Queue!Init
    OBVIOUS
  <2>1. TypeOK /\ nread = 0 /\ nwrite = 0
    BY Zenon, InitInv DEF Inv, PipeInit
  <2>2. Used = 0
    BY <2>1, RingFacts DEF TypeOK, Empty
  <2> QED BY <2>1, <2>2, ContentsType DEF Queue!Init, TypeOK
<1>2. Inv /\ [PipeNext]_pipevars => [Queue!Next]_(Queue!vars)
  <2> SUFFICES ASSUME Inv, [PipeNext]_pipevars PROVE [Queue!Next]_(Queue!vars)
    OBVIOUS
  <2>1. TypeOK /\ TypeOK' /\ Used <= PIPESIZE
    BY TypeStep DEF Inv
  <2>2. ASSUME NEW p \in Writers, NEW b \in Bytes, WriteByte(p, b) PROVE Queue!Next
    BY <2>1, <2>2, PutStep DEF Queue!Next
  <2>3. ASSUME NEW p \in Readers, ReadByte(p) PROVE Queue!Next
    BY <2>1, <2>3, GetStep DEF Queue!Next
  <2>4. ASSUME NEW p \in Callers,
               \/ Acquire(p) \/ Sleep(p) \/ PipeClose(p) \/ Close(p) \/ \E m \in Counts : Call(p, m)
               \/ WriteFull(p) \/ WriteDone(p) \/ ReadEmpty(p) \/ ReadDone(p)
        PROVE  UNCHANGED Queue!vars
    <3>1. UNCHANGED <<ring, addr>>
      BY <2>4 DEF Acquire, Sleep, PipeClose, Close, Call, WriteFull, WriteDone, ReadEmpty, ReadDone, Return
    <3> QED BY SMTT(30), <3>1, QuietStep
  <2>5. ASSUME NEW p \in Killable, Kill(p) PROVE UNCHANGED Queue!vars
    BY <2>5, QuietStep DEF Kill
  <2>6. CASE UNCHANGED pipevars
    BY <2>6, QuietStep DEF pipevars, ring
  <2> QED BY <2>2, <2>3, <2>4, <2>5, <2>6 DEF PipeNext, Step, Callers
<1> QED BY <1>1, <1>2, InvInvariant, PTL DEF PipeSpec, BytesInOrder, Queue!Spec

=============================================================================
