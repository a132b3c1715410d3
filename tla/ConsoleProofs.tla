--------------------------- MODULE ConsoleProofs ----------------------------
(***************************************************************************)
(* Every step of Console preserves the invariant of ConsoleKernel, with    *)
(* and without debug=1; from it, mutual exclusion and no lost wakeup.      *)
(* Then the ring of struct input, which implements LineEditor.             *)
(***************************************************************************)
EXTENDS ConsoleKernel

NextDebug == Next \/ \E c \in CPUs : Printed(c) \/ DispatchPrinted(c)

LEMMA StutterInv ==
  ASSUME KernelInv, UNCHANGED <<spinvars, on, pc, hpc, state, saved>>
  PROVE  KernelInv'
<1>1. UNCHANGED <<locked, lkcpu, ncli, intena, fl, spin, panicked>>
  BY Zenon DEF spinvars
<1>2. SpinTypeOK' /\ ThreadType' /\ PlaceInv' /\ ParkInv' /\ LockInv' /\ ~panicked'
  BY Zenon, <1>1 DEF KernelInv, SpinTypeOK, ThreadType, PlaceInv, ParkInv, LockInv
<1>3. \A c \in CPUs : CpuInv(c)'
  BY Zenon, <1>1, CpuFrame DEF KernelInv
<1> QED BY Zenon, <1>2, <1>3 DEF KernelInv

LEMMA SameState ==
  ASSUME KernelInv, state' = state
  PROVE  OnlyWoken
BY Zenon DEF OnlyWoken, KernelInv, ThreadType

LEMMA KernelInit == Init => KernelInv
<1> SUFFICES ASSUME Init PROVE KernelInv
  BY Zenon
<1>1. ~panicked /\ SpinTypeOK /\ LockInv
  <2>1. SpinTypeOK
    <3>1. ncli \in [CPUs -> Int]
      BY DEF Init, SpinInit
    <3>2. /\ locked \in [Locks -> BOOLEAN] /\ intena \in [CPUs -> BOOLEAN]
          /\ fl \in [CPUs -> BOOLEAN] /\ panicked \in BOOLEAN
      BY Zenon DEF Init, SpinInit
    <3>3. lkcpu \in [Locks -> CPUs \cup {None}] /\ spin \in [CPUs -> Locks \cup {None}]
      BY Zenon DEF Init, SpinInit
    <3> QED BY Zenon, <3>1, <3>2, <3>3 DEF SpinTypeOK
  <2>2. \A lk \in Locks : locked[lk] = FALSE /\ lkcpu[lk] = None
    BY Zenon DEF Init, SpinInit
  <2>3. ~panicked
    BY Zenon DEF Init, SpinInit
  <2> QED BY Zenon, <2>1, <2>2, <2>3 DEF LockInv
<1>2. ThreadType
  BY Zenon, ConsoleAssumption DEF Init, ThreadType, Threads, ProcLabels, LoopLabels, States
<1>3. PlaceInv
  BY Zenon, ConsoleAssumption DEF Init, PlaceInv, Threads, ProcLabels, LoopLabels
<1>4. ParkInv
  BY Zenon, ConsoleAssumption DEF Init, ParkInv, Threads
<1>5. ASSUME NEW c \in CPUs PROVE CpuInv(c)
  <2>1. Cur(on[c]) = "sti" /\ hpc[on[c]] = None
    BY Zenon, ConsoleAssumption DEF Init, Cur, Threads
  <2>2. HeldAt("sti") = {} /\ Depth({}) = 0
    BY Zenon, HeldFacts, DepthFacts DEF Unlocked
  <2>3. ncli[c] = 0 /\ spin[c] = None /\ ~fl[c] /\ \A lk \in Locks : lkcpu[lk] = None
    BY Zenon DEF Init, SpinInit
  <2> QED BY <2>1, <2>2, <2>3, SpinAssumption DEF CpuInv
<1> QED BY Zenon, <1>1, <1>2, <1>3, <1>4, <1>5 DEF KernelInv

LEMMA SimpleUnlocks ==
  ASSUME KernelInv, NEW c \in CPUs,
         \/ Back(c) \/ ForkRet(c) \/ Yielded(c) \/ SleepUnlock(c) \/ SleepBack(c)
         \/ Dumped(c) \/ Printed(c)
  PROVE  KernelInv'
<1>1. ASSUME Back(c) PROVE KernelInv'
  <2>1. /\ Unlock(c, "back", "ptable", "sti") /\ Cur(on[c]) = "back"
        /\ UNCHANGED <<on, state, saved>>
    BY Zenon, <1>1 DEF Back, Unlock, InLabel
  <2>2. Legal(c, "sti")
    BY Zenon, <2>1, LegalCur DEF Legal, ProcLabels, LoopLabels, KeyLabels, TrapLabels
  <2>3. HeldAt("back") = {"ptable"} /\ HeldAt("sti") = {}
    BY Zenon, HeldFacts DEF Unlocked, ConsOnly, PtableOnly, Both
  <2> QED BY Zenon, <2>1, <2>2, <2>3, SameState, UnlockInv
<1>2. ASSUME ForkRet(c) PROVE KernelInv'
  <2>1. /\ Unlock(c, "forkret", "ptable", "user") /\ Cur(on[c]) = "forkret"
        /\ UNCHANGED <<on, state, saved>>
    BY Zenon, <1>2 DEF ForkRet, Unlock, InLabel
  <2>2. Legal(c, "user")
    BY Zenon, <2>1, LegalCur DEF Legal, ProcLabels, LoopLabels, KeyLabels, TrapLabels
  <2>3. HeldAt("forkret") = {"ptable"} /\ HeldAt("user") = {}
    BY Zenon, HeldFacts DEF Unlocked, ConsOnly, PtableOnly, Both
  <2> QED BY Zenon, <2>1, <2>2, <2>3, SameState, UnlockInv
<1>3. ASSUME Yielded(c) PROVE KernelInv'
  <2>1. /\ Unlock(c, "yielded", "ptable", "iret") /\ Cur(on[c]) = "yielded"
        /\ UNCHANGED <<on, state, saved>>
    BY Zenon, <1>3 DEF Yielded, Unlock, InLabel
  <2>2. Legal(c, "iret")
    BY Zenon, <2>1, LegalCur DEF Legal, ProcLabels, LoopLabels, KeyLabels, TrapLabels
  <2>3. HeldAt("yielded") = {"ptable"} /\ HeldAt("iret") = {}
    BY Zenon, HeldFacts DEF Unlocked, ConsOnly, PtableOnly, Both
  <2> QED BY Zenon, <2>1, <2>2, <2>3, SameState, UnlockInv
<1>4. ASSUME SleepUnlock(c) PROVE KernelInv'
  <2>1. /\ Unlock(c, "unlock", "cons", "block") /\ Cur(on[c]) = "unlock"
        /\ UNCHANGED <<on, state, saved>>
    BY Zenon, <1>4 DEF SleepUnlock, Unlock, InLabel
  <2>2. Legal(c, "block")
    BY Zenon, <2>1, LegalCur DEF Legal, ProcLabels, LoopLabels, KeyLabels, TrapLabels
  <2>3. HeldAt("unlock") = {"cons", "ptable"} /\ HeldAt("block") = {"ptable"}
    BY Zenon, HeldFacts DEF Unlocked, ConsOnly, PtableOnly, Both
  <2> QED BY Zenon, <2>1, <2>2, <2>3, SameState, UnlockInv
<1>5. ASSUME SleepBack(c) PROVE KernelInv'
  <2>1. /\ Unlock(c, "wake", "ptable", "read") /\ Cur(on[c]) = "wake"
        /\ UNCHANGED <<on, state, saved>>
    BY Zenon, <1>5 DEF SleepBack, Unlock, InLabel
  <2>2. Legal(c, "read")
    BY Zenon, <2>1, LegalCur DEF Legal, ProcLabels, LoopLabels, KeyLabels, TrapLabels
  <2>3. HeldAt("wake") = {"ptable"} /\ HeldAt("read") = {}
    BY Zenon, HeldFacts DEF Unlocked, ConsOnly, PtableOnly, Both
  <2> QED BY Zenon, <2>1, <2>2, <2>3, SameState, UnlockInv
<1>6. ASSUME Dumped(c) PROVE KernelInv'
  <2>1. /\ Unlock(c, "dumped", "cons", "iret") /\ Cur(on[c]) = "dumped"
        /\ UNCHANGED <<on, state, saved>>
    BY Zenon, <1>6 DEF Dumped, Unlock, InLabel
  <2>2. Legal(c, "iret")
    BY Zenon, <2>1, LegalCur DEF Legal, ProcLabels, LoopLabels, KeyLabels, TrapLabels
  <2>3. HeldAt("dumped") = {"cons"} /\ HeldAt("iret") = {}
    BY Zenon, HeldFacts DEF Unlocked, ConsOnly, PtableOnly, Both
  <2> QED BY Zenon, <2>1, <2>2, <2>3, SameState, UnlockInv
<1>7. ASSUME Printed(c) PROVE KernelInv'
  <2>1. /\ Unlock(c, "debugged", "cons", "chosen") /\ Cur(on[c]) = "debugged"
        /\ UNCHANGED <<on, state, saved>>
    BY Zenon, <1>7 DEF Printed, Unlock, InLabel
  <2>2. Legal(c, "chosen")
    BY Zenon, <2>1, LegalCur DEF Legal, ProcLabels, LoopLabels, KeyLabels, TrapLabels
  <2>3. HeldAt("debugged") = {"cons", "ptable"} /\ HeldAt("chosen") = {"ptable"}
    BY Zenon, HeldFacts DEF Unlocked, ConsOnly, PtableOnly, Both
  <2> QED BY Zenon, <2>1, <2>2, <2>3, SameState, UnlockInv
<1> QED BY Zenon, <1>1, <1>2, <1>3, <1>4, <1>5, <1>6, <1>7

LEMMA OtherUnlocks ==
  ASSUME KernelInv, NEW c \in CPUs,
         \/ Leave(c) \/ KillNobody(c) \/ (\E v \in Killable : Kill(c, v))
         \/ Notify(c) \/ KeysDone(c)
  PROVE  KernelInv'
<1> DEFINE k == UserOr(c)
<1>1. k \in {"exit", "user"} /\ HeldAt(k) = {} /\ k # "back"
  BY Zenon, HeldFacts DEF UserOr, Unlocked
<1>2. HeldAt("leave") = {"cons"} /\ HeldAt("mark") = {"ptable"}
  BY Zenon, HeldFacts DEF ConsOnly, PtableOnly
<1>3. \A l \in {"leave", "mark"} : Legal(c, l) => Legal(c, k)
  BY Zenon, <1>1 DEF Legal, ProcLabels, LoopLabels, KeyLabels, TrapLabels
<1>4. ASSUME Leave(c) PROVE KernelInv'
  <2>1. /\ Unlock(c, "leave", "cons", k) /\ Cur(on[c]) = "leave"
        /\ UNCHANGED <<on, state, saved>>
    BY Zenon, <1>4 DEF Leave, Unlock, InLabel
  <2>2. Legal(c, k)
    BY Zenon, <1>3, <2>1, LegalCur
  <2> QED BY Zenon, <1>1, <1>2, <2>1, <2>2, SameState, UnlockInv
<1>5. ASSUME KillNobody(c) \/ \E v \in Killable : Kill(c, v) PROVE KernelInv'
  <2>1. /\ Unlock(c, "mark", "ptable", k) /\ Cur(on[c]) = "mark"
        /\ UNCHANGED <<on, saved>>
    BY Zenon, <1>5 DEF KillNobody, Kill, Unlock, InLabel
  <2>2. Legal(c, k)
    BY Zenon, <1>3, <2>1, LegalCur
  <2>3. OnlyWoken
    BY Zenon, <1>5 DEF KillNobody, Kill, OnlyWoken, KernelInv, ThreadType, States
  <2> QED BY Zenon, <1>1, <1>2, <2>1, <2>2, <2>3, UnlockInv
<1>6. ASSUME Notify(c) PROVE KernelInv'
  <2>1. /\ Unlock(c, "notified", "ptable", "getc") /\ Cur(on[c]) = "notified"
        /\ UNCHANGED <<on, saved>>
    BY Zenon, <1>6 DEF Notify, Unlock, InLabel
  <2>2. Legal(c, "getc")
    BY Zenon, <2>1, LegalCur DEF Legal, ProcLabels, LoopLabels, KeyLabels, TrapLabels
  <2>3. OnlyWoken
    BY Zenon, <1>6 DEF Notify, OnlyWoken, KernelInv, ThreadType, States
  <2>4. HeldAt("notified") = {"cons", "ptable"} /\ HeldAt("getc") = {"cons"}
    BY Zenon, HeldFacts DEF ConsOnly, Both
  <2> QED BY Zenon, <2>1, <2>2, <2>3, <2>4, UnlockInv
<1>7. ASSUME KeysDone(c) PROVE KernelInv'
  <2> DEFINE m == IF doprocdump THEN "dump" ELSE "iret"
  <2>1. /\ Unlock(c, "getc", "cons", m) /\ Cur(on[c]) = "getc"
        /\ UNCHANGED <<on, state, saved>>
    BY Zenon, <1>7 DEF KeysDone, Unlock, InLabel
  <2>2. m \in {"dump", "iret"}
    BY Zenon
  <2>3. HeldAt("getc") = {"cons"} /\ HeldAt(m) = {} /\ m # "back"
    BY Zenon, <2>2, HeldFacts DEF ConsOnly, Unlocked
  <2>4. Legal(c, m)
    BY Zenon, <2>1, <2>2, LegalCur DEF Legal, ProcLabels, LoopLabels, KeyLabels, TrapLabels
  <2> HIDE DEF m
  <2> QED BY Zenon, <2>1, <2>3, <2>4, SameState, UnlockInv
<1> QED BY Zenon, <1>4, <1>5, <1>6, <1>7

LEMMA YieldInv ==
  ASSUME KernelInv, NEW c \in CPUs, Yield(c)
  PROVE  KernelInv' /\ Cur(on[c])' = "back" /\ OthersStay(c)
<1>1. InLabel(c, "yield") /\ Sched(c, "RUNNABLE", "yielded") /\ Cur(on[c]) = "yield"
  BY Zenon DEF Yield, InLabel
<1>2. on[c] \in Procs /\ hpc[on[c]] # None /\ Legal(c, "yielded")
  BY Zenon, <1>1, LegalCur DEF Legal, ProcLabels, LoopLabels, KeyLabels, TrapLabels
<1>3. HeldAt("yield") = {"ptable"} /\ "RUNNABLE" \in States
  BY Zenon, HeldFacts DEF PtableOnly, States
<1> QED BY Zenon, <1>1, <1>2, <1>3, SchedInv

LEMMA ExitInv ==
  ASSUME KernelInv, NEW c \in CPUs, Exit(c)
  PROVE  KernelInv' /\ Cur(on[c])' = "back" /\ OthersStay(c)
<1>1. InLabel(c, "zombie") /\ Sched(c, "ZOMBIE", "dead") /\ Cur(on[c]) = "zombie"
  BY Zenon DEF Exit, InLabel
<1>2. on[c] \in Procs /\ Legal(c, "dead")
  BY Zenon, <1>1, LegalCur DEF Legal, ProcLabels, LoopLabels, KeyLabels, TrapLabels
<1>3. HeldAt("zombie") = {"ptable"} /\ "ZOMBIE" \in States
  BY Zenon, HeldFacts DEF PtableOnly, States
<1> QED BY Zenon, <1>1, <1>2, <1>3, SchedInv

LEMMA SleepSchedInv ==
  ASSUME KernelInv, NEW c \in CPUs, SleepSched(c)
  PROVE  KernelInv' /\ Cur(on[c])' = "back" /\ OthersStay(c)
<1>1. InLabel(c, "block") /\ Sched(c, "SLEEPING", "wake") /\ Cur(on[c]) = "block"
  BY Zenon DEF SleepSched, InLabel
<1>2. on[c] \in Procs /\ hpc[on[c]] = None /\ Legal(c, "wake")
  BY Zenon, <1>1, LegalCur DEF Legal, ProcLabels, LoopLabels, KeyLabels, TrapLabels
<1>3. HeldAt("block") = {"ptable"} /\ "SLEEPING" \in States
  BY Zenon, HeldFacts DEF PtableOnly, States
<1> QED BY Zenon, <1>1, <1>2, <1>3, SchedInv

\* scheduler() with its choice.
LEMMA PickInv ==
  ASSUME KernelInv, NEW c \in CPUs, Pick(c) \/ DispatchPrinted(c)
  PROVE  KernelInv'
<1>1. ASSUME Pick(c) PROVE KernelInv'
  <2>1. InLabel(c, "pick") /\ Cur(on[c]) = "pick"
    BY Zenon, <1>1 DEF Pick, InLabel
  <2>2. Legal(c, "sti") /\ Legal(c, "debug")
    BY Zenon, <2>1, LegalCur DEF Legal, ProcLabels, LoopLabels, KeyLabels, TrapLabels
  <2>3. HeldAt("pick") = {"ptable"} /\ HeldAt("debug") = {"ptable"} /\ HeldAt("sti") = {}
    BY Zenon, HeldFacts DEF PtableOnly, Unlocked
  <2>4. CASE Runnable = {}
    <3>1. Unlock(c, "pick", "ptable", "sti") /\ UNCHANGED <<on, state, saved>>
      BY Zenon, <1>1, <2>4 DEF Pick, Unlock
    <3> QED BY Zenon, <2>2, <2>3, <3>1, SameState, UnlockInv
  <2>5. CASE Runnable # {} /\ DEBUG
    <3>1. Goto(c, "debug") /\ UNCHANGED <<spinvars, on, state, saved>>
      BY Zenon, <1>1, <2>5 DEF Pick
    <3> QED BY Zenon, <2>1, <2>2, <2>3, <3>1, SameState, MoveInv
  <2>6. CASE Runnable # {} /\ ~DEBUG
    BY Zenon, <1>1, <2>1, <2>6, DispatchInv DEF Pick
  <2> QED BY Zenon, <2>4, <2>5, <2>6
<1>2. ASSUME DispatchPrinted(c) PROVE KernelInv'
  BY Zenon, <1>2, DispatchInv DEF DispatchPrinted
<1> QED BY Zenon, <1>1, <1>2

LEMMA Interrupts ==
  ASSUME KernelInv, KeyInterrupt \/ \E c \in CPUs : Timer(c)
  PROVE  KernelInv'
<1>1. \A k \in {"kbd", "tick", "exit"} : k \in TrapLabels /\ HeldAt(k) = {}
  BY Zenon, HeldFacts DEF Unlocked, TrapLabels, KeyLabels
<1>2. ASSUME KeyInterrupt PROVE KernelInv'
  BY Zenon, <1>1, <1>2, InterruptInv, ConsoleAssumption DEF KeyInterrupt, KeyLabels
<1>3. ASSUME NEW c \in CPUs, Timer(c) PROVE KernelInv'
  <2> DEFINE k == IF Stopped(on[c]) THEN "exit" ELSE "tick"
  <2>1. on[c] \in Procs /\ Interrupt(c, k) /\ k \in {"exit", "tick"}
    BY Zenon, <1>3 DEF Timer
  <2> HIDE DEF k
  <2> QED BY Zenon, <1>1, <2>1, InterruptInv
<1> QED BY Zenon, <1>2, <1>3

\* Steps of a system call or of consoleintr() between two lock operations.
LEMMA Moves ==
  ASSUME KernelInv, NEW c \in CPUs,
         \/ (\E k \in Counts : CallRead(c, k)) \/ CallOther(c)
         \/ ReadWait(c) \/ ReadTake(c) \/ Key(c)
  PROVE  KernelInv'
<1>1. /\ \A l \in {"user", "read", "write", "kill", "exit"} : HeldAt(l) = {}
      /\ \A l \in {"fill", "sleep", "leave", "getc", "notify"} : HeldAt(l) = {"cons"}
  BY Zenon, HeldFacts DEF Unlocked, ConsOnly
<1>2. ASSUME NEW l \in {"read", "write", "kill"}, Call(c, l) PROVE KernelInv'
  <2> DEFINE k == IF killed[on[c]] THEN "exit" ELSE l
  <2>1. /\ InLabel(c, "user") /\ Cur(on[c]) = "user" /\ Goto(c, k)
        /\ k \in {"exit", "read", "write", "kill"}
        /\ UNCHANGED <<spinvars, on, state, saved>>
    BY Zenon, <1>2 DEF Call, InLabel
  <2>2. Legal(c, k)
    BY Zenon, <2>1, LegalCur DEF Legal, ProcLabels, LoopLabels, KeyLabels, TrapLabels
  <2> HIDE DEF k
  <2> QED BY Zenon, <1>1, <2>1, <2>2, SameState, MoveInv
<1>3. ASSUME ReadWait(c) \/ ReadTake(c) PROVE KernelInv'
  <2>1. PICK k \in {"leave", "sleep", "fill"} : Goto(c, k)
    BY Zenon, <1>3 DEF ReadWait, ReadTake
  <2>2. /\ InLabel(c, "fill") /\ Cur(on[c]) = "fill"
        /\ UNCHANGED <<spinvars, on, state, saved>>
    BY Zenon, <1>3 DEF ReadWait, ReadTake, InLabel
  <2>3. Legal(c, k)
    BY Zenon, <2>2, LegalCur DEF Legal, ProcLabels, LoopLabels, KeyLabels, TrapLabels
  <2> QED BY Zenon, <1>1, <2>1, <2>2, <2>3, SameState, MoveInv
<1>4. ASSUME Key(c) PROVE KernelInv'
  <2>1. /\ InLabel(c, "getc") /\ Cur(on[c]) = "getc"
        /\ UNCHANGED <<spinvars, on, state, saved>>
    BY <1>4 DEF Key, InLabel
  <2>2. Goto(c, "notify") \/ UNCHANGED <<pc, hpc>>
    BY Zenon, <1>4 DEF Key, Put, Backspace, KillLine
  <2>3. Legal(c, "notify")
    BY Zenon, <2>1, LegalCur DEF Legal, ProcLabels, LoopLabels, KeyLabels, TrapLabels
  <2>4. ASSUME Goto(c, "notify") PROVE KernelInv'
    <3>1. PICK k : k = "notify"
      BY Zenon
    <3>2. Goto(c, k) /\ Legal(c, k) /\ HeldAt(k) = HeldAt("getc") /\ k # "back"
      BY Zenon, <1>1, <2>3, <2>4, <3>1
    <3> QED BY Zenon, <2>1, <3>2, SameState, MoveInv
  <2> QED BY Zenon, <2>1, <2>2, <2>4, StutterInv
<1> QED BY Zenon, <1>2, <1>3, <1>4 DEF CallRead, CallOther

LEMMA KernelNext ==
  ASSUME KernelInv, [NextDebug]_vars
  PROVE  KernelInv'
<1>1. CASE UNCHANGED vars
  BY Zenon, <1>1, StutterInv DEF vars, spinvars, threads
<1>2. CASE KeyInterrupt
  BY Zenon, <1>2, Interrupts
<1>3. ASSUME NEW c \in CPUs,
             \/ Acquire(c) \/ Spin(c) \/ Timer(c) \/ EndTrap(c)
             \/ Sti(c) \/ Pick(c) \/ Back(c) \/ ForkRet(c)
             \/ Yield(c) \/ Yielded(c) \/ Exit(c)
             \/ KillNobody(c) \/ (\E v \in Killable : Kill(c, v))
             \/ (\E k \in Counts : CallRead(c, k))
             \/ CallOther(c)
             \/ ReadWait(c) \/ ReadTake(c) \/ Leave(c)
             \/ SleepUnlock(c) \/ SleepSched(c) \/ SleepBack(c)
             \/ Key(c) \/ Notify(c) \/ KeysDone(c) \/ Dumped(c)
             \/ Printed(c) \/ DispatchPrinted(c)
      PROVE  KernelInv'
  BY Zenon, <1>3, AcquireInv, SpinInv, EndTrapInv, StiInv, SimpleUnlocks, OtherUnlocks, YieldInv,
     ExitInv, SleepSchedInv, PickInv, Interrupts, Moves
<1> QED BY Zenon, <1>1, <1>2, <1>3 DEF NextDebug, Next

-----------------------------------------------------------------------------
(* Mutual exclusion *)

\* A lock is held by one CPU, which runs with interrupts off.
LEMMA HolderIsAlone ==
  ASSUME KernelInv, NEW c \in CPUs, NEW lk \in HeldAt(Cur(on[c]))
  PROVE  ~fl[c] /\ \A d \in CPUs : lk \in HeldAt(Cur(on[d])) => d = c
<1> DEFINE l == Cur(on[c])
<1>1. CpuInv(c) /\ \A d \in CPUs : CpuInv(d)
  BY Zenon DEF KernelInv
<1>2. lk \in Locks /\ HeldAt(l) # {}
  BY Zenon, HeldType, ConsoleAssumption
<1>3. Depth(HeldAt(l)) \in 1 .. 2
  <2>1. HeldAt(l) \subseteq {"cons", "ptable"}
    BY Zenon, HeldType
  <2>2. Depth(HeldAt(l)) \in 0 .. 2 /\ (Depth(HeldAt(l)) = 0 <=> HeldAt(l) = {})
    BY Zenon, <2>1, DepthFacts
  <2> QED BY <1>2, <2>2
<1>4. ~fl[c]
  BY <1>1, <1>3 DEF CpuInv
<1>5. \A d \in CPUs : lk \in HeldAt(Cur(on[d])) => lkcpu[lk] = d
  BY Zenon, <1>1, <1>2 DEF CpuInv
<1> QED BY Zenon, <1>4, <1>5

LEMMA KernelExclusion == KernelInv => Exclusion
<1> SUFFICES ASSUME KernelInv PROVE Exclusion
  BY Zenon
<1>1. ASSUME NEW c \in CPUs, Cur(on[c]) \in {"user", "read", "write", "kill"}, spin[c] = None
      PROVE  fl[c] /\ ncli[c] = 0
  <2>1. hpc[on[c]] = None
    BY Zenon, <1>1, LegalCur DEF Legal, KeyLabels, TrapLabels
  <2>2. HeldAt(Cur(on[c])) = {}
    BY Zenon, <1>1, HeldFacts DEF Unlocked
  <2>3. Depth(HeldAt(Cur(on[c]))) = 0
    BY Zenon, <2>2, DepthFacts
  <2> QED BY <1>1, <2>1, <2>3 DEF KernelInv, CpuInv
<1>2. \A c \in CPUs : hpc[on[c]] # None => ~fl[c]
  BY Zenon DEF KernelInv, CpuInv
<1>3. FlagFollowsThread
  BY Zenon, <1>1, <1>2 DEF FlagFollowsThread
<1> QED BY Zenon, <1>3, HolderIsAlone DEF Exclusion

-----------------------------------------------------------------------------
(* sleep() and wakeup() *)

Notifying == \E c \in CPUs : Cur(on[c]) \in {"notify", "notified"}

\* From the test of consoleread() to the release() of sleep() the ring stays
\* empty; from then on, until the process sleeps, ptable.lock keeps a wakeup()
\* that has become necessary from being over.
WaitInv ==
  /\ SleepIsWarranted
  /\ \A c \in CPUs : Cur(on[c]) \in {"sleep", "unlock"} => r = w
  /\ \A c \in CPUs : Cur(on[c]) = "block" => r = w \/ Notifying

\* A step of CPU c that leaves the indices alone.
LEMMA WaitKeep ==
  ASSUME WaitInv, NEW c \in CPUs, OthersStay(c), r' = r, w' = w,
         Cur(on[c])' \in {"sleep", "unlock"} => Cur(on[c]) \in {"sleep", "unlock"} \/ r = w,
         Cur(on[c])' = "block" => Cur(on[c]) \in {"unlock", "block"},
         Cur(on[c]) \in {"notify", "notified"} => Cur(on[c])' \in {"notify", "notified"},
         \A p \in Procs : state'[p] = "SLEEPING" => state[p] = "SLEEPING" \/ Cur(on[c]) = "block"
  PROVE  WaitInv'
<1>1. \A d \in CPUs \ {c} : Cur(on[d])' = Cur(on[d])
  BY Zenon DEF OthersStay
<1>2. Notifying => Notifying'
  <2> SUFFICES ASSUME NEW d \in CPUs, Cur(on[d]) \in {"notify", "notified"}
               PROVE  Cur(on[d])' \in {"notify", "notified"}
    BY Zenon DEF Notifying
  <2> QED BY Zenon, <1>1
<1>3. SleepIsWarranted'
  <2> SUFFICES ASSUME NEW p \in Procs, state'[p] = "SLEEPING" PROVE r' = w' \/ Notifying'
    BY Zenon DEF SleepIsWarranted, Notifying
  <2>1. r = w \/ Notifying
    BY Zenon DEF WaitInv, SleepIsWarranted, Notifying
  <2> QED BY Zenon, <1>2, <2>1
<1>4. (\A d \in CPUs : Cur(on[d]) \in {"sleep", "unlock"} => r = w)'
  <2> SUFFICES ASSUME NEW d \in CPUs, Cur(on[d])' \in {"sleep", "unlock"} PROVE r' = w'
    BY Zenon
  <2> QED BY Zenon, <1>1 DEF WaitInv
<1>5. (\A d \in CPUs : Cur(on[d]) = "block" => r = w \/ Notifying)'
  <2> SUFFICES ASSUME NEW d \in CPUs, Cur(on[d])' = "block" PROVE r' = w' \/ Notifying'
    BY Zenon
  <2>1. Cur(on[d]) \in {"unlock", "block"}
    BY Zenon, <1>1
  <2>2. r = w \/ Notifying
    BY Zenon, <2>1 DEF WaitInv
  <2> QED BY Zenon, <1>2, <2>2
<1> QED BY Zenon, <1>3, <1>4, <1>5 DEF WaitInv

\* A step of a thread that has nothing to do with sleep() or wakeup().
LEMMA QuietStep ==
  ASSUME KernelInv, WaitInv, NEW c \in CPUs, NEW l, NEW k, InLabel(c, l), Goto(c, k), k # None,
         on' = on, r' = r, w' = w, OnlyWoken,
         l \notin {"notify", "notified"}, k \notin {"sleep", "unlock", "block"}
  PROVE  WaitInv'
<1>1. Cur(on[c]) = l
  BY Zenon DEF InLabel
<1>2. Cur(on[c])' = k /\ OthersStay(c)
  BY Zenon, GotoLabels
<1>3. \A p \in Procs : state'[p] = "SLEEPING" => state[p] = "SLEEPING"
  BY Zenon DEF OnlyWoken
<1> QED BY Zenon, <1>1, <1>2, <1>3, WaitKeep

LEMMA QuietWait ==
  ASSUME KernelInv, WaitInv, NEW c \in CPUs,
         \/ Sti(c) \/ Back(c) \/ ForkRet(c) \/ Yielded(c) \/ SleepBack(c) \/ Dumped(c)
         \/ Printed(c) \/ Leave(c) \/ KillNobody(c) \/ (\E v \in Killable : Kill(c, v))
         \/ KeysDone(c) \/ (\E k \in Counts : CallRead(c, k)) \/ CallOther(c)
  PROVE  WaitInv'
<1>1. \E l \in {"sti", "back", "forkret", "yielded", "wake", "dumped", "debugged", "leave",
                "mark", "getc", "user"} : InLabel(c, l)
  BY Zenon DEF Sti, Back, ForkRet, Yielded, SleepBack, Dumped, Printed, Leave, KillNobody, Kill,
         KeysDone, CallRead, CallOther, Call, Unlock
<1>2. \E k \in {"idle", "sti", "user", "iret", "read", "chosen", "exit", "dump", "write", "kill"} :
        Goto(c, k)
  BY Zenon DEF Sti, Back, ForkRet, Yielded, SleepBack, Dumped, Printed, Leave, KillNobody, Kill,
         KeysDone, CallRead, CallOther, Call, Unlock, UserOr
<1>3. on' = on /\ r' = r /\ w' = w
  BY Zenon DEF Sti, Back, ForkRet, Yielded, SleepBack, Dumped, Printed, Leave, KillNobody, Kill,
         KeysDone, CallRead, CallOther, Call, input
<1>4. OnlyWoken
  <2>1. CASE state' = state
    BY Zenon, <2>1, SameState
  <2>2. CASE \E v \in Killable : Kill(c, v)
    BY Zenon, <2>2 DEF Kill, OnlyWoken, KernelInv, ThreadType, States
  <2> QED BY Zenon, <2>1, <2>2
       DEF Sti, Back, ForkRet, Yielded, SleepBack, Dumped, Printed, Leave, KillNobody,
           KeysDone, CallRead, CallOther, Call
<1> QED BY Zenon, <1>1, <1>2, <1>3, <1>4, QuietStep DEF None

\* Steps of acquire(), and the ones that change the thread on a CPU.
LEMMA SwitchWait ==
  ASSUME KernelInv, WaitInv, NEW c \in CPUs,
         \/ Acquire(c) \/ Spin(c) \/ EndTrap(c) \/ Yield(c) \/ Exit(c) \/ SleepSched(c)
         \/ Pick(c) \/ DispatchPrinted(c)
  PROVE  WaitInv'
<1>0. r' = r /\ w' = w
  BY Zenon DEF Acquire, Spin, EndTrap, Yield, Exit, SleepSched, Sched, Pick, DispatchPrinted, input
<1>1. ASSUME Acquire(c) PROVE WaitInv'
  <2>1. UNCHANGED <<on, pc, hpc, state>>
    BY Zenon, <1>1 DEF Acquire, threads
  <2>2. Cur(on[c])' = Cur(on[c]) /\ OthersStay(c)
    BY Zenon, <2>1 DEF Cur, OthersStay
  <2> QED BY Zenon, <1>0, <2>1, <2>2, WaitKeep
<1>2. ASSUME Spin(c) PROVE WaitInv'
  <2> DEFINE l == Cur(on[c])
             k == Afterwards[l]
  <2>1. l \in DOMAIN Afterwards
    BY Zenon, <1>2 DEF Spin, Xchg, KernelInv, CpuInv
  <2>2. /\ k # None /\ k \notin {"sleep", "block"} /\ (k = "unlock" => l = "sleep")
        /\ l # "notified" /\ (l = "notify" => k = "notified")
    BY Zenon, <2>1, NextLabel
  <2>3. Cur(on[c])' = k /\ OthersStay(c)
    BY Zenon, <1>2, <2>2, GotoLabels DEF Spin
  <2>4. state' = state
    BY Zenon, <1>2 DEF Spin
  <2> QED BY Zenon, <1>0, <2>2, <2>3, <2>4, WaitKeep
<1>3. ASSUME EndTrap(c) PROVE WaitInv'
  <2>1. HeldAt(Cur(on[c])') = {} /\ OthersStay(c)
    BY Zenon, <1>3, EndTrapInv DEF HeldAt
  <2>2. Cur(on[c])' \notin {"sleep", "unlock", "block"}
    BY Zenon, <2>1, HeldFacts DEF ConsOnly, PtableOnly, Both
  <2>3. Cur(on[c]) = "iret" /\ state' = state
    BY Zenon, <1>3 DEF EndTrap, InLabel
  <2> QED BY <1>0, <2>1, <2>2, <2>3, WaitKeep
<1>4. ASSUME NEW l \in {"yield", "zombie", "block"}, NEW st, NEW k, InLabel(c, l), Sched(c, st, k),
             st = "SLEEPING" => l = "block", Cur(on[c])' = "back", OthersStay(c)
      PROVE  WaitInv'
  <2>1. Cur(on[c]) = l
    BY Zenon, <1>4 DEF InLabel
  <2>2. \A p \in Procs : state'[p] = "SLEEPING" => state[p] = "SLEEPING" \/ l = "block"
    BY Zenon, <1>4 DEF Sched, threads, KernelInv, ThreadType
  <2> QED BY Zenon, <1>0, <1>4, <2>1, <2>2, WaitKeep
<1>5. ASSUME NEW l \in {"pick", "chosen"}, InLabel(c, l), Dispatch(c) PROVE WaitInv'
  <2>1. Cur(on[c])' \in {"wake", "forkret", "yielded"} /\ OthersStay(c)
    BY Zenon, <1>5, DispatchInv
  <2>2. Cur(on[c]) = l
    BY Zenon, <1>5 DEF InLabel
  <2>3. \A p \in Procs : state'[p] = "SLEEPING" => state[p] = "SLEEPING"
    BY Zenon, <1>5 DEF Dispatch, KernelInv, ThreadType
  <2> QED BY Zenon, <1>0, <2>1, <2>2, <2>3, WaitKeep
<1>6. ASSUME Yield(c) PROVE WaitInv'
  <2>1. Cur(on[c])' = "back" /\ OthersStay(c)
    BY Zenon, <1>6, YieldInv
  <2> QED BY Zenon, <1>4, <1>6, <2>1 DEF Yield
<1>7. ASSUME Exit(c) PROVE WaitInv'
  <2>1. Cur(on[c])' = "back" /\ OthersStay(c)
    BY Zenon, <1>7, ExitInv
  <2> QED BY Zenon, <1>4, <1>7, <2>1 DEF Exit
<1>8. ASSUME SleepSched(c) PROVE WaitInv'
  <2>1. Cur(on[c])' = "back" /\ OthersStay(c)
    BY Zenon, <1>8, SleepSchedInv
  <2> QED BY Zenon, <1>4, <1>8, <2>1 DEF SleepSched
<1>9. ASSUME Pick(c) PROVE WaitInv'
  <2>1. CASE Runnable # {} /\ ~DEBUG
    BY Zenon, <1>5, <1>9, <2>1 DEF Pick
  <2>2. CASE Runnable = {} \/ DEBUG
    <3>1. PICK k \in {"sti", "debug"} : Goto(c, k)
      BY Zenon, <1>9, <2>2 DEF Pick
    <3>2. InLabel(c, "pick") /\ on' = on /\ state' = state
      BY Zenon, <1>9, <2>2 DEF Pick
    <3> QED BY Zenon, <1>0, <3>1, <3>2, SameState, QuietStep DEF None
  <2> QED BY Zenon, <2>1, <2>2
<1>10. ASSUME DispatchPrinted(c) PROVE WaitInv'
  BY Zenon, <1>5, <1>10 DEF DispatchPrinted
<1> QED BY Zenon, <1>1, <1>2, <1>3, <1>6, <1>7, <1>8, <1>9, <1>10

LEMMA InterruptWait ==
  ASSUME KernelInv, WaitInv, KeyInterrupt \/ \E c \in CPUs : Timer(c)
  PROVE  WaitInv'
<1>1. \A k \in {"kbd", "tick", "exit"} : k \in TrapLabels /\ HeldAt(k) = {}
  BY Zenon, HeldFacts DEF Unlocked, TrapLabels, KeyLabels
<1>2. PICK c \in CPUs, k \in {"kbd", "tick", "exit"} :
        Interrupt(c, k) /\ (on[c] \in Procs \/ k \in KeyLabels)
  BY Zenon, ConsoleAssumption DEF KeyInterrupt, Timer, KeyLabels
<1>3. Cur(on[c])' = k /\ HeldAt(Cur(on[c])) = {} /\ OthersStay(c)
  BY Zenon, <1>1, <1>2, InterruptInv
<1>4. Cur(on[c]) \notin {"notify", "notified"}
  BY Zenon, <1>3, HeldFacts DEF ConsOnly, Both
<1>5. r' = r /\ w' = w /\ state' = state
  BY Zenon, <1>2 DEF Interrupt, input
<1> QED BY Zenon, <1>3, <1>4, <1>5, WaitKeep

\* The steps that hold cons.lock and read or write the indices.
LEMMA RingWait ==
  ASSUME KernelInv, WaitInv, NEW c \in CPUs,
         ReadWait(c) \/ ReadTake(c) \/ SleepUnlock(c) \/ Key(c) \/ Notify(c)
  PROVE  WaitInv'
<1>1. \A l \in {"fill", "getc", "notify", "notified", "sleep", "unlock"} : "cons" \in HeldAt(l)
  BY Zenon, HeldFacts DEF ConsOnly, Both
<1>2. \A l \in {"notified", "block"} : "ptable" \in HeldAt(l)
  BY Zenon, HeldFacts DEF PtableOnly, Both
<1>3. ASSUME ReadWait(c) PROVE WaitInv'
  <2>1. PICK k \in {"leave", "sleep"} : Goto(c, k)
    BY Zenon, <1>3 DEF ReadWait
  <2>2. Cur(on[c]) = "fill" /\ r = w /\ on' = on /\ state' = state /\ r' = r /\ w' = w
    BY Zenon, <1>3 DEF ReadWait, InLabel, input
  <2>3. Cur(on[c])' = k /\ OthersStay(c)
    BY Zenon, <2>1, <2>2, GotoLabels DEF None
  <2> QED BY Zenon, <2>1, <2>2, <2>3, WaitKeep
<1>4. ASSUME SleepUnlock(c) PROVE WaitInv'
  <2>1. /\ Cur(on[c]) = "unlock" /\ Goto(c, "block")
        /\ on' = on /\ state' = state /\ r' = r /\ w' = w
    BY Zenon, <1>4 DEF SleepUnlock, Unlock, InLabel, input
  <2>2. Cur(on[c])' = "block" /\ OthersStay(c)
    BY Zenon, <2>1, GotoLabels DEF None
  <2> QED BY Zenon, <2>1, <2>2, WaitKeep
<1>5. ASSUME Cur(on[c]) \in {"fill", "getc"}
      PROVE  ~Notifying /\ \A d \in CPUs : Cur(on[d]) \notin {"sleep", "unlock"}
  <2>1. \A d \in CPUs : "cons" \in HeldAt(Cur(on[d])) => d = c
    BY Zenon, <1>1, <1>5, HolderIsAlone
  <2> QED BY Zenon, <1>1, <1>5, <2>1 DEF Notifying
<1>6. ASSUME ReadTake(c) PROVE WaitInv'
  <2>1. PICK k \in {"leave", "fill"} : Goto(c, k)
    BY Zenon, <1>6 DEF ReadTake
  <2>2. Cur(on[c]) = "fill" /\ r # w /\ on' = on /\ state' = state
    BY Zenon, <1>6 DEF ReadTake, InLabel
  <2>3. Cur(on[c])' = k /\ OthersStay(c)
    BY Zenon, <2>1, <2>2, GotoLabels DEF None
  <2>4. ~Notifying /\ \A d \in CPUs : Cur(on[d]) \notin {"sleep", "unlock", "block"}
    BY Zenon, <1>5, <2>2 DEF WaitInv
  <2>5. \A p \in Procs : state'[p] # "SLEEPING"
    BY Zenon, <2>2, <2>4 DEF WaitInv, SleepIsWarranted, Notifying
  <2>6. \A d \in CPUs : Cur(on[d])' \notin {"sleep", "unlock", "block"}
    BY Zenon, <2>1, <2>3, <2>4 DEF OthersStay
  <2> QED BY Zenon, <2>5, <2>6 DEF WaitInv, SleepIsWarranted
<1>7. ASSUME Key(c) PROVE WaitInv'
  <2>1. Cur(on[c]) = "getc" /\ InLabel(c, "getc") /\ on' = on /\ state' = state /\ r' = r
    BY ZenonT(30), <1>7 DEF Key, InLabel, Put, Backspace, KillLine, input
  <2>2. (w' = w /\ pc' = pc /\ hpc' = hpc) \/ Goto(c, "notify")
    BY <1>7 DEF Key, Put, Backspace, KillLine, input
  <2>3. CASE w' = w /\ pc' = pc /\ hpc' = hpc
    <3>1. Cur(on[c])' = Cur(on[c]) /\ OthersStay(c)
      BY <2>1, <2>3 DEF Cur, OthersStay
    <3> QED BY Zenon, <2>1, <2>3, <3>1, WaitKeep
  <2>4. CASE Goto(c, "notify")
    <3>1. Cur(on[c])' = "notify" /\ OthersStay(c)
      BY Zenon, <2>1, <2>4, GotoLabels DEF None
    <3>2. Notifying'
      BY Zenon, <3>1 DEF Notifying
    <3>3. \A d \in CPUs : Cur(on[d])' \notin {"sleep", "unlock"}
      BY Zenon, <1>5, <2>1, <3>1 DEF OthersStay
    <3> QED BY Zenon, <3>2, <3>3 DEF WaitInv, SleepIsWarranted, Notifying
  <2> QED BY Zenon, <2>2, <2>3, <2>4
<1>8. ASSUME Notify(c) PROVE WaitInv'
  <2>1. /\ Cur(on[c]) = "notified" /\ Goto(c, "getc") /\ on' = on
        /\ state' = [p \in Procs |-> IF state[p] = "SLEEPING" THEN "RUNNABLE" ELSE state[p]]
    BY Zenon, <1>8 DEF Notify, Unlock, InLabel
  <2>2. Cur(on[c])' = "getc" /\ OthersStay(c)
    BY Zenon, <2>1, GotoLabels DEF None
  <2>3. \A d \in CPUs \ {c} : "cons" \notin HeldAt(Cur(on[d])) /\ "ptable" \notin HeldAt(Cur(on[d]))
    BY Zenon, <1>1, <1>2, <2>1, HolderIsAlone
  <2>4. \A d \in CPUs : Cur(on[d])' \notin {"sleep", "unlock", "block"}
    BY Zenon, <1>1, <1>2, <2>2, <2>3 DEF OthersStay
  <2>5. \A p \in Procs : state'[p] # "SLEEPING"
    BY Zenon, <2>1
  <2> QED BY Zenon, <2>4, <2>5 DEF WaitInv, SleepIsWarranted
<1> QED BY Zenon, <1>3, <1>4, <1>6, <1>7, <1>8

LEMMA WaitInit == Init => WaitInv
<1> SUFFICES ASSUME Init PROVE WaitInv
  OBVIOUS
<1>1. \A c \in CPUs : Cur(on[c]) = "sti"
  BY Zenon, ConsoleAssumption DEF Init, Cur, Threads
<1>2. r = w
  BY Zenon DEF Init
<1> QED BY Zenon, <1>1, <1>2 DEF WaitInv, SleepIsWarranted

LEMMA WaitNext ==
  ASSUME KernelInv, WaitInv, [NextDebug]_vars
  PROVE  WaitInv'
<1>1. CASE UNCHANGED vars
  <2>1. UNCHANGED <<on, pc, hpc, state, r, w>>
    BY Zenon, <1>1 DEF vars, threads, input
  <2>2. \A c \in CPUs : Cur(on[c])' = Cur(on[c])
    BY Zenon, <2>1 DEF Cur
  <2> QED BY Zenon, <2>1, <2>2 DEF WaitInv, SleepIsWarranted, Notifying
<1>2. CASE KeyInterrupt
  BY Zenon, <1>2, InterruptWait
<1>3. ASSUME NEW c \in CPUs,
             \/ Acquire(c) \/ Spin(c) \/ Timer(c) \/ EndTrap(c)
             \/ Sti(c) \/ Pick(c) \/ Back(c) \/ ForkRet(c)
             \/ Yield(c) \/ Yielded(c) \/ Exit(c)
             \/ KillNobody(c) \/ (\E v \in Killable : Kill(c, v))
             \/ (\E k \in Counts : CallRead(c, k))
             \/ CallOther(c)
             \/ ReadWait(c) \/ ReadTake(c) \/ Leave(c)
             \/ SleepUnlock(c) \/ SleepSched(c) \/ SleepBack(c)
             \/ Key(c) \/ Notify(c) \/ KeysDone(c) \/ Dumped(c)
             \/ Printed(c) \/ DispatchPrinted(c)
      PROVE  WaitInv'
  BY Zenon, <1>3, QuietWait, SwitchWait, InterruptWait, RingWait
<1> QED BY Zenon, <1>1, <1>2, <1>3 DEF NextDebug, Next

-----------------------------------------------------------------------------
(* Theorems *)

\* With and without debug=1, whatever the CPUs and processes do.
LEMMA Inductive == SpecDebug => [](KernelInv /\ WaitInv)
<1>1. Init => KernelInv /\ WaitInv
  BY Zenon, KernelInit, WaitInit
<1>2. KernelInv /\ WaitInv /\ [NextDebug]_vars => (KernelInv /\ WaitInv)'
  BY Zenon, KernelNext, WaitNext
<1> QED BY <1>1, <1>2, PTL DEF SpecDebug, NextDebug

LEMMA DebugIncludes == Spec => SpecDebug
<1>1. [Next]_vars => [Next \/ \E c \in CPUs : Printed(c) \/ DispatchPrinted(c)]_vars
  BY Zenon
<1> QED BY <1>1, PTL DEF Spec, SpecDebug

\* No step of the console, the scheduler or an interrupt handler makes acquire(),
\* release(), popcli() or sched() panic.
THEOREM NeverPanics == Spec => []NoPanic
<1>1. KernelInv => NoPanic
  BY Zenon DEF KernelInv, NoPanic
<1> QED BY <1>1, Inductive, DebugIncludes, PTL

\* Between acquire() and release() a CPU is alone and takes no interrupt, and
\* every thread gets its own interrupt flag back.
THEOREM MutualExclusion == Spec => []Exclusion
BY KernelExclusion, Inductive, DebugIncludes, PTL

\* A process never sleeps in consoleread() while there is something to read,
\* unless the wakeup() is on its way.
THEOREM NoLostWakeup == Spec => []SleepIsWarranted
<1>1. WaitInv => SleepIsWarranted
  BY Zenon DEF WaitInv
<1> QED BY <1>1, Inductive, DebugIncludes, PTL

\* The same holds of a kernel built with debug=1, which may deadlock but neither
\* panics nor breaks mutual exclusion.
THEOREM DebugIsSafe == SpecDebug => [](NoPanic /\ Exclusion /\ SleepIsWarranted)
<1>1. KernelInv /\ WaitInv => NoPanic /\ Exclusion /\ SleepIsWarranted
  BY Zenon, KernelExclusion DEF KernelInv, NoPanic, WaitInv
<1> QED BY <1>1, Inductive, PTL

-----------------------------------------------------------------------------
(* Remainders *)

LEMMA ModDef ==
  ASSUME NEW a \in Int, NEW m \in Nat \ {0}
  PROVE  /\ a % m \in 0 .. m - 1 /\ a \div m \in Int
         /\ a = m * (a \div m) + (a % m)
OBVIOUS

LEMMA ModUnique ==
  ASSUME NEW m \in Nat \ {0}, NEW q \in Int, NEW y \in 0 .. m - 1, NEW a \in Int, a = m * q + y
  PROVE  a % m = y
<1> DEFINE k == a \div m
           s == a % m
<1>1. s \in 0 .. m - 1 /\ k \in Int /\ a = m * k + s
  BY Zenon, ModDef
<1> HIDE DEF k, s
<1>2. m * (k - q) = y - s
  BY <1>1
<1>3. k - q = 0
  <2>1. ASSUME k - q >= 1 PROVE FALSE
    <3>1. m * (k - q) >= m
      BY <1>1, <2>1
    <3> QED BY <1>1, <1>2, <3>1
  <2>2. ASSUME k - q <= -1 PROVE FALSE
    <3>1. m * (k - q) <= -m
      BY <1>1, <2>2
    <3> QED BY <1>1, <1>2, <3>1
  <2> QED BY <1>1, <2>1, <2>2
<1> QED BY <1>1, <1>2, <1>3 DEF s

LEMMA ModShift ==
  ASSUME NEW m \in Nat \ {0}, NEW a \in Int, NEW u \in Int, u % m = 0
  PROVE  (a + u) % m = a % m
<1> DEFINE q == (a \div m) + (u \div m)
           y == a % m
           b == a + u
<1>1. q \in Int /\ y \in 0 .. m - 1 /\ b \in Int
  BY ModDef
<1>2. b = m * q + y
  BY ModDef
<1> HIDE DEF q, y, b
<1>3. b % m = y
  BY <1>1, <1>2, ModUnique
<1> QED BY Zenon, <1>3 DEF y, b

LEMMA ModDiffers ==
  ASSUME NEW m \in Nat \ {0}, NEW a \in Int, NEW d \in 1 .. m - 1
  PROVE  (a + d) % m # a % m
<1> DEFINE k == a \div m
           s == a % m
           q == IF s + d >= m THEN k + 1 ELSE k
           y == IF s + d >= m THEN s + d - m ELSE s + d
           b == a + d
<1>1. s \in 0 .. m - 1 /\ k \in Int /\ a = m * k + s
  BY Zenon, ModDef
<1> HIDE DEF k, s
<1>2. q \in Int /\ y \in 0 .. m - 1 /\ b \in Int /\ y # s
  BY <1>1
<1>3. m * (k + 1) = m * k + m
  BY <1>1
<1>4. b = m * q + y
  BY <1>1, <1>3
<1> HIDE DEF q, y, b
<1>5. b % m = y
  BY <1>2, <1>4, ModUnique
<1> QED BY Zenon, <1>2, <1>5 DEF b, s

\* One turn past the range, or one before it.
LEMMA ModWrap ==
  ASSUME NEW m \in Nat \ {0}, NEW a \in Int
  PROVE  /\ a \in 0 .. m - 1 => a % m = a
         /\ a \in m .. 2 * m - 1 => a % m = a - m
         /\ a \in -m .. -1 => a % m = a + m
<1>1. ASSUME a \in 0 .. m - 1 PROVE a % m = a
  BY <1>1, a = m * 0 + a, ModUnique
<1>2. ASSUME a \in m .. 2 * m - 1 PROVE a % m = a - m
  BY <1>2, a = m * 1 + (a - m), ModUnique
<1>3. ASSUME a \in -m .. -1 PROVE a % m = a + m
  BY <1>3, a = m * (-1) + (a + m), ModUnique
<1> QED BY Zenon, <1>1, <1>2, <1>3


-----------------------------------------------------------------------------
(* The ring of struct input *)

\* What Typed() is of, with the ring as a parameter.
Stored(b, x, ch) == [b EXCEPT ![x % INPUT_BUF] = ch]
Window(b, x, m) == [k \in 1 .. m |-> b[(x + k - 1) % INPUT_BUF]]
Chars == Keys \cup {"nl", "nul"}
Ring == [0 .. INPUT_BUF - 1 -> Chars]

LEMMA SameSequence ==
  ASSUME NEW C, NEW s \in Seq(C), NEW t \in Seq(C), Len(s) = Len(t),
         \A k \in 1 .. Len(s) : s[k] = t[k]
  PROVE  s = t
<1>1. \A z \in Seq(C) : z = [k \in 1 .. Len(z) |-> z[k]]
  OBVIOUS
<1>2. s = [k \in 1 .. Len(s) |-> s[k]] /\ t = [k \in 1 .. Len(s) |-> t[k]]
  BY Zenon, <1>1
<1> QED BY Zenon, <1>2

LEMMA WindowType ==
  ASSUME NEW b \in Ring, NEW x \in Int, NEW m \in Nat
  PROVE  Window(b, x, m) \in Seq(Chars) /\ Len(Window(b, x, m)) = m
<1>1. ASSUME NEW k \in 1 .. m PROVE (x + k - 1) % INPUT_BUF \in 0 .. INPUT_BUF - 1
  BY ModDef, ConsoleAssumption
<1>2. Window(b, x, m) \in [1 .. m -> Chars]
  BY Zenon, <1>1 DEF Window, Ring
<1> QED BY <1>2

\* An index that has wrapped around names the same slot.
LEMMA WindowWraps ==
  ASSUME NEW b, NEW x \in Int, NEW m \in Nat
  PROVE  Window(b, x + UINT, m) = Window(b, x, m)
<1>1. ASSUME NEW k \in 1 .. m
      PROVE  ((x + UINT) + k - 1) % INPUT_BUF = (x + k - 1) % INPUT_BUF
  <2>1. x + k - 1 \in Int /\ (x + UINT) + k - 1 = (x + k - 1) + UINT
    BY ConsoleAssumption
  <2>2. ((x + k - 1) + UINT) % INPUT_BUF = (x + k - 1) % INPUT_BUF
    <3>1. INPUT_BUF \in Nat \ {0} /\ UINT \in Int /\ UINT % INPUT_BUF = 0
      BY ConsoleAssumption
    <3> QED BY Zenon, <2>1, <3>1, ModShift
  <2> QED BY Zenon, <2>1, <2>2
<1> QED BY Zenon, <1>1 DEF Window

LEMMA WindowJoin ==
  ASSUME NEW b \in Ring, NEW x \in Int, NEW m \in Nat, NEW l \in Nat
  PROVE  Window(b, x, m) \o Window(b, x + m, l) = Window(b, x, m + l)
<1> DEFINE s == Window(b, x, m)
           t == Window(b, x + m, l)
           z == Window(b, x, m + l)
<1>1. s \in Seq(Chars) /\ Len(s) = m /\ t \in Seq(Chars) /\ Len(t) = l /\ z \in Seq(Chars) /\ Len(z) = m + l
  BY WindowType
<1>2. \A k \in 1 .. m : s[k] = z[k]
  BY DEF Window
<1>3. ASSUME NEW k \in 1 .. l PROVE t[k] = z[m + k]
  <2>1. (x + m) + k - 1 = x + (m + k) - 1
    OBVIOUS
  <2> QED BY <2>1 DEF Window
<1> HIDE DEF s, t, z
<1>4. s \o t \in Seq(Chars) /\ Len(s \o t) = m + l
  BY <1>1
<1>5. ASSUME NEW k \in 1 .. (m + l) PROVE (s \o t)[k] = z[k]
  <2>1. CASE k <= m
    BY <1>1, <1>2, <2>1
  <2>2. CASE k > m
    <3>1. k - m \in 1 .. l /\ m + (k - m) = k
      BY <2>2
    <3>2. (s \o t)[k] = t[k - m]
      BY <1>1, <2>2
    <3>3. t[k - m] = z[m + (k - m)]
      BY Zenon, <1>3, <3>1
    <3> QED BY Zenon, <3>1, <3>2, <3>3
  <2>3. k <= m \/ k > m
    OBVIOUS
  <2> QED BY Zenon, <2>1, <2>2, <2>3
<1>6. s \o t = z
  BY Zenon, <1>1, <1>4, <1>5, SameSequence
<1> QED BY Zenon, <1>6 DEF s, t, z

LEMMA WindowPrefix ==
  ASSUME NEW b \in Ring, NEW x \in Int, NEW m \in Nat, NEW l \in 0 .. m
  PROVE  SubSeq(Window(b, x, m), 1, l) = Window(b, x, l)
<1> DEFINE s == Window(b, x, m)
<1>1. s \in Seq(Chars) /\ Len(s) = m
  BY Zenon, WindowType
<1>2. SubSeq(s, 1, l) = [k \in 1 .. l |-> s[k]]
  BY <1>1
<1>3. \A k \in 1 .. l : s[k] = b[(x + k - 1) % INPUT_BUF]
  BY DEF Window
<1> HIDE DEF s
<1> QED BY Zenon, <1>2, <1>3 DEF Window, s

LEMMA WindowTail ==
  ASSUME NEW b \in Ring, NEW x \in Int, NEW m \in Nat \ {0}
  PROVE  Tail(Window(b, x, m)) = Window(b, x + 1, m - 1)
<1> DEFINE s == Window(b, x, m)
<1>1. s \in Seq(Chars) /\ Len(s) = m
  BY Zenon, WindowType
<1>2. s[1] = b[x % INPUT_BUF]
  BY x + 1 - 1 = x DEF Window
<1>3. ASSUME NEW k \in 1 .. m - 1 PROVE s[k + 1] = b[((x + 1) + k - 1) % INPUT_BUF]
  <2>1. x + (k + 1) - 1 = (x + 1) + k - 1 /\ k + 1 \in 1 .. m
    OBVIOUS
  <2> QED BY Zenon, <2>1 DEF Window
<1> HIDE DEF s
<1>4. Tail(s) = [k \in 1 .. m - 1 |-> s[k + 1]]
  <2>1. Tail(s) \in Seq(Chars) /\ Len(Tail(s)) = m - 1
    BY <1>1
  <2>2. \A k \in 1 .. m - 1 : Tail(s)[k] = s[k + 1]
    BY <1>1
  <2>3. \A t \in Seq(Chars) : t = [k \in 1 .. Len(t) |-> t[k]]
    OBVIOUS
  <2> QED BY Zenon, <2>1, <2>2, <2>3
<1> QED BY Zenon, <1>3, <1>4 DEF Window, s

\* A character behind the window leaves the window alone, and makes it longer.
LEMMA WindowPut ==
  ASSUME NEW b \in Ring, NEW x \in Int, NEW m \in 0 .. INPUT_BUF - 1, NEW ch \in Chars
  PROVE  /\ Stored(b, x + m, ch) \in Ring
         /\ \A l \in 0 .. m : Window(Stored(b, x + m, ch), x, l) = Window(b, x, l)
         /\ Window(Stored(b, x + m, ch), x, m + 1) = Append(Window(b, x, m), ch)
<1> DEFINE a == Stored(b, x + m, ch)
<1>0. a = [b EXCEPT ![(x + m) % INPUT_BUF] = ch]
  BY Zenon DEF Stored
<1> HIDE DEF a
<1>1. INPUT_BUF \in Nat \ {0} /\ (x + m) % INPUT_BUF \in 0 .. INPUT_BUF - 1
  BY ModDef, ConsoleAssumption
<1>2. a \in Ring
  BY Zenon, <1>0, <1>1 DEF Ring
<1>3. ASSUME NEW k \in 1 .. m PROVE a[(x + k - 1) % INPUT_BUF] = b[(x + k - 1) % INPUT_BUF]
  <2>1. x + k - 1 \in Int /\ m - k + 1 \in 1 .. INPUT_BUF - 1 /\ (x + k - 1) + (m - k + 1) = x + m
    BY <1>1
  <2>2. ((x + k - 1) + (m - k + 1)) % INPUT_BUF # (x + k - 1) % INPUT_BUF
    BY Zenon, <1>1, <2>1, ModDiffers
  <2>3. (x + k - 1) % INPUT_BUF \in 0 .. INPUT_BUF - 1
    BY Zenon, <1>1, <2>1, ModDef
  <2> QED BY <1>0, <2>1, <2>2, <2>3 DEF Ring
<1>4. ASSUME NEW l \in 0 .. m PROVE Window(a, x, l) = Window(b, x, l)
  <2>1. \A k \in 1 .. l : k \in 1 .. m
    OBVIOUS
  <2> QED BY Zenon, <1>3, <2>1 DEF Window
<1>5. Window(a, x, m + 1) = Append(Window(b, x, m), ch)
  <2> DEFINE s == Window(b, x, m)
             z == Window(a, x, m + 1)
  <2>1. s \in Seq(Chars) /\ Len(s) = m /\ z \in Seq(Chars) /\ Len(z) = m + 1
    BY <1>2, WindowType
  <2>2. \A k \in 1 .. m : z[k] = s[k]
    BY <1>3 DEF Window
  <2>3. z[m + 1] = ch
    BY <1>0, <1>1, x + (m + 1) - 1 = x + m DEF Window, Ring
  <2> HIDE DEF s, z
  <2>4. Append(s, ch) \in Seq(Chars) /\ Len(Append(s, ch)) = m + 1
    BY <2>1
  <2>5. \A k \in 1 .. m + 1 : Append(s, ch)[k] = z[k]
    BY <2>1, <2>2, <2>3
  <2>6. z = Append(s, ch)
    BY Zenon, <2>1, <2>4, <2>5, SameSequence
  <2> QED BY Zenon, <2>6 DEF s, z
<1> QED BY Zenon, <1>2, <1>4, <1>5 DEF a

-----------------------------------------------------------------------------
(* The refinement of LineEditor *)

Line == Typed(w, Minus(e, w))
Queue == Typed(r, Minus(w, r))

\* The indices of input are unsigned, at most INPUT_BUF apart, and in order; the
\* line that may be edited holds no newline, so that ^U removes all of it.
InputInv ==
  /\ r \in 0 .. UINT - 1 /\ w \in 0 .. UINT - 1 /\ e \in 0 .. UINT - 1
  /\ buf \in Ring
  /\ Minus(w, r) + Minus(e, w) <= INPUT_BUF
  /\ \A k \in 1 .. Minus(e, w) : Line[k] # "nl"

\* Unsigned subtraction, also as one that goes back.
LEMMA Distance ==
  ASSUME NEW x \in 0 .. UINT - 1, NEW y \in 0 .. UINT - 1
  PROVE  /\ Minus(y, x) = IF y >= x THEN y - x ELSE y - x + UINT
         /\ Minus(y, x) \in 0 .. UINT - 1
<1>1. UINT \in Nat \ {0} /\ y - x \in Int /\ y - x \in -UINT .. UINT - 1
  BY ConsoleAssumption
<1>2. Minus(y, x) = IF y >= x THEN y - x ELSE y - x + UINT
  <2>1. CASE y >= x
    BY <1>1, <2>1, y - x \in 0 .. UINT - 1, ModWrap DEF Minus
  <2>2. CASE ~(y >= x)
    <3>1. y - x \in -UINT .. -1
      BY <1>1, <2>2
    <3> QED BY Zenon, <1>1, <2>2, <3>1, ModWrap DEF Minus
  <2> QED BY Zenon, <2>1, <2>2
<1> QED BY <1>1, <1>2

LEMMA Successor ==
  ASSUME NEW x \in 0 .. UINT - 1
  PROVE  (x + 1) % UINT = (IF x = UINT - 1 THEN 0 ELSE x + 1) /\ (x + 1) % UINT \in 0 .. UINT - 1
<1>1. UINT \in Nat \ {0} /\ x + 1 \in Int /\ x + 1 \in 0 .. 2 * UINT - 1
  BY ConsoleAssumption
<1>2. (x + 1) % UINT = IF x = UINT - 1 THEN 0 ELSE x + 1
  BY <1>1, ModWrap
<1> QED BY <1>1, <1>2

LEMMA InputFacts ==
  ASSUME InputInv
  PROVE  /\ INPUT_BUF \in Nat \ {0} /\ UINT \in Nat \ {0} /\ UINT > INPUT_BUF
         /\ Minus(w, r) \in 0 .. INPUT_BUF /\ Minus(e, w) \in 0 .. INPUT_BUF
         /\ w = r + Minus(w, r) \/ r + Minus(w, r) = w + UINT
         /\ e = w + Minus(e, w) \/ w + Minus(e, w) = e + UINT
         /\ Minus(e, r) = Minus(w, r) + Minus(e, w)
         /\ Queue = Window(buf, r, Minus(w, r)) /\ Line = Window(buf, w, Minus(e, w))
         /\ Queue \in Seq(Chars) /\ Len(Queue) = Minus(w, r)
         /\ Line \in Seq(Chars) /\ Len(Line) = Minus(e, w)
<1>1. INPUT_BUF \in Nat \ {0} /\ UINT \in Nat \ {0} /\ UINT > INPUT_BUF
  BY ConsoleAssumption
<1>2. /\ r \in 0 .. UINT - 1 /\ w \in 0 .. UINT - 1 /\ e \in 0 .. UINT - 1
      /\ buf \in Ring /\ Minus(w, r) + Minus(e, w) <= INPUT_BUF
  BY Zenon DEF InputInv
<1>3. /\ Minus(w, r) = IF w >= r THEN w - r ELSE w - r + UINT
      /\ Minus(e, w) = IF e >= w THEN e - w ELSE e - w + UINT
      /\ Minus(e, r) = IF e >= r THEN e - r ELSE e - r + UINT
      /\ Minus(w, r) \in 0 .. UINT - 1 /\ Minus(e, w) \in 0 .. UINT - 1
  BY Zenon, <1>2, Distance
<1>4. Minus(w, r) \in 0 .. INPUT_BUF /\ Minus(e, w) \in 0 .. INPUT_BUF
  BY <1>1, <1>2, <1>3
<1>5. /\ w = r + Minus(w, r) \/ r + Minus(w, r) = w + UINT
      /\ e = w + Minus(e, w) \/ w + Minus(e, w) = e + UINT
      /\ Minus(e, r) = Minus(w, r) + Minus(e, w)
  BY <1>1, <1>2, <1>3
<1>6. Queue = Window(buf, r, Minus(w, r)) /\ Line = Window(buf, w, Minus(e, w))
  BY Zenon DEF Queue, Line, Typed, Window
<1>7. /\ Queue \in Seq(Chars) /\ Len(Queue) = Minus(w, r)
      /\ Line \in Seq(Chars) /\ Len(Line) = Minus(e, w)
  <2>1. r \in Int /\ w \in Int /\ Minus(w, r) \in Nat /\ Minus(e, w) \in Nat
    BY <1>1, <1>2, <1>4
  <2> QED BY Zenon, <1>2, <1>6, <2>1, WindowType
<1> QED BY Zenon, <1>1, <1>4, <1>5, <1>6, <1>7

\* The slots behind the queue are the ones of the line; behind both is the slot
\* of e.
LEMMA Slots ==
  ASSUME InputInv
  PROVE  /\ \A m \in Nat : Window(buf, r + Minus(w, r), m) = Window(buf, w, m)
         /\ (w + Minus(e, w)) % INPUT_BUF = e % INPUT_BUF
         /\ (r + Minus(e, r)) % INPUT_BUF = e % INPUT_BUF
         /\ Queue \o Line = Window(buf, r, Minus(e, r))
<1>1. /\ r \in Int /\ w \in Int /\ e \in Int /\ buf \in Ring /\ UINT \in Int
      /\ Minus(w, r) \in Nat /\ Minus(e, w) \in Nat
      /\ INPUT_BUF \in Nat \ {0} /\ UINT % INPUT_BUF = 0
  BY InputFacts, ConsoleAssumption DEF InputInv
<1>2. ASSUME NEW m \in Nat PROVE Window(buf, r + Minus(w, r), m) = Window(buf, w, m)
  <2>1. Window(buf, w + UINT, m) = Window(buf, w, m)
    BY Zenon, <1>1, WindowWraps
  <2>2. r + Minus(w, r) = w \/ r + Minus(w, r) = w + UINT
    BY Zenon, InputFacts
  <2> QED BY Zenon, <2>1, <2>2
<1>3. (w + Minus(e, w)) % INPUT_BUF = e % INPUT_BUF
  <2>1. (e + UINT) % INPUT_BUF = e % INPUT_BUF
    BY Zenon, <1>1, ModShift
  <2>2. w + Minus(e, w) = e \/ w + Minus(e, w) = e + UINT
    BY Zenon, InputFacts
  <2> QED BY Zenon, <2>1, <2>2
<1>4. (r + Minus(e, r)) % INPUT_BUF = e % INPUT_BUF
  <2>1. r + Minus(e, r) = w + Minus(e, w) \/ r + Minus(e, r) = (w + Minus(e, w)) + UINT
    <3>1. Minus(e, r) = Minus(w, r) + Minus(e, w)
      BY Zenon, InputFacts
    <3>2. w = r + Minus(w, r) \/ r + Minus(w, r) = w + UINT
      BY Zenon, InputFacts
    <3> QED BY <1>1, <3>1, <3>2
  <2>2. ((w + Minus(e, w)) + UINT) % INPUT_BUF = (w + Minus(e, w)) % INPUT_BUF
    <3>1. w + Minus(e, w) \in Int
      BY <1>1
    <3> QED BY Zenon, <1>1, <3>1, ModShift
  <2> QED BY Zenon, <1>3, <2>1, <2>2
<1>5. Queue \o Line = Window(buf, r, Minus(e, r))
  <2>1. Window(buf, r, Minus(w, r)) \o Window(buf, r + Minus(w, r), Minus(e, w))
          = Window(buf, r, Minus(w, r) + Minus(e, w))
    <3>1. \A b \in Ring : \A x \in Int : \A m, l \in Nat :
            Window(b, x, m) \o Window(b, x + m, l) = Window(b, x, m + l)
      BY Zenon, WindowJoin
    <3>2. buf \in Ring /\ r \in Int /\ Minus(w, r) \in Nat /\ Minus(e, w) \in Nat
      BY Zenon, <1>1
    <3> QED BY Zenon, <3>1, <3>2
  <2> QED BY Zenon, <1>1, <1>2, <2>1, InputFacts
<1> QED BY Zenon, <1>2, <1>3, <1>4, <1>5

LEMMA AppendJoin ==
  ASSUME NEW s \in Seq(Chars), NEW t \in Seq(Chars), NEW ch \in Chars
  PROVE  Append(s \o t, ch) = s \o Append(t, ch)
<1>1. /\ Append(s \o t, ch) \in Seq(Chars) /\ Len(Append(s \o t, ch)) = Len(s) + Len(t) + 1
      /\ s \o Append(t, ch) \in Seq(Chars) /\ Len(s \o Append(t, ch)) = Len(s) + Len(t) + 1
  OBVIOUS
<1>2. ASSUME NEW k \in 1 .. Len(s) + Len(t) + 1
      PROVE  Append(s \o t, ch)[k] = (s \o Append(t, ch))[k]
  OBVIOUS
<1> QED BY Zenon, <1>1, <1>2, SameSequence

\* The indices after a character has been put into the ring.
LEMMA PutIndices ==
  ASSUME InputInv, NEW c, NEW ch, Put(c, ch)
  PROVE  /\ r' = r /\ e' \in 0 .. UINT - 1
         /\ Minus(e, r) \in 0 .. INPUT_BUF - 1 /\ Minus(e, w) \in 0 .. INPUT_BUF - 1
         /\ Minus(e', r) = Minus(e, r) + 1 /\ Minus(e', w) = Minus(e, w) + 1
         /\ Minus(e', e') = 0
         /\ e' = (r + INPUT_BUF) % UINT <=> Minus(e, r) + 1 = INPUT_BUF
<1>1. /\ r \in 0 .. UINT - 1 /\ w \in 0 .. UINT - 1 /\ e \in 0 .. UINT - 1
      /\ INPUT_BUF \in Nat \ {0} /\ UINT \in Nat \ {0} /\ UINT > INPUT_BUF
      /\ Minus(w, r) \in 0 .. INPUT_BUF /\ Minus(e, w) \in 0 .. INPUT_BUF
      /\ Minus(e, r) = Minus(w, r) + Minus(e, w)
  BY Zenon, InputFacts DEF InputInv
<1>2. r' = r /\ Minus(e, r) < INPUT_BUF /\ e' = (e + 1) % UINT
  BY Zenon DEF Put
<1>3. e' = (IF e = UINT - 1 THEN 0 ELSE e + 1) /\ e' \in 0 .. UINT - 1
  BY Zenon, <1>1, <1>2, Successor
<1>4. /\ Minus(e, r) = IF e >= r THEN e - r ELSE e - r + UINT
      /\ Minus(e, w) = IF e >= w THEN e - w ELSE e - w + UINT
      /\ Minus(e', r) = IF e' >= r THEN e' - r ELSE e' - r + UINT
      /\ Minus(e', w) = IF e' >= w THEN e' - w ELSE e' - w + UINT
      /\ Minus(e', e') = IF e' >= e' THEN e' - e' ELSE e' - e' + UINT
  BY Zenon, <1>1, <1>3, Distance
<1>5. Minus(e, r) \in 0 .. INPUT_BUF - 1 /\ Minus(e, w) \in 0 .. INPUT_BUF - 1
  BY <1>1, <1>2
<1>6. /\ Minus(e', r) = Minus(e, r) + 1 /\ Minus(e', w) = Minus(e, w) + 1
      /\ Minus(e', e') = 0
  BY <1>1, <1>3, <1>4, <1>5
<1>7. (r + INPUT_BUF) % UINT = IF r + INPUT_BUF < UINT THEN r + INPUT_BUF
                               ELSE r + INPUT_BUF - UINT
  <2>1. r + INPUT_BUF \in Int /\ UINT \in Nat \ {0}
    BY <1>1
  <2>2. CASE r + INPUT_BUF < UINT
    <3>1. r + INPUT_BUF \in 0 .. UINT - 1
      BY <1>1, <2>2
    <3> QED BY Zenon, <2>1, <2>2, <3>1, ModWrap
  <2>3. CASE ~(r + INPUT_BUF < UINT)
    <3>1. r + INPUT_BUF \in UINT .. 2 * UINT - 1
      BY <1>1, <2>3
    <3>2. (r + INPUT_BUF) % UINT = (r + INPUT_BUF) - UINT
      BY Zenon, <2>1, <3>1, ModWrap
    <3> QED BY <1>1, <2>3, <3>2
  <2> QED BY Zenon, <2>2, <2>3
<1>8. e' = (r + INPUT_BUF) % UINT <=> Minus(e, r) + 1 = INPUT_BUF
  BY <1>1, <1>3, <1>4, <1>7
<1> QED BY Zenon, <1>2, <1>3, <1>5, <1>6, <1>8

LEMMA PutTypes ==
  ASSUME InputInv, NEW c, NEW ch \in Chars, Put(c, ch)
  PROVE  InputInv' /\ Editor!Type(ch)
<1>1. /\ r \in 0 .. UINT - 1 /\ w \in 0 .. UINT - 1 /\ e \in 0 .. UINT - 1
      /\ r \in Int /\ w \in Int /\ buf \in Ring /\ UINT \in Nat /\ INPUT_BUF \in Nat
  BY ConsoleAssumption DEF InputInv
<1>2. /\ r' = r /\ e' \in 0 .. UINT - 1
      /\ Minus(e, r) \in 0 .. INPUT_BUF - 1 /\ Minus(e, w) \in 0 .. INPUT_BUF - 1
      /\ Minus(e', r) = Minus(e, r) + 1 /\ Minus(e', w) = Minus(e, w) + 1
      /\ Minus(e', e') = 0
      /\ e' = (r + INPUT_BUF) % UINT <=> Minus(e, r) + 1 = INPUT_BUF
  BY Zenon, PutIndices
<1>3. /\ Queue = Window(buf, r, Minus(w, r)) /\ Line = Window(buf, w, Minus(e, w))
      /\ Queue \in Seq(Chars) /\ Len(Queue) = Minus(w, r)
      /\ Line \in Seq(Chars) /\ Len(Line) = Minus(e, w)
      /\ Minus(e, r) = Minus(w, r) + Minus(e, w) /\ Minus(w, r) \in 0 .. Minus(e, r)
  <2>1. Minus(e, r) = Minus(w, r) + Minus(e, w) /\ Minus(w, r) \in 0 .. INPUT_BUF
    BY Zenon, InputFacts
  <2> QED BY <1>1, <1>2, <2>1, InputFacts
<1>a. \A x \in Int : \A m \in 0 .. INPUT_BUF - 1 :
        /\ Stored(buf, x + m, ch) \in Ring
        /\ \A l \in 0 .. m : Window(Stored(buf, x + m, ch), x, l) = Window(buf, x, l)
        /\ Window(Stored(buf, x + m, ch), x, m + 1) = Append(Window(buf, x, m), ch)
  BY Zenon, <1>1, WindowPut
<1>4. /\ buf' \in Ring
      /\ Window(buf', r, Minus(w, r)) = Queue
      /\ Window(buf', r, Minus(e, r) + 1) = Append(Queue \o Line, ch)
  <2>1. buf' = Stored(buf, r + Minus(e, r), ch)
    BY Zenon, Slots DEF Put, Stored
  <2>2. /\ buf' \in Ring
        /\ \A l \in 0 .. Minus(e, r) : Window(buf', r, l) = Window(buf, r, l)
        /\ Window(buf', r, Minus(e, r) + 1) = Append(Window(buf, r, Minus(e, r)), ch)
    BY Zenon, <1>1, <1>2, <1>a, <2>1
  <2>3. Queue \o Line = Window(buf, r, Minus(e, r))
    BY Zenon, Slots
  <2> QED BY Zenon, <1>3, <2>2, <2>3
<1>5. Window(buf', w, Minus(e, w) + 1) = Append(Line, ch)
  <2>1. buf' = Stored(buf, w + Minus(e, w), ch)
    BY Zenon, Slots DEF Put, Stored
  <2>2. Window(buf', w, Minus(e, w) + 1) = Append(Window(buf, w, Minus(e, w)), ch)
    BY Zenon, <1>1, <1>2, <1>a, <2>1
  <2> QED BY Zenon, <1>3, <2>2
<1>6. Line' = Window(buf', w', Minus(e', w')) /\ Queue' = Window(buf', r', Minus(w', r'))
  BY Zenon DEF Line, Queue, Typed, Window, Minus
<1>b. Editor!Type(ch) <=>
        /\ Len(Line) + Len(Queue) < INPUT_BUF
        /\ IF ch \in {"nl", "eof"} \/ Len(Line) + Len(Queue) + 1 = INPUT_BUF
           THEN Line' = <<>> /\ Queue' = Queue \o Append(Line, ch)
           ELSE Line' = Append(Line, ch) /\ Queue' = Queue
  BY Zenon DEF Editor!Type, Editor!Room, Line, Queue
<1>c. Len(Line) + Len(Queue) = Minus(e, r) /\ Minus(e, r) < INPUT_BUF
  BY <1>1, <1>2, <1>3
<1>7. CASE ch \in {"nl", "eof"} \/ Minus(e, r) + 1 = INPUT_BUF
  <2>1. w' = e'
    BY Zenon, <1>2, <1>7 DEF Put
  <2>2. Line' = <<>>
    BY <1>2, <1>6, <2>1 DEF Window
  <2>3. Queue' = Queue \o Append(Line, ch)
    <3>1. Queue' = Append(Queue \o Line, ch)
      BY Zenon, <1>2, <1>4, <1>6, <2>1
    <3>2. Append(Queue \o Line, ch) = Queue \o Append(Line, ch)
      <4>1. \A s, t \in Seq(Chars) : Append(s \o t, ch) = s \o Append(t, ch)
        BY Zenon, AppendJoin
      <4> QED BY Zenon, <1>3, <4>1
    <3> QED BY Zenon, <3>1, <3>2
  <2>4. InputInv'
    BY <1>1, <1>2, <1>4, <2>1 DEF InputInv
  <2> QED BY Zenon, <1>b, <1>c, <1>7, <2>2, <2>3, <2>4
<1>8. CASE ~(ch \in {"nl", "eof"} \/ Minus(e, r) + 1 = INPUT_BUF)
  <2>1. w' = w
    BY Zenon, <1>2, <1>8 DEF Put
  <2>2. Line' = Append(Line, ch) /\ Queue' = Queue
    BY Zenon, <1>2, <1>4, <1>5, <1>6, <2>1
  <2>3. \A k \in 1 .. Minus(e, w) + 1 : Append(Line, ch)[k] # "nl"
    <3>1. \A k \in 1 .. Minus(e, w) : Line[k] # "nl"
      BY Zenon DEF InputInv
    <3> QED BY <1>3, <1>8, <3>1
  <2>4. InputInv'
    <3>1. Minus(w', r') + Minus(e', w') <= INPUT_BUF
      BY <1>1, <1>2, <1>3, <2>1
    <3>2. \A k \in 1 .. Minus(e', w') : Line'[k] # "nl"
      BY Zenon, <1>2, <2>1, <2>2, <2>3
    <3> QED BY Zenon, <1>1, <1>2, <1>4, <2>1, <3>1, <3>2 DEF InputInv
  <2> QED BY Zenon, <1>b, <1>c, <1>8, <2>2, <2>4
<1> QED BY Zenon, <1>7, <1>8

\* Going back in the line: the last d characters are dropped.
LEMMA GoBack ==
  ASSUME InputInv, NEW d \in 0 .. Minus(e, w), e' = Minus(e, d), UNCHANGED <<buf, r, w>>
  PROVE  InputInv' /\ Line' = SubSeq(Line, 1, Len(Line) - d) /\ Queue' = Queue
<1>1. /\ r \in 0 .. UINT - 1 /\ w \in 0 .. UINT - 1 /\ e \in 0 .. UINT - 1
      /\ r \in Int /\ w \in Int /\ buf \in Ring /\ UINT \in Nat \ {0} /\ INPUT_BUF \in Nat
      /\ UINT > INPUT_BUF
  BY ConsoleAssumption DEF InputInv
<1>2. /\ Queue = Window(buf, r, Minus(w, r)) /\ Line = Window(buf, w, Minus(e, w))
      /\ Line \in Seq(Chars) /\ Len(Line) = Minus(e, w)
      /\ Minus(w, r) \in 0 .. INPUT_BUF /\ Minus(e, w) \in 0 .. INPUT_BUF
  BY Zenon, InputFacts
<1>3. e' \in 0 .. UINT - 1 /\ Minus(e', w) = Minus(e, w) - d
  <2>1. d \in 0 .. UINT - 1
    BY <1>1, <1>2
  <2>2. /\ Minus(e, d) = IF e >= d THEN e - d ELSE e - d + UINT
        /\ Minus(e, d) \in 0 .. UINT - 1
        /\ Minus(e, w) = IF e >= w THEN e - w ELSE e - w + UINT
    BY Zenon, <1>1, <2>1, Distance
  <2>3. Minus(e', w) = IF e' >= w THEN e' - w ELSE e' - w + UINT
    BY Zenon, <1>1, <2>2, Distance
  <2> QED BY <1>1, <1>2, <2>1, <2>2, <2>3
<1>4. Line' = Window(buf, w, Minus(e, w) - d) /\ Queue' = Queue
  BY Zenon, <1>3 DEF Line, Queue, Typed, Window, Minus
<1>5. SubSeq(Line, 1, Minus(e, w) - d) = Window(buf, w, Minus(e, w) - d)
  <2>1. Minus(e, w) \in Nat /\ Minus(e, w) - d \in 0 .. Minus(e, w)
    BY <1>2
  <2> QED BY Zenon, <1>1, <1>2, <2>1, WindowPrefix
<1>6. \A k \in 1 .. Minus(e', w') : Line'[k] # "nl"
  <2>1. \A k \in 1 .. Minus(e, w) : Line[k] # "nl"
    BY Zenon DEF InputInv
  <2>2. Minus(e', w') = Minus(e, w) - d /\ Line' = SubSeq(Line, 1, Minus(e, w) - d)
    BY Zenon, <1>3, <1>4, <1>5
  <2>3. Minus(e, w) - d \in 0 .. Len(Line)
    BY <1>2
  <2> QED BY <1>2, <2>1, <2>2, <2>3
<1>7. InputInv'
  <2>1. Minus(w', r') + Minus(e', w') <= INPUT_BUF
    <3>1. Minus(w, r) + Minus(e, w) <= INPUT_BUF
      BY Zenon DEF InputInv
    <3> QED BY <1>1, <1>2, <1>3, <3>1
  <2> QED BY Zenon, <1>1, <1>3, <1>6, <2>1 DEF InputInv
<1> QED BY Zenon, <1>2, <1>4, <1>5, <1>7

LEMMA BackspaceErases ==
  ASSUME InputInv, NEW c, Backspace(c)
  PROVE  InputInv' /\ Editor!Erase
<1>1. e # w /\ e' = Minus(e, 1) /\ UNCHANGED <<buf, r, w>>
  BY Zenon DEF Backspace
<1>2. 1 \in 0 .. Minus(e, w)
  <2>1. Minus(e, w) = (IF e >= w THEN e - w ELSE e - w + UINT) /\ Minus(e, w) \in 0 .. UINT - 1
    BY Zenon, Distance DEF InputInv
  <2>2. e \in 0 .. UINT - 1 /\ w \in 0 .. UINT - 1 /\ UINT \in Nat
    BY Zenon, ConsoleAssumption DEF InputInv
  <2> QED BY <1>1, <2>1, <2>2
<1>3. InputInv' /\ Line' = SubSeq(Line, 1, Len(Line) - 1) /\ Queue' = Queue
  BY Zenon, <1>1, <1>2, GoBack
<1>4. Line # <<>>
  BY <1>2, InputFacts
<1> QED BY Zenon, <1>3, <1>4 DEF Editor!Erase, Line, Queue

\* Only what has been handed over ends a line, so ^U stops at w.
LEMMA KillLineKills ==
  ASSUME InputInv, NEW c, KillLine(c)
  PROVE  InputInv' /\ Editor!KillLine
<1>1. UNCHANGED <<buf, r, w>>
  BY Zenon DEF KillLine
<1>2. PICK d \in 0 .. Minus(e, w) :
        /\ d = Minus(e, w) \/ buf[Minus(e, d + 1) % INPUT_BUF] = "nl"
        /\ e' = Minus(e, d)
  BY Zenon DEF KillLine
<1>3. d = Minus(e, w)
  <2> SUFFICES ASSUME d # Minus(e, w) PROVE FALSE
    BY Zenon
  <2>1. /\ w \in 0 .. UINT - 1 /\ e \in 0 .. UINT - 1 /\ UINT \in Nat \ {0} /\ INPUT_BUF \in Nat \ {0}
        /\ UINT > INPUT_BUF /\ UINT % INPUT_BUF = 0
        /\ Minus(e, w) \in 0 .. INPUT_BUF
    BY Zenon, InputFacts, ConsoleAssumption DEF InputInv
  <2> DEFINE k == Minus(e, w) - d
             y == Minus(e, d + 1)
  <2>2. k \in 1 .. Minus(e, w) /\ d + 1 \in 0 .. UINT - 1
    BY <2>1
  <2>3. /\ y = IF e >= d + 1 THEN e - (d + 1) ELSE e - (d + 1) + UINT
        /\ y \in 0 .. UINT - 1
        /\ Minus(e, w) = IF e >= w THEN e - w ELSE e - w + UINT
    BY Zenon, <2>1, <2>2, Distance
  <2>4. w + k - 1 = y \/ w + k - 1 = y + UINT
    BY <2>1, <2>2, <2>3
  <2> HIDE DEF k, y
  <2>5. (y + UINT) % INPUT_BUF = y % INPUT_BUF
    <3>1. y \in Int /\ UINT \in Int
      BY <2>1, <2>3
    <3> QED BY Zenon, <2>1, <3>1, ModShift
  <2>6. (w + k - 1) % INPUT_BUF = y % INPUT_BUF
    BY Zenon, <2>4, <2>5
  <2>7. Line[k] = buf[(w + k - 1) % INPUT_BUF] /\ Line[k] # "nl"
    <3>1. Line = Window(buf, w, Minus(e, w))
      BY Zenon, InputFacts
    <3> QED BY Zenon, <2>2, <3>1 DEF Window, InputInv
  <2>8. buf[y % INPUT_BUF] = "nl"
    BY Zenon, <1>2 DEF y
  <2> QED BY Zenon, <2>6, <2>7, <2>8
<1>4. InputInv' /\ Line' = SubSeq(Line, 1, Len(Line) - Minus(e, w)) /\ Queue' = Queue
  BY Zenon, <1>1, <1>2, <1>3, GoBack
<1>5. Line' = <<>>
  <2>1. Line \in Seq(Chars) /\ Len(Line) = Minus(e, w) /\ Minus(e, w) \in Nat
    BY InputFacts
  <2> QED BY <1>4, <2>1
<1> QED BY Zenon, <1>4, <1>5 DEF Editor!KillLine, Line, Queue

\* consoleread() takes the first character, or leaves a ^D for the next read.
LEMMA ReadTakes ==
  ASSUME InputInv, NEW c, ReadTake(c)
  PROVE  InputInv' /\ (Editor!Take \/ UNCHANGED Editor!vars)
<1>1. r # w /\ UNCHANGED <<buf, w, e>> /\ (r' = r \/ r' = (r + 1) % UINT)
  BY Zenon DEF ReadTake
<1>2. Line' = Line
  BY Zenon, <1>1 DEF Line, Typed
<1>3. CASE r' = r
  <2>1. Queue' = Queue
    BY Zenon, <1>1, <1>3 DEF Queue, Typed
  <2>2. InputInv'
    BY Zenon, <1>1, <1>2, <1>3 DEF InputInv
  <2> QED BY Zenon, <1>2, <2>1, <2>2 DEF Editor!vars, Line, Queue
<1>4. CASE r' = (r + 1) % UINT
  <2>1. /\ r \in 0 .. UINT - 1 /\ w \in 0 .. UINT - 1 /\ r \in Int /\ buf \in Ring
        /\ UINT \in Nat \ {0} /\ INPUT_BUF \in Nat /\ Minus(w, r) + Minus(e, w) <= INPUT_BUF
    BY ConsoleAssumption DEF InputInv
  <2>2. /\ Queue = Window(buf, r, Minus(w, r)) /\ Queue \in Seq(Chars) /\ Len(Queue) = Minus(w, r)
        /\ Minus(e, w) \in 0 .. INPUT_BUF
    BY Zenon, InputFacts
  <2>3. r' = (IF r = UINT - 1 THEN 0 ELSE r + 1) /\ r' \in 0 .. UINT - 1
    BY Zenon, <1>4, <2>1, Successor
  <2>4. /\ Minus(w, r) = IF w >= r THEN w - r ELSE w - r + UINT
        /\ Minus(w, r') = IF w >= r' THEN w - r' ELSE w - r' + UINT
    BY Zenon, <2>1, <2>3, Distance
  <2>5. Minus(w, r) \in Nat \ {0} /\ Minus(w, r') = Minus(w, r) - 1
    BY <1>1, <2>1, <2>3, <2>4
  <2>6. Window(buf, r', Minus(w, r) - 1) = Window(buf, r + 1, Minus(w, r) - 1)
    <3>1. r + 1 = r' \/ r + 1 = r' + UINT
      BY <2>1, <2>3
    <3>2. Window(buf, r' + UINT, Minus(w, r) - 1) = Window(buf, r', Minus(w, r) - 1)
      <4>1. r' \in Int /\ Minus(w, r) - 1 \in Nat
        BY <2>1, <2>3, <2>5
      <4> QED BY Zenon, <4>1, WindowWraps
    <3> QED BY Zenon, <3>1, <3>2
  <2>7. Queue' = Window(buf, r', Minus(w, r) - 1)
    BY Zenon, <1>1, <2>5 DEF Queue, Typed, Window, Minus
  <2>8. Tail(Queue) = Window(buf, r + 1, Minus(w, r) - 1)
    BY Zenon, <2>1, <2>2, <2>5, WindowTail
  <2>9. Queue # <<>> /\ Queue' = Tail(Queue)
    <3>1. Queue # <<>>
      BY Zenon, <2>2, <2>5
    <3> QED BY Zenon, <2>6, <2>7, <2>8, <3>1
  <2>10. InputInv'
    <3>1. Minus(w', r') + Minus(e', w') <= INPUT_BUF
      BY <1>1, <2>1, <2>2, <2>5
    <3> QED BY Zenon, <1>1, <1>2, <2>3, <3>1 DEF InputInv
  <2> QED BY Zenon, <1>2, <2>9, <2>10 DEF Editor!Take, Line, Queue
<1> QED BY Zenon, <1>1, <1>3, <1>4

LEMMA InputInit ==
  ASSUME Init
  PROVE  InputInv /\ Editor!Init
<1>1. /\ UINT \in Nat \ {0} /\ r = 0 /\ w = 0 /\ e = 0 /\ 0 \in 0 .. UINT - 1
      /\ buf \in Ring /\ INPUT_BUF \in Nat
  BY ConsoleAssumption DEF Init, Ring, Chars
<1>2. Minus(0, 0) = 0
  BY <1>1, Distance
<1>3. InputInv
  BY <1>1, <1>2 DEF InputInv
<1>4. Line = <<>> /\ Queue = <<>>
  BY <1>1, <1>2 DEF Line, Queue, Typed
<1> QED BY Zenon, <1>3, <1>4 DEF Editor!Init, Line, Queue

LEMMA InputStays ==
  ASSUME InputInv, UNCHANGED input
  PROVE  InputInv' /\ UNCHANGED Editor!vars
<1>1. UNCHANGED <<buf, r, w, e>>
  BY Zenon DEF input
<1>2. Line' = Line /\ Queue' = Queue
  BY Zenon, <1>1 DEF Line, Queue, Typed
<1>3. InputInv'
  BY Zenon, <1>1, <1>2 DEF InputInv
<1> QED BY Zenon, <1>2, <1>3 DEF Editor!vars, Line, Queue

\* The keys: what is put into the ring, what edits the line, what does neither.
LEMMA KeyEdits ==
  ASSUME InputInv, NEW c, Key(c)
  PROVE  InputInv' /\ [Editor!Next]_(Editor!vars)
<1>1. ASSUME NEW k \in Keys \ {"dump", "kill", "bs"}, Put(c, IF k = "cr" THEN "nl" ELSE k)
      PROVE  InputInv' /\ Editor!Next
  <2>1. PICK ch : ch = IF k = "cr" THEN "nl" ELSE k
    BY Zenon
  <2>2. /\ ch \in Chars /\ Put(c, ch)
        /\ ch \in {"nl", "eof"} \cup (Keys \ {"dump", "kill", "bs", "cr", "nl", "eof"})
    BY Zenon, <1>1, <2>1 DEF Chars
  <2>3. InputInv' /\ Editor!Type(ch)
    BY Zenon, <2>2, PutTypes
  <2> QED BY Zenon, <2>2, <2>3 DEF Editor!Next
<1>2. ASSUME Backspace(c) PROVE InputInv' /\ Editor!Next
  BY Zenon, <1>2, BackspaceErases DEF Editor!Next
<1>3. ASSUME KillLine(c) PROVE InputInv' /\ Editor!Next
  BY Zenon, <1>3, KillLineKills DEF Editor!Next
<1>4. ASSUME UNCHANGED input PROVE InputInv' /\ UNCHANGED Editor!vars
  BY Zenon, <1>4, InputStays
<1> QED BY Zenon, <1>1, <1>2, <1>3, <1>4 DEF Key

LEMMA InputNext ==
  ASSUME InputInv, [Next]_vars
  PROVE  InputInv' /\ [Editor!Next]_(Editor!vars)
<1>1. ASSUME UNCHANGED input PROVE InputInv' /\ [Editor!Next]_(Editor!vars)
  BY Zenon, <1>1, InputStays
<1>2. CASE UNCHANGED vars
  BY Zenon, <1>1, <1>2 DEF vars
<1>3. CASE KeyInterrupt
  BY Zenon, <1>1, <1>3 DEF KeyInterrupt, Interrupt
<1>4. ASSUME NEW c \in CPUs,
             \/ Acquire(c) \/ Spin(c) \/ Timer(c) \/ EndTrap(c)
             \/ Sti(c) \/ Pick(c) \/ Back(c) \/ ForkRet(c)
             \/ KillNobody(c) \/ (\E v \in Killable : Kill(c, v))
      PROVE  UNCHANGED input
  BY Zenon, <1>4 DEF Acquire, Spin, Timer, Interrupt, EndTrap, Sti, Pick, Back, ForkRet, KillNobody, Kill
<1>5. ASSUME NEW c \in CPUs,
             \/ Yield(c) \/ Yielded(c) \/ Exit(c)
             \/ (\E k \in Counts : CallRead(c, k)) \/ CallOther(c)
             \/ ReadWait(c) \/ Leave(c)
             \/ SleepUnlock(c) \/ SleepSched(c) \/ SleepBack(c)
             \/ Notify(c) \/ KeysDone(c) \/ Dumped(c)
      PROVE  UNCHANGED input
  BY Zenon, <1>5 DEF Yield, Yielded, Exit, Sched, CallRead, CallOther, Call, ReadWait, Leave,
                     SleepUnlock, SleepSched, SleepBack, Notify, KeysDone, Dumped
<1>6. ASSUME NEW c \in CPUs, ReadTake(c) PROVE InputInv' /\ [Editor!Next]_(Editor!vars)
  BY Zenon, <1>6, ReadTakes DEF Editor!Next
<1>7. ASSUME NEW c \in CPUs, Key(c) PROVE InputInv' /\ [Editor!Next]_(Editor!vars)
  BY Zenon, <1>7, KeyEdits
<1> QED BY Zenon, <1>1, <1>2, <1>3, <1>4, <1>5, <1>6, <1>7 DEF Next

\* Whatever CPUs and processes do, and also when the indices wrap around, what
\* consoleread() takes is what consoleintr() was given, edited, once and in order.
THEOREM ConsoleEditsLines == Spec => LineEditing
<1>1. Init => InputInv /\ Editor!Init
  BY Zenon, InputInit
<1>2. InputInv /\ [Next]_vars => InputInv' /\ [Editor!Next]_(Editor!vars)
  BY Zenon, InputNext
<1> QED BY <1>1, <1>2, PTL DEF Spec, LineEditing, Editor!Spec

=============================================================================
