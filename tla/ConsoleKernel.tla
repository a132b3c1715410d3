--------------------------- MODULE ConsoleKernel ----------------------------
(***************************************************************************)
(* The kernel under Console, for every number of CPUs and processes, every *)
(* size of the ring and every width of its indices: the invariant of       *)
(* locks, pushcli() depths and interrupt flags, and the steps that         *)
(* take a lock, drop one, go on without or change the thread on a CPU.     *)
(***************************************************************************)
EXTENDS Console, TLAPS

\* Where a process, the loop of scheduler(), the handler of the keyboard and
\* any handler can be.
ProcLabels == {"user", "read", "fill", "sleep", "unlock", "block", "wake", "leave", "write",
               "kill", "mark", "exit", "zombie", "dead", "forkret"}
LoopLabels == {"sti", "idle", "pick", "debug", "debugged", "chosen", "back"}
KeyLabels == {"iret", "kbd", "getc", "notify", "notified", "dump", "dumped"}
TrapLabels == KeyLabels \cup {"tick", "yield", "yielded", "exit", "zombie", "dead"}

States == {"RUNNABLE", "RUNNING", "SLEEPING", "ZOMBIE"}

ThreadType ==
  /\ on \in [CPUs -> Threads]
  /\ pc \in [Threads -> ProcLabels \cup LoopLabels]
  /\ hpc \in [Threads -> TrapLabels \cup {None}]
  /\ state \in [Procs -> States]
  /\ saved \in [Procs -> BOOLEAN]

\* A thread is on one CPU at most.  A scheduler() that is not on its CPU waits
\* in swtch().  Only code that holds no lock is interrupted.
PlaceInv ==
  /\ \A c \in CPUs : on[c] = c \/ on[c] \in Procs
  /\ \A c, d \in CPUs : on[c] = on[d] => c = d
  /\ \A c \in CPUs : on[c] # c => pc[c] = "back" /\ hpc[c] = None
  /\ \A p \in Procs : pc[p] \in ProcLabels
  /\ \A c \in CPUs : pc[c] \in LoopLabels /\ hpc[c] \in KeyLabels \cup {None}
  /\ \A t \in Threads : hpc[t] # None => HeldAt(pc[t]) = {}

\* A process that can be dispatched, or woken up first, is on no CPU and comes
\* back with ptable.lock held and the intena that its context needs.
ParkInv ==
  \A p \in Procs : state[p] \in {"RUNNABLE", "SLEEPING"} =>
    /\ \A c \in CPUs : on[c] # p
    /\ \/ hpc[p] = None /\ pc[p] = "wake" /\ saved[p]
       \/ hpc[p] = None /\ pc[p] = "forkret"
       \/ hpc[p] = "yielded" /\ ~saved[p]

LockInv == \A lk \in Locks : locked[lk] <=> lkcpu[lk] # None

Depth(S) == (IF "cons" \in S THEN 1 ELSE 0) + (IF "ptable" \in S THEN 1 ELSE 0)

\* What is true of CPU c at the label of the thread on it: the locks it holds
\* are the ones of the label; ncli counts them, and the one it spins for;
\* interrupts are off in a handler and under a lock; intena is what release()
\* has to give back, except to scheduler() in front of its sti().
CpuInv(c) ==
  LET l == Cur(on[c]) IN
  /\ \A lk \in Locks : lkcpu[lk] = c <=> lk \in HeldAt(l)
  /\ ncli[c] = Depth(HeldAt(l)) + (IF spin[c] = None THEN 0 ELSE 1)
  /\ spin[c] # None => l \in DOMAIN Afterwards /\ spin[c] = LockAt(l)
  /\ ncli[c] > 0 \/ hpc[on[c]] # None => ~fl[c]
  /\ hpc[on[c]] # None /\ ncli[c] > 0 => ~intena[c]
  /\ hpc[on[c]] = None /\ ncli[c] > 0 /\ l # "back" => intena[c]
  /\ hpc[on[c]] = None /\ ncli[c] = 0 /\ l # "sti" => fl[c]

KernelInv ==
  /\ ~panicked
  /\ SpinTypeOK /\ ThreadType
  /\ PlaceInv /\ ParkInv /\ LockInv
  /\ \A c \in CPUs : CpuInv(c)

-----------------------------------------------------------------------------
(* Labels *)

LEMMA DepthFacts ==
  ASSUME NEW S, S \subseteq {"cons", "ptable"}
  PROVE  /\ Depth(S) \in 0 .. 2
         /\ Depth(S) = 0 <=> S = {}
         /\ S = {"cons"} \/ S = {"ptable"} => Depth(S) = 1
         /\ \A lk \in {"cons", "ptable"} :
              /\ lk \in S => Depth(S \ {lk}) = Depth(S) - 1
              /\ lk \notin S => Depth(S \cup {lk}) = Depth(S) + 1
BY DEF Depth

LEMMA HeldType == \A l : HeldAt(l) \subseteq {"cons", "ptable"}
BY Zenon DEF HeldAt

\* The locks held at the labels of each kind.
LEMMA HeldFacts ==
  /\ \A l \in Unlocked \cup {"dead"} : HeldAt(l) = {}
  /\ \A l \in ConsOnly : HeldAt(l) = {"cons"}
  /\ \A l \in PtableOnly : HeldAt(l) = {"ptable"}
  /\ \A l \in Both : HeldAt(l) = {"cons", "ptable"}
BY Zenon DEF HeldAt, Unlocked, ConsOnly, PtableOnly, Both

\* A CPU without a lock has no pushcli() pending; with interrupts on, it has no lock.
LEMMA NoLocks ==
  ASSUME NEW c, NEW l, CpuInv(c), Cur(on[c]) = l, spin[c] = None, HeldAt(l) = {}
  PROVE  ncli[c] = 0 /\ \A lk \in Locks : lkcpu[lk] # c
<1>1. Depth({}) = 0
  BY DEF Depth
<1>2. \A lk \in Locks : lkcpu[lk] = c <=> lk \in HeldAt(l)
  BY Zenon DEF CpuInv
<1>3. ncli[c] = Depth(HeldAt(l)) + (IF spin[c] = None THEN 0 ELSE 1)
  BY Zenon DEF CpuInv
<1> QED BY <1>1, <1>2, <1>3

LEMMA InterruptsOn ==
  ASSUME NEW c, CpuInv(c), fl[c]
  PROVE  HeldAt(Cur(on[c])) = {} /\ ncli[c] = 0 /\ spin[c] = None
<1> DEFINE S == HeldAt(Cur(on[c]))
<1>1. Depth(S) \in 0 .. 2 /\ (Depth(S) = 0 => S = {})
  BY Zenon, HeldType, DepthFacts
<1>2. ncli[c] = Depth(S) + (IF spin[c] = None THEN 0 ELSE 1) /\ ~(ncli[c] > 0)
  BY Zenon DEF CpuInv
<1> HIDE DEF S
<1>3. Depth(S) = 0 /\ ncli[c] = 0 /\ spin[c] = None
  BY <1>1, <1>2
<1> QED BY Zenon, <1>1, <1>3 DEF S

\* After acquire() the lock has been added to those of the label.
LEMMA AcquireFacts ==
  ASSUME NEW l \in DOMAIN Afterwards
  PROVE  /\ LockAt(l) \in {"cons", "ptable"}
         /\ LockAt(l) \notin HeldAt(l)
         /\ HeldAt(Afterwards[l]) = HeldAt(l) \cup {LockAt(l)}
         /\ l \notin {"back", "sti"} /\ Afterwards[l] \notin {"back", "sti"}
         /\ l \in ProcLabels => Afterwards[l] \in ProcLabels
         /\ l \in LoopLabels => Afterwards[l] \in LoopLabels
         /\ l \in KeyLabels => Afterwards[l] \in KeyLabels
         /\ l \in TrapLabels => Afterwards[l] \in TrapLabels
<1>1. l \in {"read", "write", "kill", "exit", "tick", "kbd", "dump", "idle", "sleep",
             "notify", "debug"}
  BY Zenon DEF Afterwards
<1>2. LockAt(l) \in {"cons", "ptable"} /\ LockAt(l) \notin HeldAt(l)
  BY <1>1, HeldFacts DEF LockAt, Unlocked, ConsOnly, PtableOnly
<1>3. HeldAt(Afterwards[l]) = HeldAt(l) \cup {LockAt(l)}
  BY <1>1 DEF LockAt, Afterwards, HeldAt, ConsOnly, PtableOnly, Both
<1>4. l \notin {"back", "sti"} /\ Afterwards[l] \notin {"back", "sti"}
  BY <1>1 DEF Afterwards
<1>5. /\ l \in ProcLabels => Afterwards[l] \in ProcLabels
      /\ l \in LoopLabels => Afterwards[l] \in LoopLabels
      /\ l \in KeyLabels => Afterwards[l] \in KeyLabels
      /\ l \in TrapLabels => Afterwards[l] \in TrapLabels
  BY <1>1 DEF Afterwards, ProcLabels, LoopLabels, KeyLabels, TrapLabels
<1> QED BY Zenon, <1>2, <1>3, <1>4, <1>5

LEMMA NextLabel ==
  ASSUME NEW l \in DOMAIN Afterwards
  PROVE  /\ Afterwards[l] \notin {None, "sleep", "block"} /\ (Afterwards[l] = "unlock" => l = "sleep")
         /\ l # "notified" /\ (l = "notify" => Afterwards[l] = "notified")
<1>1. l \in {"read", "write", "kill", "exit", "tick", "kbd", "dump", "idle", "sleep",
             "notify", "debug"}
  BY DEF Afterwards
<1>2. Afterwards[l] \in {"fill", "leave", "mark", "zombie", "yield", "getc", "dumped", "pick",
                         "unlock", "notified", "debugged"}
  BY <1>1 DEF Afterwards
<1>3. (Afterwards[l] = "unlock" => l = "sleep") /\ (l = "notify" => Afterwards[l] = "notified")
  BY <1>1 DEF Afterwards
<1> QED BY Zenon, <1>1, <1>2, <1>3 DEF None

-----------------------------------------------------------------------------
(* What a step leaves alone *)

\* The labels that the thread on CPU c can have, in its context.
Legal(c, l) ==
  IF hpc[on[c]] = None THEN l \in (IF on[c] \in Procs THEN ProcLabels ELSE LoopLabels)
                       ELSE l \in (IF on[c] \in Procs THEN TrapLabels ELSE KeyLabels)

LEMMA LegalCur ==
  ASSUME KernelInv, NEW c \in CPUs
  PROVE  Legal(c, Cur(on[c]))
BY Zenon, ConsoleAssumption DEF KernelInv, PlaceInv, ThreadType, Threads, Legal, Cur

\* States only go from SLEEPING to RUNNABLE.
OnlyWoken ==
  /\ state' \in [Procs -> States]
  /\ \A p \in Procs : 
       state'[p] = state[p] \/ (state[p] = "SLEEPING" /\ state'[p] = "RUNNABLE")

\* A thread that goes on at another label disturbs no other thread.
LEMMA GotoPlace ==
  ASSUME KernelInv, NEW c \in CPUs, NEW k, Legal(c, k), Goto(c, k),
         on' = on, saved' = saved, OnlyWoken
  PROVE  /\ ThreadType' /\ PlaceInv' /\ ParkInv'
         /\ Cur(on[c])' = k
         /\ hpc'[on[c]] = None <=> hpc[on[c]] = None
         /\ \A d \in CPUs \ {c} : pc'[on[d]] = pc[on[d]] /\ hpc'[on[d]] = hpc[on[d]]
<1> DEFINE t == on[c]
<1>1. t \in Threads
  BY Zenon DEF KernelInv, ThreadType
<1>2. k \in TrapLabels => k # None
  BY Zenon DEF TrapLabels, KeyLabels, None
<1>3. KeyLabels \subseteq TrapLabels
  BY Zenon DEF TrapLabels
<1>4. /\ \A u \in Threads \ {t} : pc'[u] = pc[u] /\ hpc'[u] = hpc[u]
      /\ hpc[t] = None => pc'[t] = k /\ hpc'[t] = None
      /\ hpc[t] # None => pc'[t] = pc[t] /\ hpc'[t] = k /\ k # None
      /\ pc' \in [Threads -> ProcLabels \cup LoopLabels]
      /\ hpc' \in [Threads -> TrapLabels \cup {None}]
  <2>1. CASE hpc[t] = None
    BY Zenon, <1>1, <2>1 DEF Goto, Legal, KernelInv, ThreadType
  <2>2. CASE hpc[t] # None
    BY Zenon, <1>1, <1>2, <1>3, <2>2 DEF Goto, Legal, KernelInv, ThreadType
  <2> QED BY Zenon, <2>1, <2>2
<1>5. ThreadType'
  BY Zenon, <1>4 DEF KernelInv, ThreadType, OnlyWoken
<1>6. \A d \in CPUs \ {c} : pc'[on[d]] = pc[on[d]] /\ hpc'[on[d]] = hpc[on[d]]
  BY Zenon, <1>4 DEF KernelInv, ThreadType, PlaceInv
<1>7. Cur(on[c])' = k /\ (hpc'[on[c]] = None <=> hpc[on[c]] = None)
  BY Zenon, <1>4 DEF Cur
<1>8. PlaceInv'
  <2>1. (\A d \in CPUs : on[d] # d => pc[d] = "back" /\ hpc[d] = None)'
    <3> SUFFICES ASSUME NEW d \in CPUs, on[d] # d PROVE pc'[d] = "back" /\ hpc'[d] = None
      BY Zenon DEF KernelInv
    <3>1. d # t
      BY Zenon, ConsoleAssumption DEF KernelInv, PlaceInv
    <3> QED BY Zenon, <3>1, <1>4 DEF KernelInv, PlaceInv, Threads
  <2>2. (\A p \in Procs : pc[p] \in ProcLabels)'
    BY Zenon, <1>4 DEF KernelInv, PlaceInv, Threads, Legal
  <2>3. (\A d \in CPUs : pc[d] \in LoopLabels /\ hpc[d] \in KeyLabels \cup {None})'
    BY <1>4, ConsoleAssumption DEF KernelInv, PlaceInv, Threads, Legal
  <2>4. (\A u \in Threads : hpc[u] # None => HeldAt(pc[u]) = {})'
    BY <1>4 DEF KernelInv, PlaceInv
  <2> QED BY Zenon, <2>1, <2>2, <2>3, <2>4 DEF KernelInv, PlaceInv
<1>9. ParkInv'
  <2> SUFFICES ASSUME NEW p \in Procs, state'[p] \in {"RUNNABLE", "SLEEPING"}
               PROVE  /\ \A d \in CPUs : on[d] # p
                      /\ \/ hpc'[p] = None /\ pc'[p] = "wake" /\ saved[p]
                         \/ hpc'[p] = None /\ pc'[p] = "forkret"
                         \/ hpc'[p] = "yielded" /\ ~saved[p]
    BY Zenon DEF ParkInv
  <2>1. state[p] \in {"RUNNABLE", "SLEEPING"}
    BY Zenon DEF OnlyWoken
  <2>2. p # t
    BY Zenon, <2>1 DEF KernelInv, ParkInv
  <2> QED BY Zenon, <2>1, <2>2, <1>4 DEF KernelInv, ParkInv, Threads
<1> QED BY Zenon, <1>5, <1>6, <1>7, <1>8, <1>9

\* The labels of the other CPUs stay as they are.
OthersStay(c) == \A d \in CPUs \ {c} : Cur(on[d])' = Cur(on[d])

LEMMA GotoLabels ==
  ASSUME KernelInv, NEW c \in CPUs, NEW k, k # None, Goto(c, k), on' = on
  PROVE  Cur(on[c])' = k /\ OthersStay(c)
<1> DEFINE t == on[c]
<1>1. t \in Threads
  BY Zenon DEF KernelInv, ThreadType
<1>2. /\ \A u \in Threads \ {t} : pc'[u] = pc[u] /\ hpc'[u] = hpc[u]
      /\ hpc[t] = None => pc'[t] = k /\ hpc'[t] = None
      /\ hpc[t] # None => hpc'[t] = k
  BY Zenon, <1>1 DEF Goto, KernelInv, ThreadType
<1>3. \A d \in CPUs \ {c} : on[d] \in Threads \ {t}
  BY Zenon DEF KernelInv, PlaceInv, ThreadType
<1> QED BY Zenon, <1>2, <1>3 DEF Cur, OthersStay

\* A CPU whose thread and whose variables a step does not touch.
LEMMA CpuFrame ==
  ASSUME NEW d \in CPUs, CpuInv(d),
         on'[d] = on[d], pc'[on[d]] = pc[on[d]], hpc'[on[d]] = hpc[on[d]],
         ncli'[d] = ncli[d], intena'[d] = intena[d], fl'[d] = fl[d], spin'[d] = spin[d],
         \A lk \in Locks : lkcpu'[lk] = d <=> lkcpu[lk] = d
  PROVE  CpuInv(d)'
<1>1. Cur(on[d])' = Cur(on[d])
  BY Zenon DEF Cur
<1> QED BY Zenon, <1>1 DEF CpuInv

-----------------------------------------------------------------------------
(* Steps of the locks *)

\* acquire() up to its loop: the lock is not held, so it does not panic.
LEMMA AcquireInv ==
  ASSUME KernelInv, NEW c \in CPUs, Acquire(c)
  PROVE  KernelInv'
<1>1. PICK l \in DOMAIN Afterwards : InLabel(c, l) /\ AcquireStart(c, LockAt(l))
  BY Zenon DEF Acquire
<1> DEFINE lk == LockAt(l)
           t == on[c]
<1>2. Cur(t) = l /\ spin[c] = None
  BY Zenon, <1>1 DEF InLabel
<1>3. /\ lk \in Locks /\ lk # None /\ lk \notin HeldAt(l)
      /\ HeldAt(l) \subseteq {"cons", "ptable"} /\ l \notin {"back", "sti"}
  BY Zenon, AcquireFacts, HeldType, ConsoleAssumption, SpinAssumption
<1>4. CpuInv(c)
  BY Zenon DEF KernelInv
<1>5. ~Holding(c, lk)
  BY Zenon, <1>2, <1>3, <1>4 DEF CpuInv, Holding
<1>6. /\ fl' = [fl EXCEPT ![c] = FALSE]
      /\ intena' = [intena EXCEPT ![c] = IF ncli[c] = 0 THEN fl[c] ELSE @]
      /\ ncli' = [ncli EXCEPT ![c] = @ + 1]
      /\ spin' = [spin EXCEPT ![c] = lk]
      /\ UNCHANGED <<locked, lkcpu, panicked>>
  BY Zenon, <1>1, <1>5 DEF AcquireStart, PushCli, lkvars
<1>7. UNCHANGED <<on, pc, hpc, state, saved>>
  BY Zenon DEF Acquire, threads
<1>8. SpinTypeOK' /\ ~panicked'
  BY <1>3, <1>6 DEF KernelInv, SpinTypeOK
<1>9. ThreadType' /\ PlaceInv' /\ ParkInv' /\ LockInv'
  BY Zenon, <1>6, <1>7 DEF KernelInv, ThreadType, PlaceInv, ParkInv, LockInv
<1>10. CpuInv(c)'
  <2>1. Cur(on[c])' = l /\ hpc'[on'[c]] = hpc[t]
    BY Zenon, <1>2, <1>7 DEF Cur
  <2>2. /\ fl'[c] = FALSE /\ ncli'[c] = ncli[c] + 1 /\ spin'[c] = lk
        /\ intena'[c] = IF ncli[c] = 0 THEN fl[c] ELSE intena[c]
    BY Zenon, <1>6 DEF KernelInv, SpinTypeOK
  <2>3. Depth(HeldAt(l)) \in 0 .. 2
    BY Zenon, <1>3, DepthFacts
  <2>4. /\ ncli[c] = Depth(HeldAt(l))
        /\ hpc[t] # None => ~fl[c]
        /\ hpc[t] # None /\ ncli[c] > 0 => ~intena[c]
        /\ hpc[t] = None /\ ncli[c] > 0 => intena[c]
        /\ hpc[t] = None /\ ncli[c] = 0 => fl[c]
        /\ \A k \in Locks : lkcpu[k] = c <=> k \in HeldAt(l)
    BY <1>2, <1>3, <1>4, <2>3 DEF CpuInv
  <2> QED BY <1>3, <1>6, <2>1, <2>2, <2>3, <2>4 DEF CpuInv
<1>11. \A d \in CPUs \ {c} : CpuInv(d)'
  <2> SUFFICES ASSUME NEW d \in CPUs, d # c PROVE CpuInv(d)'
    BY Zenon
  <2>1. ncli'[d] = ncli[d] /\ intena'[d] = intena[d] /\ fl'[d] = fl[d] /\ spin'[d] = spin[d]
    BY Zenon, <1>6 DEF KernelInv, SpinTypeOK
  <2> QED BY Zenon, <1>6, <1>7, <2>1, CpuFrame DEF KernelInv
<1> QED BY Zenon, <1>8, <1>9, <1>10, <1>11 DEF KernelInv

\* The xchg that takes the lock.
LEMMA SpinInv ==
  ASSUME KernelInv, NEW c \in CPUs, Spin(c)
  PROVE  KernelInv'
<1> DEFINE t == on[c]
           l == Cur(t)
           lk == spin[c]
           k == Afterwards[l]
<1>1. CpuInv(c)
  BY Zenon DEF KernelInv
<1>2. l \in DOMAIN Afterwards /\ lk = LockAt(l)
  BY Zenon, <1>1 DEF Spin, Xchg, CpuInv
<1>3. /\ lk \in Locks /\ lk \notin HeldAt(l) /\ HeldAt(k) = HeldAt(l) \cup {lk}
      /\ HeldAt(l) \subseteq {"cons", "ptable"} /\ lk \in {"cons", "ptable"}
      /\ l \notin {"back", "sti"} /\ k \notin {"back", "sti"}
  BY <1>2, AcquireFacts, HeldType, ConsoleAssumption
<1>4. /\ lk # None /\ ~locked[lk]
      /\ locked' = [locked EXCEPT ![lk] = TRUE]
      /\ lkcpu' = [lkcpu EXCEPT ![lk] = c]
      /\ spin' = [spin EXCEPT ![c] = None]
      /\ UNCHANGED <<ncli, intena, fl, panicked>>
  BY Zenon DEF Spin, Xchg, clivars
<1>5. UNCHANGED <<on, state, saved>> /\ Goto(c, k)
  BY Zenon DEF Spin
<1>6. Legal(c, k)
  BY Zenon, <1>2, LegalCur, AcquireFacts DEF Legal
<1>7. OnlyWoken
  BY Zenon, <1>5 DEF OnlyWoken, KernelInv, ThreadType
<1>8. /\ ThreadType' /\ PlaceInv' /\ ParkInv'
      /\ Cur(on[c])' = k
      /\ hpc'[on[c]] = None <=> hpc[on[c]] = None
      /\ \A d \in CPUs \ {c} : pc'[on[d]] = pc[on[d]] /\ hpc'[on[d]] = hpc[on[d]]
  BY Zenon, <1>5, <1>6, <1>7, GotoPlace
<1>9. SpinTypeOK' /\ ~panicked' /\ LockInv'
  BY Zenon, <1>3, <1>4, SpinAssumption DEF KernelInv, SpinTypeOK, LockInv
<1>10. lkcpu[lk] = None
  BY Zenon, <1>3, <1>4 DEF KernelInv, LockInv
<1>11. CpuInv(c)'
  <2>1. \A x \in Locks : lkcpu'[x] = c <=> x \in HeldAt(k)
    BY <1>1, <1>3, <1>4 DEF CpuInv, KernelInv, SpinTypeOK
  <2>2. Depth(HeldAt(k)) = Depth(HeldAt(l)) + 1 /\ Depth(HeldAt(l)) \in 0 .. 2
    BY ZenonT(30), <1>3, DepthFacts
  <2>3. spin'[c] = None
    BY Zenon, <1>4 DEF KernelInv, SpinTypeOK
  <2>4. /\ ncli[c] = Depth(HeldAt(l)) + 1
        /\ ~fl[c]
        /\ hpc[t] # None => ~intena[c]
        /\ hpc[t] = None => intena[c]
    BY <1>1, <1>3, <1>4, <2>2 DEF CpuInv
  <2>5. Cur(on[c])' = k /\ (hpc'[on'[c]] = None <=> hpc[t] = None)
    BY Zenon, <1>5, <1>8
  <2>6. ncli'[c] = ncli[c] /\ fl'[c] = fl[c] /\ intena'[c] = intena[c]
    BY Zenon, <1>4
  <2> HIDE DEF t, l, k
  <2> QED BY SMTT(30), <1>3, <2>1, <2>2, <2>3, <2>4, <2>5, <2>6 DEF CpuInv
<1>12. \A d \in CPUs \ {c} : CpuInv(d)'
  <2> SUFFICES ASSUME NEW d \in CPUs, d # c PROVE CpuInv(d)'
    BY Zenon
  <2>1. spin'[d] = spin[d] /\ \A x \in Locks : lkcpu'[x] = d <=> lkcpu[x] = d
    BY Zenon, <1>4, <1>10, SpinAssumption DEF KernelInv, SpinTypeOK
  <2> QED BY Zenon, <1>4, <1>5, <1>8, <2>1, CpuFrame DEF KernelInv
<1> QED BY Zenon, <1>8, <1>9, <1>11, <1>12 DEF KernelInv

\* release() does not panic, and gives the thread its interrupt flag back.
LEMMA UnlockInv ==
  ASSUME KernelInv, NEW c \in CPUs, NEW l, NEW lk, NEW k, Unlock(c, l, lk, k),
         lk \in HeldAt(l), HeldAt(k) = HeldAt(l) \ {lk}, Legal(c, k),
         l = "back" => k = "sti", k # "back",
         on' = on, saved' = saved, OnlyWoken
  PROVE  KernelInv'
<1> DEFINE t == on[c]
<1>1. CpuInv(c)
  BY Zenon DEF KernelInv
<1>2. Cur(t) = l /\ spin[c] = None /\ Goto(c, k) /\ Release(c, lk)
  BY Zenon DEF Unlock, InLabel
<1>3. /\ lk \in Locks /\ lk \in {"cons", "ptable"}
      /\ HeldAt(l) \subseteq {"cons", "ptable"} /\ HeldAt(k) \subseteq {"cons", "ptable"}
  BY Zenon, HeldType, ConsoleAssumption
<1>4. /\ Depth(HeldAt(l)) \in 1 .. 2 /\ Depth(HeldAt(k)) = Depth(HeldAt(l)) - 1
      /\ l = "back" => Depth(HeldAt(l)) = 1
  <2>1. Depth(HeldAt(l)) \in 1 .. 2 /\ Depth(HeldAt(k)) = Depth(HeldAt(l)) - 1
    <3>1. Depth(HeldAt(l)) \in 0 .. 2 /\ (Depth(HeldAt(l)) = 0 <=> HeldAt(l) = {})
      BY Zenon, <1>3, DepthFacts
    <3>2. Depth(HeldAt(l) \ {lk}) = Depth(HeldAt(l)) - 1
      BY ZenonT(30), <1>3, DepthFacts
    <3> QED BY <3>1, <3>2
  <2>2. HeldAt("back") = {"ptable"}
    BY Zenon, HeldFacts DEF PtableOnly
  <2>3. Depth(HeldAt("back")) = 1
    BY Zenon, <2>2, DepthFacts
  <2> QED BY Zenon, <2>1, <2>3
<1>5. /\ lkcpu[lk] = c
      /\ ncli[c] = Depth(HeldAt(l)) /\ ~fl[c]
      /\ hpc[t] # None => ~intena[c]
      /\ hpc[t] = None /\ l # "back" => intena[c]
  BY <1>1, <1>2, <1>3, <1>4 DEF CpuInv
<1>6. locked[lk]
  BY Zenon, <1>3, <1>5, SpinAssumption DEF KernelInv, LockInv
<1>7. Holding(c, lk) /\ ~PopCliPanics(c)
  BY <1>4, <1>5, <1>6 DEF Holding, PopCliPanics
<1>8. /\ locked' = [locked EXCEPT ![lk] = FALSE]
      /\ lkcpu' = [lkcpu EXCEPT ![lk] = None]
      /\ ncli' = [ncli EXCEPT ![c] = @ - 1]
      /\ fl' = [fl EXCEPT ![c] = ncli[c] = 1 /\ intena[c]]
      /\ UNCHANGED <<intena, spin, panicked>>
  BY Zenon, <1>2, <1>7 DEF Release, PopCli
<1>9. /\ ThreadType' /\ PlaceInv' /\ ParkInv'
      /\ Cur(on[c])' = k
      /\ hpc'[on[c]] = None <=> hpc[on[c]] = None
      /\ \A d \in CPUs \ {c} : pc'[on[d]] = pc[on[d]] /\ hpc'[on[d]] = hpc[on[d]]
  BY Zenon, <1>2, GotoPlace
<1>10. SpinTypeOK' /\ ~panicked' /\ LockInv'
  BY <1>3, <1>8 DEF KernelInv, SpinTypeOK, LockInv
<1>11. CpuInv(c)'
  <2>1. \A x \in Locks : lkcpu'[x] = c <=> x \in HeldAt(k)
    BY <1>1, <1>2, <1>3, <1>8, SpinAssumption DEF CpuInv, KernelInv, SpinTypeOK
  <2>2. /\ spin'[c] = None /\ ncli'[c] = ncli[c] - 1 /\ intena'[c] = intena[c]
        /\ fl'[c] <=> ncli[c] = 1 /\ intena[c]
    BY Zenon, <1>2, <1>8 DEF KernelInv, SpinTypeOK
  <2>3. Cur(on[c])' = k /\ (hpc'[on'[c]] = None <=> hpc[t] = None)
    BY Zenon, <1>9
  <2> HIDE DEF t
  <2> QED BY <1>4, <1>5, <2>1, <2>2, <2>3 DEF CpuInv
<1>12. \A d \in CPUs \ {c} : CpuInv(d)'
  <2> SUFFICES ASSUME NEW d \in CPUs, d # c PROVE CpuInv(d)'
    BY Zenon
  <2>1. ncli'[d] = ncli[d] /\ intena'[d] = intena[d] /\ fl'[d] = fl[d] /\ spin'[d] = spin[d]
    BY Zenon, <1>8 DEF KernelInv, SpinTypeOK
  <2>2. \A x \in Locks : lkcpu'[x] = d <=> lkcpu[x] = d
    BY Zenon, <1>5, <1>8, SpinAssumption DEF KernelInv, SpinTypeOK
  <2> QED BY Zenon, <1>9, <2>1, <2>2, CpuFrame DEF KernelInv
<1> QED BY Zenon, <1>9, <1>10, <1>11, <1>12 DEF KernelInv

\* A thread that goes on under the same locks.
LEMMA MoveInv ==
  ASSUME KernelInv, NEW c \in CPUs, NEW l, NEW k, InLabel(c, l), Goto(c, k),
         HeldAt(k) = HeldAt(l), Legal(c, k), l \notin {"back", "sti"}, k # "back",
         UNCHANGED spinvars, on' = on, saved' = saved, OnlyWoken
  PROVE  KernelInv'
<1> DEFINE t == on[c]
<1>1. CpuInv(c)
  BY Zenon DEF KernelInv
<1>2. Cur(t) = l /\ spin[c] = None
  BY Zenon DEF InLabel
<1>3. UNCHANGED <<locked, lkcpu, ncli, intena, fl, spin, panicked>>
  BY Zenon DEF spinvars
<1>4. /\ ThreadType' /\ PlaceInv' /\ ParkInv'
      /\ Cur(on[c])' = k
      /\ hpc'[on[c]] = None <=> hpc[on[c]] = None
      /\ \A d \in CPUs \ {c} : pc'[on[d]] = pc[on[d]] /\ hpc'[on[d]] = hpc[on[d]]
  BY Zenon, GotoPlace
<1>5. SpinTypeOK' /\ ~panicked' /\ LockInv'
  BY Zenon, <1>3 DEF KernelInv, SpinTypeOK, LockInv
<1>6. CpuInv(c)'
  <2>1. Cur(on[c])' = k /\ (hpc'[on'[c]] = None <=> hpc[t] = None)
    BY Zenon, <1>4
  <2> QED BY Zenon, <1>1, <1>2, <1>3, <2>1 DEF CpuInv
<1>7. \A d \in CPUs \ {c} : CpuInv(d)'
  BY Zenon, <1>3, <1>4, CpuFrame DEF KernelInv
<1> QED BY Zenon, <1>4, <1>5, <1>6, <1>7 DEF KernelInv

-----------------------------------------------------------------------------
(* Steps that change the thread on a CPU, or its context *)

\* sched() does not panic: only ptable.lock is held, and interrupts are off.
\* scheduler() goes on behind swtch(), with the lock the process has taken.
LEMMA SchedInv ==
  ASSUME KernelInv, NEW c \in CPUs, NEW l, NEW st \in States, NEW k,
         InLabel(c, l), Sched(c, st, k), on[c] \in Procs, Legal(c, k),
         HeldAt(l) = {"ptable"}, l # "back",
         st \in {"RUNNABLE", "SLEEPING"} =>
           \/ hpc[on[c]] = None /\ k = "wake"
           \/ hpc[on[c]] # None /\ k = "yielded"
  PROVE  KernelInv' /\ Cur(on[c])' = "back" /\ OthersStay(c)
<1> DEFINE t == on[c]
<1>1. CpuInv(c)
  BY Zenon DEF KernelInv
<1>2. Cur(t) = l /\ spin[c] = None /\ "ptable" \in Locks /\ t \in Procs /\ t \notin CPUs
  BY Zenon, ConsoleAssumption DEF InLabel
<1>3. Depth(HeldAt(l)) = 1
  BY Zenon, DepthFacts
<1>4. /\ lkcpu["ptable"] = c /\ ncli[c] = 1 /\ ~fl[c]
      /\ hpc[t] # None => ~intena[c]
      /\ hpc[t] = None => intena[c]
      /\ \A x \in Locks : lkcpu[x] = c <=> x = "ptable"
  BY <1>1, <1>2, <1>3 DEF CpuInv
<1>5. ~SchedPanics(c)
  BY Zenon, <1>2, <1>4, SpinAssumption DEF SchedPanics, Holding, KernelInv, LockInv
<1>6. /\ state' = [state EXCEPT ![t] = st]
      /\ saved' = [saved EXCEPT ![t] = intena[c]]
      /\ on' = [on EXCEPT ![c] = c]
      /\ Goto(c, k)
      /\ UNCHANGED <<locked, lkcpu, ncli, intena, fl, spin, panicked>>
  BY Zenon, <1>5 DEF Sched, lkvars, clivars
<1>7. /\ \A u \in Threads \ {t} : pc'[u] = pc[u] /\ hpc'[u] = hpc[u]
      /\ hpc[t] = None => pc'[t] = k /\ hpc'[t] = None
      /\ hpc[t] # None => pc'[t] = pc[t] /\ hpc'[t] = k
      /\ pc' \in [Threads -> ProcLabels \cup LoopLabels]
      /\ hpc' \in [Threads -> TrapLabels \cup {None}]
  <2>1. CASE hpc[t] = None
    BY <1>2, <1>6, <2>1 DEF Goto, Legal, KernelInv, ThreadType, Threads
  <2>2. CASE hpc[t] # None
    BY ZenonT(30), <1>2, <1>6, <2>2 DEF Goto, Legal, KernelInv, ThreadType, Threads
  <2> QED BY Zenon, <2>1, <2>2
<1>8. on'[c] = c /\ \A d \in CPUs \ {c} : on'[d] = on[d]
  BY Zenon, <1>6 DEF KernelInv, ThreadType
<1>9. /\ state'[t] = st /\ saved'[t] = intena[c]
      /\ \A p \in Procs \ {t} : state'[p] = state[p] /\ saved'[p] = saved[p]
  BY Zenon, <1>2, <1>6 DEF KernelInv, ThreadType
<1>10. SpinTypeOK' /\ ~panicked' /\ LockInv'
  BY Zenon, <1>6 DEF KernelInv, SpinTypeOK, LockInv
<1>11. ThreadType'
  BY Zenon, <1>2, <1>6, <1>7 DEF KernelInv, ThreadType, SpinTypeOK, Threads
<1>12. PlaceInv'
  <2>1. (\A d \in CPUs : on[d] = d \/ on[d] \in Procs)'
    BY Zenon, <1>8 DEF KernelInv, PlaceInv
  <2>2. (\A d, f \in CPUs : on[d] = on[f] => d = f)'
    BY <1>8, ConsoleAssumption DEF KernelInv, PlaceInv
  <2>3. (\A d \in CPUs : on[d] # d => pc[d] = "back" /\ hpc[d] = None)'
    BY <1>2, <1>7, <1>8 DEF KernelInv, PlaceInv, Threads
  <2>4. (\A p \in Procs : pc[p] \in ProcLabels)'
    BY Zenon, <1>2, <1>7 DEF KernelInv, PlaceInv, Threads, Legal
  <2>5. (\A d \in CPUs : pc[d] \in LoopLabels /\ hpc[d] \in KeyLabels \cup {None})'
    BY Zenon, <1>2, <1>7 DEF KernelInv, PlaceInv, Threads
  <2>6. (\A u \in Threads : hpc[u] # None => HeldAt(pc[u]) = {})'
    BY <1>2, <1>7 DEF KernelInv, PlaceInv, Threads
  <2> QED BY Zenon, <2>1, <2>2, <2>3, <2>4, <2>5, <2>6 DEF PlaceInv
<1>13. ParkInv'
  <2> SUFFICES ASSUME NEW p \in Procs, state'[p] \in {"RUNNABLE", "SLEEPING"}
               PROVE  /\ \A d \in CPUs : on'[d] # p
                      /\ \/ hpc'[p] = None /\ pc'[p] = "wake" /\ saved'[p]
                         \/ hpc'[p] = None /\ pc'[p] = "forkret"
                         \/ hpc'[p] = "yielded" /\ ~saved'[p]
    BY Zenon DEF ParkInv
  <2>1. CASE p = t
    <3>1. \A d \in CPUs : on'[d] # t
      BY ZenonT(30), <1>2, <1>8 DEF KernelInv, PlaceInv
    <3> QED BY Zenon, <2>1, <3>1, <1>4, <1>7, <1>9
  <2>2. CASE p # t
    <3>1. state[p] \in {"RUNNABLE", "SLEEPING"} /\ p \notin CPUs
      BY Zenon, <2>2, <1>9, ConsoleAssumption
    <3> QED BY <2>2, <3>1, <1>7, <1>8, <1>9 DEF KernelInv, ParkInv, Threads
  <2> QED BY Zenon, <2>1, <2>2
<1>14. CpuInv(c)'
  <2>1. pc'[c] = "back" /\ hpc'[c] = None
    BY Zenon, <1>2, <1>7 DEF KernelInv, PlaceInv, Threads
  <2>2. Cur(on[c])' = "back" /\ hpc'[on'[c]] = None
    BY Zenon, <1>8, <2>1 DEF Cur
  <2>3. HeldAt("back") = {"ptable"} /\ Depth(HeldAt("back")) = 1
    BY Zenon, HeldFacts, DepthFacts DEF PtableOnly
  <2>4. ncli'[c] = 1 /\ ~fl'[c] /\ spin'[c] = None
    BY Zenon, <1>2, <1>4, <1>6
  <2> QED BY <1>4, <1>6, <2>2, <2>3, <2>4 DEF CpuInv
<1>15. Cur(on[c])' = "back" /\ OthersStay(c)
  <2>1. \A d \in CPUs \ {c} : on[d] \in Threads \ {t}
    BY Zenon DEF KernelInv, PlaceInv, ThreadType
  <2>2. pc'[c] = "back" /\ hpc'[c] = None
    BY Zenon, <1>2, <1>7 DEF KernelInv, PlaceInv, Threads
  <2> QED BY ZenonT(30), <1>7, <1>8, <2>1, <2>2 DEF Cur, OthersStay
<1>16. \A d \in CPUs \ {c} : CpuInv(d)'
  <2> SUFFICES ASSUME NEW d \in CPUs, d # c PROVE CpuInv(d)'
    BY Zenon
  <2>1. on[d] \in Threads \ {t}
    BY Zenon DEF KernelInv, PlaceInv, ThreadType
  <2> QED BY ZenonT(30), <1>6, <1>7, <1>8, <2>1, CpuFrame DEF KernelInv
<1> QED BY Zenon, <1>10, <1>11, <1>12, <1>13, <1>14, <1>15, <1>16 DEF KernelInv

\* swtch() to a process: it finds the lock it needs, and its own intena.
LEMMA DispatchInv ==
  ASSUME KernelInv, NEW c \in CPUs, NEW l \in {"pick", "chosen"}, InLabel(c, l), Dispatch(c)
  PROVE  KernelInv' /\ Cur(on[c])' \in {"wake", "forkret", "yielded"} /\ OthersStay(c)
<1>1. CpuInv(c)
  BY Zenon DEF KernelInv
<1>2. PICK p \in Runnable :
        /\ on' = [on EXCEPT ![c] = p]
        /\ state' = [state EXCEPT ![p] = "RUNNING"]
        /\ pc' = [pc EXCEPT ![c] = "back"]
        /\ intena' = [intena EXCEPT ![c] = IF pc[p] = "forkret" THEN @ ELSE saved[p]]
        /\ saved' = [saved EXCEPT ![p] = FALSE]
  BY Zenon DEF Dispatch
<1>3. UNCHANGED <<locked, lkcpu, ncli, fl, spin, panicked, hpc>>
  BY Zenon DEF Dispatch, lkvars
<1>4. p \in Procs /\ p \notin CPUs /\ state[p] = "RUNNABLE" /\ p \in Threads /\ c \in Threads
  BY Zenon, ConsoleAssumption DEF Runnable, Threads
<1>5. on[c] = c /\ hpc[c] = None /\ Cur(on[c]) = l /\ spin[c] = None
  <2>1. Legal(c, l) /\ Cur(on[c]) = l
    BY Zenon, LegalCur DEF InLabel
  <2>2. l \notin ProcLabels /\ l \notin KeyLabels /\ l \notin TrapLabels
    BY Zenon DEF ProcLabels, KeyLabels, TrapLabels
  <2> QED BY Zenon, <2>1, <2>2 DEF Legal, KernelInv, PlaceInv, InLabel
<1>6. /\ \A d \in CPUs : on[d] # p
      /\ \/ hpc[p] = None /\ pc[p] = "wake" /\ saved[p]
         \/ hpc[p] = None /\ pc[p] = "forkret"
         \/ hpc[p] = "yielded" /\ ~saved[p]
  BY Zenon, <1>4 DEF KernelInv, ParkInv
<1>7. HeldAt(l) = {"ptable"} /\ Depth(HeldAt(l)) = 1 /\ l # "back"
  <2>1. l \in PtableOnly /\ l # "back"
    BY Zenon DEF PtableOnly
  <2>2. HeldAt(l) = {"ptable"}
    BY Zenon, <2>1, HeldFacts
  <2>3. Depth({"ptable"}) = 1
    BY DEF Depth
  <2> QED BY Zenon, <2>1, <2>2, <2>3
<1>8. /\ ncli[c] = 1 /\ ~fl[c] /\ intena[c]
      /\ \A x \in Locks : lkcpu[x] = c <=> x = "ptable"
  BY <1>1, <1>5, <1>7 DEF CpuInv
<1>9. on'[c] = p /\ \A d \in CPUs \ {c} : on'[d] = on[d]
  BY Zenon, <1>2 DEF KernelInv, ThreadType
<1>10. /\ pc'[c] = "back" /\ \A u \in Threads \ {c} : pc'[u] = pc[u]
       /\ pc' \in [Threads -> ProcLabels \cup LoopLabels]
  BY Zenon, <1>2, <1>4 DEF KernelInv, ThreadType, LoopLabels
<1>11. SpinTypeOK' /\ ~panicked' /\ LockInv'
  BY Zenon, <1>2, <1>3, <1>4 DEF KernelInv, SpinTypeOK, LockInv, ThreadType
<1>12. ThreadType'
  BY Zenon, <1>2, <1>3, <1>4, <1>10 DEF KernelInv, ThreadType, States
<1>13. PlaceInv'
  <2>1. (\A d \in CPUs : on[d] = d \/ on[d] \in Procs)'
    BY Zenon, <1>4, <1>9 DEF KernelInv, PlaceInv
  <2>2. (\A d, f \in CPUs : on[d] = on[f] => d = f)'
    <3> SUFFICES ASSUME NEW d \in CPUs, NEW f \in CPUs, on'[d] = on'[f] PROVE d = f
      BY Zenon
    <3>1. d = c <=> f = c
      BY Zenon, <1>6, <1>9
    <3> QED BY Zenon, <1>9, <3>1 DEF KernelInv, PlaceInv
  <2>3. (\A d \in CPUs : on[d] # d => pc[d] = "back" /\ hpc[d] = None)'
    BY Zenon, <1>3, <1>5, <1>9, <1>10 DEF KernelInv, PlaceInv, Threads
  <2>4. (\A q \in Procs : pc[q] \in ProcLabels)'
    BY ZenonT(30), <1>10, ConsoleAssumption DEF KernelInv, PlaceInv, Threads
  <2>5. (\A d \in CPUs : pc[d] \in LoopLabels /\ hpc[d] \in KeyLabels \cup {None})'
    BY Zenon, <1>3, <1>10 DEF KernelInv, PlaceInv, Threads, LoopLabels
  <2>6. (\A u \in Threads : hpc[u] # None => HeldAt(pc[u]) = {})'
    BY Zenon, <1>3, <1>5, <1>10 DEF KernelInv, PlaceInv
  <2> QED BY Zenon, <2>1, <2>2, <2>3, <2>4, <2>5, <2>6 DEF PlaceInv
<1>14. ParkInv'
  <2> SUFFICES ASSUME NEW q \in Procs, state'[q] \in {"RUNNABLE", "SLEEPING"}
               PROVE  /\ \A d \in CPUs : on'[d] # q
                      /\ \/ hpc'[q] = None /\ pc'[q] = "wake" /\ saved'[q]
                         \/ hpc'[q] = None /\ pc'[q] = "forkret"
                         \/ hpc'[q] = "yielded" /\ ~saved'[q]
    BY Zenon DEF ParkInv
  <2>1. q # p /\ state[q] \in {"RUNNABLE", "SLEEPING"} /\ saved'[q] = saved[q]
    BY Zenon, <1>2, <1>4 DEF KernelInv, ThreadType
  <2>2. q \in Threads \ {c}
    BY Zenon, ConsoleAssumption DEF Threads
  <2> QED BY Zenon, <1>3, <1>9, <1>10, <2>1, <2>2 DEF KernelInv, ParkInv
<1>15. Cur(on[c])' = Cur(p) /\ hpc'[on'[c]] = hpc[p] /\ Cur(p) \in {"wake", "forkret", "yielded"}
  <2>1. Cur(on[c])' = Cur(p) /\ hpc'[on'[c]] = hpc[p]
    BY Zenon, <1>3, <1>4, <1>9, <1>10 DEF Cur
  <2>2. Cur(p) \in {"wake", "forkret", "yielded"}
    BY Zenon, <1>6 DEF Cur, None
  <2> QED BY Zenon, <2>1, <2>2
<1>16. CpuInv(c)'
  <2>1. HeldAt(Cur(p)) = {"ptable"}
    BY Zenon, <1>15, HeldFacts DEF PtableOnly
  <2>2. HeldAt(Cur(p)) = {"ptable"} /\ Depth(HeldAt(Cur(p))) = 1
    BY Zenon, <2>1, DepthFacts
  <2>3. /\ ncli'[c] = 1 /\ ~fl'[c] /\ spin'[c] = None
        /\ intena'[c] = IF pc[p] = "forkret" THEN intena[c] ELSE saved[p]
    BY Zenon, <1>2, <1>3, <1>5, <1>8 DEF KernelInv, SpinTypeOK
  <2>4. hpc[p] = None => intena'[c]
    BY Zenon, <1>6, <1>8, <2>3 DEF None
  <2>5. hpc[p] # None => ~intena'[c]
    <3>1. ASSUME hpc[p] # None PROVE pc[p] # "forkret"
      <4>1. HeldAt(pc[p]) = {} /\ HeldAt("forkret") = {"ptable"}
        BY Zenon, <1>4, <3>1, HeldFacts DEF KernelInv, PlaceInv, PtableOnly
      <4> QED BY Zenon, <4>1
    <3> QED BY Zenon, <1>6, <2>3, <3>1
  <2> QED BY <1>3, <1>8, <1>15, <2>2, <2>3, <2>4, <2>5 DEF CpuInv
<1>17. \A d \in CPUs \ {c} : on[d] \in Threads \ {c}
  BY Zenon, <1>5 DEF KernelInv, PlaceInv, ThreadType
<1>18. OthersStay(c)
  BY Zenon, <1>3, <1>9, <1>10, <1>17 DEF Cur, OthersStay
<1>19. \A d \in CPUs \ {c} : CpuInv(d)'
  <2> SUFFICES ASSUME NEW d \in CPUs, d # c PROVE CpuInv(d)'
    BY Zenon
  <2>1. intena'[d] = intena[d]
    BY Zenon, <1>2 DEF KernelInv, SpinTypeOK
  <2> QED BY Zenon, <1>3, <1>9, <1>10, <1>17, <2>1, CpuFrame DEF KernelInv
<1> QED BY Zenon, <1>11, <1>12, <1>13, <1>14, <1>15, <1>16, <1>18, <1>19 DEF KernelInv

\* An interrupt finds no lock held, by its thread or by the acquire() it is in.
LEMMA InterruptInv ==
  ASSUME KernelInv, NEW c \in CPUs, NEW k, Interrupt(c, k), HeldAt(k) = {},
         k \in TrapLabels, on[c] \in Procs \/ k \in KeyLabels
  PROVE  KernelInv' /\ Cur(on[c])' = k /\ HeldAt(Cur(on[c])) = {} /\ OthersStay(c)
<1> DEFINE t == on[c]
           l == Cur(t)
<1>1. CpuInv(c)
  BY Zenon DEF KernelInv
<1>2. /\ fl[c] /\ hpc[t] = None
      /\ fl' = [fl EXCEPT ![c] = FALSE]
      /\ hpc' = [hpc EXCEPT ![t] = k]
      /\ UNCHANGED <<locked, lkcpu, ncli, intena, spin, panicked, on, pc, state, saved>>
  BY Zenon DEF Interrupt
<1>3. k # None /\ t \in Threads
  BY Zenon DEF TrapLabels, KeyLabels, None, KernelInv, ThreadType
<1>4. Depth(HeldAt(l)) \in 0 .. 2 /\ (Depth(HeldAt(l)) = 0 => HeldAt(l) = {})
  BY Zenon, HeldType, DepthFacts
<1>5. HeldAt(l) = {} /\ ncli[c] = 0 /\ spin[c] = None
  BY Zenon, <1>1, <1>2, InterruptsOn
<1>6. hpc'[t] = k /\ \A u \in Threads \ {t} : hpc'[u] = hpc[u]
  BY Zenon, <1>2, <1>3 DEF KernelInv, ThreadType
<1>7. SpinTypeOK' /\ ~panicked' /\ LockInv' /\ ThreadType'
  BY Zenon, <1>2, <1>3 DEF KernelInv, SpinTypeOK, LockInv, ThreadType
<1>8. PlaceInv'
  <2>1. (\A d \in CPUs : on[d] # d => pc[d] = "back" /\ hpc[d] = None)'
    BY <1>2, <1>6, ConsoleAssumption DEF KernelInv, PlaceInv, Threads
  <2>2. (\A d \in CPUs : pc[d] \in LoopLabels /\ hpc[d] \in KeyLabels \cup {None})'
    BY Zenon, <1>2, <1>6, ConsoleAssumption DEF KernelInv, PlaceInv, Threads
  <2>3. (\A u \in Threads : hpc[u] # None => HeldAt(pc[u]) = {})'
    BY Zenon, <1>2, <1>5, <1>6 DEF KernelInv, PlaceInv, Cur
  <2> QED BY Zenon, <1>2, <2>1, <2>2, <2>3 DEF KernelInv, PlaceInv
<1>9. ParkInv'
  BY Zenon, <1>2, <1>6 DEF KernelInv, ParkInv, Threads
<1>10. Cur(on[c])' = k /\ hpc'[on'[c]] # None
  BY Zenon, <1>2, <1>3, <1>6 DEF Cur
<1>11. CpuInv(c)'
  <2>1. Depth(HeldAt(k)) = 0
    BY Zenon, DepthFacts
  <2>2. ~fl'[c] /\ ncli'[c] = 0 /\ spin'[c] = None
    BY Zenon, <1>2, <1>5 DEF KernelInv, SpinTypeOK
  <2> QED BY Zenon, <1>1, <1>2, <1>5, <1>10, <2>1, <2>2 DEF CpuInv
<1>12. \A d \in CPUs \ {c} : on[d] \in Threads \ {t}
  BY Zenon DEF KernelInv, PlaceInv, ThreadType
<1>13. OthersStay(c)
  BY Zenon, <1>2, <1>6, <1>12 DEF Cur, OthersStay
<1>14. \A d \in CPUs \ {c} : CpuInv(d)'
  <2> SUFFICES ASSUME NEW d \in CPUs, d # c PROVE CpuInv(d)'
    BY Zenon
  <2>1. fl'[d] = fl[d]
    BY Zenon, <1>2 DEF KernelInv, SpinTypeOK
  <2> QED BY Zenon, <1>2, <1>6, <1>12, <2>1, CpuFrame DEF KernelInv
<1> QED BY Zenon, <1>5, <1>7, <1>8, <1>9, <1>10, <1>11, <1>13, <1>14 DEF KernelInv

\* The end of trap(): back to what was interrupted, or into exit().
LEMMA EndTrapInv ==
  ASSUME KernelInv, NEW c \in CPUs, EndTrap(c)
  PROVE  KernelInv' /\ HeldAt(Cur(on[c]))' = {} /\ OthersStay(c)
<1> DEFINE t == on[c]
<1>1. CpuInv(c)
  BY DEF KernelInv
<1>2. InLabel(c, "iret") /\ Cur(t) = "iret" /\ spin[c] = None
  BY Zenon DEF EndTrap, InLabel
<1>3. hpc[t] = "iret" /\ hpc[t] # None /\ t \in Threads
  <2>1. Legal(c, "iret")
    BY Zenon, <1>2, LegalCur
  <2> QED BY Zenon, <1>2, <2>1 DEF Legal, ProcLabels, LoopLabels, Cur, KernelInv, ThreadType
<1>4. UNCHANGED <<locked, lkcpu, ncli, intena, spin, panicked, on, pc, state, saved>>
  BY Zenon DEF EndTrap, lkvars
<1>5. HeldAt("iret") = {} /\ Depth(HeldAt("iret")) = 0
  BY Zenon, HeldFacts, DepthFacts DEF Unlocked
<1>6. CASE Stopped(t)
  <2>1. hpc' = [hpc EXCEPT ![t] = "exit"] /\ fl' = fl /\ t \in Procs
    BY Zenon, <1>6 DEF EndTrap, Stopped
  <2>2. Goto(c, "exit")
    BY Zenon, <1>3, <1>4, <2>1 DEF Goto
  <2>3. HeldAt("exit") = {}
    BY Zenon, HeldFacts DEF Unlocked
  <2>4. Legal(c, "exit")
    BY Zenon, <1>3, <2>1 DEF Legal, TrapLabels
  <2>5. UNCHANGED spinvars
    BY Zenon, <1>4, <2>1 DEF spinvars
  <2>6. OnlyWoken
    BY Zenon, <1>4 DEF OnlyWoken, KernelInv, ThreadType
  <2>7. KernelInv'
    BY Zenon, <1>2, <1>4, <1>5, <2>2, <2>3, <2>4, <2>5, <2>6, MoveInv
  <2>8. Cur(on[c])' = "exit" /\ OthersStay(c)
    BY Zenon, <1>4, <2>2, GotoLabels DEF None
  <2> QED BY Zenon, <2>3, <2>7, <2>8 DEF HeldAt
<1>7. CASE ~Stopped(t)
  <2>1. hpc' = [hpc EXCEPT ![t] = None] /\ fl' = [fl EXCEPT ![c] = TRUE]
    BY Zenon, <1>7 DEF EndTrap
  <2>2. hpc'[t] = None /\ \A u \in Threads \ {t} : hpc'[u] = hpc[u]
    BY Zenon, <1>3, <2>1 DEF KernelInv, ThreadType
  <2>3. SpinTypeOK' /\ ~panicked' /\ LockInv' /\ ThreadType'
    BY Zenon, <1>4, <2>1 DEF KernelInv, SpinTypeOK, LockInv, ThreadType
  <2>4. PlaceInv'
    <3>1. (\A d \in CPUs : on[d] # d => pc[d] = "back" /\ hpc[d] = None)'
      BY Zenon, <1>4, <2>2, ConsoleAssumption DEF KernelInv, PlaceInv, Threads
    <3>2. (\A d \in CPUs : pc[d] \in LoopLabels /\ hpc[d] \in KeyLabels \cup {None})'
      BY Zenon, <1>4, <2>2 DEF KernelInv, PlaceInv, Threads
    <3>3. (\A u \in Threads : hpc[u] # None => HeldAt(pc[u]) = {})'
      BY Zenon, <1>4, <2>2 DEF KernelInv, PlaceInv
    <3> QED BY Zenon, <1>4, <3>1, <3>2, <3>3 DEF KernelInv, PlaceInv
  <2>5. ParkInv'
    BY Zenon, <1>4, <2>2 DEF KernelInv, ParkInv, Threads
  <2>6. Cur(on[c])' = pc[t] /\ hpc'[on'[c]] = None /\ HeldAt(pc[t]) = {}
    <3>1. Cur(on[c])' = pc[t] /\ hpc'[on'[c]] = None
      BY Zenon, <1>4, <2>2 DEF Cur
    <3>2. HeldAt(pc[t]) = {}
      BY Zenon, <1>3 DEF KernelInv, PlaceInv
    <3> QED BY Zenon, <3>1, <3>2
  <2>7. CpuInv(c)'
    <3>1. Depth(HeldAt(pc[t])) = 0
      BY Zenon, <2>6, DepthFacts
    <3>2. ncli[c] = 0 /\ \A x \in Locks : lkcpu[x] # c
      BY Zenon, <1>1, <1>2, <1>5, NoLocks
    <3>3. fl'[c] /\ ncli'[c] = 0 /\ spin'[c] = None
      BY Zenon, <1>2, <1>4, <2>1, <3>2 DEF KernelInv, SpinTypeOK
    <3>4. \A lk \in Locks : lkcpu'[lk] = c <=> lk \in HeldAt(pc[t])
      BY Zenon, <1>4, <2>6, <3>2
    <3>5. /\ ncli'[c] = Depth(HeldAt(pc[t])) + (IF spin'[c] = None THEN 0 ELSE 1)
          /\ ~(ncli'[c] > 0)
      BY <3>1, <3>3
    <3> QED BY Zenon, <2>6, <3>3, <3>4, <3>5 DEF CpuInv
  <2>8. \A d \in CPUs \ {c} : on[d] \in Threads \ {t}
    BY Zenon DEF KernelInv, PlaceInv, ThreadType
  <2>9. OthersStay(c)
    BY Zenon, <1>4, <2>2, <2>8 DEF Cur, OthersStay
  <2>10. \A d \in CPUs \ {c} : CpuInv(d)'
    <3> SUFFICES ASSUME NEW d \in CPUs, d # c PROVE CpuInv(d)'
      OBVIOUS
    <3>1. fl'[d] = fl[d]
      BY Zenon, <2>1 DEF KernelInv, SpinTypeOK
    <3> QED BY Zenon, <1>4, <2>2, <2>8, <3>1, CpuFrame DEF KernelInv
  <2>11. HeldAt(Cur(on[c]))' = {}
    BY Zenon, <2>6 DEF HeldAt
  <2> QED BY Zenon, <2>3, <2>4, <2>5, <2>7, <2>9, <2>10, <2>11 DEF KernelInv
<1> QED BY Zenon, <1>6, <1>7

\* sti(): scheduler() holds nothing there.
LEMMA StiInv ==
  ASSUME KernelInv, NEW c \in CPUs, Sti(c)
  PROVE  KernelInv'
<1>1. CpuInv(c)
  BY DEF KernelInv
<1>2. /\ Cur(on[c]) = "sti" /\ spin[c] = None /\ Goto(c, "idle")
      /\ fl' = [fl EXCEPT ![c] = TRUE]
      /\ UNCHANGED <<locked, lkcpu, ncli, intena, spin, panicked, on, state, saved>>
  BY Zenon DEF Sti, InLabel, lkvars
<1>3. hpc[on[c]] = None /\ Legal(c, "idle")
  BY Zenon, <1>2, LegalCur DEF Legal, ProcLabels, LoopLabels, TrapLabels, KeyLabels
<1>4. OnlyWoken
  BY Zenon, <1>2 DEF OnlyWoken, KernelInv, ThreadType
<1>5. /\ ThreadType' /\ PlaceInv' /\ ParkInv'
      /\ Cur(on[c])' = "idle"
      /\ hpc'[on[c]] = None <=> hpc[on[c]] = None
      /\ \A d \in CPUs \ {c} : pc'[on[d]] = pc[on[d]] /\ hpc'[on[d]] = hpc[on[d]]
  BY Zenon, <1>2, <1>3, <1>4, GotoPlace
<1>6. SpinTypeOK' /\ ~panicked' /\ LockInv'
  BY Zenon, <1>2 DEF KernelInv, SpinTypeOK, LockInv
<1>7. CpuInv(c)'
  <2>1. HeldAt("sti") = {} /\ HeldAt("idle") = {} /\ Depth({}) = 0
    BY Zenon, HeldFacts, DepthFacts DEF Unlocked
  <2>2. ncli[c] = 0 /\ \A x \in Locks : lkcpu[x] # c
    BY Zenon, <1>1, <1>2, <2>1, NoLocks
  <2>3. Cur(on[c])' = "idle" /\ hpc'[on'[c]] = None
    BY Zenon, <1>2, <1>3, <1>5
  <2>4. fl'[c] /\ ncli'[c] = 0 /\ spin'[c] = None
    BY Zenon, <1>2, <2>2 DEF KernelInv, SpinTypeOK
  <2> QED BY <1>2, <2>1, <2>2, <2>3, <2>4 DEF CpuInv
<1>8. \A d \in CPUs \ {c} : CpuInv(d)'
  <2> SUFFICES ASSUME NEW d \in CPUs, d # c PROVE CpuInv(d)'
    OBVIOUS
  <2>1. fl'[d] = fl[d]
    BY Zenon, <1>2 DEF KernelInv, SpinTypeOK
  <2> QED BY Zenon, <1>2, <1>5, <2>1, CpuFrame DEF KernelInv
<1> QED BY Zenon, <1>5, <1>6, <1>7, <1>8 DEF KernelInv

=============================================================================
