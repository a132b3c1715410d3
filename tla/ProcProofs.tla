----------------------------- MODULE ProcProofs -----------------------------
(***************************************************************************)
(* Proofs about Proc for every number of slots and CPUs, every channel     *)
(* set, every time slice and every width of int.                           *)
(***************************************************************************)
EXTENDS Proc, TLAPS, WellFoundedInduction

\* A nonempty set of naturals has a least element: the first slot a scan of
\* ptable.proc finds.
LEMMA LeastNatural ==
  ASSUME NEW S, S \subseteq Nat, S # {}
  PROVE  \E m \in S : \A n \in S : m <= n
<1>1. PICK m \in S : \A n \in S : ~(<<n, m>> \in OpToRel(<, Nat))
  BY NatLessThanWellFounded, WFMin, Zenon
<1>2. \A n \in S : (<<n, m>> \in OpToRel(<, Nat)) <=> n < m
  BY Zenon DEF OpToRel
<1>3. \A n \in S : ~(n < m)
  BY <1>1, <1>2, Zenon
<1>4. \A n \in S : m <= n
  BY <1>3, SMT
<1> QED BY <1>4, Zenon

\* The 32-bit addition stays in the range of int.
LEMMA WrapType == \A x \in Int : Wrap(x) \in Int32
<1> SUFFICES ASSUME NEW x \in Int PROVE Wrap(x) \in Int32
  BY Zenon
<1>1. 2 * INT_HALF \in Nat \ {0}
  BY ProcAssumption
<1>2. \A a \in Int, b \in Nat \ {0} : a % b \in 0 .. b - 1
  OBVIOUS
<1>3. (x + INT_HALF) % (2 * INT_HALF) \in 0 .. 2 * INT_HALF - 1
  BY <1>1, <1>2, ProcAssumption
<1> QED BY <1>3, ProcAssumption DEF Wrap, Int32

LEMMA QuantumType == \A w \in Int : w # 0 => Quantum(w) \in Int
BY ProcAssumption DEF Quantum

\* Leaving the CPU keeps the four variables it writes well typed, if the
\* weight is one the division can take.
LEMMA LeaveCpuType ==
  ASSUME TypeOK, NEW p \in Slots, NEW to \in ProcStates, NEW W \in SUBSET Slots,
         weight[p] # 0, LeaveCpu(p, to, W)
  PROVE  /\ state' \in [Slots -> ProcStates]
         /\ priority' \in [Slots -> Int32]
         /\ min_priority' \in Int32
         /\ cpu' \in [CPUs -> Slots \cup {Null}]
<1>1. state' \in [Slots -> ProcStates]
  BY Zenon DEF TypeOK, LeaveCpu, WokenState, ProcStates
<1>2. WokenPriority(W) \in [Slots -> Int32]
  BY Zenon DEF TypeOK, WokenPriority
<1>3. Wrap(WokenPriority(W)[p] + Quantum(weight[p])) \in Int32
  <2>1. WokenPriority(W)[p] \in Int
    BY <1>2, ProcAssumption DEF Int32
  <2>2. Quantum(weight[p]) \in Int
    BY Zenon, QuantumType DEF TypeOK
  <2> QED BY <2>1, <2>2, WrapType
<1>4. priority' \in [Slots -> Int32]
  BY Zenon, <1>2, <1>3 DEF LeaveCpu
<1>5. min_priority' \in Int32
  BY Zenon, <1>4 DEF LeaveCpu, MinPriority, Runnable, TypeOK
<1>6. cpu' \in [CPUs -> Slots \cup {Null}]
  BY Zenon DEF LeaveCpu, TypeOK
<1> QED BY Zenon, <1>1, <1>4, <1>5, <1>6

-----------------------------------------------------------------------------
(* Typing, and no division by zero in scheduler(). *)

\* Every fork() in progress owns an EMBRYO slot of its own, and every EMBRYO is
\* owned.
ForkInv ==
  /\ \A p \in Slots : pc[p] \in {"fork", "dup"} =>
       np[p] \in Slots /\ state[np[p]] = "EMBRYO" /\ Live(p)
  /\ \A p \in Slots : pc[p] \notin {"fork", "dup"} => np[p] = Null
  /\ \A p, q \in Slots : np[p] = np[q] /\ np[p] # Null => p = q
  /\ \A s \in Slots : state[s] = "EMBRYO" => \E p \in Slots : np[p] = s

TypeInv == TypeOK /\ WeightNotZero

LEMMA TypeInvInit == Init => TypeInv
<1> SUFFICES ASSUME Init PROVE TypeInv
  BY Zenon
<1>1. 3 \in Int32 /\ 0 \in Int32
  BY ProcAssumption DEF Int32
<1>2. InitProc \in Slots
  BY ProcAssumption DEF Slots, InitProc
<1>3. TypeOK
  <2>1. /\ killed \in [Slots -> BOOLEAN]
        /\ panicked \in BOOLEAN
        /\ parent \in [Slots -> Slots \cup {Null}]
        /\ chan \in [Slots -> Slots \cup Chans \cup {Null}]
        /\ np \in [Slots -> Slots \cup {Null}]
        /\ cpu \in [CPUs -> Slots \cup {Null}]
    BY Zenon DEF Init
  <2>2. /\ state \in [Slots -> ProcStates]
        /\ pid \in [Slots -> Nat]
        /\ priority \in [Slots -> Int32]
        /\ weight \in [Slots -> Int]
        /\ pc \in [Slots -> PCs]
    BY <1>1 DEF Init, ProcStates, PCs
  <2>3. min_priority \in Int32 /\ nextpid \in Nat \ {0}
    BY <1>1 DEF Init
  <2> QED BY Zenon, <2>1, <2>2, <2>3 DEF TypeOK
<1>4. WeightNotZero
  BY DEF Init, WeightNotZero
<1> QED BY Zenon, <1>3, <1>4 DEF TypeInv

\* The actions in which a process gives up its CPU.
LEMMA TypeInvLeave ==
  ASSUME TypeInv, NEW p \in Slots, state[p] = "RUNNING",
         NEW to \in {"RUNNABLE", "SLEEPING", "ZOMBIE"}, NEW W \in SUBSET Slots,
         \A q \in W : state[q] = "SLEEPING",
         LeaveCpu(p, to, W),
         weight' = weight, pid' = pid, killed' = killed, nextpid' = nextpid,
         np' = np, panicked' = panicked,
         parent' \in [Slots -> Slots \cup {Null}],
         chan' \in [Slots -> Slots \cup Chans \cup {Null}],
         pc' \in [Slots -> PCs]
  PROVE  TypeInv'
<1>1. weight[p] # 0
  BY Zenon DEF TypeInv, WeightNotZero
<1>2. to \in ProcStates
  BY Zenon DEF ProcStates
<1>3. /\ state' \in [Slots -> ProcStates]
      /\ priority' \in [Slots -> Int32]
      /\ min_priority' \in Int32
      /\ cpu' \in [CPUs -> Slots \cup {Null}]
  BY Zenon, <1>1, <1>2, LeaveCpuType DEF TypeInv
<1>4. TypeOK'
  BY Zenon, <1>3 DEF TypeInv, TypeOK
<1>5. \A q \in Slots : state'[q] # "UNUSED" => state[q] # "UNUSED"
  BY Zenon DEF TypeInv, TypeOK, LeaveCpu, WokenState
<1>6. WeightNotZero'
  BY Zenon, <1>5 DEF TypeInv, WeightNotZero
<1> QED BY Zenon, <1>4, <1>6 DEF TypeInv

LEMMA TypeInvStep == TypeInv /\ ForkInv /\ [Next]_vars => TypeInv'
<1> SUFFICES ASSUME TypeInv, ForkInv, [Next]_vars PROVE TypeInv'
  BY Zenon
<1> USE DEF TypeInv
<1>0. InitProc \in Slots
  BY ProcAssumption DEF Slots, InitProc
<1>1. ASSUME NEW c \in CPUs, Dispatch(c) PROVE TypeInv'
  BY <1>1 DEF Dispatch, TypeOK, ProcStates, WeightNotZero, table, local, Choice
<1>2. ASSUME NEW p \in Slots, Yield(p) PROVE TypeInv'
  BY <1>2, TypeInvLeave DEF Yield, Running, TypeOK, table, local
<1>3. ASSUME NEW p \in Slots, Trap(p) \/ ExitStart(p) PROVE TypeInv'
  BY Zenon, <1>3 DEF Trap, ExitStart, TypeOK, PCs, WeightNotZero, table
<1>4. ASSUME NEW p \in Slots, ForkAlloc(p) PROVE TypeInv'
  <2> PICK s \in Slots :
       /\ state' = [state EXCEPT ![s] = "EMBRYO"]
       /\ pid' = [pid EXCEPT ![s] = nextpid]
       /\ weight' = [weight EXCEPT ![s] = nextpid]
       /\ priority' = [priority EXCEPT ![s] = min_priority]
       /\ np' = [np EXCEPT ![p] = s]
    BY Zenon, <1>4 DEF ForkAlloc
  <2>1. nextpid \in Nat \ {0} /\ nextpid \in Int /\ nextpid + 1 \in Nat \ {0}
    BY DEF TypeOK
  <2>2. TypeOK'
    BY Zenon, <1>4, <2>1 DEF ForkAlloc, TypeOK, ProcStates, PCs
  <2>3. WeightNotZero'
    BY Zenon, <2>1 DEF TypeOK, WeightNotZero
  <2> QED BY Zenon, <2>2, <2>3
<1>5. ASSUME NEW p \in Slots, ForkFail(p) PROVE TypeInv'
  BY Zenon, <1>5 DEF ForkFail, TypeOK, ProcStates, PCs, WeightNotZero, table
<1>6. ASSUME NEW p \in Slots, ForkCopy(p) PROVE TypeInv'
  BY Zenon, <1>6 DEF ForkCopy, TypeOK, PCs, WeightNotZero
<1>7. ASSUME NEW p \in Slots, ForkDone(p) PROVE TypeInv'
  <2>1. TypeOK'
    BY Zenon, <1>7 DEF ForkDone, TypeOK, ProcStates, PCs, table
  <2>2. WeightNotZero'
    BY Zenon, <1>7 DEF ForkDone, TypeOK, WeightNotZero, table, ForkInv
  <2> QED BY Zenon, <2>1, <2>2
<1>8. ASSUME NEW p \in Slots, Exit(p) PROVE TypeInv'
  <2>1. /\ ExitWakes(p) \in SUBSET Slots
        /\ \A q \in ExitWakes(p) : state[q] = "SLEEPING"
    BY Zenon DEF ExitWakes, Sleepers
  <2>2. parent' \in [Slots -> Slots \cup {Null}]
    BY Zenon, <1>8, <1>0 DEF Exit, TypeOK
  <2> QED BY Zenon, <1>8, <2>1, <2>2, TypeInvLeave DEF Exit, Running, TypeOK, local
<1>9. CASE InitExit
  BY Zenon, <1>9 DEF InitExit, TypeOK, WeightNotZero, table
<1>10. ASSUME NEW p \in Slots, WaitReap(p) PROVE TypeInv'
  BY <1>10 DEF WaitReap, Zombies, Children, TypeOK, ProcStates, PCs, WeightNotZero
<1>11. ASSUME NEW p \in Slots, WaitFail(p) PROVE TypeInv'
  BY Zenon, <1>11 DEF WaitFail, TypeOK, PCs, WeightNotZero, table
<1>12. ASSUME NEW p \in Slots, WaitSleep(p) PROVE TypeInv'
  <2>1. chan' \in [Slots -> Slots \cup Chans \cup {Null}] /\ pc' \in [Slots -> PCs]
    BY Zenon, <1>12 DEF WaitSleep, TypeOK, PCs
  <2> QED
    BY Zenon, <1>12, <2>1, TypeInvLeave DEF WaitSleep, InWait, InCall, Running, TypeOK, table
<1>13. ASSUME NEW p \in Slots, NEW ch \in Chans, Sleep(p, ch) PROVE TypeInv'
  <2>1. chan' \in [Slots -> Slots \cup Chans \cup {Null}] /\ pc' \in [Slots -> PCs]
    BY Zenon, <1>13 DEF Sleep, TypeOK, PCs
  <2> QED
    BY <1>13, <2>1, TypeInvLeave DEF Sleep, Running, TypeOK, table
<1>14. ASSUME NEW p \in Slots, Return(p) PROVE TypeInv'
  BY Zenon, <1>14 DEF Return, TypeOK, PCs, WeightNotZero, table
<1>15. ASSUME NEW ch \in Chans, Wakeup(ch) PROVE TypeInv'
  BY Zenon, <1>15 DEF Wakeup, WokenState, WokenPriority, Sleepers, TypeOK, ProcStates,
               WeightNotZero, table, local
<1>16. ASSUME NEW p \in Slots, NEW k \in KillPids, Kill(p, k) PROVE TypeInv'
  BY <1>16 DEF Kill, TypeOK, ProcStates, PCs, WeightNotZero
<1>17. ASSUME NEW p \in Slots, NEW w \in Weights, WeightSet(p, w) PROVE TypeInv'
  BY Zenon, <1>17, ProcAssumption DEF WeightSet, TypeOK, PCs, WeightNotZero
<1>18. CASE UNCHANGED vars
  BY Zenon, <1>18 DEF vars, TypeOK, WeightNotZero
<1> QED
  BY Zenon, <1>1, <1>2, <1>3, <1>4, <1>5, <1>6, <1>7, <1>8, <1>9, <1>10, <1>11, <1>12,
     <1>13, <1>14, <1>15, <1>16, <1>17, <1>18 DEF Next, Step

-----------------------------------------------------------------------------
(* fork() owns the slots it fills. *)

LEMMA ForkInvInit == Init => ForkInv
BY Zenon DEF Init, ForkInv

\* A step that changes neither pc to or from fork(), nor np, nor which slots
\* are EMBRYO, and kills no forking process, keeps ForkInv.
LEMMA ForkInvFrame ==
  ASSUME TypeOK, ForkInv, np' = np,
         state' \in [Slots -> ProcStates], pc' \in [Slots -> PCs],
         \A q \in Slots : pc'[q] \in {"fork", "dup"} <=> pc[q] \in {"fork", "dup"},
         \A q \in Slots : state'[q] = "EMBRYO" <=> state[q] = "EMBRYO",
         \A q \in Slots : pc[q] \in {"fork", "dup"} /\ Live(q) => Live(q)'
  PROVE  ForkInv'
BY Zenon DEF ForkInv, TypeOK

LEMMA ForkInvStep == TypeInv /\ TypeInv' /\ ForkInv /\ [Next]_vars => ForkInv'
<1> SUFFICES ASSUME TypeInv, TypeInv', ForkInv, [Next]_vars PROVE ForkInv'
  BY Zenon
<1>0. /\ TypeOK
      /\ state' \in [Slots -> ProcStates] /\ pc' \in [Slots -> PCs]
  BY Zenon DEF TypeInv, TypeOK
<1>1. ASSUME NEW c \in CPUs, Dispatch(c) PROVE ForkInv'
  BY Zenon, <1>0, <1>1, ForkInvFrame DEF Dispatch, Choice, Live, TypeOK, local
<1>2. ASSUME NEW p \in Slots, Yield(p) PROVE ForkInv'
  BY Zenon, <1>0, <1>2, ForkInvFrame DEF Yield, LeaveCpu, WokenState, Running, Live, TypeOK, local
<1>3. ASSUME NEW p \in Slots, Trap(p) \/ ExitStart(p) PROVE ForkInv'
  BY Zenon, <1>0, <1>3, ForkInvFrame DEF Trap, ExitStart, Live, TypeOK
<1>4. ASSUME NEW p \in Slots, ForkAlloc(p) PROVE ForkInv'
  <2> PICK s \in Slots :
       /\ state[s] = "UNUSED"
       /\ state' = [state EXCEPT ![s] = "EMBRYO"]
       /\ np' = [np EXCEPT ![p] = s]
    BY Zenon, <1>4 DEF ForkAlloc
  <2>1. state[p] = "RUNNING" /\ pc[p] = "call" /\ pc' = [pc EXCEPT ![p] = "fork"]
    BY Zenon, <1>4 DEF ForkAlloc, InCall, Running
  <2>2. \A q \in Slots : np[q] # s
    BY <1>0 DEF ForkInv, TypeOK, Slots, Null
  <2> QED BY <1>0, <2>1, <2>2 DEF ForkInv, TypeOK, Live, Slots, Null
<1>5. ASSUME NEW p \in Slots, ForkFail(p) PROVE ForkInv'
  <2>1. /\ state[p] = "RUNNING" /\ pc[p] = "fork" /\ np[p] \in Slots
        /\ state[np[p]] = "EMBRYO" /\ np[p] # p
    BY Zenon, <1>5 DEF ForkFail, Running, ForkInv
  <2>2. /\ state' = [state EXCEPT ![np[p]] = "UNUSED"]
        /\ pc' = [pc EXCEPT ![p] = "user"]
        /\ np' = [np EXCEPT ![p] = Null]
    BY Zenon, <1>5 DEF ForkFail
  <2>3. \A q \in Slots : q # p => np[q] # np[p]
    BY <2>1 DEF ForkInv, Slots, Null
  <2> QED BY <1>0, <2>1, <2>2, <2>3 DEF ForkInv, TypeOK, Live, Slots, Null
<1>6. ASSUME NEW p \in Slots, ForkCopy(p) PROVE ForkInv'
  BY Zenon, <1>0, <1>6, ForkInvFrame DEF ForkCopy, Live, TypeOK
<1>7. ASSUME NEW p \in Slots, ForkDone(p) PROVE ForkInv'
  <2>1. /\ state[p] = "RUNNING" /\ pc[p] = "dup" /\ np[p] \in Slots
        /\ state[np[p]] = "EMBRYO" /\ np[p] # p /\ pc[np[p]] \notin {"fork", "dup"}
    BY Zenon, <1>7 DEF ForkDone, Running, ForkInv, Live
  <2>2. /\ state' = [state EXCEPT ![np[p]] = "RUNNABLE"]
        /\ pc' = [pc EXCEPT ![p] = "user", ![np[p]] = "user"]
        /\ np' = [np EXCEPT ![p] = Null]
    BY Zenon, <1>7 DEF ForkDone
  <2>3. \A q \in Slots : q # p => np[q] # np[p]
    BY <2>1 DEF ForkInv, Slots, Null
  <2> QED BY <1>0, <2>1, <2>2, <2>3 DEF ForkInv, TypeOK, Live, Slots, Null
<1>8. ASSUME NEW p \in Slots, Exit(p) PROVE ForkInv'
  BY Zenon, <1>0, <1>8, ForkInvFrame DEF Exit, LeaveCpu, WokenState, ExitWakes, Sleepers, Running,
     Live, TypeOK, local
<1>9. CASE InitExit
  BY Zenon, <1>0, <1>9, ForkInvFrame DEF InitExit, Live
<1>10. ASSUME NEW p \in Slots, WaitReap(p) PROVE ForkInv'
  BY <1>0, <1>10, ForkInvFrame DEF WaitReap, InWait, InCall, Zombies, Live, TypeOK
<1>11. ASSUME NEW p \in Slots, WaitFail(p) PROVE ForkInv'
  BY Zenon, <1>0, <1>11, ForkInvFrame DEF WaitFail, InWait, InCall, Live, TypeOK
<1>12. ASSUME NEW p \in Slots, WaitSleep(p) PROVE ForkInv'
  BY Zenon, <1>0, <1>12, ForkInvFrame DEF WaitSleep, InWait, InCall, Running, LeaveCpu, WokenState,
     Live, TypeOK
<1>13. ASSUME NEW p \in Slots, NEW ch \in Chans, Sleep(p, ch) PROVE ForkInv'
  BY Zenon, <1>0, <1>13, ForkInvFrame DEF Sleep, Running, LeaveCpu, WokenState, Live, TypeOK
<1>14. ASSUME NEW p \in Slots, Return(p) PROVE ForkInv'
  BY Zenon, <1>0, <1>14, ForkInvFrame DEF Return, Live, TypeOK
<1>15. ASSUME NEW ch \in Chans, Wakeup(ch) PROVE ForkInv'
  BY Zenon, <1>0, <1>15, ForkInvFrame DEF Wakeup, WokenState, Sleepers, Live, TypeOK, local
<1>16. ASSUME NEW p \in Slots, NEW k \in KillPids, Kill(p, k) PROVE ForkInv'
  BY <1>0, <1>16, ForkInvFrame DEF Kill, InCall, Running, Live, TypeOK
<1>17. ASSUME NEW p \in Slots, NEW w \in Weights, WeightSet(p, w) PROVE ForkInv'
  BY Zenon, <1>0, <1>17, ForkInvFrame DEF WeightSet, InCall, Live, TypeOK
<1>18. CASE UNCHANGED vars
  BY Zenon, <1>0, <1>18, ForkInvFrame DEF vars, Live
<1> QED
  BY Zenon, <1>1, <1>2, <1>3, <1>4, <1>5, <1>6, <1>7, <1>8, <1>9, <1>10, <1>11, <1>12,
     <1>13, <1>14, <1>15, <1>16, <1>17, <1>18 DEF Next, Step

-----------------------------------------------------------------------------
(* c->proc and p->state agree. *)

LEMMA CpuAgreesInit == Init => CpuAgrees
BY DEF Init, CpuAgrees, Slots, Null

LEMMA CpuAgreesFrame ==
  ASSUME CpuAgrees, cpu' = cpu,
         \A q \in Slots : state'[q] = "RUNNING" <=> state[q] = "RUNNING"
  PROVE  CpuAgrees'
BY Zenon DEF CpuAgrees

LEMMA CpuAgreesLeave ==
  ASSUME TypeOK, CpuAgrees, NEW p \in Slots,
         NEW to \in {"RUNNABLE", "SLEEPING", "ZOMBIE"}, NEW W \in SUBSET Slots,
         \A q \in W : state[q] = "SLEEPING",
         LeaveCpu(p, to, W)
  PROVE  CpuAgrees'
<1>1. \A q \in Slots : state'[q] = "RUNNING" <=> state[q] = "RUNNING" /\ q # p
  BY Zenon DEF TypeOK, LeaveCpu, WokenState
<1>2. \A c \in CPUs : cpu'[c] = IF cpu[c] = p THEN Null ELSE cpu[c]
  BY Zenon DEF LeaveCpu
<1> QED BY <1>1, <1>2 DEF CpuAgrees, Slots, Null

LEMMA CpuAgreesStep ==
  TypeInv /\ TypeInv' /\ ForkInv /\ CpuAgrees /\ [Next]_vars => CpuAgrees'
<1> SUFFICES ASSUME TypeInv, TypeInv', ForkInv, CpuAgrees, [Next]_vars PROVE CpuAgrees'
  BY Zenon
<1>0. TypeOK
  BY Zenon DEF TypeInv
<1>1. ASSUME NEW c \in CPUs, Dispatch(c) PROVE CpuAgrees'
  <2> PICK p \in Slots :
       /\ state[p] = "RUNNABLE"
       /\ cpu' = [cpu EXCEPT ![c] = p]
       /\ state' = [state EXCEPT ![p] = "RUNNING"]
    BY Zenon, <1>1 DEF Dispatch, Choice
  <2>1. cpu[c] = Null /\ \A d \in CPUs : cpu[d] # p
    BY Zenon, <1>1 DEF Dispatch, CpuAgrees
  <2> QED BY <1>0, <2>1 DEF CpuAgrees, TypeOK, Slots, Null
<1>2. ASSUME NEW p \in Slots, Yield(p) PROVE CpuAgrees'
  BY <1>0, <1>2, CpuAgreesLeave DEF Yield
<1>3. ASSUME NEW p \in Slots, Trap(p) \/ ExitStart(p) \/ ForkCopy(p) \/ WaitFail(p) \/ Return(p)
      PROVE  CpuAgrees'
  BY Zenon, <1>3, CpuAgreesFrame DEF Trap, ExitStart, ForkCopy, WaitFail, Return
<1>4. ASSUME NEW p \in Slots, ForkAlloc(p) PROVE CpuAgrees'
  BY Zenon, <1>0, <1>4, CpuAgreesFrame DEF ForkAlloc, TypeOK
<1>5. ASSUME NEW p \in Slots, ForkFail(p) PROVE CpuAgrees'
  BY Zenon, <1>0, <1>5, CpuAgreesFrame DEF ForkFail, ForkInv, TypeOK
<1>7. ASSUME NEW p \in Slots, ForkDone(p) PROVE CpuAgrees'
  BY Zenon, <1>0, <1>7, CpuAgreesFrame DEF ForkDone, ForkInv, TypeOK
<1>8. ASSUME NEW p \in Slots, Exit(p) PROVE CpuAgrees'
  <2>1. /\ ExitWakes(p) \in SUBSET Slots
        /\ \A q \in ExitWakes(p) : state[q] = "SLEEPING"
    BY Zenon DEF ExitWakes, Sleepers
  <2> QED BY Zenon, <1>0, <1>8, <2>1, CpuAgreesLeave DEF Exit
<1>9. CASE InitExit
  BY Zenon, <1>9, CpuAgreesFrame DEF InitExit
<1>10. ASSUME NEW p \in Slots, WaitReap(p) PROVE CpuAgrees'
  BY Zenon, <1>0, <1>10, CpuAgreesFrame DEF WaitReap, Zombies, TypeOK
<1>12. ASSUME NEW p \in Slots, WaitSleep(p) PROVE CpuAgrees'
  BY Zenon, <1>0, <1>12, CpuAgreesLeave DEF WaitSleep
<1>13. ASSUME NEW p \in Slots, NEW ch \in Chans, Sleep(p, ch) PROVE CpuAgrees'
  BY <1>0, <1>13, CpuAgreesLeave DEF Sleep
<1>15. ASSUME NEW ch \in Chans, Wakeup(ch) PROVE CpuAgrees'
  BY Zenon, <1>0, <1>15, CpuAgreesFrame DEF Wakeup, WokenState, Sleepers, TypeOK
<1>16. ASSUME NEW p \in Slots, NEW k \in KillPids, Kill(p, k) PROVE CpuAgrees'
  BY Zenon, <1>0, <1>16, CpuAgreesFrame DEF Kill, TypeOK
<1>17. ASSUME NEW p \in Slots, NEW w \in Weights, WeightSet(p, w) PROVE CpuAgrees'
  BY Zenon, <1>17, CpuAgreesFrame DEF WeightSet
<1>18. CASE UNCHANGED vars
  BY Zenon, <1>18, CpuAgreesFrame DEF vars
<1> QED
  BY Zenon, <1>1, <1>2, <1>3, <1>4, <1>5, <1>7, <1>8, <1>9, <1>10, <1>12,
     <1>13, <1>15, <1>16, <1>17, <1>18 DEF Next, Step

-----------------------------------------------------------------------------
(* An idle machine finds the work there is. *)

\* What has to hold for the scan of scheduler() to stop at a process: the first
\* slot with the least priority exists as soon as one slot has it.
LEMMA ChoiceExists ==
  ASSUME TypeOK, NEW p \in Runnable(state), priority[p] = min_priority
  PROVE  \E q \in Slots : Choice(q)
<1> DEFINE S == {q \in Slots : state[q] = "RUNNABLE" /\ priority[q] = min_priority}
<1>1. S \subseteq Nat /\ S # {}
  BY ProcAssumption DEF Runnable, Slots
<1>2. PICK m \in S : \A n \in S : m <= n
  BY <1>1, LeastNatural, Zenon
<1>3. m \in Slots /\ Choice(m)
  BY <1>2, ProcAssumption DEF Choice, Slots
<1> QED BY Zenon, <1>3

LEMMA IdleInit == Init => IdleFindsWork
<1> SUFFICES ASSUME Init PROVE IdleFindsWork
  BY Zenon
<1>1. InitProc \in Runnable(state) /\ priority[InitProc] = min_priority
  BY ProcAssumption DEF Init, Runnable, InitProc, Slots
<1>2. \A q \in Runnable(state) : min_priority <= priority[q]
  BY DEF Init, Runnable
<1>3. TypeOK
  BY Zenon, TypeInvInit DEF TypeInv
<1> QED BY Zenon, <1>1, <1>2, <1>3, ChoiceExists DEF IdleFindsWork

\* The end of scheduler()'s loop establishes it, whatever held before.
LEMMA IdleLeave ==
  ASSUME TypeOK', NEW p \in Slots, NEW to, NEW W, LeaveCpu(p, to, W)
  PROVE  IdleFindsWork'
<1> SUFFICES ASSUME Runnable(state') # {}
             PROVE  /\ \E q \in Slots : Choice(q)'
                    /\ \A q \in Runnable(state') : min_priority' <= priority'[q]
  BY Zenon DEF IdleFindsWork, Runnable
<1>1. PICK m \in Runnable(state') :
        /\ \A q \in Runnable(state') : priority'[m] <= priority'[q]
        /\ min_priority' = priority'[m]
  BY Zenon DEF LeaveCpu, MinPriority
<1>2. \E q \in Slots : Choice(q)'
  <2> DEFINE S == {q \in Slots : state'[q] = "RUNNABLE" /\ priority'[q] = min_priority'}
  <2>1. S \subseteq Nat /\ S # {}
    BY <1>1, ProcAssumption DEF Runnable, Slots
  <2>2. PICK f \in S : \A n \in S : f <= n
    BY <2>1, LeastNatural, Zenon
  <2>3. f \in Slots /\ Choice(f)'
    BY <2>2, ProcAssumption DEF Choice, Slots
  <2> QED BY Zenon, <2>3
<1> QED BY Zenon, <1>1, <1>2

LEMMA IdleBusy == Busy' => IdleFindsWork'
BY Zenon DEF IdleFindsWork

LEMMA IdleStep ==
  TypeInv /\ TypeInv' /\ ForkInv /\ IdleFindsWork /\ [Next]_vars => IdleFindsWork'
<1> SUFFICES ASSUME TypeInv, TypeInv', ForkInv, IdleFindsWork, [Next]_vars
             PROVE  IdleFindsWork'
  OBVIOUS
<1>0. TypeOK /\ TypeOK'
  BY Zenon DEF TypeInv
<1>1. ASSUME NEW c \in CPUs, Dispatch(c) PROVE IdleFindsWork'
  BY Zenon, <1>0, <1>1, IdleBusy DEF Dispatch, Busy, TypeOK
<1>2. ASSUME NEW p \in Slots, Yield(p) \/ Exit(p) \/ WaitSleep(p)
      PROVE  IdleFindsWork'
  BY Zenon, <1>0, <1>2, IdleLeave DEF Yield, Exit, WaitSleep
<1>3. ASSUME NEW p \in Slots, NEW ch \in Chans, Sleep(p, ch) PROVE IdleFindsWork'
  BY Zenon, <1>0, <1>3, IdleLeave DEF Sleep
<1>4. ASSUME NEW p \in Slots,
             \/ Trap(p) \/ ExitStart(p) \/ ForkCopy(p) \/ WaitFail(p) \/ Return(p)
             \/ ForkAlloc(p) \/ WaitReap(p)
             \/ \E k \in KillPids : Kill(p, k)
             \/ \E w \in Weights : WeightSet(p, w)
      PROVE  IdleFindsWork'
  <2>1. state[p] = "RUNNING"
    BY Zenon, <1>4 DEF Trap, ExitStart, ForkCopy, WaitFail, Return, ForkAlloc, WaitReap, Kill,
       WeightSet, InWait, InCall, Running
  <2>2. CASE \E k \in KillPids : Kill(p, k)
    <3>1. PICK s \in Slots :
            state' = [state EXCEPT ![s] = IF @ = "SLEEPING" THEN "RUNNABLE" ELSE @]
      BY Zenon, <2>2 DEF Kill
    <3>2. state'[p] = "RUNNING"
      BY Zenon, <1>0, <2>1, <3>1 DEF TypeOK
    <3> QED BY Zenon, <3>2, IdleBusy DEF Busy
  <2>3. CASE ForkAlloc(p)
    <3>1. PICK s \in Slots : state[s] = "UNUSED" /\ state' = [state EXCEPT ![s] = "EMBRYO"]
      BY Zenon, <2>3 DEF ForkAlloc
    <3>2. state'[p] = "RUNNING"
      BY Zenon, <1>0, <2>1, <3>1 DEF TypeOK
    <3> QED BY <3>2, IdleBusy DEF Busy
  <2>4. CASE WaitReap(p)
    <3>1. PICK z \in Slots : state[z] = "ZOMBIE" /\ state' = [state EXCEPT ![z] = "UNUSED"]
      BY Zenon, <2>4 DEF WaitReap, Zombies, Children
    <3>2. state'[p] = "RUNNING"
      BY Zenon, <1>0, <2>1, <3>1 DEF TypeOK
    <3> QED BY <3>2, IdleBusy DEF Busy
  <2>5. ASSUME state' = state PROVE IdleFindsWork'
    BY Zenon, <2>1, <2>5, IdleBusy DEF Busy
  <2> QED
    BY Zenon, <1>4, <2>2, <2>3, <2>4, <2>5 DEF Trap, ExitStart, ForkCopy, WaitFail, Return, WeightSet
<1>5. ASSUME NEW p \in Slots, ForkFail(p) \/ ForkDone(p) PROVE IdleFindsWork'
  <2>1. state[p] = "RUNNING" /\ np[p] # p
    BY Zenon, <1>5 DEF ForkFail, ForkDone, Running, ForkInv
  <2>2. state'[p] = "RUNNING"
    BY Zenon, <1>0, <1>5, <2>1 DEF ForkFail, ForkDone, TypeOK
  <2> QED BY Zenon, <2>2, IdleBusy DEF Busy
<1>6. CASE InitExit
  BY Zenon, <1>6 DEF InitExit, IdleFindsWork, Busy, Runnable, Choice
<1>7. ASSUME NEW ch \in Chans, Wakeup(ch) PROVE IdleFindsWork'
  <2> SUFFICES ASSUME ~Busy', NEW r \in Runnable(state')
               PROVE  /\ \E q \in Slots : Choice(q)'
                      /\ \A q \in Runnable(state') : min_priority' <= priority'[q]
    BY Zenon DEF IdleFindsWork, Runnable
  <2>1. /\ \A q \in Slots : state'[q] = IF q \in Sleepers(ch) THEN "RUNNABLE" ELSE state[q]
        /\ \A q \in Slots : priority'[q] = IF q \in Sleepers(ch) THEN min_priority
                                                             ELSE priority[q]
        /\ min_priority' = min_priority
    BY Zenon, <1>7 DEF Wakeup, WokenState, WokenPriority
  <2>2. ~Busy
    BY Zenon, <2>1 DEF Busy, Sleepers
  <2>3. \A q \in Runnable(state) : min_priority <= priority[q]
    BY Zenon, <2>2 DEF IdleFindsWork
  <2>4. \A q \in Runnable(state') : min_priority' <= priority'[q]
    BY <1>0, <2>1, <2>3, ProcAssumption DEF Runnable, TypeOK, Int32
  <2>5. \E f \in Slots : state'[f] = "RUNNABLE" /\ priority'[f] = min_priority'
    BY Zenon, <2>1, <2>2 DEF IdleFindsWork, Runnable, Choice, Sleepers
  <2>6. \E q \in Slots : Choice(q)'
    <3> DEFINE S == {q \in Slots : state'[q] = "RUNNABLE" /\ priority'[q] = min_priority'}
    <3>1. S \subseteq Nat /\ S # {}
      BY <2>5, ProcAssumption DEF Slots
    <3>2. PICK f \in S : \A n \in S : f <= n
      BY <3>1, LeastNatural, Zenon
    <3>3. f \in Slots /\ Choice(f)'
      BY <3>2, ProcAssumption DEF Choice, Slots
    <3> QED BY Zenon, <3>3
  <2> QED BY Zenon, <2>4, <2>6
<1>8. CASE UNCHANGED vars
  BY Zenon, <1>8 DEF vars, IdleFindsWork, Busy, Runnable, Choice
<1> QED
  BY Zenon, <1>1, <1>2, <1>3, <1>4, <1>5, <1>6, <1>7, <1>8 DEF Next, Step

-----------------------------------------------------------------------------
SchedInv == TypeInv /\ ForkInv /\ CpuAgrees /\ IdleFindsWork

LEMMA SchedInvariant == Spec => []SchedInv
<1>1. Init => SchedInv
  BY Zenon, TypeInvInit, ForkInvInit, CpuAgreesInit, IdleInit DEF SchedInv
<1>2. SchedInv /\ [Next]_vars => SchedInv'
  BY Zenon, TypeInvStep, ForkInvStep, CpuAgreesStep, IdleStep DEF SchedInv
<1> QED BY <1>1, <1>2, PTL DEF Spec

\* Type correctness of the process table.
THEOREM TypeCorrect == Spec => []TypeOK
<1>1. SchedInv => TypeOK
  BY Zenon DEF SchedInv, TypeInv
<1> QED BY <1>1, SchedInvariant, PTL

\* TIME_SLICE/(p->weight) never divides by zero: sys_weightset() refuses 0 and
\* allocproc() counts up from 1.
THEOREM NoDivisionByZero == Spec => []WeightNotZero
<1>1. SchedInv => WeightNotZero
  BY Zenon DEF SchedInv, TypeInv
<1> QED BY <1>1, SchedInvariant, PTL

\* One CPU per RUNNING process and one RUNNING process per busy CPU.
THEOREM CpuAgreement == Spec => []CpuAgrees
<1>1. SchedInv => CpuAgrees
  BY Zenon DEF SchedInv
<1> QED BY <1>1, SchedInvariant, PTL

\* With every CPU in scheduler() and work in the table, the scan finds a process,
\* and one of least priority.
THEOREM SchedulerFindsWork == Spec => []IdleFindsWork
<1>1. SchedInv => IdleFindsWork
  BY Zenon DEF SchedInv
<1> QED BY <1>1, SchedInvariant, PTL

\* The slots filled by fork() are never shared between two forks.
THEOREM EmbryoOwnership == Spec => []EmbryoOwned
<1>1. SchedInv => EmbryoOwned
  <2> SUFFICES ASSUME SchedInv PROVE EmbryoOwned
    OBVIOUS
  <2>1. ForkInv
    BY Zenon DEF SchedInv
  <2>2. \A s \in Slots : s # Null
    BY DEF Slots, Null
  <2>3. ASSUME NEW s \in Slots, state[s] = "EMBRYO"
        PROVE  \E p \in Slots : /\ Live(p) /\ pc[p] \in {"fork", "dup"} /\ np[p] = s
                                /\ \A q \in Slots : np[q] = s => q = p
    <3>1. PICK p \in Slots : np[p] = s
      BY Zenon, <2>1, <2>3 DEF ForkInv
    <3>2. pc[p] \in {"fork", "dup"}
      BY Zenon, <2>1, <2>2, <3>1 DEF ForkInv
    <3>3. Live(p)
      BY Zenon, <2>1, <3>2 DEF ForkInv
    <3>4. \A q \in Slots : np[q] = s => q = p
      BY Zenon, <2>1, <2>2, <3>1 DEF ForkInv
    <3> QED BY Zenon, <3>1, <3>2, <3>3, <3>4
  <2> QED BY Zenon, <2>1, <2>3 DEF ForkInv, EmbryoOwned
<1> QED BY <1>1, SchedInvariant, PTL

-----------------------------------------------------------------------------
(* Parents and children: exit(), wait() and the sleep inside wait(). *)

FamilyInv ==
  /\ Live(InitProc) /\ parent[InitProc] = Null /\ pc[InitProc] # "exit"
  /\ \A p \in Slots : state[p] = "UNUSED" => parent[p] = Null
  /\ \A p \in Slots : parent[p] # p
  /\ ParentIsLive
  /\ \A p \in Slots : pc[p] = "fork" => parent[np[p]] = Null
  /\ \A p \in Slots : pc[p] = "dup" => parent[np[p]] = p

\* A sleeper sleeps on itself, in wait(), or on a channel of another part; in
\* the first case there is something to wait for.
WaitInv ==
  /\ \A p \in Slots : state[p] = "SLEEPING" => chan[p] = p \/ chan[p] \in Chans
  /\ WaitIsWarranted

LEMMA FamilyInit == Init => FamilyInv /\ WaitInv
<1> SUFFICES ASSUME Init PROVE FamilyInv /\ WaitInv
  BY Zenon
<1>1. InitProc \in Slots
  BY ProcAssumption DEF Slots, InitProc
<1>2. FamilyInv
  BY <1>1 DEF Init, FamilyInv, ParentIsLive, Live, Slots, Null
<1>3. WaitInv
  BY Zenon DEF Init, WaitInv, WaitIsWarranted
<1> QED BY Zenon, <1>2, <1>3

\* Steps that leave parents, fork() and the classes of states alone.
LEMMA FamilyFrame ==
  ASSUME SchedInv, FamilyInv, np' = np, parent' = parent,
         \A q \in Slots : Live(q)' <=> Live(q),
         \A q \in Slots : state'[q] = "ZOMBIE" <=> state[q] = "ZOMBIE",
         \A q \in Slots : state'[q] = "UNUSED" <=> state[q] = "UNUSED",
         \A q \in Slots : pc'[q] = pc[q] \/ pc'[q] \notin {"fork", "dup"},
         pc'[InitProc] = pc[InitProc] \/ pc'[InitProc] # "exit"
  PROVE  FamilyInv'
<1>1. InitProc \in Slots
  BY ProcAssumption DEF Slots, InitProc
<1>2. ParentIsLive'
  <2> SUFFICES ASSUME NEW p \in Slots \ {InitProc}, Live(p)' \/ state'[p] = "ZOMBIE"
               PROVE  (parent[p] # Null /\ Live(parent[p]))'
    BY Zenon DEF ParentIsLive, Live
  <2>1. parent[p] # Null /\ Live(parent[p])
    BY Zenon DEF FamilyInv, ParentIsLive
  <2>2. parent[p] \in Slots
    BY Zenon, <2>1 DEF SchedInv, TypeInv, TypeOK
  <2> QED BY Zenon, <2>1, <2>2 DEF Live
<1> QED BY Zenon, <1>1, <1>2 DEF FamilyInv, Live

LEMMA FamilyStep ==
  SchedInv /\ SchedInv' /\ FamilyInv /\ [Next]_vars => FamilyInv'
<1> SUFFICES ASSUME SchedInv, SchedInv', FamilyInv, [Next]_vars PROVE FamilyInv'
  BY Zenon
<1>0. TypeOK /\ TypeOK' /\ ForkInv /\ ForkInv' /\ InitProc \in Slots
  <2>1. TypeOK /\ TypeOK' /\ ForkInv /\ ForkInv'
    BY Zenon DEF SchedInv, TypeInv
  <2> QED BY <2>1, ProcAssumption DEF Slots, InitProc
<1>1. ASSUME NEW c \in CPUs, Dispatch(c) PROVE FamilyInv'
  BY <1>0, <1>1, FamilyFrame DEF Dispatch, Choice, Live, TypeOK, table, local
<1>2. ASSUME NEW p \in Slots, Yield(p) PROVE FamilyInv'
  BY Zenon, <1>0, <1>2, FamilyFrame DEF Yield, LeaveCpu, WokenState, Running, Live, TypeOK, table, local
<1>3. ASSUME NEW p \in Slots, Trap(p) \/ ExitStart(p) \/ WaitFail(p) \/ Return(p) PROVE FamilyInv'
  BY Zenon, <1>0, <1>3, FamilyFrame DEF Trap, ExitStart, WaitFail, Return, Live, TypeOK, table
<1>4. ASSUME NEW p \in Slots, ForkAlloc(p) PROVE FamilyInv'
  <2> PICK s \in Slots :
       /\ state[s] = "UNUSED"
       /\ state' = [state EXCEPT ![s] = "EMBRYO"]
       /\ np' = [np EXCEPT ![p] = s]
    BY Zenon, <1>4 DEF ForkAlloc
  <2>1. /\ state[p] = "RUNNING" /\ pc[p] = "call"
        /\ pc' = [pc EXCEPT ![p] = "fork"] /\ parent' = parent
    BY Zenon, <1>4 DEF ForkAlloc, InCall, Running
  <2>2. \A q \in Slots : /\ Live(q)' <=> Live(q)
                         /\ state'[q] = "ZOMBIE" <=> state[q] = "ZOMBIE"
                         /\ state'[q] = "UNUSED" => state[q] = "UNUSED"
    BY Zenon, <1>0 DEF Live, TypeOK
  <2>3. ParentIsLive'
    BY SMTT(40), <1>0, <2>1, <2>2 DEF FamilyInv, ParentIsLive, Live, TypeOK
  <2>4. parent[s] = Null
    BY Zenon DEF FamilyInv
  <2> QED BY <1>0, <2>1, <2>2, <2>3, <2>4 DEF FamilyInv, Live, TypeOK
<1>5. ASSUME NEW p \in Slots, ForkFail(p) PROVE FamilyInv'
  <2>1. /\ state[p] = "RUNNING" /\ pc[p] = "fork" /\ np[p] \in Slots
        /\ state[np[p]] = "EMBRYO" /\ parent[np[p]] = Null
    BY Zenon, <1>0, <1>5 DEF ForkFail, Running, ForkInv, FamilyInv
  <2>2. /\ state' = [state EXCEPT ![np[p]] = "UNUSED"]
        /\ pc' = [pc EXCEPT ![p] = "user"]
        /\ np' = [np EXCEPT ![p] = Null]
        /\ parent' = parent
    BY Zenon, <1>5 DEF ForkFail, table
  <2>3. \A q \in Slots : /\ Live(q)' <=> Live(q)
                         /\ state'[q] = "ZOMBIE" <=> state[q] = "ZOMBIE"
                         /\ state'[q] = "UNUSED" => state[q] = "UNUSED" \/ q = np[p]
    BY Zenon, <1>0, <2>1, <2>2 DEF Live, TypeOK
  <2>4. ParentIsLive'
    BY SMTT(40), <1>0, <2>2, <2>3 DEF FamilyInv, ParentIsLive, Live, TypeOK
  <2> QED BY <1>0, <2>1, <2>2, <2>3, <2>4 DEF FamilyInv, Live, TypeOK
<1>6. ASSUME NEW p \in Slots, ForkCopy(p) PROVE FamilyInv'
  <2>1. /\ state[p] = "RUNNING" /\ pc[p] = "fork" /\ np[p] \in Slots
        /\ state[np[p]] = "EMBRYO" /\ np[p] # p
    BY Zenon, <1>0, <1>6 DEF ForkCopy, Running, ForkInv
  <2>2. /\ parent' = [parent EXCEPT ![np[p]] = p]
        /\ pc' = [pc EXCEPT ![p] = "dup"]
        /\ np' = np /\ state' = state
    BY Zenon, <1>6 DEF ForkCopy
  <2>3. ParentIsLive'
    BY Zenon, <1>0, <2>1, <2>2 DEF FamilyInv, ParentIsLive, Live, TypeOK
  <2>4. \A q \in Slots : q # p /\ pc[q] \in {"fork", "dup"} => np[q] # np[p] /\ np[q] \in Slots
    BY <1>0, <2>1 DEF ForkInv, Slots, Null
  <2> QED BY <1>0, <2>1, <2>2, <2>3, <2>4 DEF FamilyInv, Live, TypeOK
<1>7. ASSUME NEW p \in Slots, ForkDone(p) PROVE FamilyInv'
  <2>1. /\ state[p] = "RUNNING" /\ pc[p] = "dup" /\ np[p] \in Slots
        /\ state[np[p]] = "EMBRYO" /\ np[p] # p /\ parent[np[p]] = p
        /\ pc[np[p]] \notin {"fork", "dup"}
    BY Zenon, <1>0, <1>7 DEF ForkDone, Running, ForkInv, FamilyInv, Live
  <2>2. /\ state' = [state EXCEPT ![np[p]] = "RUNNABLE"]
        /\ pc' = [pc EXCEPT ![p] = "user", ![np[p]] = "user"]
        /\ np' = [np EXCEPT ![p] = Null]
        /\ parent' = parent
    BY Zenon, <1>7 DEF ForkDone, table
  <2>3. \A q \in Slots : /\ Live(q)' <=> Live(q) \/ q = np[p]
                         /\ state'[q] = "ZOMBIE" <=> state[q] = "ZOMBIE"
                         /\ state'[q] = "UNUSED" => state[q] = "UNUSED"
    BY Zenon, <1>0, <2>1, <2>2 DEF Live, TypeOK
  <2>4. ParentIsLive'
    BY SMTT(40), <1>0, <2>1, <2>2, <2>3 DEF FamilyInv, ParentIsLive, Live, TypeOK, Slots, Null
  <2> QED BY SMTT(40), <1>0, <2>1, <2>2, <2>3, <2>4 DEF FamilyInv, Live, TypeOK
<1>8. ASSUME NEW p \in Slots, Exit(p) PROVE FamilyInv'
  <2>1. /\ state[p] = "RUNNING" /\ pc[p] = "exit" /\ p # InitProc
        /\ parent' = [q \in Slots |-> IF parent[q] = p THEN InitProc ELSE parent[q]]
        /\ np' = np /\ pc' = pc
    BY Zenon, <1>8 DEF Exit, Running, local, FamilyInv
  <2>2. \A q \in Slots : state'[q] = IF q = p THEN "ZOMBIE"
                                     ELSE IF q \in ExitWakes(p) THEN "RUNNABLE" ELSE state[q]
    BY Zenon, <1>8, <1>0 DEF Exit, LeaveCpu, WokenState, TypeOK
  <2>3. \A q \in ExitWakes(p) : state[q] = "SLEEPING"
    BY Zenon DEF ExitWakes, Sleepers
  <2>4. \A q \in Slots : /\ Live(q)' <=> Live(q) /\ q # p
                         /\ state'[q] = "ZOMBIE" <=> state[q] = "ZOMBIE" \/ q = p
                         /\ state'[q] = "UNUSED" <=> state[q] = "UNUSED"
    BY Zenon, <2>1, <2>2, <2>3 DEF Live
  <2>5. ParentIsLive'
    <3> SUFFICES ASSUME NEW q \in Slots \ {InitProc}, Live(q)' \/ state'[q] = "ZOMBIE"
                 PROVE  (parent[q] # Null /\ Live(parent[q]))'
      BY Zenon DEF ParentIsLive, Live
    <3>1. parent[q] # Null /\ Live(parent[q]) /\ parent[q] \in Slots
      BY ZenonT(30), <1>0, <2>1, <2>4 DEF FamilyInv, ParentIsLive, Live, TypeOK
    <3>2. CASE parent[q] = p
      BY <1>0, <2>1, <2>4, <3>2 DEF FamilyInv, Live, Slots, Null
    <3>3. CASE parent[q] # p
      BY Zenon, <2>1, <2>4, <3>1, <3>3 DEF Live
    <3> QED BY Zenon, <3>2, <3>3
  <2>6. \A q \in Slots : pc[q] \in {"fork", "dup"} => q # p /\ np[q] \in Slots
    BY Zenon, <1>0, <2>1 DEF ForkInv
  <2>7. Live(InitProc)' /\ parent'[InitProc] = Null  /\ pc'[InitProc] # "exit"
    BY <1>0, <2>1, <2>4 DEF FamilyInv, Slots, Null, Live
  <2>8. \A q \in Slots : state'[q] = "UNUSED" => parent'[q] = Null
    BY <2>1, <2>4 DEF FamilyInv, Slots, Null
  <2>9. \A q \in Slots : parent'[q] # q
    BY <1>0, <2>1 DEF FamilyInv, Slots, Null
  <2>10. /\ \A q \in Slots : pc'[q] = "fork" => parent'[np'[q]] = Null
         /\ \A q \in Slots : pc'[q] = "dup" => parent'[np'[q]] = q
    BY <2>1, <2>6 DEF FamilyInv, Slots, Null
  <2> QED BY Zenon, <2>5, <2>7, <2>8, <2>9, <2>10 DEF FamilyInv
<1>9. CASE InitExit
  BY Zenon, <1>9, FamilyFrame DEF InitExit, table, Live
<1>10. ASSUME NEW p \in Slots, WaitReap(p) PROVE FamilyInv'
  <2> PICK z \in Slots :
       /\ state[z] = "ZOMBIE"
       /\ state' = [state EXCEPT ![z] = "UNUSED"]
       /\ parent' = [parent EXCEPT ![z] = Null]
    BY Zenon, <1>10 DEF WaitReap, Zombies, Children
  <2>1. pc' = [pc EXCEPT ![p] = "user"] /\ np' = np
    BY Zenon, <1>10 DEF WaitReap
  <2>2. \A q \in Slots : /\ Live(q)' <=> Live(q)
                         /\ state'[q] = "ZOMBIE" => state[q] = "ZOMBIE" /\ q # z
                         /\ state'[q] = "UNUSED" => state[q] = "UNUSED" \/ q = z
    BY Zenon, <1>0 DEF Live, TypeOK
  <2>3. ParentIsLive'
    BY Zenon, <1>0, <2>2 DEF FamilyInv, ParentIsLive, Live, TypeOK
  <2>4. \A q \in Slots : pc'[q] \in {"fork", "dup"} =>
          pc[q] = pc'[q] /\ np[q] \in Slots /\ np[q] # z
    <3>1. \A q \in Slots : pc'[q] \in {"fork", "dup"} => pc[q] = pc'[q]
      BY Zenon, <1>0, <2>1 DEF TypeOK
    <3>2. \A q \in Slots : pc[q] \in {"fork", "dup"} => np[q] \in Slots /\ state[np[q]] = "EMBRYO"
      BY Zenon, <1>0 DEF ForkInv
    <3> QED BY Zenon, <3>1, <3>2
  <2>5. z # InitProc
    BY Zenon, <1>0 DEF FamilyInv, Live
  <2> QED BY SMTT(40), <1>0, <2>1, <2>2, <2>3, <2>4, <2>5 DEF FamilyInv, Live, TypeOK, Slots, Null
<1>12. ASSUME NEW p \in Slots, WaitSleep(p) PROVE FamilyInv'
  BY Zenon, <1>0, <1>12, FamilyFrame DEF WaitSleep, InWait, InCall, Running, LeaveCpu, WokenState,
     Live, TypeOK, table
<1>13. ASSUME NEW p \in Slots, NEW ch \in Chans, Sleep(p, ch) PROVE FamilyInv'
  BY Zenon, <1>0, <1>13, FamilyFrame DEF Sleep, Running, LeaveCpu, WokenState, Live, TypeOK, table
<1>15. ASSUME NEW ch \in Chans, Wakeup(ch) PROVE FamilyInv'
  BY Zenon, <1>0, <1>15, FamilyFrame DEF Wakeup, WokenState, Sleepers, Live, TypeOK, table, local
<1>16. ASSUME NEW p \in Slots, NEW k \in KillPids, Kill(p, k) PROVE FamilyInv'
  <2>1. PICK s \in Slots : state' = [state EXCEPT ![s] = IF @ = "SLEEPING" THEN "RUNNABLE" ELSE @]
    BY Zenon, <1>16 DEF Kill
  <2>2. np' = np /\ parent' = parent /\ pc' = [pc EXCEPT ![p] = "user"]
    BY Zenon, <1>16 DEF Kill
  <2>3. \A q \in Slots : /\ Live(q)' <=> Live(q)
                         /\ state'[q] = "ZOMBIE" <=> state[q] = "ZOMBIE"
                         /\ state'[q] = "UNUSED" <=> state[q] = "UNUSED"
    BY Zenon, <1>0, <2>1 DEF Live, TypeOK
  <2>4. \A q \in Slots : pc'[q] = pc[q] \/ pc'[q] = "user"
    BY Zenon, <1>0, <2>2 DEF TypeOK
  <2>5. InitProc \in Slots
    BY ProcAssumption DEF Slots, InitProc
  <2> QED BY Zenon, <1>0, <2>2, <2>3, <2>4, <2>5, FamilyFrame
<1>17. ASSUME NEW p \in Slots, NEW w \in Weights, WeightSet(p, w) PROVE FamilyInv'
  BY ZenonT(30), <1>0, <1>17, FamilyFrame DEF WeightSet, Live, TypeOK
<1>18. CASE UNCHANGED vars
  BY Zenon, <1>18, FamilyFrame DEF vars, Live
<1> QED
  BY Zenon, <1>1, <1>2, <1>3, <1>4, <1>5, <1>6, <1>7, <1>8, <1>9, <1>10, <1>12,
     <1>13, <1>15, <1>16, <1>17, <1>18 DEF Next, Step

\* Steps after which every sleeper was one before, with no new ZOMBIE child, with
\* the children it had and with killed as it was.
LEMMA WaitFrame ==
  ASSUME SchedInv, WaitInv,
         \A q \in Slots : state'[q] = "SLEEPING" =>
           state[q] = "SLEEPING" /\ chan'[q] = chan[q] /\ killed'[q] = killed[q],
         \A q, z \in Slots : state'[q] = "SLEEPING" /\ chan'[q] = q =>
           /\ state'[z] = "ZOMBIE" /\ parent'[z] = q =>
                state[z] = "ZOMBIE" /\ parent[z] = q
           /\ parent[z] = q => parent'[z] = q
  PROVE  WaitInv'
<1> SUFFICES ASSUME NEW q \in Slots, state'[q] = "SLEEPING"
             PROVE  /\ chan'[q] = q \/ chan'[q] \in Chans
                    /\ chan'[q] = q => (Zombies(q) = {} /\ Children(q) # {} /\ ~killed[q])'
  BY Zenon DEF WaitInv, WaitIsWarranted
<1>1. chan'[q] = q \/ chan'[q] \in Chans
  BY Zenon DEF WaitInv
<1>2. ASSUME chan'[q] = q PROVE (Zombies(q) = {} /\ Children(q) # {} /\ ~killed[q])'
  <2>1. Zombies(q) = {} /\ Children(q) # {} /\ ~killed[q]
    BY Zenon, <1>2 DEF WaitInv, WaitIsWarranted
  <2>2. \A z \in Slots : ~(state'[z] = "ZOMBIE" /\ parent'[z] = q)
    BY <1>2, <2>1 DEF Zombies, Children
  <2>3. \E z \in Slots : parent'[z] = q
    BY Zenon, <1>2, <2>1 DEF Children
  <2>4. ~killed'[q]
    BY Zenon, <2>1
  <2> QED BY Zenon, <2>2, <2>3, <2>4 DEF Zombies, Children
<1> QED BY Zenon, <1>1, <1>2

LEMMA WaitStep ==
  SchedInv /\ FamilyInv /\ WaitInv /\ [Next]_vars => WaitInv'
<1> SUFFICES ASSUME SchedInv, FamilyInv, WaitInv, [Next]_vars PROVE WaitInv'
  BY Zenon
<1>0. TypeOK /\ ForkInv /\ InitProc \in Slots
  <2>1. TypeOK /\ ForkInv
    BY Zenon DEF SchedInv, TypeInv
  <2> QED BY <2>1, ProcAssumption DEF Slots, InitProc
<1>1. ASSUME NEW c \in CPUs, Dispatch(c) PROVE WaitInv'
  BY Zenon, <1>0, <1>1, WaitFrame DEF Dispatch, TypeOK, table
<1>2. ASSUME NEW p \in Slots, Yield(p) PROVE WaitInv'
  BY Zenon, <1>0, <1>2, WaitFrame DEF Yield, LeaveCpu, WokenState, TypeOK, table
<1>3. ASSUME NEW p \in Slots, Trap(p) \/ ExitStart(p) \/ WaitFail(p) \/ Return(p) PROVE WaitInv'
  BY Zenon, <1>0, <1>3, WaitFrame DEF Trap, ExitStart, WaitFail, Return, table
<1>4. ASSUME NEW p \in Slots, ForkAlloc(p) PROVE WaitInv'
  BY Zenon, <1>0, <1>4, WaitFrame DEF ForkAlloc, TypeOK
<1>5. ASSUME NEW p \in Slots, ForkFail(p) \/ ForkDone(p) PROVE WaitInv'
  BY Zenon, <1>0, <1>5, WaitFrame DEF ForkFail, ForkDone, TypeOK, table
<1>6. ASSUME NEW p \in Slots, ForkCopy(p) PROVE WaitInv'
  <2>1. /\ state[p] = "RUNNING" /\ parent[np[p]] = Null /\ np[p] \in Slots
        /\ state[np[p]] = "EMBRYO"
    BY Zenon, <1>0, <1>6 DEF ForkCopy, Running, ForkInv, FamilyInv
  <2> QED BY <1>0, <1>6, <2>1, WaitFrame DEF ForkCopy, TypeOK, Slots, Null
<1>7. ASSUME NEW p \in Slots, Exit(p) PROVE WaitInv'
  <2>1. /\ state[p] = "RUNNING" /\ p # InitProc
        /\ \A q \in Slots : parent'[q] = IF parent[q] = p THEN InitProc ELSE parent[q]
        /\ chan' = chan /\ killed' = killed
    BY Zenon, <1>7 DEF Exit, Running, FamilyInv
  <2>2. \A q \in Slots : state'[q] = IF q = p THEN "ZOMBIE"
                                     ELSE IF q \in ExitWakes(p) THEN "RUNNABLE" ELSE state[q]
    BY Zenon, <1>0, <1>7 DEF Exit, LeaveCpu, WokenState, TypeOK
  <2>3. \A q \in Slots : state'[q] = "SLEEPING" =>
          state[q] = "SLEEPING" /\ q # p /\ q \notin ExitWakes(p)
    BY Zenon, <2>2
  <2>4. ASSUME NEW q \in Slots, NEW z \in Slots, state'[q] = "SLEEPING", chan'[q] = q
        PROVE  /\ state'[z] = "ZOMBIE" /\ parent'[z] = q =>
                    state[z] = "ZOMBIE" /\ parent[z] = q
               /\ parent[z] = q => parent'[z] = q
    <3>2. parent[p] # p
      BY Zenon DEF FamilyInv
    <3>3. ASSUME state'[z] = "ZOMBIE", parent'[z] = q
          PROVE  state[z] = "ZOMBIE" /\ parent[z] = q
      <4>1. z # p
        BY Zenon, <2>1, <2>3, <2>4, <3>2, <3>3 DEF ExitWakes, Sleepers
      <4>2. state[z] = "ZOMBIE"
        BY Zenon, <2>2, <3>3, <4>1
      <4>3. parent[z] # p
        BY Zenon, <2>1, <2>3, <2>4, <3>3, <4>2 DEF ExitWakes, Sleepers, Zombies, Children
      <4> QED BY Zenon, <2>1, <3>3, <4>2, <4>3
    <3>4. parent[z] = q => parent'[z] = q
      BY Zenon, <2>1, <2>3, <2>4
    <3> QED BY Zenon, <3>3, <3>4
  <2> QED BY <2>1, <2>3, <2>4, WaitFrame
<1>8. CASE InitExit
  BY Zenon, <1>8, WaitFrame DEF InitExit, table
<1>9. ASSUME NEW p \in Slots, WaitReap(p) PROVE WaitInv'
  <2>1. state[p] = "RUNNING"
    BY Zenon, <1>9 DEF WaitReap, InWait, InCall, Running
  <2>2. PICK z \in Slots : /\ parent[z] = p
                           /\ state' = [state EXCEPT ![z] = "UNUSED"]
                           /\ parent' = [parent EXCEPT ![z] = Null]
                           /\ killed' = [killed EXCEPT ![z] = FALSE]
    BY Zenon, <1>9 DEF WaitReap, Zombies, Children
  <2>3. chan' = chan
    BY Zenon, <1>9 DEF WaitReap
  <2> QED BY Zenon, <1>0, <2>1, <2>2, <2>3, WaitFrame DEF TypeOK, Slots, Null
<1>10. ASSUME NEW p \in Slots, WaitSleep(p) PROVE WaitInv'
  <2>1. /\ state[p] = "RUNNING" /\ Zombies(p) = {} /\ Children(p) # {} /\ ~killed[p]
        /\ chan' = [chan EXCEPT ![p] = p] /\ parent' = parent /\ killed' = killed
    BY Zenon, <1>10 DEF WaitSleep, InWait, InCall, Running, table
  <2>2. \A q \in Slots : state'[q] = IF q = p THEN "SLEEPING" ELSE state[q]
    BY Zenon, <1>0, <1>10 DEF WaitSleep, LeaveCpu, WokenState, TypeOK
  <2>3. \A q \in Slots : Zombies(q)' = Zombies(q) /\ Children(q)' = Children(q)
    BY Zenon, <2>1, <2>2 DEF Zombies, Children
  <2> QED BY Zenon, <1>0, <2>1, <2>2, <2>3 DEF WaitInv, WaitIsWarranted, TypeOK
<1>11. ASSUME NEW p \in Slots, NEW ch \in Chans, Sleep(p, ch) PROVE WaitInv'
  <2>1. /\ state[p] = "RUNNING" /\ ch # p
        /\ chan' = [chan EXCEPT ![p] = ch] /\ parent' = parent /\ killed' = killed
    BY Zenon, <1>11, ProcAssumption DEF Sleep, Running, table
  <2>2. \A q \in Slots : state'[q] = IF q = p THEN "SLEEPING" ELSE state[q]
    BY Zenon, <1>0, <1>11 DEF Sleep, LeaveCpu, WokenState, TypeOK
  <2>3. \A q \in Slots : Zombies(q)' = Zombies(q) /\ Children(q)' = Children(q)
    BY Zenon, <2>1, <2>2 DEF Zombies, Children
  <2> QED BY Zenon, <1>0, <2>1, <2>2, <2>3 DEF WaitInv, WaitIsWarranted, TypeOK
<1>12. ASSUME NEW ch \in Chans, Wakeup(ch) PROVE WaitInv'
  BY Zenon, <1>0, <1>12, WaitFrame DEF Wakeup, WokenState, table
<1>13. ASSUME NEW p \in Slots, NEW k \in KillPids, Kill(p, k) PROVE WaitInv'
  <2>1. chan' = chan /\ parent' = parent
    BY Zenon, <1>13 DEF Kill
  <2>2. PICK s \in Slots : /\ killed' = [killed EXCEPT ![s] = TRUE]
                           /\ state' = [state EXCEPT ![s] = IF @ = "SLEEPING" THEN "RUNNABLE" ELSE @]
    BY Zenon, <1>13 DEF Kill
  <2>3. \A q \in Slots : state'[q] = "SLEEPING" => state[q] = "SLEEPING" /\ killed'[q] = killed[q]
    BY Zenon, <1>0, <2>2 DEF TypeOK
  <2>4. \A q \in Slots : state'[q] = "ZOMBIE" => state[q] = "ZOMBIE"
    BY Zenon, <1>0, <2>2 DEF TypeOK
  <2> QED BY Zenon, <1>0, <2>1, <2>3, <2>4, WaitFrame
<1>14. ASSUME NEW p \in Slots, NEW w \in Weights, WeightSet(p, w) PROVE WaitInv'
  BY Zenon, <1>0, <1>14, WaitFrame DEF WeightSet
<1>15. CASE UNCHANGED vars
  BY Zenon, <1>15, WaitFrame DEF vars
<1> QED
  BY Zenon, <1>1, <1>2, <1>3, <1>4, <1>5, <1>6, <1>7, <1>8, <1>9, <1>10, <1>11, <1>12,
     <1>13, <1>14, <1>15 DEF Next, Step

LEMMA LifeInvariant == Spec => [](SchedInv /\ FamilyInv /\ WaitInv)
<1>1. Init => SchedInv /\ FamilyInv /\ WaitInv
  BY Zenon, TypeInvInit, ForkInvInit, CpuAgreesInit, IdleInit, FamilyInit DEF SchedInv
<1>2. SchedInv /\ FamilyInv /\ WaitInv /\ [Next]_vars => (SchedInv /\ FamilyInv /\ WaitInv)'
  <2>1. SchedInv /\ [Next]_vars => SchedInv'
    BY TypeInvStep, ForkInvStep, CpuAgreesStep, IdleStep DEF SchedInv
  <2> QED BY Zenon, <2>1, FamilyStep, WaitStep
<1> QED BY <1>1, <1>2, PTL DEF Spec

\* exit() leaves no orphan: every process but init has a living parent.
THEOREM EveryoneHasParent == Spec => []ParentIsLive
<1>1. FamilyInv => ParentIsLive
  BY Zenon DEF FamilyInv
<1> QED BY <1>1, LifeInvariant, PTL

\* No wakeup of wait() is lost, whatever the interleaving of exit(), kill() and the
\* scan of wait().
THEOREM NoLostWakeup == Spec => []WaitIsWarranted
<1>1. WaitInv => WaitIsWarranted
  BY Zenon DEF WaitInv
<1> QED BY <1>1, LifeInvariant, PTL

-----------------------------------------------------------------------------
(* Process identifiers. *)

PidInv == PidsDistinct /\ \A p \in Slots : pid[p] < nextpid

LEMMA PidStep == TypeOK /\ PidInv /\ [Next]_vars => PidInv'
<1> SUFFICES ASSUME TypeOK, PidInv, [Next]_vars PROVE PidInv'
  BY Zenon
<1>1. ASSUME NEW p \in Slots, ForkAlloc(p) PROVE PidInv'
  BY <1>1 DEF ForkAlloc, PidInv, PidsDistinct, TypeOK
<1>2. ASSUME NEW p \in Slots, WaitReap(p) PROVE PidInv'
  <2>1. PICK z \in Slots : pid' = [pid EXCEPT ![z] = 0]
    BY Zenon, <1>2 DEF WaitReap, Zombies, Children
  <2>2. nextpid' = nextpid
    BY Zenon, <1>2 DEF WaitReap
  <2> QED BY <2>1, <2>2 DEF PidInv, PidsDistinct, TypeOK
<1>3. CASE UNCHANGED <<pid, nextpid>>
  BY Zenon, <1>3 DEF PidInv, PidsDistinct
<1> QED
  BY Zenon, <1>1, <1>2, <1>3 DEF Next, Step, Dispatch, Yield, Trap, ExitStart, ForkFail, ForkCopy,
     ForkDone, Exit, InitExit, WaitFail, WaitSleep, Sleep, Return, Wakeup, Kill,
     WeightSet, table, vars

\* allocproc() counts upwards: no pid is given out twice.
THEOREM PidsUnique == Spec => []PidsDistinct
<1>1. Init => PidInv
  BY DEF Init, PidInv, PidsDistinct
<1>2. PidInv => PidsDistinct
  BY Zenon DEF PidInv
<1> QED BY <1>1, <1>2, PidStep, TypeCorrect, PTL DEF Spec

=============================================================================
