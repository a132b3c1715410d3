------------------------------- MODULE Console -------------------------------
(***************************************************************************)
(* The console of src/xv6-public/console.c with what it runs on: spin      *)
(* locks, interrupts that come on a CPU whose flag is on, sleep() and      *)
(* wakeup(), and the loop of scheduler(), reduced to the handling of       *)
(* ptable.lock (which process it picks is the subject of Proc).            *)
(*                                                                         *)
(* A thread is a process, or the scheduler() of a CPU, named by the CPU.   *)
(* pc is where a thread is; hpc is where it is in the interrupt handler    *)
(* on top of that, None when there is none.  A step is one lock operation, *)
(* or what a thread does between two of them.                              *)
(***************************************************************************)
EXTENDS Spinlock, Sequences, FiniteSets

CONSTANTS
  Procs,
  Readers, Writers, Killers,   \* processes that call read(), write(), kill()
  Killable,    \* processes that may be killed
  BootCpu,     \* CPU 0, which the keyboard and the serial port interrupt
  DEBUG,       \* built with debug=1
  Keys,        \* what is typed
  Counts,      \* sizes of a read
  INPUT_BUF,
  UINT         \* the range of an unsigned int, 2^32

ASSUME ConsoleAssumption ==
  /\ Locks = {"cons", "ptable"}
  /\ Procs \cap CPUs = {} /\ None \notin Procs /\ BootCpu \in CPUs
  /\ DEBUG \in BOOLEAN
  /\ Counts \subseteq Nat \ {0}
  /\ INPUT_BUF \in Nat \ {0} /\ UINT \in Nat
  /\ UINT > INPUT_BUF /\ UINT % INPUT_BUF = 0

VARIABLES
  on,          \* the thread on each CPU: mycpu()->proc, or its scheduler()
  pc, hpc,
  state,       \* p->state
  killed,      \* p->killed
  saved,       \* intena in sched(), while the process is not on a CPU
  buf, r, w, e,          \* input
  n, target,   \* of a process in consoleread()
  doprocdump   \* of consoleintr()

threads == <<on, pc, hpc, state, killed, saved>>
input == <<buf, r, w, e>>
locals == <<n, target, doprocdump>>
vars == <<spinvars, threads, input, locals>>

Threads == Procs \cup CPUs

\* Labels, with the locks held there.
Unlocked == {"user",      \* in user code
             "read",      \* consoleread(), at acquire(&cons.lock)
             "write",     \* consolewrite(), at acquire(&cons.lock)
             "kill",      \* kill(), at acquire(&ptable.lock)
             "exit",      \* exit(), at acquire(&ptable.lock)
             "tick",      \* timer interrupt: yield(), at acquire(&ptable.lock)
             "iret",      \* the end of trap()
             "kbd",       \* consoleintr(), at acquire(&cons.lock)
             "dump",      \* procdump(): cprintf(), at acquire(&cons.lock)
             "sti",       \* scheduler(), at sti()
             "idle"}      \* scheduler(), at acquire(&ptable.lock)
ConsOnly == {"fill",      \* in the loop of consoleread()
             "sleep",     \* sleep(), at acquire(&ptable.lock)
             "leave",     \* at the last release() of consoleread() or consolewrite()
             "getc",      \* in the loop of consoleintr()
             "notify",    \* wakeup(), at acquire(&ptable.lock)
             "dumped"}    \* cprintf(), at release(&cons.lock)
PtableOnly == {"block",   \* sleep(), before sched()
               "wake",    \* sleep(), back from sched()
               "mark",    \* in the loop of kill()
               "zombie",  \* exit(), before sched()
               "yield",   \* yield(), before sched()
               "yielded", \* yield(), back from sched()
               "forkret", \* the first thing a process does
               "pick",    \* scheduler(), in the loop over the table
               "debug",   \* scheduler(): cprintf() under DEBUG, at acquire(&cons.lock)
               "chosen",  \* scheduler(), before swtch()
               "back"}    \* scheduler(), back from swtch()
Both == {"unlock",        \* sleep(), at release(lk)
         "notified",      \* wakeup(), in wakeup1()
         "debugged"}      \* scheduler(): cprintf() under DEBUG, at release(&cons.lock)
Labels == Unlocked \cup ConsOnly \cup PtableOnly \cup Both \cup {"dead"}

Cur(t) == IF hpc[t] = None THEN pc[t] ELSE hpc[t]
InLabel(c, l) == ~panicked /\ spin[c] = None /\ Cur(on[c]) = l

\* The thread on CPU c goes on at label l.
Goto(c, l) ==
  LET t == on[c] IN
  IF hpc[t] = None THEN pc' = [pc EXCEPT ![t] = l] /\ UNCHANGED hpc
                   ELSE hpc' = [hpc EXCEPT ![t] = l] /\ UNCHANGED pc

-----------------------------------------------------------------------------
(* acquire(), wherever it is called *)

LockAt(l) == IF l \in {"read", "write", "kbd", "dump", "debug"} THEN "cons" ELSE "ptable"

Afterwards == [read |-> "fill", write |-> "leave", kill |-> "mark", exit |-> "zombie",
               tick |-> "yield", kbd |-> "getc", dump |-> "dumped", idle |-> "pick",
               sleep |-> "unlock", notify |-> "notified", debug |-> "debugged"]

Acquire(c) ==
  /\ \E l \in DOMAIN Afterwards : InLabel(c, l) /\ AcquireStart(c, LockAt(l))
  /\ UNCHANGED <<threads, input, locals>>

Spin(c) ==
  /\ ~panicked
  /\ Xchg(c)
  /\ Goto(c, Afterwards[Cur(on[c])])
  /\ UNCHANGED <<on, state, killed, saved, input, locals>>

\* release(lk) at label l, and on to label k.
Unlock(c, l, lk, k) ==
  /\ InLabel(c, l)
  /\ Release(c, lk)
  /\ Goto(c, k)

-----------------------------------------------------------------------------
(* Interrupts.  The gates turn the flag off, iret turns it on again. *)

Interrupt(c, l) ==
  /\ ~panicked /\ fl[c] /\ hpc[on[c]] = None
  /\ fl' = [fl EXCEPT ![c] = FALSE]
  /\ hpc' = [hpc EXCEPT ![on[c]] = l]
  /\ UNCHANGED <<locked, lkcpu, ncli, intena, spin, panicked,
                 on, pc, state, killed, saved, input, n, target>>

\* A process that has been killed and was interrupted in user code exits.
Stopped(t) == t \in Procs /\ pc[t] = "user" /\ killed[t]

\* trap() calls yield() if a process runs on the CPU.  The ticks are left out.
Timer(c) ==
  /\ on[c] \in Procs
  /\ Interrupt(c, IF Stopped(on[c]) THEN "exit" ELSE "tick")
  /\ UNCHANGED doprocdump

KeyInterrupt == Interrupt(BootCpu, "kbd") /\ doprocdump' = FALSE

\* The end of trap(): killed is tested again, then iret.
EndTrap(c) ==
  LET t == on[c] IN
  /\ InLabel(c, "iret")
  /\ IF Stopped(t)
     THEN hpc' = [hpc EXCEPT ![t] = "exit"] /\ UNCHANGED fl
     ELSE hpc' = [hpc EXCEPT ![t] = None] /\ fl' = [fl EXCEPT ![c] = TRUE]
  /\ UNCHANGED <<lkvars, ncli, intena, spin, panicked,
                 on, pc, state, killed, saved, input, locals>>

-----------------------------------------------------------------------------
(* sched(), swtch() and scheduler() *)

SchedPanics(c) == ~Holding(c, "ptable") \/ ncli[c] # 1 \/ fl[c]

\* The process on CPU c has set its state to st and calls sched(), from which
\* it returns to label l.
Sched(c, st, l) ==
  LET p == on[c] IN
  /\ IF SchedPanics(c)
     THEN panicked' = TRUE /\ UNCHANGED <<threads, clivars>>
     ELSE /\ state' = [state EXCEPT ![p] = st]
          /\ saved' = [saved EXCEPT ![p] = intena[c]]
          /\ on' = [on EXCEPT ![c] = c]
          /\ Goto(c, l)
          /\ UNCHANGED <<killed, panicked, clivars>>
  /\ UNCHANGED <<lkvars, spin, input, locals>>

\* sti() at the top of the loop.
Sti(c) ==
  /\ InLabel(c, "sti")
  /\ fl' = [fl EXCEPT ![c] = TRUE]
  /\ Goto(c, "idle")
  /\ UNCHANGED <<lkvars, ncli, intena, spin, panicked, on, state, killed, saved, input, locals>>

Runnable == {p \in Procs : state[p] = "RUNNABLE"}

\* swtch() to a process, which returns from sched() and takes its intena back,
\* or starts at forkret().
Dispatch(c) ==
  /\ \E p \in Runnable :
       /\ on' = [on EXCEPT ![c] = p]
       /\ state' = [state EXCEPT ![p] = "RUNNING"]
       /\ pc' = [pc EXCEPT ![c] = "back"]
       /\ intena' = [intena EXCEPT ![c] = IF pc[p] = "forkret" THEN @ ELSE saved[p]]
       /\ saved' = [saved EXCEPT ![p] = FALSE]
  /\ UNCHANGED <<lkvars, ncli, fl, spin, panicked, hpc, killed>>

Pick(c) ==
  /\ InLabel(c, "pick")
  /\ IF Runnable = {}
     THEN Release(c, "ptable") /\ Goto(c, "sti") /\ UNCHANGED <<on, state, killed, saved>>
     ELSE IF DEBUG
     THEN Goto(c, "debug") /\ UNCHANGED <<spinvars, on, state, killed, saved>>
     ELSE Dispatch(c)
  /\ UNCHANGED <<input, locals>>

Back(c) ==
  /\ Unlock(c, "back", "ptable", "sti")
  /\ UNCHANGED <<on, state, killed, saved, input, locals>>

\* The process on CPU c returns from a system call; trap() looks at killed.
UserOr(c) == IF killed[on[c]] THEN "exit" ELSE "user"

ForkRet(c) ==
  /\ Unlock(c, "forkret", "ptable", "user")
  /\ UNCHANGED <<on, state, killed, saved, input, locals>>

-----------------------------------------------------------------------------
(* yield(), exit() and kill() *)

Yield(c) == InLabel(c, "yield") /\ Sched(c, "RUNNABLE", "yielded")

Yielded(c) ==
  /\ Unlock(c, "yielded", "ptable", "iret")
  /\ UNCHANGED <<on, state, killed, saved, input, locals>>

Exit(c) == InLabel(c, "zombie") /\ Sched(c, "ZOMBIE", "dead")

\* kill() does not hold the lock a process has that is about to sleep().
Kill(c, v) ==
  /\ Unlock(c, "mark", "ptable", UserOr(c))
  /\ killed' = [killed EXCEPT ![v] = TRUE]
  /\ state' = [state EXCEPT ![v] = IF @ = "SLEEPING" THEN "RUNNABLE" ELSE @]
  /\ UNCHANGED <<on, saved, input, locals>>

KillNobody(c) ==
  /\ Unlock(c, "mark", "ptable", UserOr(c))
  /\ UNCHANGED <<on, state, killed, saved, input, locals>>

\* A process in user code makes a system call; trap() looks at killed first.
Call(c, l) ==
  /\ InLabel(c, "user")
  /\ Goto(c, IF killed[on[c]] THEN "exit" ELSE l)
  /\ UNCHANGED <<spinvars, on, state, killed, saved, input, doprocdump>>

CallRead(c, k) ==
  /\ on[c] \in Readers /\ Call(c, "read")
  /\ n' = [n EXCEPT ![on[c]] = k]
  /\ target' = [target EXCEPT ![on[c]] = k]

CallOther(c) ==
  /\ \/ on[c] \in Writers /\ Call(c, "write")
     \/ on[c] \in Killers /\ Call(c, "kill")
  /\ UNCHANGED <<n, target>>

-----------------------------------------------------------------------------
(* consoleread() and consolewrite() *)

\* (The lock of the inode, which both let go first and take back at the end, is
\* a sleep lock and belongs to Names.)

\* No character: give up when killed, otherwise sleep(&input.r, &cons.lock).
ReadWait(c) ==
  /\ InLabel(c, "fill") /\ r = w
  /\ Goto(c, IF killed[on[c]] THEN "leave" ELSE "sleep")
  /\ UNCHANGED <<spinvars, on, state, killed, saved, input, locals>>

\* One character.  ^D ends the read; after other characters it is left for the
\* next read, which returns 0.
ReadTake(c) ==
  /\ InLabel(c, "fill") /\ r # w
  /\ LET p == on[c]
         ch == buf[r % INPUT_BUF] IN
     /\ r' = IF ch = "eof" /\ n[p] < target[p] THEN r ELSE (r + 1) % UINT
     /\ n' = [n EXCEPT ![p] = IF ch = "eof" THEN @ ELSE @ - 1]
     /\ Goto(c, IF ch \in {"eof", "nl"} \/ n'[p] = 0 THEN "leave" ELSE "fill")
  /\ UNCHANGED <<spinvars, on, state, killed, saved, buf, w, e, target, doprocdump>>

\* The last release() of consoleread() and, its characters printed, of
\* consolewrite().
Leave(c) ==
  /\ Unlock(c, "leave", "cons", UserOr(c))
  /\ n' = [n EXCEPT ![on[c]] = 0] /\ target' = [target EXCEPT ![on[c]] = 0]
  /\ UNCHANGED <<on, state, killed, saved, input, doprocdump>>

\* sleep(): ptable.lock is held when cons.lock is given up.
SleepUnlock(c) ==
  /\ Unlock(c, "unlock", "cons", "block")
  /\ UNCHANGED <<on, state, killed, saved, input, locals>>

SleepSched(c) == InLabel(c, "block") /\ Sched(c, "SLEEPING", "wake")

SleepBack(c) ==
  /\ Unlock(c, "wake", "ptable", "read")
  /\ UNCHANGED <<on, state, killed, saved, input, locals>>

-----------------------------------------------------------------------------
(* consoleintr() *)

Minus(x, y) == (x - y) % UINT

M_PutFullSilent(c, ch) ==
  /\ Minus(e, r) < INPUT_BUF
  /\ buf' = [buf EXCEPT ![e % INPUT_BUF] = ch]
  /\ e' = (e + 1) % UINT
  /\ IF ch \in {"nl", "eof"} THEN w' = e' /\ Goto(c, "notify")
     ELSE w' = (IF Minus(e', r) = INPUT_BUF THEN e' ELSE w) /\ UNCHANGED <<pc, hpc>>
  /\ UNCHANGED <<r, doprocdump>>

Put(c, ch) ==
  LET full == (r + INPUT_BUF) % UINT IN
  /\ Minus(e, r) < INPUT_BUF
  /\ buf' = [buf EXCEPT ![e % INPUT_BUF] = ch]
  /\ e' = (e + 1) % UINT
  /\ IF ch \in {"nl", "eof"} \/ e' = full
     THEN w' = e' /\ Goto(c, "notify")
     ELSE UNCHANGED <<w, pc, hpc>>
  /\ UNCHANGED <<r, doprocdump>>

M_BackspaceAlways(c) == e' = Minus(e, 1) /\ UNCHANGED <<buf, r, w, pc, hpc, doprocdump>>

Backspace(c) == e # w /\ e' = Minus(e, 1) /\ UNCHANGED <<buf, r, w, pc, hpc, doprocdump>>

\* ^U goes back to the start of what has not been handed over, or to a newline.
KillLine(c) ==
  /\ \E d \in 0 .. Minus(e, w) :
       LET stop(x) == x = Minus(e, w) \/ buf[Minus(e, x + 1) % INPUT_BUF] = "nl" IN
       /\ stop(d) /\ \A x \in 0 .. d - 1 : ~stop(x)
       /\ e' = Minus(e, d)
  /\ UNCHANGED <<buf, r, w, pc, hpc, doprocdump>>

\* One character from getc(); the ones that have no effect are left out.
Key(c) ==
  /\ InLabel(c, "getc")
  /\ \/ \E ch \in Keys \ {"dump", "kill", "bs"} : Put(c, IF ch = "cr" THEN "nl" ELSE ch)
     \/ "bs" \in Keys /\ Backspace(c)
     \/ "kill" \in Keys /\ KillLine(c)
     \/ "dump" \in Keys /\ doprocdump' = TRUE /\ UNCHANGED <<input, pc, hpc>>
  /\ UNCHANGED <<spinvars, on, state, killed, saved, n, target>>

\* wakeup(&input.r)
Notify(c) ==
  /\ Unlock(c, "notified", "ptable", "getc")
  /\ state' = [p \in Procs |-> IF state[p] = "SLEEPING" THEN "RUNNABLE" ELSE state[p]]
  /\ UNCHANGED <<on, killed, saved, input, locals>>

M_KeysDoneDumps(c) ==
  /\ InLabel(c, "getc")
  /\ IF doprocdump THEN Goto(c, "dump") /\ UNCHANGED spinvars
                   ELSE Release(c, "cons") /\ Goto(c, "iret")
  /\ UNCHANGED <<on, state, killed, saved, input, locals>>

\* getc() returns -1; procdump() waits until cons.lock is free again.
KeysDone(c) ==
  /\ Unlock(c, "getc", "cons", IF doprocdump THEN "dump" ELSE "iret")
  /\ UNCHANGED <<on, state, killed, saved, input, locals>>

\* One cprintf() of procdump() stands for all of them.
Dumped(c) ==
  /\ Unlock(c, "dumped", "cons", "iret")
  /\ UNCHANGED <<on, state, killed, saved, input, locals>>

-----------------------------------------------------------------------------
Init ==
  /\ SpinInit
  /\ on = [c \in CPUs |-> c]
  /\ pc = [t \in Threads |-> IF t \in Procs THEN "forkret" ELSE "sti"]
  /\ hpc = [t \in Threads |-> None]
  /\ state = [p \in Procs |-> "RUNNABLE"]
  /\ killed = [p \in Procs |-> FALSE]
  /\ saved = [p \in Procs |-> FALSE]
  /\ buf = [i \in 0 .. INPUT_BUF - 1 |-> "nul"]
  /\ r = 0 /\ w = 0 /\ e = 0
  /\ n = [p \in Procs |-> 0] /\ target = [p \in Procs |-> 0]
  /\ doprocdump = FALSE

Next ==
  \/ KeyInterrupt
  \/ \E c \in CPUs :
       \/ Acquire(c) \/ Spin(c) \/ Timer(c) \/ EndTrap(c)
       \/ Sti(c) \/ Pick(c) \/ Back(c) \/ ForkRet(c)
       \/ Yield(c) \/ Yielded(c) \/ Exit(c)
       \/ KillNobody(c) \/ \E v \in Killable : Kill(c, v)
       \/ \E k \in Counts : CallRead(c, k)
       \/ CallOther(c)
       \/ ReadWait(c) \/ ReadTake(c) \/ Leave(c)
       \/ SleepUnlock(c) \/ SleepSched(c) \/ SleepBack(c)
       \/ Key(c) \/ Notify(c) \/ KeysDone(c) \/ Dumped(c)

Spec == Init /\ [][Next]_vars

\* With debug=1 the scheduler prints its choice before it switches.
Printed(c) ==
  /\ Unlock(c, "debugged", "cons", "chosen")
  /\ UNCHANGED <<on, state, killed, saved, input, locals>>

DispatchPrinted(c) ==
  /\ InLabel(c, "chosen")
  /\ Dispatch(c)
  /\ UNCHANGED <<input, locals>>

SpecDebug == Init /\ [][Next \/ \E c \in CPUs : Printed(c) \/ DispatchPrinted(c)]_vars

-----------------------------------------------------------------------------
(* Properties *)

\* No panic() of acquire(), release(), popcli() or sched() is ever reached.
NoPanic == ~panicked

\* The locks the code at label l has taken.
HeldAt(l) == (IF l \in ConsOnly \cup Both THEN {"cons"} ELSE {})
        \cup (IF l \in PtableOnly \cup Both THEN {"ptable"} ELSE {})

\* Interrupts are a property of the thread, not of the CPU it runs on: user
\* code and system calls outside critical sections run with interrupts on,
\* handlers to their end with interrupts off, whatever ran in between.
FlagFollowsThread ==
  ~panicked =>
    \A c \in CPUs :
      /\ hpc[on[c]] # None => ~fl[c]
      /\ Cur(on[c]) \in {"user", "read", "write", "kill"} /\ spin[c] = None => fl[c] /\ ncli[c] = 0

\* Mutual exclusion, with interrupts off: two CPUs are never both between
\* acquire() and release() of the same lock, and a CPU that is there takes no
\* interrupt, so a handler never spins for a lock of the code it interrupted;
\* pushcli() and popcli() give every thread its own interrupt flag back.
Exclusion ==
  /\ \A c \in CPUs : \A lk \in HeldAt(Cur(on[c])) :
       /\ ~fl[c]
       /\ \A d \in CPUs : lk \in HeldAt(Cur(on[d])) => d = c
  /\ FlagFollowsThread

\* No lost wakeup: a process sleeps on &input.r only while there is nothing to
\* read, except while consoleintr() is on its way to wakeup1().
SleepIsWarranted ==
  \A p \in Procs : state[p] = "SLEEPING" =>
    r = w \/ \E c \in CPUs : Cur(on[c]) \in {"notify", "notified"}

\* What is in the ring is what has been typed, edited and not read yet, in
\* order; the indices are unsigned and wrap around.
Typed(from, len) == [k \in 1 .. len |-> buf[(from + k - 1) % INPUT_BUF]]
Editor == INSTANCE LineEditor WITH
  Ends <- {"nl", "eof"}, Others <- Keys \ {"dump", "kill", "bs", "cr", "nl", "eof"},
  Capacity <- INPUT_BUF, line <- Typed(w, Minus(e, w)), queue <- Typed(r, Minus(w, r))
LineEditing == Editor!Spec

\* "disable interrupts to avoid deadlock" (spinlock.c:27): no two CPUs spin for
\* locks the other one holds.
NoCircularWait ==
  \A c, d \in CPUs : spin[c] # None /\ spin[d] # None =>
    ~(lkcpu[spin[c]] = d /\ lkcpu[spin[d]] = c)

=============================================================================
