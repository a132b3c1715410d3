-------------------------------- MODULE Proc --------------------------------
(***************************************************************************)
(* The process table and the priority scheduler of the delivered kernel,   *)
(* src/update scheduler/proc.c: fork, exit, wait, sleep, wakeup, kill,     *)
(* yield, weightset and the per-CPU scheduler loop.                        *)
(*                                                                         *)
(* One step is one critical section of ptable.lock, or one of the few      *)
(* stretches of code that touch the table without it (the end of a failed  *)
(* fork, the assignment of np->parent).  Everything from sched() to the    *)
(* release at the bottom of scheduler() is one critical section, so a      *)
(* process that leaves its CPU updates its priority and min_priority in    *)
(* the same step.  A process that resumes inside wait() still holds the    *)
(* lock the scheduler took: see LockFree.                                  *)
(***************************************************************************)
EXTENDS Integers, FiniteSets

CONSTANTS
  NPROC,        \* slots of ptable.proc
  CPUs,         \* the processors running scheduler()
  Chans,        \* sleep channels of the other kernel parts (&ticks, a buf, ...)
  Weights,      \* arguments user programs pass to weightset()
  KillPids,     \* arguments user programs pass to kill()
  TIME_SLICE,   \* 10000000 in the code
  INT_HALF,     \* 2^31 in the code: int is -INT_HALF .. INT_HALF-1
  MaxPid        \* bound: allocproc() is called at most MaxPid - 1 times

Slots == 0 .. NPROC - 1
Null == -1                     \* the null pointer, as a proc or as a channel
InitProc == 0                  \* initproc: userinit() gets the first slot

ASSUME ProcAssumption ==
  /\ NPROC \in Nat \ {0}
  /\ TIME_SLICE \in Nat
  /\ INT_HALF \in Nat /\ INT_HALF > 3
  /\ MaxPid \in Nat \ {0}
  /\ Weights \subseteq Int
  /\ KillPids \subseteq Int
  /\ Chans \cap (Slots \cup {Null}) = {}
  /\ Null \notin CPUs

VARIABLES
  state,        \* p->state
  pid,          \* p->pid
  parent,       \* p->parent
  chan,         \* p->chan
  killed,       \* p->killed
  priority,     \* p->priority
  weight,       \* p->weight
  min_priority, \* ptable.min_priority
  nextpid,      \* nextpid; the global weight always has the same value
  cpu,          \* c->proc
  pc,           \* where the process is in its kernel code
  np,           \* fork()'s local variable np
  panicked      \* a CPU called panic()

table == <<pid, parent, killed, weight, nextpid>>
local == <<pc, np, panicked>>
vars == <<state, pid, parent, chan, killed, priority, weight, min_priority,
          nextpid, cpu, pc, np, panicked>>

ProcStates == {"UNUSED", "EMBRYO", "SLEEPING", "RUNNABLE", "RUNNING", "ZOMBIE"}
Int32 == -INT_HALF .. INT_HALF - 1
PCs == {"user",     \* in user code
        "call",     \* entered a system call, which has not acted yet
        "fork",     \* in fork(), np allocated, before copyuvm() returns
        "dup",      \* in fork(), np->parent set, files being duplicated
        "wait",     \* in the loop of wait()
        "sleep",    \* in a system call that has slept on a channel of Chans
        "exit"}     \* in exit(), closing files; it may sleep there

TypeOK ==
  /\ state \in [Slots -> ProcStates]
  /\ pid \in [Slots -> Nat]
  /\ parent \in [Slots -> Slots \cup {Null}]
  /\ chan \in [Slots -> Slots \cup Chans \cup {Null}]
  /\ killed \in [Slots -> BOOLEAN]
  /\ priority \in [Slots -> Int32]
  /\ weight \in [Slots -> Int]
  /\ min_priority \in Int32
  /\ nextpid \in Nat \ {0}
  /\ cpu \in [CPUs -> Slots \cup {Null}]
  /\ pc \in [Slots -> PCs]
  /\ np \in [Slots -> Slots \cup {Null}]
  /\ panicked \in BOOLEAN

-----------------------------------------------------------------------------
(* Signed 32-bit arithmetic as the build does it. *)

(* The operators named M_... are faulty variants of the definition they stand
   before; only the mutation of the model refers to them. *)

\* The addition in p->priority + ... wraps around.
Wrap(x) == ((x + INT_HALF) % (2 * INT_HALF)) - INT_HALF

\* TIME_SLICE / weight: C division truncates towards zero.
Quantum(w) == IF w > 0 THEN TIME_SLICE \div w ELSE -(TIME_SLICE \div (-w))

-----------------------------------------------------------------------------
Runnable(st) == {q \in Slots : st[q] = "RUNNABLE"}

\* Nobody is inside a critical section of ptable.lock between two steps,
\* except a process that was switched to inside wait(), which goes on with
\* the lock that the scheduler acquired.
LockFree == ~ \E p \in Slots : state[p] = "RUNNING" /\ pc[p] = "wait"

Running(p) == state[p] = "RUNNING" /\ ~panicked

InCall(p) == Running(p) /\ pc[p] = "call"

\* The slots wakeup1(ch) makes RUNNABLE, and the table after that.
Sleepers(ch) == {q \in Slots : state[q] = "SLEEPING" /\ chan[q] = ch}
WokenState(W) == [q \in Slots |-> IF q \in W THEN "RUNNABLE" ELSE state[q]]
WokenPriority(W) == [q \in Slots |-> IF q \in W THEN min_priority ELSE priority[q]]

M_MinPriorityStale(st, prio) == UNCHANGED min_priority

\* update min_priority: the least priority of a RUNNABLE process; when there
\* is none min_priority keeps its value.
MinPriority(st, prio) ==
  \/ Runnable(st) = {} /\ UNCHANGED min_priority
  \/ \E m \in Runnable(st) :
       /\ \A q \in Runnable(st) : prio[m] <= prio[q]
       /\ min_priority' = prio[m]

\* p has set its state to "to" and calls sched(): back in scheduler(), its
\* priority and min_priority are updated and the CPU is free.  W are the
\* processes woken before, in the same critical section.
LeaveCpu(p, to, W) ==
  /\ state' = [WokenState(W) EXCEPT ![p] = to]
  /\ priority' = [WokenPriority(W) EXCEPT ![p] = Wrap(@ + Quantum(weight[p]))]
  /\ MinPriority(state', priority')
  /\ cpu' = [c \in CPUs |-> IF cpu[c] = p THEN Null ELSE cpu[c]]

-----------------------------------------------------------------------------
(* scheduler() up to swtch, and what sleep() does first when it resumes. *)

Choice(p) ==
  /\ state[p] = "RUNNABLE" /\ priority[p] = min_priority
  /\ \A q \in Slots : q < p => ~(state[q] = "RUNNABLE" /\ priority[q] = min_priority)

M_DispatchLeavesRunnable(c) ==
  /\ ~panicked /\ LockFree
  /\ cpu[c] = Null
  /\ \E p \in Slots : Choice(p) /\ cpu' = [cpu EXCEPT ![c] = p]
  /\ UNCHANGED <<state, chan, priority, min_priority, table, local>>

Dispatch(c) ==
  /\ ~panicked /\ LockFree
  /\ cpu[c] = Null
  /\ \E p \in Slots :
       /\ Choice(p)
       /\ cpu' = [cpu EXCEPT ![c] = p]
       /\ state' = [state EXCEPT ![p] = "RUNNING"]
       /\ chan' = [chan EXCEPT ![p] = Null]
  /\ UNCHANGED <<priority, min_priority, table, local>>

\* The timer interrupt of trap() makes the running process give up the CPU.
Yield(p) ==
  /\ Running(p) /\ LockFree
  /\ LeaveCpu(p, "RUNNABLE", {})
  /\ UNCHANGED <<chan, table, local>>

\* trap() sends a process that has been killed to exit() before and after
\* every system call; one killed after this step still finishes its call.
Trap(p) ==
  /\ Running(p) /\ pc[p] = "user" /\ ~killed[p]
  /\ pc' = [pc EXCEPT ![p] = "call"]
  /\ UNCHANGED <<state, chan, priority, min_priority, cpu, table, np, panicked>>

-----------------------------------------------------------------------------
(* fork() *)

\* allocproc(): the first UNUSED slot becomes EMBRYO under the lock.
ForkAlloc(p) ==
  /\ InCall(p) /\ LockFree
  /\ nextpid < MaxPid
  /\ \E s \in Slots :
       /\ state[s] = "UNUSED"
       /\ \A q \in Slots : q < s => state[q] # "UNUSED"
       /\ state' = [state EXCEPT ![s] = "EMBRYO"]
       /\ pid' = [pid EXCEPT ![s] = nextpid]
       /\ weight' = [weight EXCEPT ![s] = nextpid]
       /\ priority' = [priority EXCEPT ![s] = min_priority]
       /\ np' = [np EXCEPT ![p] = s]
  /\ nextpid' = nextpid + 1
  /\ pc' = [pc EXCEPT ![p] = "fork"]
  /\ UNCHANGED <<parent, chan, killed, min_priority, cpu, panicked>>

M_ForkFailKeepsSlot(p) ==
  /\ Running(p) /\ pc[p] = "fork"
  /\ pc' = [pc EXCEPT ![p] = "user"]
  /\ np' = [np EXCEPT ![p] = Null]
  /\ UNCHANGED <<state, chan, priority, min_priority, cpu, table, panicked>>

\* kalloc() or copyuvm() found no memory: the slot is given back without the
\* lock, and only its state is reset.
ForkFail(p) ==
  /\ Running(p) /\ pc[p] = "fork"
  /\ state' = [state EXCEPT ![np[p]] = "UNUSED"]
  /\ pc' = [pc EXCEPT ![p] = "user"]
  /\ np' = [np EXCEPT ![p] = Null]
  /\ UNCHANGED <<chan, priority, min_priority, cpu, table, panicked>>

ForkCopy(p) ==
  /\ Running(p) /\ pc[p] = "fork"
  /\ parent' = [parent EXCEPT ![np[p]] = p]
  /\ pc' = [pc EXCEPT ![p] = "dup"]
  /\ UNCHANGED <<state, pid, chan, killed, priority, weight, min_priority,
                 nextpid, cpu, np, panicked>>

ForkDone(p) ==
  /\ Running(p) /\ pc[p] = "dup" /\ LockFree
  /\ state' = [state EXCEPT ![np[p]] = "RUNNABLE"]
  /\ pc' = [pc EXCEPT ![p] = "user", ![np[p]] = "user"]
  /\ np' = [np EXCEPT ![p] = Null]
  /\ UNCHANGED <<chan, priority, min_priority, cpu, table, panicked>>

-----------------------------------------------------------------------------
(* exit() and wait() *)

Children(p) == {q \in Slots : parent[q] = p}
Zombies(p) == {q \in Children(p) : state[q] = "ZOMBIE"}

M_ExitWakesInitOnly(p) == IF Zombies(p) # {} THEN Sleepers(InitProc) ELSE {}

\* The processes exit() wakes: the parent in wait(), and init in wait() if it
\* inherits a zombie.
ExitWakes(p) ==
  Sleepers(parent[p]) \cup (IF Zombies(p) # {} THEN Sleepers(InitProc) ELSE {})

\* By a call of exit(), or in trap() when the process has been killed.
ExitStart(p) ==
  /\ Running(p) /\ pc[p] = "user"
  /\ p # InitProc
  /\ pc' = [pc EXCEPT ![p] = "exit"]
  /\ UNCHANGED <<state, chan, priority, min_priority, cpu, table, np, panicked>>

M_ExitKeepsChildren(p) ==
  /\ Running(p) /\ pc[p] = "exit" /\ LockFree
  /\ LeaveCpu(p, "ZOMBIE", ExitWakes(p))
  /\ UNCHANGED <<chan, table, local>>

Exit(p) ==
  /\ Running(p) /\ pc[p] = "exit" /\ LockFree
  /\ parent' = [q \in Slots |-> IF parent[q] = p THEN InitProc ELSE parent[q]]
  /\ LeaveCpu(p, "ZOMBIE", ExitWakes(p))
  /\ UNCHANGED <<pid, chan, killed, weight, nextpid, local>>

\* exit() of init: panic("init exiting").
InitExit ==
  /\ Running(InitProc) /\ pc[InitProc] = "user"
  /\ panicked' = TRUE
  /\ UNCHANGED <<state, chan, priority, min_priority, cpu, table, pc, np>>

\* One pass of the loop of wait(), the first one or after a sleep.
InWait(p) ==
  \/ InCall(p) /\ LockFree
  \/ Running(p) /\ pc[p] = "wait"

WaitReap(p) ==
  /\ InWait(p)
  /\ \E z \in Zombies(p) :
       /\ \A q \in Zombies(p) : z <= q
       /\ state' = [state EXCEPT ![z] = "UNUSED"]
       /\ pid' = [pid EXCEPT ![z] = 0]
       /\ parent' = [parent EXCEPT ![z] = Null]
       /\ killed' = [killed EXCEPT ![z] = FALSE]
  /\ pc' = [pc EXCEPT ![p] = "user"]
  /\ UNCHANGED <<chan, priority, weight, min_priority, nextpid, cpu, np, panicked>>

WaitFail(p) ==
  /\ InWait(p)
  /\ Zombies(p) = {}
  /\ Children(p) = {} \/ killed[p]
  /\ pc' = [pc EXCEPT ![p] = "user"]
  /\ UNCHANGED <<state, chan, priority, min_priority, cpu, table, np, panicked>>

WaitSleep(p) ==
  /\ InWait(p)
  /\ Zombies(p) = {} /\ Children(p) # {} /\ ~killed[p]
  /\ chan' = [chan EXCEPT ![p] = p]
  /\ pc' = [pc EXCEPT ![p] = "wait"]
  /\ LeaveCpu(p, "SLEEPING", {})
  /\ UNCHANGED <<table, np, panicked>>

-----------------------------------------------------------------------------
(* sleep() and wakeup() on the channels of the other kernel parts, kill() and
   weightset() *)

\* A system call, or exit(), calls sleep(ch, lk) with lk other than ptable.lock,
\* for the first time or in the loop around an earlier sleep().
Sleep(p, ch) ==
  /\ Running(p) /\ pc[p] \in {"call", "sleep", "exit"} /\ LockFree
  /\ chan' = [chan EXCEPT ![p] = ch]
  /\ pc' = [pc EXCEPT ![p] = IF @ = "call" THEN "sleep" ELSE @]
  /\ LeaveCpu(p, "SLEEPING", {})
  /\ UNCHANGED <<table, np, panicked>>

\* The system call returns: the loop around sleep() has ended, or the call
\* failed before it changed anything (no free slot, no such pid, weight 0).
Return(p) ==
  /\ Running(p) /\ pc[p] \in {"call", "sleep"}
  /\ pc' = [pc EXCEPT ![p] = "user"]
  /\ UNCHANGED <<state, chan, priority, min_priority, cpu, table, np, panicked>>

\* By another process or by an interrupt handler, also on an idle CPU.
Wakeup(ch) ==
  /\ ~panicked /\ LockFree
  /\ state' = WokenState(Sleepers(ch))
  /\ priority' = WokenPriority(Sleepers(ch))
  /\ UNCHANGED <<chan, min_priority, cpu, table, local>>

\* kill() looks at p->pid only, whatever the state of the slot, and leaves the
\* priority of a process it wakes alone.
Kill(p, k) ==
  /\ InCall(p) /\ LockFree
  /\ \E s \in Slots :
       /\ pid[s] = k
       /\ \A q \in Slots : q < s => pid[q] # k
       /\ killed' = [killed EXCEPT ![s] = TRUE]
       /\ state' = [state EXCEPT ![s] = IF @ = "SLEEPING" THEN "RUNNABLE" ELSE @]
  /\ pc' = [pc EXCEPT ![p] = "user"]
  /\ UNCHANGED <<pid, parent, chan, priority, weight, min_priority, nextpid,
                 cpu, np, panicked>>

\* sys_weightset() refuses 0; do_weightset() assigns under the lock.
WeightSet(p, w) ==
  /\ InCall(p) /\ LockFree
  /\ w # 0
  /\ weight' = [weight EXCEPT ![p] = w]
  /\ pc' = [pc EXCEPT ![p] = "user"]
  /\ UNCHANGED <<state, pid, parent, chan, killed, priority, min_priority,
                 nextpid, cpu, np, panicked>>

-----------------------------------------------------------------------------
(* Properties *)

Busy == \E p \in Slots : state[p] = "RUNNING"
Live(p) == state[p] \in {"SLEEPING", "RUNNABLE", "RUNNING"}

\* c->proc and p->state agree: a process is RUNNING exactly when one CPU, and
\* no more than one, has it as c->proc.
CpuAgrees ==
  /\ \A p \in Slots : state[p] = "RUNNING" <=> \E c \in CPUs : cpu[c] = p
  /\ \A c, d \in CPUs : cpu[c] = cpu[d] /\ cpu[c] # Null => c = d

\* When every CPU is in scheduler() (nothing is RUNNING), min_priority is the
\* least priority of a RUNNABLE process, so the test priority == min_priority
\* finds one: the machine never spins for ever with work in the table.
IdleFindsWork ==
  ~Busy /\ Runnable(state) # {} =>
    /\ \E p \in Slots : Choice(p)
    /\ \A q \in Runnable(state) : min_priority <= priority[q]

\* The scheduler divides by p->weight when p leaves the CPU: a slot in use
\* never has weight 0.
WeightNotZero == \A p \in Slots : state[p] # "UNUSED" => weight[p] # 0

\* No lost wakeup in wait(): a process asleep in wait() has a child, has no
\* ZOMBIE child and has not been killed.
WaitIsWarranted ==
  \A p \in Slots : state[p] = "SLEEPING" /\ chan[p] = p =>
    Zombies(p) = {} /\ Children(p) # {} /\ ~killed[p]

\* Every process but init has a parent that can still reap it; exit() hands
\* over its children in time.
ParentIsLive ==
  \A p \in Slots \ {InitProc} : Live(p) \/ state[p] = "ZOMBIE" =>
    parent[p] # Null /\ Live(parent[p])

\* pids identify processes: kill() and wait() never confuse two slots.
PidsDistinct ==
  \A p, q \in Slots : pid[p] = pid[q] /\ pid[p] # 0 => p = q

\* A slot being filled by fork() belongs to exactly one fork() in progress, and
\* every fork() in progress owns an EMBRYO, although a failed fork() returns
\* the slot without ptable.lock.
EmbryoOwned ==
  /\ \A p \in Slots : pc[p] \in {"fork", "dup"} =>
       np[p] \in Slots /\ state[np[p]] = "EMBRYO"
  /\ \A s \in Slots : state[s] = "EMBRYO" =>
       \E p \in Slots : /\ Live(p) /\ pc[p] \in {"fork", "dup"} /\ np[p] = s
                       /\ \A q \in Slots : np[q] = s => q = p

\* "새로 생긴 프로세스가 제외되지 않도록" (README.md:14): a process that is
\* RUNNABLE is run in the end.
RunnableRuns ==
  \A p \in Slots : state[p] = "RUNNABLE" ~> (state[p] = "RUNNING" \/ panicked)

-----------------------------------------------------------------------------
\* After userinit(): the first process is RUNNABLE, every other slot is zero.
Init ==
  /\ state = [p \in Slots |-> IF p = InitProc THEN "RUNNABLE" ELSE "UNUSED"]
  /\ pid = [p \in Slots |-> IF p = InitProc THEN 1 ELSE 0]
  /\ parent = [p \in Slots |-> Null]
  /\ chan = [p \in Slots |-> Null]
  /\ killed = [p \in Slots |-> FALSE]
  /\ priority = [p \in Slots |-> IF p = InitProc THEN 3 ELSE 0]
  /\ weight = [p \in Slots |-> IF p = InitProc THEN 1 ELSE 0]
  /\ min_priority = 3
  /\ nextpid = 2
  /\ cpu = [c \in CPUs |-> Null]
  /\ pc = [p \in Slots |-> "user"]
  /\ np = [p \in Slots |-> Null]
  /\ panicked = FALSE

Step(p) ==
  \/ Yield(p) \/ Trap(p)
  \/ ForkAlloc(p) \/ ForkFail(p) \/ ForkCopy(p) \/ ForkDone(p)
  \/ ExitStart(p) \/ Exit(p)
  \/ WaitReap(p) \/ WaitFail(p) \/ WaitSleep(p)
  \/ \E ch \in Chans : Sleep(p, ch)
  \/ Return(p)
  \/ \E k \in KillPids : Kill(p, k)
  \/ \E w \in Weights : WeightSet(p, w)

Next ==
  \/ \E c \in CPUs : Dispatch(c)
  \/ \E p \in Slots : Step(p)
  \/ \E ch \in Chans : Wakeup(ch)
  \/ InitExit

Spec == Init /\ [][Next]_vars

\* Each CPU goes round the loop of scheduler(); the timer interrupts whatever
\* runs with interrupts on; wait() with the lock held goes on to its end.
FairSpec ==
  /\ Spec
  /\ \A c \in CPUs : WF_vars(Dispatch(c))
  /\ \A p \in Slots : WF_vars(Yield(p))
  /\ \A p \in Slots :
       WF_vars(pc[p] = "wait" /\ (WaitReap(p) \/ WaitFail(p) \/ WaitSleep(p)))

=============================================================================
