----------------------------- MODULE RoundRobin -----------------------------
(***************************************************************************)
(* The kernel of "add system call": the round-robin scheduler of xv6, the  *)
(* clock and sleep(n), and the trace mask that trace() sets and fork()     *)
(* hands down.  A step is one critical section of ptable.lock.             *)
(***************************************************************************)
EXTENDS Integers, FiniteSets, FiniteSetsExt

CONSTANTS
  NPROC,
  NCPU,
  Killable,  \* slots whose process may be killed
  Masks,     \* arguments of trace()
  Sleeps     \* arguments of sleep()

Slots == 0 .. NPROC - 1
CPUs == 0 .. NCPU - 1      \* CPU 0 keeps the time
InitProc == 0
Nobody == NPROC            \* cpu->proc == 0
Ticks == NPROC             \* the channel &ticks; a process is its own channel

ASSUME RoundRobinAssumption ==
  /\ NPROC \in Nat \ {0} /\ NCPU \in Nat \ {0}
  /\ Killable \subseteq Slots \ {InitProc}
  /\ Masks \subseteq Nat /\ Sleeps \subseteq Nat

VARIABLES
  state, parent, chan, killed, trace,   \* fields of struct proc
  cpu,       \* the process of each CPU
  loc,       \* locals of the call a process is in
  due        \* CPU 0 is in the timer interrupt, before yield()

vars == <<state, parent, chan, killed, trace, cpu, loc, due>>

\* np belongs to fork(); n and past, the ticks since ticks0 up to n, to sleep().
User == [pc |-> "user", np |-> 0, n |-> 0, past |-> 0]

On(c, where) ==
  cpu[c] # Nobody /\ loc[cpu[c]].pc = where /\ ~(c = 0 /\ due)

Goto(p, where) == loc' = [loc EXCEPT ![p].pc = where]
Return(p) == loc' = [loc EXCEPT ![p] = User]

-----------------------------------------------------------------------------
(* scheduler() *)

M_NextRestarts(st, p) == {q \in Slots : st[q] = "RUNNABLE"}

\* The processes the scan still meets after p.
NextAfter(st, p) == {q \in Slots : q > p /\ st[q] = "RUNNABLE"}

\* c switches to the first process of qs, which leaves sleep() if it was there
\* and tidies up ch, or c ends the scan and gives up the lock.
SwitchTo(c, qs, st, ch) ==
  LET q == Min(qs)
  IN IF qs = {}
     THEN state' = st /\ cpu' = [cpu EXCEPT ![c] = Nobody] /\ chan' = ch
     ELSE state' = [st EXCEPT ![q] = "RUNNING"] /\ cpu' = [cpu EXCEPT ![c] = q] /\ chan' = [ch EXCEPT ![q] = Nobody]

Dispatch(c) ==
  LET runnable == {q \in Slots : state[q] = "RUNNABLE"}
  IN /\ cpu[c] = Nobody /\ runnable # {} /\ ~(c = 0 /\ due)
     /\ SwitchTo(c, runnable, state, chan)
     /\ UNCHANGED <<parent, killed, trace, loc, due>>

\* sched(): the process of c has left it with the states st, and c's scheduler
\* goes on with the slot after it, still holding the lock.
Sched(c, st, ch) == SwitchTo(c, NextAfter(st, cpu[c]), st, ch)

M_WakesKeepsTicks(st, ch) ==
  [q \in Slots |-> IF st[q] = "SLEEPING" /\ chan[q] = ch /\ ch # Ticks THEN "RUNNABLE" ELSE st[q]]

\* wakeup1()
Wakes(st, ch) == [q \in Slots |-> IF st[q] = "SLEEPING" /\ chan[q] = ch THEN "RUNNABLE" ELSE st[q]]

\* sleep(), up to the switch.
Sleep(c, ch) == Sched(c, [state EXCEPT ![cpu[c]] = "SLEEPING"], [chan EXCEPT ![cpu[c]] = ch])

-----------------------------------------------------------------------------
(* trap(): the clock *)

\* The first half of CPU 0's timer interrupt.
Tick ==
  /\ ~due
  /\ due' = (cpu[0] # Nobody)
  /\ state' = Wakes(state, Ticks)
  /\ loc' = [p \in Slots |-> [loc[p] EXCEPT !.past = Min({@ + 1, loc[p].n})]]
  /\ UNCHANGED <<parent, chan, killed, trace, cpu>>

\* yield(), on CPU 0 as the second half.
Yield(c) ==
  /\ cpu[c] # Nobody /\ (c = 0 => due)
  /\ Sched(c, [state EXCEPT ![cpu[c]] = "RUNNABLE"], chan)
  /\ due' = IF c = 0 THEN FALSE ELSE due
  /\ UNCHANGED <<parent, killed, trace, loc>>

-----------------------------------------------------------------------------
(* System calls of the process on CPU c.  A killed process exits instead. *)

Calls(c) == On(c, "user") /\ ~killed[cpu[c]]

\* allocproc() finds a slot.
Fork(c) ==
  LET unused == {q \in Slots : state[q] = "UNUSED"}
  IN /\ Calls(c) /\ unused # {}
     /\ state' = [state EXCEPT ![Min(unused)] = "EMBRYO"]
     /\ loc' = [loc EXCEPT ![cpu[c]] = [User EXCEPT !.pc = "fork", !.np = Min(unused)]]
     /\ UNCHANGED <<parent, chan, killed, trace, cpu, due>>

\* It fails to get a stack, or copyuvm() fails after it cleared the mask.
ForkFail(c) ==
  LET np == loc[cpu[c]].np
  IN /\ On(c, "fork")
     /\ state' = [state EXCEPT ![np] = "UNUSED"]
     /\ \E t \in {trace[np], 0} : trace' = [trace EXCEPT ![np] = t]
     /\ Return(cpu[c])
     /\ UNCHANGED <<parent, chan, killed, cpu, due>>

M_InheritedNot(p, np) == trace[np]

\* The mask the child of p starts with in slot np.
Inherited(p, np) == trace[p]

ForkDone(c) ==
  LET p == cpu[c]
      np == loc[p].np
  IN /\ On(c, "fork")
     /\ parent' = [parent EXCEPT ![np] = p]
     /\ trace' = [trace EXCEPT ![np] = Inherited(p, np)]
     /\ state' = [state EXCEPT ![np] = "RUNNABLE"]
     /\ Return(p)
     /\ UNCHANGED <<chan, killed, cpu, due>>

\* exit(), called or forced by kill().
Exit(c) ==
  LET p == cpu[c]
      orphans == {q \in Slots : parent[q] = p}
      woken == Wakes(state, parent[p])
      wakesInit == \E q \in orphans : state[q] = "ZOMBIE"
  IN /\ On(c, "user") /\ p # InitProc
     /\ parent' = [q \in Slots |-> IF q \in orphans THEN InitProc ELSE parent[q]]
     /\ Sched(c, [(IF wakesInit THEN Wakes(woken, InitProc) ELSE woken) EXCEPT ![p] = "ZOMBIE"], chan)
     /\ UNCHANGED <<killed, trace, loc, due>>

\* wait(), called or after its sleep.
Wait(c) ==
  LET p == cpu[c]
      kids == {q \in Slots : parent[q] = p}
      zombies == {q \in kids : state[q] = "ZOMBIE"}
      q == Min(zombies)
  IN /\ Calls(c) \/ On(c, "wait")
     /\ IF zombies # {}
          THEN /\ state' = [state EXCEPT ![q] = "UNUSED"]
               /\ parent' = [parent EXCEPT ![q] = Nobody]
               /\ killed' = [killed EXCEPT ![q] = FALSE]
               /\ Return(p) /\ UNCHANGED <<chan, cpu>>
        ELSE IF kids = {} \/ killed[p]
          THEN Return(p) /\ UNCHANGED <<state, parent, chan, killed, cpu>>
          ELSE Sleep(c, p) /\ Goto(p, "wait") /\ UNCHANGED <<parent, killed>>
     /\ UNCHANGED <<trace, due>>

\* sys_sleep(n) reads ticks0.
SysSleep(c, n) ==
  /\ Calls(c)
  /\ loc' = [loc EXCEPT ![cpu[c]] = [User EXCEPT !.pc = "sleep", !.n = n]]
  /\ UNCHANGED <<state, parent, chan, killed, trace, cpu, due>>

\* The test of its loop.
SleepLoop(c) ==
  LET p == cpu[c]
  IN /\ On(c, "sleep")
     /\ IF loc[p].past >= loc[p].n \/ killed[p]
          THEN Return(p) /\ UNCHANGED <<state, chan, cpu>>
          ELSE Sleep(c, Ticks) /\ UNCHANGED loc
     /\ UNCHANGED <<parent, killed, trace, due>>

\* kill()
Kill(c, q) ==
  /\ Calls(c) /\ state[q] # "UNUSED"
  /\ killed' = [killed EXCEPT ![q] = TRUE]
  /\ state' = [state EXCEPT ![q] = IF @ = "SLEEPING" THEN "RUNNABLE" ELSE @]
  /\ UNCHANGED <<parent, chan, trace, cpu, loc, due>>

SysTrace(c, mask) ==
  /\ Calls(c)
  /\ trace' = [trace EXCEPT ![cpu[c]] = mask]
  /\ UNCHANGED <<state, parent, chan, killed, cpu, loc, due>>

-----------------------------------------------------------------------------
Init ==
  /\ state = [p \in Slots |-> IF p = InitProc THEN "RUNNABLE" ELSE "UNUSED"]
  /\ parent = [p \in Slots |-> Nobody]
  /\ chan = [p \in Slots |-> Nobody]
  /\ killed = [p \in Slots |-> FALSE]
  /\ trace = [p \in Slots |-> 0]
  /\ cpu = [c \in CPUs |-> Nobody]
  /\ loc = [p \in Slots |-> User]
  /\ due = FALSE

Next ==
  \/ Tick
  \/ \E c \in CPUs :
       \/ Dispatch(c) \/ Yield(c)
       \/ Fork(c) \/ ForkFail(c) \/ ForkDone(c) \/ Exit(c) \/ Wait(c)
       \/ SleepLoop(c) \/ \E n \in Sleeps : SysSleep(c, n)
       \/ \E q \in Killable : Kill(c, q)
       \/ \E mask \in Masks : SysTrace(c, mask)

\* A CPU that looks for work gets the lock, the clock ticks, a process is
\* interrupted, and one that is run again and again gets through the test.
Fairness ==
  /\ WF_vars(Tick)
  /\ \A c \in CPUs : WF_vars(Dispatch(c)) /\ WF_vars(Yield(c))
  /\ \A p \in Slots : SF_vars(\E c \in CPUs : cpu[c] = p /\ SleepLoop(c))

Spec == Init /\ [][Next]_vars /\ Fairness

-----------------------------------------------------------------------------
(* Properties *)

\* The scan of scheduler() goes on behind the process that has left the CPU, so
\* a RUNNABLE process gets a CPU whatever the others do.
RunnableRuns == \A p \in Slots : (state[p] = "RUNNABLE") ~> (state[p] # "RUNNABLE")

\* sys_sleep(n) returns: no tick is missed between the test and sleep().
SleeperReturns == \A p \in Slots : (loc[p].pc = "sleep") ~> (loc[p].pc # "sleep")

\* "The calls of the process that calls trace() and of the children it forks
\* later are traced; other processes are not affected" (README.md:10):
\* the mask of a process changes by its own trace() only, and a process starts
\* with the mask its parent has then, whatever its slot was used for before.
TraceScope ==
  [][\A p \in Slots :
       /\ state[p] \in {"RUNNABLE", "SLEEPING", "ZOMBIE"} => trace'[p] = trace[p]
       /\ state[p] = "EMBRYO" /\ state'[p] = "RUNNABLE" => trace'[p] = trace[parent'[p]]]_vars

=============================================================================
