------------------------------ MODULE Spinlock -------------------------------
(***************************************************************************)
(* The spin locks of src/xv6-public/spinlock.c and the interrupt flag of   *)
(* each CPU, which they turn off and on.  The operators below are steps of *)
(* one CPU; the modules that use locks say when they are taken.            *)
(*                                                                         *)
(* acquire() is two steps: up to the loop, with interrupts already off,    *)
(* and the xchg that finds the lock free.  lk->cpu is written together     *)
(* with the xchg: in between, no other CPU can take itself for the holder. *)
(* release() is one step: after lk->locked is 0 it only touches its CPU.   *)
(***************************************************************************)
EXTENDS Integers

CONSTANTS CPUs, Locks

None == "none"       \* no lock, no CPU, no handler

ASSUME SpinAssumption == None \notin Locks /\ None \notin CPUs

VARIABLES
  locked,    \* lk->locked
  lkcpu,     \* lk->cpu
  ncli,      \* mycpu()->ncli
  intena,    \* mycpu()->intena
  fl,        \* FL_IF of the CPU: it takes interrupts
  spin,      \* the lock the CPU spins for, in the loop of acquire()
  panicked   \* a CPU called panic()

lkvars == <<locked, lkcpu>>
clivars == <<ncli, intena, fl>>
spinvars == <<locked, lkcpu, ncli, intena, fl, spin, panicked>>

SpinTypeOK ==
  /\ locked \in [Locks -> BOOLEAN]
  /\ lkcpu \in [Locks -> CPUs \cup {None}]
  /\ ncli \in [CPUs -> Int]
  /\ intena \in [CPUs -> BOOLEAN]
  /\ fl \in [CPUs -> BOOLEAN]
  /\ spin \in [CPUs -> Locks \cup {None}]
  /\ panicked \in BOOLEAN

\* initlock() for every lock.  A CPU comes to scheduler() with interrupts off.
SpinInit ==
  /\ locked = [lk \in Locks |-> FALSE]
  /\ lkcpu = [lk \in Locks |-> None]
  /\ ncli = [c \in CPUs |-> 0]
  /\ intena = [c \in CPUs |-> FALSE]
  /\ fl = [c \in CPUs |-> FALSE]
  /\ spin = [c \in CPUs |-> None]
  /\ panicked = FALSE

-----------------------------------------------------------------------------
Holding(c, lk) == locked[lk] /\ lkcpu[lk] = c

(* The operators named M_... are faulty variants of the definition they stand
   before; only the mutation of the model refers to them. *)

M_PushCliAlways(c) ==
  /\ fl' = [fl EXCEPT ![c] = FALSE]
  /\ intena' = [intena EXCEPT ![c] = fl[c]]
  /\ ncli' = [ncli EXCEPT ![c] = @ + 1]

\* pushcli(): the outermost one remembers whether interrupts were on.
PushCli(c) ==
  /\ fl' = [fl EXCEPT ![c] = FALSE]
  /\ intena' = [intena EXCEPT ![c] = IF ncli[c] = 0 THEN fl[c] ELSE @]
  /\ ncli' = [ncli EXCEPT ![c] = @ + 1]

\* popcli() panics with interrupts on, or when there is no pushcli() to undo.
PopCliPanics(c) == fl[c] \/ ncli[c] < 1

PopCli(c) ==
  /\ ncli' = [ncli EXCEPT ![c] = @ - 1]
  /\ fl' = [fl EXCEPT ![c] = ncli[c] = 1 /\ intena[c]]
  /\ UNCHANGED intena

\* acquire() up to its loop.
AcquireStart(c, lk) ==
  /\ PushCli(c)
  /\ IF Holding(c, lk) THEN panicked' = TRUE /\ UNCHANGED spin
                       ELSE spin' = [spin EXCEPT ![c] = lk] /\ UNCHANGED panicked
  /\ UNCHANGED lkvars

\* The xchg that reads 0.
Xchg(c) ==
  /\ spin[c] # None /\ ~locked[spin[c]]
  /\ locked' = [locked EXCEPT ![spin[c]] = TRUE]
  /\ lkcpu' = [lkcpu EXCEPT ![spin[c]] = c]
  /\ spin' = [spin EXCEPT ![c] = None]
  /\ UNCHANGED <<clivars, panicked>>

Release(c, lk) ==
  /\ IF ~Holding(c, lk) \/ PopCliPanics(c)
     THEN panicked' = TRUE /\ UNCHANGED <<lkvars, clivars>>
     ELSE /\ locked' = [locked EXCEPT ![lk] = FALSE]
          /\ lkcpu' = [lkcpu EXCEPT ![lk] = None]
          /\ PopCli(c)
          /\ UNCHANGED panicked
  /\ UNCHANGED spin

=============================================================================
