------------------------------- MODULE Memory -------------------------------
(***************************************************************************)
(* Physical pages and address spaces: kalloc.c, vm.c and exec.c, with the  *)
(* calls that build and tear down an address space (fork, sbrk, exec, exit *)
(* and wait).  A step is one kalloc(), the only place where processes meet, *)
(* with what its caller does up to the next one.  Several pages that are   *)
(* freed in a row are freed in one step: a kalloc() in between could only  *)
(* find less.                                                              *)
(***************************************************************************)
EXTENDS Integers, FiniteSets, FiniteSetsExt

CONSTANTS
  Procs,      \* the slots of the process table, 0 .. n
  NPAGES,     \* pages from end to PHYSTOP
  PGSIZE,
  NV,         \* user pages below KERNBASE
  NPTENTRIES, \* user pages that one page table maps
  UINT,       \* 2^32: addresses wrap
  Deltas,     \* arguments of sbrk()
  Images      \* ends of the program segment of the files exec() loads

Pages == 1 .. NPAGES
Nil == 0                            \* the null pointer, and an entry without PTE_P
InitProc == 0
KERNBASE == NV * PGSIZE
VPages == 0 .. NV - 1
Tabs == 0 .. (NV - 1) \div NPTENTRIES
PTE_ADDR == Pages \cup {Nil}

ASSUME MemoryAssumption ==
  /\ InitProc \in Procs /\ Procs \subseteq Nat
  /\ NPAGES \in Nat /\ PGSIZE \in Nat \ {0} /\ NV \in Nat \ {0} /\ NPTENTRIES \in Nat \ {0}
  /\ UINT \in Nat /\ UINT > 2 * KERNBASE
  /\ Deltas \subseteq Int /\ Images \subseteq Nat \ {0}

VARIABLES
  freelist,   \* how often each page is on kmem.freelist
  state, parent, kstack, pgdir, sz,    \* fields of struct proc
  loc,        \* locals of the call each process is in
  panicked

vars == <<freelist, state, parent, kstack, pgdir, sz, loc, panicked>>

\* A page directory: its page, the page table of the kernel part (one, here),
\* the page tables of the user part and the pages they map.
Space == [dir : PTE_ADDR, ktab : PTE_ADDR, tab : [Tabs -> PTE_ADDR], pte : [VPages -> PTE_ADDR]]
NoSpace == [dir |-> Nil, ktab |-> Nil, tab |-> [t \in Tabs |-> Nil], pte |-> [v \in VPages |-> Nil]]

\* d is the directory being built, a, oldsz and newsz belong to allocuvm() or to
\* the loop of copyuvm(), mem is the page not mapped yet.
User == [pc |-> "user", op |-> "none", d |-> NoSpace, a |-> 0, oldsz |-> 0, newsz |-> 0, mem |-> Nil, np |-> 0]

-----------------------------------------------------------------------------
(* kalloc.c *)

\* The pages on the list are alike: kalloc() takes the first.
FreePages == {pg \in Pages : freelist[pg] > 0}
Head == Min(FreePages)

Kalloc == freelist' = [freelist EXCEPT ![Head] = @ - 1]
Kfree(pages) == freelist' = [pg \in Pages |-> IF pg \in pages THEN freelist[pg] + 1 ELSE freelist[pg]]

-----------------------------------------------------------------------------
(* vm.c *)

PGROUNDUP(n) == ((n + PGSIZE - 1) \div PGSIZE) * PGSIZE

\* What deallocuvm(d, oldsz, newsz) frees, and the directory it leaves.
Between(low, high) == {v \in VPages : PGROUNDUP(low) <= v * PGSIZE /\ v * PGSIZE < high}
Mapped(d, vs) == {d.pte[v] : v \in vs} \ {Nil}
Unmapped(d, vs) == [d EXCEPT !.pte = [v \in VPages |-> IF v \in vs THEN Nil ELSE d.pte[v]]]

M_FreevmKeepsTables(d) == Mapped(d, VPages) \cup ({d.dir, d.ktab} \ {Nil})

\* What freevm(d) frees: pages, page tables and the directory.
Freevm(d) == (Mapped(d, VPages) \cup {d.tab[t] : t \in Tabs} \cup {d.dir, d.ktab}) \ {Nil}

\* The directory that the process changes.
Dir(p) == IF loc[p].op = "sbrk" THEN pgdir[p] ELSE loc[p].d

At(p, where) == ~panicked /\ state[p] = "RUNNING" /\ loc[p].pc = where

\* In user mode, with code to run: a process that gave back its first page has
\* lost its code (kfree() fills the page with junk), faults and can only exit.
Ready(p) == At(p, "user") /\ pgdir[p].pte[0] # Nil

Return(p) == loc' = [loc EXCEPT ![p] = User]
Goto(p, where) == loc' = [loc EXCEPT ![p].pc = where]

\* "bad" of exec(), fork() after copyuvm() failed, and growproc() after
\* allocuvm() failed, with the page in mem, if any.
Fail(p) ==
  LET l == loc[p]
      mem == {l.mem} \ {Nil}
      grown == Between(l.oldsz, l.newsz)
  IN /\ Return(p)
     /\ CASE l.op = "sbrk" ->
               /\ Kfree(Mapped(pgdir[p], grown) \cup mem)
               /\ pgdir' = [pgdir EXCEPT ![p] = Unmapped(pgdir[p], grown)]
               /\ UNCHANGED <<state, kstack>>
          [] l.op = "fork" ->
               /\ Kfree(Freevm(l.d) \cup mem \cup {kstack[l.np]})
               /\ kstack' = [kstack EXCEPT ![l.np] = Nil]
               /\ state' = [state EXCEPT ![l.np] = "UNUSED"]
               /\ UNCHANGED pgdir
          [] OTHER -> Kfree(Freevm(l.d) \cup mem) /\ UNCHANGED <<state, kstack, pgdir>>
     /\ UNCHANGED <<parent, sz, panicked>>

\* setupkvm()
SetupDir(p) ==
  /\ At(p, "dir")
  /\ IF FreePages = {} THEN Fail(p)
     ELSE /\ Kalloc
          /\ loc' = [loc EXCEPT ![p].d.dir = Head, ![p].pc = "ktab"]
          /\ UNCHANGED <<state, parent, kstack, pgdir, sz, panicked>>

\* allocuvm() refuses to reach the kernel; exec() then fails.
SetupKernel(p) ==
  /\ At(p, "ktab")
  /\ IF FreePages = {} THEN Fail(p)
     ELSE /\ Kalloc
          /\ loc' = [loc EXCEPT ![p].d.ktab = Head,
                                ![p].pc = IF loc[p].newsz >= KERNBASE THEN "bad" ELSE "mem"]
          /\ UNCHANGED <<state, parent, kstack, pgdir, sz, panicked>>

\* The loop of allocuvm() or copyuvm() needs a page.  copyuvm() first looks at
\* the parent's page.
AllocPage(p) ==
  LET l == loc[p]
  IN /\ At(p, "mem") /\ l.a < l.newsz
     /\ IF l.op = "fork" /\ pgdir[p].pte[l.a \div PGSIZE] = Nil
          THEN panicked' = TRUE /\ UNCHANGED <<freelist, state, parent, kstack, pgdir, sz, loc>>
        ELSE IF FreePages = {} THEN Fail(p)
        ELSE /\ Kalloc
             /\ loc' = [loc EXCEPT ![p].mem = Head, ![p].pc = "map"]
             /\ UNCHANGED <<state, parent, kstack, pgdir, sz, panicked>>

\* mappages() of that page, with the page table if it is the first in it.
MapPage(p) ==
  LET l == loc[p]
      v == l.a \div PGSIZE
      t == v \div NPTENTRIES
      d == Dir(p)
      new == [d EXCEPT !.pte[v] = l.mem, !.tab[t] = IF @ = Nil THEN Head ELSE @]
  IN /\ At(p, "map")
     /\ IF d.tab[t] = Nil /\ FreePages = {} THEN Fail(p)
        ELSE /\ IF d.tab[t] = Nil THEN Kalloc ELSE UNCHANGED freelist
             /\ IF d.pte[v] # Nil
                  THEN panicked' = TRUE /\ UNCHANGED <<pgdir, loc>>
                  ELSE /\ LET next == [l EXCEPT !.pc = "mem", !.mem = Nil, !.a = @ + PGSIZE]
                          IN IF l.op = "sbrk"
                               THEN pgdir' = [pgdir EXCEPT ![p] = new] /\ loc' = [loc EXCEPT ![p] = next]
                               ELSE loc' = [loc EXCEPT ![p] = [next EXCEPT !.d = new]] /\ UNCHANGED pgdir
                       /\ UNCHANGED panicked
             /\ UNCHANGED <<state, parent, kstack, sz>>

Filled(p, op) == At(p, "mem") /\ loc[p].a >= loc[p].newsz /\ loc[p].op = op

-----------------------------------------------------------------------------
(* sbrk() *)

M_ShrunkKeeps(p, newsz) == sz[p]

\* deallocuvm() returns 0 for a process that gives all its memory back, which
\* growproc() takes for a failure.
Shrunk(p, newsz) == IF newsz = 0 THEN sz[p] ELSE newsz

Sbrk(p, n) ==
  LET newsz == (sz[p] + n) % UINT
  IN /\ Ready(p)
     /\ \/ /\ n > 0 /\ newsz < KERNBASE /\ newsz >= sz[p]
           /\ loc' = [loc EXCEPT ![p] = [User EXCEPT !.pc = "mem", !.op = "sbrk", !.a = PGROUNDUP(sz[p]),
                                                     !.oldsz = sz[p], !.newsz = newsz]]
           /\ UNCHANGED <<freelist, pgdir, sz>>
        \/ /\ n < 0 /\ newsz < sz[p]
           /\ Kfree(Mapped(pgdir[p], Between(newsz, sz[p])))
           /\ pgdir' = [pgdir EXCEPT ![p] = Unmapped(pgdir[p], Between(newsz, sz[p]))]
           /\ sz' = [sz EXCEPT ![p] = Shrunk(p, newsz)]
           /\ UNCHANGED loc
     /\ UNCHANGED <<state, parent, kstack, panicked>>

SbrkDone(p) ==
  /\ Filled(p, "sbrk")
  /\ sz' = [sz EXCEPT ![p] = loc[p].newsz]
  /\ Return(p)
  /\ UNCHANGED <<freelist, state, parent, kstack, pgdir, panicked>>

-----------------------------------------------------------------------------
(* exec() *)

Exec(p, end) ==
  /\ Ready(p)
  /\ loc' = [loc EXCEPT ![p] = [User EXCEPT !.pc = "dir", !.op = "seg", !.newsz = end]]
  /\ UNCHANGED <<freelist, state, parent, kstack, pgdir, sz, panicked>>

\* The segment is loaded; two more pages for the guard and the stack.
ExecStack(p) ==
  LET base == PGROUNDUP(loc[p].newsz)
      top == base + 2 * PGSIZE
  IN /\ Filled(p, "seg")
     /\ loc' = [loc EXCEPT ![p] = [@ EXCEPT !.op = "stack", !.a = base, !.oldsz = base, !.newsz = top,
                                            !.pc = IF top >= KERNBASE THEN "bad" ELSE "mem"]]
     /\ UNCHANGED <<freelist, state, parent, kstack, pgdir, sz, panicked>>

\* The old image, once the new one is committed.
ExecFrees(p) == Freevm(pgdir[p])

ExecCommit(p) ==
  /\ Filled(p, "stack")
  /\ pgdir' = [pgdir EXCEPT ![p] = loc[p].d]
  /\ sz' = [sz EXCEPT ![p] = loc[p].newsz]
  /\ Kfree(ExecFrees(p))
  /\ Return(p)
  /\ UNCHANGED <<state, parent, kstack, panicked>>

\* A segment or the arguments that cannot be loaded, or a size allocuvm() refuses.
ExecBad(p) ==
  /\ At(p, "bad") \/ Filled(p, "seg") \/ Filled(p, "stack")
  /\ Fail(p)

-----------------------------------------------------------------------------
(* fork(), exit(), wait() *)

\* The first UNUSED slot.
Fork(p) ==
  LET unused == {q \in Procs : state[q] = "UNUSED"}
      np == Min(unused)
  IN /\ Ready(p) /\ unused # {}
     /\ state' = [state EXCEPT ![np] = "EMBRYO"]
     /\ loc' = [loc EXCEPT ![p] = [User EXCEPT !.pc = "kstack", !.op = "fork", !.newsz = sz[p], !.np = np]]
     /\ UNCHANGED <<freelist, parent, kstack, pgdir, sz, panicked>>

\* The rest of allocproc().
ForkStack(p) ==
  LET np == loc[p].np
  IN /\ At(p, "kstack")
     /\ IF FreePages = {}
          THEN state' = [state EXCEPT ![np] = "UNUSED"] /\ Return(p) /\ UNCHANGED <<freelist, kstack>>
          ELSE Kalloc /\ kstack' = [kstack EXCEPT ![np] = Head] /\ Goto(p, "dir") /\ UNCHANGED state
     /\ UNCHANGED <<parent, pgdir, sz, panicked>>

ForkDone(p) ==
  LET np == loc[p].np
  IN /\ Filled(p, "fork")
     /\ pgdir' = [pgdir EXCEPT ![np] = loc[p].d]
     /\ sz' = [sz EXCEPT ![np] = sz[p]]
     /\ parent' = [parent EXCEPT ![np] = p]
     /\ state' = [state EXCEPT ![np] = "RUNNING"]
     /\ Return(p)
     /\ UNCHANGED <<freelist, kstack, panicked>>

\* Called, or after a page fault.  Memory is left to the parent.
Exit(p) ==
  /\ At(p, "user") /\ p # InitProc
  /\ state' = [state EXCEPT ![p] = "ZOMBIE"]
  /\ parent' = [q \in Procs |-> IF parent[q] = p THEN InitProc ELSE parent[q]]
  /\ UNCHANGED <<freelist, kstack, pgdir, sz, loc, panicked>>

\* The stale pgdir of the slot is not read again: the model clears it.
Wait(p, q) ==
  /\ Ready(p)
  /\ state[q] = "ZOMBIE" /\ parent[q] = p
  /\ Kfree(Freevm(pgdir[q]) \cup {kstack[q]})
  /\ kstack' = [kstack EXCEPT ![q] = Nil] /\ pgdir' = [pgdir EXCEPT ![q] = NoSpace]
  /\ parent' = [parent EXCEPT ![q] = Nil] /\ state' = [state EXCEPT ![q] = "UNUSED"]
  /\ UNCHANGED <<sz, loc, panicked>>

-----------------------------------------------------------------------------
\* After kinit2() and userinit(): initcode has one page.
InitSpace == [NoSpace EXCEPT !.dir = 2, !.ktab = 3, !.tab[0] = 4, !.pte[0] = 5]
Init ==
  /\ freelist = [pg \in Pages |-> IF pg <= 5 THEN 0 ELSE 1]
  /\ state = [p \in Procs |-> IF p = InitProc THEN "RUNNING" ELSE "UNUSED"]
  /\ parent = [p \in Procs |-> InitProc]
  /\ kstack = [p \in Procs |-> IF p = InitProc THEN 1 ELSE Nil]
  /\ pgdir = [p \in Procs |-> IF p = InitProc THEN InitSpace ELSE NoSpace]
  /\ sz = [p \in Procs |-> IF p = InitProc THEN PGSIZE ELSE 0]
  /\ loc = [p \in Procs |-> User]
  /\ panicked = FALSE

Step(p) ==
  \/ SetupDir(p) \/ SetupKernel(p) \/ AllocPage(p) \/ MapPage(p)
  \/ SbrkDone(p) \/ \E n \in Deltas : Sbrk(p, n)
  \/ ExecStack(p) \/ ExecCommit(p) \/ ExecBad(p) \/ \E end \in Images : Exec(p, end)
  \/ Fork(p) \/ ForkStack(p) \/ ForkDone(p)
  \/ Exit(p) \/ \E q \in Procs : Wait(p, q)

Next == \E p \in Procs : Step(p)

Spec == Init /\ [][Next]_vars

-----------------------------------------------------------------------------
(* Properties *)

\* Where a page is in use.
Uses(d, pg) ==
  Cardinality({t \in Tabs : d.tab[t] = pg}) + Cardinality({v \in VPages : d.pte[v] = pg})
  + Cardinality({f \in {"dir", "ktab"} : d[f] = pg})
UsesBy(p, pg) ==
  Uses(pgdir[p], pg) + Uses(loc[p].d, pg)
  + Cardinality({<<n, q>> \in {<<"kstack", kstack[p]>>, <<"mem", loc[p].mem>>} : q = pg})

\* kalloc() and kfree() are paired on every path, also when memory runs out in
\* the middle of fork(), exec() or sbrk(): a page is free or has one use.
PagesOwned ==
  ~panicked => \A pg \in Pages : freelist[pg] + MapThenSumSet(LAMBDA p : UsesBy(p, pg), Procs) = 1

\* p->sz and the page table agree between system calls: exactly the pages below
\* sz are mapped, so copyuvm() finds them and mappages() maps no page twice (neither
\* reaches its panic).  The
\* exception is a process that has given back all its memory: it cannot go on.
SizeMapped ==
  /\ ~panicked
  /\ \A p \in Procs : Ready(p) =>
       \A v \in VPages : pgdir[p].pte[v] # Nil <=> v * PGSIZE < sz[p]

=============================================================================
