------------------------------ MODULE Umalloc -------------------------------
(***************************************************************************)
(* malloc() and free() of src/xv6-public/umalloc.c.  Addresses and sizes   *)
(* count Headers; 0 is &base, the heap starts at 1 and grows with sbrk().  *)
(* A process runs one call at a time: a call is one step.                  *)
(***************************************************************************)
EXTENDS Integers, FiniteSets

CONSTANTS
  HEADER,      \* sizeof(Header)
  MINUNITS,    \* 4096
  MAXUNITS,    \* the heap can grow up to here
  UINT,        \* the range of an unsigned int
  Requests     \* arguments of malloc()

Base == 0
Nil == -1
Addrs == 0 .. MAXUNITS

\* Larger requests wrap around in malloc() or morecore().
UmallocAssumption ==
  /\ HEADER \in Nat \ {0} /\ MINUNITS \in Nat \ {0} /\ MAXUNITS \in Nat
  /\ Requests \subseteq Nat /\ \A n \in Requests : n + 2 * HEADER <= UINT
  /\ MINUNITS * HEADER < UINT

VARIABLES
  heap,        \* [ptr, size: the fields of each Header, freep, brk: the end of the heap]
  alloced      \* history: what malloc() returned and the caller has not freed,
               \* with the number of bytes asked for

vars == <<heap, alloced>>

-----------------------------------------------------------------------------
Stops(h, bp, p) ==
  \/ bp > p /\ bp < h.ptr[p]
  \/ p >= h.ptr[p] /\ (bp > p \/ bp < h.ptr[p])

\* The element of the list after which free() puts bp.
Place(h, bp) ==
  LET from[p \in Addrs] == IF Stops(h, bp, p) THEN p ELSE from[h.ptr[p]]
  IN from[h.freep]

\* A header that has become part of a larger block is not read again; its
\* fields are 0 here.
JoinUpper(h, bp, next) ==
  IF bp + h.size[bp] = next
  THEN [h EXCEPT !.size = [@ EXCEPT ![bp] = @ + h.size[next], ![next] = 0],
                 !.ptr = [@ EXCEPT ![bp] = h.ptr[next], ![next] = 0]]
  ELSE [h EXCEPT !.ptr[bp] = next]

(* The operators named M_... are faulty variants of the definition they stand
   before; only the mutation of the model refers to them. *)

M_JoinLowerNever(h, bp, p) == [h EXCEPT !.ptr[p] = bp, !.freep = p]

JoinLower(h, bp, p) ==
  IF p + h.size[p] = bp
  THEN [h EXCEPT !.size = [@ EXCEPT ![p] = @ + h.size[bp], ![bp] = 0],
                 !.ptr = [@ EXCEPT ![p] = h.ptr[bp], ![bp] = 0], !.freep = p]
  ELSE [h EXCEPT !.ptr[p] = bp, !.freep = p]

Freed(h, bp) ==
  LET p == Place(h, bp) IN JoinLower(JoinUpper(h, bp, h.ptr[p]), bp, p)

\* free(bp + 1)
Free(bp) ==
  /\ \E a \in alloced : a.at = bp /\ alloced' = alloced \ {a}
  /\ heap' = Freed(heap, bp)

-----------------------------------------------------------------------------
NUnits(nbytes) == ((nbytes + HEADER - 1) % UINT) \div HEADER + 1

\* The list of a process that has not called malloc() before.
Started(h) ==
  IF h.freep = Nil THEN [h EXCEPT !.ptr[Base] = Base, !.size[Base] = 0, !.freep = Base] ELSE h

\* The predecessor of the first block with n units, from freep once around.
Fit(h, n) ==
  LET from[prevp \in Addrs] ==
        LET p == h.ptr[prevp] IN
        IF h.size[p] >= n THEN prevp ELSE IF p = h.freep THEN Nil ELSE from[p]
  IN from[h.freep]

\* morecore(): the block gets what sbrk() has been asked for.
More(n) == IF n < MINUNITS THEN MINUNITS ELSE n
Grown(h, nu) ==
  Freed([h EXCEPT !.size[h.brk] = nu, !.brk = @ + ((nu * HEADER) % UINT) \div HEADER], h.brk)

\* The whole block after prevp, or the n units at its end.
Take(h, prevp, n) ==
  LET p == h.ptr[prevp] IN
  IF h.size[p] = n THEN [at |-> p, h |-> [h EXCEPT !.ptr = [@ EXCEPT ![prevp] = h.ptr[p], ![p] = 0], !.freep = prevp]]
  ELSE LET q == p + h.size[p] - n IN
       [at |-> q, h |-> [h EXCEPT !.size = [@ EXCEPT ![p] = @ - n, ![q] = n], !.freep = prevp]]

Malloc(nbytes) ==
  LET n == NUnits(nbytes)
      h == Started(heap)
      took(t) == heap' = t.h /\ alloced' = alloced \cup {[at |-> t.at, nbytes |-> nbytes]}
  IN IF Fit(h, n) # Nil THEN took(Take(h, Fit(h, n), n))
     ELSE \/ /\ h.brk + More(n) - 1 <= MAXUNITS
             /\ LET g == Grown(h, More(n)) IN took(Take(g, Fit(g, n), n))
          \/ \* sbrk() fails: malloc() returns 0
             heap' = h /\ UNCHANGED alloced

-----------------------------------------------------------------------------
Init ==
  /\ heap = [ptr |-> [a \in Addrs |-> 0], size |-> [a \in Addrs |-> 0], freep |-> Nil, brk |-> 1]
  /\ alloced = {}

Next ==
  \/ \E nbytes \in Requests : Malloc(nbytes)
  \/ \E bp \in Addrs : Free(bp)

Spec == Init /\ [][Next]_vars

-----------------------------------------------------------------------------
(* Properties *)

\* The list from freep back to freep.
OnList ==
  LET from[k \in 0 .. MAXUNITS + 1] ==
        IF k = 0 THEN {heap.freep} ELSE LET S == from[k - 1] IN S \cup {heap.ptr[p] : p \in S}
  IN from[MAXUNITS + 1]
FreeBlocks == OnList \ {Base}
Blocks == FreeBlocks \cup {a.at : a \in alloced}
Extent(b) == b .. b + heap.size[b] - 1

\* One cycle through &base in the order of addresses, on which the search of
\* free() relies, without neighbours that touch: free() has joined them.
Sorted ==
  /\ Base \in OnList
  /\ \A p \in OnList :
       LET next == heap.ptr[p] IN
       IF \E q \in OnList : q > p
       THEN next > p /\ (\A q \in OnList : q > p => q >= next) /\ p + heap.size[p] # next
       ELSE next = Base

\* malloc() and free() lose no unit of the heap and hand out none twice, however
\* blocks have been split and joined: every unit is in one block of the sorted free
\* list or in one block a caller has, and that is large enough for what was asked.
HeapTiled ==
  heap.freep # Nil =>
    /\ Sorted
    /\ \A u \in 1 .. heap.brk - 1 : Cardinality({b \in Blocks : u \in Extent(b)}) = 1
    /\ \A b \in Blocks : heap.size[b] > 0 /\ Extent(b) \subseteq 1 .. heap.brk - 1
    /\ FreeBlocks \cap {a.at : a \in alloced} = {}
    /\ \A a \in alloced : (heap.size[a.at] - 1) * HEADER >= a.nbytes

=============================================================================
