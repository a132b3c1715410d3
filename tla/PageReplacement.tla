--------------------------- MODULE PageReplacement ---------------------------
(***************************************************************************)
(* The page replacement simulator of src/page replacement/main.c: the      *)
(* options, the reference string and the seven algorithms, each run over   *)
(* the whole string.  A step of a run is one reference.                    *)
(***************************************************************************)
EXTENDS Integers, Sequences, FiniteSets, FiniteSetsExt

CONSTANTS
  Pages,        \* page numbers of the reference string
  NoPage,       \* the -1 of an empty frame
  AlgInputs,    \* the algorithm numbers a user may enter, as sequences
  PfInputs,     \* the frame counts a user may enter
  RefInputs,    \* lengths of the reference string
  RWs,          \* the rw fields of the references: 0 read, 1 write
  MINREF        \* the least number of references: 500

VARIABLES
  pc,           \* "options", "data", "run" or "exit"
  algorithm, pf_num, rd, ref_num, references,
  k,            \* position in the list of algorithms
  i, page_frame, page_fault, occupied, counter, rbit, wbit, head,
  faults,       \* the page_fault each finished algorithm has printed
  loaded        \* history: the reference that put the page into each frame

options == <<algorithm, pf_num, rd>>
frames == <<page_frame, page_fault, occupied, counter, rbit, wbit, head, loaded>>
vars == <<pc, options, ref_num, references, k, i, frames, faults>>

Names == <<"optimal", "fifo", "lifo", "lru", "lfu", "sc", "esc">>
Frames == 0 .. pf_num - 1

\* The algorithms simulate() runs, in order; the loop ends at the zero word that
\* follows algorithm[] in memory.
Schedule ==
  IF algorithm[1] = 8 THEN Names ELSE [n \in 1 .. Len(algorithm) |-> Names[algorithm[n]]]
Running == IF pc = "run" THEN Schedule[k] ELSE "none"
Data(n) == references[n].data

-----------------------------------------------------------------------------
\* choose_option(): what it accepts, and the errors and answers that end the
\* program.
ChooseOption(argv, pf, source, n, quit) ==
  /\ pc = "options"
  /\ LET ok == /\ Len(argv) \in 1 .. 3
               /\ \A j \in 1 .. Len(argv) : argv[j] \in 1 .. 8
               /\ Len(argv) > 1 => \A j \in 1 .. Len(argv) : argv[j] # 8
               /\ pf \in 3 .. 10
               /\ source = 1 => n >= MINREF
               /\ ~quit
     IN IF ok
          THEN /\ pc' = "data"
               /\ algorithm' = argv /\ pf_num' = pf /\ rd' = (source = 1)
               /\ ref_num' = IF source = 1 THEN n ELSE ref_num
          ELSE pc' = "exit" /\ UNCHANGED <<options, ref_num>>
  /\ UNCHANGED <<references, k, i, frames, faults>>

\* The arrays as every algorithm initialises them for f frames.
Fresh(f) ==
  /\ i' = 0 /\ page_fault' = 0 /\ occupied' = 0 /\ head' = 0
  /\ page_frame' = [j \in 0 .. f - 1 |-> NoPage]
  /\ counter' = [j \in 0 .. f - 1 |-> 0]
  /\ rbit' = [j \in 0 .. f - 1 |-> 0] /\ wbit' = [j \in 0 .. f - 1 |-> 0]
  /\ loaded' = [j \in 0 .. f - 1 |-> -1]

\* get_data_entry(): random references, or n records of a file.  The loop on
\* feof() goes round once more after the last record.
GetDataEntry(refs) ==
  LET n == Cardinality(DOMAIN refs)
      count == n + 1
  IN /\ pc = "data"
     /\ IF rd THEN /\ n = ref_num
                   /\ pc' = "run" /\ references' = refs /\ k' = 1 /\ Fresh(pf_num)
                   /\ UNCHANGED ref_num
        ELSE IF count < MINREF
               THEN pc' = "exit" /\ UNCHANGED <<references, ref_num, k, i, frames>>
               ELSE /\ ref_num' = count - 1
                    /\ pc' = "run" /\ references' = refs /\ k' = 1 /\ Fresh(pf_num)
     /\ UNCHANGED <<options, faults>>

-----------------------------------------------------------------------------
\* check_hit(): also looks at the first empty frame.
CheckHit(key) ==
  LET last == IF occupied < pf_num THEN occupied ELSE occupied - 1
      hits == {j \in 0 .. last : page_frame[j] = key}
  IN IF hits = {} THEN -1 ELSE Min(hits)

\* The first index that holds the least value of f.
LeastIndex(f) == Min({j \in Frames : \A m \in Frames : f[j] <= f[m]})

\* The position of the next reference to page p at or after n, or ref_num.
NextUse(p, n) == Min({j \in n .. ref_num - 1 : Data(j) = p} \cup {ref_num})
\* The position of the last reference to page p at or before n.
LastUse(p, n) == Max({j \in 0 .. n : Data(j) = p} \cup {-1})

M_FarthestAftIdxNearest(start) ==
  LET next == [j \in Frames |-> NextUse(page_frame[j], start)]
  IN LeastIndex(next)

\* find_farthest_aft_idx(): the first frame that is not used again, or the first
\* of those used last.
FarthestAftIdx(start) ==
  LET next == [j \in Frames |-> NextUse(page_frame[j], start)]
      never == {j \in Frames : next[j] = ref_num}
  IN IF never # {} THEN Min(never) ELSE LeastIndex([j \in Frames |-> -next[j]])

\* find_farthest_idx(): the frame whose page was used longest ago.
FarthestIdx(start) == LeastIndex([j \in Frames |-> LastUse(page_frame[j], start)])

\* get_high_priority_idx(): the lowest class, the frame h first among equals.
HighPriorityIdx(h) ==
  LET class == [j \in Frames |-> 2 * rbit[j] + wbit[j]]
      best == {j \in Frames : \A m \in Frames : class[j] <= class[m]}
  IN IF h \in best THEN h ELSE Min(best)

\* The search of sc(): the first frame from head on whose bit is clear.
ScVictim ==
  LET after(n) == (head + n) % pf_num
      clear == {n \in 0 .. pf_num - 1 : rbit[after(n)] = 0}
  IN after(IF clear = {} THEN 0 ELSE Min(clear))
ScPassed ==
  LET after(n) == (head + n) % pf_num
      clear == {n \in 0 .. pf_num - 1 : rbit[after(n)] = 0}
  IN {after(n) : n \in 0 .. (IF clear = {} THEN pf_num ELSE Min(clear)) - 1}

-----------------------------------------------------------------------------
(* One reference of each algorithm *)

\* The lines the algorithms share: a hit leaves the frames alone, a fault puts
\* the page into the next empty frame or into the victim's.
Full == occupied >= pf_num
Target(victim) == IF Full THEN victim ELSE occupied
Load(j) ==
  /\ page_fault' = page_fault + 1
  /\ page_frame' = [page_frame EXCEPT ![j] = Data(i)]
  /\ occupied' = IF Full THEN occupied ELSE occupied + 1
  /\ loaded' = [loaded EXCEPT ![j] = i]
Keep == UNCHANGED <<page_frame, page_fault, occupied, loaded>>

Reference(name) ==
  /\ Running = name /\ i < ref_num
  /\ i' = i + 1
  /\ UNCHANGED <<pc, options, ref_num, references, k, faults>>

\* optimal(), fifo(), lifo() and lru() keep nothing but the frames.
Simple(victim) ==
  /\ IF CheckHit(Data(i)) >= 0 THEN Keep ELSE Load(Target(victim))
  /\ UNCHANGED <<counter, rbit, wbit, head>>

Optimal == Reference("optimal") /\ Simple(FarthestAftIdx(i + 1))

M_FifoCountsFromZero == Reference("fifo") /\ Simple((page_fault + 1) % pf_num)

Fifo == Reference("fifo") /\ Simple(page_fault % pf_num)

Lifo == Reference("lifo") /\ Simple(occupied - 1)

Lru == Reference("lru") /\ Simple(FarthestIdx(i - 1))

Lfu ==
  /\ Reference("lfu")
  /\ LET hit == CheckHit(Data(i))
         j == IF hit >= 0 THEN hit ELSE Target(LeastIndex(counter))
     IN /\ IF hit >= 0 THEN Keep ELSE Load(j)
        /\ counter' = [counter EXCEPT ![j] = @ + 1]
  /\ UNCHANGED <<rbit, wbit, head>>

NextHead == (head + 1) % pf_num

\* A hit of sc() sets the bit and moves the head.
ScHit(j) == Keep /\ rbit' = [rbit EXCEPT ![j] = 1] /\ head' = NextHead

Sc ==
  /\ Reference("sc")
  /\ LET hit == CheckHit(Data(i))
     IN IF hit >= 0 THEN ScHit(hit)
        ELSE IF Full
          THEN /\ Load(ScVictim)
               /\ rbit' = [j \in Frames |-> IF j = ScVictim THEN 1
                                            ELSE IF j \in ScPassed THEN 0 ELSE rbit[j]]
               /\ head' = ScVictim
          ELSE Load(occupied) /\ rbit' = [rbit EXCEPT ![occupied] = 1] /\ UNCHANGED head
  /\ UNCHANGED <<counter, wbit>>

\* esc(): cnt is the number of references so far, this one included.
Esc ==
  /\ Reference("esc")
  /\ LET hit == CheckHit(Data(i))
         j == IF hit >= 0 THEN hit ELSE Target(HighPriorityIdx(LeastIndex(counter)))
         write == references[i].rw
     IN /\ counter' = [counter EXCEPT ![j] = i + 1]
        /\ IF hit >= 0
             THEN Keep /\ wbit' = [wbit EXCEPT ![j] = 1] /\ UNCHANGED rbit
             ELSE /\ Load(j)
                  /\ rbit' = [rbit EXCEPT ![j] = 1 - write]
                  /\ wbit' = [wbit EXCEPT ![j] = write]
  /\ UNCHANGED head

\* print_page_fault() ends a run; simulate() starts the next or the program ends.
PrintPageFault ==
  /\ pc = "run" /\ i = ref_num
  /\ faults' = [faults EXCEPT ![Running] = page_fault]
  /\ IF k = Len(Schedule)
       THEN pc' = "exit" /\ UNCHANGED <<k, i, frames>>
       ELSE k' = k + 1 /\ Fresh(pf_num) /\ UNCHANGED pc
  /\ UNCHANGED <<options, ref_num, references>>

-----------------------------------------------------------------------------
Init ==
  /\ pc = "options"
  /\ algorithm = <<>> /\ pf_num = 0 /\ rd = TRUE /\ ref_num = 0 /\ references = <<>>
  /\ k = 0 /\ i = 0 /\ page_fault = 0 /\ occupied = 0 /\ head = 0
  /\ page_frame = <<>> /\ counter = <<>> /\ rbit = <<>> /\ wbit = <<>> /\ loaded = <<>>
  /\ faults = [j \in {Names[n] : n \in 1 .. 7} |-> -1]

Next ==
  \/ pc = "options" /\
     \E argv \in AlgInputs, pf \in PfInputs, source \in 1 .. 2, n \in RefInputs, quit \in BOOLEAN :
       ChooseOption(argv, pf, source, n, quit)
  \/ pc = "data" /\
     \E n \in RefInputs : \E refs \in [0 .. n - 1 -> [data : Pages, rw : RWs]] :
       GetDataEntry(refs)
  \/ Optimal \/ Fifo \/ Lifo \/ Lru \/ Lfu \/ Sc \/ Esc
  \/ PrintPageFault

Spec == Init /\ [][Next]_vars

-----------------------------------------------------------------------------
(* Properties *)

Resident == {page_frame[j] : j \in 0 .. occupied - 1}

\* The fewest faults of any demand paging of the string into pf_num frames.
Fewest ==
  LET F[n \in 0 .. ref_num, S \in SUBSET Pages] ==
        IF n = ref_num THEN 0
        ELSE IF Data(n) \in S THEN F[n + 1, S]
        ELSE IF Cardinality(S) < pf_num THEN 1 + F[n + 1, S \cup {Data(n)}]
        ELSE 1 + Min({F[n + 1, (S \ {v}) \cup {Data(n)}] : v \in S})
  IN F[0, {}]

\* optimal() makes the fewest faults possible, so no other algorithm that has
\* printed its count is better on the same string.
OptimalIsBest ==
  faults["optimal"] # -1 /\ (i = 0 \/ pc = "exit") =>
    /\ faults["optimal"] = Fewest
    /\ \A n \in DOMAIN faults : faults[n] = -1 \/ faults[n] >= faults["optimal"]

\* lru() holds exactly the pf_num pages used last.
LruKeepsRecent ==
  Running = "lru" => \A p \in Pages :
    p \in Resident <=>
      \E n \in 0 .. i - 1 :
        /\ Data(n) = p
        /\ Cardinality({Data(j) : j \in n .. i - 1}) <= pf_num

Replaces(j) == Full /\ i' = i + 1 /\ page_frame'[j] # page_frame[j]

\* fifo() replaces the page that was loaded first.
FifoEvictsOldest ==
  [][Running = "fifo" => \A j, m \in Frames : Replaces(j) => loaded[j] <= loaded[m]]_vars

\* lru() and fifo() replace what their definitions say, which the program derives
\* from the string and from the number of faults.
VictimIsOldest == []LruKeepsRecent /\ FifoEvictsOldest

=============================================================================
