----------------------------- MODULE MCPrograms -----------------------------
(***************************************************************************)
(* Small instances of the user programs: PageReplacement, the simulator,   *)
(* Umalloc, the heap of a program, Shell, and ShellParser on all short     *)
(* lines.  A behaviour is one of one of them: subject says which, and the  *)
(* others stay as they are.                                                *)
(***************************************************************************)
EXTENDS PageReplacement, TLC

CONSTANTS HEADER, MINUNITS, MAXUNITS, UINT, Requests
CONSTANTS MAXARGS, Pids, NOFILE, PipeIds, Lines, NLINES
CONSTANTS Chars, MAXLINE

VARIABLES subject, heap, alloced, proc, typed, forkfailed, line

heapvars == <<heap, alloced>>
shellvars == <<proc, typed, forkfailed>>

U == INSTANCE Umalloc
S == INSTANCE Shell

ASSUME UmallocInstance == U!UmallocAssumption
ASSUME ShellInstance == S!ShellAssumption

PageSymmetry == Permutations(Pages)

\* All algorithms at once, a choice of three, and inputs that are refused.
MCAlgInputs == {<<>>, <<8>>, <<7, 4, 6>>, <<9>>, <<1, 8>>, <<1, 2, 3, 4>>}

\* x|y|z   (x;y>g)|z   )   x<f<g&   x|y&
MCLines == {<<"x", "|", "y", "|", "z">>, <<"(", "x", ";", "y", ">", "g", ")", "|", "z">>, <<")">>,
            <<"x", "<", "f", "<", "g", "&">>, <<"x", "|", "y", "&">>}

ProgramsInit ==
  /\ subject \in {"pages", "heap", "shell", "line"}
  /\ Init
  /\ IF subject = "heap" THEN U!Init ELSE heap = <<>> /\ alloced = {}
  /\ IF subject = "shell" THEN S!Init ELSE proc = <<>> /\ typed = 0 /\ forkfailed = FALSE
  /\ line = <<>>

\* Lines of up to MAXLINE characters.
Type ==
  /\ Len(line) < MAXLINE
  /\ \E c \in Chars : line' = Append(line, c)

ProgramsNext ==
  \/ subject = "pages" /\ Next /\ UNCHANGED <<subject, heapvars, shellvars, line>>
  \/ subject = "heap" /\ U!Next /\ UNCHANGED <<subject, vars, shellvars, line>>
  \/ subject = "shell" /\ S!Next /\ UNCHANGED <<subject, vars, heapvars, line>>
  \/ subject = "line" /\ Type /\ UNCHANGED <<subject, vars, heapvars, shellvars>>

ProgramsVars == <<subject, vars, heapvars, shellvars, line>>
ProgramsSpec == ProgramsInit /\ [][ProgramsNext]_ProgramsVars

-----------------------------------------------------------------------------
\* malloc() and free() lose no unit of the heap, hand out none twice and keep the
\* free list sorted and joined (xv6-public/umalloc.c).
HeapTiled == subject = "heap" => U!HeapTiled

\* A program has the descriptors the line gives it and no other (runcmd() of sh.c).
Wired == subject = "shell" => S!Wired

\* A line does not hang on a descriptor that is still open (runcmd() of sh.c).
NobodyHangs == subject = "shell" => S!NobodyHangs

\* The shell waits for what is not in the background (main(), runcmd() of sh.c).
ForegroundDone == subject = "shell" => S!ForegroundDone

\* The recursive descent of parsecmd(), with its NUL bytes written into the line
\* it reads from, gives every line the one tree that the grammar gives it, and a
\* syntax error to the lines that have none.
ParsesGrammar == subject = "line" => S!Meaning(line) = {S!ParseCmd(line)}

=============================================================================
