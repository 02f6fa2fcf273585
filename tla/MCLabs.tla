------------------------------- MODULE MCLabs -------------------------------
(***************************************************************************)
(* Instances of three programs of the labs for TLC: octopipe.c (lab 2),    *)
(* processes.c (lab 1) and condition-vars.c (lab 3).  They share nothing;  *)
(* each behaviour is one of the program named by the variable program, and *)
(* the variables of the two others keep their initial values.              *)
(***************************************************************************)
EXTENDS OctoPipe, FiniteSets

CONSTANTS
    Totals,        \* the numbers of children that processes.c is asked for
    PRINT_LINES,   \* the number of lines that condition-vars.c reads
    PRINT_LENGTH   \* their length

\* 0 stands for the children of processes.c in a behaviour of another program.
ASSUME LabsAssumption ==
    /\ 0 \in Totals /\ Totals \subseteq Int
    /\ PRINT_LINES \in Nat
    /\ PRINT_LENGTH \in Nat \ {0}

\* What TLC is given for Totals.
MCTotals == {-1, 0, 4}

VARIABLES
    program,
    count, flag, forkPc, forks, forkStage, usr1, usr2, asked,
    printPc, text, input, index, owner, waiters, page, printed, spurious, stolen

forkVars == <<count, flag, forkPc, forks, forkStage, usr1, usr2, asked>>
printVars == <<printPc, text, input, index, owner, waiters, page, printed, spurious, stolen>>
allVars == <<program, vars, forkVars, printVars>>

Processes1 == INSTANCE ForkCount WITH
    total <- asked, pc <- forkPc, i <- forks, stage <- forkStage

Printers3 == INSTANCE ConditionPrinters WITH
    LINES <- PRINT_LINES, LENGTH <- PRINT_LENGTH, pc <- printPc

-----------------------------------------------------------------------------

MCInit ==
    /\ program \in {"octopipe", "processes", "condition-vars"}
    /\ Init /\ (program # "octopipe" => \A c \in Children : command[c] = "reads")
    /\ Processes1!Init /\ (program # "processes" => asked = 0)
    /\ Printers3!Init

RunOcto == program = "octopipe" /\ UNCHANGED <<program, forkVars, printVars>>
RunProcesses == program = "processes" /\ UNCHANGED <<program, vars, printVars>>
RunPrinters == program = "condition-vars" /\ UNCHANGED <<program, vars, forkVars>>

MCNext ==
    \/ RunOcto /\ Next
    \/ RunProcesses /\ Processes1!Next
    \/ RunPrinters /\ Printers3!Next

TheParent == (RunOcto /\ ParentStep) \/ (RunProcesses /\ Processes1!ParentStep)

TheChild(c) ==
    \/ RunOcto /\ c \in Children /\ ChildStep(c)
    \/ RunProcesses /\ c \in 1..asked /\ Processes1!ChildStep(c)

TheThread(t) ==
    /\ RunPrinters
    /\ \/ t = "main" /\ Printers3!Main
       \/ t # "main" /\ Printers3!Printer(t)
       \/ t = "lower" /\ Printers3!SignalUpper

\* Each process is scheduled.  A thread of condition-vars.c keeps the mutex for
\* a few instructions, and who waits for it gets it.  Nothing is asked of
\* spurious wakeups.
MCSpec ==
    /\ MCInit /\ [][MCNext]_allVars
    /\ WF_allVars(TheParent)
    /\ \A c \in Children \cup UNION {1..n : n \in Totals} : WF_allVars(TheChild(c))
    /\ \A t \in {"main", "lower", "upper"} : SF_allVars(TheThread(t))

-----------------------------------------------------------------------------

\* The properties of the three modules, under names that TLC can be given.
OctoSettles == program = "octopipe" => Settles
NoSignalLost == Processes1!NoSignalLost
AllReady == Processes1!AllReady
AllEnd == program = "processes" => Processes1!AllEnd
WholeLines == Printers3!WholeLines
NeverTwice == Printers3!NeverTwice
WokenPrints == program = "condition-vars" => Printers3!WokenPrints
=============================================================================
