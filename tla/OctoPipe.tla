------------------------------ MODULE OctoPipe ------------------------------
(***************************************************************************)
(* src/lab2/octopipe.c: the parent opens a pipe for each of its children,  *)
(* forks them, and copies every line of its standard input to all the      *)
(* pipes.  A pipe ends for its reader when no process holds a write end    *)
(* any more, so what matters is who holds which end: fork copies all of    *)
(* the parent's, and each child closes those it does not need one pipe at  *)
(* a time.  A line, of at most 1023 bytes, is written to a pipe whole.     *)
(***************************************************************************)
EXTENDS Integers, Sequences

CONSTANTS
    total,         \* the number of children
    LINES,         \* the number of lines on standard input
    CAPACITY,      \* what a pipe holds, in lines
    Behaviours,    \* what the commands may be
    FORK_FAILS     \* whether fork may fail

\* A command that reads to the end, or one that does not exist, for which the
\* child itself reads to the end; one that ends when it likes; one that goes
\* on for ever without reading.
AllBehaviours == {"reads", "quits", "idles"}

ASSUME OctoAssumption ==
    /\ total \in Nat \ {0}
    /\ LINES \in Nat
    /\ CAPACITY \in Nat \ {0}
    /\ Behaviours \subseteq AllBehaviours
    /\ FORK_FAILS \in BOOLEAN

Children == 1..total
Parent == 0
Processes == {Parent} \cup Children
Ends == {"read", "write"}

VARIABLES
    command,    \* what each child runs
    pc,         \* where the parent is
    i,          \* its loop index
    line,       \* the lines it has read
    stage,      \* where each child is
    j,          \* the loop index of each child
    holds,      \* the ends of pipes that processes have open
    pipe,       \* what is in each pipe
    got         \* what each child has read

vars == <<command, pc, i, line, stage, j, holds, pipe, got>>
childVars == <<stage, j, pipe, got>>

Init ==
    /\ command \in [Children -> Behaviours]
    /\ pc = "pipe" /\ i = 1 /\ line = 0
    /\ stage = [c \in Children |-> "none"]
    /\ j = [c \in Children |-> 1]
    /\ holds = {}
    /\ pipe = [c \in Children |-> <<>>]
    /\ got = [c \in Children |-> <<>>]

EndsOf(p) == {h \in holds : h[1] = p}
SomeoneHolds(c, end) == \E p \in Processes : <<p, c, end>> \in holds

\* One round of a loop over the pipes at from, followed by what comes at to.
Round(from, to) ==
    /\ pc = from
    /\ IF i < total THEN i' = i + 1 /\ pc' = from ELSE i' = 1 /\ pc' = to

OpenPipe ==
    /\ Round("pipe", "fork")
    /\ holds' = holds \cup {<<Parent, i, end>> : end \in Ends}
    /\ UNCHANGED <<command, line, childVars>>

\* A child has a copy of every end the parent has open.
Fork ==
    /\ Round("fork", "closeReads")
    /\ \/ /\ stage' = [stage EXCEPT ![i] = "setup"]
          /\ holds' = holds \cup {<<i, h[2], h[3]>> : h \in EndsOf(Parent)}
       \/ /\ FORK_FAILS
          /\ UNCHANGED <<stage, holds>>
    /\ UNCHANGED <<command, line, j, pipe, got>>

CloseRead ==
    /\ Round("closeReads", "line")
    /\ holds' = holds \ {<<Parent, i, "read">>}
    /\ UNCHANGED <<command, line, childVars>>

ReadLine ==
    /\ pc = "line"
    /\ \/ line < LINES /\ line' = line + 1 /\ pc' = "write"
       \/ line = LINES /\ line' = line /\ pc' = "closeWrites"
    /\ UNCHANGED <<command, i, childVars, holds>>

\* Mutant of Write: the line goes to the first pipe only.
WriteFirst ==
    /\ pc = "write" /\ pc' = "line"
    /\ Len(pipe[i]) < CAPACITY
    /\ pipe' = [pipe EXCEPT ![i] = Append(@, line)]
    /\ UNCHANGED <<command, i, line, stage, j, holds, got>>

\* The write waits for room, as long as somebody can read the pipe.
Write ==
    /\ Round("write", "line")
    /\ SomeoneHolds(i, "read")
    /\ Len(pipe[i]) < CAPACITY
    /\ pipe' = [pipe EXCEPT ![i] = Append(@, line)]
    /\ UNCHANGED <<command, line, stage, j, holds, got>>

\* Nobody can read it: SIGPIPE ends the parent, which closes all its ends.
BrokenPipe ==
    /\ pc = "write" /\ pc' = "killed"
    /\ ~ SomeoneHolds(i, "read")
    /\ holds' = holds \ EndsOf(Parent)
    /\ UNCHANGED <<command, i, line, childVars>>

CloseWrite ==
    /\ Round("closeWrites", "wait")
    /\ holds' = holds \ {<<Parent, i, "write">>}
    /\ UNCHANGED <<command, line, childVars>>

Wait ==
    /\ pc = "wait"
    /\ \/ \E c \in Children :
             /\ stage[c] = "ended"
             /\ stage' = [stage EXCEPT ![c] = "reaped"]
             /\ pc' = pc
       \/ /\ \A c \in Children : stage[c] \in {"none", "reaped"}
          /\ pc' = "done" /\ stage' = stage
    /\ UNCHANGED <<command, i, line, j, holds, pipe, got>>

ParentStep ==
    \/ OpenPipe \/ Fork \/ CloseRead \/ ReadLine \/ Write \/ BrokenPipe
    \/ CloseWrite \/ Wait

\* Mutant of CloseEnds: a child keeps the write end of its own pipe.
KeepWrite(c) ==
    /\ stage[c] = "setup"
    /\ holds' = holds \ (IF j[c] = c THEN {} ELSE {<<c, j[c], end>> : end \in Ends})
    /\ j' = [j EXCEPT ![c] = @ + 1]
    /\ stage' = [stage EXCEPT ![c] = IF j[c] = total THEN "runs" ELSE "setup"]
    /\ UNCHANGED <<command, pc, i, line, pipe, got>>

\* A child closes both ends of a pipe, of its own the write end: the read end
\* becomes its standard input.  After the last pipe it runs its command.
CloseEnds(c) ==
    /\ stage[c] = "setup"
    /\ holds' = holds \ {<<c, j[c], end>> : end \in IF j[c] = c THEN {"write"} ELSE Ends}
    /\ j' = [j EXCEPT ![c] = @ + 1]
    /\ stage' = [stage EXCEPT ![c] = IF j[c] = total THEN "runs" ELSE "setup"]
    /\ UNCHANGED <<command, pc, i, line, pipe, got>>

Read(c) ==
    /\ stage[c] = "runs" /\ command[c] # "idles"
    /\ pipe[c] # <<>>
    /\ got' = [got EXCEPT ![c] = Append(@, Head(pipe[c]))]
    /\ pipe' = [pipe EXCEPT ![c] = Tail(@)]
    /\ UNCHANGED <<command, pc, i, line, stage, j, holds>>

\* A child ends: its process closes what it has open.
End(c) ==
    /\ stage[c] = "runs"
    /\ stage' = [stage EXCEPT ![c] = "ended"]
    /\ holds' = holds \ EndsOf(c)
    /\ UNCHANGED <<command, pc, i, line, j, pipe, got>>

\* Mutant of ReadEnd: an empty pipe is taken for its end.
ReadNothing(c) == command[c] = "reads" /\ pipe[c] = <<>> /\ End(c)

\* read returns 0: the pipe is empty and nobody can write to it.
ReadEnd(c) ==
    /\ command[c] = "reads"
    /\ pipe[c] = <<>> /\ ~ SomeoneHolds(c, "write")
    /\ End(c)

Quit(c) == command[c] = "quits" /\ End(c)

ChildStep(c) == CloseEnds(c) \/ Read(c) \/ ReadEnd(c) \/ Quit(c)

Next == ParentStep \/ \E c \in Children : ChildStep(c)

Spec == Init /\ [][Next]_vars

-----------------------------------------------------------------------------

Over == pc \in {"done", "killed"}
Gone(c) == stage[c] \in {"none", "ended", "reaped"}
UpTo(n) == [k \in 1..n |-> k]

\* The type invariant.
TypeOK ==
    /\ command \in [Children -> Behaviours]
    /\ pc \in {"pipe", "fork", "closeReads", "line", "write", "closeWrites",
               "wait", "done", "killed"}
    /\ i \in Children
    /\ line \in 0..LINES
    /\ stage \in [Children -> {"none", "setup", "runs", "ended", "reaped"}]
    /\ j \in [Children -> 1..(total + 1)]
    /\ holds \subseteq Processes \X Children \X Ends
    /\ pipe \in [Children -> Seq(1..LINES)]
    /\ got \in [Children -> Seq(1..LINES)]

\* The lines written to c: the last one read has not reached the pipes from
\* the i-th on.
Written(c) == IF pc \in {"write", "killed"} /\ c >= i THEN line - 1 ELSE line

\* However fast the children read, each has read, or finds in its pipe, every
\* line written, once and in order, and no child is more than the line being
\* written ahead of another.
SameLines == \A c \in Children : got[c] \o pipe[c] = UpTo(Written(c))

\* A command that reads to the end has had the whole input when it ends,
\* unless the parent was killed: end of file reaches it after the last line
\* and not while any process could still write.
EndAfterLastLine ==
    \A c \in Children :
        /\ command[c] = "reads"
        /\ stage[c] \in {"ended", "reaped"}
        /\ pc # "killed"
        => got[c] = UpTo(LINES)

\* The program comes to an end, and every child whose command is not idle,
\* even if the parent is killed; or the parent waits for ever, for an idle
\* command, to make room or to end.
HeldUp ==
    \/ pc = "write" /\ command[i] = "idles" /\ Len(pipe[i]) = CAPACITY
    \/ pc = "wait" /\ \E c \in Children : command[c] = "idles" /\ stage[c] = "runs"

Settles ==
    <>[](HeldUp \/ (Over /\ \A c \in Children : command[c] # "idles" => Gone(c)))
=============================================================================
