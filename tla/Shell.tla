------------------------------- MODULE Shell -------------------------------
(***************************************************************************)
(* src/A2/tmabsh.c: a shell that runs the lines of a script.  For a line   *)
(* it forks a process (call) that analyzes it: each stage before a | gets  *)
(* a pipe and a process of its own (head), and what is left is executed by *)
(* the process itself.  execute forks the command and waits for it; if the *)
(* stage has a process substitution, the command first makes the FIFO and  *)
(* forks the substituted command (sub), and each opens its side.           *)
(* Every FIFO has the same name, so what matters is which of them the name *)
(* stands for when it is opened, and who holds which end of each pipe.     *)
(* A process is a triple: its line, its stage and its role.                *)
(***************************************************************************)
EXTENDS Integers, Sequences, FiniteSets

CONSTANTS Scripts   \* the scripts considered

\* A command that reads to the end of its input, one that ends when it likes,
\* one that does not exist, and nothing at all (a line that begins with |).
Commands == {"filter", "quits", "missing", "empty"}
Subs == {"none", "runs", "missing"}
Files == {"none", "in", "out"}
Stages == {s \in [cmd : Commands, sub : Subs, file : Files] : s.sub # "none" => s.file = "none"}

\* A line is a pipeline, given by its stages and whether it ends in a |, or it
\* is handled by the shell itself.
ScriptLines == [kind : {"quit", "cd", "pipeline"}, stages : Seq(Stages), trailing : BOOLEAN]

ASSUME ScriptsAssumption ==
    \A s \in Scripts :
        /\ s \in Seq(ScriptLines)
        /\ \A l \in DOMAIN s : s[l].kind = "pipeline" => s[l].stages # <<>>

VARIABLES
    script,
    line,       \* the line the shell is at
    shell,      \* "reads", "waits" or "done"
    state,      \* where each process is: "none" and "ended" before and after
    at,         \* the stage that the process of each line analyzes
    in, out,    \* standard input and output of each process
    spare,      \* the pipe of which a process still has both ends besides
    name,       \* the FIFO that the name FIFO stands for
    opens       \* the FIFO that a process has opened or is opening

vars == <<script, line, shell, state, at, in, out, spare, name, opens>>

Lines == DOMAIN script
Last(l) == Len(script[l].stages)
StageOf(p) == script[p[1]].stages[p[2]]
Roles == {"call", "head", "cmd", "sub"}
ProcsOf(s) == {p \in UNION {{l} \X (0..Len(s[l].stages)) \X Roles : l \in DOMAIN s} :
                  p[2] = 0 <=> p[3] = "call"}
Procs == ProcsOf(script)
AllProcs == UNION {ProcsOf(s) : s \in Scripts}

Call(l) == <<l, 0, "call">>
Command(p) == <<p[1], p[2], "cmd">>
Sub(p) == <<p[1], p[2], "sub">>

Terminal == <<"terminal", 0, 0>>
File == <<"file", 0, 0>>
Pipe(l, k) == <<"pipe", l, k>>
Fifo(p) == <<"fifo", p[1], p[2]>>
None == <<"none", 0, 0>>

Init ==
    /\ script \in Scripts
    /\ line = 1 /\ shell = "reads"
    /\ state = [p \in Procs |-> "none"]
    /\ at = [l \in Lines |-> 1]
    /\ in = [p \in Procs |-> Terminal] /\ out = [p \in Procs |-> Terminal]
    /\ spare = [p \in Procs |-> None]
    /\ name = None
    /\ opens = [p \in Procs |-> None]

Alive(p) == state[p] \notin {"none", "ended"}
Readers(d) == {p \in Procs : Alive(p) /\ d \in {in[p], spare[p]}}
Writers(d) == {p \in Procs : Alive(p) /\ d \in {out[p], spare[p]}}
IsChannel(d) == d[1] \in {"pipe", "fifo"}

Goto(p, from, to) == state[p] = from /\ state' = [state EXCEPT ![p] = to]

-----------------------------------------------------------------------------

\* The shell waits for the process of the line, and for no other.
ReadLine ==
    /\ shell = "reads" /\ line <= Len(script)
    /\ \/ script[line].kind = "quit" /\ shell' = "done" /\ UNCHANGED <<line, state>>
       \/ script[line].kind = "cd" /\ line' = line + 1 /\ UNCHANGED <<shell, state>>
       \/ /\ script[line].kind = "pipeline"
          /\ Goto(Call(line), "none", "analyze")
          /\ shell' = "waits" /\ line' = line
    /\ UNCHANGED <<script, at, in, out, spare, name, opens>>

\* Mutant of NextLine: the shell does not wait.
NextLineAtOnce ==
    /\ shell = "waits"
    /\ shell' = "reads" /\ line' = line + 1
    /\ UNCHANGED <<script, state, at, in, out, spare, name, opens>>

NextLine ==
    /\ shell = "waits" /\ state[Call(line)] = "ended"
    /\ shell' = "reads" /\ line' = line + 1
    /\ UNCHANGED <<script, state, at, in, out, spare, name, opens>>

\* main removes the FIFO at its end.
EndOfScript ==
    /\ shell = "reads" /\ line > Len(script)
    /\ shell' = "done" /\ name' = None
    /\ UNCHANGED <<script, line, state, at, in, out, spare, opens>>

\* pipe and fork: both processes have both ends of the new pipe.
Split(l) ==
    LET k == at[l]  p == Call(l)  h == <<l, k, "head">>  d == Pipe(l, k) IN
    /\ k < Last(l) \/ (k = Last(l) /\ script[l].trailing)
    /\ state[p] = "analyze"
    /\ state' = [state EXCEPT ![p] = "rewire", ![h] = "rewire"]
    /\ spare' = [spare EXCEPT ![p] = d, ![h] = d]
    /\ in' = [in EXCEPT ![h] = in[p]] /\ out' = [out EXCEPT ![h] = out[p]]
    /\ UNCHANGED <<script, line, shell, at, name, opens>>

\* Mutant of RewireCall: the write end stays open.
RewireKeeping(l) ==
    LET k == at[l]  p == Call(l) IN
    /\ k < Last(l)
    /\ Goto(p, "rewire", "analyze")
    /\ in' = [in EXCEPT ![p] = spare[p]]
    /\ at' = [at EXCEPT ![l] = k + 1]
    /\ UNCHANGED <<script, line, shell, out, spare, name, opens>>

\* The read end becomes the input of what follows the |.
RewireCall(l) ==
    LET k == at[l]  p == Call(l) IN
    /\ k < Last(l)
    /\ Goto(p, "rewire", "analyze")
    /\ in' = [in EXCEPT ![p] = spare[p]]
    /\ spare' = [spare EXCEPT ![p] = None]
    /\ at' = [at EXCEPT ![l] = k + 1]
    /\ UNCHANGED <<script, line, shell, out, name, opens>>

\* Nothing follows the last |: the process ends, and the head writes to nobody.
RewireNothing(l) ==
    /\ at[l] = Last(l)
    /\ Goto(Call(l), "rewire", "ended")
    /\ UNCHANGED <<script, line, shell, at, in, out, spare, name, opens>>

\* Mutant of RewireHead: the head's output is not the pipe.
RewireNot(h) ==
    /\ h[3] = "head"
    /\ Goto(h, "rewire", "execute")
    /\ spare' = [spare EXCEPT ![h] = None]
    /\ UNCHANGED <<script, line, shell, at, in, out, name, opens>>

RewireHead(h) ==
    /\ h[3] = "head"
    /\ Goto(h, "rewire", "execute")
    /\ out' = [out EXCEPT ![h] = spare[h]]
    /\ spare' = [spare EXCEPT ![h] = None]
    /\ UNCHANGED <<script, line, shell, at, in, name, opens>>

\* The last stage is executed by the process of the line.
Simple(l) ==
    /\ at[l] = Last(l) /\ ~ script[l].trailing
    /\ Goto(Call(l), "analyze", "execute")
    /\ UNCHANGED <<script, line, shell, at, in, out, spare, name, opens>>

StageAt(w) == IF w[3] = "call" THEN <<w[1], at[w[1]], "cmd">> ELSE Command(w)

\* execute forks the command of the stage, which has its parent's input and
\* output, and waits for it; for no command it returns at once.
Execute(w) ==
    LET c == StageAt(w) IN
    /\ w[3] \in {"call", "head"} /\ state[w] = "execute"
    /\ IF StageOf(c).cmd = "empty"
         THEN Goto(w, "execute", "ended") /\ UNCHANGED <<in, out>>
         ELSE /\ state' = [state EXCEPT ![w] = "waitpid",
                      ![c] = IF StageOf(c).sub = "none" THEN "exec" ELSE "unlink"]
              /\ in' = [in EXCEPT ![c] = in[w]] /\ out' = [out EXCEPT ![c] = out[w]]
    /\ UNCHANGED <<script, line, shell, at, spare, name, opens>>

Return(w) ==
    /\ Goto(w, "waitpid", "ended")
    /\ state[StageAt(w)] = "ended"
    /\ UNCHANGED <<script, line, shell, at, in, out, spare, name, opens>>

-----------------------------------------------------------------------------

\* Mutant of Unlink: the FIFO of an earlier line is left there.
UnlinkNot(p) ==
    /\ p[3] = "cmd"
    /\ Goto(p, "unlink", "mkfifo")
    /\ UNCHANGED <<script, line, shell, at, in, out, spare, name, opens>>

Unlink(p) ==
    /\ p[3] = "cmd"
    /\ Goto(p, "unlink", "mkfifo")
    /\ name' = None
    /\ UNCHANGED <<script, line, shell, at, in, out, spare, opens>>

\* mkfifo, which does nothing if there is one, and fork.
Mkfifo(p) ==
    /\ state[p] = "mkfifo"
    /\ name' = IF name = None THEN Fifo(p) ELSE name
    /\ state' = [state EXCEPT ![p] = "open", ![Sub(p)] = "open"]
    /\ in' = [in EXCEPT ![Sub(p)] = in[p]] /\ out' = [out EXCEPT ![Sub(p)] = out[p]]
    /\ UNCHANGED <<script, line, shell, at, spare, opens>>

OpenFails(p) ==
    /\ name = None
    /\ Goto(p, "open", "exec")
    /\ UNCHANGED <<script, line, shell, at, in, out, spare, name, opens>>

\* A command opens the FIFO to read and a sub to write, and each waits until
\* the other side is open.
Others(p) == {q \in Procs : q[3] # p[3] /\ Alive(q) /\ opens[q] = name}

OpenWaits(p) ==
    /\ name # None /\ Others(p) = {}
    /\ Goto(p, "open", "opening")
    /\ opens' = [opens EXCEPT ![p] = name]
    /\ UNCHANGED <<script, line, shell, at, in, out, spare, name>>

OpenReturns(p) ==
    LET opened == {p} \cup {q \in Others(p) : state[q] = "opening"} IN
    /\ name # None /\ Others(p) # {}
    /\ state[p] = "open"
    /\ state' = [q \in Procs |-> IF q \in opened THEN "exec" ELSE state[q]]
    /\ opens' = [opens EXCEPT ![p] = name]
    /\ in' = [q \in Procs |-> IF q \in opened /\ q[3] = "cmd" THEN name ELSE in[q]]
    /\ out' = [q \in Procs |-> IF q \in opened /\ q[3] = "sub" THEN name ELSE out[q]]
    /\ UNCHANGED <<script, line, shell, at, spare, name>>

Open(p) == OpenFails(p) \/ OpenWaits(p) \/ OpenReturns(p)

-----------------------------------------------------------------------------

Exists(p) == IF p[3] = "sub" THEN StageOf(p).sub = "runs" ELSE StageOf(p).cmd # "missing"
Substitutes(p) == p[3] = "sub" \/ StageOf(p).sub # "none"

\* freopen and execvp.
Exec(p) ==
    /\ Goto(p, "exec", "runs")
    /\ Exists(p)
    /\ in' = [in EXCEPT ![p] = IF p[3] = "cmd" /\ StageOf(p).file = "in" THEN File ELSE @]
    /\ out' = [out EXCEPT ![p] = IF p[3] = "cmd" /\ StageOf(p).file = "out" THEN File ELSE @]
    /\ UNCHANGED <<script, line, shell, at, spare, name, opens>>

\* execvp returns: the process ends, after it has removed the FIFO if it has
\* to do with one.
ExecFails(p) ==
    /\ Goto(p, "exec", "ended")
    /\ ~ Exists(p)
    /\ name' = IF Substitutes(p) THEN None ELSE name
    /\ UNCHANGED <<script, line, shell, at, in, out, spare, opens>>

AtEof(p) == IsChannel(in[p]) => Writers(in[p]) = {}
Broken(p) == IsChannel(out[p]) /\ Readers(out[p]) = {}

\* A filter runs until its input ends, or until nobody reads its output.  A
\* substituted command reads files.
MayEnd(p) == p[3] = "sub" \/ StageOf(p).cmd = "quits" \/ AtEof(p) \/ Broken(p)

End(p) ==
    /\ Goto(p, "runs", "ended")
    /\ MayEnd(p)
    /\ UNCHANGED <<script, line, shell, at, in, out, spare, name, opens>>

ShellStep == ReadLine \/ NextLine \/ EndOfScript

ProcessStep(p) ==
    \/ p[3] = "call" /\ (Split(p[1]) \/ RewireCall(p[1]) \/ RewireNothing(p[1]) \/ Simple(p[1]))
    \/ RewireHead(p) \/ Execute(p) \/ Return(p)
    \/ Unlink(p) \/ Mkfifo(p) \/ Open(p) \/ Exec(p) \/ ExecFails(p) \/ End(p)

Next == ShellStep \/ \E p \in Procs : ProcessStep(p)

Spec == Init /\ [][Next]_vars

FairSpec == Spec /\ WF_vars(ShellStep) /\ \A p \in AllProcs : WF_vars(p \in Procs /\ ProcessStep(p))

-----------------------------------------------------------------------------

\* The command of stage k reads what stage k - 1 writes, and each pipe is
\* written and read by nobody else: the copies that fork makes of the ends are
\* closed or replaced in every process that is not of the stage.
Belongs(p, l, k) == p[1] = l /\ (p[2] = k \/ (p[3] = "call" /\ at[l] = k))

Wired ==
    \A p \in Procs :
        state[p] = "runs" /\ p[3] = "cmd" =>
            /\ StageOf(p).file = "none" /\ StageOf(p).sub = "none" /\ p[2] > 1 => in[p] = Pipe(p[1], p[2] - 1)
            /\ StageOf(p).file # "out" /\ p[2] < Last(p[1]) =>
                  /\ out[p] = Pipe(p[1], p[2])
                  /\ \A q \in Writers(out[p]) : Belongs(q, p[1], p[2])

\* A substitution is tidy if it is the only one of its line, in the last stage,
\* and if no command that fails can remove the FIFO late.
Tidy ==
    \A l \in Lines : \A k \in 1..Last(l) :
        LET s == script[l].stages[k] IN
        s.sub # "none" => k = Last(l) /\ ~ script[l].trailing /\ (s.sub = "runs" \/ s.cmd = "filter")

\* In a tidy script a command reads what its own substitution writes.
FedByOwn ==
    Tidy => \A p \in Procs : state[p] = "runs" /\ p[3] = "cmd" /\ Substitutes(p) =>
        in[p] = Fifo(p) /\ Writers(in[p]) \subseteq {Sub(p)}

\* A line starts when the last command of the line before has ended; what may
\* still run are the stages before it and substituted commands.
NextAfterLast ==
    \A p \in Procs : p[1] < line /\ Alive(p) =>
        \/ p[3] = "head" \/ p[3] = "sub"
        \/ p[3] = "cmd" /\ (p[2] < Last(p[1]) \/ script[p[1]].trailing)

\* The shell comes to its end, and so does every process it has started.  The
\* only wait without end is that of a process that opens a FIFO whose other
\* side has opened another one, or none; in a tidy script there is none.
AllEnded == shell = "done" /\ \A p \in Procs : ~ Alive(p)
Settles == <>[](AllEnded \/ (~ Tidy /\ \E p \in Procs : state[p] = "opening"))
=============================================================================
