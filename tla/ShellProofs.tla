----------------------------- MODULE ShellProofs -----------------------------
(***************************************************************************)
(* Machine-checked safety of the shell, for any script: what the pipes of  *)
(* a line connect, when the next line starts, and which FIFO a command     *)
(* reads.                                                                  *)
(***************************************************************************)
EXTENDS Shell, SequenceTheorems, TLAPS

HasSub(p) == StageOf(p).sub # "none"
HeadOf(l, k) == <<l, k, "head">>

Channels == {"terminal", "file", "none", "pipe", "fifo"} \X Nat \X Nat
States == {"none", "analyze", "rewire", "execute", "waitpid", "unlink", "mkfifo", "open",
           "opening", "exec", "runs", "ended"}
StatesOf(role) ==
    CASE role = "call" -> {"none", "analyze", "rewire", "execute", "waitpid", "ended"}
      [] role = "head" -> {"none", "rewire", "execute", "waitpid", "ended"}
      [] role = "cmd" -> {"none", "unlink", "mkfifo", "open", "opening", "exec", "runs", "ended"}
      [] role = "sub" -> {"none", "open", "opening", "exec", "runs", "ended"}

ShellTypes ==
    /\ script \in Scripts
    /\ line \in 1..(Len(script) + 1)
    /\ shell \in {"reads", "waits", "done"}
    /\ shell = "waits" => line \in Lines
    /\ state \in [Procs -> States] /\ \A p \in Procs : state[p] \in StatesOf(p[3])
    /\ at \in [Lines -> Nat \ {0}]
    /\ in \in [Procs -> Channels] /\ out \in [Procs -> Channels]
    /\ spare \in [Procs -> Channels] /\ opens \in [Procs -> Channels] /\ name \in Channels

-----------------------------------------------------------------------------
(* The processes *)

\* The script does not change, nor does what is defined by it.
LEMMA SameScript ==
    UNCHANGED script =>
      /\ Procs' = Procs /\ Lines' = Lines /\ Tidy' = Tidy
      /\ \A l : Last(l)' = Last(l)
      /\ \A p : StageOf(p)' = StageOf(p)
  BY DEF Procs, Lines, Tidy, Last, StageOf

\* No step changes the script.
LEMMA ScriptKept == [Next]_vars => UNCHANGED script
  BY DEF Next, vars, ShellStep, ReadLine, NextLine, EndOfScript, ProcessStep, Split, RewireCall,
         RewireNothing, Simple, RewireHead, Execute, Return, Unlink, Mkfifo, Open, OpenFails,
         OpenWaits, OpenReturns, Exec, ExecFails, End

\* The lines of a script have stages to run.
LEMMA LinesAre ==
    ASSUME ShellTypes
    PROVE  /\ Lines = 1..Len(script) /\ Len(script) \in Nat
           /\ \A l \in Lines : Last(l) \in Nat /\ (script[l].kind = "pipeline" => Last(l) > 0)
           /\ \A l \in Lines : script[l].stages \in Seq(Stages) /\ script[l].trailing \in BOOLEAN
<1>1. script \in Seq(ScriptLines) /\ \A l \in Lines : script[l].kind = "pipeline" => script[l].stages # <<>>
  BY ScriptsAssumption DEF ShellTypes, Lines
<1>2. Lines = 1..Len(script) /\ Len(script) \in Nat
  BY <1>1, LenProperties DEF Lines
<1>3. \A l \in Lines : script[l] \in ScriptLines
  BY <1>1, <1>2, ElementOfSeq
<1>4. \A l \in Lines : script[l].stages \in Seq(Stages) /\ script[l].trailing \in BOOLEAN
  BY <1>3 DEF ScriptLines
<1>5. \A l \in Lines : Last(l) \in Nat
  BY <1>4, LenProperties DEF Last
<1>6. \A l \in Lines : script[l].kind = "pipeline" => Last(l) > 0
  BY <1>1, <1>4, EmptySeq DEF Last
<1> QED BY <1>2, <1>4, <1>5, <1>6

\* A process is a triple.
LEMMA ProcsAre ==
    ASSUME ShellTypes
    PROVE  /\ \A p \in Procs : /\ p[1] \in Lines /\ p[2] \in 0..Last(p[1]) /\ p[3] \in Roles
                               /\ p = <<p[1], p[2], p[3]>>
                               /\ p[3] = "call" => p = Call(p[1])
                               /\ p[3] # "call" => p[2] > 0
           /\ \A l \in Lines : Call(l) \in Procs
           /\ \A l \in Lines, k \in Nat \ {0}, r \in Roles \ {"call"} :
                k <= Last(l) => <<l, k, r>> \in Procs
<1>1. \A p : p \in Procs <=> /\ \E l \in Lines : p \in {l} \X (0..Last(l)) \X Roles
                             /\ p[2] = 0 <=> p[3] = "call"
  BY DEF Procs, ProcsOf, Lines, Last
<1>2. \A l \in Lines : Last(l) \in Nat
  BY LinesAre
<1> QED BY <1>1, <1>2 DEF Call, Roles

\* The steps of processes, by the lines and the processes they are of.
LEMMA StepCases ==
    ASSUME ShellTypes, Next
    PROVE  \/ ShellStep
           \/ \E l \in Lines : Split(l) \/ RewireCall(l) \/ RewireNothing(l) \/ Simple(l)
           \/ \E p \in Procs : \/ RewireHead(p) \/ Execute(p) \/ Return(p) \/ Unlink(p) \/ Mkfifo(p)
                               \/ OpenFails(p) \/ OpenWaits(p) \/ OpenReturns(p)
                               \/ Exec(p) \/ ExecFails(p) \/ End(p)
  BY ProcsAre DEF Next, ProcessStep, Open

\* Channels are triples, as processes are.
LEMMA ChannelsAre ==
    ASSUME ShellTypes
    PROVE  /\ Terminal \in Channels /\ File \in Channels /\ None \in Channels
           /\ \A l \in Lines, k \in Nat : Pipe(l, k) \in Channels
           /\ \A p \in Procs : Fifo(p) \in Channels
<1>1. Lines \subseteq Nat /\ \A p \in Procs : p[1] \in Lines /\ p[2] \in Nat
  BY LinesAre, ProcsAre
<1> QED BY <1>1 DEF Channels, Terminal, File, None, Pipe, Fifo

-----------------------------------------------------------------------------
(* Types *)

\* A process is where its role lets it be, and the shell at a line of the script
\* or after the last.
LEMMA TypesInit == Init => ShellTypes
<1> SUFFICES ASSUME Init PROVE ShellTypes
  OBVIOUS
<1>1. script \in Scripts /\ line = 1 /\ shell = "reads"
  BY DEF Init
<1>2. Len(script) \in Nat
  BY <1>1, ScriptsAssumption, LenProperties
<1>3. /\ Terminal \in Channels /\ None \in Channels
  BY DEF Channels, Terminal, None
<1>4. \A p \in Procs : p[3] \in Roles /\ "none" \in StatesOf(p[3])
  BY DEF Procs, ProcsOf, Roles, StatesOf
<1> QED BY <1>1, <1>2, <1>3, <1>4 DEF Init, ShellTypes, States

\* ReadLine, NextLine and EndOfScript keep the types.
LEMMA TypesShell == ShellTypes /\ ShellStep => ShellTypes'
<1> SUFFICES ASSUME ShellTypes, ShellStep PROVE ShellTypes'
  OBVIOUS
<1>1. UNCHANGED script
  BY DEF ShellStep, ReadLine, NextLine, EndOfScript
<1>2. /\ Procs' = Procs /\ Lines' = Lines /\ Lines = 1..Len(script) /\ Len(script) \in Nat
  BY <1>1, SameScript, LinesAre
<1>3. CASE ReadLine
  <2>1. line \in Lines /\ Call(line) \in Procs /\ Call(line)[3] = "call"
    BY <1>2, <1>3, ProcsAre DEF ReadLine, ShellTypes, Call
  <2>2. /\ state' = state \/ state' = [state EXCEPT ![Call(line)] = "analyze"]
        /\ UNCHANGED <<at, in, out, spare, name, opens>>
    BY <1>3 DEF ReadLine, Goto
  <2>3. state' \in [Procs -> States] /\ \A p \in Procs : state'[p] \in StatesOf(p[3])
    BY <2>1, <2>2 DEF ShellTypes, States, StatesOf
  <2>4. line' \in 1..(Len(script) + 1) /\ shell' \in {"reads", "waits", "done"}
    BY <1>2, <1>3, <2>1 DEF ReadLine, ShellTypes
  <2>5. shell' = "waits" => line' \in Lines
    BY <1>3, <2>1 DEF ReadLine
  <2> QED BY <1>1, <1>2, <2>2, <2>3, <2>4, <2>5 DEF ShellTypes
<1>4. CASE NextLine \/ EndOfScript
  BY <1>1, <1>2, <1>4, ChannelsAre DEF NextLine, EndOfScript, ShellTypes
<1> QED BY <1>3, <1>4 DEF ShellStep

\* The steps of the process of a line keep the types: a split has a head for its stage.
LEMMA TypesLine ==
    ASSUME ShellTypes, NEW l \in Lines, Split(l) \/ RewireCall(l) \/ RewireNothing(l) \/ Simple(l)
    PROVE  ShellTypes'
<1>1. UNCHANGED script
  BY DEF Split, RewireCall, RewireNothing, Simple
<1>2. /\ Procs' = Procs /\ Lines' = Lines /\ Call(l) \in Procs /\ Call(l)[3] = "call"
      /\ Last(l) \in Nat /\ at[l] \in Nat \ {0}
  BY <1>1, SameScript, ProcsAre, LinesAre DEF Call, ShellTypes
<1> USE DEF ShellTypes, States, StatesOf, Goto
<1>3. CASE Split(l)
  <2>1. HeadOf(l, at[l]) \in Procs /\ HeadOf(l, at[l])[3] = "head"
    <3>1. at[l] <= Last(l)
      BY <1>2, <1>3 DEF Split
    <3> QED BY <1>2, <3>1, ProcsAre DEF HeadOf, Roles
  <2>2. Pipe(l, at[l]) \in Channels
    BY <1>2, ChannelsAre
  <2>3. /\ state' = [state EXCEPT ![Call(l)] = "rewire", ![HeadOf(l, at[l])] = "rewire"]
        /\ spare' = [spare EXCEPT ![Call(l)] = Pipe(l, at[l]), ![HeadOf(l, at[l])] = Pipe(l, at[l])]
        /\ in' = [in EXCEPT ![HeadOf(l, at[l])] = in[Call(l)]]
        /\ out' = [out EXCEPT ![HeadOf(l, at[l])] = out[Call(l)]]
        /\ UNCHANGED <<script, line, shell, at, name, opens>>
    BY <1>3 DEF Split, HeadOf
  <2>4. state' \in [Procs -> States] /\ \A p \in Procs : state'[p] \in StatesOf(p[3])
    BY <1>2, <2>1, <2>3
  <2>5. spare' \in [Procs -> Channels] /\ in' \in [Procs -> Channels] /\ out' \in [Procs -> Channels]
    BY <1>2, <2>1, <2>2, <2>3
  <2> QED BY <1>2, <2>3, <2>4, <2>5
<1>4. CASE RewireCall(l)
  <2>1. /\ state' = [state EXCEPT ![Call(l)] = "analyze"]
        /\ spare' = [spare EXCEPT ![Call(l)] = None]
        /\ in' = [in EXCEPT ![Call(l)] = spare[Call(l)]]
        /\ at' = [at EXCEPT ![l] = at[l] + 1]
        /\ UNCHANGED <<script, line, shell, out, name, opens>>
    BY <1>4 DEF RewireCall
  <2>2. at' \in [Lines -> Nat \ {0}]
    BY <1>2, <2>1
  <2>3. state' \in [Procs -> States] /\ \A p \in Procs : state'[p] \in StatesOf(p[3])
    BY <1>2, <2>1
  <2>4. spare' \in [Procs -> Channels] /\ in' \in [Procs -> Channels]
    BY <1>2, <2>1, ChannelsAre
  <2> QED BY <1>2, <2>1, <2>2, <2>3, <2>4
<1>5. CASE RewireNothing(l)
  BY <1>1, <1>2, <1>5 DEF RewireNothing
<1>6. CASE Simple(l)
  BY <1>1, <1>2, <1>6 DEF Simple
<1> QED BY <1>3, <1>4, <1>5, <1>6

\* A process that executes a stage is at one.
LEMMA ItsCommand ==
    ASSUME ShellTypes, NEW w \in Procs, w[3] \in {"call", "head"},
           w[3] = "call" => at[w[1]] = Last(w[1])
    PROVE  /\ StageAt(w) \in Procs /\ StageAt(w)[3] = "cmd" /\ StageAt(w)[1] = w[1]
           /\ StageAt(w)[2] = (IF w[3] = "call" THEN Last(w[1]) ELSE w[2])
<1>1. w[1] \in Lines /\ w[2] \in 0..Last(w[1]) /\ (w[3] # "call" => w[2] > 0)
  BY ProcsAre
<1>2. Last(w[1]) \in Nat
  BY <1>1, LinesAre
<1>3. at[w[1]] \in Nat \ {0}
  BY <1>1 DEF ShellTypes
<1> DEFINE k == IF w[3] = "call" THEN Last(w[1]) ELSE w[2]
<1>4. StageAt(w) = <<w[1], k, "cmd">>
  BY DEF StageAt, Command
<1>5. k \in Nat \ {0} /\ k <= Last(w[1])
  <2>1. CASE w[3] = "call"
    BY <1>2, <1>3, <2>1
  <2>2. CASE w[3] = "head"
    BY <1>1, <1>2, <2>2
  <2> QED BY <2>1, <2>2
<1>6. <<w[1], k, "cmd">> \in Procs
  <2> HIDE DEF k
  <2> QED BY <1>1, <1>5, ProcsAre DEF Roles
<1> QED BY <1>4, <1>6

\* A command has a place for a substituted one.
LEMMA ItsSub ==
    ASSUME ShellTypes, NEW p \in Procs, p[3] \in {"cmd", "sub", "head"}
    PROVE  /\ Sub(p) \in Procs /\ Sub(p)[3] = "sub" /\ Sub(p)[1] = p[1] /\ Sub(p)[2] = p[2]
           /\ Command(p) \in Procs /\ Command(p)[3] = "cmd" /\ Command(p)[1] = p[1] /\ Command(p)[2] = p[2]
<1>1. p[1] \in Lines /\ p[2] \in 0..Last(p[1]) /\ p[2] > 0
  BY ProcsAre
<1>2. Last(p[1]) \in Nat
  BY <1>1, LinesAre
<1>3. p[2] \in Nat \ {0} /\ p[2] <= Last(p[1])
  BY <1>1, <1>2
<1> QED BY <1>1, <1>3, ProcsAre DEF Sub, Command, Roles

\* Steps of processes that run a command.  That Execute finds a command is the
\* assumption on the line's process.
LEMMA TypesProcess ==
    ASSUME ShellTypes, NEW p \in Procs,
           state[p] = "execute" /\ p[3] = "call" => at[p[1]] = Last(p[1]),
           \/ RewireHead(p) \/ Execute(p) \/ Return(p) \/ Unlink(p) \/ Mkfifo(p)
           \/ OpenFails(p) \/ OpenWaits(p) \/ OpenReturns(p) \/ Exec(p) \/ ExecFails(p) \/ End(p)
    PROVE  ShellTypes'
<1>1. UNCHANGED script
  BY DEF RewireHead, Execute, Return, Unlink, Mkfifo, OpenFails, OpenWaits, OpenReturns, Exec,
         ExecFails, End
<1>2. Procs' = Procs /\ Lines' = Lines
  BY <1>1, SameScript
<1> USE DEF ShellTypes, Goto
<1>3. CASE RewireHead(p)
  BY <1>1, <1>2, <1>3, ChannelsAre DEF RewireHead, States, StatesOf
<1>4. CASE Execute(p)
  <2> DEFINE c == StageAt(p)
  <2>1. c \in Procs /\ c[3] = "cmd" /\ p[3] \in {"call", "head"}
    BY <1>4, ItsCommand DEF Execute
  <2>2. /\ \/ state' = [state EXCEPT ![p] = "ended"] /\ in' = in /\ out' = out
           \/ /\ \/ state' = [state EXCEPT ![p] = "waitpid", ![c] = "exec"]
                 \/ state' = [state EXCEPT ![p] = "waitpid", ![c] = "unlink"]
              /\ in' = [in EXCEPT ![c] = in[p]] /\ out' = [out EXCEPT ![c] = out[p]]
        /\ UNCHANGED <<script, line, shell, at, spare, name, opens>>
    BY <1>4 DEF Execute
  <2> HIDE DEF c
  <2>3. state' \in [Procs -> States] /\ \A q \in Procs : state'[q] \in StatesOf(q[3])
    BY <2>1, <2>2, ZenonT(60) DEF States, StatesOf
  <2>4. in' \in [Procs -> Channels] /\ out' \in [Procs -> Channels]
    BY <2>1, <2>2
  <2> QED BY <1>2, <2>2, <2>3, <2>4
<1>5. CASE Return(p)
  BY <1>1, <1>2, <1>5, ProcsAre, ZenonT(60) DEF Return, States, StatesOf, Roles
<1>6. CASE Unlink(p)
  BY <1>1, <1>2, <1>6, ChannelsAre DEF Unlink, States, StatesOf
<1>7. CASE Mkfifo(p)
  <2>1. p[3] = "cmd"
    BY <1>7, ProcsAre DEF Mkfifo, StatesOf, Roles
  <2>2. Sub(p) \in Procs /\ Sub(p)[3] = "sub"
    BY <2>1, ItsSub
  <2>3. /\ state' = [state EXCEPT ![p] = "open", ![Sub(p)] = "open"]
        /\ in' = [in EXCEPT ![Sub(p)] = in[p]] /\ out' = [out EXCEPT ![Sub(p)] = out[p]]
        /\ name' \in {name, Fifo(p)} /\ UNCHANGED <<script, line, shell, at, spare, opens>>
    BY <1>7 DEF Mkfifo
  <2>4. state' \in [Procs -> States] /\ \A q \in Procs : state'[q] \in StatesOf(q[3])
    BY <2>1, <2>2, <2>3 DEF States, StatesOf
  <2>5. in' \in [Procs -> Channels] /\ out' \in [Procs -> Channels] /\ name' \in Channels
    BY <2>2, <2>3, ChannelsAre
  <2> QED BY <1>2, <2>3, <2>4, <2>5
<1>8. CASE OpenFails(p) \/ OpenWaits(p)
  <2>1. /\ state[p] = "open" /\ p[3] \in {"cmd", "sub"}
    BY <1>8, ProcsAre DEF OpenFails, OpenWaits, StatesOf, Roles
  <2>2. /\ \E to \in {"exec", "opening"} : state' = [state EXCEPT ![p] = to]
        /\ opens' = opens \/ opens' = [opens EXCEPT ![p] = name]
        /\ UNCHANGED <<script, line, shell, at, in, out, spare, name>>
    BY <1>8 DEF OpenFails, OpenWaits
  <2>3. state' \in [Procs -> States] /\ \A q \in Procs : state'[q] \in StatesOf(q[3])
    BY <2>1, <2>2 DEF States, StatesOf
  <2>4. opens' \in [Procs -> Channels]
    BY <2>2
  <2> QED BY <1>2, <2>2, <2>3, <2>4
<1>9. CASE OpenReturns(p)
  <2> DEFINE opened == {p} \cup {q \in Others(p) : state[q] = "opening"}
  <2>1. /\ state[p] = "open"
        /\ state' = [q \in Procs |-> IF q \in opened THEN "exec" ELSE state[q]]
        /\ opens' = [opens EXCEPT ![p] = name]
        /\ in' = [q \in Procs |-> IF q \in opened /\ q[3] = "cmd" THEN name ELSE in[q]]
        /\ out' = [q \in Procs |-> IF q \in opened /\ q[3] = "sub" THEN name ELSE out[q]]
        /\ UNCHANGED <<script, line, shell, at, spare, name>>
    BY <1>9 DEF OpenReturns
  <2>2. \A q \in opened : state[q] \in {"open", "opening"} /\ q \in Procs
    BY <2>1 DEF Others
  <2>3. \A q \in opened : q[3] \in {"cmd", "sub"}
    BY <2>2, ProcsAre DEF StatesOf, Roles
  <2> HIDE DEF opened
  <2>4. state' \in [Procs -> States] /\ \A q \in Procs : state'[q] \in StatesOf(q[3])
    BY <2>1, <2>3 DEF States, StatesOf
  <2>5. in' \in [Procs -> Channels] /\ out' \in [Procs -> Channels] /\ opens' \in [Procs -> Channels]
    BY <2>1
  <2> QED BY <1>2, <2>1, <2>4, <2>5
<1>10. CASE Exec(p) \/ ExecFails(p) \/ End(p)
  <2>1. state[p] \in {"exec", "runs"} /\ p[3] \in {"cmd", "sub"}
    BY <1>10, ProcsAre DEF Exec, ExecFails, End, StatesOf, Roles
  <2>2. /\ \E to \in {"runs", "ended"} : state' = [state EXCEPT ![p] = to]
        /\ in' \in {in, [in EXCEPT ![p] = File]} /\ out' \in {out, [out EXCEPT ![p] = File]}
        /\ name' \in {name, None} /\ UNCHANGED <<script, line, shell, at, spare, opens>>
    <3>1. \A f : f \in [Procs -> Channels] => [f EXCEPT ![p] = f[p]] = f
      OBVIOUS
    <3> QED BY <1>10, <3>1 DEF Exec, ExecFails, End
  <2>3. state' \in [Procs -> States] /\ \A q \in Procs : state'[q] \in StatesOf(q[3])
    BY <2>1, <2>2, ZenonT(60) DEF States, StatesOf
  <2>4. in' \in [Procs -> Channels] /\ out' \in [Procs -> Channels] /\ name' \in Channels
    BY <2>2, ChannelsAre, SMTT(30)
  <2> QED BY <1>2, <2>2, <2>3, <2>4
<1> QED BY <1>3, <1>4, <1>5, <1>6, <1>7, <1>8, <1>9, <1>10

-----------------------------------------------------------------------------
(* The process of a line, and when it ends *)

More(l, k) == k < Last(l) \/ (k = Last(l) /\ script[l].trailing)

\* The process of a line executes only the last stage, unless nothing follows a
\* | there; the stages before have processes of their own.  The command of the
\* last stage runs only while the process of the line waits for it.
CallInv ==
    /\ \A l \in Lines :
         /\ state[Call(l)] \in {"execute", "waitpid"} => at[l] = Last(l) /\ ~ script[l].trailing
         /\ state[Call(l)] = "rewire" => More(l, at[l])
    /\ \A p \in Procs : p[3] = "head" /\ state[p] # "none" => More(p[1], p[2])
    /\ \A p \in Procs :
         p[3] = "cmd" /\ p[2] = Last(p[1]) /\ ~ script[p[1]].trailing /\ Alive(p)
           => state[Call(p[1])] = "waitpid"

\* Who can be where.
LEMMA Whereabouts ==
    ASSUME ShellTypes, NEW p \in Procs
    PROVE  /\ p[3] = "call" => state[p] \in {"none", "analyze", "rewire", "execute", "waitpid", "ended"}
           /\ p[3] = "head" => state[p] \in {"none", "rewire", "execute", "waitpid", "ended"}
           /\ p[3] = "cmd" => state[p] \in {"none", "unlink", "mkfifo", "open", "opening", "exec", "runs", "ended"}
           /\ p[3] = "sub" => state[p] \in {"none", "open", "opening", "exec", "runs", "ended"}
           /\ p[3] \in {"call", "head", "cmd", "sub"}
  BY ProcsAre DEF ShellTypes, StatesOf, Roles

\* A step of the process of a line changes the state of that process, and Split
\* starts the one for the stage.
LEMMA LineMoves ==
    ASSUME ShellTypes, NEW l \in Lines, Split(l) \/ RewireCall(l) \/ RewireNothing(l) \/ Simple(l)
    PROVE  /\ Call(l) \in Procs /\ Call(l)[1] = l /\ Call(l)[3] = "call"
           /\ state[Call(l)] \in {"analyze", "rewire"}
           /\ \A q \in Procs : q # Call(l) /\ q # HeadOf(l, at[l]) => state'[q] = state[q]
           /\ Split(l) => /\ HeadOf(l, at[l]) \in Procs /\ More(l, at[l]) /\ at' = at
                          /\ state'[Call(l)] = "rewire" /\ state'[HeadOf(l, at[l])] = "rewire"
           /\ ~ Split(l) => \A q \in Procs : q # Call(l) => state'[q] = state[q]
           /\ RewireCall(l) => state'[Call(l)] = "analyze" /\ at' = [at EXCEPT ![l] = at[l] + 1]
           /\ RewireNothing(l) => at' = at /\ at[l] = Last(l) /\ state'[Call(l)] = "ended"
           /\ Simple(l) => /\ at' = at /\ at[l] = Last(l) /\ ~ script[l].trailing
                           /\ state'[Call(l)] = "execute"
           /\ UNCHANGED <<script, line, shell>>
<1>1. Call(l) \in Procs /\ Call(l)[1] = l /\ Call(l)[3] = "call"
  BY ProcsAre DEF Call
<1>2. Last(l) \in Nat /\ at[l] \in Nat \ {0} /\ state \in [Procs -> States] /\ at \in [Lines -> Nat \ {0}]
  BY LinesAre DEF ShellTypes
<1>3. HeadOf(l, at[l]) # Call(l)
  BY DEF HeadOf, Call
<1> USE DEF Goto
<1>4. CASE Split(l)
  <2>1. HeadOf(l, at[l]) \in Procs /\ More(l, at[l])
    <3>1. at[l] <= Last(l) /\ More(l, at[l])
      BY <1>2, <1>4 DEF Split, More
    <3> QED BY <1>2, <3>1, ProcsAre DEF HeadOf, Roles
  <2>2. /\ state[Call(l)] = "analyze"
        /\ state' = [state EXCEPT ![Call(l)] = "rewire", ![HeadOf(l, at[l])] = "rewire"]
        /\ UNCHANGED <<script, line, shell, at>>
    BY <1>4 DEF Split, HeadOf
  <2>3. ~ RewireCall(l) /\ ~ RewireNothing(l) /\ ~ Simple(l)
    <3>1. state'[Call(l)] = "rewire"
      BY <1>1, <1>2, <1>3, <2>1, <2>2
    <3> QED BY <1>1, <1>2, <3>1 DEF RewireCall, RewireNothing, Simple
  <2> QED BY <1>1, <1>2, <1>3, <1>4, <2>1, <2>2, <2>3
<1>5. CASE ~ Split(l) /\ (RewireCall(l) \/ RewireNothing(l) \/ Simple(l))
  BY <1>1, <1>2, <1>5 DEF RewireCall, RewireNothing, Simple
<1> QED BY <1>4, <1>5

\* A step of a command, or of a process that runs one, changes states of its
\* line, and of another only those of processes that wait at the FIFO.
LEMMA ProcessMoves ==
    ASSUME ShellTypes, CallInv, NEW p \in Procs,
           \/ RewireHead(p) \/ Execute(p) \/ Return(p) \/ Unlink(p) \/ Mkfifo(p)
           \/ OpenFails(p) \/ OpenWaits(p) \/ OpenReturns(p) \/ Exec(p) \/ ExecFails(p) \/ End(p)
    PROVE  /\ Alive(p)
           /\ \A q \in Procs : state'[q] # state[q] =>
                \/ q = p
                \/ Execute(p) /\ q = StageAt(p)
                \/ Mkfifo(p) /\ q = Sub(p)
                \/ state[q] = "opening" /\ state'[q] = "exec"
           /\ UNCHANGED <<script, line, shell, at>>
<1>1. state \in [Procs -> States]
  BY DEF ShellTypes
<1> USE DEF Goto
<1>2. UNCHANGED <<script, line, shell, at>>
  BY DEF RewireHead, Execute, Return, Unlink, Mkfifo, OpenFails, OpenWaits, OpenReturns, Exec,
         ExecFails, End
<1>3. CASE \/ RewireHead(p) \/ Return(p) \/ Unlink(p) \/ OpenFails(p) \/ OpenWaits(p)
           \/ Exec(p) \/ ExecFails(p) \/ End(p)
  BY <1>1, <1>2, <1>3
     DEF RewireHead, Return, Unlink, OpenFails, OpenWaits, Exec, ExecFails, End, Alive
<1>4. CASE Execute(p)
  BY <1>1, <1>2, <1>4 DEF Execute, Alive
<1>5. CASE Mkfifo(p)
  BY <1>1, <1>2, <1>5 DEF Mkfifo, Alive
<1>6. CASE OpenReturns(p)
  BY <1>1, <1>2, <1>6 DEF OpenReturns, Others, Alive
<1> QED BY <1>3, <1>4, <1>5, <1>6

\* At first nothing runs.
LEMMA CallInit == Init => CallInv
<1> SUFFICES ASSUME Init PROVE CallInv
  OBVIOUS
<1>1. ShellTypes
  BY TypesInit
<1>2. \A p \in Procs : state[p] = "none"
  BY DEF Init
<1>3. \A l \in Lines : Call(l) \in Procs
  BY <1>1, ProcsAre
<1> QED BY <1>2, <1>3 DEF CallInv, Alive

\* The shell starts the process of a line.
LEMMA CallShell == ShellTypes /\ CallInv /\ ShellStep => CallInv'
<1> SUFFICES ASSUME ShellTypes, CallInv, ShellStep PROVE CallInv'
  OBVIOUS
<1>1. UNCHANGED <<script, at>>
  BY DEF ShellStep, ReadLine, NextLine, EndOfScript
<1>2. Procs' = Procs /\ Lines' = Lines /\ \A l : Last(l)' = Last(l)
  BY <1>1, SameScript
<1>3. CASE state' = state
  BY <1>1, <1>2, <1>3 DEF CallInv, More, Alive
<1>4. CASE line \in Lines /\ Goto(Call(line), "none", "analyze")
  <2>1. state \in [Procs -> States] /\ Call(line) \in Procs /\ Call(line)[3] = "call"
    BY <1>4, ProcsAre DEF ShellTypes, Call
  <2>2. state[Call(line)] = "none" /\ state' = [state EXCEPT ![Call(line)] = "analyze"]
    BY <1>4 DEF Goto
  <2>3. \A l \in Lines : Call(l) \in Procs /\ (l # line => state'[Call(l)] = state[Call(l)])
    BY <2>1, <2>2, ProcsAre DEF Call
  <2>4. \A p \in Procs : p[3] # "call" => state'[p] = state[p]
    BY <2>1, <2>2
  <2>5. \A p \in Procs : p[1] \in Lines
    BY ProcsAre
  <2> QED BY <1>1, <1>2, <2>1, <2>2, <2>3, <2>4, <2>5 DEF CallInv, More, Alive
<1>5. state' = state \/ (line \in Lines /\ Goto(Call(line), "none", "analyze"))
  BY LinesAre DEF ShellStep, ReadLine, NextLine, EndOfScript, ShellTypes
<1> QED BY <1>3, <1>4, <1>5

\* A step of the process of a line keeps it at a stage that it may split or execute.
LEMMA CallLine ==
    ASSUME ShellTypes, CallInv, NEW l \in Lines,
           Split(l) \/ RewireCall(l) \/ RewireNothing(l) \/ Simple(l)
    PROVE  CallInv'
<1> DEFINE h == HeadOf(l, at[l])
<1>1. /\ Call(l) \in Procs /\ Call(l)[1] = l /\ Call(l)[3] = "call"
      /\ \A q \in Procs : q # Call(l) /\ q # h => state'[q] = state[q]
      /\ UNCHANGED script /\ h[1] = l /\ h[2] = at[l] /\ h[3] = "head"
  BY LineMoves DEF HeadOf
<1>2. /\ Procs' = Procs /\ Lines' = Lines /\ \A m : Last(m)' = Last(m)
      /\ \A m, k : More(m, k)' <=> More(m, k)
  BY <1>1, SameScript DEF More
<1>3. \A m \in Lines : /\ Call(m) \in Procs /\ Call(m)[3] = "call"
                       /\ m # l => state'[Call(m)] = state[Call(m)] /\ at'[m] = at[m]
  <2>1. \A m \in Lines : Call(m) \in Procs /\ Call(m)[3] = "call" /\ Call(m)[1] = m
    BY ProcsAre DEF Call
  <2>2. at \in [Lines -> Nat \ {0}] /\ (at' = at \/ at' = [at EXCEPT ![l] = at[l] + 1])
    BY LineMoves DEF ShellTypes
  <2> QED BY <1>1, <2>1, <2>2
<1>4. \A p \in Procs : p[3] = "cmd" => state'[p] = state[p] /\ p[1] \in Lines
  BY <1>1, ProcsAre
<1>5. state[Call(l)] \in {"analyze", "rewire"}
  BY LineMoves
<1>6. /\ state'[Call(l)] \in {"execute", "waitpid"} => at'[l] = Last(l) /\ ~ script[l].trailing
      /\ state'[Call(l)] = "rewire" => More(l, at'[l])
  BY LineMoves
<1>7. \A p \in Procs : p[3] = "head" /\ state'[p] # "none" => More(p[1], p[2])
  <2>1. CASE Split(l)
    <3>1. More(h[1], h[2])
      BY <1>1, <2>1, LineMoves
    <3> QED BY <1>1, <3>1 DEF CallInv
  <2>2. CASE ~ Split(l)
    <3>1. \A q \in Procs : q # Call(l) => state'[q] = state[q]
      BY <2>2, LineMoves
    <3> QED BY <1>1, <3>1 DEF CallInv
  <2> QED BY <2>1, <2>2
<1>8. \A m \in Lines :
         /\ state'[Call(m)] \in {"execute", "waitpid"} => at'[m] = Last(m) /\ ~ script[m].trailing
         /\ state'[Call(m)] = "rewire" => More(m, at'[m])
  BY <1>3, <1>6 DEF CallInv
<1>9. \A p \in Procs :
         p[3] = "cmd" /\ p[2] = Last(p[1]) /\ ~ script[p[1]].trailing /\ Alive(p)'
           => state'[Call(p[1])] = "waitpid"
  <2> SUFFICES ASSUME NEW p \in Procs, p[3] = "cmd", p[2] = Last(p[1]), ~ script[p[1]].trailing, Alive(p)'
               PROVE  state'[Call(p[1])] = "waitpid"
    OBVIOUS
  <2>1. state[Call(p[1])] = "waitpid" /\ p[1] \in Lines
    BY <1>4 DEF CallInv, Alive
  <2> QED BY <1>3, <1>5, <2>1
<1> HIDE DEF h
<1> QED BY <1>1, <1>2, <1>7, <1>8, <1>9 DEF CallInv

\* The process of a line moves by its own steps only.
LEMMA CallMoves ==
    ASSUME ShellTypes, CallInv, NEW p \in Procs,
           \/ RewireHead(p) \/ Execute(p) \/ Return(p) \/ Unlink(p) \/ Mkfifo(p)
           \/ OpenFails(p) \/ OpenWaits(p) \/ OpenReturns(p) \/ Exec(p) \/ ExecFails(p) \/ End(p)
    PROVE  \A l \in Lines : state'[Call(l)] # state[Call(l)] =>
             /\ p = Call(l)
             /\ \/ Execute(p) /\ state[p] = "execute" /\ state'[p] \in {"waitpid", "ended"}
                \/ Return(p) /\ state[p] = "waitpid" /\ state[StageAt(p)] = "ended" /\ state'[p] = "ended"
<1>1. /\ Alive(p) /\ UNCHANGED <<script, at>>
      /\ \A q \in Procs : state'[q] # state[q] =>
                \/ q = p
                \/ Execute(p) /\ q = StageAt(p)
                \/ Mkfifo(p) /\ q = Sub(p)
                \/ state[q] = "opening" /\ state'[q] = "exec"
  BY ProcessMoves
<1>2. state \in [Procs -> States]
  BY DEF ShellTypes
<1>3. Execute(p) => /\ p[3] \in {"call", "head"} /\ StageAt(p) \in Procs /\ StageAt(p)[3] = "cmd"
                    /\ StageAt(p)[1] = p[1]
                    /\ StageAt(p)[2] = IF p[3] = "call" THEN Last(p[1]) ELSE p[2]
  BY ItsCommand, ProcsAre DEF Execute, CallInv
<1>4. Mkfifo(p) => Sub(p) \in Procs /\ Sub(p)[3] = "sub" /\ p[3] = "cmd"
  BY ItsSub, Whereabouts DEF Mkfifo
<1>5. \A l \in Lines : Call(l) \in Procs /\ Call(l)[3] = "call" /\ Call(l)[1] = l
  BY ProcsAre DEF Call
<1> SUFFICES ASSUME NEW l \in Lines, state'[Call(l)] # state[Call(l)]
             PROVE  /\ p = Call(l)
                    /\ \/ Execute(p) /\ state[p] = "execute" /\ state'[p] \in {"waitpid", "ended"}
                       \/ /\ Return(p) /\ state[p] = "waitpid" /\ state[StageAt(p)] = "ended"
                          /\ state'[p] = "ended"
  OBVIOUS
<1>6. p = Call(l) /\ p[3] = "call"
  BY <1>1, <1>3, <1>4, <1>5, Whereabouts
<1>7. state[p] \in {"analyze", "rewire", "execute", "waitpid"}
  BY <1>1, <1>6, Whereabouts DEF Alive
<1>8. Execute(p) \/ Return(p)
  BY <1>6, <1>7 DEF RewireHead, Unlink, Mkfifo, OpenFails, OpenWaits, OpenReturns, Exec, ExecFails, End,
     Goto
<1>9. Execute(p) => state[p] = "execute" /\ state'[p] \in {"waitpid", "ended"}
  <2>1. Execute(p) => StageAt(p) # p
    BY <1>3, <1>6
  <2> QED BY <1>2, <2>1 DEF Execute, Goto
<1>10. Return(p) => state[p] = "waitpid" /\ state[StageAt(p)] = "ended" /\ state'[p] = "ended"
  BY <1>2 DEF Return, Goto
<1> QED BY <1>6, <1>8, <1>9, <1>10

\* Execute starts the last command as its process starts to wait, and Return ends
\* the wait when that command has ended.
LEMMA CallProcess ==
    ASSUME ShellTypes, CallInv, NEW p \in Procs,
           \/ RewireHead(p) \/ Execute(p) \/ Return(p) \/ Unlink(p) \/ Mkfifo(p)
           \/ OpenFails(p) \/ OpenWaits(p) \/ OpenReturns(p) \/ Exec(p) \/ ExecFails(p) \/ End(p)
    PROVE  CallInv'
<1>1. /\ Alive(p) /\ UNCHANGED <<script, at>>
      /\ \A q \in Procs : state'[q] # state[q] =>
                \/ q = p
                \/ Execute(p) /\ q = StageAt(p)
                \/ Mkfifo(p) /\ q = Sub(p)
                \/ state[q] = "opening" /\ state'[q] = "exec"
  BY ProcessMoves
<1>2. /\ Procs' = Procs /\ Lines' = Lines /\ \A m : Last(m)' = Last(m)
      /\ \A m, k : More(m, k)' <=> More(m, k)
  BY <1>1, SameScript DEF More
<1>3. state \in [Procs -> States]
  BY DEF ShellTypes
<1>4. Execute(p) => /\ p[3] \in {"call", "head"} /\ StageAt(p) \in Procs /\ StageAt(p)[3] = "cmd"
                    /\ StageAt(p)[1] = p[1]
                    /\ StageAt(p)[2] = IF p[3] = "call" THEN Last(p[1]) ELSE p[2]
  BY ItsCommand, ProcsAre DEF Execute, CallInv
<1>5. Mkfifo(p) => Sub(p) \in Procs /\ Sub(p)[3] = "sub" /\ p[3] = "cmd"
  BY ItsSub, Whereabouts DEF Mkfifo
<1>6. \A l \in Lines : Call(l) \in Procs /\ Call(l)[3] = "call" /\ Call(l)[1] = l
  BY ProcsAre DEF Call
<1>7. \A l \in Lines : state'[Call(l)] # state[Call(l)] =>
         /\ p = Call(l)
         /\ \/ Execute(p) /\ state[p] = "execute" /\ state'[p] \in {"waitpid", "ended"}
            \/ Return(p) /\ state[p] = "waitpid" /\ state[StageAt(p)] = "ended" /\ state'[p] = "ended"
  BY CallMoves
<1>8. \A l \in Lines :
         /\ state'[Call(l)] \in {"execute", "waitpid"} => at[l] = Last(l) /\ ~ script[l].trailing
         /\ state'[Call(l)] = "rewire" => More(l, at[l])
  BY <1>7 DEF CallInv
<1>9. \A q \in Procs : q[3] = "head" /\ state'[q] # "none" => More(q[1], q[2])
  <2> SUFFICES ASSUME NEW q \in Procs, q[3] = "head", state'[q] # "none" PROVE state[q] # "none"
    BY DEF CallInv
  <2> QED BY <1>1, <1>4, <1>5 DEF Alive
<1>10. \A q \in Procs :
         q[3] = "cmd" /\ q[2] = Last(q[1]) /\ ~ script[q[1]].trailing /\ Alive(q)'
           => state'[Call(q[1])] = "waitpid"
  <2> SUFFICES ASSUME NEW q \in Procs, q[3] = "cmd", q[2] = Last(q[1]), ~ script[q[1]].trailing,
                      Alive(q)'
               PROVE  state'[Call(q[1])] = "waitpid"
    OBVIOUS
  <2>1. q[1] \in Lines /\ Last(q[1]) \in Nat
    BY ProcsAre, LinesAre
  <2>2. CASE Alive(q)
    <3>1. state[Call(q[1])] = "waitpid"
      BY <2>2 DEF CallInv
    <3>2. CASE state'[Call(q[1])] # state[Call(q[1])]
      <4>1. p = Call(q[1]) /\ state[StageAt(p)] = "ended"
        BY <1>7, <2>1, <3>1, <3>2
      <4>2. StageAt(p) = q
        <5>1. at[q[1]] = Last(q[1]) /\ q = <<q[1], q[2], q[3]>>
          BY <2>1, <3>1, ProcsAre DEF CallInv
        <5> QED BY <4>1, <5>1 DEF StageAt, Call
      <4> QED BY <2>2, <4>1, <4>2 DEF Alive
    <3> QED BY <3>1, <3>2
  <2>3. CASE ~ Alive(q)
    <3>1. state'[q] # state[q] /\ state[q] # "opening" /\ q # p
      BY <1>1, <2>3 DEF Alive
    <3>2. Execute(p) /\ q = StageAt(p)
      BY <1>1, <1>5, <3>1
    <3>3. p[3] = "call"
      <4>1. p[3] = "head" => More(p[1], p[2])
        BY <1>1 DEF CallInv, Alive
      <4> QED BY <1>4, <2>1, <3>2, <4>1 DEF More
    <3>4. state'[p] = "waitpid"
      BY <1>3, <3>1, <3>2 DEF Execute, Goto
    <3>5. p = Call(q[1])
      BY <1>4, <3>2, <3>3, ProcsAre
    <3> QED BY <3>4, <3>5
  <2> QED BY <2>2, <2>3
<1> QED BY <1>1, <1>2, <1>8, <1>9, <1>10 DEF CallInv

-----------------------------------------------------------------------------
(* The lines, one after the other *)

\* Nothing of a line runs before the shell starts it, and the process of an
\* earlier line has ended.
LineInv ==
    /\ \A p \in Procs : p[1] > line \/ (p[1] = line /\ shell # "waits") => state[p] = "none"
    /\ \A l \in Lines : l < line => state[Call(l)] \in {"none", "ended"}

\* The shell goes on when the process of its line has ended.
LEMMA LineShell == ShellTypes /\ LineInv /\ ShellStep => LineInv'
<1> SUFFICES ASSUME ShellTypes, LineInv, ShellStep PROVE LineInv'
  OBVIOUS
<1>1. UNCHANGED script
  BY DEF ShellStep, ReadLine, NextLine, EndOfScript
<1>2. /\ Procs' = Procs /\ Lines' = Lines /\ Lines = 1..Len(script) /\ Len(script) \in Nat
      /\ line \in Nat /\ state \in [Procs -> States]
  BY <1>1, SameScript, LinesAre DEF ShellTypes
<1>3. /\ \A p \in Procs : p[1] \in Lines
      /\ \A l \in Lines : Call(l) \in Procs /\ Call(l)[1] = l
  BY ProcsAre DEF Call
<1>4. CASE ReadLine
  <2>1. line \in Lines
    BY <1>2, <1>4 DEF ReadLine, ShellTypes
  <2>2. CASE script[line].kind = "cd" /\ line' = line + 1 /\ UNCHANGED <<shell, state>>
    BY <1>2, <1>3, <1>4, <2>1, <2>2 DEF LineInv, ReadLine
  <2>3. CASE Goto(Call(line), "none", "analyze") /\ shell' = "waits" /\ line' = line
    BY <1>2, <1>3, <2>1, <2>3 DEF LineInv, Goto
  <2>4. CASE shell' = "done" /\ UNCHANGED <<line, state>>
    BY <1>2, <1>3, <1>4, <2>4 DEF LineInv, ReadLine
  <2> QED BY <1>4, <2>2, <2>3, <2>4 DEF ReadLine
<1>5. CASE NextLine
  BY <1>2, <1>3, <1>5 DEF NextLine, LineInv
<1>6. CASE EndOfScript
  BY <1>2, <1>3, <1>6 DEF EndOfScript, LineInv
<1> QED BY <1>4, <1>5, <1>6 DEF ShellStep

\* The process of a line moves only while the shell waits for it.
LEMMA LineLine ==
    ASSUME ShellTypes, LineInv, NEW l \in Lines,
           Split(l) \/ RewireCall(l) \/ RewireNothing(l) \/ Simple(l)
    PROVE  LineInv'
<1>1. /\ Call(l) \in Procs /\ Call(l)[1] = l /\ HeadOf(l, at[l])[1] = l
      /\ state[Call(l)] \in {"analyze", "rewire"}
      /\ \A q \in Procs : q # Call(l) /\ q # HeadOf(l, at[l]) => state'[q] = state[q]
      /\ UNCHANGED <<script, line, shell>>
  BY LineMoves DEF HeadOf
<1>2. Procs' = Procs /\ Lines' = Lines
  BY <1>1, SameScript
<1>3. l = line /\ shell = "waits"
  <2>1. Lines \subseteq Nat /\ line \in Nat
    BY LinesAre DEF ShellTypes
  <2> QED BY <1>1, <2>1 DEF LineInv
<1>4. \A m \in Lines : Call(m) \in Procs /\ Call(m)[1] = m /\ Call(m)[3] = "call"
  BY ProcsAre DEF Call
<1>5. \A p \in Procs : p[1] # l => state'[p] = state[p]
  BY <1>1
<1>6. \A p \in Procs : p[1] > line => p[1] # l
  BY <1>3, LinesAre, ProcsAre
<1>7. \A m \in Lines : m < line => m # l
  BY <1>3, LinesAre
<1> QED BY <1>1, <1>2, <1>3, <1>4, <1>5, <1>6, <1>7 DEF LineInv

\* A command starts others of its own line only.
LEMMA LineProcess ==
    ASSUME ShellTypes, CallInv, LineInv, NEW p \in Procs,
           \/ RewireHead(p) \/ Execute(p) \/ Return(p) \/ Unlink(p) \/ Mkfifo(p)
           \/ OpenFails(p) \/ OpenWaits(p) \/ OpenReturns(p) \/ Exec(p) \/ ExecFails(p) \/ End(p)
    PROVE  LineInv'
<1>1. /\ Alive(p) /\ UNCHANGED <<script, line, shell>>
      /\ \A q \in Procs : state'[q] # state[q] =>
                \/ q = p
                \/ Execute(p) /\ q = StageAt(p)
                \/ Mkfifo(p) /\ q = Sub(p)
                \/ state[q] = "opening" /\ state'[q] = "exec"
  BY ProcessMoves
<1>2. Procs' = Procs /\ Lines' = Lines
  BY <1>1, SameScript
<1>3. Execute(p) => StageAt(p)[3] = "cmd" /\ StageAt(p)[1] = p[1]
  BY ItsCommand, ProcsAre DEF Execute, CallInv
<1>4. Mkfifo(p) => Sub(p)[3] = "sub" /\ Sub(p)[1] = p[1]
  BY DEF Sub
<1>5. \A q \in Procs : state[q] = "none" /\ state'[q] # "none" => q[1] = p[1]
  BY <1>1, <1>3, <1>4
<1>6. \A l \in Lines : Call(l) \in Procs /\ Call(l)[1] = l /\ Call(l)[3] = "call"
  BY ProcsAre DEF Call
<1>7. \A l \in Lines : state'[Call(l)] # state[Call(l)] => Alive(Call(l))
  BY <1>1, <1>3, <1>4, <1>6 DEF Alive
<1> QED BY <1>1, <1>2, <1>5, <1>6, <1>7 DEF LineInv, Alive

\* At first no line has run.
LEMMA LineInit == Init => LineInv
<1> SUFFICES ASSUME Init PROVE LineInv
  OBVIOUS
<1>1. ShellTypes
  BY TypesInit
<1>2. /\ \A p \in Procs : state[p] = "none"
      /\ \A l \in Lines : Call(l) \in Procs
  BY <1>1, ProcsAre DEF Init
<1> QED BY <1>2 DEF LineInv

LinesInv == ShellTypes /\ CallInv /\ LineInv

\* Every step keeps the lines in order.
LEMMA LinesStep == LinesInv /\ [Next]_vars => LinesInv'
<1> SUFFICES ASSUME LinesInv, [Next]_vars PROVE LinesInv'
  OBVIOUS
<1>1. ShellTypes /\ CallInv /\ LineInv
  BY DEF LinesInv
<1>2. CASE ShellStep
  BY <1>1, <1>2, TypesShell, CallShell, LineShell DEF LinesInv
<1>3. CASE \E l \in Lines : Split(l) \/ RewireCall(l) \/ RewireNothing(l) \/ Simple(l)
  BY <1>1, <1>3, TypesLine, CallLine, LineLine DEF LinesInv
<1>4. ASSUME NEW p \in Procs,
             \/ RewireHead(p) \/ Execute(p) \/ Return(p) \/ Unlink(p) \/ Mkfifo(p)
             \/ OpenFails(p) \/ OpenWaits(p) \/ OpenReturns(p) \/ Exec(p) \/ ExecFails(p) \/ End(p)
      PROVE  LinesInv'
  <2>1. state[p] = "execute" /\ p[3] = "call" => at[p[1]] = Last(p[1])
    BY <1>1, ProcsAre DEF CallInv
  <2> QED BY <1>1, <1>4, <2>1, TypesProcess, CallProcess, LineProcess DEF LinesInv
<1>5. CASE UNCHANGED vars
  <2>1. Procs' = Procs /\ Lines' = Lines /\ \A m : Last(m)' = Last(m)
    BY <1>5, SameScript DEF vars
  <2> QED BY <1>1, <1>5, <2>1
     DEF LinesInv, ShellTypes, CallInv, LineInv, More, Alive, vars
<1> QED BY <1>1, <1>2, <1>3, <1>4, <1>5, StepCases

\* The inductive invariant of lines holds in every run of every script.
THEOREM LinesAlways == Spec => []LinesInv
<1>1. Init => LinesInv
  BY TypesInit, CallInit, LineInit DEF LinesInv
<1> QED BY <1>1, LinesStep, PTL DEF Spec

\* A line starts when the last command of the line before has ended: whatever the
\* script, only stages before the last and substituted commands outlive it.
THEOREM LastFirst == Spec => []NextAfterLast
<1>1. LinesInv => NextAfterLast
  <2> SUFFICES ASSUME LinesInv, NEW p \in Procs, p[1] < line, Alive(p), p[3] # "head", p[3] # "sub"
               PROVE  p[3] = "cmd" /\ (p[2] < Last(p[1]) \/ script[p[1]].trailing)
    BY DEF NextAfterLast
  <2>1. /\ p[1] \in Lines /\ p[2] \in 0..Last(p[1]) /\ p[3] \in {"call", "cmd"}
        /\ p[3] = "call" => p = Call(p[1])
    BY ProcsAre DEF LinesInv, Roles
  <2>2. state[Call(p[1])] \in {"none", "ended"}
    BY <2>1 DEF LinesInv, LineInv
  <2>3. p[3] = "cmd"
    BY <2>1, <2>2 DEF Alive
  <2>4. p[2] # Last(p[1]) \/ script[p[1]].trailing
    BY <2>2, <2>3 DEF LinesInv, CallInv
  <2>5. Last(p[1]) \in Nat
    BY <2>1, LinesAre DEF LinesInv
  <2> QED BY <2>1, <2>3, <2>4, <2>5
<1> QED BY <1>1, LinesAlways, PTL

-----------------------------------------------------------------------------
(* The pipes *)

Inp(l, k) == IF k = 1 THEN Terminal ELSE Pipe(l, k - 1)

\* What a process holds: the process of the line reads what the stage before the
\* one it is at writes; a head reads the same and, once it has closed its spare
\* ends, writes its own pipe; a command has the ends of the process it is of.
WireOf(p) ==
    /\ state[p] # "ended" =>
          spare[p] = IF state[p] = "rewire"
                       THEN Pipe(p[1], IF p[3] = "call" THEN at[p[1]] ELSE p[2]) ELSE None
    /\ p[3] \in {"cmd", "sub"} => spare[p] = None
    /\ p[3] = "call" => in[p] = Inp(p[1], at[p[1]]) /\ out[p] = Terminal
    /\ p[3] = "head" /\ state[p] # "none" => in[p] = Inp(p[1], p[2])
    /\ p[3] = "head" /\ state[p] \in {"execute", "waitpid", "ended"} => out[p] = Pipe(p[1], p[2])
    /\ p[3] = "cmd" /\ state[p] \in {"unlink", "mkfifo", "open", "opening"} => HasSub(p)
    /\ p[3] = "cmd" /\ state[p] # "none" /\ ~ HasSub(p) /\ StageOf(p).file # "in" => in[p] = Inp(p[1], p[2])
    /\ p[3] = "cmd" /\ state[p] # "none" /\ StageOf(p).file # "out" /\ p[2] < Last(p[1]) =>
          out[p] = Pipe(p[1], p[2])
    /\ out[p][1] = "pipe" => out[p] = Pipe(p[1], p[2])

WireInv == name[1] # "pipe" /\ \A p \in Procs : WireOf(p)

\* A step that leaves a process alone.
Still(p) == state'[p] = state[p] /\ in'[p] = in[p] /\ out'[p] = out[p] /\ spare'[p] = spare[p]

\* A process that a step leaves alone keeps what it holds.
LEMMA WireStill ==
    ASSUME NEW p, UNCHANGED script, WireOf(p), Still(p), p[3] = "call" => at'[p[1]] = at[p[1]]
    PROVE  WireOf(p)'
<1>1. /\ \A l : Last(l)' = Last(l)
      /\ StageOf(p)' = StageOf(p) /\ (HasSub(p)' <=> HasSub(p))
  BY SameScript DEF HasSub
<1>2. \A l, k : Inp(l, k)' = Inp(l, k) /\ Pipe(l, k)' = Pipe(l, k)
  BY DEF Inp, Terminal, Pipe
<1>3. Inp(p[1], at[p[1]])' = Inp(p[1], at'[p[1]]) /\ Terminal' = Terminal /\ None' = None
  BY DEF Inp, Terminal, Pipe, None
<1> QED BY <1>1, <1>2, <1>3 DEF WireOf, Still

\* At first every process has the terminal.
LEMMA WireInit == Init => WireInv
<1> SUFFICES ASSUME Init PROVE WireInv
  OBVIOUS
<1>1. ShellTypes
  BY TypesInit
<1>2. \A p \in Procs : p[1] \in Lines /\ (p[3] = "call" => at[p[1]] = 1)
  BY <1>1, ProcsAre DEF Init
<1>3. \A p \in Procs : state[p] = "none" /\ in[p] = Terminal /\ out[p] = Terminal /\ spare[p] = None
  BY DEF Init
<1>4. name[1] # "pipe" /\ Terminal[1] # "pipe"
  BY DEF Init, None, Terminal
<1> QED BY <1>2, <1>3, <1>4 DEF WireInv, WireOf, Inp

\* The shell opens and closes nothing.
LEMMA WireShell == ShellTypes /\ WireInv /\ ShellStep => WireInv'
<1> SUFFICES ASSUME ShellTypes, WireInv, ShellStep PROVE WireInv'
  OBVIOUS
<1>1. UNCHANGED <<script, at, in, out, spare>> /\ (name' = name \/ name' = None)
  BY DEF ShellStep, ReadLine, NextLine, EndOfScript
<1>2. Procs' = Procs
  BY <1>1, SameScript
<1>3. state' = state \/ (line \in Lines /\ Goto(Call(line), "none", "analyze"))
  BY LinesAre DEF ShellStep, ReadLine, NextLine, EndOfScript, ShellTypes
<1>4. ASSUME NEW p \in Procs PROVE WireOf(p)'
  <2>1. CASE state'[p] = state[p]
    BY <1>1, <2>1, WireStill DEF WireInv, Still
  <2>2. CASE state'[p] # state[p]
    <3>1. p = Call(line) /\ p[1] = line /\ p[3] = "call" /\ state[p] = "none" /\ state'[p] = "analyze"
      BY <1>3, <2>2 DEF Goto, ShellTypes, Call
    <3>2. WireOf(p)
      BY DEF WireInv
    <3> QED BY <1>1, <3>1, <3>2 DEF WireOf, Inp, Terminal, Pipe, None
  <2> QED BY <2>1, <2>2
<1>5. name'[1] # "pipe"
  BY <1>1 DEF WireInv, None
<1> QED BY <1>2, <1>4, <1>5 DEF WireInv

\* A split gives both processes the pipe, and each keeps one end of it.
LEMMA WireLine ==
    ASSUME ShellTypes, WireInv, NEW l \in Lines,
           Split(l) \/ RewireCall(l) \/ RewireNothing(l) \/ Simple(l)
    PROVE  WireInv'
<1>1. /\ Call(l) \in Procs /\ Call(l)[1] = l /\ Call(l)[3] = "call"
      /\ UNCHANGED script /\ WireOf(Call(l))
  BY LineMoves DEF WireInv
<1>2. Procs' = Procs /\ name' = name
  BY <1>1, SameScript DEF Split, RewireCall, RewireNothing, Simple
<1>3. at[l] \in Nat \ {0}
  BY DEF ShellTypes
<1> USE DEF Goto
<1>4. CASE Split(l)
  <2>0. PICK h \in Procs : h = HeadOf(l, at[l])
    BY <1>4, LineMoves
  <2>1. /\ h[1] = l /\ h[2] = at[l] /\ h[3] = "head" /\ h # Call(l)
        /\ WireOf(h)
    BY <1>1, <2>0 DEF HeadOf, Call, WireInv
  <2>2. /\ state' = [state EXCEPT ![Call(l)] = "rewire", ![h] = "rewire"]
        /\ spare' = [spare EXCEPT ![Call(l)] = Pipe(l, at[l]), ![h] = Pipe(l, at[l])]
        /\ in' = [in EXCEPT ![h] = in[Call(l)]] /\ out' = [out EXCEPT ![h] = out[Call(l)]]
        /\ at' = at
    BY <1>4, <2>0 DEF Split, HeadOf
  <2>3. /\ state'[Call(l)] = "rewire" /\ state'[h] = "rewire"
        /\ spare'[Call(l)] = Pipe(l, at[l]) /\ spare'[h] = Pipe(l, at[l])
        /\ in'[h] = in[Call(l)] /\ in'[Call(l)] = in[Call(l)]
        /\ out'[h] = out[Call(l)] /\ out'[Call(l)] = out[Call(l)]
        /\ \A q \in Procs : q # Call(l) /\ q # h => Still(q)
    BY <1>1, <2>1, <2>2 DEF ShellTypes, Still
  <2>4. in[Call(l)] = Inp(l, at[l]) /\ out[Call(l)] = Terminal
    BY <1>1 DEF WireOf
  <2>5. WireOf(h)'
    <3>1. in'[h] = Inp(h[1], h[2]) /\ out'[h][1] # "pipe" /\ spare'[h] = Pipe(h[1], h[2])
      BY <2>1, <2>3, <2>4 DEF Terminal
    <3> QED BY <2>1, <2>3, <3>1 DEF WireOf
  <2>6. WireOf(Call(l))'
    BY <1>1, <2>2, <2>3, <2>4 DEF WireOf, Inp, Terminal, Pipe
  <2>7. \A q \in Procs : q # Call(l) /\ q # h => WireOf(q)'
    BY <1>1, <2>2, <2>3, WireStill DEF WireInv
  <2> QED BY <1>2, <2>5, <2>6, <2>7 DEF WireInv
<1>5. CASE RewireCall(l)
  <2>1. /\ state[Call(l)] = "rewire" /\ state' = [state EXCEPT ![Call(l)] = "analyze"]
        /\ in' = [in EXCEPT ![Call(l)] = spare[Call(l)]]
        /\ spare' = [spare EXCEPT ![Call(l)] = None]
        /\ at' = [at EXCEPT ![l] = at[l] + 1] /\ out' = out
    BY <1>5 DEF RewireCall
  <2>2. /\ state'[Call(l)] = "analyze" /\ in'[Call(l)] = spare[Call(l)] /\ spare'[Call(l)] = None
        /\ at'[l] = at[l] + 1 /\ out'[Call(l)] = out[Call(l)]
        /\ \A q \in Procs : q # Call(l) => Still(q)
        /\ \A m \in Lines : m # l => at'[m] = at[m]
    BY <1>1, <2>1 DEF ShellTypes, Still
  <2>3. spare[Call(l)] = Pipe(l, at[l]) /\ out[Call(l)] = Terminal
    BY <1>1, <2>1 DEF WireOf
  <2>4. Inp(l, at[l] + 1) = Pipe(l, at[l])
    BY <1>3 DEF Inp
  <2>5. WireOf(Call(l))'
    BY <1>1, <2>2, <2>3, <2>4 DEF WireOf, Inp, Terminal, Pipe, None
  <2>6. \A q \in Procs : q # Call(l) => WireOf(q)'
    <3>1. \A q \in Procs : q # Call(l) /\ q[3] = "call" => q[1] # l /\ q[1] \in Lines
      BY ProcsAre
    <3> QED BY <1>1, <2>2, <3>1, WireStill DEF WireInv
  <2> QED BY <1>2, <2>5, <2>6 DEF WireInv
<1>6. CASE RewireNothing(l) \/ Simple(l)
  <2>1. /\ \/ state'[Call(l)] = "ended"
           \/ state[Call(l)] = "analyze" /\ state'[Call(l)] = "execute"
        /\ \A q \in Procs : q # Call(l) => Still(q)
        /\ UNCHANGED <<at, in, out, spare>>
    BY <1>1, <1>6 DEF RewireNothing, Simple, ShellTypes, Still
  <2>2. WireOf(Call(l))'
    BY <1>1, <2>1 DEF WireOf, Inp, Terminal, Pipe, None
  <2>3. \A q \in Procs : q # Call(l) => WireOf(q)'
    BY <1>1, <2>1, WireStill DEF WireInv
  <2> QED BY <1>2, <2>2, <2>3 DEF WireInv
<1> QED BY <1>4, <1>5, <1>6

\* The ends of a command are those of the process that forks it; the FIFO and a
\* file take their place only where the stage says so.
LEMMA WireProcess ==
    ASSUME ShellTypes, CallInv, WireInv, NEW p \in Procs,
           \/ RewireHead(p) \/ Execute(p) \/ Return(p) \/ Unlink(p) \/ Mkfifo(p)
           \/ OpenFails(p) \/ OpenWaits(p) \/ OpenReturns(p) \/ Exec(p) \/ ExecFails(p) \/ End(p)
    PROVE  WireInv'
<1>1. UNCHANGED <<script, at>> /\ WireOf(p) /\ \A q \in Procs : WireOf(q)
  BY ProcessMoves DEF WireInv
<1>2. /\ Procs' = Procs /\ (\A m : Last(m)' = Last(m)) /\ (\A q : StageOf(q)' = StageOf(q))
      /\ \A q : HasSub(q)' <=> HasSub(q)
  BY <1>1, SameScript DEF HasSub
<1>3. /\ state \in [Procs -> States] /\ in \in [Procs -> Channels] /\ out \in [Procs -> Channels]
      /\ spare \in [Procs -> Channels]
  BY DEF ShellTypes
<1>4. SUFFICES ASSUME NEW q \in Procs, ~ Still(q) PROVE WireOf(q)'
  <2>1. name'[1] # "pipe"
    BY DEF WireInv, RewireHead, Execute, Return, Unlink, Mkfifo, OpenFails, OpenWaits, OpenReturns, Exec,
           ExecFails, End, None, Fifo
  <2>2. \A q \in Procs : Still(q) => WireOf(q)'
    BY <1>1, WireStill
  <2> QED BY <1>2, <1>4, <2>1, <2>2 DEF WireInv
<1>5. WireOf(q) /\ q[3] \in {"call", "head", "cmd", "sub"}
  BY <1>1, Whereabouts
<1> USE DEF Goto, Still
<1>6. CASE RewireHead(p)
  <2>1. /\ q = p /\ p[3] = "head" /\ state[p] = "rewire" /\ state'[p] = "execute"
        /\ in'[p] = in[p] /\ out'[p] = spare[p] /\ spare'[p] = None
    BY <1>3, <1>4, <1>6 DEF RewireHead
  <2> QED BY <1>1, <2>1 DEF WireOf
<1>7. CASE Execute(p)
  <2>1. PICK c \in Procs : /\ c = StageAt(p) /\ c[3] = "cmd" /\ c[1] = p[1]
                           /\ c[2] = IF p[3] = "call" THEN Last(p[1]) ELSE p[2]
                           /\ p[3] \in {"call", "head"}
    BY <1>7, ItsCommand, ProcsAre DEF Execute, CallInv
  <2>2. /\ q = p \/ q = c
        /\ c # p /\ spare'[q] = spare[q] /\ state[p] = "execute"
        /\ state'[p] \in {"waitpid", "ended"} /\ in'[p] = in[p] /\ out'[p] = out[p]
        /\ q = c => /\ in'[c] = in[p] /\ out'[c] = out[p]
                    /\ state'[c] = IF HasSub(c) THEN "unlink" ELSE "exec"
    BY <1>3, <1>4, <1>7, <2>1 DEF Execute, HasSub
  <2>3. p[3] = "call" => at[p[1]] = Last(p[1])
    BY <2>2, ProcsAre DEF CallInv
  <2>4. CASE q = p
    <3>1. in'[p] = in[p] /\ out'[p] = out[p] /\ spare'[p] = None /\ at'[p[1]] = at[p[1]]
      BY <1>1, <2>2, <2>4 DEF WireOf
    <3> QED BY <1>1, <2>1, <2>2, <2>4, <3>1 DEF WireOf
  <2>5. CASE q = c
    <3>1. in[p] = Inp(c[1], c[2]) /\ out[p] = IF p[3] = "call" THEN Terminal ELSE Pipe(c[1], c[2])
      BY <1>1, <2>1, <2>2, <2>3 DEF WireOf
    <3>2. spare[c] = None
      BY <1>1, <2>1 DEF WireOf
    <3>3. in'[c] = Inp(c[1], c[2]) /\ out'[c] \in {Terminal, Pipe(c[1], c[2])} /\ spare'[c] = None
      BY <2>2, <2>5, <3>1, <3>2
    <3>4. c[2] < Last(c[1]) => out'[c] = Pipe(c[1], c[2])
      BY <1>1, <2>1, <2>2, <2>5, <3>1, LinesAre, ProcsAre
    <3>5. state'[c] # "rewire" /\ state'[c] # "ended" /\ (~ HasSub(c) => state'[c] = "exec")
      BY <2>2, <2>5
    <3> QED BY <1>1, <1>2, <2>1, <2>5, <3>3, <3>4, <3>5 DEF WireOf, Terminal
  <2> QED BY <2>2, <2>4, <2>5
<1>8. CASE Return(p) \/ Unlink(p) \/ OpenFails(p) \/ OpenWaits(p) \/ ExecFails(p) \/ End(p)
  <2>1. /\ q = p /\ in'[q] = in[q] /\ out'[q] = out[q] /\ spare'[q] = spare[q]
        /\ state[q] \in {"waitpid", "unlink", "open", "exec", "runs"}
        /\ state'[q] \in {"mkfifo", "opening", "exec", "ended"}
        /\ state'[q] \in {"mkfifo", "opening"} => state[q] \in {"unlink", "open"}
    BY <1>3, <1>4, <1>8 DEF Return, Unlink, OpenFails, OpenWaits, ExecFails, End
  <2>2. q[3] = "head" => state[q] = "waitpid"
    BY <2>1, Whereabouts
  <2>3. at'[q[1]] = at[q[1]]
    BY <1>1
  <2>4. WireOf(q)
    BY <1>5
  <2> QED BY <1>1, <1>2, <2>1, <2>2, <2>3, <2>4 DEF WireOf
<1>9. CASE Mkfifo(p)
  <2>1. PICK u \in Procs : u = Sub(p) /\ u[3] = "sub" /\ u[1] = p[1] /\ u[2] = p[2]
    BY <1>9, ItsSub, Whereabouts DEF Mkfifo
  <2>2. /\ q = p \/ q = u
        /\ p[3] = "cmd" /\ u # p /\ spare'[q] = spare[q] /\ state[p] = "mkfifo"
        /\ state'[p] = "open" /\ in'[p] = in[p] /\ out'[p] = out[p]
        /\ in'[u] = in[p] /\ out'[u] = out[p] /\ state'[u] = "open"
    BY <1>3, <1>4, <1>9, <2>1, Whereabouts DEF Mkfifo
  <2>3. CASE q = p
    BY <1>1, <1>2, <2>2, <2>3 DEF WireOf
  <2>4. CASE q = u
    <3>1. spare[u] = None
      BY <1>1, <2>1 DEF WireOf
    <3> QED BY <1>1, <1>2, <2>1, <2>2, <2>4, <3>1 DEF WireOf
  <2> QED BY <2>2, <2>3, <2>4
<1>10. CASE OpenReturns(p)
  <2>1. /\ state[q] \in {"open", "opening"} /\ state'[q] = "exec" /\ spare'[q] = spare[q]
        /\ in'[q] = IF q[3] = "cmd" THEN name ELSE in[q]
        /\ out'[q] = IF q[3] = "sub" THEN name ELSE out[q]
    BY <1>3, <1>4, <1>10 DEF OpenReturns, Others
  <2>2. q[3] \in {"cmd", "sub"}
    BY <2>1, Whereabouts
  <2>3. name[1] # "pipe"
    BY DEF WireInv
  <2> QED BY <1>1, <1>2, <2>1, <2>2, <2>3 DEF WireOf, Inp, Terminal, Pipe, None
<1>11. CASE Exec(p)
  <2>1. /\ q = p /\ state[q] = "exec" /\ state'[q] = "runs" /\ spare'[q] = spare[q]
        /\ in'[q] = IF q[3] = "cmd" /\ StageOf(q).file = "in" THEN File ELSE in[q]
        /\ out'[q] = IF q[3] = "cmd" /\ StageOf(q).file = "out" THEN File ELSE out[q]
    BY <1>3, <1>4, <1>11 DEF Exec
  <2>2. q[3] \in {"cmd", "sub"}
    BY <2>1, Whereabouts
  <2> QED BY <1>1, <1>2, <2>1, <2>2 DEF WireOf, Inp, Terminal, Pipe, None, File
<1> QED BY <1>6, <1>7, <1>8, <1>9, <1>10, <1>11

\* Every step keeps the pipes connected.
LEMMA WireStep == LinesInv /\ WireInv /\ [Next]_vars => WireInv'
<1> SUFFICES ASSUME LinesInv, WireInv, [Next]_vars PROVE WireInv'
  OBVIOUS
<1>1. ShellTypes /\ CallInv
  BY DEF LinesInv
<1>2. CASE ShellStep
  BY <1>1, <1>2, WireShell
<1>3. CASE \E l \in Lines : Split(l) \/ RewireCall(l) \/ RewireNothing(l) \/ Simple(l)
  BY <1>1, <1>3, WireLine
<1>4. CASE \E p \in Procs : \/ RewireHead(p) \/ Execute(p) \/ Return(p) \/ Unlink(p) \/ Mkfifo(p)
                            \/ OpenFails(p) \/ OpenWaits(p) \/ OpenReturns(p)
                            \/ Exec(p) \/ ExecFails(p) \/ End(p)
  BY <1>1, <1>4, WireProcess
<1>5. CASE UNCHANGED vars
  <2>1. Procs' = Procs /\ name' = name /\ UNCHANGED script /\ at' = at
    BY <1>5, SameScript DEF vars
  <2>2. \A p \in Procs : WireOf(p)'
    BY <1>5, WireStill DEF WireInv, Still, vars
  <2> QED BY <2>1, <2>2 DEF WireInv
<1> QED BY <1>1, <1>2, <1>3, <1>4, <1>5, StepCases

\* What WireOf says of each process holds in every run of every script.
THEOREM WiresAlways == Spec => []WireInv
<1>1. Init => WireInv
  BY WireInit
<1> QED BY <1>1, WireStep, LinesAlways, PTL DEF Spec

\* Whatever the script, a command in a pipeline reads what the stage before it
\* writes, and no process of another stage holds the end of a pipe that a command
\* writes: the copies that fork made have been closed or replaced.
THEOREM PipesWired == Spec => []Wired
<1>1. LinesInv /\ WireInv => Wired
  <2> SUFFICES ASSUME LinesInv, WireInv, NEW p \in Procs, state[p] = "runs", p[3] = "cmd"
               PROVE  /\ StageOf(p).file = "none" /\ StageOf(p).sub = "none" /\ p[2] > 1 =>
                            in[p] = Pipe(p[1], p[2] - 1)
                      /\ StageOf(p).file # "out" /\ p[2] < Last(p[1]) =>
                            /\ out[p] = Pipe(p[1], p[2])
                            /\ \A q \in Writers(out[p]) : Belongs(q, p[1], p[2])
    BY DEF Wired
  <2>1. WireOf(p) /\ \A q \in Procs : WireOf(q)
    BY DEF WireInv
  <2>2. p[2] > 1 => Inp(p[1], p[2]) = Pipe(p[1], p[2] - 1)
    BY DEF Inp
  <2>3. StageOf(p).file # "out" /\ p[2] < Last(p[1]) => out[p] = Pipe(p[1], p[2])
    BY <2>1 DEF WireOf
  <2>4. ASSUME NEW q \in Writers(Pipe(p[1], p[2])) PROVE Belongs(q, p[1], p[2])
    <3>1. q \in Procs /\ Alive(q) /\ Pipe(p[1], p[2]) \in {out[q], spare[q]}
      BY DEF Writers
    <3>2. CASE out[q] = Pipe(p[1], p[2])
      <4>1. out[q][1] = "pipe"
        BY <3>2 DEF Pipe
      <4>2. out[q] = Pipe(q[1], q[2])
        BY <2>1, <3>1, <4>1 DEF WireOf
      <4> QED BY <3>2, <4>2 DEF Pipe, Belongs
    <3>3. CASE spare[q] = Pipe(p[1], p[2])
      <4>1. spare[q] = IF state[q] = "rewire"
                         THEN Pipe(q[1], IF q[3] = "call" THEN at[q[1]] ELSE q[2]) ELSE None
        BY <2>1, <3>1 DEF WireOf, Alive
      <4>2. Pipe(p[1], p[2]) = Pipe(q[1], IF q[3] = "call" THEN at[q[1]] ELSE q[2])
        BY <3>3, <4>1 DEF Pipe, None
      <4> QED BY <4>2 DEF Pipe, Belongs
    <3> QED BY <3>1, <3>2, <3>3
  <2> QED BY <2>1, <2>2, <2>3, <2>4 DEF WireOf, HasSub
<1> QED BY <1>1, LinesAlways, WiresAlways, PTL

-----------------------------------------------------------------------------
(* The FIFO of a tidy script *)

Early == {"none", "analyze", "rewire", "execute"}

\* The FIFOs that processes open and write are their own.
OwnEnds(p) ==
    /\ opens[p] = None \/ (opens[p] = Fifo(p) /\ p[3] \in {"cmd", "sub"})
    /\ out[p][1] = "fifo" => p[3] = "sub" /\ out[p] = Fifo(p)
    /\ p[3] = "sub" /\ ~ HasSub(p) => state[p] = "none"

\* A command c and its substituted command open the FIFO together: until both
\* have, the name stands for that FIFO; then c reads it and the other writes it.
\* A command that is not found ends before c does.
OwnOf(c) ==
    /\ out[c][1] # "pipe"
    /\ state[Call(c[1])] \in Early => state[c] = "none"
    /\ state[c] \in {"none", "unlink", "mkfifo"} =>
          state[Sub(c)] = "none" /\ opens[c] = None /\ opens[Sub(c)] = None
    /\ state[c] = "mkfifo" => name = None
    /\ state[c] \in {"open", "opening"} =>
          /\ name = Fifo(c) /\ state[Sub(c)] \in {"open", "opening"}
          /\ state[c] = "opening" => state[Sub(c)] = "open"
          /\ opens[c] = IF state[c] = "opening" THEN Fifo(c) ELSE None
          /\ opens[Sub(c)] = IF state[Sub(c)] = "opening" THEN Fifo(c) ELSE None
    /\ state[c] \in {"exec", "runs", "ended"} => state[Sub(c)] \in {"exec", "runs", "ended"}
    /\ state[c] \in {"exec", "runs"} => in[c] = Fifo(c)
    /\ state[Sub(c)] \in {"exec", "runs"} => out[Sub(c)] = Fifo(c)
    /\ state[c] = "ended" /\ StageOf(c).sub = "missing" => state[Sub(c)] = "ended"

Owned == \A p \in Procs : OwnEnds(p) /\ (p[3] = "cmd" /\ HasSub(p) => OwnOf(p))

OwnInv == Tidy => Owned

\* In a tidy script the commands with a substitution are the last of their lines.
LEMMA TidyStages ==
    ASSUME ShellTypes, Tidy, NEW c \in Procs, c[3] = "cmd", HasSub(c)
    PROVE  /\ c[2] = Last(c[1]) /\ ~ script[c[1]].trailing /\ c[1] \in Lines
           /\ StageOf(c).sub = "runs" \/ StageOf(c).cmd = "filter"
           /\ StageOf(c).file = "none" /\ StageOf(c).sub \in {"runs", "missing"}
           /\ Sub(c) \in Procs /\ Sub(c)[3] = "sub" /\ Sub(c) # c /\ HasSub(Sub(c))
           /\ Sub(c)[1] = c[1] /\ Sub(c)[2] = c[2]
           /\ Fifo(Sub(c)) = Fifo(c) /\ StageOf(Sub(c)) = StageOf(c)
           /\ Call(c[1]) \in Procs /\ Call(c[1]) # c /\ Call(c[1]) # Sub(c)
<1>1. c[1] \in Lines /\ c[2] \in 1..Last(c[1])
  BY ProcsAre, LinesAre, SMTT(30)
<1>2. c[2] = Last(c[1]) /\ ~ script[c[1]].trailing /\ (StageOf(c).sub = "runs" \/ StageOf(c).cmd = "filter")
  BY <1>1 DEF Tidy, HasSub, StageOf
<1>3. StageOf(c) \in Stages
  BY <1>1, LinesAre, ElementOfSeq DEF StageOf, Last
<1>4. StageOf(c).file = "none" /\ StageOf(c).sub \in {"runs", "missing"}
  BY <1>3 DEF Stages, Subs, HasSub
<1>5. Sub(c) \in Procs /\ Sub(c)[3] = "sub" /\ Sub(c)[1] = c[1] /\ Sub(c)[2] = c[2]
  BY ItsSub
<1>6. Fifo(Sub(c)) = Fifo(c) /\ StageOf(Sub(c)) = StageOf(c)
  BY <1>5 DEF Fifo, StageOf
<1>7. Call(c[1]) \in Procs /\ Call(c[1])[3] = "call"
  BY <1>1, ProcsAre DEF Call
<1> QED BY <1>1, <1>2, <1>4, <1>5, <1>6, <1>7 DEF HasSub

\* Only the command of the line that the shell waits for is at work.
LEMMA AtWork ==
    ASSUME ShellTypes, CallInv, LineInv, Tidy, NEW c \in Procs, c[3] = "cmd", HasSub(c), Alive(c)
    PROVE  shell = "waits" /\ c = <<line, Last(line), "cmd">>
<1>1. /\ c[2] = Last(c[1]) /\ ~ script[c[1]].trailing /\ c[1] \in Lines /\ c = <<c[1], c[2], c[3]>>
      /\ Call(c[1]) \in Procs
  BY TidyStages, ProcsAre
<1>2. state[Call(c[1])] = "waitpid"
  BY <1>1 DEF CallInv
<1>3. ~ (c[1] < line) /\ ~ (c[1] > line) /\ ~ (c[1] = line /\ shell # "waits")
  BY <1>1, <1>2 DEF LineInv, Alive
<1>4. c[1] = line
  BY <1>1, <1>3, LinesAre DEF ShellTypes
<1> QED BY <1>1, <1>3, <1>4

\* A step that leaves a command and its substituted command alone, and the name
\* too if they need it.
Fixed(p) == state'[p] = state[p] /\ in'[p] = in[p] /\ out'[p] = out[p] /\ opens'[p] = opens[p]

\* A substitution that a step leaves alone stays in its phase.
LEMMA OwnStill ==
    ASSUME NEW c, UNCHANGED script, OwnOf(c), Fixed(c), Fixed(Sub(c)),
           state'[Call(c[1])] \in Early => state[Call(c[1])] \in Early,
           name' = name \/ state[c] \notin {"mkfifo", "open", "opening"}
    PROVE  OwnOf(c)'
<1>1. StageOf(c)' = StageOf(c)
  BY SameScript
<1> QED BY <1>1 DEF OwnOf, Fixed, Fifo, None

\* A process that a step leaves alone keeps its FIFO.
LEMMA EndsStill ==
    ASSUME NEW p, UNCHANGED script, OwnEnds(p), Fixed(p)
    PROVE  OwnEnds(p)'
<1>1. HasSub(p)' <=> HasSub(p)
  BY SameScript DEF HasSub
<1> QED BY <1>1 DEF OwnEnds, Fixed, Fifo, None

\* At first there is no FIFO.
LEMMA OwnInit == Init => OwnInv
<1> SUFFICES ASSUME Init, Tidy PROVE Owned
  BY DEF OwnInv
<1>1. ShellTypes
  BY TypesInit
<1>2. \A p \in Procs : state[p] = "none" /\ in[p] = Terminal /\ out[p] = Terminal /\ opens[p] = None
  BY DEF Init
<1>3. \A c \in Procs : c[3] = "cmd" => Sub(c) \in Procs
  BY <1>1, ItsSub
<1>4. Terminal[1] \notin {"pipe", "fifo"}
  BY DEF Terminal
<1> QED BY <1>2, <1>3, <1>4 DEF Owned, OwnEnds, OwnOf

\* The shell removes the FIFO when no command is at work.
LEMMA OwnShell == ShellTypes /\ CallInv /\ LineInv /\ OwnInv /\ ShellStep => OwnInv'
<1> SUFFICES ASSUME ShellTypes, CallInv, LineInv, OwnInv, ShellStep PROVE OwnInv'
  OBVIOUS
<1>1. /\ UNCHANGED <<script, at, in, out, opens>>
      /\ name' = name \/ (name' = None /\ shell = "reads")
  BY DEF ShellStep, ReadLine, NextLine, EndOfScript
<1>2. Procs' = Procs /\ (Tidy' <=> Tidy) /\ \A p : HasSub(p)' <=> HasSub(p)
  BY <1>1, SameScript DEF HasSub
<1>3. SUFFICES ASSUME Tidy PROVE Owned'
  BY <1>2 DEF OwnInv
<1>4. state' = state \/ (line \in Lines /\ Goto(Call(line), "none", "analyze"))
  BY LinesAre DEF ShellStep, ReadLine, NextLine, EndOfScript, ShellTypes
<1>5. /\ \A p \in Procs : p[3] # "call" => state'[p] = state[p]
      /\ \A p \in Procs : state'[p] \in Early => state[p] \in Early
  BY <1>4 DEF Goto, ShellTypes, Call, Early
<1>6. ASSUME NEW p \in Procs PROVE OwnEnds(p)'
  <2>1. OwnEnds(p)
    BY <1>3 DEF OwnInv, Owned
  <2> QED BY <1>1, <1>2, <1>5, <2>1 DEF OwnEnds, Fifo, None
<1>7. ASSUME NEW c \in Procs, c[3] = "cmd", HasSub(c) PROVE OwnOf(c)'
  <2>1. OwnOf(c)
    BY <1>3, <1>7 DEF OwnInv, Owned
  <2>2. Sub(c) \in Procs /\ Sub(c)[3] = "sub" /\ Call(c[1]) \in Procs
    BY <1>3, <1>7, TidyStages
  <2>3. Fixed(c) /\ Fixed(Sub(c))
    BY <1>1, <1>5, <1>7, <2>2 DEF Fixed
  <2>4. name' = name \/ state[c] \notin {"mkfifo", "open", "opening"}
    BY <1>1, <1>3, <1>7, AtWork DEF Alive
  <2> QED BY <1>1, <1>5, <2>1, <2>2, <2>3, <2>4, OwnStill
<1> QED BY <1>2, <1>6, <1>7 DEF Owned

\* Nor do the processes of lines and their splits touch a FIFO.
LEMMA OwnLine ==
    ASSUME ShellTypes, WireInv, OwnInv, NEW l \in Lines,
           Split(l) \/ RewireCall(l) \/ RewireNothing(l) \/ Simple(l)
    PROVE  OwnInv'
<1>1. /\ Call(l) \in Procs /\ Call(l)[1] = l /\ Call(l)[3] = "call"
      /\ state[Call(l)] \in {"analyze", "rewire"}
      /\ \A q \in Procs : q # Call(l) /\ q # HeadOf(l, at[l]) => state'[q] = state[q]
      /\ UNCHANGED script /\ HeadOf(l, at[l])[3] = "head"
  BY LineMoves DEF HeadOf
<1>2. UNCHANGED <<name, opens>>
  BY DEF Split, RewireCall, RewireNothing, Simple
<1>3. Procs' = Procs /\ (Tidy' <=> Tidy) /\ \A p : HasSub(p)' <=> HasSub(p)
  BY <1>1, SameScript DEF HasSub
<1>4. SUFFICES ASSUME Tidy PROVE Owned'
  BY <1>3 DEF OwnInv
<1>5. /\ in \in [Procs -> Channels] /\ out \in [Procs -> Channels]
      /\ out[Call(l)] = Terminal
  BY <1>1 DEF ShellTypes, WireInv, WireOf
<1>6. \A q \in Procs : q[3] \in {"cmd", "sub"} => Fixed(q)
  <2>1. CASE Split(l)
    BY <1>1, <1>2, <1>5, <2>1 DEF Split, Fixed, HeadOf
  <2>2. CASE RewireCall(l) \/ RewireNothing(l) \/ Simple(l)
    BY <1>1, <1>2, <1>5, <2>2 DEF RewireCall, RewireNothing, Simple, Fixed
  <2> QED BY <2>1, <2>2
<1>7. \A q \in Procs : out'[q] \in {out[q], Terminal}
  <2>1. CASE Split(l)
    BY <1>1, <1>5, <2>1 DEF Split, HeadOf
  <2>2. CASE RewireCall(l) \/ RewireNothing(l) \/ Simple(l)
    BY <2>2 DEF RewireCall, RewireNothing, Simple
  <2> QED BY <2>1, <2>2
<1>8. ASSUME NEW p \in Procs PROVE OwnEnds(p)'
  <2>1. OwnEnds(p)
    BY <1>4 DEF OwnInv, Owned
  <2>2. p[3] = "sub" => state'[p] = state[p]
    BY <1>6 DEF Fixed
  <2>3. Terminal[1] # "fifo"
    BY DEF Terminal
  <2> QED BY <1>2, <1>3, <1>7, <2>1, <2>2, <2>3 DEF OwnEnds, Fifo, None
<1>9. ASSUME NEW c \in Procs, c[3] = "cmd", HasSub(c) PROVE OwnOf(c)'
  <2>1. OwnOf(c)
    BY <1>4, <1>9 DEF OwnInv, Owned
  <2>2. Sub(c) \in Procs /\ Sub(c)[3] = "sub" /\ Call(c[1]) \in Procs /\ Call(c[1])[3] = "call"
    BY <1>4, <1>9, TidyStages DEF Call
  <2>3. Fixed(c) /\ Fixed(Sub(c))
    BY <1>6, <1>9, <2>2
  <2>4. state'[Call(c[1])] \in Early => state[Call(c[1])] \in Early
    BY <1>1, <2>2 DEF Early
  <2> QED BY <1>1, <1>2, <2>1, <2>3, <2>4, OwnStill
<1> QED BY <1>3, <1>8, <1>9 DEF Owned

\* A process that opens the FIFO finds its own.
LEMMA NameOf ==
    ASSUME ShellTypes, WireInv, Owned, Tidy, NEW p \in Procs, state[p] \in {"open", "opening"}
    PROVE  /\ name = Fifo(p) /\ name # None /\ p[3] \in {"cmd", "sub"}
           /\ \E c \in Procs : c[3] = "cmd" /\ HasSub(c) /\ p \in {c, Sub(c)}
                              /\ state[c] \in {"open", "opening"}
<1>1. p[3] \in {"cmd", "sub"}
  BY Whereabouts
<1>2. HasSub(p)
  BY <1>1 DEF WireInv, WireOf, Owned, OwnEnds
<1>3. PICK c \in Procs : c[3] = "cmd" /\ HasSub(c) /\ p \in {c, Sub(c)} /\ Fifo(p) = Fifo(c)
  <2>1. CASE p[3] = "cmd"
    BY <1>2, <2>1
  <2>2. CASE p[3] = "sub"
    <3>1. Command(p) \in Procs /\ Command(p)[3] = "cmd"
      BY <2>2, ItsSub
    <3>2. Sub(Command(p)) = p /\ Fifo(Command(p)) = Fifo(p) /\ HasSub(Command(p))
      BY <1>2, <2>2, ProcsAre DEF Sub, Command, Fifo, HasSub, StageOf
    <3> QED BY <3>1, <3>2
  <2> QED BY <1>1, <2>1, <2>2
<1>4. OwnOf(c) /\ state[c] \in StatesOf(c[3])
  BY <1>3 DEF Owned, ShellTypes
<1>5. state[c] \in {"open", "opening"}
  BY <1>3, <1>4, Whereabouts DEF OwnOf
<1>6. name = Fifo(c) /\ Fifo(c) # None
  BY <1>4, <1>5 DEF OwnOf, Fifo, None
<1> QED BY <1>1, <1>3, <1>5, <1>6

\* Where the ends of a process go when a command, or a process that runs one,
\* takes a step.
LEMMA EndsMove ==
    ASSUME ShellTypes, CallInv, WireInv, Owned, Tidy, NEW p \in Procs, NEW q \in Procs,
           \/ RewireHead(p) \/ Execute(p) \/ Return(p) \/ Unlink(p) \/ Mkfifo(p)
           \/ OpenFails(p) \/ OpenWaits(p) \/ OpenReturns(p) \/ Exec(p) \/ ExecFails(p) \/ End(p)
    PROVE  OwnEnds(q)'
<1>1. UNCHANGED script /\ OwnEnds(q) /\ \A r \in Procs : OwnEnds(r) /\ WireOf(r)
  BY ProcessMoves DEF Owned, WireInv
<1>2. \A r : HasSub(r)' <=> HasSub(r)
  BY <1>1, SameScript DEF HasSub
<1>3. /\ state \in [Procs -> States] /\ in \in [Procs -> Channels] /\ out \in [Procs -> Channels]
      /\ opens \in [Procs -> Channels]
  BY DEF ShellTypes
<1> USE DEF Goto
<1>4. SUFFICES ASSUME ~ Fixed(q) PROVE OwnEnds(q)'
  BY <1>1, EndsStill
<1>5. q[3] \in {"call", "head", "cmd", "sub"}
  BY Whereabouts
<1>6. CASE RewireHead(p)
  <2>1. /\ q = p /\ p[3] = "head" /\ state[p] = "rewire" /\ out'[q] = spare[p] /\ opens'[q] = opens[q]
    BY <1>3, <1>4, <1>6 DEF RewireHead, Fixed
  <2>2. out'[q][1] = "pipe"
    <3>1. spare[p] = Pipe(p[1], p[2])
      BY <1>1, <2>1 DEF WireOf
    <3> QED BY <2>1, <3>1 DEF Pipe
  <2> QED BY <1>1, <2>1, <2>2 DEF OwnEnds, Fifo, None
<1>7. CASE Execute(p)
  <2>1. PICK c \in Procs : c = StageAt(p) /\ c[3] = "cmd" /\ p[3] \in {"call", "head"}
    BY <1>7, ItsCommand, ProcsAre DEF Execute, CallInv
  <2>2. opens' = opens /\ q[3] # "sub" /\ (out'[q] = out[q] \/ out'[q] = out[p])
    BY <1>3, <1>4, <1>7, <2>1 DEF Execute, Fixed
  <2>3. out'[q][1] # "fifo"
    BY <1>1, <2>1, <2>2 DEF OwnEnds
  <2> QED BY <1>1, <2>2, <2>3 DEF OwnEnds, Fifo, None
<1>8. CASE Return(p) \/ Unlink(p) \/ OpenFails(p) \/ ExecFails(p) \/ End(p)
  <2>1. q = p /\ opens' = opens /\ out' = out /\ state[q] # "none"
    BY <1>3, <1>4, <1>8 DEF Return, Unlink, OpenFails, ExecFails, End, Fixed
  <2> QED BY <1>1, <1>2, <2>1 DEF OwnEnds, Fifo, None
<1>9. CASE Mkfifo(p)
  <2>1. PICK u \in Procs : u = Sub(p) /\ u[3] = "sub" /\ p[3] = "cmd" /\ HasSub(u)
    <3>1. p[3] = "cmd" /\ HasSub(p)
      BY <1>1, <1>9, Whereabouts DEF Mkfifo, WireOf
    <3> QED BY <3>1, TidyStages
  <2>2. opens' = opens /\ ((q = p /\ out'[q] = out[q]) \/ (q = u /\ out'[q] = out[p]))
    BY <1>3, <1>4, <1>9, <2>1 DEF Mkfifo, Fixed
  <2>3. out'[q][1] # "fifo"
    BY <1>1, <2>1, <2>2 DEF OwnEnds
  <2> QED BY <1>1, <1>2, <2>1, <2>2, <2>3 DEF OwnEnds, Fifo, None
<1>10. CASE OpenWaits(p) \/ OpenReturns(p)
  <2>1. /\ state[p] = "open" /\ state[q] \in {"open", "opening"}
        /\ opens'[q] = opens[q] \/ (q = p /\ opens'[q] = name)
        /\ out'[q] = out[q] \/ (q[3] = "sub" /\ out'[q] = name /\ (q = p \/ opens[q] = name) /\ name # None)
    BY <1>3, <1>4, <1>10 DEF OpenWaits, OpenReturns, Others, Fixed
  <2>2. p[3] \in {"cmd", "sub"} /\ q[3] \in {"cmd", "sub"}
    BY <2>1, Whereabouts
  <2>3. name = Fifo(p)
    BY <1>10, <2>1, <2>2, NameOf
  <2>4. q[3] = "sub" => HasSub(q)
    BY <1>1, <2>1 DEF OwnEnds
  <2>5. out'[q] = out[q] \/ (q[3] = "sub" /\ out'[q] = Fifo(q))
    <3>1. opens[q] = name /\ name # None => name = Fifo(q)
      BY <1>1 DEF OwnEnds
    <3> QED BY <2>1, <2>3, <3>1
  <2> QED BY <1>1, <1>2, <2>1, <2>2, <2>3, <2>4, <2>5 DEF OwnEnds, Fifo, None
<1>11. CASE Exec(p)
  <2>1. /\ q = p /\ opens' = opens /\ state[q] # "none"
        /\ out'[q] = out[q] \/ out'[q] = File
    BY <1>3, <1>4, <1>11 DEF Exec, Fixed
  <2>2. File[1] # "fifo"
    BY DEF File
  <2> QED BY <1>1, <1>2, <2>1, <2>2 DEF OwnEnds, Fifo, None
<1> QED BY <1>6, <1>7, <1>8, <1>9, <1>10, <1>11

\* A command that is not found, and removes the FIFO, is at work or is what a
\* command at work substitutes.
LEMMA Removes ==
    ASSUME ShellTypes, WireInv, Owned, Tidy, NEW p \in Procs, state[p] = "exec", ~ Exists(p),
           Substitutes(p), p[3] \in {"cmd", "sub"}
    PROVE  \E d \in Procs : d[3] = "cmd" /\ HasSub(d) /\ p \in {d, Sub(d)} /\ Alive(d)
<1>1. CASE p[3] = "cmd"
  BY <1>1 DEF Substitutes, HasSub, Alive
<1>2. CASE p[3] = "sub"
  <2>1. HasSub(p)
    BY <1>2 DEF Owned, OwnEnds
  <2>2. PICK d \in Procs : d = Command(p) /\ d[3] = "cmd"
    BY <1>2, ItsSub
  <2>3. Sub(d) = p /\ StageOf(d) = StageOf(p)
    BY <1>2, <2>2, ProcsAre DEF Sub, Command, StageOf
  <2>4. HasSub(d) /\ StageOf(d).sub = "missing"
    <3>1. HasSub(d)
      BY <2>1, <2>3 DEF HasSub
    <3> QED BY <1>2, <2>2, <2>3, <3>1, TidyStages DEF Exists
  <2>5. OwnOf(d)
    BY <2>2, <2>4 DEF Owned
  <2>6. state[d] \in {"exec", "runs"}
    BY <2>2, <2>3, <2>4, <2>5, Whereabouts DEF OwnOf
  <2> QED BY <2>2, <2>3, <2>4, <2>6 DEF Alive
<1> QED BY <1>1, <1>2

\* The opening of a FIFO: whoever comes second finds the other waiting.
LEMMA PhaseOpens ==
    ASSUME ShellTypes, WireInv, Owned, Tidy, NEW p \in Procs, NEW c \in Procs, c[3] = "cmd", HasSub(c),
           p \in {c, Sub(c)}, OpenWaits(p) \/ OpenReturns(p)
    PROVE  OwnOf(c)'
<1>1. PICK u \in Procs : u = Sub(c) /\ u[3] = "sub" /\ u # c /\ u[1] = c[1] /\ u[2] = c[2]
                         /\ Call(c[1]) \in Procs /\ Call(c[1])[3] = "call" /\ Fifo(u) = Fifo(c)
  BY TidyStages DEF Call
<1>2. OwnOf(c) /\ OwnEnds(u) /\ OwnEnds(c) /\ \A q \in Procs : OwnEnds(q)
  BY DEF Owned
<1>3. /\ state \in [Procs -> States] /\ in \in [Procs -> Channels] /\ out \in [Procs -> Channels]
      /\ opens \in [Procs -> Channels]
  BY DEF ShellTypes
<1>4. UNCHANGED <<script, name>> /\ state[p] = "open" /\ name # None
  BY DEF OpenWaits, OpenReturns, Goto
<1>5. StageOf(c)' = StageOf(c)
  BY <1>4, SameScript
<1>6. /\ name = Fifo(c) /\ state[c] \in {"open", "opening"} /\ state[u] \in {"open", "opening"}
      /\ state[c] = "opening" => state[u] = "open"
      /\ opens[c] = IF state[c] = "opening" THEN Fifo(c) ELSE None
      /\ opens[u] = IF state[u] = "opening" THEN Fifo(c) ELSE None
  <2>1. state[c] \in {"open", "opening"}
    BY <1>1, <1>2, <1>4, Whereabouts DEF OwnOf
  <2> QED BY <1>1, <1>2, <2>1 DEF OwnOf
\* the other side of the FIFO
<1>7. PICK o \in Procs : {p, o} = {c, u} /\ o # p /\ o[3] # p[3]
  BY <1>1
<1>8. \A q \in Others(p) : q = o
  <2> SUFFICES ASSUME NEW q \in Others(p) PROVE q = o
    OBVIOUS
  <2>1. q \in Procs /\ q[3] # p[3] /\ opens[q] = name
    BY DEF Others
  <2>2. opens[q] = Fifo(q) /\ q[3] \in {"cmd", "sub"}
    BY <1>2, <1>4, <2>1 DEF OwnEnds
  <2>3. q[1] = c[1] /\ q[2] = c[2]
    BY <1>6, <2>1, <2>2 DEF Fifo
  <2>4. q[3] = o[3]
    BY <1>1, <1>7, <2>1, <2>2
  <2>5. o \in Procs /\ o[1] = c[1] /\ o[2] = c[2]
    <3>1. o = c \/ o = u
      BY <1>7
    <3> QED BY <1>1, <3>1
  <2>6. q = <<q[1], q[2], q[3]>> /\ o = <<o[1], o[2], o[3]>>
    BY <2>1, <2>5, ProcsAre
  <2> QED BY <2>3, <2>4, <2>5, <2>6
<1>9. o \in Others(p) <=> state[o] = "opening"
  <2>1. state[o] \in {"open", "opening"} /\ opens[o] = IF state[o] = "opening" THEN name ELSE None
    BY <1>6, <1>7
  <2> QED BY <1>4, <1>7, <2>1 DEF Others, Alive
<1>10. out[c][1] # "pipe" /\ state[Call(c[1])] \notin Early
  BY <1>2, <1>6 DEF OwnOf
<1>11. CASE OpenWaits(p)
  <2>1. state[o] = "open"
    BY <1>6, <1>7, <1>9, <1>11 DEF OpenWaits
  <2>2. /\ state'[p] = "opening" /\ opens'[p] = name /\ state'[o] = "open" /\ opens'[o] = None
        /\ out'[c] = out[c] /\ state'[Call(c[1])] = state[Call(c[1])]
    BY <1>1, <1>3, <1>6, <1>7, <1>11, <2>1 DEF OpenWaits, Goto
  <2>3. /\ state'[c] \in {"open", "opening"} /\ state'[u] \in {"open", "opening"}
        /\ state'[c] = "opening" => state'[u] = "open"
        /\ opens'[c] = IF state'[c] = "opening" THEN Fifo(c) ELSE None
        /\ opens'[u] = IF state'[u] = "opening" THEN Fifo(c) ELSE None
    BY <1>6, <1>7, <2>2
  <2> HIDE <1>7
  <2> QED BY <1>1, <1>4, <1>6, <1>10, <2>2, <2>3 DEF OwnOf, None, Fifo
<1>12. CASE OpenReturns(p)
  <2>1. o \in Others(p) /\ state[o] = "opening"
    BY <1>8, <1>9, <1>12 DEF OpenReturns
  <2>2. {p} \cup {q \in Others(p) : state[q] = "opening"} = {c, u}
    BY <1>7, <1>8, <2>1
  <2>3. /\ state' = [q \in Procs |-> IF q \in {c, u} THEN "exec" ELSE state[q]]
        /\ in' = [q \in Procs |-> IF q \in {c, u} /\ q[3] = "cmd" THEN name ELSE in[q]]
        /\ out' = [q \in Procs |-> IF q \in {c, u} /\ q[3] = "sub" THEN name ELSE out[q]]
    BY <1>12, <2>2 DEF OpenReturns
  <2>4. /\ state'[c] = "exec" /\ state'[u] = "exec" /\ in'[c] = Fifo(c) /\ out'[u] = Fifo(c)
        /\ out'[c] = out[c] /\ state'[Call(c[1])] = state[Call(c[1])]
    BY <1>1, <1>6, <2>3
  <2> QED BY <1>1, <1>10, <2>4 DEF OwnOf, None, Fifo
<1> QED BY <1>11, <1>12

\* Each step of a command, of what it substitutes or of another one.
LEMMA PhaseMoves ==
    ASSUME ShellTypes, CallInv, LineInv, WireInv, Owned, Tidy, NEW p \in Procs,
           NEW c \in Procs, c[3] = "cmd", HasSub(c),
           \/ RewireHead(p) \/ Execute(p) \/ Return(p) \/ Unlink(p) \/ Mkfifo(p)
           \/ OpenFails(p) \/ OpenWaits(p) \/ OpenReturns(p) \/ Exec(p) \/ ExecFails(p) \/ End(p)
    PROVE  OwnOf(c)'
<1>1. PICK u \in Procs : u = Sub(c) /\ u[3] = "sub" /\ u # c /\ u[1] = c[1] /\ u[2] = c[2]
                         /\ Call(c[1]) \in Procs /\ Call(c[1])[3] = "call" /\ Fifo(u) = Fifo(c)
                         /\ c[1] \in Lines
  BY TidyStages DEF Call
<1>2. /\ c[2] = Last(c[1]) /\ ~ script[c[1]].trailing
      /\ StageOf(c).sub = "runs" \/ StageOf(c).cmd = "filter"
      /\ StageOf(c).file = "none" /\ StageOf(c).sub # "none" /\ StageOf(u) = StageOf(c)
  BY <1>1, TidyStages DEF HasSub
<1>3. OwnOf(c) /\ OwnEnds(c) /\ WireOf(c) /\ \A q \in Procs : OwnEnds(q) /\ WireOf(q)
  BY DEF Owned, WireInv
<1>4. /\ state \in [Procs -> States] /\ in \in [Procs -> Channels] /\ out \in [Procs -> Channels]
      /\ opens \in [Procs -> Channels]
  BY DEF ShellTypes
<1>5. UNCHANGED script /\ StageOf(c)' = StageOf(c) /\ Alive(p)
  BY ProcessMoves, SameScript
<1>6. state'[Call(c[1])] \in Early => state[Call(c[1])] \in Early
  BY <1>1, CallMoves DEF Early
\* whether another command is at work or this one
<1>7. ASSUME NEW d \in Procs, d[3] = "cmd", HasSub(d), Alive(d), d # c
      PROVE  state[c] \notin {"mkfifo", "open", "opening"}
  BY <1>7, AtWork DEF Alive
<1> USE DEF Goto
<1>8. CASE RewireHead(p) \/ Return(p)
  <2>1. p[3] \notin {"cmd", "sub"}
    BY <1>8, Whereabouts DEF RewireHead, Return
  <2>2. Fixed(c) /\ Fixed(u) /\ name' = name
    BY <1>1, <1>4, <1>8, <2>1 DEF RewireHead, Return, Fixed
  <2> QED BY <1>1, <1>3, <1>5, <1>6, <2>2, OwnStill
<1>9. CASE Execute(p)
  <2>1. PICK e \in Procs : /\ e = StageAt(p) /\ e[3] = "cmd" /\ e[1] = p[1]
                           /\ e[2] = IF p[3] = "call" THEN Last(p[1]) ELSE p[2]
                           /\ p[3] \in {"call", "head"}
    BY <1>9, ItsCommand, ProcsAre DEF Execute, CallInv
  <2>2. opens' = opens /\ name' = name /\ state[p] = "execute" /\ Fixed(u)
    BY <1>1, <1>4, <1>9, <2>1 DEF Execute, Fixed
  <2>3. CASE e # c \/ StageOf(e).cmd = "empty"
    <3>1. Fixed(c)
      BY <1>4, <1>9, <2>1, <2>3 DEF Execute, Fixed
    <3> QED BY <1>1, <1>3, <1>5, <1>6, <2>2, <3>1, OwnStill
  <2>4. CASE e = c /\ StageOf(e).cmd # "empty"
    <3>1. p = Call(c[1])
      <4>1. p[3] = "head" => More(p[1], p[2])
        BY <2>2 DEF CallInv
      <4>2. Last(c[1]) \in Nat
        BY <1>1, LinesAre
      <4>3. p[3] = "call"
        BY <1>2, <2>1, <2>4, <4>1, <4>2 DEF More
      <4> QED BY <2>1, <2>4, <4>3, ProcsAre
    <3>2. state[c] = "none"
      BY <1>3, <2>2, <3>1 DEF OwnOf, Early
    <3>3. state'[c] = "unlink" /\ state'[p] = "waitpid" /\ out'[c] = out[p]
      BY <1>2, <1>4, <1>9, <2>1, <2>4 DEF Execute
    <3>4. out'[c][1] # "pipe"
      BY <1>1, <1>3, <3>1, <3>3 DEF WireOf, Terminal
    <3>5. state[u] = "none" /\ opens[c] = None /\ opens[u] = None
      BY <1>1, <1>3, <3>2 DEF OwnOf
    <3> QED BY <1>1, <2>2, <3>1, <3>3, <3>4, <3>5 DEF OwnOf, Fixed, Early, None
  <2> QED BY <2>3, <2>4
<1>10. CASE Unlink(p)
  <2>1. /\ p[3] = "cmd" /\ HasSub(p) /\ state[p] = "unlink" /\ name' = None
        /\ state' = [state EXCEPT ![p] = "mkfifo"] /\ UNCHANGED <<in, out, opens>>
    BY <1>3, <1>10 DEF Unlink, WireOf
  <2>2. CASE p # c
    <3>1. Fixed(c) /\ Fixed(u)
      BY <1>1, <1>4, <2>1, <2>2 DEF Fixed
    <3>2. state[c] \notin {"mkfifo", "open", "opening"}
      BY <1>5, <1>7, <2>1, <2>2
    <3> QED BY <1>1, <1>3, <1>5, <1>6, <3>1, <3>2, OwnStill
  <2>3. CASE p = c
    <3>1. state'[c] = "mkfifo" /\ state'[u] = state[u]
      BY <1>1, <1>4, <2>1, <2>3
    <3>2. state[Call(c[1])] \notin Early /\ state'[Call(c[1])] \notin Early
      BY <1>3, <1>6, <2>1, <2>3 DEF OwnOf
    <3>3. state[u] = "none" /\ opens[c] = None /\ opens[u] = None /\ out[c][1] # "pipe"
      BY <1>1, <1>3, <2>1, <2>3 DEF OwnOf
    <3> QED BY <1>1, <2>1, <3>1, <3>2, <3>3 DEF OwnOf, None
  <2> QED BY <2>2, <2>3
<1>11. CASE Mkfifo(p)
  <2>1. p[3] = "cmd" /\ HasSub(p) /\ state[p] = "mkfifo" /\ opens' = opens
    BY <1>3, <1>11, Whereabouts DEF Mkfifo, WireOf
  <2>2. PICK v \in Procs : v = Sub(p) /\ v[3] = "sub" /\ v # p
    BY <2>1, TidyStages
  <2>3. /\ state' = [state EXCEPT ![p] = "open", ![v] = "open"]
        /\ in' = [in EXCEPT ![v] = in[p]] /\ out' = [out EXCEPT ![v] = out[p]]
        /\ name' = IF name = None THEN Fifo(p) ELSE name
    BY <1>11, <2>2 DEF Mkfifo
  <2>4. CASE p # c
    <3>1. u # v
      BY <1>1, <2>1, <2>2, <2>4, ProcsAre DEF Sub
    <3>2. Fixed(c) /\ Fixed(u)
      BY <1>1, <1>4, <2>1, <2>2, <2>3, <2>4, <3>1 DEF Fixed
    <3>3. state[c] \notin {"mkfifo", "open", "opening"}
      BY <1>5, <1>7, <2>1, <2>4
    <3> QED BY <1>1, <1>3, <1>5, <1>6, <3>2, <3>3, OwnStill
  <2>5. CASE p = c
    <3>1. u = v
      BY <1>1, <2>2, <2>5
    <3>2. state'[c] = "open" /\ state'[u] = "open" /\ out'[c] = out[c]
      BY <1>1, <1>4, <2>3, <2>5, <3>1
    <3>3. /\ state[Call(c[1])] \notin Early /\ name = None
          /\ opens[c] = None /\ opens[u] = None /\ out[c][1] # "pipe"
      BY <1>1, <1>3, <2>1, <2>5 DEF OwnOf, Early
    <3>4. name' = Fifo(c)
      BY <2>3, <2>5, <3>3
    <3>5. state'[Call(c[1])] \notin Early
      BY <1>6, <3>3
    <3> QED BY <1>1, <2>1, <3>2, <3>3, <3>4, <3>5 DEF OwnOf, None, Fifo
  <2> QED BY <2>4, <2>5
<1>12. CASE OpenFails(p)
  BY <1>12, NameOf DEF OpenFails
<1>13. CASE OpenWaits(p) \/ OpenReturns(p)
  <2>1. CASE p \in {c, u}
    BY <1>1, <1>13, <2>1, PhaseOpens
  <2>2. CASE p \notin {c, u}
    <3>1. state[p] = "open"
      BY <1>13 DEF OpenWaits, OpenReturns
    <3>2. PICK d \in Procs : d[3] = "cmd" /\ HasSub(d) /\ p \in {d, Sub(d)} /\ state[d] \in {"open", "opening"}
      BY <3>1, NameOf
    <3>3. d # c /\ Alive(d)
      BY <1>1, <2>2, <3>2 DEF Alive
    <3>4. state[c] \notin {"mkfifo", "open", "opening"}
      BY <1>7, <3>2, <3>3
    <3>5. state[u] \notin {"open", "opening"}
      BY <1>1, <1>3, <3>4, Whereabouts DEF OwnOf
    <3>6. Fixed(c) /\ Fixed(u) /\ name' = name
      BY <1>1, <1>4, <1>13, <2>2, <3>4, <3>5 DEF OpenWaits, OpenReturns, Others, Fixed
    <3> QED BY <1>1, <1>3, <1>5, <1>6, <3>6, OwnStill
  <2> QED BY <2>1, <2>2
<1>14. CASE Exec(p)
  <2>1. /\ state[p] = "exec" /\ state' = [state EXCEPT ![p] = "runs"] /\ UNCHANGED <<opens, name>>
        /\ in'[c] = in[c] /\ out'[c] = out[c] /\ out'[u] = out[u] /\ in'[u] = in[u]
    BY <1>1, <1>2, <1>4, <1>14 DEF Exec
  <2>2. CASE p \notin {c, u}
    <3>1. Fixed(c) /\ Fixed(u)
      BY <1>1, <1>4, <2>1, <2>2 DEF Fixed
    <3> QED BY <1>1, <1>3, <1>5, <1>6, <2>1, <3>1, OwnStill
  <2>3. CASE p \in {c, u}
    <3>1. /\ state'[c] = state[c] \/ (state[c] = "exec" /\ state'[c] = "runs")
          /\ state'[u] = state[u] \/ (state[u] = "exec" /\ state'[u] = "runs")
          /\ state[c] \in {"exec", "runs", "ended"} /\ (state[c] # state'[c] \/ state[u] # state'[u])
      <4>1. state[c] \in {"exec", "runs", "ended"}
        BY <1>1, <1>3, <2>1, <2>3, Whereabouts DEF OwnOf
      <4> QED BY <1>1, <1>4, <2>1, <2>3, <4>1
    <3> QED BY <1>1, <1>3, <1>5, <1>6, <2>1, <3>1 DEF OwnOf, Fifo, None
  <2> QED BY <2>2, <2>3
<1>15. CASE ExecFails(p)
  <2>1. /\ state[p] = "exec" /\ state' = [state EXCEPT ![p] = "ended"] /\ UNCHANGED <<in, out, opens>>
        /\ ~ Exists(p) /\ (name' = name \/ (name' = None /\ Substitutes(p)))
        /\ p[3] \in {"cmd", "sub"}
    BY <1>15, Whereabouts DEF ExecFails
  <2>2. CASE p \notin {c, u}
    <3>1. Fixed(c) /\ Fixed(u)
      BY <1>1, <1>4, <2>1, <2>2 DEF Fixed
    <3>2. name' = name \/ state[c] \notin {"mkfifo", "open", "opening"}
      BY <1>7, <2>1, <2>2, <1>1, Removes
    <3> QED BY <1>1, <1>3, <1>5, <1>6, <3>1, <3>2, OwnStill
  <2>3. CASE p = c
    <3>1. StageOf(c).sub = "runs"
      BY <1>2, <2>1, <2>3 DEF Exists
    <3>2. state'[c] = "ended" /\ state'[u] = state[u] /\ state[u] \in {"exec", "runs", "ended"}
      BY <1>1, <1>3, <1>4, <2>1, <2>3 DEF OwnOf
    <3>3. (state[u] \in {"exec", "runs"} => out[u] = Fifo(c)) /\ out[c][1] # "pipe"
      BY <1>1, <1>3 DEF OwnOf
    <3>4. state'[Call(c[1])] \notin Early
      BY <1>3, <1>6, <2>1, <2>3 DEF OwnOf
    <3> QED BY <1>1, <1>5, <2>1, <3>1, <3>2, <3>3, <3>4 DEF OwnOf, Fifo
  <2>4. CASE p = u
    <3>1. state[c] \in {"exec", "runs", "ended"}
      BY <1>1, <1>3, <2>1, <2>4, Whereabouts DEF OwnOf
    <3>2. state'[u] = "ended" /\ state'[c] = state[c]
      BY <1>1, <1>4, <2>1, <2>4
    <3>3. state[Call(c[1])] \notin Early /\ out[c][1] # "pipe" /\ (state[c] \in {"exec", "runs"} => in[c] = Fifo(c))
      BY <1>3, <3>1 DEF OwnOf
    <3>4. state'[Call(c[1])] \notin Early
      BY <1>6, <3>3
    <3> QED BY <1>1, <1>5, <2>1, <3>1, <3>2, <3>3, <3>4 DEF OwnOf, Fifo
  <2> QED BY <2>2, <2>3, <2>4
<1>16. CASE End(p)
  <2>1. /\ state[p] = "runs" /\ state' = [state EXCEPT ![p] = "ended"] /\ UNCHANGED <<in, out, opens, name>>
        /\ MayEnd(p)
    BY <1>16 DEF End
  <2>2. CASE p \notin {c, u}
    <3>1. Fixed(c) /\ Fixed(u)
      BY <1>1, <1>4, <2>1, <2>2 DEF Fixed
    <3> QED BY <1>1, <1>3, <1>5, <1>6, <2>1, <3>1, OwnStill
  <2>3. CASE p = c
    <3>1. state[u] \in {"exec", "runs", "ended"} /\ in[c] = Fifo(c) /\ out[c][1] # "pipe"
      BY <1>1, <1>3, <2>1, <2>3 DEF OwnOf
    <3>2. StageOf(c).sub = "missing" => state[u] = "ended"
      <4> SUFFICES ASSUME StageOf(c).sub = "missing", state[u] # "ended" PROVE FALSE
        OBVIOUS
      <4>1. u \in Writers(in[c])
        <5>1. out[u] = Fifo(c) /\ Alive(u)
          BY <1>1, <1>3, <3>1 DEF OwnOf, Alive
        <5> QED BY <1>1, <3>1, <5>1 DEF Writers
      <4>2. IsChannel(in[c])
        BY <3>1 DEF IsChannel, Fifo
      <4>3. ~ IsChannel(out[c])
        BY <1>1, <1>3, <3>1 DEF IsChannel, OwnEnds
      <4>4. StageOf(c).cmd = "filter"
        BY <1>2
      <4> QED BY <2>1, <2>3, <4>1, <4>2, <4>3, <4>4 DEF MayEnd, AtEof, Broken
    <3>3. state'[c] = "ended" /\ state'[u] = state[u]
      BY <1>1, <1>4, <2>1, <2>3
    <3>4. state'[Call(c[1])] \notin Early
      BY <1>3, <1>6, <2>1, <2>3 DEF OwnOf
    <3>5. state[u] \in {"exec", "runs"} => out[u] = Fifo(c)
      BY <1>1, <1>3 DEF OwnOf
    <3> QED BY <1>1, <1>5, <2>1, <3>1, <3>2, <3>3, <3>4, <3>5 DEF OwnOf, Fifo
  <2>4. CASE p = u
    <3>1. state[c] \in {"exec", "runs", "ended"}
      BY <1>1, <1>3, <2>1, <2>4, Whereabouts DEF OwnOf
    <3>2. state'[u] = "ended" /\ state'[c] = state[c]
      BY <1>1, <1>4, <2>1, <2>4
    <3>3. state[Call(c[1])] \notin Early /\ out[c][1] # "pipe" /\ (state[c] \in {"exec", "runs"} => in[c] = Fifo(c))
      BY <1>3, <3>1 DEF OwnOf
    <3>4. state'[Call(c[1])] \notin Early
      BY <1>6, <3>3
    <3> QED BY <1>1, <1>5, <2>1, <3>1, <3>2, <3>3, <3>4 DEF OwnOf, Fifo
  <2> QED BY <2>2, <2>3, <2>4
<1> QED BY <1>8, <1>9, <1>10, <1>11, <1>12, <1>13, <1>14, <1>15, <1>16

\* Every step keeps each substitution in its phase.
LEMMA OwnStep == LinesInv /\ WireInv /\ OwnInv /\ [Next]_vars => OwnInv'
<1> SUFFICES ASSUME LinesInv, WireInv, OwnInv, [Next]_vars PROVE OwnInv'
  OBVIOUS
<1>1. ShellTypes /\ CallInv /\ LineInv
  BY DEF LinesInv
<1>2. CASE ShellStep
  BY <1>1, <1>2, OwnShell
<1>3. CASE \E l \in Lines : Split(l) \/ RewireCall(l) \/ RewireNothing(l) \/ Simple(l)
  BY <1>1, <1>3, OwnLine
<1>4. Procs' = Procs /\ (Tidy' <=> Tidy) /\ \A p : HasSub(p)' <=> HasSub(p)
  BY ScriptKept, SameScript DEF HasSub
<1>5. CASE \E p \in Procs : \/ RewireHead(p) \/ Execute(p) \/ Return(p) \/ Unlink(p) \/ Mkfifo(p)
                            \/ OpenFails(p) \/ OpenWaits(p) \/ OpenReturns(p)
                            \/ Exec(p) \/ ExecFails(p) \/ End(p)
  <2> SUFFICES ASSUME Tidy PROVE Owned'
    BY <1>4 DEF OwnInv
  <2>1. Owned
    BY DEF OwnInv
  <2>2. \A q \in Procs : OwnEnds(q)'
    BY <1>1, <1>5, <2>1, EndsMove
  <2>3. \A c \in Procs : c[3] = "cmd" /\ HasSub(c) => OwnOf(c)'
    BY <1>1, <1>5, <2>1, PhaseMoves
  <2> QED BY <1>4, <2>2, <2>3 DEF Owned
<1>6. CASE UNCHANGED vars
  <2> SUFFICES ASSUME Tidy PROVE Owned'
    BY <1>4 DEF OwnInv
  <2>1. UNCHANGED script /\ (\A q : Fixed(q)) /\ state' = state /\ name' = name
    BY <1>6 DEF vars, Fixed
  <2>2. \A q \in Procs : OwnEnds(q)'
    BY <2>1, EndsStill DEF OwnInv, Owned
  <2>3. \A c \in Procs : c[3] = "cmd" /\ HasSub(c) => OwnOf(c)'
    BY <2>1, OwnStill DEF OwnInv, Owned
  <2> QED BY <1>4, <2>2, <2>3 DEF Owned
<1> QED BY <1>1, <1>2, <1>3, <1>5, <1>6, StepCases

\* What OwnOf says of each substitution holds in every run of every tidy script.
THEOREM OwnAlways == Spec => []OwnInv
<1>1. Init => OwnInv
  BY OwnInit
<1> QED BY <1>1, OwnStep, LinesAlways, WiresAlways, PTL DEF Spec

\* In a tidy script, though every FIFO has the same name and what an earlier line
\* started may still run, a command reads the FIFO that its own line made, and
\* nobody but the command it substitutes writes to it.
THEOREM OwnFed == Spec => []FedByOwn
<1>1. LinesInv /\ WireInv /\ OwnInv => FedByOwn
  <2> SUFFICES ASSUME LinesInv, WireInv, Owned, Tidy,
                      NEW p \in Procs, state[p] = "runs", p[3] = "cmd", Substitutes(p)
               PROVE  in[p] = Fifo(p) /\ Writers(in[p]) \subseteq {Sub(p)}
    BY DEF FedByOwn, OwnInv
  <2>1. ShellTypes /\ HasSub(p)
    BY DEF LinesInv, Substitutes, HasSub
  <2>2. in[p] = Fifo(p)
    BY <2>1 DEF Owned, OwnOf
  <2>3. ASSUME NEW q \in Writers(Fifo(p)) PROVE q = Sub(p)
    <3>1. q \in Procs /\ Alive(q) /\ Fifo(p) \in {out[q], spare[q]} /\ WireOf(q) /\ OwnEnds(q)
      BY DEF Writers, WireInv, Owned
    <3>2. spare[q] # Fifo(p)
      BY <3>1 DEF WireOf, Alive, Pipe, None, Fifo
    <3>3. out[q] = Fifo(p) /\ out[q][1] = "fifo"
      BY <3>1, <3>2 DEF Fifo
    <3>4. q[3] = "sub" /\ Fifo(q) = Fifo(p)
      BY <3>1, <3>3 DEF OwnEnds
    <3>5. q = <<q[1], q[2], q[3]>>
      BY <2>1, <3>1, ProcsAre
    <3> QED BY <3>4, <3>5 DEF Fifo, Sub
  <2> QED BY <2>2, <2>3
<1> QED BY <1>1, LinesAlways, WiresAlways, OwnAlways, PTL
=============================================================================
