------------------------------ MODULE MCShell ------------------------------
(***************************************************************************)
(* Instance of Shell for model checking: scripts of up to three lines, of  *)
(* up to three stages each.                                                *)
(***************************************************************************)
EXTENDS Shell

Stage(c, s, f) == [cmd |-> c, sub |-> s, file |-> f]
Line(k, st, t) == [kind |-> k, stages |-> st, trailing |-> t]

Cat == Stage("filter", "none", "none")
CatSub == Stage("filter", "runs", "none")
CatNoSub == Stage("filter", "missing", "none")
Ls == Stage("quits", "none", "none")
LsSub == Stage("quits", "runs", "none")
LsNoSub == Stage("quits", "missing", "none")
NoCat == Stage("missing", "none", "none")
NoCatSub == Stage("missing", "runs", "none")

Pipeline(st) == Line("pipeline", st, FALSE)
Quit == Line("quit", <<>>, FALSE)
Cd == Line("cd", <<>>, FALSE)

MCScripts == {
    <<Pipeline(<<Cat, Ls>>), Pipeline(<<CatSub>>)>>,
    <<Pipeline(<<Cat, Cat, Ls>>)>>,
    \* FIFOs of three lines, one after the other.
    <<Pipeline(<<LsSub>>), Pipeline(<<CatNoSub>>), Pipeline(<<CatSub>>)>>,
    \* The FIFO is removed late by a command that fails.
    <<Pipeline(<<LsNoSub>>), Pipeline(<<CatSub>>)>>,
    \* Two lines, and two stages, use the name at a time.
    <<Pipeline(<<CatSub, Cat>>), Pipeline(<<CatSub>>)>>,
    <<Pipeline(<<CatSub, CatSub>>)>>,
    <<Line("pipeline", <<Cat>>, TRUE), Pipeline(<<Cat>>), Quit>>,
    <<Cd, Pipeline(<<Stage("filter", "none", "in"), Stage("filter", "none", "out"), NoCat>>)>>,
    <<Pipeline(<<Stage("empty", "none", "none"), Cat>>), Pipeline(<<Cat, NoCatSub>>), Pipeline(<<CatSub>>)>> }
=============================================================================
