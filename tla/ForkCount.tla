----------------------------- MODULE ForkCount -----------------------------
(***************************************************************************)
(* src/lab1/processes.c: the parent counts its children by the SIGUSR1     *)
(* that each of them sends, and when all are counted ends the group with   *)
(* SIGUSR2, itself included.  SIGUSR1 is not queued: a second one that     *)
(* arrives before the first is caught is lost, so the parent forks a child *)
(* only when the one before has been counted.  The makefile does not       *)
(* optimise: the plain int flag is read in every round of the empty loop.  *)
(***************************************************************************)
EXTENDS Integers, FiniteSets

CONSTANTS
    Totals,        \* the numbers of children asked for, any integers
    FORK_FAILS     \* whether fork may fail

VARIABLES
    total, count, flag,
    pc, i,         \* where the parent is, and its loop index
    stage,         \* where each child is
    usr1,          \* whether SIGUSR1 is pending for the parent
    usr2           \* the children for which SIGUSR2 is pending

vars == <<total, count, flag, pc, i, stage, usr1, usr2>>

Children == 1..total

Init ==
    /\ total \in Totals
    /\ count = 0 /\ flag = TRUE
    /\ pc = "fork" /\ i = 0
    /\ stage = [c \in Children |-> "none"]
    /\ usr1 = FALSE /\ usr2 = {}

Fork ==
    /\ pc = "fork" /\ i < total
    /\ \/ stage' = [stage EXCEPT ![i + 1] = "born"]
       \/ FORK_FAILS /\ stage' = [stage EXCEPT ![i + 1] = "failed"]
    /\ pc' = "spin"
    /\ UNCHANGED <<total, count, flag, i, usr1, usr2>>

\* Mutant of Spin: the next fork does not wait for the flag.
SpinNot ==
    /\ pc = "spin"
    /\ pc' = "raise"
    /\ UNCHANGED <<total, count, flag, i, stage, usr1, usr2>>

\* while (flag) {}
Spin ==
    /\ pc = "spin" /\ ~ flag
    /\ pc' = "raise"
    /\ UNCHANGED <<total, count, flag, i, stage, usr1, usr2>>

\* Mutant of RaiseFlag: the flag stays down for the next child.
KeepFlag ==
    /\ pc = "raise"
    /\ i' = i + 1 /\ pc' = "fork"
    /\ UNCHANGED <<total, count, flag, stage, usr1, usr2>>

\* flag = 1
RaiseFlag ==
    /\ pc = "raise"
    /\ flag' = TRUE
    /\ i' = i + 1 /\ pc' = "fork"
    /\ UNCHANGED <<total, count, stage, usr1, usr2>>

EndForks ==
    /\ pc = "fork" /\ i >= total
    /\ pc' = "check"
    /\ UNCHANGED <<total, count, flag, i, stage, usr1, usr2>>

Alive(c) == stage[c] \in {"born", "ready", "asleep"}

\* kill(-getpgrp(), SIGUSR2) reaches the sender before it returns, so the
\* parent goes on in parentHandler.
Broadcast ==
    /\ pc = "check" /\ count = total
    /\ usr2' = {c \in Children : Alive(c)}
    /\ pc' = "parentHandler"
    /\ UNCHANGED <<total, count, flag, i, stage, usr1>>

\* wait(NULL) returns a child that has ended, and -1 when there is none left.
Wait ==
    /\ pc = "parentHandler"
    /\ \/ \E c \in Children :
             /\ stage[c] = "ended"
             /\ stage' = [stage EXCEPT ![c] = "reaped"]
             /\ pc' = pc
       \/ /\ \A c \in Children : stage[c] \in {"none", "failed", "reaped"}
          /\ pc' = "exited" /\ stage' = stage
    /\ UNCHANGED <<total, count, flag, i, usr1, usr2>>

CountHandler ==
    /\ usr1 /\ pc # "exited"
    /\ usr1' = FALSE
    /\ count' = count + 1 /\ flag' = FALSE
    /\ UNCHANGED <<total, pc, i, stage, usr2>>

ParentStep == Fork \/ Spin \/ RaiseFlag \/ EndForks \/ Broadcast \/ Wait \/ CountHandler

\* signal(SIGUSR2, childHandler)
SetHandler(c) ==
    /\ stage[c] = "born"
    /\ stage' = [stage EXCEPT ![c] = "ready"]
    /\ UNCHANGED <<total, count, flag, pc, i, usr1, usr2>>

\* Mutant of Report: the signal is sent before the handler is set.
ReportEarly(c) ==
    /\ stage[c] \in {"born", "ready"} /\ ~ usr1
    /\ usr1' = TRUE
    /\ stage' = [stage EXCEPT ![c] = IF @ = "born" THEN "born" ELSE "asleep"]
    /\ UNCHANGED <<total, count, flag, pc, i, usr2>>

\* kill(getppid(), SIGUSR1)
Report(c) ==
    /\ stage[c] = "ready"
    /\ stage' = [stage EXCEPT ![c] = "asleep"]
    /\ usr1' = TRUE
    /\ UNCHANGED <<total, count, flag, pc, i, usr2>>

\* childHandler ends the child.  Before SetHandler the handler is the
\* parent's, which a child runs to its end too, having no children.
CatchUsr2(c) ==
    /\ c \in usr2 /\ Alive(c)
    /\ usr2' = usr2 \ {c}
    /\ stage' = [stage EXCEPT ![c] = "ended"]
    /\ UNCHANGED <<total, count, flag, pc, i, usr1>>

ChildStep(c) == SetHandler(c) \/ Report(c) \/ CatchUsr2(c)

Next == ParentStep \/ \E c \in Children : ChildStep(c)

Spec == Init /\ [][Next]_vars

-----------------------------------------------------------------------------

\* Children that have sent their SIGUSR1.
Reported == {c \in Children : stage[c] \in {"asleep", "ended", "reaped"}}

\* Every SIGUSR1 is counted although two of them would be one: the parent has
\* counted all children that have reported but the one whose signal is on its
\* way.
NoSignalLost == count + (IF usr1 THEN 1 ELSE 0) = Cardinality(Reported)

\* SIGUSR2 reaches the children only when all of them exist and have replaced
\* the handler they inherit from the parent.
AllReady == usr2 # {} => usr2 \subseteq Reported /\ \A c \in Children : c \in Reported

\* The group ends, parent and children.  It does not if a fork has failed: the
\* parent then waits for ever for the flag, and the children for a signal; nor
\* if the number asked for is negative, which no count equals.
AllEnd ==
    <>[](\/ pc = "exited" /\ \A c \in Children : stage[c] = "reaped"
         \/ pc = "spin" /\ stage[i + 1] = "failed"
         \/ pc = "check" /\ total < 0)
=============================================================================
