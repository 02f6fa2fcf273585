------------------------------ MODULE TaskPool ------------------------------
(***************************************************************************)
(* What the scheduler of src/A3/a3q1.c promises about the tasks of a file, *)
(* with no queue, lock, level or condition variable: a task is loaded      *)
(* once, runs on one CPU at a time and on at most Capacity of them in all, *)
(* loses time only while it runs, and is finished once, when no time is    *)
(* left.  The pool closes only after the whole file is loaded.  That every *)
(* task is finished by then is not promised: see CompletesAllTasks in MLFQ.*)
(***************************************************************************)
EXTENDS Integers, FiniteSets

CONSTANTS Tasks, TimeOf, Capacity

VARIABLES state, remaining, open

poolVars == <<state, remaining, open>>

In(s) == {t \in Tasks : state[t] = s}

Init ==
    /\ state = [t \in Tasks |-> "unloaded"]
    /\ remaining = TimeOf
    /\ open = TRUE

Move(t, from, to) == state[t] = from /\ state' = [state EXCEPT ![t] = to]

Load(t) == Move(t, "unloaded", "ready") /\ UNCHANGED <<remaining, open>>

Start(t) ==
    /\ Cardinality(In("running")) < Capacity
    /\ Move(t, "ready", "running")
    /\ UNCHANGED <<remaining, open>>

\* A quantum: some of the time that is left is used up.
Work(t) ==
    /\ state[t] = "running" /\ remaining[t] > 0
    /\ \E used \in 1..remaining[t] :
         remaining' = [remaining EXCEPT ![t] = @ - used]
    /\ UNCHANGED <<state, open>>

Preempt(t) ==
    /\ remaining[t] > 0
    /\ Move(t, "running", "ready")
    /\ UNCHANGED <<remaining, open>>

Finish(t) ==
    /\ remaining[t] = 0
    /\ Move(t, "running", "finished")
    /\ UNCHANGED <<remaining, open>>

Close ==
    /\ In("unloaded") = {}
    /\ open' = FALSE
    /\ UNCHANGED <<state, remaining>>

Next ==
    /\ open
    /\ \/ \E t \in Tasks : Load(t) \/ Start(t) \/ Work(t) \/ Preempt(t) \/ Finish(t)
       \/ Close

Spec == Init /\ [][Next]_poolVars
=============================================================================
