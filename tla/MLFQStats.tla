------------------------------ MODULE MLFQStats ------------------------------
(***************************************************************************)
(* The statistics of src/A3/a3q1.c.  The consumers add a task's response   *)
(* time (line 253) and turnaround time (line 281) to the sum of its type   *)
(* without a lock.  A history variable records the types of which two      *)
(* consumers have ever been between the load and the store of one sum, to  *)
(* tell which sums may have lost an addition.                              *)
(***************************************************************************)
EXTENDS MLFQ

VARIABLE raced      \* the types of which two consumers met at one sum

Updating(c, sum, ty) == pc[c] = sum /\ TypeOf[hand[c]] = ty

\* The types of which two consumers are about to store to the same sum.
Racing ==
    {ty \in Types : \E sum \in {"responded", "free"} : \E c, d \in Consumers :
       c # d /\ Updating(c, sum, ty) /\ Updating(d, sum, ty)}

StatsInit == Init /\ raced = {}
StatsNext == Next /\ raced' = raced \cup Racing'
StatsSpec == StatsInit /\ [][StatsNext]_<<vars, raced>>

-----------------------------------------------------------------------------

\* The tasks of a type whose response time, or turnaround time, was added.
Responses(ty) == {t \in Tasks : TypeOf[t] = ty /\ t \in Loaded /\ ~ new[t]}
Ends(ty) == {t \in Tasks : TypeOf[t] = ty /\ t \in freed}

\* The sums hold at most the contributions made.
StatsNeverOvercount ==
    \A ty \in Types : /\ waitTime[ty] <= Cardinality(Responses(ty))
                      /\ turnaroundTime[ty] <= Cardinality(Ends(ty))

Exact(ty) ==
    /\ waitTime[ty] = Cardinality(Responses(ty))
    /\ turnaroundTime[ty] = Cardinality(Ends(ty))

\* Both sums of a type are exact, one response time per task taken and one
\* turnaround time per task freed, until two consumers are between the load and
\* the store of one of them at a time: only that race loses an addition, never
\* a task that is put back, taken by another consumer or moved by the manager.
\* Even then no sum exceeds the additions made.
LostOnlyInRace == StatsNeverOvercount /\ \A ty \in Types \ raced : Exact(ty)
=============================================================================
