----------------------------- MODULE WorkerPool -----------------------------
(***************************************************************************)
(* The pool of worker processes of src/A1/a1-procs.c.  The parent forks or *)
(* kills workers until it has as many as config.txt says, then pauses.     *)
(* SIGHUP makes it read the file again, at whatever point of the loop it   *)
(* comes; SIGINT makes it kill its workers and exit.  A worker inherits    *)
(* the parent's handler of SIGINT and replaces it by its own.              *)
(***************************************************************************)
EXTENDS Integers, FiniteSets

CONSTANTS
    MaxPid,     \* bound on the number of forks
    Sizes,      \* what config.txt may hold
    MaxSize,    \* places of arr
    MaxHups,    \* bound on the number of SIGHUP sent
    ForkFails   \* whether fork may fail

Pids == 1..MaxPid   \* of workers, in the order of the forks

\* The code takes for granted that arr is large enough.
ASSUME SizesAssumption ==
    Sizes \subseteq Int /\ MaxSize \in Nat \ {0} /\ \A n \in Sizes : n <= MaxSize
\* No behaviour forks more often than this.
ASSUME PidAssumption == MaxPid \in Nat /\ MaxPid >= MaxSize * (MaxHups + 1)
ASSUME BoundAssumption == MaxHups \in Nat /\ ForkFails \in BOOLEAN

VARIABLES
    currentThread, aimThread, sign, buff, arr,
    pid,        \* what fork returned
    pc,         \* of the parent
    resume,     \* where SIGINT found the parent
    i,          \* of exitHandler
    child,      \* state of the workers
    memory,     \* a worker's copy of the pids in arr
    pending,    \* processes that SIGINT was sent to
    hups,       \* SIGHUPs sent
    sent        \* SIGINT was sent by a user

vars == <<currentThread, aimThread, sign, buff, arr, pid, pc, resume, i,
          child, memory, pending, hups, sent>>
pool == <<currentThread, aimThread, sign, buff, arr, pid>>
users == <<hups, sent>>

FAILED == -1
Parent == 0
Processes == Pids \cup {Parent}

Ended == {"exited", "outside"}
Exiting == {"killing", "reaping", "exited"}

Running(q) ==
    IF q = Parent THEN pc \notin Ended ELSE child[q] \in {"starting", "working"}

\* kill(p, SIGINT): -1, from a failed fork, is everybody but the caller.
Kill(caller, p) ==
    {q \in (IF p = FAILED THEN Processes \ {caller} ELSE {p}) : Running(q)}

Init ==
    /\ currentThread = 0 /\ aimThread = 0 /\ sign = 1
    /\ buff \in Sizes
    /\ arr = [n \in 0..(MaxSize - 1) |-> FAILED]
    /\ pid = FAILED /\ i = 0
    /\ pc = "test" /\ resume = "test"
    /\ child = [p \in Pids |-> "none"] /\ memory = [p \in Pids |-> {}]
    /\ pending = {} /\ hups = 0 /\ sent = FALSE

-----------------------------------------------------------------------------
(* The loop of main.  Each test reads buff anew. *)

Goto(from, to) == pc = from /\ pc' = to

TestNegative ==
    /\ \/ buff < 0 /\ Goto("test", "pausing")
       \/ buff >= 0 /\ Goto("test", "same")
    /\ UNCHANGED <<pool, resume, i, child, memory, pending, users>>

\* Mutant of Same: only a larger pool is a change.
SameOrLess == buff <= aimThread

Same == buff = aimThread

TestSame ==
    /\ \/ Same /\ Goto("same", "pausing")
       \/ ~ Same /\ Goto("same", "set")
    /\ UNCHANGED <<pool, resume, i, child, memory, pending, users>>

SignFor(aim) == IF aim > currentThread THEN 1 ELSE -1

SetAim ==
    /\ Goto("set", "resize")
    /\ aimThread' = buff
    /\ sign' = SignFor(buff)
    /\ UNCHANGED <<currentThread, buff, arr, pid, resume, i, child, memory, pending, users>>

\* Mutant of Reached: a pool that is too large is large enough.
ReachedOrMore == currentThread >= aimThread

Reached == currentThread = aimThread

EndResize ==
    /\ Reached /\ Goto("resize", "pausing")
    /\ UNCHANGED <<pool, resume, i, child, memory, pending, users>>

\* The worker has a copy of arr, in which currentThread places are in use.
Fork ==
    /\ ~ Reached /\ sign = 1 /\ Goto("resize", "store")
    /\ \/ \E p \in Pids :
            /\ \A q \in Pids : child[q] = "none" <=> p <= q
            /\ pid' = p
            /\ child' = [child EXCEPT ![p] = "starting"]
            /\ memory' = [memory EXCEPT ![p] = {arr[n] : n \in 0..(currentThread - 1)}]
       \/ ForkFails /\ pid' = FAILED /\ UNCHANGED <<child, memory>>
    /\ UNCHANGED <<currentThread, aimThread, sign, buff, arr, resume, i, pending, users>>

Store ==
    /\ Goto("store", "count")
    /\ arr' = [arr EXCEPT ![currentThread] = pid]
    /\ UNCHANGED <<currentThread, aimThread, sign, buff, pid, resume, i, child, memory,
                   pending, users>>

\* Mutant of Stop: no signal is sent.
StopNobody(n) == pending' = pending

\* killProcessByIndex up to its wait.
Stop(n) == pending' = pending \cup Kill(Parent, arr[n])

\* Mutant of Last: the first worker is killed.
First == 0

Last == currentThread + sign

KillLast ==
    /\ ~ Reached /\ sign = -1 /\ Last >= 0 /\ Goto("resize", "wait")
    /\ Stop(Last)
    /\ UNCHANGED <<pool, resume, i, child, memory, users>>

\* A target below zero, and the pool is empty: arr[-1] is read.  What happens
\* then is not defined, and the behaviour ends here.
KillOutside ==
    /\ ~ Reached /\ sign = -1 /\ Last < 0 /\ Goto("resize", "outside")
    /\ UNCHANGED <<pool, resume, i, child, memory, pending, users>>

\* wait(NULL) takes any worker that ended, and returns at once if there is none
\* left to wait for.
Reap ==
    \/ \E p \in Pids : child[p] = "zombie" /\ child' = [child EXCEPT ![p] = "gone"]
    \/ (\A p \in Pids : child[p] \in {"none", "gone"}) /\ UNCHANGED child

Wait ==
    /\ Goto("wait", "count")
    /\ Reap
    /\ UNCHANGED <<pool, resume, i, memory, pending, users>>

Count ==
    /\ Goto("count", "resize")
    /\ currentThread' = currentThread + sign
    /\ UNCHANGED <<aimThread, sign, buff, arr, pid, resume, i, child, memory, pending, users>>

Pause ==
    /\ Goto("pausing", "paused")
    /\ UNCHANGED <<pool, resume, i, child, memory, pending, users>>

Main ==
    \/ TestNegative \/ TestSame \/ SetAim \/ EndResize \/ Fork \/ Store
    \/ KillLast \/ KillOutside \/ Wait \/ Count \/ Pause

-----------------------------------------------------------------------------
(* Signals to the parent *)

\* hupHandler reads the file; pause returns after a handler, and only then.
HupHandler ==
    /\ pc \notin Ended /\ hups < MaxHups
    /\ hups' = hups + 1
    /\ buff' \in Sizes
    /\ pc' = IF pc = "paused" THEN "test" ELSE pc
    /\ UNCHANGED <<currentThread, aimThread, sign, arr, pid, resume, i, child, memory,
                   pending, sent>>

\* A user sends SIGINT to the parent, or from the terminal to all.
Interrupt ==
    /\ pc \notin Ended /\ ~ sent
    /\ sent' = TRUE
    /\ \E to \in {{Parent}, Processes} : pending' = pending \cup {q \in to : Running(q)}
    /\ UNCHANGED <<pool, pc, resume, i, child, memory, hups>>

\* exitHandler starts; a second SIGINT is held back until it is done.
CatchInt ==
    /\ Parent \in pending /\ pc \notin Ended \cup Exiting
    /\ pending' = pending \ {Parent}
    /\ pc' = "killing" /\ resume' = pc
    /\ aimThread' = 0 /\ i' = 0
    /\ UNCHANGED <<currentThread, sign, buff, arr, pid, child, memory, users>>

\* Mutant of MoreToKill: the last worker is forgotten.
MoreThanOne == i < currentThread - 1

MoreToKill == i < currentThread

ExitKill ==
    /\ MoreToKill /\ Goto("killing", "reaping")
    /\ Stop(i)
    /\ UNCHANGED <<pool, resume, i, child, memory, users>>

ExitWait ==
    /\ Goto("reaping", "killing")
    /\ Reap
    /\ i' = i + 1
    /\ UNCHANGED <<pool, resume, memory, pending, users>>

Exit ==
    /\ ~ MoreToKill /\ Goto("killing", "exited")
    /\ UNCHANGED <<pool, resume, i, child, memory, pending, users>>

ExitHandler == CatchInt \/ ExitKill \/ ExitWait \/ Exit

-----------------------------------------------------------------------------
(* Workers *)

SetHandler(p) ==
    /\ child[p] = "starting"
    /\ child' = [child EXCEPT ![p] = "working"]
    /\ UNCHANGED <<pool, pc, resume, i, memory, pending, users>>

\* intHandler
Die(p) ==
    /\ child[p] = "working" /\ p \in pending
    /\ child' = [child EXCEPT ![p] = "zombie"]
    /\ pending' = pending \ {p}
    /\ UNCHANGED <<pool, pc, resume, i, memory, users>>

\* A worker still has the handler of the parent, and its copy of the pool.  It
\* has no children to wait for.
KillSiblings(p) ==
    /\ child[p] = "starting" /\ p \in pending
    /\ child' = [child EXCEPT ![p] = "zombie"]
    /\ pending' = (pending \cup UNION {Kill(p, q) : q \in memory[p]}) \ {p}
    /\ UNCHANGED <<pool, pc, resume, i, memory, users>>

Worker(p) == SetHandler(p) \/ Die(p) \/ KillSiblings(p)

-----------------------------------------------------------------------------

Next ==
    \/ Main \/ HupHandler \/ Interrupt \/ ExitHandler
    \/ \E p \in Pids : Worker(p)

Spec == Init /\ [][Next]_vars

\* Every process is scheduled, and a signal that was sent is delivered.
FairSpec ==
    /\ Spec
    /\ WF_vars(Main) /\ WF_vars(ExitHandler)
    /\ \A p \in Pids : WF_vars(Worker(p))

-----------------------------------------------------------------------------
(* Properties *)

TypeOK ==
    /\ currentThread \in 0..MaxSize /\ aimThread \in Sizes \cup {0}
    /\ sign \in {-1, 1} /\ buff \in Sizes
    /\ arr \in [0..(MaxSize - 1) -> Pids \cup {FAILED}] /\ pid \in Pids \cup {FAILED}
    /\ pc \in {"test", "same", "set", "resize", "store", "count", "wait",
               "pausing", "paused", "killing", "reaping", "exited", "outside"}
    /\ i \in 0..MaxSize
    /\ child \in [Pids -> {"none", "starting", "working", "zombie", "gone"}]
    /\ memory \in [Pids -> SUBSET (Pids \cup {FAILED})]
    /\ pending \subseteq {q \in Processes : q = Parent \/ Running(q)}

\* A worker that lives on: no SIGINT is on its way to it.
Lasting(p) == Running(p) /\ p \notin pending
Workers == {p \in Pids : Lasting(p)}

\* The worker that fork returned and the pool does not count yet.
Uncounted(p) ==
    /\ p = pid /\ sign = 1
    /\ (IF pc \in Exiting THEN resume ELSE pc) \in {"store", "count"}

\* The pool loses no worker: one that lives on is in arr, at a place in use, but
\* for the time between its fork and the end of that turn of the loop.
NoStray ==
    \A p \in Workers : Uncounted(p) \/ \E n \in 0..(currentThread - 1) : arr[n] = p

\* When the parent pauses, no more workers live on than were asked for.
IdlePool ==
    pc \in {"pausing", "paused"} =>
      currentThread = aimThread /\ Cardinality(Workers) <= aimThread

\* A worker outlives its parent only if SIGINT came between its fork and the end
\* of that turn of the loop.
OrphanOnlyForked == pc = "exited" => \A p \in Workers : Uncounted(p)

\* The parent never waits for ever for a worker: each resize and each exit ends,
\* although wait takes any worker that ended and not the one just killed.  Only
\* after it has killed the -1 of a failed fork, which is every worker at once, may
\* exitHandler wait for a worker that is already gone.
KilledAll ==
    \/ pc = "wait" /\ arr[Last] = FAILED
    \/ pc = "reaping" /\ arr[i] = FAILED
WaitsInVain == pc = "reaping" /\ arr[i] \in Pids /\ child[arr[i]] = "gone"
Settles ==
    \/ <>[](pc \in Ended \cup {"paused"})
    \/ <>KilledAll /\ <>[](pc \in Ended \cup {"paused"} \/ WaitsInVain)

\* A size that is in buff when the loop starts over becomes the target, unless
\* another one or SIGINT comes in between.
HupApplied ==
    \A n \in Sizes \cap Nat :
      (pc = "test" /\ buff = n) ~> (aimThread = n \/ buff # n \/ pc \in Exiting)

\* "change the number of current workers appropriately": a pool that pauses has
\* as many workers as its target.  The code fails this: a worker that is killed
\* while it still has the parent's handler kills the others.
PoolAsConfigured ==
    pc = "paused" /\ ~ sent => Cardinality(Workers) = aimThread
=============================================================================
