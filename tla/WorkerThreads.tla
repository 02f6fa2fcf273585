--------------------------- MODULE WorkerThreads ---------------------------
(***************************************************************************)
(* The pool of worker threads of src/A1/a1-threads.c: the loop of main is  *)
(* that of a1-procs.c (module WorkerPool), but a worker is stopped by its  *)
(* flag in run and then joined, and the handlers of signals run in a       *)
(* thread of the same process.  Linux gives a signal to the main thread    *)
(* unless that has it blocked, which it has while it runs the handler of   *)
(* the same signal: then a worker runs the handler, beside main.           *)
(* The makefile does not optimise: a worker reads its flag in every round. *)
(***************************************************************************)
EXTENDS Integers

CONSTANTS
    Sizes,        \* what config.txt may hold
    MaxSize,      \* places of run and pthread
    MaxHups,      \* bound on the number of SIGHUP sent
    CreateFails   \* whether pthread_create may fail

ASSUME WorkerThreadsAssumption ==
    /\ Sizes \subseteq Int /\ MaxSize \in Nat \ {0} /\ \A n \in Sizes : n <= MaxSize
    /\ MaxHups \in Nat /\ CreateFails \in BOOLEAN

VARIABLES
    currentThread, aimThread, sign, buff, run,
    thread,     \* the thread that pthread[n] names: "none", "failed" (to start),
                \* "runs", "ended" or "joined"
    pc,         \* where main is, in its loop or in exitHandler
    resume,     \* where SIGINT found main
    i,          \* of exitHandler
    hup,        \* where each thread is in hupHandler
    str,        \* what it has read there
    file,       \* config.txt
    pending,    \* the signals sent and not delivered
    hups,       \* SIGHUPs sent
    overlapped  \* whether two threads have been in hupHandler at a time

pool == <<currentThread, aimThread, sign, buff, run>>
handlers == <<hup, str, file, pending, hups, overlapped>>
vars == <<pool, thread, pc, resume, i, handlers>>

Workers == 0..(MaxSize - 1)
Main == MaxSize
Threads == Workers \cup {Main}
Ended == {"exited", "crashed"}

Init ==
    /\ currentThread = 0 /\ aimThread = 0 /\ sign = 1
    /\ file \in Sizes /\ buff = file
    /\ run = [n \in Workers |-> 0]
    /\ thread = [n \in Workers |-> "none"]
    /\ pc = "test" /\ resume = "test" /\ i = 0
    /\ hup = [t \in Threads |-> "none"] /\ str = [t \in Threads |-> 0]
    /\ pending = {} /\ hups = 0 /\ overlapped = FALSE

-----------------------------------------------------------------------------
(* The loop of main, in which each test reads buff anew, and exitHandler.    *)

\* Main goes on unless it is in hupHandler, to which exitHandler does not return.
Goto(from, to) == hup[Main] \in {"none", "below"} /\ pc = from /\ pc' = to

Test ==
    /\ \/ buff < 0 /\ Goto("test", "pausing")
       \/ buff >= 0 /\ Goto("test", "same")
    /\ UNCHANGED <<pool, thread, resume, i, handlers>>

Same ==
    /\ \/ buff = aimThread /\ Goto("same", "pausing")
       \/ buff # aimThread /\ Goto("same", "set")
    /\ UNCHANGED <<pool, thread, resume, i, handlers>>

SetAim ==
    /\ Goto("set", "resize")
    /\ aimThread' = buff
    /\ sign' = IF buff > currentThread THEN 1 ELSE -1
    /\ UNCHANGED <<currentThread, buff, run, thread, resume, i, handlers>>

Reached == currentThread = aimThread

\* Mutant of Last: the first worker is stopped.
First == 0

Last == currentThread + sign

EndResize ==
    /\ Reached /\ Goto("resize", "pausing")
    /\ UNCHANGED <<pool, thread, resume, i, handlers>>

RaiseFlag ==
    /\ ~ Reached /\ sign = 1 /\ Goto("resize", "create")
    /\ run' = [run EXCEPT ![currentThread] = 1]
    /\ UNCHANGED <<currentThread, aimThread, sign, buff, thread, resume, i, handlers>>

Create ==
    /\ Goto("create", "count")
    /\ \/ thread' = [thread EXCEPT ![currentThread] = "runs"]
       \/ CreateFails /\ thread' = [thread EXCEPT ![currentThread] = "failed"]
    /\ UNCHANGED <<pool, resume, i, handlers>>

\* Mutant of LowerFlag: the flag of the place above is lowered.
LowerNext(n) == run' = [run EXCEPT ![IF n + 1 \in Workers THEN n + 1 ELSE n] = 0]

LowerFlag(n) == run' = [run EXCEPT ![n] = 0]

Stop ==
    /\ ~ Reached /\ sign = -1 /\ Last >= 0 /\ Goto("resize", "join")
    /\ LowerFlag(Last)
    /\ UNCHANGED <<currentThread, aimThread, sign, buff, thread, resume, i, handlers>>

\* A target below zero and an empty pool: run[-1] is written.
StopOutside ==
    /\ ~ Reached /\ sign = -1 /\ Last < 0 /\ Goto("resize", "crashed")
    /\ UNCHANGED <<pool, thread, resume, i, handlers>>

\* pthread_join waits for a thread that runs.  For one that never started, was
\* joined before or is being joined by the code that exitHandler interrupted,
\* it is undefined: it returns at once, or the process crashes.
JoinEnded(n) == thread[n] = "ended" /\ thread' = [thread EXCEPT ![n] = "joined"]

Undefined(n) ==
    \/ thread[n] \in {"failed", "joined"}
    \/ pc = "joining" /\ resume = "join" /\ n = Last

Join(n, from, to) ==
    \/ ~ Undefined(n) /\ Goto(from, to) /\ JoinEnded(n)
    \/ Undefined(n) /\ Goto(from, to) /\ UNCHANGED thread
    \/ Undefined(n) /\ Goto(from, "crashed") /\ UNCHANGED thread

JoinLast ==
    /\ pc = "join"
    /\ Join(Last, "join", "count")
    /\ UNCHANGED <<pool, resume, i, handlers>>

Count ==
    /\ Goto("count", "resize")
    /\ currentThread' = currentThread + sign
    /\ UNCHANGED <<aimThread, sign, buff, run, thread, resume, i, handlers>>

Pause ==
    /\ Goto("pausing", "paused")
    /\ UNCHANGED <<pool, thread, resume, i, handlers>>

\* Mutant of MoreToStop: the last worker is forgotten.
MoreThanOne == i < currentThread - 1

MoreToStop == i < currentThread

ExitStop ==
    /\ MoreToStop /\ Goto("stopping", "joining")
    /\ LowerFlag(i)
    /\ UNCHANGED <<currentThread, aimThread, sign, buff, thread, resume, i, handlers>>

ExitJoin ==
    /\ pc = "joining"
    /\ Join(i, "joining", "stopping")
    /\ i' = i + 1
    /\ UNCHANGED <<pool, resume, handlers>>

Exit ==
    /\ ~ MoreToStop /\ Goto("stopping", "exited")
    /\ UNCHANGED <<pool, thread, resume, i, handlers>>

MainStep ==
    \/ Test \/ Same \/ SetAim \/ EndResize \/ RaiseFlag \/ Create \/ Stop
    \/ StopOutside \/ JoinLast \/ Count \/ Pause \/ ExitStop \/ ExitJoin \/ Exit

-----------------------------------------------------------------------------
(* Signals and workers *)

\* A user writes config.txt and sends SIGHUP.
Configure ==
    /\ pc \notin Ended /\ hups < MaxHups
    /\ file' \in Sizes
    /\ pending' = pending \cup {"SIGHUP"} /\ hups' = hups + 1
    /\ UNCHANGED <<pool, thread, pc, resume, i, hup, str, overlapped>>

\* A user sends SIGINT.  It is bounded to one: exitHandler does not return.
Interrupt ==
    /\ pc \notin Ended \cup {"stopping", "joining"} /\ "SIGINT" \notin pending
    /\ pending' = pending \cup {"SIGINT"}
    /\ UNCHANGED <<pool, thread, pc, resume, i, hup, str, file, hups, overlapped>>

CatchInt ==
    /\ "SIGINT" \in pending /\ pc \notin Ended \cup {"stopping", "joining"}
    /\ pending' = pending \ {"SIGINT"}
    /\ pc' = "stopping" /\ resume' = pc
    /\ aimThread' = 0 /\ i' = 0
    /\ hup' = [hup EXCEPT ![Main] = IF @ = "none" THEN "none" ELSE "below"]
    /\ UNCHANGED <<currentThread, sign, buff, run, thread, str, file, hups, overlapped>>

InHandler == {t \in Threads : hup[t] \in {"open", "read"}}

CatchHup(t) ==
    /\ "SIGHUP" \in pending /\ pc \notin Ended /\ hup[t] = "none"
    /\ t # Main => thread[t] = "runs" /\ hup[Main] # "none"
    /\ pending' = pending \ {"SIGHUP"}
    /\ hup' = [hup EXCEPT ![t] = "open"]
    /\ overlapped' = (overlapped \/ InHandler # {})
    /\ UNCHANGED <<pool, thread, pc, resume, i, str, file, hups>>

ReadConfig(t) ==
    /\ hup[t] = "open" /\ pc \notin Ended
    /\ hup' = [hup EXCEPT ![t] = "read"]
    /\ str' = [str EXCEPT ![t] = file]
    /\ UNCHANGED <<pool, thread, pc, resume, i, file, pending, hups, overlapped>>

\* Mutant of SetBuff: the new size is noted for the next time only.
KeepBuff(t) ==
    /\ hup[t] = "read" /\ pc \notin Ended
    /\ hup' = [hup EXCEPT ![t] = "none"]
    /\ pc' = IF t = Main /\ pc = "paused" THEN "test" ELSE pc
    /\ UNCHANGED <<pool, thread, resume, i, str, file, pending, hups, overlapped>>

\* pause returns after a handler that main has run.
SetBuff(t) ==
    /\ hup[t] = "read" /\ pc \notin Ended
    /\ hup' = [hup EXCEPT ![t] = "none"]
    /\ buff' = str[t]
    /\ pc' = IF t = Main /\ pc = "paused" THEN "test" ELSE pc
    /\ UNCHANGED <<currentThread, aimThread, sign, run, thread, resume, i, str, file,
                   pending, hups, overlapped>>

HupHandler(t) == CatchHup(t) \/ ReadConfig(t) \/ SetBuff(t)

\* A worker that finds its flag lowered.
Return(n) ==
    /\ thread[n] = "runs" /\ run[n] = 0 /\ hup[n] = "none" /\ pc \notin Ended
    /\ thread' = [thread EXCEPT ![n] = "ended"]
    /\ UNCHANGED <<pool, pc, resume, i, handlers>>

-----------------------------------------------------------------------------

Next ==
    \/ MainStep \/ Configure \/ Interrupt \/ CatchInt
    \/ \E t \in Threads : HupHandler(t)
    \/ \E n \in Workers : Return(n)

Spec == Init /\ [][Next]_vars

\* Every thread is scheduled, and a signal that was sent is delivered.
FairSpec ==
    /\ Spec
    /\ WF_vars(MainStep) /\ WF_vars(CatchInt)
    /\ \A t \in Threads : WF_vars(HupHandler(t))
    /\ \A n \in Workers : WF_vars(Return(n))

-----------------------------------------------------------------------------
(* Properties *)

\* exitHandler leaves no thread behind but one that main was about to count, or
\* to join: SIGINT came between pthread_create and the end of that turn of the
\* loop, or while pthread_join waited.  And a thread is joined once, but for
\* threads that did not start, SIGINT in the turn of the loop that joins, and a
\* target below zero.
LeftBehind(n) ==
    \/ resume = "count" /\ sign = 1 /\ n = currentThread
    \/ resume = "join" /\ n = Last

CleanExit ==
    /\ pc = "exited" => \A n \in Workers : thread[n] = "runs" => LeftBehind(n)
    /\ pc = "crashed" =>
         \/ aimThread < 0
         \/ \E n \in Workers : thread[n] = "failed"
         \/ resume \in {"join", "count"} /\ sign = -1

\* Each resize and each exit ends: no join waits for a thread whose flag is not
\* lowered, although threads come and go at the same place of run.
Settles == <>[](pc \in Ended \cup {"paused"})

\* The size in config.txt after the last SIGHUP is the one in buff in the end,
\* although signals are not queued.  It is lost only if two threads were in
\* hupHandler at a time: the one that read the older size may write it last.
LastSizeKept == <>[](pc \in Ended \/ buff = file \/ overlapped)
=============================================================================
