------------------------ MODULE WorkerThreadsProofs ------------------------
(***************************************************************************)
(* Machine-checked safety of the pool of worker threads: what exitHandler  *)
(* leaves behind and when a join goes wrong, for any sizes, any number of  *)
(* SIGHUPs and wherever SIGINT finds main.                                 *)
(***************************************************************************)
EXTENDS WorkerThreads, TLAPS

Places == {"none", "failed", "runs", "ended", "joined"}
Loop == {"test", "same", "set", "resize", "create", "count", "join", "pausing", "paused"}

\* exitHandler runs or has ended, and the position of main in its loop.
Exiting == pc \in {"stopping", "joining", "exited"}
At == IF Exiting THEN resume ELSE pc

Fits(n) == n \in Int /\ n <= MaxSize

ThreadTypes ==
    /\ pc \in Loop \cup {"stopping", "joining", "exited", "crashed"} /\ resume \in Loop
    /\ currentThread \in 0..MaxSize /\ sign \in {1, -1} /\ i \in Nat
    /\ Fits(aimThread) /\ Fits(buff) /\ Fits(file)
    /\ run \in [Workers -> {0, 1}] /\ thread \in [Workers -> Places]
    /\ str \in [Threads -> Int] /\ \A t \in Threads : Fits(str[t])

\* The place that main is about to fill, and the one that it is about to give up.
Filling(n) == At = "count" /\ sign = 1 /\ n = currentThread
Leaving(n) == At = "count" /\ sign = -1 /\ n = Last

\* A resize goes towards its target and stays inside run, except for a target
\* below zero, and main is where the direction leads.
AimInv ==
    /\ ~ Exiting /\ pc \in {"resize", "create", "join", "count"} =>
          (sign = 1 => currentThread <= aimThread) /\ (sign = -1 => currentThread >= aimThread)
    /\ ~ Exiting /\ pc \in {"create", "join", "count"} => ~ Reached
    /\ At = "create" => sign = 1
    /\ At = "join" => sign = -1
    /\ At \in {"create", "count"} /\ sign = 1 => currentThread \in Workers
    /\ At \in {"join", "count"} /\ sign = -1 => Last \in Workers

\* The counted places hold threads that nobody has joined, the others none that
\* runs, but for the place main is at.
PlaceInv ==
    \A n \in Workers :
      /\ n >= currentThread /\ ~ Filling(n) => thread[n] \in {"none", "joined", "failed"}
      /\ Filling(n) => thread[n] \in {"runs", "ended", "failed"}
      /\ Leaving(n) => thread[n] \in {"joined", "failed"}
      /\ n < currentThread /\ ~ Leaving(n) /\ (Exiting => n >= i) =>
            thread[n] \in {"runs", "ended", "failed"}

\* exitHandler has joined the places before i, but the one that main was joining.
ExitInv ==
    /\ pc = "joining" => i < currentThread
    /\ pc = "exited" => i >= currentThread
    /\ \A n \in Workers : Exiting /\ n < i /\ n < currentThread =>
          thread[n] \in {"joined", "failed"} \/ (resume = "join" /\ n = Last)

\* The process crashes as CleanExit says.
Crash ==
    \/ aimThread < 0
    \/ \E n \in Workers : thread[n] = "failed"
    \/ resume \in {"join", "count"} /\ sign = -1

ThreadInv ==
    /\ ThreadTypes
    /\ pc = "crashed" => Crash
    /\ pc # "crashed" => AimInv /\ PlaceInv /\ ExitInv

-----------------------------------------------------------------------------
(* Steps *)

\* A step is one of the loop or of exitHandler, of a signal, or the end of a worker;
\* after a crash there is none.
LEMMA Steps ==
    ASSUME Next
    PROVE  /\ \/ MainStep \/ CatchInt \/ Configure \/ Interrupt
              \/ \E t \in Threads : CatchHup(t) \/ ReadConfig(t) \/ SetBuff(t)
              \/ \E n \in Workers : Return(n)
           /\ pc # "crashed"
<1>1. \/ MainStep \/ CatchInt \/ Configure \/ Interrupt
      \/ \E t \in Threads : CatchHup(t) \/ ReadConfig(t) \/ SetBuff(t)
      \/ \E n \in Workers : Return(n)
  BY DEF Next, HupHandler
<1>2. MainStep => pc # "crashed"
  BY DEF MainStep, Test, Same, SetAim, EndResize, RaiseFlag, Create, Stop, StopOutside, JoinLast,
         Count, Pause, ExitStop, ExitJoin, Exit, Goto
<1> QED BY <1>1, <1>2 DEF CatchInt, Configure, Interrupt, CatchHup, ReadConfig, SetBuff, Return, Ended

\* At first no thread has been created.
LEMMA ThreadInit == Init => ThreadInv
<1> SUFFICES ASSUME Init PROVE ThreadInv
  OBVIOUS
<1> USE WorkerThreadsAssumption DEF Init
<1>1. ThreadTypes
  BY DEF ThreadTypes, Loop, Places, Fits
<1>2. pc # "crashed" /\ AimInv /\ ExitInv
  BY DEF AimInv, ExitInv, At, Exiting
<1>3. PlaceInv
  <2>1. At = "test" /\ currentThread = 0 /\ \A n \in Workers : thread[n] = "none" /\ ~ (n < 0)
    BY DEF At, Exiting, Workers
  <2> QED BY <2>1 DEF PlaceInv, Filling, Leaving
<1> QED BY <1>1, <1>2, <1>3 DEF ThreadInv

\* Every step keeps the types: the loop stays inside run.
LEMMA ThreadTypesKept == ThreadTypes /\ AimInv /\ Next => ThreadTypes'
<1> SUFFICES ASSUME ThreadTypes, AimInv, Next PROVE ThreadTypes'
  OBVIOUS
<1> USE WorkerThreadsAssumption DEF ThreadTypes, Loop, Fits, pool, handlers
<1>1. CASE Test \/ Same \/ EndResize \/ Stop \/ StopOutside \/ Pause \/ ExitStop \/ Exit \/ RaiseFlag
  <2>1. /\ pc' \in {"pausing", "same", "set", "join", "crashed", "paused", "joining", "exited", "create"}
        /\ run' \in [Workers -> {0, 1}]
    BY <1>1 DEF Test, Same, EndResize, Stop, StopOutside, Pause, ExitStop, Exit, RaiseFlag, Goto, LowerFlag
  <2>2. UNCHANGED <<currentThread, aimThread, sign, buff, thread, resume, i, str, file>>
    BY <1>1 DEF Test, Same, EndResize, Stop, StopOutside, Pause, ExitStop, Exit, RaiseFlag
  <2> QED BY <2>1, <2>2
<1>2. CASE SetAim
  BY <1>2 DEF SetAim, Goto
<1>3. CASE Create
  BY <1>3 DEF Create, Goto, Places
<1>4. CASE JoinLast \/ ExitJoin
  <2>1. /\ pc' \in {"count", "stopping", "crashed"} /\ i' \in {i, i + 1}
        /\ thread' \in [Workers -> Places]
    BY <1>4 DEF JoinLast, ExitJoin, Join, JoinEnded, Goto, Places
  <2>2. UNCHANGED <<currentThread, aimThread, sign, buff, run, resume, str, file>>
    BY <1>4 DEF JoinLast, ExitJoin
  <2> QED BY <2>1, <2>2
<1>5. CASE Count
  <2>1. currentThread + sign \in 0..MaxSize
    BY <1>5 DEF Count, Goto, AimInv, At, Exiting, Workers, Last
  <2> QED BY <1>5, <2>1 DEF Count, Goto
<1>6. CASE CatchInt
  BY <1>6 DEF CatchInt, Ended
<1>7. CASE Configure \/ Interrupt
  BY <1>7, ZenonT(60) DEF Configure, Interrupt
<1>8. ASSUME NEW t \in Threads, CatchHup(t) \/ ReadConfig(t) \/ SetBuff(t) PROVE ThreadTypes'
  <2>1. CASE CatchHup(t)
    BY <2>1 DEF CatchHup
  <2>2. CASE ReadConfig(t)
    BY <2>2 DEF ReadConfig
  <2>3. CASE SetBuff(t)
    BY <2>3 DEF SetBuff
  <2> QED BY <1>8, <2>1, <2>2, <2>3
<1>9. CASE \E n \in Workers : Return(n)
  BY <1>9 DEF Return, Places
<1> QED BY <1>1, <1>2, <1>3, <1>4, <1>5, <1>6, <1>7, <1>8, <1>9, Steps DEF MainStep

\* What the signals change of the state of main and of its threads.
LEMMA SignalMoves ==
    ASSUME ThreadTypes, NEW t \in Threads,
           Configure \/ Interrupt \/ CatchHup(t) \/ ReadConfig(t) \/ SetBuff(t)
    PROVE  /\ pc' = pc \/ (pc = "paused" /\ pc' = "test")
           /\ UNCHANGED <<currentThread, aimThread, sign, thread, resume, i>>
  BY DEF Configure, Interrupt, CatchHup, ReadConfig, SetBuff, pool

\* Every step keeps main on its way to the target.
LEMMA AimKept == ThreadTypes /\ AimInv /\ ExitInv /\ Next => (pc' # "crashed" => AimInv')
<1> SUFFICES ASSUME ThreadTypes, AimInv, ExitInv, Next, pc' # "crashed" PROVE AimInv'
  OBVIOUS
<1>1. currentThread \in 0..MaxSize /\ sign \in {1, -1} /\ aimThread \in Int /\ aimThread <= MaxSize
      /\ buff \in Int /\ buff <= MaxSize /\ MaxSize \in Nat
  BY WorkerThreadsAssumption DEF ThreadTypes, Fits
<1> USE DEF AimInv, At, Exiting, Reached, Last, Workers, pool, Goto
<1>2. CASE Test \/ Same \/ SetAim \/ EndResize \/ RaiseFlag \/ Create \/ Pause
  BY <1>1, <1>2 DEF Test, Same, SetAim, EndResize, RaiseFlag, Create, Pause
<1>3. CASE Stop \/ StopOutside
  BY <1>1, <1>3 DEF Stop, StopOutside
<1>4. CASE JoinLast
  BY <1>1, <1>4 DEF JoinLast, Join
<1>5. CASE Count
  BY <1>1, <1>5 DEF Count
<1>6. CASE ExitStop \/ ExitJoin \/ Exit
  BY <1>1, <1>6 DEF ExitStop, ExitJoin, Exit, Join
<1>7. CASE CatchInt
  BY <1>1, <1>7 DEF CatchInt, Ended
<1>8. CASE \E t \in Threads : Configure \/ Interrupt \/ CatchHup(t) \/ ReadConfig(t) \/ SetBuff(t)
  BY <1>1, <1>8, SignalMoves
<1>9. CASE \E n \in Workers : Return(n)
  BY <1>1, <1>9 DEF Return
<1>10. Main \in Threads
  BY DEF Threads
<1> QED BY <1>2, <1>3, <1>4, <1>5, <1>6, <1>7, <1>8, <1>9, <1>10, Steps DEF MainStep

\* Every step keeps the threads at their places: Create fills the place that is
\* counted next, JoinLast empties the one that is given up.
LEMMA PlaceKept == ThreadTypes /\ AimInv /\ PlaceInv /\ ExitInv /\ Next => (pc' # "crashed" => PlaceInv')
<1> SUFFICES ASSUME ThreadTypes, AimInv, PlaceInv, ExitInv, Next, pc' # "crashed", NEW n \in Workers
             PROVE  /\ n >= currentThread' /\ ~ Filling(n)' => thread'[n] \in {"none", "joined", "failed"}
                    /\ Filling(n)' => thread'[n] \in {"runs", "ended", "failed"}
                    /\ Leaving(n)' => thread'[n] \in {"joined", "failed"}
                    /\ n < currentThread' /\ ~ Leaving(n)' /\ (Exiting' => n >= i') =>
                          thread'[n] \in {"runs", "ended", "failed"}
  BY DEF PlaceInv
<1>1. /\ currentThread \in 0..MaxSize /\ sign \in {1, -1} /\ MaxSize \in Nat /\ i \in Nat /\ n \in Int
      /\ thread \in [Workers -> Places] /\ pc # "crashed" /\ resume \in Loop
  BY WorkerThreadsAssumption, Steps DEF ThreadTypes, Workers
<1>2. /\ n >= currentThread /\ ~ Filling(n) => thread[n] \in {"none", "joined", "failed"}
      /\ Filling(n) => thread[n] \in {"runs", "ended", "failed"}
      /\ Leaving(n) => thread[n] \in {"joined", "failed"}
      /\ n < currentThread /\ ~ Leaving(n) /\ (Exiting => n >= i) =>
            thread[n] \in {"runs", "ended", "failed"}
  BY DEF PlaceInv
<1> USE DEF Goto
<1>3. CASE \/ Test \/ Same \/ SetAim \/ EndResize \/ RaiseFlag \/ Stop \/ StopOutside \/ Pause
  <2>1. /\ UNCHANGED <<currentThread, thread, resume, i>>
        /\ pc \in Loop \ {"count"} /\ pc' \in Loop \ {"count"}
    BY <1>3 DEF Test, Same, SetAim, EndResize, RaiseFlag, Stop, StopOutside, Pause, pool, Loop
  <2>2. /\ ~ Filling(n) /\ ~ Filling(n)' /\ ~ Leaving(n) /\ ~ Leaving(n)' /\ ~ Exiting /\ ~ Exiting'
    BY <2>1 DEF Filling, Leaving, At, Exiting, Loop
  <2> QED BY <1>2, <2>1, <2>2
<1>4. CASE Create
  <2>1. /\ pc = "create" /\ pc' = "count" /\ sign = 1
        /\ UNCHANGED <<currentThread, sign, i, resume>>
        /\ currentThread \in Workers /\ thread'[currentThread] \in {"runs", "failed"}
        /\ n # currentThread => thread'[n] = thread[n]
    BY <1>1, <1>4 DEF Create, AimInv, At, Exiting, pool
  <2>2. ~ Exiting /\ ~ Exiting' /\ ~ Leaving(n)' /\ ~ Leaving(n) /\ ~ Filling(n)
        /\ (Filling(n)' <=> n = currentThread)
    BY <2>1 DEF Exiting, Leaving, Filling, At
  <2> QED BY <1>1, <1>2, <2>1, <2>2
<1>5. CASE JoinLast
  <2>1. /\ pc = "join" /\ pc' = "count" /\ sign = -1
        /\ UNCHANGED <<currentThread, sign, i, resume>>
        /\ Last \in Workers /\ (n # Last => thread'[n] = thread[n])
        /\ thread'[Last] = "joined" \/ (thread' = thread /\ thread[Last] \in {"failed", "joined"})
    <3>1. sign = -1 /\ Last \in Workers /\ pc = "join" /\ pc' = "count"
      BY <1>5 DEF JoinLast, Join, AimInv, At, Exiting
    <3>2. \/ thread' = [thread EXCEPT ![Last] = "joined"]
          \/ thread' = thread /\ thread[Last] \in {"failed", "joined"}
      BY <1>5, <3>1 DEF JoinLast, Join, JoinEnded, Undefined
    <3>3. UNCHANGED <<currentThread, sign, i, resume>>
      BY <1>5 DEF JoinLast, pool
    <3> QED BY <1>1, <3>1, <3>2, <3>3
  <2>2. /\ ~ Exiting /\ ~ Exiting' /\ ~ Leaving(n) /\ ~ Filling(n) /\ ~ Filling(n)'
        /\ Leaving(n)' <=> n = Last
    BY <2>1 DEF Exiting, Leaving, Filling, At, Last
  <2>3. Last = currentThread - 1
    BY <2>1 DEF Last
  <2> QED BY <1>1, <1>2, <2>1, <2>2, <2>3
<1>6. CASE Count
  <2>1. /\ pc = "count" /\ pc' = "resize" /\ currentThread' = currentThread + sign
        /\ UNCHANGED <<sign, i, resume, thread>>
    BY <1>6 DEF Count
  <2>2. /\ ~ Exiting /\ ~ Exiting' /\ ~ Leaving(n)' /\ ~ Filling(n)'
        /\ Leaving(n) <=> sign = -1 /\ n = currentThread - 1
        /\ Filling(n) <=> sign = 1 /\ n = currentThread
    BY <1>1, <2>1 DEF Exiting, Leaving, Filling, At, Last
  <2> QED BY <1>1, <1>2, <2>1, <2>2
<1>7. CASE ExitStop \/ ExitJoin \/ Exit
  <2>1. /\ Exiting /\ Exiting' /\ UNCHANGED <<currentThread, sign, resume>> /\ i' \in {i, i + 1}
    BY <1>7 DEF ExitStop, ExitJoin, Exit, Exiting, pool, Join
  <2>2. /\ (Leaving(n)' <=> Leaving(n)) /\ (Filling(n)' <=> Filling(n))
        /\ Filling(n) => n = currentThread
    BY <2>1 DEF Leaving, Filling, At, Last
  <2>3. thread'[n] = thread[n] \/ (n = i /\ thread'[n] = "joined" /\ i < currentThread /\ i' = i + 1)
    BY <1>1, <1>7 DEF ExitStop, ExitJoin, Exit, Join, JoinEnded, ExitInv
  <2> QED BY <1>1, <1>2, <2>1, <2>2, <2>3
<1>8. CASE CatchInt
  <2>1. /\ pc' = "stopping" /\ resume' = pc /\ i' = 0 /\ UNCHANGED <<currentThread, sign, thread>>
        /\ ~ Exiting
    BY <1>8 DEF CatchInt, Exiting, Ended
  <2>2. (Leaving(n)' <=> Leaving(n)) /\ (Filling(n)' <=> Filling(n))
    BY <2>1 DEF Leaving, Filling, At, Last, Exiting
  <2> QED BY <1>1, <1>2, <2>1, <2>2
<1>9. CASE \E t \in Threads : Configure \/ Interrupt \/ CatchHup(t) \/ ReadConfig(t) \/ SetBuff(t)
  <2>1. /\ pc' = pc \/ (pc = "paused" /\ pc' = "test")
        /\ UNCHANGED <<currentThread, sign, thread, resume, i>>
    BY <1>9, SignalMoves
  <2>2. (Leaving(n)' <=> Leaving(n)) /\ (Filling(n)' <=> Filling(n)) /\ (Exiting' <=> Exiting)
    BY <2>1 DEF Leaving, Filling, At, Last, Exiting
  <2> QED BY <1>2, <2>1, <2>2
<1>10. CASE \E m \in Workers : Return(m)
  <2>1. /\ UNCHANGED <<currentThread, sign, resume, i, pc>>
        /\ thread'[n] = thread[n] \/ (thread[n] = "runs" /\ thread'[n] = "ended")
    BY <1>1, <1>10 DEF Return, pool
  <2>2. (Leaving(n)' <=> Leaving(n)) /\ (Filling(n)' <=> Filling(n)) /\ (Exiting' <=> Exiting)
    BY <2>1 DEF Leaving, Filling, At, Last, Exiting
  <2> QED BY <1>2, <2>1, <2>2
<1>11. Main \in Threads
  BY DEF Threads
<1> QED BY <1>3, <1>4, <1>5, <1>6, <1>7, <1>8, <1>9, <1>10, <1>11, Steps DEF MainStep

\* Every step keeps the places that exitHandler has passed joined.
LEMMA ExitKept == ThreadTypes /\ AimInv /\ ExitInv /\ Next => (pc' # "crashed" => ExitInv')
<1> SUFFICES ASSUME ThreadTypes, AimInv, ExitInv, Next, pc' # "crashed", NEW n \in Workers
             PROVE  /\ pc' = "joining" => i' < currentThread'
                    /\ pc' = "exited" => i' >= currentThread'
                    /\ Exiting' /\ n < i' /\ n < currentThread' =>
                          thread'[n] \in {"joined", "failed"} \/ (resume' = "join" /\ n = Last')
  <2>1. 0 \in Workers
    BY WorkerThreadsAssumption DEF Workers
  <2> QED BY <2>1 DEF ExitInv
<1>1. /\ currentThread \in 0..MaxSize /\ sign \in {1, -1} /\ MaxSize \in Nat /\ i \in Nat /\ n \in Nat
      /\ thread \in [Workers -> Places] /\ pc # "crashed" /\ resume \in Loop
  BY WorkerThreadsAssumption, Steps DEF ThreadTypes, Workers
<1>2. Exiting /\ n < i /\ n < currentThread =>
         thread[n] \in {"joined", "failed"} \/ (resume = "join" /\ n = Last)
  BY DEF ExitInv
<1> USE DEF Goto, pool
<1>3. CASE \/ Test \/ Same \/ SetAim \/ EndResize \/ RaiseFlag \/ Stop \/ StopOutside \/ Pause
           \/ Create \/ JoinLast \/ Count
  <2>1. pc' \in Loop
    BY <1>3 DEF Test, Same, SetAim, EndResize, RaiseFlag, Stop, StopOutside, Pause, Create, JoinLast,
       Join, Count, Loop
  <2> QED BY <2>1 DEF Exiting, Loop
<1>4. CASE ExitStop \/ Exit
  <2>1. Exiting /\ UNCHANGED <<currentThread, sign, resume, i, thread>>
    BY <1>4 DEF ExitStop, Exit, Exiting
  <2>2. (pc' = "joining" => i < currentThread) /\ (pc' = "exited" => i >= currentThread)
    BY <1>1, <1>4 DEF ExitStop, Exit, MoreToStop
  <2>3. Last' = Last
    BY <2>1 DEF Last
  <2> QED BY <1>2, <2>1, <2>2, <2>3
<1>5. CASE ExitJoin
  <2>1. /\ Exiting /\ UNCHANGED <<currentThread, sign, resume>> /\ i' = i + 1 /\ pc' = "stopping"
        /\ \/ ~ Undefined(i) /\ JoinEnded(i)
           \/ Undefined(i) /\ UNCHANGED thread
    BY <1>5 DEF ExitJoin, Join, Exiting
  <2>2. Last' = Last
    BY <2>1 DEF Last
  <2>3. CASE n < i
    BY <1>1, <1>2, <2>1, <2>2, <2>3 DEF JoinEnded
  <2>4. CASE n = i
    BY <1>1, <2>1, <2>2, <2>4 DEF JoinEnded, Undefined
  <2> QED BY <1>1, <2>1, <2>3, <2>4
<1>6. CASE CatchInt
  BY <1>1, <1>6 DEF CatchInt
<1>7. CASE \E t \in Threads : Configure \/ Interrupt \/ CatchHup(t) \/ ReadConfig(t) \/ SetBuff(t)
  <2>1. /\ pc' = pc \/ (pc = "paused" /\ pc' = "test")
        /\ UNCHANGED <<currentThread, sign, thread, resume, i>>
    BY <1>7, SignalMoves
  <2>2. (Exiting' <=> Exiting) /\ Last' = Last
    BY <2>1 DEF Last, Exiting
  <2> QED BY <1>2, <2>1, <2>2 DEF ExitInv
<1>8. CASE \E m \in Workers : Return(m)
  <2>1. /\ UNCHANGED <<currentThread, sign, resume, i, pc>>
        /\ thread'[n] = thread[n] \/ (thread[n] = "runs" /\ thread'[n] = "ended")
    BY <1>1, <1>8 DEF Return
  <2>2. (Exiting' <=> Exiting) /\ Last' = Last
    BY <2>1 DEF Last, Exiting
  <2> QED BY <1>2, <2>1, <2>2 DEF ExitInv
<1>9. Main \in Threads
  BY DEF Threads
<1> QED BY <1>3, <1>4, <1>5, <1>6, <1>7, <1>8, <1>9, Steps DEF MainStep

\* A step at which the process crashes is a join of a thread that did not start or
\* was joined, or the stop of a worker that does not exist.
LEMMA CrashIs == ThreadTypes /\ AimInv /\ PlaceInv /\ ExitInv /\ Next => (pc' = "crashed" => Crash')
<1> SUFFICES ASSUME ThreadTypes, AimInv, PlaceInv, ExitInv, Next, pc' = "crashed" PROVE Crash'
  OBVIOUS
<1>1. /\ currentThread \in 0..MaxSize /\ sign \in {1, -1} /\ MaxSize \in Nat /\ i \in Nat
      /\ thread \in [Workers -> Places] /\ pc # "crashed" /\ aimThread \in Int
  BY WorkerThreadsAssumption, Steps DEF ThreadTypes, Fits
<1> USE DEF Goto, pool
<1>2. StopOutside \/ JoinLast \/ ExitJoin
  <2>1. \A t \in Threads : ~ (Configure \/ Interrupt \/ CatchHup(t) \/ ReadConfig(t) \/ SetBuff(t))
    BY <1>1, SignalMoves
  <2>2. Main \in Threads
    BY DEF Threads
  <2>3. ~ CatchInt /\ ~ \E m \in Workers : Return(m)
    BY <1>1 DEF CatchInt, Return
  <2>4. ~ (Test \/ Same \/ SetAim \/ EndResize \/ RaiseFlag \/ Stop \/ Pause \/ Create \/ Count
           \/ ExitStop \/ Exit)
    BY DEF Test, Same, SetAim, EndResize, RaiseFlag, Stop, Pause, Create, Count, ExitStop, Exit
  <2> QED BY <2>1, <2>2, <2>3, <2>4, Steps DEF MainStep
<1>3. CASE StopOutside
  <2>1. /\ ~ Reached /\ sign = -1 /\ Last < 0 /\ pc = "resize" /\ aimThread' = aimThread
    BY <1>3 DEF StopOutside
  <2>2. currentThread >= aimThread
    BY <2>1 DEF AimInv, Exiting
  <2> QED BY <1>1, <2>1, <2>2 DEF Last, Reached, Crash
<1>4. CASE JoinLast
  <2>1. pc = "join" /\ Undefined(Last) /\ thread' = thread
    BY <1>4 DEF JoinLast, Join
  <2>2. sign = -1 /\ Last \in Workers /\ Last < currentThread
    BY <1>1, <2>1 DEF AimInv, At, Exiting, Last
  <2>3. thread[Last] \in {"runs", "ended", "failed"}
    BY <2>1, <2>2 DEF PlaceInv, Leaving, At, Exiting
  <2>4. thread[Last] = "failed"
    BY <2>1, <2>3 DEF Undefined
  <2> QED BY <2>1, <2>2, <2>4 DEF Crash
<1>5. CASE ExitJoin
  <2>1. /\ pc = "joining" /\ Undefined(i) /\ UNCHANGED <<thread, resume, sign>>
    BY <1>5 DEF ExitJoin, Join
  <2>2. i < currentThread /\ i \in Workers /\ Exiting /\ At = resume
    BY <1>1, <2>1 DEF ExitInv, Workers, Exiting, At
  <2>3. CASE resume \in {"join", "count"} /\ sign = -1
    BY <2>1, <2>3 DEF Crash
  <2>4. CASE ~ (resume \in {"join", "count"} /\ sign = -1)
    <3>1. resume # "join"
      BY <2>2, <2>4 DEF AimInv
    <3>2. ~ Leaving(i)
      BY <2>2, <2>4 DEF Leaving
    <3>3. thread[i] \in {"runs", "ended", "failed"}
      BY <1>1, <2>2, <3>2 DEF PlaceInv
    <3>4. thread[i] = "failed"
      BY <2>1, <3>1, <3>3 DEF Undefined
    <3> QED BY <2>1, <2>2, <3>4 DEF Crash
  <2> QED BY <2>3, <2>4
<1> QED BY <1>2, <1>3, <1>4, <1>5

\* Every step keeps the invariant.
LEMMA ThreadStep == ThreadInv /\ [Next]_vars => ThreadInv'
<1> SUFFICES ASSUME ThreadInv, [Next]_vars PROVE ThreadInv'
  OBVIOUS
<1>1. CASE Next
  <2>1. pc # "crashed"
    BY <1>1, Steps
  <2>2. ThreadTypes /\ AimInv /\ PlaceInv /\ ExitInv
    BY <2>1 DEF ThreadInv
  <2> QED BY <1>1, <2>2, ThreadTypesKept, AimKept, PlaceKept, ExitKept, CrashIs DEF ThreadInv
<1>2. CASE UNCHANGED vars
  BY <1>2 DEF ThreadInv, ThreadTypes, AimInv, PlaceInv, ExitInv, Crash, At, Exiting, Filling, Leaving,
     Last, Reached, vars, pool, handlers
<1> QED BY <1>1, <1>2

\* ThreadInv holds in every run of the pool.
THEOREM ThreadsAlways == Spec => []ThreadInv
<1> QED BY ThreadInit, ThreadStep, PTL DEF Spec

\* Wherever SIGINT finds main, and whatever sizes and SIGHUPs there were: no thread
\* but the one main was counting or joining runs on after the exit, and no join is
\* undefined but those that CleanExit names.
THEOREM ExitsClean == Spec => []CleanExit
<1>1. ThreadInv => CleanExit
  <2> SUFFICES ASSUME ThreadInv PROVE CleanExit
    OBVIOUS
  <2>1. pc = "crashed" => Crash
    BY DEF ThreadInv
  <2>2. ASSUME pc = "exited", NEW n \in Workers, thread[n] = "runs" PROVE LeftBehind(n)
    <3>1. AimInv /\ PlaceInv /\ ExitInv /\ ThreadTypes
      BY <2>2 DEF ThreadInv
    <3>2. /\ Exiting /\ At = resume /\ i >= currentThread /\ i \in Nat /\ currentThread \in Nat /\ n \in Nat
      BY <2>2, <3>1 DEF Exiting, At, ExitInv, ThreadTypes, Workers
    <3>3. CASE n >= currentThread
      <4>1. Filling(n)
        BY <2>2, <3>1, <3>3 DEF PlaceInv
      <4> QED BY <3>2, <4>1 DEF Filling, LeftBehind
    <3>4. CASE n < currentThread
      <4>1. resume = "join" /\ n = Last
        BY <2>2, <3>1, <3>2, <3>4 DEF ExitInv
      <4> QED BY <4>1 DEF LeftBehind
    <3> QED BY <3>2, <3>3, <3>4
  <2> QED BY <2>1, <2>2 DEF CleanExit, Crash
<1> QED BY <1>1, ThreadsAlways, PTL
=============================================================================
