-------------------------- MODULE WorkerPoolProofs --------------------------
(* Theorems about WorkerPool, for any sizes, number of forks and of signals. *)
EXTENDS WorkerPool, FiniteSetTheorems, TLAPS

\* Where the loop counts up it has not reached the target, and where it counts
\* down there is a worker to count; exitHandler stays inside the pool.
RangeInv ==
    /\ pc = "resize" /\ sign = 1 => currentThread <= aimThread
    /\ pc = "store" => sign = 1 /\ currentThread < aimThread
    /\ pc = "wait" => sign = -1 /\ currentThread > 0
    /\ pc = "count" => (sign = 1 /\ currentThread < aimThread) \/ (sign = -1 /\ currentThread > 0)
    /\ pc = "killing" => i <= currentThread
    /\ pc = "reaping" => i < currentThread

TypeInv == TypeOK /\ RangeInv

\* The types hold at first.
LEMMA InitType == Init => TypeInv
  BY SizesAssumption, PidAssumption
     DEF Init, TypeInv, TypeOK, RangeInv, Pids, FAILED, Parent, Processes, Running, Ended

\* A signal reaches running processes only.
LEMMA KillRuns ==
    ASSUME NEW caller, NEW p \in Processes \cup {FAILED}
    PROVE  \A q \in Kill(caller, p) : q \in Processes /\ Running(q)
  BY DEF Kill

\* Steps of the loop.
LEMMA MainType == TypeInv /\ Main => TypeInv'
<1> SUFFICES ASSUME TypeInv, Main PROVE TypeInv'
  OBVIOUS
<1> USE SizesAssumption, PidAssumption DEF TypeInv, TypeOK, RangeInv, Pids, Goto, pool, users
<1>1. ASSUME TestNegative PROVE TypeInv'
  BY <1>1 DEF TestNegative, Running, Processes, Parent
<1>2. ASSUME TestSame PROVE TypeInv'
  BY <1>2 DEF TestSame, Same, Running, Processes, Parent
<1>3. ASSUME SetAim PROVE TypeInv'
  BY <1>3 DEF SetAim, SignFor, Running, Processes, Parent
<1>4. ASSUME EndResize PROVE TypeInv'
  BY <1>4 DEF EndResize, Running, Processes, Parent
<1>5. ASSUME Fork PROVE TypeInv'
  <2>1. /\ pid' \in Pids \cup {FAILED}
        /\ child' \in [Pids -> {"none", "starting", "working", "zombie", "gone"}]
        /\ memory' \in [Pids -> SUBSET (Pids \cup {FAILED})]
    <3>1. {arr[n] : n \in 0..(currentThread - 1)} \subseteq Pids \cup {FAILED}
      OBVIOUS
    <3> QED BY <1>5, <3>1 DEF Fork
  <2>2. \A q \in Pids : Running(q) => Running(q)'
    BY <1>5 DEF Fork, Running, Parent
  <2>3. pending' \subseteq {q \in Processes : q = Parent \/ Running(q)}'
    BY <1>5, <2>2 DEF Fork, Processes, Parent
  <2>4. RangeInv' /\ currentThread' \in 0..MaxSize
    <3>1. /\ pc = "resize" /\ sign = 1 /\ currentThread # aimThread /\ pc' = "store"
          /\ UNCHANGED <<currentThread, aimThread, sign>>
      BY <1>5 DEF Fork, Reached
    <3>2. currentThread < aimThread
      BY <3>1
    <3> QED BY <3>1, <3>2
  <2> QED BY <1>5, <2>1, <2>3, <2>4 DEF Fork
<1>6. ASSUME Store PROVE TypeInv'
  BY <1>6 DEF Store, Running, Processes, Parent, FAILED
<1>7. ASSUME KillLast PROVE TypeInv'
  <2>1. pending' \subseteq {q \in Processes : q = Parent \/ Running(q)}'
    <3>1. arr[Last] \in Processes \cup {FAILED}
      BY <1>7 DEF KillLast, Last, Processes
    <3>2. \A q \in Kill(Parent, arr[Last]) : q \in Processes /\ Running(q)
      BY <3>1, KillRuns
    <3>3. pending' = pending \cup Kill(Parent, arr[Last]) /\ child' = child
      BY <1>7 DEF KillLast, Stop
    <3> QED BY <3>2, <3>3 DEF Running, Processes, Parent
  <2>2. RangeInv'
    BY <1>7 DEF KillLast, Last
  <2> QED BY <1>7, <2>1, <2>2 DEF KillLast
<1>8. ASSUME KillOutside PROVE TypeInv'
  BY <1>8 DEF KillOutside, Running, Processes, Parent
<1>9. ASSUME Wait PROVE TypeInv'
  BY <1>9 DEF Wait, Reap, Running, Processes, Parent
<1>10. ASSUME Count PROVE TypeInv'
  BY <1>10 DEF Count, Running, Processes, Parent
<1>11. ASSUME Pause PROVE TypeInv'
  BY <1>11 DEF Pause, Running, Processes, Parent
<1> QED BY <1>1, <1>2, <1>3, <1>4, <1>5, <1>6, <1>7, <1>8, <1>9, <1>10, <1>11 DEF Main

\* Steps of the users, of exitHandler and of the workers.
LEMMA OtherType ==
    TypeInv /\ (HupHandler \/ Interrupt \/ ExitHandler \/ \E p \in Pids : Worker(p)) => TypeInv'
<1> SUFFICES ASSUME TypeInv, HupHandler \/ Interrupt \/ ExitHandler \/ \E p \in Pids : Worker(p)
             PROVE  TypeInv'
  OBVIOUS
<1> USE SizesAssumption, PidAssumption DEF TypeInv, TypeOK, RangeInv, Pids, Goto, pool, users
<1>1. ASSUME HupHandler PROVE TypeInv'
  BY <1>1 DEF HupHandler, Running, Processes, Parent
<1>2. ASSUME Interrupt PROVE TypeInv'
  <2>1. PICK to \in {{Parent}, Processes} : pending' = pending \cup {q \in to : Running(q)}
    BY <1>2 DEF Interrupt
  <2>2. \A q \in pending' : q \in Processes /\ (q = Parent \/ Running(q))
    BY <2>1 DEF Processes
  <2>3. UNCHANGED <<pool, pc, resume, i, child, memory>>
    BY <1>2 DEF Interrupt
  <2> QED BY <2>2, <2>3 DEF Running, Processes, Parent
<1>3. ASSUME CatchInt PROVE TypeInv'
  BY <1>3 DEF CatchInt, Running, Processes, Parent
<1>4. ASSUME ExitKill PROVE TypeInv'
  <2>1. pending' \subseteq {q \in Processes : q = Parent \/ Running(q)}'
    <3>1. arr[i] \in Processes \cup {FAILED}
      BY <1>4 DEF ExitKill, MoreToKill, Processes
    <3>2. \A q \in Kill(Parent, arr[i]) : q \in Processes /\ Running(q)
      BY <3>1, KillRuns
    <3>3. pending' = pending \cup Kill(Parent, arr[i]) /\ child' = child
      BY <1>4 DEF ExitKill, Stop
    <3> QED BY <3>2, <3>3 DEF Running, Processes, Parent
  <2>2. RangeInv'
    BY <1>4 DEF ExitKill, MoreToKill
  <2> QED BY <1>4, <2>1, <2>2 DEF ExitKill
<1>5. ASSUME ExitWait PROVE TypeInv'
  <2>1. /\ child' \in [Pids -> {"none", "starting", "working", "zombie", "gone"}]
        /\ \A q \in Pids : Running(q) => Running(q)'
    BY <1>5 DEF ExitWait, Reap, Running, Parent
  <2>2. pending' \subseteq {q \in Processes : q = Parent \/ Running(q)}'
    BY <1>5, <2>1 DEF ExitWait, Processes, Parent
  <2>3. RangeInv' /\ i' \in 0..MaxSize
    BY <1>5 DEF ExitWait
  <2> QED BY <1>5, <2>1, <2>2, <2>3 DEF ExitWait
<1>6. ASSUME Exit PROVE TypeInv'
  BY <1>6 DEF Exit, Running, Processes, Parent
<1>7. ASSUME NEW p \in Pids, SetHandler(p) PROVE TypeInv'
  BY <1>7 DEF SetHandler, Running, Processes, Parent
<1>8. ASSUME NEW p \in Pids, Die(p) PROVE TypeInv'
  BY <1>8 DEF Die, Running, Processes, Parent
<1>9. ASSUME NEW p \in Pids, KillSiblings(p) PROVE TypeInv'
  <2>1. pending' \subseteq {q \in Processes : q = Parent \/ Running(q)}'
    <3>1. memory[p] \subseteq Processes \cup {FAILED}
      BY DEF Processes
    <3>2. \A r \in memory[p] : \A q \in Kill(p, r) : q \in Processes /\ Running(q)
      BY <3>1, KillRuns
    <3>3. /\ pending' = (pending \cup UNION {Kill(p, r) : r \in memory[p]}) \ {p}
          /\ child' = [child EXCEPT ![p] = "zombie"] /\ p # Parent
      BY <1>9 DEF KillSiblings, Parent
    <3>4. \A q \in pending' : q \in Processes /\ q # p /\ (q = Parent \/ Running(q))
      <4>1. SUFFICES ASSUME NEW q \in pending'
                     PROVE  q \in Processes /\ q # p /\ (q = Parent \/ Running(q))
        OBVIOUS
      <4>2. q # p /\ (q \in pending \/ \E r \in memory[p] : q \in Kill(p, r))
        BY <3>3
      <4>3. q \in pending => q \in Processes /\ (q = Parent \/ Running(q))
        OBVIOUS
      <4> QED BY <3>2, <4>2, <4>3
    <3>5. \A q \in Processes : q # p /\ Running(q) => q = Parent \/ Running(q)'
      BY <3>3 DEF Running, Processes, Parent
    <3> QED BY <3>4, <3>5 DEF Processes
  <2>2. child' \in [Pids -> {"none", "starting", "working", "zombie", "gone"}]
    BY <1>9 DEF KillSiblings
  <2> QED BY <1>9, <2>1, <2>2 DEF KillSiblings
<1> QED BY <1>1, <1>2, <1>3, <1>4, <1>5, <1>6, <1>7, <1>8, <1>9 DEF ExitHandler, Worker

\* Every step keeps the types.
LEMMA TypeStep == TypeInv /\ [Next]_vars => TypeInv'
<1>1. ASSUME TypeInv, UNCHANGED vars PROVE TypeInv'
  BY <1>1 DEF vars, TypeInv, TypeOK, RangeInv, Running, Processes, Pids
<1> QED BY <1>1, MainType, OtherType DEF Next

\* The types hold always.
LEMMA TypeInvariant == Spec => []TypeInv
  BY InitType, TypeStep, PTL DEF Spec

\* The pool never leaves its types: the loop never stores beyond arr, as long as
\* arr has a place for every size in the file.
THEOREM TypeCorrect == Spec => []TypeOK
  BY TypeInvariant, PTL DEF TypeInv

-----------------------------------------------------------------------------
(* No worker is lost, and which may be orphans *)

\* What fork returned is in arr when it is counted.
StoreInv == pc = "count" /\ sign = 1 => arr[currentThread] = pid

\* Counting down gives up a worker that was killed.
DeadInv == pc \in {"wait", "count"} /\ sign = -1 => arr[currentThread - 1] \notin Workers

\* The workers that exitHandler has passed were killed.
ExitInv ==
    \A n \in 0..(currentThread - 1) :
      \/ pc = "killing" /\ n < i
      \/ pc = "reaping" /\ n <= i
      \/ pc = "exited"
      => arr[n] \notin Workers

SafeInv == StoreInv /\ DeadInv /\ ExitInv /\ NoStray

\* At first no worker has been forked.
LEMMA InitSafe == Init => SafeInv
  BY DEF Init, SafeInv, StoreInv, DeadInv, ExitInv, NoStray, Workers, Lasting, Running,
         Pids, Parent, Exiting

\* A worker that lives on did so before, unless it was just forked: no step
\* takes a SIGINT back.
LEMMA WorkersShrink == TypeInv /\ [Next]_vars => Fork \/ Workers' \subseteq Workers
<1> SUFFICES ASSUME TypeInv, [Next]_vars, ~ Fork PROVE Workers' \subseteq Workers
  OBVIOUS
<1> USE PidAssumption DEF Workers, Lasting, Pids, Parent
<1>1. CASE UNCHANGED child /\ pending \ {Parent} \subseteq pending'
  BY <1>1 DEF Running
<1>2. CASE \E p \in Pids : Worker(p)
  <2>1. PICK p \in Pids : Worker(p)
    BY <1>2
  <2>2. \A q \in Pids : Running(q)' => Running(q)
    BY <2>1 DEF Worker, SetHandler, Die, KillSiblings, Running, TypeInv, TypeOK
  <2>3. pending \subseteq pending' \/ (pending \ {p} \subseteq pending' /\ ~ Running(p)')
    BY <2>1 DEF Worker, SetHandler, Die, KillSiblings, Running, TypeInv, TypeOK
  <2> QED BY <2>2, <2>3
<1>3. CASE Wait \/ ExitWait
  <2>1. UNCHANGED pending /\ Reap
    BY <1>3 DEF Wait, ExitWait
  <2>2. \A q \in Pids : Running(q)' => Running(q)
    <3>1. UNCHANGED child \/ \E p \in Pids : child' = [child EXCEPT ![p] = "gone"]
      BY <2>1 DEF Reap
    <3> QED BY <3>1 DEF Running, TypeInv, TypeOK
  <2> QED BY <2>1, <2>2
<1>4. Next /\ ~ Wait /\ ~ ExitWait /\ ~ (\E p \in Pids : Worker(p))
        => UNCHANGED child /\ pending \ {Parent} \subseteq pending'
  BY DEF Next, Main, ExitHandler, TestNegative, TestSame, SetAim, EndResize, Store, KillLast,
         KillOutside, Count, Pause, HupHandler, Interrupt, CatchInt, ExitKill, Exit, Stop
<1> QED BY <1>1, <1>2, <1>3, <1>4 DEF vars

\* A place of arr that SIGINT was sent to holds no worker that lives on.
LEMMA StopKills ==
    ASSUME TypeInv, NEW n, arr[n] \in Pids \cup {FAILED}, Stop(n), UNCHANGED <<arr, child>>
    PROVE  arr'[n] \notin Workers'
<1>1. CASE arr[n] \in Pids
  <2>1. Running(arr[n])' => arr[n] \in Kill(Parent, arr[n])
    BY <1>1, PidAssumption DEF Kill, Running, Pids, Parent, FAILED
  <2> QED BY <2>1 DEF Stop, Workers, Lasting
<1>2. CASE arr[n] = FAILED
  BY <1>2, PidAssumption DEF Workers, FAILED, Pids
<1> QED BY <1>1, <1>2

\* Steps that leave the pool as it is and do not count.
LEMMA OtherSafe ==
    TypeInv /\ SafeInv /\ [Next]_vars /\ ~ Fork /\ ~ Store /\ ~ Count => SafeInv'
<1> SUFFICES ASSUME TypeInv, SafeInv, [Next]_vars, ~ Fork, ~ Store, ~ Count PROVE SafeInv'
  OBVIOUS
<1>1. Workers' \subseteq Workers
  BY WorkersShrink
<1>2. UNCHANGED <<currentThread, arr, pid>>
  BY DEF Next, Main, ExitHandler, Worker, TestNegative, TestSame, SetAim, EndResize, KillLast,
         KillOutside, Wait, Pause, HupHandler, Interrupt, CatchInt, ExitKill, ExitWait, Exit,
         SetHandler, Die, KillSiblings, pool, vars
<1>3. CASE SetAim
  BY <1>1, <1>2, <1>3 DEF SetAim, Goto, SafeInv, StoreInv, DeadInv, ExitInv, NoStray, Uncounted, Exiting
<1>4. CASE UNCHANGED <<pc, sign, i, resume>>
  BY <1>1, <1>2, <1>4 DEF SafeInv, StoreInv, DeadInv, ExitInv, NoStray, Uncounted
<1>5. CASE KillLast
  <2>1. /\ pc = "resize" /\ pc' = "wait" /\ sign = -1 /\ sign' = sign
        /\ Last \in 0..(MaxSize - 1) /\ Last = currentThread - 1
    BY <1>5, SizesAssumption DEF KillLast, Goto, Last, TypeInv, TypeOK, pool
  <2>2. arr'[Last] \notin Workers'
    <3>1. arr[Last] \in Pids \cup {FAILED}
      BY <2>1 DEF TypeInv, TypeOK
    <3>2. Stop(Last) /\ UNCHANGED <<arr, child>>
      BY <1>5 DEF KillLast, pool
    <3> QED BY <3>1, <3>2, StopKills
  <2> QED BY <1>1, <1>2, <2>1, <2>2
          DEF SafeInv, StoreInv, DeadInv, ExitInv, NoStray, Uncounted, Exiting
<1>6. CASE ExitKill
  <2>1. /\ pc = "killing" /\ pc' = "reaping" /\ UNCHANGED <<sign, i, resume>>
        /\ i \in 0..(MaxSize - 1)
    BY <1>6, SizesAssumption DEF ExitKill, Goto, MoreToKill, TypeInv, TypeOK, pool
  <2>2. arr'[i] \notin Workers'
    <3>1. arr[i] \in Pids \cup {FAILED}
      BY <2>1 DEF TypeInv, TypeOK
    <3>2. Stop(i) /\ UNCHANGED <<arr, child>>
      BY <1>6 DEF ExitKill, pool
    <3> QED BY <3>1, <3>2, StopKills
  <2>3. ExitInv'
    BY <1>1, <1>2, <2>1, <2>2 DEF SafeInv, ExitInv, TypeInv, TypeOK
  <2> QED BY <1>1, <1>2, <2>1, <2>3 DEF SafeInv, StoreInv, DeadInv, NoStray, Uncounted, Exiting
<1>7. CASE ExitWait
  <2>1. /\ pc = "reaping" /\ pc' = "killing" /\ UNCHANGED <<sign, resume>> /\ i' = i + 1
    BY <1>7 DEF ExitWait, Goto, pool
  <2>2. ExitInv'
    BY <1>1, <1>2, <2>1 DEF SafeInv, ExitInv, TypeInv, TypeOK
  <2> QED BY <1>1, <1>2, <2>1, <2>2 DEF SafeInv, StoreInv, DeadInv, NoStray, Uncounted, Exiting
<1>8. CASE Exit
  <2>1. /\ pc = "killing" /\ pc' = "exited" /\ UNCHANGED <<sign, i, resume>>
        /\ i >= currentThread
    BY <1>8 DEF Exit, Goto, pool, MoreToKill, TypeInv, TypeOK
  <2>2. ExitInv'
    BY <1>1, <1>2, <2>1 DEF SafeInv, ExitInv, TypeInv, TypeOK
  <2> QED BY <1>1, <1>2, <2>1, <2>2 DEF SafeInv, StoreInv, DeadInv, NoStray, Uncounted, Exiting
<1>9. CASE CatchInt
  <2>1. /\ pc \notin Exiting /\ pc' = "killing" /\ i' = 0 /\ resume' = pc /\ sign' = sign
    BY <1>9 DEF CatchInt
  <2>2. ExitInv'
    BY <2>1 DEF ExitInv
  <2> QED BY <1>1, <1>2, <2>1, <2>2 DEF SafeInv, StoreInv, DeadInv, NoStray, Uncounted, Exiting
<1>10. CASE Wait
  BY <1>1, <1>2, <1>10 DEF Wait, Goto, pool, SafeInv, StoreInv, DeadInv, ExitInv, NoStray,
     Uncounted, Exiting, TypeInv, RangeInv
<1>11. CASE HupHandler \/ TestNegative \/ TestSame \/ EndResize \/ KillOutside \/ Pause
  <2>1. /\ UNCHANGED <<sign, i, resume>>
        /\ pc' = pc \/ (/\ pc \in {"paused", "test", "same", "resize", "pausing"}
                        /\ pc' \in {"paused", "test", "same", "set", "outside", "pausing"})
    BY <1>11 DEF HupHandler, TestNegative, TestSame, EndResize, KillOutside, Pause, Goto, pool
  <2> QED BY <1>1, <1>2, <2>1 DEF SafeInv, StoreInv, DeadInv, ExitInv, NoStray, Uncounted, Exiting
<1>12. ASSUME Interrupt \/ (\E p \in Pids : Worker(p)) \/ UNCHANGED vars
       PROVE  UNCHANGED <<pc, sign, i, resume>>
  BY <1>12 DEF Interrupt, Worker, SetHandler, Die, KillSiblings, pool, vars
<1> QED BY <1>3, <1>4, <1>5, <1>6, <1>7, <1>8, <1>9, <1>10, <1>11, <1>12
        DEF Next, Main, ExitHandler

\* The steps that change which workers the pool counts.
LEMMA PoolSafe == TypeInv /\ SafeInv /\ (Fork \/ Store \/ Count) => SafeInv'
<1> SUFFICES ASSUME TypeInv, SafeInv, Fork \/ Store \/ Count PROVE SafeInv'
  OBVIOUS
<1> USE DEF Goto
<1>1. CASE Fork
  <2>1. /\ pc = "resize" /\ pc' = "store" /\ sign = 1
        /\ UNCHANGED <<currentThread, arr, sign, pending>>
    BY <1>1 DEF Fork
  <2>2. Workers' \subseteq Workers \cup {pid'}
    BY <1>1, PidAssumption DEF Fork, Workers, Lasting, Running, Pids, Parent, TypeInv, TypeOK
  <2>3. \A p \in Workers : \E n \in 0..(currentThread - 1) : arr[n] = p
    BY <2>1 DEF SafeInv, NoStray, Uncounted, Exiting
  <2> QED BY <2>1, <2>2, <2>3
          DEF SafeInv, StoreInv, DeadInv, ExitInv, NoStray, Uncounted, Exiting
<1>2. CASE Store
  <2>1. /\ pc = "store" /\ pc' = "count" /\ sign = 1 /\ UNCHANGED <<currentThread, sign, pid>>
        /\ arr' = [arr EXCEPT ![currentThread] = pid] /\ currentThread \in 0..(MaxSize - 1)
    BY <1>2, SizesAssumption DEF Store, TypeInv, TypeOK, RangeInv
  <2>2. Workers' \subseteq Workers
    BY <1>2, WorkersShrink DEF Store, Fork, Next, Main
  <2>3. arr'[currentThread] = pid /\ \A n \in 0..(currentThread - 1) : arr'[n] = arr[n]
    BY <2>1 DEF TypeInv, TypeOK
  <2> QED BY <2>1, <2>2, <2>3
          DEF SafeInv, StoreInv, DeadInv, ExitInv, NoStray, Uncounted, Exiting
<1>3. CASE Count
  <2>1. /\ pc = "count" /\ pc' = "resize" /\ UNCHANGED <<arr, sign, pid>>
        /\ currentThread' = currentThread + sign /\ currentThread \in Nat
    BY <1>3 DEF Count, TypeInv, TypeOK
  <2>2. Workers' \subseteq Workers
    BY <1>3, WorkersShrink DEF Count, Fork, Next, Main
  <2>3. StoreInv' /\ DeadInv' /\ ExitInv'
    BY <2>1 DEF StoreInv, DeadInv, ExitInv
  <2>4. CASE sign = 1
    <3>1. \A p \in Workers : p = pid \/ \E n \in 0..(currentThread - 1) : arr[n] = p
      BY DEF SafeInv, NoStray, Uncounted
    <3>2. arr[currentThread] = pid
      BY <2>1, <2>4 DEF SafeInv, StoreInv
    <3> QED BY <2>1, <2>2, <2>3, <2>4, <3>1, <3>2 DEF SafeInv, NoStray
  <2>5. CASE sign = -1
    <3>1. \A p \in Workers : \E n \in 0..(currentThread - 1) : arr[n] = p
      BY <2>5 DEF SafeInv, NoStray, Uncounted
    <3>2. arr[currentThread - 1] \notin Workers
      BY <2>1, <2>5 DEF SafeInv, DeadInv
    <3> QED BY <2>1, <2>2, <2>3, <2>5, <3>1, <3>2 DEF SafeInv, NoStray
  <2> QED BY <2>4, <2>5 DEF TypeInv, TypeOK
<1> QED BY <1>1, <1>2, <1>3

\* SafeInv is an invariant of the pool.
LEMMA SafeInvariant == Spec => []SafeInv
<1>1. TypeInv /\ SafeInv /\ [Next]_vars => SafeInv'
  BY OtherSafe, PoolSafe
<1> QED BY InitSafe, <1>1, TypeInvariant, PTL DEF Spec

\* The pool loses no worker: whatever signals interrupt the loop, a worker that
\* lives on is counted, or was forked in the current turn of the loop.
THEOREM NoWorkerLost == Spec => []NoStray
  BY SafeInvariant, PTL DEF SafeInv

\* Only the worker whose fork SIGINT interrupted can outlive the parent.
THEOREM FewOrphans == Spec => []OrphanOnlyForked
<1>1. SafeInv => OrphanOnlyForked
  BY DEF SafeInv, ExitInv, NoStray, OrphanOnlyForked
<1> QED BY SafeInvariant, <1>1, PTL

-----------------------------------------------------------------------------
(* The pool is not too large *)

\* Outside of a resize the pool has its target: the target is set only where a
\* resize begins, by a loop that ends where the two are equal.
TargetInv == pc \in {"test", "same", "set", "pausing", "paused"} => currentThread = aimThread

\* Every step keeps the targets.
LEMMA TargetStep == TypeInv /\ TargetInv /\ [Next]_vars => TargetInv'
<1> SUFFICES ASSUME TypeInv, TargetInv, [Next]_vars PROVE TargetInv'
  OBVIOUS
<1> USE DEF TargetInv, Goto, pool, users
<1>1. CASE Main
  <2>1. CASE TestNegative \/ TestSame \/ Pause
    BY <2>1 DEF TestNegative, TestSame, Pause
  <2>2. CASE EndResize
    BY <2>2 DEF EndResize, Reached
  <2>3. CASE SetAim \/ Fork \/ Store \/ KillLast \/ KillOutside \/ Wait \/ Count
    BY <2>3 DEF SetAim, Fork, Store, KillLast, KillOutside, Wait, Count
  <2> QED BY <1>1, <2>1, <2>2, <2>3 DEF Main
<1>2. CASE HupHandler
  BY <1>2 DEF HupHandler
<1>3. CASE ExitHandler
  BY <1>3 DEF ExitHandler, CatchInt, ExitKill, ExitWait, Exit
<1>4. CASE Interrupt \/ (\E p \in Pids : Worker(p)) \/ UNCHANGED vars
  BY <1>4 DEF Interrupt, Worker, SetHandler, Die, KillSiblings, vars
<1> QED BY <1>1, <1>2, <1>3, <1>4 DEF Next

\* As many places as the pool has in use hold at most as many workers.
LEMMA FewPlaces ==
    ASSUME TypeInv, NEW W, \A p \in W : \E n \in 0..(currentThread - 1) : arr[n] = p
    PROVE  Cardinality(W) <= currentThread
<1> DEFINE Places == {n \in 0..(currentThread - 1) : arr[n] \in W}
           Holder == [n \in Places |-> arr[n]]
<1>1. currentThread \in Nat
  BY SizesAssumption DEF TypeInv, TypeOK
<1>2. IsFiniteSet(0..(currentThread - 1)) /\ Cardinality(0..(currentThread - 1)) = currentThread
  BY <1>1, FS_Interval
<1>3. Places \in SUBSET (0..(currentThread - 1))
  OBVIOUS
<1>4. IsFiniteSet(Places) /\ Cardinality(Places) <= currentThread
  <2> HIDE DEF Places
  <2> QED BY <1>2, <1>3, FS_Subset
<1>5. Holder \in Surjection(Places, W)
  BY DEF Surjection
<1>6. Cardinality(W) <= Cardinality(Places) /\ IsFiniteSet(W)
  <2> HIDE DEF Holder, Places
  <2> QED BY <1>4, <1>5, FS_Surjection
<1>7. Cardinality(W) \in Nat /\ Cardinality(Places) \in Nat
  BY <1>4, <1>6, FS_CardinalityType
<1> QED
  <2> HIDE DEF Places
  <2> QED BY <1>1, <1>4, <1>6, <1>7

\* When the parent pauses it has counted as many workers as it was asked for,
\* and no more than that live on: none is forked twice or forgotten, whatever
\* signals came during the resize.
THEOREM NoSurplus == Spec => []IdlePool
<1>1. Init => TargetInv
  BY DEF Init, TargetInv
<1>2. TypeInv /\ SafeInv /\ TargetInv => IdlePool
  <2> SUFFICES ASSUME TypeInv, SafeInv, TargetInv, pc \in {"pausing", "paused"}
               PROVE  currentThread = aimThread /\ Cardinality(Workers) <= aimThread
    BY DEF IdlePool
  <2>1. currentThread = aimThread
    BY DEF TargetInv
  <2>2. \A p \in Workers : \E n \in 0..(currentThread - 1) : arr[n] = p
    BY DEF SafeInv, NoStray, Uncounted, Exiting
  <2>3. Cardinality(Workers) <= currentThread
    BY <2>2, FewPlaces
  <2> QED BY <2>1, <2>3
<1> QED BY <1>1, <1>2, TargetStep, TypeInvariant, SafeInvariant, PTL DEF Spec
=============================================================================
