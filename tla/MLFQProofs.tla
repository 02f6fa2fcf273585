----------------------------- MODULE MLFQProofs -----------------------------
(***************************************************************************)
(* Machine-checked safety of the scheduler, for any consumers, tasks, task *)
(* file, quantum and slice: its types, and where its tasks are.            *)
(***************************************************************************)
EXTENDS MLFQ, FiniteSetTheorems, SequenceTheorems, TLAPS

-----------------------------------------------------------------------------
(* Type correctness *)

\* The program counters at which a consumer holds a task.
HoldingPCs == ConsumerPCs \ {"lock", "look", "wait", "waiting", "decLock", "dec"}

\* A consumer holds a task exactly between the read of a queue's head and the
\* task's free or insertion.
HandInv == \A c \in Consumers : hand[c] \in Tasks <=> pc[c] \in HoldingPCs

\* The producer inserts the line it has read.
LineInv == pc[Producer] \in {"lock0", "insert"} => line <= Len(Lines) /\ Lines[line] # Delay

TypeInv == TypeOK /\ HandInv /\ LineInv

\* What main sets up before it creates the threads is of the right types.
THEOREM TypeInvInit == Init => TypeInv
<1> SUFFICES ASSUME Init PROVE TypeInv
    OBVIOUS
<1> USE ThreadAssumption, TaskAssumption, LinesAssumption, SliceAssumption
<1>1. pc \in [Threads -> ConsumerPCs \cup ManagerPCs \cup ProducerPCs \cup CleanerPCs]
      /\ \A c \in Consumers : pc[c] = "lock"
      /\ pc[Manager] = "sleep" /\ pc[Producer] = "start" /\ pc[Cleaner] = "enter"
    BY DEF Init, Threads, ConsumerPCs, ManagerPCs, ProducerPCs, CleanerPCs
<1>2. TypeOK
  <2>1. tempLists \in [0..2 -> Seq(Tasks)] /\ mutex \in [0..3 -> Threads \cup {Nobody}]
      BY DEF Init
  <2>2. line \in 1..(Len(Lines) + 1)
      BY LenProperties DEF Init
  <2>3. allotment \in [Tasks -> 0..TIME_SLICE]
      BY DEF Init
  <2>0. loadDone \in BOOLEAN
      BY Zenon DEF Init
  <2>4. /\ working \in Int /\ freed \subseteq Tasks
        /\ taskNum \in [Types -> Nat] /\ waitTime \in [Types -> Int]
        /\ turnaroundTime \in [Types -> Int]
        /\ status \in {"running", "completed", "crashed"}
      BY DEF Init
  <2>5. time \in [Tasks -> Nat] /\ new \in [Tasks -> BOOLEAN]
      BY DEF Init
  <2>6. hand \in [Consumers -> Tasks \cup {NoTask}] /\ reg \in [Consumers -> Int]
      BY DEF Init
  <2>7. level \in [Consumers \cup {Manager} -> 0..2]
      BY DEF Init
  <2>8. signals \in [{Manager, Producer} -> Nat]
      BY DEF Init
  <2>9. /\ \A c \in Consumers : pc[c] \in ConsumerPCs
        /\ pc[Manager] \in ManagerPCs /\ pc[Producer] \in ProducerPCs
        /\ pc[Cleaner] \in CleanerPCs
      BY <1>1 DEF ConsumerPCs, ManagerPCs, ProducerPCs, CleanerPCs
  <2> QED
      BY <1>1, <2>0, <2>1, <2>2, <2>3, <2>4, <2>5, <2>6, <2>7, <2>8, <2>9
         DEF TypeOK, PcOK, ListOK, DataOK, OwnOK, RestOK
<1>3. HandInv
    BY <1>1 DEF Init, HandInv, HoldingPCs
<1>4. LineInv
    BY <1>1 DEF Init, LineInv
<1> QED
    BY <1>2, <1>3, <1>4 DEF TypeInv

\* cnt, the number of consumers, is a number.
LEMMA CntType == cnt \in Nat
BY ThreadAssumption, FS_CardinalityType DEF cnt

\* A line of the file that is not a DELAY is a task.
LEMMA LineIsTask ==
    ASSUME TypeInv, line <= Len(Lines), Lines[line] # Delay
    PROVE  Lines[line] \in Tasks
<1>1. Len(Lines) \in Nat
    BY LinesAssumption, LenProperties
<1>2. line \in 1..Len(Lines)
    BY <1>1 DEF TypeInv, TypeOK, DataOK
<1> QED
    BY <1>2, LinesAssumption, ElementOfSeq

\* What the move of a consumer keeps, whatever it does besides.
LEMMA ConsumerGoto ==
    ASSUME TypeInv, NEW c \in Consumers, NEW to \in ConsumerPCs, Goto(c, to)
    PROVE  /\ PcOK' /\ pc'[Producer] = pc[Producer] /\ pc'[Manager] = pc[Manager]
           /\ pc'[Cleaner] = pc[Cleaner]
           /\ pc'[c] = to /\ \A d \in Consumers : d # c => pc'[d] = pc[d]
BY ThreadAssumption DEF TypeInv, TypeOK, PcOK, Goto, Threads

\* What the move of the producer, the manager or the cleaner keeps.
LEMMA OtherGoto ==
    ASSUME TypeInv, NEW th \in {Manager, Producer, Cleaner}, NEW to, Goto(th, to),
           th = Manager => to \in ManagerPCs,
           th = Producer => to \in ProducerPCs,
           th = Cleaner => to \in CleanerPCs
    PROVE  /\ PcOK' /\ pc'[th] = to
           /\ \A x \in Threads : x # th => pc'[x] = pc[x]
BY ThreadAssumption DEF TypeInv, TypeOK, PcOK, Goto, Threads

\* A wakeUp under a lock: the waiters scan again, th goes on.
LEMMA WakeAllKeeps ==
    ASSUME TypeInv, NEW th \in Consumers \cup {Producer}, NEW to, WakeAll(th, to),
           IF th = Producer THEN to \in ProducerPCs ELSE to \in ConsumerPCs
    PROVE  /\ PcOK' /\ pc'[th] = to
           /\ \A x \in Threads : x \notin Consumers /\ x # th => pc'[x] = pc[x]
           /\ \A d \in Consumers : d # th =>
                pc'[d] = pc[d] \/ (pc[d] = "waiting" /\ pc'[d] = "lock")
BY ThreadAssumption
   DEF TypeInv, TypeOK, PcOK, WakeAll, Waiting, Threads, ConsumerPCs

\* A step that only moves the thread, or only takes a mutex, changes no type.
LEMMA StepKeeps ==
    ASSUME TypeInv, UNCHANGED <<dataVars, ownVars, signals, status>>
    PROVE  DataOK' /\ OwnOK' /\ RestOK'
BY DEF TypeInv, TypeOK, DataOK, OwnOK, RestOK, dataVars, taskVars, statVars, loadVars, ownVars

\* Every step of consume() keeps the type invariant.
LEMMA ConsumeTypeInv ==
    ASSUME TypeInv, NEW c \in Consumers, Consume(c), UNCHANGED status
    PROVE  TypeInv'
<1> USE DEF At, ConsumerPCs, HoldingPCs
<1> DEFINE Kept == DataOK' /\ OwnOK' /\ RestOK'
<1>a. ASSUME NEW m \in 0..3, NEW from, NEW to \in ConsumerPCs, TakeLock(c, from, m, to),
             from \in HoldingPCs <=> to \in HoldingPCs
      PROVE  TypeInv'
  <2>1. Goto(c, to) /\ pc[c] = from
      BY <1>a DEF TakeLock
  <2>2. PcOK' /\ Kept
      BY <1>a, <2>1, ConsumerGoto, StepKeeps DEF TakeLock
  <2>3. ListOK'
      BY <1>a DEF TakeLock, TypeInv, TypeOK, ListOK, Acquire, Threads
  <2>4. HandInv' /\ LineInv'
      BY <1>a, <2>1, ConsumerGoto DEF TakeLock, TypeInv, HandInv, LineInv, ownVars, dataVars, loadVars
  <2> QED
      BY <2>2, <2>3, <2>4 DEF TypeInv, TypeOK
<1>b. level[c] \in 0..2 /\ level[c] \in 0..3
    BY DEF TypeInv, TypeOK, OwnOK
<1>1. CASE Lock(c)
    BY <1>1, <1>a, <1>b DEF Lock
<1>2. CASE Look(c)
  <2>1. CASE tempLists[level[c]] # << >>
    <3>1. tempLists[level[c]][1] \in Tasks
        BY <1>b, <2>1 DEF TypeInv, TypeOK, ListOK
    <3>2. /\ Goto(c, "remove") /\ UNCHANGED <<mutex, level, tempLists, dataVars, reg, signals>>
          /\ hand' = [hand EXCEPT ![c] = tempLists[level[c]][1]]
        BY <1>2, <2>1 DEF Look
    <3>3. PcOK' /\ ListOK' /\ DataOK' /\ RestOK'
        BY <3>2, ConsumerGoto DEF TypeInv, TypeOK, ListOK, DataOK, RestOK, dataVars, taskVars, statVars, loadVars
    <3>4. OwnOK'
        BY <3>1, <3>2 DEF TypeInv, TypeOK, OwnOK
    <3>5. HandInv' /\ LineInv'
        BY <3>1, <3>2, ConsumerGoto DEF TypeInv, TypeOK, OwnOK, HandInv, LineInv, dataVars, loadVars
    <3> QED
        BY <3>3, <3>4, <3>5 DEF TypeInv, TypeOK
  <2>2. CASE tempLists[level[c]] = << >>
    <3> DEFINE to == IF level[c] = 2 THEN "wait" ELSE "lock"
    <3>1. /\ Goto(c, to) /\ UNCHANGED <<hand, tempLists, dataVars, reg, signals>>
          /\ Unlock(level[c]) /\ pc[c] = "look"
          /\ level' = [level EXCEPT ![c] = IF level[c] = 2 THEN 0 ELSE level[c] + 1]
        BY <1>2, <2>2 DEF Look
    <3>2. PcOK' /\ DataOK' /\ RestOK'
        BY <3>1, ConsumerGoto DEF TypeInv, TypeOK, DataOK, RestOK, dataVars, taskVars, statVars, loadVars
    <3>3. ListOK' /\ OwnOK'
        BY <3>1, <1>b DEF TypeInv, TypeOK, ListOK, OwnOK, Unlock
    <3>4. HandInv' /\ LineInv'
        BY <3>1, ConsumerGoto DEF TypeInv, HandInv, LineInv, dataVars, loadVars
    <3> QED
        BY <3>2, <3>3, <3>4 DEF TypeInv, TypeOK
  <2> QED
      BY <2>1, <2>2
<1>3. CASE Remove(c)
  <2>1. /\ Goto(c, "incLock") /\ pc[c] = "remove" /\ Unlock(level[c]) /\ RemoveHead(level[c])
        /\ UNCHANGED <<dataVars, ownVars, signals>>
      BY <1>3 DEF Remove
  <2>2. PcOK' /\ Kept
      BY <2>1, ConsumerGoto, StepKeeps
  <2>3. ListOK'
      BY <2>1, <1>b DEF TypeInv, TypeOK, ListOK, Unlock, RemoveHead
  <2>4. HandInv' /\ LineInv'
      BY <2>1, ConsumerGoto DEF TypeInv, HandInv, LineInv, ownVars, dataVars, loadVars
  <2> QED
      BY <2>2, <2>3, <2>4 DEF TypeInv, TypeOK
<1>4. CASE Wait(c)
  <2>1. Goto(c, "waiting") /\ pc[c] = "wait" /\ UNCHANGED <<tempLists, mutex, dataVars, ownVars, signals>>
      BY <1>4 DEF Wait, Step
  <2>2. PcOK' /\ Kept
      BY <2>1, ConsumerGoto, StepKeeps
  <2>3. ListOK' /\ HandInv' /\ LineInv'
      BY <2>1, ConsumerGoto, ZenonT(60) DEF TypeInv, TypeOK, ListOK, HandInv, LineInv, ownVars, dataVars, loadVars
  <2> QED
      BY <2>2, <2>3 DEF TypeInv, TypeOK
<1>c. ASSUME NEW from, NEW to \in ConsumerPCs, CountLock(c, from, to),
             from \in HoldingPCs <=> to \in HoldingPCs
      PROVE  TypeInv'
  <2>1. /\ Goto(c, to) /\ pc[c] = from /\ Acquire(c, 3) /\ reg' = [reg EXCEPT ![c] = working]
        /\ UNCHANGED <<tempLists, dataVars, hand, level, signals>>
      BY <1>c DEF CountLock
  <2>2. PcOK' /\ DataOK' /\ RestOK'
      BY <2>1, ConsumerGoto DEF TypeInv, TypeOK, DataOK, RestOK, dataVars, taskVars, statVars, loadVars
  <2>3. ListOK' /\ OwnOK'
      BY <2>1 DEF TypeInv, TypeOK, ListOK, OwnOK, DataOK, Acquire, Threads
  <2>4. HandInv' /\ LineInv'
      BY <1>c, <2>1, ConsumerGoto DEF TypeInv, HandInv, LineInv, dataVars, loadVars
  <2> QED
      BY <2>2, <2>3, <2>4 DEF TypeInv, TypeOK
<1>5. CASE IncLock(c)
    BY <1>5, <1>c DEF IncLock
<1>6. CASE DecLock(c)
    BY <1>6, <1>c DEF DecLock
<1>d. ASSUME NEW value \in Int, Count(c, value), NEW to \in ConsumerPCs, Goto(c, to),
             level' \in [Consumers \cup {Manager} -> 0..2],
             pc[c] \in HoldingPCs <=> to \in HoldingPCs
      PROVE  TypeInv'
  <2>1. PcOK' /\ DataOK' /\ RestOK'
      BY <1>d, ConsumerGoto DEF Count, TypeInv, TypeOK, DataOK, RestOK, taskVars, statVars, loadVars
  <2>2. ListOK' /\ OwnOK'
      BY <1>d DEF Count, TypeInv, TypeOK, ListOK, OwnOK, Unlock
  <2>3. HandInv' /\ LineInv'
      BY <1>d, ConsumerGoto DEF Count, TypeInv, HandInv, LineInv, loadVars
  <2> QED
      BY <2>1, <2>2, <2>3 DEF TypeInv, TypeOK
<1>7. CASE Inc(c)
  <2>1. reg[c] + 1 \in Int /\ level' \in [Consumers \cup {Manager} -> 0..2]
      BY <1>7 DEF Inc, TypeInv, TypeOK, OwnOK
  <2> QED
      BY <1>7, <2>1, <1>d DEF Inc
<1>8. CASE Dec(c)
  <2>1. reg[c] - 1 \in Int /\ level' \in [Consumers \cup {Manager} -> 0..2]
      BY <1>8 DEF Dec, TypeInv, TypeOK, OwnOK
  <2> QED
      BY <1>8, <2>1, <1>d DEF Dec
<1>e. ASSUME NEW from \in HoldingPCs, NEW to \in HoldingPCs, NEW sum \in [Types -> Int],
             LoadSum(c, from, sum, to)
      PROVE  TypeInv'
  <2>1. hand[c] \in Tasks
      BY <1>e DEF LoadSum, TypeInv, HandInv
  <2>2. sum[TypeOf[hand[c]]] \in Int
      BY <1>e, <2>1, TaskAssumption
  <2>3. /\ Goto(c, to) /\ pc[c] = from
        /\ reg' = [reg EXCEPT ![c] = sum[TypeOf[hand[c]]]]
        /\ UNCHANGED <<tempLists, mutex, dataVars, hand, level, signals>>
      BY <1>e DEF LoadSum
  <2>4. PcOK' /\ DataOK' /\ RestOK' /\ ListOK'
      BY <2>3, ConsumerGoto DEF TypeInv, TypeOK, ListOK, DataOK, RestOK, dataVars, taskVars, statVars, loadVars
  <2>5. OwnOK'
      BY <2>2, <2>3 DEF TypeInv, TypeOK, OwnOK
  <2>6. HandInv' /\ LineInv'
      BY <2>3, ConsumerGoto DEF TypeInv, HandInv, LineInv, dataVars, loadVars
  <2> QED
      BY <2>4, <2>5, <2>6 DEF TypeInv, TypeOK
<1>9. CASE Respond(c)
    BY <1>9, <1>e DEF Respond, TypeInv, TypeOK, DataOK
<1>10. CASE Turnaround(c)
    BY <1>10, <1>e DEF Turnaround, TypeInv, TypeOK, DataOK
<1>11. CASE Responded(c)
  <2>1. /\ Goto(c, "run") /\ pc[c] = "responded"
        /\ new' = [new EXCEPT ![hand[c]] = FALSE] /\ reg' = [reg EXCEPT ![c] = 0]
        /\ waitTime' = [waitTime EXCEPT ![TypeOf[hand[c]]] = reg[c] + 1]
        /\ UNCHANGED <<tempLists, mutex, working, time, allotment, freed, taskNum,
                       turnaroundTime, loadDone, line, hand, level, signals>>
      BY <1>11 DEF Responded, StoreSum, loadVars
  <2>2. PcOK' /\ ListOK' /\ RestOK' /\ OwnOK'
      BY <2>1, ConsumerGoto DEF TypeInv, TypeOK, ListOK, RestOK, OwnOK
  <2>3. new' \in [Tasks -> BOOLEAN]
      BY Zenon, <2>1 DEF TypeInv, TypeOK, DataOK
  <2>4. DataOK'
    <3>0. reg[c] + 1 \in Int /\ waitTime \in [Types -> Int]
        BY DEF TypeInv, TypeOK, DataOK, OwnOK
    <3>1. waitTime' \in [Types -> Int]
        BY <2>1, <3>0
    <3> QED
        BY <2>1, <2>3, <3>1 DEF TypeInv, TypeOK, DataOK
  <2>5. HandInv' /\ LineInv'
      BY <2>1, ConsumerGoto DEF TypeInv, HandInv, LineInv
  <2> QED
      BY <2>2, <2>4, <2>5 DEF TypeInv, TypeOK
<1>12. CASE Run(c)
  <2> DEFINE t == hand[c]
  <2>1. t \in Tasks /\ pc[c] = "run"
      BY <1>12 DEF Run, TypeInv, HandInv
  <2>2. PICK ioTime \in IOTimes(t) :
          LET left  == Left(t, ioTime)
              spare == allotment[t] - left
          IN /\ time' = [time EXCEPT ![t] = @ - left]
             /\ \/ /\ time[t] = left
                   /\ allotment' = [allotment EXCEPT ![t] = spare]
                   /\ Goto(c, "turnaround")
                   /\ UNCHANGED level
                \/ /\ time[t] # left
                   /\ allotment' = [allotment EXCEPT ![t] = AllotmentAfter(spare)]
                   /\ level' = [level EXCEPT ![c] = LevelAfter(@, spare)]
                   /\ Goto(c, "putLock")
      BY <1>12 DEF Run
  <2> DEFINE left  == Left(t, ioTime)
             spare == allotment[t] - left
  <2>3. left \in 0..time[t] /\ spare \in 0..TIME_SLICE
    <3>1. time[t] \in Nat /\ allotment[t] \in 0..TIME_SLICE
        BY <2>1 DEF TypeInv, TypeOK, DataOK
    <3>2. QUANTUM - ioTime \in Nat
        BY <2>2, SliceAssumption DEF IOTimes
    <3> QED
        BY <3>1, <3>2, SliceAssumption DEF Left, MIN
  <2>4. AllotmentAfter(spare) \in 0..TIME_SLICE /\ LevelAfter(level[c], spare) \in 0..2
      BY <2>3, SliceAssumption DEF AllotmentAfter, LevelAfter, MIN, TypeInv, TypeOK, OwnOK
  <2>5. UNCHANGED <<tempLists, mutex, working, new, freed, statVars, loadVars, hand, reg, signals>>
      BY <1>12 DEF Run
  <2>6. PICK to \in {"turnaround", "putLock"} : Goto(c, to)
      BY <2>2
  <2>7. time' \in [Tasks -> Nat] /\ allotment' \in [Tasks -> 0..TIME_SLICE]
        /\ level' \in [Consumers \cup {Manager} -> 0..2]
    <3>1. time' = [time EXCEPT ![t] = @ - left]
        BY <2>2
    <3>2. \/ allotment' = [allotment EXCEPT ![t] = spare] /\ UNCHANGED level
          \/ /\ allotment' = [allotment EXCEPT ![t] = AllotmentAfter(spare)]
             /\ level' = [level EXCEPT ![c] = LevelAfter(level[c], spare)]
        BY <2>2
    <3> HIDE DEF left, spare, t
    <3>3. time' \in [Tasks -> Nat]
        BY <2>1, <2>3, <3>1 DEF TypeInv, TypeOK, DataOK
    <3>4. allotment' \in [Tasks -> 0..TIME_SLICE]
        BY <2>1, <2>3, <2>4, <3>2 DEF TypeInv, TypeOK, DataOK
    <3>5. level' \in [Consumers \cup {Manager} -> 0..2]
        BY <2>4, <3>2 DEF TypeInv, TypeOK, OwnOK
    <3> QED
        BY <3>3, <3>4, <3>5
  <2>8. PcOK' /\ ListOK' /\ DataOK' /\ OwnOK' /\ RestOK'
      BY <2>5, <2>6, <2>7, ConsumerGoto
         DEF TypeInv, TypeOK, ListOK, DataOK, OwnOK, RestOK, statVars, loadVars
  <2>9. HandInv' /\ LineInv'
      BY <2>1, <2>5, <2>6, ConsumerGoto DEF TypeInv, HandInv, LineInv, loadVars
  <2> QED
      BY <2>8, <2>9 DEF TypeInv, TypeOK
<1>13. CASE Free(c)
  <2>1. /\ Goto(c, "decLock") /\ pc[c] = "free" /\ hand' = [hand EXCEPT ![c] = NoTask]
        /\ freed' = freed \cup {hand[c]} /\ reg' = [reg EXCEPT ![c] = 0]
        /\ turnaroundTime' = [turnaroundTime EXCEPT ![TypeOf[hand[c]]] = reg[c] + 1]
        /\ UNCHANGED <<tempLists, mutex, working, time, allotment, new, taskNum, waitTime,
                       loadDone, line, level, signals>>
      BY <1>13 DEF Free, StoreSum, loadVars
  <2>2. hand[c] \in Tasks
      BY <2>1 DEF TypeInv, HandInv
  <2>3. PcOK' /\ ListOK' /\ RestOK' /\ OwnOK'
      BY <2>1, ConsumerGoto DEF TypeInv, TypeOK, ListOK, RestOK, OwnOK
  <2>4. DataOK'
    <3>0. reg[c] + 1 \in Int /\ turnaroundTime \in [Types -> Int]
        BY DEF TypeInv, TypeOK, DataOK, OwnOK
    <3>1. turnaroundTime' \in [Types -> Int]
        BY <2>1, <3>0
    <3>2. freed' \subseteq Tasks
        BY <2>1, <2>2 DEF TypeInv, TypeOK, DataOK
    <3> QED
        BY <2>1, <3>1, <3>2 DEF TypeInv, TypeOK, DataOK
  <2>5. HandInv' /\ LineInv'
      BY <2>1, ConsumerGoto, TaskAssumption, ZenonT(60) DEF TypeInv, TypeOK, OwnOK, HandInv, LineInv
  <2> QED
      BY <2>3, <2>4, <2>5 DEF TypeInv, TypeOK
<1>14. CASE PutLock(c)
    BY <1>14, <1>a, <1>b DEF PutLock
<1>15. CASE Put(c)
  <2>1. /\ Insert(hand[c], level[c]) /\ WakeAll(c, "decLock") /\ Unlock(level[c])
        /\ pc[c] = "put" /\ hand' = [hand EXCEPT ![c] = NoTask]
        /\ UNCHANGED <<dataVars, level, reg, signals>>
      BY <1>15 DEF Put
  <2>2. hand[c] \in Tasks
      BY <2>1 DEF TypeInv, HandInv
  <2>3. DataOK' /\ RestOK' /\ OwnOK'
      BY <2>1 DEF TypeInv, TypeOK, DataOK, RestOK, OwnOK, dataVars, taskVars, statVars, loadVars
  <2>4. ListOK'
      BY <2>1, <2>2, <1>b DEF TypeInv, TypeOK, ListOK, Insert, Unlock
  <2>a. /\ PcOK' /\ pc'[c] = "decLock" /\ pc'[Producer] = pc[Producer]
        /\ \A d \in Consumers : d # c =>
             pc'[d] = pc[d] \/ (pc[d] = "waiting" /\ pc'[d] = "lock")
      BY <2>1, WakeAllKeeps, ThreadAssumption DEF Threads
  <2>b. HandInv'
      BY <2>1, <2>a, TaskAssumption DEF TypeInv, TypeOK, OwnOK, HandInv
  <2>5. PcOK' /\ HandInv' /\ LineInv'
      BY <2>1, <2>a, <2>b DEF TypeInv, LineInv, dataVars, loadVars
  <2> QED
      BY <2>3, <2>4, <2>5 DEF TypeInv, TypeOK
<1> QED
    BY <1>1, <1>2, <1>3, <1>4, <1>5, <1>6, <1>7, <1>8, <1>9, <1>10, <1>11, <1>12, <1>13,
       <1>14, <1>15 DEF Consume

\* So does a return of pthread_cond_wait that nobody signalled.
LEMMA SpuriousTypeInv ==
    ASSUME TypeInv, NEW c \in Consumers, SpuriousWakeup(c), UNCHANGED status
    PROVE  TypeInv'
<1>1. Goto(c, "lock") /\ pc[c] = "waiting" /\ UNCHANGED <<tempLists, mutex, dataVars, ownVars, signals>>
    BY DEF SpuriousWakeup, Step, At
<1>2. "lock" \in ConsumerPCs
    BY DEF ConsumerPCs
<1>3. PcOK' /\ DataOK' /\ OwnOK' /\ RestOK'
    BY <1>1, <1>2, ConsumerGoto, StepKeeps
<1>4. ListOK' /\ HandInv' /\ LineInv'
    BY <1>1, <1>2, ConsumerGoto
       DEF TypeInv, TypeOK, ListOK, HandInv, HoldingPCs, LineInv, ownVars, dataVars, loadVars
<1> QED
    BY <1>3, <1>4 DEF TypeInv, TypeOK

\* One iteration of a wakeUp without a lock, of the producer or the manager.
LEMMA SignalTypeInv ==
    ASSUME TypeInv, NEW th \in {Producer, Manager}, NEW to, Signal(th, to), UNCHANGED status,
           th = Producer => to = "next", th = Manager => to = "lock3"
    PROVE  TypeInv'
<1>1. signals' \in [{Manager, Producer} -> Nat]
    BY DEF Signal, TypeInv, TypeOK, RestOK
<1>2. DataOK' /\ OwnOK' /\ ListOK'
    BY DEF Signal, TypeInv, TypeOK, DataOK, OwnOK, ListOK, dataVars, taskVars, statVars, loadVars, ownVars
<1>3. RestOK'
    BY <1>1 DEF TypeInv, TypeOK, RestOK
<1>4. CASE Goto(th, to)
  <2>1. PcOK' /\ pc'[th] = to /\ \A x \in Threads : x # th => pc'[x] = pc[x]
      BY <1>4, OtherGoto, ThreadAssumption DEF ManagerPCs, ProducerPCs
  <2>2. HandInv' /\ LineInv'
      BY <2>1, ThreadAssumption
         DEF Signal, TypeInv, HandInv, LineInv, Threads, dataVars, loadVars, ownVars
  <2> QED
      BY <1>2, <1>3, <2>1, <2>2 DEF TypeInv, TypeOK
<1>5. ASSUME NEW c \in Waiting, Goto(c, "lock") PROVE TypeInv'
  <2>1. c \in Consumers /\ pc[c] = "waiting" /\ "lock" \in ConsumerPCs
      BY <1>5 DEF Waiting, ConsumerPCs
  <2>2. PcOK'
      BY <1>5, <2>1, ConsumerGoto
  <2>3. HandInv' /\ LineInv'
      BY <1>5, <2>1, ConsumerGoto
         DEF Signal, TypeInv, HandInv, HoldingPCs, LineInv, dataVars, loadVars, ownVars
  <2> QED
      BY <1>2, <1>3, <2>2, <2>3 DEF TypeInv, TypeOK
<1>6. CASE UNCHANGED pc
    BY <1>2, <1>3, <1>6
       DEF Signal, TypeInv, TypeOK, PcOK, HandInv, LineInv, dataVars, loadVars, ownVars
<1> QED
    BY <1>4, <1>5, <1>6 DEF Signal

\* A step of the producer, the manager or the cleaner that keeps the hands.
LEMMA OtherTypeInv ==
    ASSUME TypeInv, NEW th \in {Manager, Producer, Cleaner}, NEW to, Goto(th, to),
           th = Manager => to \in ManagerPCs,
           th = Producer => to \in ProducerPCs,
           th = Cleaner => to \in CleanerPCs,
           th # Producer => line' = line,
           UNCHANGED hand, LineInv', ListOK', DataOK', OwnOK', RestOK'
    PROVE  TypeInv'
<1>1. PcOK' /\ \A c \in Consumers : pc'[c] = pc[c]
    BY OtherGoto, ThreadAssumption DEF Threads
<1>2. HandInv'
    BY <1>1 DEF TypeInv, HandInv
<1> QED
    BY <1>1, <1>2 DEF TypeInv, TypeOK

\* The same, for a step that changes at most the queues and the mutexes.
LEMMA OtherListTypeInv ==
    ASSUME TypeInv, NEW th \in {Manager, Producer, Cleaner}, NEW to, Goto(th, to),
           th = Manager => to \in ManagerPCs,
           th = Cleaner => to \in CleanerPCs,
           th = Producer => to \in ProducerPCs /\ (to \in {"lock0", "insert"} => pc[th] = "lock0"),
           UNCHANGED <<dataVars, ownVars, signals, status>>, ListOK'
    PROVE  TypeInv'
<1>1. DataOK' /\ OwnOK' /\ RestOK'
    BY StepKeeps
<1>2. UNCHANGED <<hand, line>>
    BY DEF dataVars, loadVars, ownVars
<1>3. LineInv'
    BY <1>2, OtherGoto, ThreadAssumption DEF TypeInv, LineInv, Threads
<1> QED
    BY <1>1, <1>2, <1>3, OtherTypeInv

\* Taking a mutex keeps it.
LEMMA TakeLockTypeInv ==
    ASSUME TypeInv, NEW th \in {Manager, Producer, Cleaner}, NEW m \in 0..3, NEW from, NEW to,
           TakeLock(th, from, m, to), UNCHANGED status,
           th = Manager => to \in ManagerPCs,
           th = Cleaner => to \in CleanerPCs,
           th = Producer => from = "lock0" /\ to = "insert"
    PROVE  TypeInv'
<1>1. ListOK'
    BY DEF TakeLock, Acquire, TypeInv, TypeOK, ListOK, Threads
<1> QED
    BY <1>1, OtherListTypeInv DEF TakeLock, At, ProducerPCs

\* Every step of produce() keeps it.
LEMMA ProduceTypeInv ==
    ASSUME TypeInv, Produce, UNCHANGED status
    PROVE  TypeInv'
<1> USE DEF At
<1>1. CASE StartProducer
  <2>1. ListOK'
      BY <1>1 DEF StartProducer, Step, TypeInv, TypeOK, ListOK
  <2> QED
      BY <1>1, <2>1, OtherListTypeInv, ThreadAssumption DEF StartProducer, Step, ProducerPCs
<1>2. CASE ReadDelay
  <2>1. /\ Goto(Producer, "wake") /\ line <= Len(Lines) /\ line' = line + 1
        /\ signals' = [signals EXCEPT ![Producer] = cnt]
        /\ UNCHANGED <<tempLists, mutex, working, taskVars, statVars, loadDone, hand, level, reg>>
      BY <1>2 DEF ReadDelay, BeginWakeUp, ownVars
  <2>2. ListOK' /\ OwnOK'
      BY <2>1 DEF TypeInv, TypeOK, ListOK, OwnOK
  <2>3. line' \in 1..(Len(Lines) + 1)
      BY <2>1, LenProperties, LinesAssumption DEF TypeInv, TypeOK, DataOK
  <2>4. DataOK'
      BY <2>1, <2>3 DEF TypeInv, TypeOK, DataOK, taskVars, statVars
  <2>5. RestOK'
      BY <2>1, CntType DEF TypeInv, TypeOK, RestOK
  <2>6. LineInv'
      BY <2>1, OtherGoto, ThreadAssumption DEF LineInv, ProducerPCs
  <2> QED
      BY <2>1, <2>2, <2>4, <2>5, <2>6, OtherTypeInv, ThreadAssumption DEF ProducerPCs
<1>3. CASE Signal(Producer, "next")
    BY <1>3, SignalTypeInv, ThreadAssumption
<1>4. CASE ReadTask
  <2> DEFINE t == Lines[line]
  <2>1. /\ Goto(Producer, "lock0") /\ line <= Len(Lines) /\ t # Delay
        /\ taskNum' = [taskNum EXCEPT ![TypeOf[t]] = @ + 1]
        /\ time' = [time EXCEPT ![t] = TimeOf[t]]
        /\ allotment' = [allotment EXCEPT ![t] = TIME_SLICE]
        /\ new' = [new EXCEPT ![t] = TRUE]
        /\ UNCHANGED <<tempLists, mutex, working, freed, waitTime, turnaroundTime, loadDone, line,
                       hand, level, reg, signals>>
      BY <1>4 DEF ReadTask, loadVars, ownVars
  <2>2. ListOK' /\ OwnOK' /\ RestOK'
      BY <2>1 DEF TypeInv, TypeOK, ListOK, OwnOK, RestOK
  <2>3. t \in Tasks
      BY <2>1, LineIsTask
  <2>4. time' \in [Tasks -> Nat] /\ allotment' \in [Tasks -> 0..TIME_SLICE]
        /\ taskNum' \in [Types -> Nat]
    <3>1. TimeOf[t] \in Nat /\ TypeOf[t] \in Types /\ TIME_SLICE \in 0..TIME_SLICE
        BY <2>3, TaskAssumption, SliceAssumption
    <3> HIDE DEF t
    <3>2. time' \in [Tasks -> Nat]
        BY <2>1, <3>1 DEF TypeInv, TypeOK, DataOK
    <3>3. allotment' \in [Tasks -> 0..TIME_SLICE]
        BY <2>1, <3>1 DEF TypeInv, TypeOK, DataOK
    <3>4. taskNum' \in [Types -> Nat]
        BY <2>1, <3>1 DEF TypeInv, TypeOK, DataOK
    <3> QED
        BY <3>2, <3>3, <3>4
  <2>5. new' \in [Tasks -> BOOLEAN]
      BY Zenon, <2>1 DEF TypeInv, TypeOK, DataOK
  <2>6. DataOK'
      BY <2>1, <2>4, <2>5 DEF TypeInv, TypeOK, DataOK
  <2>7. LineInv'
      BY <2>1 DEF LineInv
  <2> QED
      BY <2>1, <2>2, <2>6, <2>7, OtherTypeInv, ThreadAssumption DEF ProducerPCs
<1>5. CASE TakeLock(Producer, "lock0", 0, "insert")
    BY <1>5, TakeLockTypeInv, ThreadAssumption
<1>6. CASE InsertTask
  <2>1. /\ Insert(Lines[line], 0) /\ WakeAll(Producer, "next") /\ Unlock(0)
        /\ pc[Producer] = "insert" /\ line' = line + 1
        /\ UNCHANGED <<working, taskVars, statVars, loadDone, hand, level, reg, signals>>
      BY <1>6 DEF InsertTask, ownVars
  <2>2. Lines[line] \in Tasks /\ line \in 1..Len(Lines)
      BY <2>1, LineIsTask, LenProperties, LinesAssumption DEF TypeInv, LineInv, TypeOK, DataOK
  <2>3. RestOK' /\ OwnOK'
      BY <2>1 DEF TypeInv, TypeOK, RestOK, OwnOK
  <2>4. line' \in 1..(Len(Lines) + 1)
      BY <2>1, <2>2, LenProperties, LinesAssumption
  <2>5. DataOK'
      BY <2>1, <2>4 DEF TypeInv, TypeOK, DataOK, taskVars, statVars
  <2>6. ListOK'
      BY <2>1, <2>2 DEF TypeInv, TypeOK, ListOK, Insert, Unlock
  <2>7. /\ PcOK' /\ pc'[Producer] = "next"
        /\ \A d \in Consumers : pc'[d] = pc[d] \/ (pc[d] = "waiting" /\ pc'[d] = "lock")
      BY <2>1, WakeAllKeeps, ThreadAssumption DEF Threads, ProducerPCs
  <2>8. HandInv' /\ LineInv'
      BY <2>1, <2>7 DEF TypeInv, HandInv, HoldingPCs, LineInv
  <2> QED
      BY <2>3, <2>5, <2>6, <2>7, <2>8 DEF TypeInv, TypeOK
<1>7. CASE EndOfFile
  <2>1. /\ Goto(Producer, "done") /\ loadDone' = TRUE
        /\ UNCHANGED <<tempLists, mutex, working, taskVars, statVars, line, hand, level, reg, signals>>
      BY <1>7 DEF EndOfFile, ownVars
  <2>2. ListOK' /\ OwnOK' /\ RestOK'
      BY <2>1 DEF TypeInv, TypeOK, ListOK, OwnOK, RestOK
  <2>3. loadDone' \in BOOLEAN
      BY Zenon, <2>1
  <2>4. DataOK'
      BY <2>1, <2>3 DEF TypeInv, TypeOK, DataOK, taskVars, statVars
  <2>5. LineInv'
      BY <2>1, OtherGoto, ThreadAssumption DEF LineInv, ProducerPCs
  <2> QED
      BY <2>1, <2>2, <2>4, <2>5, OtherTypeInv, ThreadAssumption DEF ProducerPCs
<1> QED
    BY <1>1, <1>2, <1>3, <1>4, <1>5, <1>6, <1>7 DEF Produce

\* Every step of manage() keeps it.
LEMMA ManageTypeInv ==
    ASSUME TypeInv, Manage, UNCHANGED status
    PROVE  TypeInv'
<1> USE ThreadAssumption DEF At, ManagerPCs
<1>1. CASE Step(Manager, "sleep", "lock0")
  <2>1. ListOK'
      BY <1>1 DEF Step, TypeInv, TypeOK, ListOK
  <2> QED
      BY <1>1, <2>1, OtherListTypeInv DEF Step
<1>2. CASE \/ TakeLock(Manager, "lock0", 0, "lock1")
           \/ TakeLock(Manager, "lock1", 1, "drain1")
           \/ TakeLock(Manager, "lock2", 2, "drain2")
           \/ TakeLock(Manager, "lock3", 3, "check")
    BY <1>2, TakeLockTypeInv
<1>3. ASSUME NEW l \in {1, 2}, LevelUp(l)
      PROVE  tempLists' \in [0..2 -> Seq(Tasks)]
  <2>1. tempLists[0] \o tempLists[l] \in Seq(Tasks) /\ << >> \in Seq(Tasks)
      BY ConcatProperties DEF TypeInv, TypeOK, ListOK
  <2> QED
      BY <1>3, <2>1 DEF LevelUp, TypeInv, TypeOK, ListOK
<1>4. CASE DrainOne
  <2>1. ListOK'
      BY <1>3, <1>4 DEF DrainOne, Unlock, TypeInv, TypeOK, ListOK
  <2> QED
      BY <1>4, <2>1, OtherListTypeInv DEF DrainOne
<1>5. CASE DrainTwo
  <2>1. ListOK'
      BY <1>3, <1>5 DEF DrainTwo, TypeInv, TypeOK, ListOK
  <2> QED
      BY <1>5, <2>1, OtherListTypeInv DEF DrainTwo
<1>6. CASE Scan
  <2>1. level[Manager] \in 0..2
      BY DEF TypeInv, TypeOK, OwnOK
  <2>2. PICK to \in {"wake", "lock3", "scan"} : Goto(Manager, to)
      BY <1>6 DEF Scan, BeginWakeUp
  <2>3. ListOK' /\ DataOK'
      BY <1>6 DEF Scan, TypeInv, TypeOK, ListOK, DataOK, dataVars, taskVars, statVars, loadVars
  <2>4. RestOK'
      BY <1>6, CntType DEF Scan, BeginWakeUp, TypeInv, TypeOK, RestOK
  <2>5. OwnOK'
      BY <1>6, <2>1 DEF Scan, TypeInv, TypeOK, OwnOK
  <2>6. line' = line /\ hand' = hand
      BY <1>6 DEF Scan, dataVars, loadVars
  <2>7. LineInv'
      BY <2>2, <2>6, OtherGoto DEF TypeInv, LineInv, Threads
  <2> QED
      BY <2>2, <2>3, <2>4, <2>5, <2>6, <2>7, OtherTypeInv
<1>7. CASE Signal(Manager, "lock3")
    BY <1>7, SignalTypeInv
<1>8. CASE CheckDone
  <2>1. PcOK' /\ pc'[Producer] = pc[Producer] /\ \A c \in Consumers : pc'[c] = pc[c]
      BY <1>8 DEF CheckDone, TypeInv, TypeOK, PcOK, Threads, CleanerPCs
  <2>2. DataOK' /\ OwnOK' /\ RestOK'
      BY <1>8, StepKeeps DEF CheckDone
  <2>3. ListOK'
      BY <1>8 DEF CheckDone, Unlock, TypeInv, TypeOK, ListOK
  <2>4. HandInv' /\ LineInv'
      BY <1>8, <2>1 DEF CheckDone, TypeInv, HandInv, LineInv, dataVars, loadVars, ownVars
  <2> QED
      BY <2>1, <2>2, <2>3, <2>4 DEF TypeInv, TypeOK
<1> QED
    BY <1>1, <1>2, <1>4, <1>5, <1>6, <1>7, <1>8 DEF Manage

\* The cleaner's wait and its return keep it.
LEMMA CleanTypeInv ==
    ASSUME TypeInv, Clean, UNCHANGED status
    PROVE  TypeInv'
<1> USE ThreadAssumption DEF At, CleanerPCs
<1>1. CASE EnterWait
  <2>1. ListOK'
      BY <1>1 DEF EnterWait, Unlock, TypeInv, TypeOK, ListOK
  <2> QED
      BY <1>1, <2>1, OtherListTypeInv DEF EnterWait
<1>2. CASE TakeLock(Cleaner, "relock", 3, "report")
    BY <1>2, TakeLockTypeInv
<1> QED
    BY <1>1, <1>2 DEF Clean

\* Printing and exiting changes only the status.
LEMMA ReportTypeInv ==
    ASSUME TypeInv, Report
    PROVE  TypeInv'
BY DEF Report, TypeInv, TypeOK, PcOK, ListOK, DataOK, OwnOK, RestOK, HandInv, LineInv,
       dataVars, taskVars, statVars, loadVars, ownVars

\* A step that changes nothing keeps it.
LEMMA StutterTypeInv ==
    ASSUME TypeInv, UNCHANGED vars
    PROVE  TypeInv'
BY DEF vars, TypeInv, TypeOK, PcOK, ListOK, DataOK, OwnOK, RestOK, HandInv, LineInv,
       dataVars, taskVars, statVars, loadVars, ownVars

\* The type invariant is inductive.
THEOREM TypeInvNext == TypeInv /\ [Next]_vars => TypeInv'
BY ConsumeTypeInv, SpuriousTypeInv, ProduceTypeInv, ManageTypeInv, CleanTypeInv,
   ReportTypeInv, StutterTypeInv DEF Next

\* Type correctness: no task ever has a negative time or allotment left, no
\* thread leaves its code, whatever the tasks and the number of consumers.
THEOREM TypeCorrect == Spec => []TypeOK
<1>1. TypeInv => TypeOK
    BY DEF TypeInv
<1> QED
    BY <1>1, TypeInvInit, TypeInvNext, PTL DEF Spec

-----------------------------------------------------------------------------
(***************************************************************************)
(* No task is lost, duplicated or used after its free: Ownership, for any  *)
(* consumers and any task file.  The argument: a level's queue is changed  *)
(* only by the holder of its lock, so the head a consumer has read is      *)
(* still the head when it removes it, and every operation moves one task   *)
(* (or a whole queue) from one place to another.                           *)
(***************************************************************************)

-----------------------------------------------------------------------------
(* What the operations on a queue do to the set of its elements *)

\* The elements of a queue, by index.
ByIndex(s) ==
    /\ DOMAIN s = 1..Len(s) /\ Len(s) \in Nat
    /\ \A x : x \in Range(s) <=> (\E i \in 1..Len(s) : x = s[i])

\* Every queue has its elements at the indices up to its length.
LEMMA SeqByIndex ==
    ASSUME NEW S, NEW s \in Seq(S)
    PROVE  ByIndex(s)
<1>1. DOMAIN s = 1..Len(s) /\ Len(s) \in Nat
    BY LenProperties
<1>2. \A x : x \in Range(s) <=> (\E i \in 1..Len(s) : x = s[i])
    BY <1>1, Zenon DEF Range
<1> QED
    BY <1>1, <1>2 DEF ByIndex

\* STAILQ_INSERT_TAIL adds its element, and keeps the others.
LEMMA AppendPlaces ==
    ASSUME NEW S, NEW s \in Seq(S), NEW e \in S
    PROVE  /\ Range(Append(s, e)) = Range(s) \cup {e}
           /\ IsInjective(s) /\ e \notin Range(s) => IsInjective(Append(s, e))
<1> DEFINE a == Append(s, e)
<1>1. /\ a \in Seq(S) /\ Len(a) = Len(s) + 1 /\ a[Len(s) + 1] = e
      /\ \A i \in 1..Len(s) : a[i] = s[i]
    BY AppendProperties
<1>2. ByIndex(s) /\ ByIndex(a)
    BY <1>1, SeqByIndex
<1> HIDE DEF a
<1> USE DEF ByIndex
<1>3. Range(a) = Range(s) \cup {e}
    BY <1>1, <1>2
<1>4. ASSUME IsInjective(s), e \notin Range(s) PROVE IsInjective(a)
  <2> SUFFICES ASSUME NEW i \in 1..(Len(s) + 1), NEW j \in 1..(Len(s) + 1), a[i] = a[j]
               PROVE  i = j
      BY <1>1, <1>2 DEF IsInjective
  <2>1. CASE i \in 1..Len(s) /\ j \in 1..Len(s)
      BY <1>1, <1>2, <1>4, <2>1 DEF IsInjective
  <2>2. CASE i = Len(s) + 1 \/ j = Len(s) + 1
      BY <1>1, <1>2, <1>4, <2>2
  <2> QED
      BY <2>1, <2>2, <1>2
<1> QED
    BY <1>3, <1>4 DEF a

\* STAILQ_REMOVE_HEAD removes the first element, and keeps the others.
LEMMA TailPlaces ==
    ASSUME NEW S, NEW s \in Seq(S), s # << >>, IsInjective(s)
    PROVE  /\ s[1] \in Range(s)
           /\ Range(SubSeq(s, 2, Len(s))) = Range(s) \ {s[1]}
           /\ IsInjective(SubSeq(s, 2, Len(s)))
<1> DEFINE a == SubSeq(s, 2, Len(s))
<1>1. ByIndex(s) /\ \A i \in 1..Len(s) : s[i] \in S
    BY SeqByIndex, ElementOfSeq
<1>2. Len(s) # 0
    BY EmptySeq, LenProperties
<1>3. /\ a \in Seq(S) /\ Len(a) = Len(s) - 1
      /\ \A i \in 1..(Len(s) - 1) : a[i] = s[i + 1]
    BY <1>1, <1>2, SubSeqProperties DEF ByIndex
<1>4. ByIndex(a)
    BY <1>3, SeqByIndex
<1> HIDE DEF a
<1> USE DEF ByIndex
<1>5. s[1] \in Range(s)
    BY <1>1, <1>2
<1>6. Range(a) \subseteq Range(s) \ {s[1]}
  <2> SUFFICES ASSUME NEW i \in 1..(Len(s) - 1) PROVE a[i] \in Range(s) /\ a[i] # s[1]
      BY <1>3, <1>4
  <2>1. i + 1 \in 1..Len(s) /\ 1 \in 1..Len(s) /\ i + 1 # 1
      BY <1>1, <1>2
  <2> QED
      BY <2>1, <1>1, <1>3 DEF IsInjective
<1>7. Range(s) \ {s[1]} \subseteq Range(a)
  <2> SUFFICES ASSUME NEW i \in 1..Len(s), s[i] # s[1] PROVE s[i] \in Range(a)
      BY <1>1
  <2>1. i - 1 \in 1..(Len(s) - 1) /\ (i - 1) + 1 = i
      BY <1>1
  <2>2. a[i - 1] = s[i]
      BY <2>1, <1>3
  <2> QED
      BY <2>1, <2>2, <1>3, <1>4
<1>8. IsInjective(a)
  <2> SUFFICES ASSUME NEW i \in 1..(Len(s) - 1), NEW j \in 1..(Len(s) - 1), a[i] = a[j]
               PROVE  i = j
      BY <1>3, <1>4 DEF IsInjective
  <2>1. i + 1 \in 1..Len(s) /\ j + 1 \in 1..Len(s) /\ s[i + 1] = s[j + 1]
      BY <1>1, <1>3
  <2>2. i + 1 = j + 1
      BY <2>1, <1>1 DEF IsInjective
  <2> QED
      BY <2>2
<1> QED
    BY <1>5, <1>6, <1>7, <1>8 DEF a

\* The manager's level-up puts one queue behind another.
LEMMA ConcatPlaces ==
    ASSUME NEW S, NEW s \in Seq(S), NEW u \in Seq(S)
    PROVE  /\ Range(s \o u) = Range(s) \cup Range(u)
           /\ IsInjective(s) /\ IsInjective(u) /\ Range(s) \cap Range(u) = {}
                => IsInjective(s \o u)
<1> DEFINE a == s \o u
<1>1. /\ a \in Seq(S) /\ Len(a) = Len(s) + Len(u)
      /\ \A i \in 1..(Len(s) + Len(u)) : a[i] = IF i <= Len(s) THEN s[i] ELSE u[i - Len(s)]
    BY ConcatProperties
<1>2. ByIndex(s) /\ ByIndex(u)
    BY SeqByIndex
<1>3. ByIndex(a)
    BY <1>1, SeqByIndex
<1> HIDE DEF a
<1> USE DEF ByIndex
<1>4. \A i \in 1..Len(s) : i \in DOMAIN a /\ a[i] = s[i]
    BY <1>1, <1>2, <1>3
<1>5. \A i \in 1..Len(u) : i + Len(s) \in DOMAIN a /\ a[i + Len(s)] = u[i]
  <2> TAKE i \in 1..Len(u)
  <2>1. i + Len(s) \in 1..(Len(s) + Len(u)) /\ ~ (i + Len(s) <= Len(s)) /\ (i + Len(s)) - Len(s) = i
      BY <1>2
  <2> QED
      BY <2>1, <1>1, <1>3
<1>6. \A i \in DOMAIN a : \/ i \in 1..Len(s) /\ a[i] = s[i]
                          \/ i - Len(s) \in 1..Len(u) /\ a[i] = u[i - Len(s)]
    BY <1>1, <1>2, <1>3
<1>7. Range(a) = Range(s) \cup Range(u)
  <2>1. Range(a) \subseteq Range(s) \cup Range(u)
      BY <1>2, <1>3, <1>6
  <2>2. Range(s) \subseteq Range(a)
      BY <1>2, <1>3, <1>4
  <2>3. Range(u) \subseteq Range(a)
      BY <1>2, <1>3, <1>5
  <2> QED
      BY <2>1, <2>2, <2>3
<1>8. ASSUME IsInjective(s), IsInjective(u), Range(s) \cap Range(u) = {}
      PROVE  IsInjective(a)
  <2> SUFFICES ASSUME NEW i \in DOMAIN a, NEW j \in DOMAIN a, a[i] = a[j]
               PROVE  i = j
      BY DEF IsInjective
  <2>0. i \in Int /\ j \in Int
      BY <1>2, <1>3
  <2>1. CASE i \in 1..Len(s) /\ a[i] = s[i] /\ j \in 1..Len(s) /\ a[j] = s[j]
      BY <2>1, <1>2, <1>8 DEF IsInjective
  <2>2. CASE /\ i - Len(s) \in 1..Len(u) /\ a[i] = u[i - Len(s)]
             /\ j - Len(s) \in 1..Len(u) /\ a[j] = u[j - Len(s)]
    <3>1. i - Len(s) = j - Len(s)
        BY <2>2, <1>2, <1>8 DEF IsInjective
    <3> QED
        BY <3>1, <2>0, <1>2
  <2>3. ASSUME NEW k \in 1..Len(s), NEW m \in 1..Len(u) PROVE s[k] # u[m]
      BY <1>2, <1>8
  <2> QED
      BY <1>6, <2>1, <2>2, <2>3
<1> QED
    BY <1>7, <1>8 DEF a

-----------------------------------------------------------------------------
(* The level locks *)

\* Thread th is in a critical section of the lock of level m.
InSection(th, m) ==
    \/ th \in Consumers /\ level[th] = m /\ pc[th] \in {"look", "remove", "put"}
    \/ th = Producer /\ m = 0 /\ pc[th] = "insert"
    \/ th = Manager /\ \/ m = 0 /\ pc[th] \in {"lock1", "drain1", "lock2", "drain2"}
                       \/ m = 1 /\ pc[th] = "drain1"
                       \/ m = 2 /\ pc[th] = "drain2"

\* A level is touched by the holder of its lock only.
LockInv == \A th \in Threads, m \in 0..2 : InSection(th, m) => mutex[m] = th

\* The head a consumer has read is still the head of its queue.
HeadInv ==
    \A c \in Consumers : pc[c] = "remove" =>
      tempLists[level[c]] # << >> /\ hand[c] = tempLists[level[c]][1]

SectInv == LockInv /\ HeadInv

\* What a step of th may do to the other threads: wake a consumer, and the
\* cleaner.
Frame(th) ==
    /\ \A x \in Threads \ {th, Cleaner} :
         pc'[x] = pc[x] \/ (x \in Consumers /\ pc[x] = "waiting" /\ pc'[x] = "lock")
    /\ \A c \in Consumers \ {th} : level'[c] = level[c] /\ hand'[c] = hand[c]

\* No thread is in a section before it has run.
LEMMA SectInit == Init => SectInv
BY ThreadAssumption DEF Init, SectInv, LockInv, HeadInv, InSection, Threads

\* A step of th keeps the locks when it releases none but its own, changes no
\* queue but those it has locked, and holds the locks of the sections it is in.
LEMMA SectStep ==
    ASSUME SectInv, TypeInv, NEW th \in Threads, Frame(th),
           \A m \in 0..2 : mutex'[m] = mutex[m] \/ mutex[m] \in {th, Nobody},
           \A m \in 0..2 : tempLists'[m] = tempLists[m] \/ mutex[m] = th,
           \A m \in 0..2 : InSection(th, m)' => mutex'[m] = th,
           th \in Consumers /\ pc'[th] = "remove" =>
             tempLists'[level'[th]] # << >> /\ hand'[th] = tempLists'[level'[th]][1]
    PROVE  SectInv'
<1>1. \A x \in Threads \ {th}, m \in 0..2 : InSection(x, m)' => InSection(x, m)
    BY ThreadAssumption DEF Frame, InSection, Threads
<1>2. LockInv'
  <2> SUFFICES ASSUME NEW x \in Threads, NEW m \in 0..2, InSection(x, m)', x # th
               PROVE  mutex'[m] = x
      BY DEF LockInv
  <2>1. mutex[m] = x
      BY <1>1 DEF SectInv, LockInv
  <2> QED
      BY <2>1, ThreadAssumption
<1>3. HeadInv'
  <2> SUFFICES ASSUME NEW c \in Consumers, c # th, pc'[c] = "remove"
               PROVE  tempLists'[level'[c]] # << >> /\ hand'[c] = tempLists'[level'[c]][1]
      BY DEF HeadInv
  <2>1. c \in Threads /\ level[c] \in 0..2
      BY DEF Threads, TypeInv, TypeOK, OwnOK
  <2>2. pc[c] = "remove" /\ level'[c] = level[c] /\ hand'[c] = hand[c]
      BY <2>1, ThreadAssumption DEF Frame
  <2>3. mutex[level[c]] = c
      BY <2>1, <2>2 DEF SectInv, LockInv, InSection
  <2>4. tempLists'[level[c]] = tempLists[level[c]]
      BY <2>1, <2>3
  <2> QED
      BY <2>2, <2>4 DEF SectInv, HeadInv
<1> QED
    BY <1>2, <1>3 DEF SectInv

\* A thread that moves, and changes its own variables only, leaves the others.
LEMMA GotoFrame ==
    ASSUME TypeInv, NEW th \in Threads, NEW to, Goto(th, to),
           hand' = hand \/ \E t : hand' = [hand EXCEPT ![th] = t],
           level' = level \/ \E l : level' = [level EXCEPT ![th] = l]
    PROVE  Frame(th) /\ pc'[th] = to /\ \A x \in Threads \ {th} : pc'[x] = pc[x]
BY ThreadAssumption DEF TypeInv, TypeOK, PcOK, OwnOK, Goto, Frame, Threads

\* A step of consume() leaves the other threads alone, but for its wakeUp.
LEMMA ConsumeFrame ==
    ASSUME TypeInv, NEW c \in Consumers, Consume(c) \/ SpuriousWakeup(c)
    PROVE  Frame(c)
<1>0. c \in Threads
    BY DEF Threads
<1>1. CASE Put(c)
  <2>1. /\ \A x \in Threads \ {c} : pc'[x] = IF x \in Waiting THEN "lock" ELSE pc[x]
        /\ hand' = [hand EXCEPT ![c] = NoTask] /\ level' = level
      BY <1>1 DEF Put, WakeAll
  <2> QED
      BY <1>0, <2>1 DEF Frame, Waiting, TypeInv, TypeOK, OwnOK
<1>2. CASE Run(c)
  <2>1. hand' = hand /\ (level' = level \/ \E l : level' = [level EXCEPT ![c] = l])
        /\ (Goto(c, "turnaround") \/ Goto(c, "putLock"))
      BY <1>2 DEF Run
  <2> QED
      BY <1>0, <2>1, GotoFrame
<1>3. CASE Look(c)
  <2>1. /\ hand' = hand \/ \E t : hand' = [hand EXCEPT ![c] = t]
        /\ level' = level \/ \E l : level' = [level EXCEPT ![c] = l]
        /\ \E to : Goto(c, to)
      BY <1>3 DEF Look
  <2> QED
      BY <1>0, <2>1, GotoFrame
<1>4. CASE Free(c) \/ Dec(c)
  <2>1. /\ hand' = hand \/ \E t : hand' = [hand EXCEPT ![c] = t]
        /\ level' = level \/ \E l : level' = [level EXCEPT ![c] = l]
        /\ \E to : Goto(c, to)
      BY <1>4 DEF Free, StoreSum, Dec, Count
  <2> QED
      BY <1>0, <2>1, GotoFrame
<1>5. CASE \/ Lock(c) \/ Remove(c) \/ Wait(c) \/ SpuriousWakeup(c) \/ IncLock(c) \/ Inc(c)
           \/ DecLock(c) \/ Respond(c) \/ Responded(c) \/ Turnaround(c) \/ PutLock(c)
  <2>1. hand' = hand /\ level' = level /\ \E to : Goto(c, to)
      BY <1>5 DEF Lock, TakeLock, Remove, Wait, SpuriousWakeup, Step, IncLock, CountLock, Inc,
                  Count, DecLock, Respond, LoadSum, Responded, StoreSum, Turnaround, PutLock, ownVars
  <2> QED
      BY <1>0, <2>1, GotoFrame
<1> QED
    BY <1>1, <1>2, <1>3, <1>4, <1>5 DEF Consume

\* consume() touches a queue, and frees a lock, only inside its section.
LEMMA ConsumeSect ==
    ASSUME TypeInv, SectInv, NEW c \in Consumers, Consume(c) \/ SpuriousWakeup(c)
    PROVE  SectInv'
<1>0. c \in Threads /\ Frame(c) /\ c # Manager /\ c # Producer /\ level[c] \in 0..2
    BY ConsumeFrame, ThreadAssumption DEF Threads, TypeInv, TypeOK, OwnOK
<1>1. \A m \in 0..2 : InSection(c, m) <=> level[c] = m /\ pc[c] \in {"look", "remove", "put"}
    BY <1>0 DEF InSection
<1>2. \A m \in 0..2 : InSection(c, m)' <=> level'[c] = m /\ pc'[c] \in {"look", "remove", "put"}
    BY <1>0 DEF InSection
<1>3. pc \in [Threads -> ConsumerPCs \cup ManagerPCs \cup ProducerPCs \cup CleanerPCs]
      /\ mutex \in [0..3 -> Threads \cup {Nobody}] /\ tempLists \in [0..2 -> Seq(Tasks)]
      /\ level \in [Consumers \cup {Manager} -> 0..2] /\ hand \in [Consumers -> Tasks \cup {NoTask}]
    BY DEF TypeInv, TypeOK, PcOK, ListOK, OwnOK
<1>4. pc[c] \in {"look", "remove", "put"} => mutex[level[c]] = c
    BY <1>0, <1>1 DEF SectInv, LockInv
<1>5. CASE Lock(c) \/ PutLock(c)
  <2>1. /\ pc'[c] # "remove" /\ level' = level /\ tempLists' = tempLists
        /\ mutex[level[c]] = Nobody /\ mutex' = [mutex EXCEPT ![level[c]] = c]
      BY <1>0, <1>3, <1>5 DEF Lock, PutLock, TakeLock, Acquire, Goto, ownVars
  <2> QED
      BY <1>0, <1>2, <1>3, <2>1, SectStep
<1>6. CASE Look(c)
  <2>1. CASE tempLists[level[c]] # << >>
    <3>1. /\ mutex' = mutex /\ tempLists' = tempLists /\ level' = level /\ pc[c] = "look"
          /\ hand'[c] = tempLists[level[c]][1]
        BY <1>0, <1>3, <1>6, <2>1 DEF Look, At
    <3> QED
        BY <1>0, <1>2, <1>4, <2>1, <3>1, SectStep
  <2>2. CASE tempLists[level[c]] = << >>
    <3>1. /\ mutex' = [mutex EXCEPT ![level[c]] = Nobody] /\ tempLists' = tempLists
          /\ pc[c] = "look" /\ pc'[c] \in {"wait", "lock"}
        BY <1>0, <1>3, <1>6, <2>2 DEF Look, At, Unlock, Goto
    <3> QED
        BY <1>0, <1>2, <1>3, <1>4, <3>1, SectStep
  <2> QED
      BY <2>1, <2>2
<1>7. CASE Remove(c) \/ Put(c)
  <2>1. /\ pc[c] \in {"remove", "put"} /\ pc'[c] \in {"incLock", "decLock"}
        /\ mutex' = [mutex EXCEPT ![level[c]] = Nobody]
        /\ \A m \in 0..2 : m # level[c] => tempLists'[m] = tempLists[m]
      BY <1>0, <1>3, <1>7 DEF Remove, Put, At, Goto, WakeAll, Unlock, RemoveHead, Insert
  <2> QED
      BY <1>0, <1>2, <1>3, <1>4, <2>1, SectStep
<1>8. CASE IncLock(c) \/ Inc(c) \/ DecLock(c) \/ Dec(c)
  <2>1. /\ pc'[c] \in {"inc", "respond", "run", "dec", "lock"} /\ tempLists' = tempLists
        /\ \A m \in 0..2 : mutex'[m] = mutex[m]
      BY <1>0, <1>3, <1>8
         DEF IncLock, DecLock, CountLock, Acquire, Inc, Dec, Count, Unlock, Goto
  <2> QED
      BY <1>0, <1>2, <2>1, SectStep
<1>9. CASE \/ Wait(c) \/ SpuriousWakeup(c) \/ Respond(c) \/ Responded(c) \/ Run(c)
           \/ Turnaround(c) \/ Free(c)
  <2>1. /\ pc'[c] \notin {"look", "remove", "put"} /\ tempLists' = tempLists /\ mutex' = mutex
      BY <1>0, <1>3, <1>9
         DEF Wait, SpuriousWakeup, Step, Respond, LoadSum, Responded, StoreSum, Run, Turnaround,
             Free, Goto
  <2> QED
      BY <1>0, <1>2, <2>1, SectStep
<1> QED
    BY <1>5, <1>6, <1>7, <1>8, <1>9 DEF Consume

\* One iteration of a wakeUp without a lock.
LEMMA SignalFrame ==
    ASSUME TypeInv, NEW th \in {Producer, Manager}, NEW to, Signal(th, to)
    PROVE  /\ Frame(th) /\ pc'[th] \in {to, "wake"}
           /\ UNCHANGED <<tempLists, mutex, hand, level, line, freed>>
<1>1. UNCHANGED <<tempLists, mutex, hand, level, line, freed>> /\ th \in Threads /\ th \notin Consumers
    BY ThreadAssumption DEF Signal, dataVars, taskVars, loadVars, ownVars, Threads
<1>2. pc[th] = "wake"
    BY DEF Signal, At
<1>3. CASE Goto(th, to)
    BY <1>1, <1>3, GotoFrame
<1>4. ASSUME NEW c \in Waiting, Goto(c, "lock") PROVE Frame(th) /\ pc'[th] = "wake"
  <2>1. c \in Consumers /\ c \in Threads /\ pc[c] = "waiting" /\ c # th
      BY <1>1, <1>4 DEF Waiting, Threads
  <2>2. pc'[c] = "lock" /\ \A x \in Threads \ {c} : pc'[x] = pc[x]
      BY <1>1, <1>4, <2>1, GotoFrame
  <2> QED
      BY <1>1, <1>2, <2>1, <2>2 DEF Frame
<1>5. CASE UNCHANGED pc
    BY <1>1, <1>2, <1>5 DEF Frame
<1> QED
    BY <1>1, <1>3, <1>4, <1>5 DEF Signal

\* produce() inserts into level 0 inside its section.
LEMMA ProduceSect ==
    ASSUME TypeInv, SectInv, Produce
    PROVE  SectInv'
<1> DEFINE th == Producer
<1>0. th \in Threads /\ th # Manager /\ th \notin Consumers
    BY ThreadAssumption DEF Threads
<1>1. \A m \in 0..2 : InSection(th, m) <=> m = 0 /\ pc[th] = "insert"
    BY <1>0 DEF InSection
<1>2. \A m \in 0..2 : InSection(th, m)' <=> m = 0 /\ pc'[th] = "insert"
    BY <1>0 DEF InSection
<1>3. mutex \in [0..3 -> Threads \cup {Nobody}] /\ tempLists \in [0..2 -> Seq(Tasks)]
    BY DEF TypeInv, TypeOK, ListOK
<1> HIDE DEF th
<1>4. ASSUME NEW to, Goto(th, to), UNCHANGED <<hand, level>>, to # "insert", UNCHANGED <<tempLists, mutex>>
      PROVE  SectInv'
    BY <1>0, <1>2, <1>4, GotoFrame, SectStep
<1>5. CASE StartProducer \/ ReadDelay \/ ReadTask \/ EndOfFile
  <2>1. /\ \E to \in {"next", "wake", "lock0", "done"} : Goto(th, to)
        /\ UNCHANGED <<hand, level, tempLists, mutex>>
      BY <1>5 DEF th, StartProducer, Step, ReadDelay, BeginWakeUp, ReadTask, EndOfFile, ownVars
  <2> QED
      BY <1>4, <2>1
<1>6. CASE Signal(Producer, "next")
    BY <1>0, <1>2, <1>6, SignalFrame, SectStep DEF th
<1>7. CASE TakeLock(Producer, "lock0", 0, "insert")
  <2>1. /\ Goto(th, "insert") /\ UNCHANGED <<hand, level, tempLists>>
        /\ mutex[0] = Nobody /\ mutex' = [mutex EXCEPT ![0] = th]
      BY <1>7 DEF th, TakeLock, Acquire, ownVars
  <2> QED
      BY <1>0, <1>2, <1>3, <2>1, GotoFrame, SectStep
<1>8. CASE InsertTask
  <2>1. /\ pc[th] = "insert" /\ UNCHANGED <<hand, level>>
        /\ mutex' = [mutex EXCEPT ![0] = Nobody]
        /\ \A m \in 1..2 : tempLists'[m] = tempLists[m]
      BY <1>3, <1>8 DEF th, InsertTask, At, Unlock, Insert, ownVars
  <2>2. \A x \in Threads : pc'[x] = IF x = th THEN "next" ELSE IF x \in Waiting THEN "lock" ELSE pc[x]
      BY <1>8 DEF th, InsertTask, WakeAll
  <2>3. Frame(th) /\ pc'[th] = "next"
      BY <1>0, <2>1, <2>2 DEF Frame, Waiting
  <2>4. mutex[0] = th
      BY <1>0, <1>1, <2>1 DEF SectInv, LockInv
  <2>5. \A m \in 0..2 : /\ mutex'[m] = mutex[m] \/ mutex[m] \in {th, Nobody}
                        /\ tempLists'[m] = tempLists[m] \/ mutex[m] = th
                        /\ ~ InSection(th, m)'
      BY <1>2, <1>3, <2>1, <2>3, <2>4
  <2> QED
      BY <1>0, <2>3, <2>5, SectStep
<1> QED
    BY <1>5, <1>6, <1>7, <1>8 DEF Produce

\* manage() moves the lower queues into level 0 inside its sections.
LEMMA ManageSect ==
    ASSUME TypeInv, SectInv, Manage
    PROVE  SectInv'
<1> DEFINE th == Manager
<1>0. th \in Threads /\ th # Producer /\ th \notin Consumers
    BY ThreadAssumption DEF Threads
<1> DEFINE Sections(l, m) == \/ m = 0 /\ l \in {"lock1", "drain1", "lock2", "drain2"}
                             \/ m = 1 /\ l = "drain1"
                             \/ m = 2 /\ l = "drain2"
<1>1. \A m \in 0..2 : InSection(th, m) <=> Sections(pc[th], m)
    BY <1>0 DEF InSection
<1>2. \A m \in 0..2 : InSection(th, m)' <=> Sections(pc'[th], m)
    BY <1>0 DEF InSection
<1>3. mutex \in [0..3 -> Threads \cup {Nobody}] /\ tempLists \in [0..2 -> Seq(Tasks)]
    BY DEF TypeInv, TypeOK, ListOK
<1>4. \A m \in 0..2 : Sections(pc[th], m) => mutex[m] = th
    BY <1>0, <1>1 DEF SectInv, LockInv
<1> HIDE DEF th
<1>5. ASSUME NEW to, Goto(th, to), UNCHANGED hand,
             level' = level \/ \E l : level' = [level EXCEPT ![th] = l],
             \A m \in 0..2 : mutex'[m] = mutex[m] \/ mutex[m] \in {th, Nobody},
             \A m \in 0..2 : tempLists'[m] = tempLists[m] \/ mutex[m] = th,
             \A m \in 0..2 : Sections(to, m) => mutex'[m] = th
      PROVE  SectInv'
  <2>1. Frame(th) /\ pc'[th] = to
      BY <1>0, <1>5, GotoFrame
  <2>2. \A m \in 0..2 : InSection(th, m)' => mutex'[m] = th
      BY <1>2, <1>5, <2>1
  <2> QED
      BY <1>0, <1>5, <2>1, <2>2, SectStep
<1>6. CASE Step(Manager, "sleep", "lock0")
    BY <1>5, <1>6 DEF th, Step, ownVars
<1>7. ASSUME NEW from, NEW to, NEW m \in 0..3, TakeLock(Manager, from, m, to),
             \A k \in 0..2 : Sections(to, k) => Sections(from, k) \/ k = m
      PROVE  SectInv'
  <2>1. /\ Goto(th, to) /\ pc[th] = from /\ UNCHANGED <<hand, level, tempLists>>
        /\ mutex[m] = Nobody /\ mutex' = [mutex EXCEPT ![m] = th]
      BY <1>7 DEF th, TakeLock, At, Acquire, ownVars
  <2> QED
      BY <1>3, <1>4, <1>5, <1>7, <2>1
<1>8. CASE \/ TakeLock(Manager, "lock0", 0, "lock1") \/ TakeLock(Manager, "lock1", 1, "drain1")
           \/ TakeLock(Manager, "lock2", 2, "drain2") \/ TakeLock(Manager, "lock3", 3, "check")
    BY <1>7, <1>8
<1>9. CASE DrainOne
  <2>1. /\ UNCHANGED <<hand, level>> /\ pc[th] = "drain1" /\ Goto(th, "lock2")
        /\ mutex' = [mutex EXCEPT ![1] = Nobody] /\ tempLists'[2] = tempLists[2]
      BY <1>3, <1>9 DEF th, DrainOne, At, Unlock, LevelUp, ownVars
  <2>2. mutex[0] = th /\ mutex[1] = th
      BY <1>4, <2>1
  <2>3. mutex'[0] = th /\ mutex'[2] = mutex[2]
      BY <1>3, <2>1, <2>2
  <2> QED
      BY <1>5, <2>1, <2>2, <2>3
<1>10. CASE DrainTwo
  <2>1. /\ UNCHANGED <<hand, level>> /\ pc[th] = "drain2" /\ Goto(th, "scan")
        /\ mutex' = [mutex EXCEPT ![2] = Nobody, ![0] = Nobody] /\ tempLists'[1] = tempLists[1]
      BY <1>3, <1>10 DEF th, DrainTwo, At, LevelUp, ownVars
  <2>2. mutex[0] = th /\ mutex[2] = th
      BY <1>4, <2>1
  <2>3. mutex'[1] = mutex[1]
      BY <1>3, <2>1
  <2> QED
      BY <1>5, <2>1, <2>2, <2>3
<1>11. CASE Scan
  <2>1. /\ \E to \in {"wake", "lock3", "scan"} : Goto(th, to)
        /\ UNCHANGED <<hand, tempLists, mutex>>
        /\ \E l : level' = [level EXCEPT ![th] = l]
      BY <1>11 DEF th, Scan, BeginWakeUp
  <2> QED
      BY <1>5, <2>1
<1>12. CASE Signal(Manager, "lock3")
  <2>1. /\ Frame(th) /\ pc'[th] \in {"lock3", "wake"}
        /\ UNCHANGED <<tempLists, mutex, hand, level>>
      BY <1>12, SignalFrame DEF th
  <2> QED
      BY <1>0, <1>2, <2>1, SectStep
<1>13. CASE CheckDone
  <2>1. /\ pc'[th] = "sleep" /\ \A x \in Threads \ {th, Cleaner} : pc'[x] = pc[x]
        /\ UNCHANGED <<hand, level, tempLists>> /\ mutex' = [mutex EXCEPT ![3] = Nobody]
      BY <1>0, <1>13, ThreadAssumption
         DEF th, CheckDone, Unlock, ownVars, TypeInv, TypeOK, PcOK
  <2>2. Frame(th)
      BY <2>1 DEF Frame
  <2> QED
      BY <1>0, <1>2, <1>3, <2>1, <2>2, SectStep
<1> QED
    BY <1>6, <1>8, <1>9, <1>10, <1>11, <1>12, <1>13 DEF Manage

\* clean() uses the working lock only, and a step that ends the process none.
LEMMA CleanSect ==
    ASSUME TypeInv, SectInv, Clean \/ Report \/ UNCHANGED vars
    PROVE  SectInv'
<1>0. Cleaner \in Threads /\ \A m \in 0..2 : ~ InSection(Cleaner, m)'
    BY ThreadAssumption DEF Threads, InSection
<1>1. CASE Clean
  <2>1. /\ \E to : Goto(Cleaner, to) /\ UNCHANGED <<hand, level, tempLists>>
        /\ \A m \in 0..2 : mutex'[m] = mutex[m]
      BY <1>1 DEF Clean, EnterWait, TakeLock, Acquire, Unlock, ownVars, TypeInv, TypeOK, ListOK
  <2> QED
      BY <1>0, <2>1, GotoFrame, SectStep, ThreadAssumption
<1>2. CASE Report \/ UNCHANGED vars
    BY <1>2 DEF Report, vars, ownVars, SectInv, LockInv, HeadInv, InSection
<1> QED
    BY <1>1, <1>2

\* Every step keeps the locks and the heads that were read.
LEMMA SectNext == TypeInv /\ SectInv /\ [Next]_vars => SectInv'
BY ConsumeSect, ProduceSect, ManageSect, CleanSect DEF Next

-----------------------------------------------------------------------------
(* Where the tasks are *)

Places == \A t : /\ t \in Queued <=> (\E l \in 0..2 : t \in Range(tempLists[l]))
                 /\ t \in Held <=> (\E c \in Consumers : Holds(c) /\ hand[c] = t)

\* A task is queued if it is in a queue, held if a consumer holds it.
LEMMA PlacesAre == Places /\ Places'
BY DEF Places, Queued, Held

\* A consumer owns a task from its removal to its free or insertion.
OwningPCs == HoldingPCs \ {"remove"}

\* A consumer holds a task when it is where it owns one, before and after a step.
LEMMA HoldsByPc ==
    /\ TypeInv  => \A c \in Consumers : Holds(c) <=> pc[c] \in OwningPCs
    /\ TypeInv' => \A c \in Consumers : Holds(c)' <=> pc'[c] \in OwningPCs
BY TaskAssumption DEF TypeInv, TypeOK, OwnOK, HandInv, Holds, OwningPCs

\* A step of th that moves no task keeps Ownership.
LEMMA OwnKept ==
    ASSUME TypeInv, TypeInv', Ownership, NEW th \in Threads, Frame(th),
           UNCHANGED <<tempLists, freed>>, Loaded' = Loaded,
           th \in Consumers => /\ pc'[th] \in OwningPCs <=> pc[th] \in OwningPCs
                               /\ pc[th] \in OwningPCs => hand'[th] = hand[th]
    PROVE  Ownership'
<1>1. \A c \in Consumers : /\ Holds(c) <=> pc[c] \in OwningPCs
                           /\ Holds(c)' <=> pc'[c] \in OwningPCs
    BY HoldsByPc
<1>2. \A c \in Consumers : pc'[c] \in OwningPCs <=> pc[c] \in OwningPCs
    BY ThreadAssumption DEF Frame, OwningPCs, HoldingPCs, Threads
<1>3. \A c \in Consumers : (Holds(c)' <=> Holds(c)) /\ (Holds(c) => hand'[c] = hand[c])
    BY <1>1, <1>2 DEF Frame
<1>4. Queued' = Queued
    BY DEF Queued
<1>5. \A t : t \in Held' <=> t \in Held
    BY <1>3, PlacesAre DEF Places
<1>6. Held' = Held
    BY <1>5
<1>7. \A c, d \in Consumers : Holds(c)' /\ Holds(d)' /\ hand'[c] = hand'[d] => c = d
    BY <1>3 DEF Ownership
<1> QED
    BY <1>4, <1>6, <1>7 DEF Ownership

\* A step of consumer c changes where c stands only.
LEMMA OwnersAfter ==
    ASSUME TypeInv, TypeInv', NEW c \in Consumers, Frame(c)
    PROVE  /\ \A d \in Consumers \ {c} : (Holds(d)' <=> Holds(d)) /\ hand'[d] = hand[d]
           /\ Holds(c) <=> pc[c] \in OwningPCs
           /\ Holds(c)' <=> pc'[c] \in OwningPCs
<1>1. \A d \in Consumers : /\ Holds(d) <=> pc[d] \in OwningPCs
                           /\ Holds(d)' <=> pc'[d] \in OwningPCs
    BY HoldsByPc
<1>2. \A d \in Consumers \ {c} : (pc'[d] \in OwningPCs <=> pc[d] \in OwningPCs) /\ hand'[d] = hand[d]
    BY ThreadAssumption DEF Frame, OwningPCs, HoldingPCs, Threads
<1> QED
    BY <1>1, <1>2

\* A removal takes the task from its queue into the hands of the consumer.
LEMMA RemoveOwns ==
    ASSUME TypeInv, TypeInv', SectInv, Ownership, NEW c \in Consumers, Remove(c)
    PROVE  Ownership'
<1> DEFINE l == level[c]
           t == hand[c]
<1>1. l \in 0..2 /\ tempLists \in [0..2 -> Seq(Tasks)] /\ pc[c] = "remove" /\ Frame(c)
    BY ConsumeFrame DEF Consume, Remove, At, TypeInv, TypeOK, OwnOK, ListOK
<1>2. tempLists[l] # << >> /\ t = tempLists[l][1] /\ IsInjective(tempLists[l])
    BY <1>1 DEF SectInv, HeadInv, Ownership
<1>3. tempLists' = [tempLists EXCEPT ![l] = SubSeq(@, 2, Len(@))] /\ pc'[c] = "incLock"
      /\ hand' = hand /\ freed' = freed /\ line' = line
    BY <1>1 DEF Remove, RemoveHead, Goto, ownVars, dataVars, taskVars, loadVars,
                TypeInv, TypeOK, PcOK, Threads
<1>4. /\ t \in Range(tempLists[l])
      /\ Range(tempLists'[l]) = Range(tempLists[l]) \ {t} /\ IsInjective(tempLists'[l])
    BY <1>1, <1>2, <1>3, TailPlaces
<1>5. /\ \A d \in Consumers \ {c} : (Holds(d)' <=> Holds(d)) /\ hand'[d] = hand[d]
      /\ Holds(c)' /\ ~ Holds(c) /\ hand'[c] = t
    BY <1>1, <1>3, OwnersAfter DEF OwningPCs, HoldingPCs, ConsumerPCs
<1>6. \A m \in 0..2 : m # l => tempLists'[m] = tempLists[m]
    BY <1>1, <1>3
<1> HIDE DEF l, t
<1>7. t \in Queued /\ t \notin Held /\ t \notin freed
    BY <1>1, <1>4, PlacesAre DEF Places, Ownership
<1>8. \A m \in 0..2 : m # l => t \notin Range(tempLists[m])
    BY <1>1, <1>4 DEF Ownership
<1>9. Queued' = Queued \ {t}
    BY <1>1, <1>4, <1>6, <1>8, PlacesAre DEF Places
<1>10. Held' = Held \cup {t}
    BY <1>5, PlacesAre DEF Places
<1>11. \A d, e \in Consumers : Holds(d)' /\ Holds(e)' /\ hand'[d] = hand'[e] => d = e
    BY <1>5, <1>7, PlacesAre DEF Places, Ownership
<1>12. \A m \in 0..2 : IsInjective(tempLists'[m]) /\ Range(tempLists'[m]) \subseteq Range(tempLists[m])
    BY <1>4, <1>6 DEF Ownership
<1>13. \A k, m \in 0..2 : k # m => Range(tempLists'[k]) \cap Range(tempLists'[m]) = {}
    BY <1>12 DEF Ownership
<1>14. Loaded' = Loaded /\ freed' = freed
    BY <1>3 DEF Loaded
<1> QED
    BY <1>7, <1>9, <1>10, <1>11, <1>12, <1>13, <1>14 DEF Ownership

\* A put-back, or an insertion, adds a task to one queue.
LEMMA InsertPlaces ==
    ASSUME TypeInv, Ownership, NEW l \in 0..2, NEW t \in Tasks, t \notin Queued, Insert(t, l)
    PROVE  /\ Queued' = Queued \cup {t}
           /\ \A m \in 0..2 : IsInjective(tempLists'[m])
           /\ \A k, m \in 0..2 : k # m => Range(tempLists'[k]) \cap Range(tempLists'[m]) = {}
<1>1. tempLists \in [0..2 -> Seq(Tasks)]
    BY DEF TypeInv, TypeOK, ListOK
<1>2. /\ tempLists'[l] = Append(tempLists[l], t)
      /\ \A m \in 0..2 : m # l => tempLists'[m] = tempLists[m]
    BY <1>1 DEF Insert
<1>3. \A m \in 0..2 : t \notin Range(tempLists[m])
    BY PlacesAre DEF Places
<1>4. Range(tempLists'[l]) = Range(tempLists[l]) \cup {t} /\ IsInjective(tempLists'[l])
  <2>1. tempLists[l] \in Seq(Tasks) /\ t \notin Range(tempLists[l]) /\ IsInjective(tempLists[l])
      BY <1>1, <1>3 DEF Ownership
  <2>2. /\ Range(Append(tempLists[l], t)) = Range(tempLists[l]) \cup {t}
        /\ IsInjective(Append(tempLists[l], t))
      BY <2>1, AppendPlaces
  <2> QED
      BY <2>2, <1>2
<1>5. Queued' = Queued \cup {t}
  <2>1. \A x : (\E m \in 0..2 : x \in Range(tempLists'[m]))
                <=> x = t \/ \E m \in 0..2 : x \in Range(tempLists[m])
      BY <1>2, <1>4
  <2>2. \A x : x \in Queued' <=> x = t \/ x \in Queued
      BY <2>1, PlacesAre DEF Places
  <2> QED
      BY <2>2
<1>6. \A m \in 0..2 : IsInjective(tempLists'[m])
    BY <1>2, <1>4 DEF Ownership
<1>7. \A k, m \in 0..2 : k # m => Range(tempLists'[k]) \cap Range(tempLists'[m]) = {}
  <2> SUFFICES ASSUME NEW k \in 0..2, NEW m \in 0..2, k # m,
                      NEW x \in Range(tempLists'[k]), x \in Range(tempLists'[m])
               PROVE  FALSE
      OBVIOUS
  <2>1. Range(tempLists[k]) \cap Range(tempLists[m]) = {}
      BY DEF Ownership
  <2> QED
      BY <1>2, <1>3, <1>4, <2>1
<1> QED
    BY <1>5, <1>6, <1>7

\* A put-back takes the task from the hands of the consumer into a queue.
LEMMA PutOwns ==
    ASSUME TypeInv, TypeInv', Ownership, NEW c \in Consumers, Put(c)
    PROVE  Ownership'
<1> DEFINE t == hand[c]
<1>1. level[c] \in 0..2 /\ pc[c] = "put" /\ Frame(c) /\ c \in Threads
    BY ConsumeFrame DEF Consume, Put, At, TypeInv, TypeOK, OwnOK, Threads
<1>2. Insert(t, level[c]) /\ pc'[c] = "decLock" /\ freed' = freed /\ line' = line
    BY <1>1 DEF Put, WakeAll, dataVars, taskVars, loadVars
<1>3. /\ \A d \in Consumers \ {c} : (Holds(d)' <=> Holds(d)) /\ hand'[d] = hand[d]
      /\ ~ Holds(c)' /\ Holds(c)
    BY <1>1, <1>2, OwnersAfter DEF OwningPCs, HoldingPCs, ConsumerPCs
<1>4. t \in Tasks
    BY <1>1 DEF TypeInv, HandInv, HoldingPCs, ConsumerPCs
<1> HIDE DEF t
<1>5. t \in Held /\ t \notin Queued /\ t \notin freed
  <2>1. t \in Held
      BY <1>3, PlacesAre DEF Places, t
  <2> QED
      BY <2>1 DEF Ownership
<1>6. \A d \in Consumers \ {c} : Holds(d) => hand[d] # t
    BY <1>3 DEF Ownership, t
<1>7. Held' = Held \ {t}
    BY <1>3, <1>6, PlacesAre DEF Places, t
<1>8. \A d, e \in Consumers : Holds(d)' /\ Holds(e)' /\ hand'[d] = hand'[e] => d = e
    BY <1>3 DEF Ownership
<1>9. Loaded' = Loaded
    BY <1>2 DEF Loaded
<1> QED
    BY <1>1, <1>2, <1>4, <1>5, <1>7, <1>8, <1>9, InsertPlaces DEF Ownership

\* The end of a task takes it from the hands of the consumer.
LEMMA FreeOwns ==
    ASSUME TypeInv, TypeInv', Ownership, NEW c \in Consumers, Free(c)
    PROVE  Ownership'
<1> DEFINE t == hand[c]
<1>1. pc[c] = "free" /\ Frame(c) /\ c \in Threads
    BY ConsumeFrame DEF Consume, Free, At, Threads
<1>2. /\ pc'[c] = "decLock" /\ freed' = freed \cup {t} /\ line' = line /\ tempLists' = tempLists
    BY <1>1 DEF Free, StoreSum, Goto, loadVars, TypeInv, TypeOK, PcOK
<1>3. /\ \A d \in Consumers \ {c} : (Holds(d)' <=> Holds(d)) /\ hand'[d] = hand[d]
      /\ ~ Holds(c)' /\ Holds(c)
    BY <1>1, <1>2, OwnersAfter DEF OwningPCs, HoldingPCs, ConsumerPCs
<1> HIDE DEF t
<1>4. t \in Held
    BY <1>3, PlacesAre DEF Places, t
<1>5. \A d \in Consumers \ {c} : Holds(d) => hand[d] # t
    BY <1>3 DEF Ownership, t
<1>6. Held' = Held \ {t}
    BY <1>3, <1>5, PlacesAre DEF Places, t
<1>7. \A d, e \in Consumers : Holds(d)' /\ Holds(e)' /\ hand'[d] = hand'[e] => d = e
    BY <1>3 DEF Ownership
<1>8. Loaded' = Loaded /\ Queued' = Queued
    BY <1>2 DEF Loaded, Queued
<1> QED
    BY <1>2, <1>4, <1>6, <1>7, <1>8 DEF Ownership

\* No other step of consume() moves a task.
LEMMA ConsumeOwns ==
    ASSUME TypeInv, TypeInv', SectInv, Ownership, NEW c \in Consumers,
           Consume(c) \/ SpuriousWakeup(c)
    PROVE  Ownership'
<1>0. c \in Threads /\ Frame(c) /\ pc \in [Threads -> ConsumerPCs \cup ManagerPCs \cup ProducerPCs \cup CleanerPCs]
      /\ hand \in [Consumers -> Tasks \cup {NoTask}]
    BY ConsumeFrame DEF Threads, TypeInv, TypeOK, PcOK, OwnOK
<1>1. CASE Remove(c) \/ Put(c) \/ Free(c)
    BY <1>1, RemoveOwns, PutOwns, FreeOwns
<1>2. CASE Look(c)
  <2>1. /\ pc[c] = "look" /\ pc'[c] \in {"remove", "wait", "lock"}
        /\ tempLists' = tempLists /\ freed' = freed /\ line' = line
      BY <1>0, <1>2 DEF Look, At, Goto, dataVars, taskVars, loadVars
  <2>2. Loaded' = Loaded
      BY <2>1 DEF Loaded
  <2> QED
      BY <1>0, <2>1, <2>2, OwnKept DEF OwningPCs, HoldingPCs
<1>3. CASE \/ Lock(c) \/ Wait(c) \/ SpuriousWakeup(c) \/ IncLock(c) \/ Inc(c)
           \/ DecLock(c) \/ Dec(c) \/ Respond(c) \/ Responded(c) \/ Run(c) \/ Turnaround(c)
           \/ PutLock(c)
  <2>1. hand' = hand /\ tempLists' = tempLists /\ freed' = freed /\ line' = line
      BY <1>3 DEF Lock, TakeLock, Wait, SpuriousWakeup, Step, IncLock, CountLock, Inc, Count, DecLock,
                  Dec, Respond, LoadSum, Responded, StoreSum, Run, Turnaround, PutLock,
                  ownVars, dataVars, taskVars, loadVars
  <2>2. pc'[c] \in OwningPCs <=> pc[c] \in OwningPCs
      BY <1>0, <1>3
         DEF Lock, TakeLock, Wait, SpuriousWakeup, Step, IncLock, CountLock, Inc, DecLock, Dec,
             Respond, LoadSum, Responded, Run, Turnaround, PutLock, At, Goto,
             OwningPCs, HoldingPCs, ConsumerPCs
  <2>3. Loaded' = Loaded
      BY <2>1 DEF Loaded
  <2> QED
      BY <1>0, <2>1, <2>2, <2>3, OwnKept
<1> QED
    BY <1>1, <1>2, <1>3 DEF Consume

\* The lines read so far, before and after the producer goes to the next.
LEMMA LoadedNext ==
    ASSUME TypeInv, line <= Len(Lines), line' = line + 1
    PROVE  /\ Lines[line] = Delay => Loaded' = Loaded
           /\ Lines[line] # Delay => Loaded' = Loaded \cup {Lines[line]} /\ Lines[line] \notin Loaded
<1>1. Len(Lines) \in Nat /\ line \in 1..Len(Lines) /\ 1..(line' - 1) = 1..line
    BY LinesAssumption, LenProperties DEF TypeInv, TypeOK, DataOK
<1>2. \A t : /\ t \in Loaded <=> t # Delay /\ \E i \in 1..(line - 1) : t = Lines[i]
             /\ t \in Loaded' <=> t # Delay /\ \E i \in 1..line : t = Lines[i]
    BY <1>1 DEF Loaded
<1>3. 1..line = 1..(line - 1) \cup {line}
    BY <1>1
<1>4. ASSUME Lines[line] # Delay PROVE \A i \in 1..(line - 1) : Lines[i] # Lines[line]
  <2>1. \A i \in 1..(line - 1) : i \in 1..Len(Lines) /\ i # line
      BY <1>1
  <2> QED
      BY <1>1, <1>4, <2>1, LinesAssumption
<1> QED
    BY <1>2, <1>3, <1>4

\* The producer loads a task that no one had before.
LEMMA InsertTaskOwns ==
    ASSUME TypeInv, TypeInv', Ownership, InsertTask
    PROVE  Ownership'
<1> DEFINE t == Lines[line]
<1>1. /\ Insert(t, 0) /\ line' = line + 1 /\ hand' = hand /\ freed' = freed
      /\ pc[Producer] = "insert"
    BY DEF InsertTask, At, taskVars, ownVars
<1>2. line <= Len(Lines) /\ t # Delay /\ t \in Tasks
    BY <1>1, LineIsTask DEF TypeInv, LineInv
<1> HIDE DEF t
<1>3. Loaded' = Loaded \cup {t} /\ t \notin Loaded
    BY <1>1, <1>2, LoadedNext DEF t
<1>4. \A c \in Consumers : Holds(c)' <=> Holds(c)
  <2>1. \A c \in Consumers : pc'[c] = pc[c] \/ (pc[c] = "waiting" /\ pc'[c] = "lock")
      BY ThreadAssumption DEF InsertTask, WakeAll, Waiting, Threads
  <2> QED
      BY <2>1, HoldsByPc DEF OwningPCs, HoldingPCs
<1>5. \A x : x \in Held' <=> x \in Held
    BY <1>1, <1>4, PlacesAre DEF Places
<1>6. Held' = Held
    BY <1>5
<1>7. \A c, d \in Consumers : Holds(c)' /\ Holds(d)' /\ hand'[c] = hand'[d] => c = d
    BY <1>1, <1>4 DEF Ownership
<1>8. t \notin Queued /\ t \notin Held /\ t \notin freed
    BY <1>3 DEF Ownership
<1> QED
    BY <1>1, <1>2, <1>3, <1>6, <1>7, <1>8, InsertPlaces DEF Ownership

\* No other step of produce() moves a task.
LEMMA ProduceOwns ==
    ASSUME TypeInv, TypeInv', Ownership, Produce
    PROVE  Ownership'
<1>0. Producer \in Threads /\ Producer \notin Consumers
    BY ThreadAssumption DEF Threads
<1>1. ASSUME Frame(Producer), UNCHANGED <<tempLists, freed>>, Loaded' = Loaded
      PROVE  Ownership'
    BY <1>0, <1>1, OwnKept
<1>2. ASSUME NEW to, Goto(Producer, to), UNCHANGED <<hand, level>> PROVE Frame(Producer)
    BY <1>0, <1>2, GotoFrame
<1>3. CASE InsertTask
    BY <1>3, InsertTaskOwns
<1>4. CASE ReadDelay
  <2>1. Loaded' = Loaded
      BY <1>4, LoadedNext DEF ReadDelay
  <2> QED
      BY <1>1, <1>2, <1>4, <2>1 DEF ReadDelay, BeginWakeUp, taskVars, ownVars
<1>5. CASE Signal(Producer, "next")
  <2>1. Loaded' = Loaded
      BY <1>5, SignalFrame DEF Loaded
  <2> QED
      BY <1>1, <1>5, <2>1, SignalFrame
<1>6. CASE StartProducer \/ ReadTask \/ EndOfFile \/ TakeLock(Producer, "lock0", 0, "insert")
  <2>1. /\ UNCHANGED <<hand, level, tempLists, freed, line>>
        /\ \E to : Goto(Producer, to)
      BY <1>6 DEF StartProducer, Step, ReadTask, EndOfFile, TakeLock,
                  dataVars, taskVars, loadVars, ownVars
  <2>2. Loaded' = Loaded
      BY <2>1 DEF Loaded
  <2> QED
      BY <1>1, <1>2, <2>1, <2>2
<1> QED
    BY <1>3, <1>4, <1>5, <1>6 DEF Produce

\* A level-up moves a whole queue, and keeps what is queued.
LEMMA LevelUpOwns ==
    ASSUME TypeInv, Ownership, NEW l \in {1, 2}, LevelUp(l)
    PROVE  /\ Queued' = Queued
           /\ \A m \in 0..2 : IsInjective(tempLists'[m])
           /\ \A k, m \in 0..2 : k # m => Range(tempLists'[k]) \cap Range(tempLists'[m]) = {}
<1>1. tempLists \in [0..2 -> Seq(Tasks)]
    BY DEF TypeInv, TypeOK, ListOK
<1>2. /\ tempLists'[0] = tempLists[0] \o tempLists[l] /\ tempLists'[l] = << >>
      /\ \A m \in 0..2 : m # 0 /\ m # l => tempLists'[m] = tempLists[m]
    BY <1>1 DEF LevelUp
<1>3. Range(tempLists'[l]) = {} /\ IsInjective(tempLists'[l])
    BY <1>2 DEF Range, IsInjective
<1>4. Range(tempLists'[0]) = Range(tempLists[0]) \cup Range(tempLists[l]) /\ IsInjective(tempLists'[0])
  <2>1. /\ tempLists[0] \in Seq(Tasks) /\ tempLists[l] \in Seq(Tasks)
        /\ IsInjective(tempLists[0]) /\ IsInjective(tempLists[l])
        /\ Range(tempLists[0]) \cap Range(tempLists[l]) = {}
      BY <1>1 DEF Ownership
  <2>2. /\ Range(tempLists[0] \o tempLists[l]) = Range(tempLists[0]) \cup Range(tempLists[l])
        /\ IsInjective(tempLists[0] \o tempLists[l])
      BY <2>1, ConcatPlaces
  <2> QED
      BY <2>2, <1>2
<1>5. \A m \in 0..2 : \/ m = 0
                      \/ m = l
                      \/ m # 0 /\ m # l /\ Range(tempLists'[m]) = Range(tempLists[m])
    BY <1>2
<1>6. Queued' = Queued
  <2>1. \A t : (\E m \in 0..2 : t \in Range(tempLists'[m])) <=> (\E m \in 0..2 : t \in Range(tempLists[m]))
    <3>1. ASSUME NEW t, NEW m \in 0..2, t \in Range(tempLists'[m])
          PROVE  \E k \in 0..2 : t \in Range(tempLists[k])
        BY <1>3, <1>4, <1>5, <3>1
    <3>2. ASSUME NEW t, NEW m \in 0..2, t \in Range(tempLists[m])
          PROVE  \E k \in 0..2 : t \in Range(tempLists'[k])
        BY <1>4, <1>5, <3>2
    <3> QED
        BY <3>1, <3>2
  <2> QED
      BY <2>1, PlacesAre DEF Places
<1>7. \A m \in 0..2 : IsInjective(tempLists'[m])
    BY <1>2, <1>3, <1>4 DEF Ownership
<1>8. \A k, m \in 0..2 : k # m => Range(tempLists'[k]) \cap Range(tempLists'[m]) = {}
  <2> SUFFICES ASSUME NEW k \in 0..2, NEW m \in 0..2, k # m,
                      NEW x \in Range(tempLists'[k]), x \in Range(tempLists'[m])
               PROVE  FALSE
      OBVIOUS
  <2>1. \A i, j \in 0..2 : i # j => Range(tempLists[i]) \cap Range(tempLists[j]) = {}
      BY DEF Ownership
  <2> QED
      BY <1>3, <1>4, <1>5, <2>1
<1> QED
    BY <1>6, <1>7, <1>8

\* manage() moves the tasks between queues only.
LEMMA ManageOwns ==
    ASSUME TypeInv, TypeInv', Ownership, Manage
    PROVE  Ownership'
<1>0. Manager \in Threads /\ Manager \notin Consumers
    BY ThreadAssumption DEF Threads
<1>1. CASE DrainOne \/ DrainTwo
  <2>1. /\ \E l \in {1, 2} : LevelUp(l)
        /\ \E to : Goto(Manager, to)
        /\ UNCHANGED <<hand, level, freed, line>>
      BY <1>1 DEF DrainOne, DrainTwo, dataVars, taskVars, loadVars, ownVars
  <2>2. \A c \in Consumers : pc'[c] = pc[c]
      BY <1>0, <2>1, GotoFrame DEF Threads
  <2>3. \A c \in Consumers : Holds(c)' <=> Holds(c)
      BY <2>2, HoldsByPc
  <2>4. \A x : x \in Held' <=> x \in Held
      BY <2>1, <2>3, PlacesAre DEF Places
  <2>5. Held' = Held /\ Loaded' = Loaded
      BY <2>1, <2>4 DEF Loaded
  <2>6. \A c, d \in Consumers : Holds(c)' /\ Holds(d)' /\ hand'[c] = hand'[d] => c = d
      BY <2>1, <2>3 DEF Ownership
  <2> QED
      BY <2>1, <2>5, <2>6, LevelUpOwns DEF Ownership
<1>2. ASSUME Frame(Manager), UNCHANGED <<tempLists, freed, line>>
      PROVE  Ownership'
  <2>1. Loaded' = Loaded
      BY <1>2 DEF Loaded
  <2> QED
      BY <1>0, <1>2, <2>1, OwnKept
<1>3. ASSUME NEW to, Goto(Manager, to), UNCHANGED <<tempLists, freed, line, hand>>,
             level' = level \/ \E l : level' = [level EXCEPT ![Manager] = l]
      PROVE  Ownership'
    BY <1>0, <1>2, <1>3, GotoFrame
<1>4. ASSUME NEW from, NEW to, NEW m, TakeLock(Manager, from, m, to) PROVE Ownership'
    BY <1>3, <1>4 DEF TakeLock, dataVars, taskVars, loadVars, ownVars
<1>5. CASE Step(Manager, "sleep", "lock0")
    BY <1>3, <1>5 DEF Step, dataVars, taskVars, loadVars, ownVars
<1>6. CASE Scan
  <2>1. /\ \E to : Goto(Manager, to)
        /\ UNCHANGED <<tempLists, freed, line, hand>>
        /\ \E l : level' = [level EXCEPT ![Manager] = l]
      BY <1>6 DEF Scan, BeginWakeUp, dataVars, taskVars, loadVars
  <2> QED
      BY <1>3, <2>1
<1>7. CASE Signal(Manager, "lock3")
    BY <1>2, <1>7, SignalFrame
<1>8. CASE CheckDone
  <2>1. /\ \A x \in Threads \ {Manager, Cleaner} : pc'[x] = pc[x]
        /\ UNCHANGED <<hand, level, tempLists, freed, line>>
      BY <1>8 DEF CheckDone, dataVars, taskVars, loadVars, ownVars, TypeInv, TypeOK, PcOK
  <2> QED
      BY <1>2, <2>1 DEF Frame
<1> QED
    BY <1>1, <1>4, <1>5, <1>6, <1>7, <1>8 DEF Manage

\* clean() moves no task.
LEMMA CleanOwns ==
    ASSUME TypeInv, TypeInv', Ownership, Clean \/ Report \/ UNCHANGED vars
    PROVE  Ownership'
<1>0. Cleaner \in Threads /\ Cleaner \notin Consumers
    BY ThreadAssumption DEF Threads
<1>1. /\ UNCHANGED <<hand, level, tempLists, freed, line>>
      /\ UNCHANGED pc \/ \E to : Goto(Cleaner, to)
    BY DEF Clean, EnterWait, TakeLock, Report, vars, dataVars, taskVars, loadVars, ownVars
<1>2. Frame(Cleaner)
    BY <1>0, <1>1, GotoFrame DEF Frame
<1>3. Loaded' = Loaded
    BY <1>1 DEF Loaded
<1> QED
    BY <1>0, <1>1, <1>2, <1>3, OwnKept

\* No task is loaded at the start.
LEMMA OwnershipInit == Init => Ownership
<1> SUFFICES ASSUME Init PROVE Ownership
    OBVIOUS
<1>1. \A l \in 0..2 : tempLists[l] = << >> /\ Range(tempLists[l]) = {} /\ IsInjective(tempLists[l])
    BY DEF Init, Range, IsInjective
<1>2. \A c \in Consumers : ~ Holds(c)
    BY DEF Init, Holds
<1>3. Queued = {} /\ Held = {}
    BY <1>1, <1>2, PlacesAre DEF Places
<1>4. Loaded = {} /\ freed = {}
    BY DEF Init, Loaded
<1> QED
    BY <1>1, <1>2, <1>3, <1>4 DEF Ownership

\* Every loaded task is in one queue once, in the hands of one consumer, or
\* freed, whatever the interleaving of the threads.
THEOREM TasksOwned == Spec => []Ownership
<1> DEFINE IInv == TypeInv /\ SectInv /\ Ownership
<1>1. Init => IInv
    BY TypeInvInit, SectInit, OwnershipInit
<1>2. IInv /\ [Next]_vars => IInv'
  <2> SUFFICES ASSUME TypeInv, SectInv, Ownership, [Next]_vars PROVE IInv'
      OBVIOUS
  <2>1. TypeInv' /\ SectInv'
      BY TypeInvNext, SectNext
  <2>2. Ownership'
      BY <2>1, ConsumeOwns, ProduceOwns, ManageOwns, CleanOwns DEF Next
  <2> QED
      BY <2>1, <2>2
<1>3. IInv => Ownership
    OBVIOUS
<1> QED
    BY <1>1, <1>2, <1>3, PTL DEF Spec

=============================================================================
