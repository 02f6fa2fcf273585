--------------------------- MODULE MLFQPoolProofs ---------------------------
(***************************************************************************)
(* What the scheduler promises beyond the ownership of its tasks.  First   *)
(* the feedback queues and the statistics: the level a task is at was      *)
(* earned, a queued task has something to run with, and the unlocked sums  *)
(* never exceed the contributions made, and are exact for the types nobody *)
(* raced for (MLFQStats).  All three need that a task                      *)
(* belongs to one thread at a time (Ownership): a step touches the fields  *)
(* of the task in hand only.  Then the pool as a whole: the count of the   *)
(* consumers at work, what the end of the process means, and the           *)
(* refinement of TaskPool.  The first two need that the 500 ms sleep of    *)
(* main lets the cleaner wait (StartupSettles); the refinement does not.   *)
(***************************************************************************)
EXTENDS MLFQProofs, MLFQStats

-----------------------------------------------------------------------------
(* The feedback *)

\* A task that makes progress when it is run.
Runnable(t) == allotment[t] \in 1..TIME_SLICE /\ (time[t] > 0 \/ new[t])

\* A queued task has earned its level, and makes progress when it is run.
QueueInv == \A l \in 0..2 : \A t \in Range(tempLists[l]) : Earned(t, l) /\ Runnable(t)

\* The task in the hands of consumer c has earned the level c took it from or
\* puts it back to; what the rest of consume() relies on.
HeldOK(c) ==
    /\ Holds(c) => Earned(hand[c], level[c])
    /\ pc[c] \in {"putLock", "put"} => allotment[hand[c]] \in 1..TIME_SLICE /\ time[hand[c]] > 0
    /\ pc[c] \in {"respond", "responded"} => new[hand[c]]
    /\ pc[c] \in {"turnaround", "free"} => time[hand[c]] = 0

\* The task the producer is about to insert is as it was loaded.
FreshInv ==
    pc[Producer] \in {"lock0", "insert"} =>
      LET t == Lines[line] IN time[t] = TimeOf[t] /\ allotment[t] = TIME_SLICE /\ new[t]

FeedInv == QueueInv /\ (\A c \in Consumers : HeldOK(c)) /\ FreshInv

\* Nothing is queued or held before the threads have run.
LEMMA FeedInit == Init => FeedInv
<1> SUFFICES ASSUME Init PROVE FeedInv
    OBVIOUS
<1>1. \A l \in 0..2 : Range(tempLists[l]) = {}
    BY DEF Init, Range
<1>2. pc[Producer] = "start" /\ \A c \in Consumers : pc[c] = "lock" /\ hand[c] = NoTask
    BY ThreadAssumption DEF Init, Threads
<1> QED
    BY <1>1, <1>2 DEF FeedInv, QueueInv, HeldOK, Holds, FreshInv

SameFields(t) == time'[t] = time[t] /\ allotment'[t] = allotment[t] /\ (new'[t] <=> new[t])

\* A task that is not touched has earned the same levels.
LEMMA EarnedKept ==
    ASSUME NEW t, SameFields(t)
    PROVE  /\ \A l : Earned(t, l)' <=> Earned(t, l)
           /\ Runnable(t)' <=> Runnable(t)
BY DEF SameFields, Earned, Used, Runnable

\* A step of th that touches only the tasks of T, which no one else has.
LEMMA FeedKept ==
    ASSUME TypeInv, TypeInv', FeedInv, NEW th \in Threads, Frame(th),
           NEW T, \A t \in Tasks \ T : SameFields(t),
           \A d \in Consumers \ {th} : Holds(d) => hand[d] \notin T,
           \A l \in 0..2 : \A t \in Range(tempLists'[l]) :
             \/ t \notin T /\ t \in Tasks /\ \E m \in l..2 : t \in Range(tempLists[m])
             \/ Earned(t, l)' /\ Runnable(t)',
           th \in Consumers => HeldOK(th)',
           FreshInv'
    PROVE  FeedInv'
<1>1. QueueInv'
  <2> SUFFICES ASSUME NEW l \in 0..2, NEW t \in Tasks \ T, NEW m \in l..2, t \in Range(tempLists[m])
               PROVE  Earned(t, l)' /\ Runnable(t)'
      BY DEF QueueInv
  <2>1. Earned(t, m) /\ Runnable(t)
      BY DEF FeedInv, QueueInv
  <2>2. Earned(t, l)
      BY <2>1 DEF Earned
  <2> QED
      BY <2>1, <2>2, EarnedKept
<1>2. ASSUME NEW d \in Consumers, d # th PROVE HeldOK(d)'
  <2>1. /\ hand'[d] = hand[d] /\ level'[d] = level[d]
        /\ pc'[d] = pc[d] \/ pc'[d] = "lock"
      BY <1>2, ThreadAssumption DEF Frame, Threads
  <2>2. CASE pc'[d] \in OwningPCs
    <3>1. pc'[d] = pc[d] /\ Holds(d) /\ hand[d] \in Tasks
        BY <2>1, <2>2, HoldsByPc DEF OwningPCs, HoldingPCs, TypeInv, HandInv
    <3>2. hand[d] \notin T /\ SameFields(hand[d]) /\ HeldOK(d)
        BY <1>2, <3>1 DEF FeedInv
    <3>3. Earned(hand[d], level[d])'
        BY <2>1, <3>1, <3>2 DEF HeldOK, Earned, Used, SameFields
    <3> QED
        BY <2>1, <3>1, <3>2, <3>3 DEF HeldOK, SameFields
  <2>3. CASE pc'[d] \notin OwningPCs
      BY <2>3, HoldsByPc DEF HeldOK, OwningPCs, HoldingPCs, ConsumerPCs
  <2> QED
      BY <2>2, <2>3
<1> QED
    BY <1>1, <1>2 DEF FeedInv

\* The line the producer has read is loaded when it is inserted, not before.
LEMMA LineNotLoaded ==
    ASSUME TypeInv, line <= Len(Lines), Lines[line] # Delay
    PROVE  Lines[line] \notin Loaded
<1>1. Len(Lines) \in Nat /\ line \in 1..Len(Lines)
    BY LinesAssumption, LenProperties DEF TypeInv, TypeOK, DataOK
<1>2. \A i \in 1..(line - 1) : i \in 1..Len(Lines) /\ i # line
    BY <1>1
<1> QED
    BY <1>1, <1>2, LinesAssumption DEF Loaded

\* So no queue and no consumer has it.
LEMMA NotLoadedYet ==
    ASSUME TypeInv, Ownership, line <= Len(Lines), Lines[line] # Delay
    PROVE  /\ Lines[line] \notin Queued
           /\ \A c \in Consumers : Holds(c) => hand[c] # Lines[line]
BY LineNotLoaded, PlacesAre DEF Places, Ownership

\* What is loaded is tasks.
LEMMA LoadedTasks == TypeInv => Loaded \subseteq Tasks
<1> SUFFICES ASSUME TypeInv, NEW i \in 1..(line - 1), Lines[i] # Delay PROVE Lines[i] \in Tasks
    BY DEF Loaded
<1>1. i \in 1..Len(Lines)
    BY LinesAssumption, LenProperties DEF TypeInv, TypeOK, DataOK
<1> QED
    BY <1>1, LinesAssumption, ElementOfSeq

\* No other thread touches the task the producer has read.
LEMMA FreshKept ==
    ASSUME TypeInv, Ownership, FeedInv, pc'[Producer] = pc[Producer], line' = line,
           NEW T, \A t \in Tasks \ T : SameFields(t),
           \A t \in T : \E c \in Consumers : Holds(c) /\ hand[c] = t
    PROVE  FreshInv'
<1> SUFFICES ASSUME pc[Producer] \in {"lock0", "insert"}
             PROVE  LET t == Lines[line] IN time'[t] = TimeOf[t] /\ allotment'[t] = TIME_SLICE /\ new'[t]
    BY DEF FreshInv
<1>1. line <= Len(Lines) /\ Lines[line] # Delay
    BY DEF TypeInv, LineInv
<1>2. Lines[line] \in Tasks /\ Lines[line] \notin T
    BY <1>1, LineIsTask, NotLoadedYet
<1> QED
    BY <1>2 DEF FeedInv, FreshInv, SameFields

\* The multiples of the slice that a run reaches.
LEMMA SliceMultiples ==
    ASSUME NEW k \in Nat, k >= 1
    PROVE  k * TIME_SLICE \in Nat /\ k * TIME_SLICE >= k /\ (k + 1) * TIME_SLICE = k * TIME_SLICE + TIME_SLICE
BY SliceAssumption

\* With u of its time used, and a of its allotment left, a task has earned level l.
Reaches(u, a, l) == \E k \in 1..(u + 1) : u + a = k * TIME_SLICE /\ l < k

\* What a run does to the levels a task has earned.
LEMMA RunEarns ==
    ASSUME NEW total \in Nat, NEW left \in Nat, NEW rest \in Nat, NEW spare \in Nat, NEW l \in 0..2,
           Reaches(total - (rest + left), spare + left, l)
    PROVE  /\ Reaches(total - rest, spare, l)
           /\ spare = 0 => Reaches(total - rest, TIME_SLICE, MIN(l + 1, 2))
<1>1. PICK k \in 1..((total - (rest + left)) + 1) :
        (total - (rest + left)) + (spare + left) = k * TIME_SLICE /\ l < k
    BY DEF Reaches
<1> DEFINE p == k * TIME_SLICE
<1>2. p \in Nat /\ p >= k /\ (k + 1) * TIME_SLICE = p + TIME_SLICE
    BY <1>1, SliceMultiples
<1>3. k \in 1..((total - rest) + 1) /\ (total - rest) + spare = p /\ l < k
    BY <1>1
<1>4. ASSUME spare = 0
      PROVE  /\ k + 1 \in 1..((total - rest) + 1)
             /\ (total - rest) + TIME_SLICE = (k + 1) * TIME_SLICE /\ MIN(l + 1, 2) < k + 1
  <2>1. total - rest = p
      BY <1>3, <1>4
  <2> HIDE DEF p
  <2>2. k + 1 \in 1..((total - rest) + 1)
      BY <1>2, <1>3, <2>1
  <2>3. MIN(l + 1, 2) < k + 1
      BY <1>3 DEF MIN
  <2> QED
      BY <1>2, <2>1, <2>2, <2>3
<1> QED
    BY <1>3, <1>4 DEF Reaches

\* A queue's elements are tasks, which no consumer has.
LEMMA QueuedTasks ==
    ASSUME TypeInv, NEW l \in 0..2, NEW t \in Range(tempLists[l])
    PROVE  t \in Tasks /\ t \in Queued
<1>1. tempLists[l] \in Seq(Tasks)
    BY DEF TypeInv, TypeOK, ListOK
<1>2. ByIndex(tempLists[l]) /\ \A i \in 1..Len(tempLists[l]) : tempLists[l][i] \in Tasks
    BY <1>1, SeqByIndex, ElementOfSeq
<1> QED
    BY <1>2, PlacesAre DEF Places, ByIndex

\* The same for a step that touches no task.
LEMMA FeedUntouched ==
    ASSUME TypeInv, TypeInv', Ownership, FeedInv, NEW th \in Threads, Frame(th),
           \A t \in Tasks : SameFields(t),
           \A l \in 0..2 : \A t \in Range(tempLists'[l]) :
             \/ \E m \in l..2 : t \in Range(tempLists[m])
             \/ Earned(t, l)' /\ Runnable(t)',
           th \in Consumers => HeldOK(th)',
           th = Producer => FreshInv',
           th # Producer => pc'[Producer] = pc[Producer] /\ line' = line
    PROVE  FeedInv'
<1> DEFINE T == {}
<1>1. /\ \A t \in Tasks \ T : SameFields(t)
      /\ \A t \in T : \E c \in Consumers : Holds(c) /\ hand[c] = t
      /\ \A d \in Consumers \ {th} : Holds(d) => hand[d] \notin T
    OBVIOUS
<1>2. \A l \in 0..2 : \A t \in Range(tempLists'[l]) :
        \/ t \notin T /\ t \in Tasks /\ \E m \in l..2 : t \in Range(tempLists[m])
        \/ Earned(t, l)' /\ Runnable(t)'
    BY QueuedTasks
<1> HIDE DEF T
<1>3. FreshInv'
    BY <1>1, FreshKept
<1> QED
    BY <1>1, <1>2, <1>3, FeedKept

\* The same for a step that touches no queue either.
LEMMA FeedStep ==
    ASSUME TypeInv, TypeInv', Ownership, FeedInv, NEW th \in Threads, Frame(th),
           UNCHANGED tempLists, \A t \in Tasks : SameFields(t),
           th \in Consumers => HeldOK(th)',
           th = Producer => FreshInv',
           th # Producer => pc'[Producer] = pc[Producer] /\ line' = line
    PROVE  FeedInv'
<1>1. \A l \in 0..2 : l \in l..2
    OBVIOUS
<1> QED
    BY <1>1, FeedUntouched

\* A removal takes a task from the level it has earned.
LEMMA RemoveFeeds ==
    ASSUME TypeInv, TypeInv', SectInv, Ownership, FeedInv, NEW c \in Consumers, Remove(c)
    PROVE  FeedInv'
<1>1. /\ level[c] \in 0..2 /\ tempLists \in [0..2 -> Seq(Tasks)] /\ pc[c] = "remove" /\ Frame(c)
      /\ c \in Threads
    BY ConsumeFrame DEF Consume, Remove, At, TypeInv, TypeOK, OwnOK, ListOK, Threads
<1>2. /\ tempLists[level[c]] # << >> /\ hand[c] = tempLists[level[c]][1]
      /\ IsInjective(tempLists[level[c]])
    BY <1>1 DEF SectInv, HeadInv, Ownership
<1>3. /\ tempLists' = [tempLists EXCEPT ![level[c]] = SubSeq(@, 2, Len(@))] /\ pc'[c] = "incLock"
      /\ pc'[Producer] = pc[Producer] /\ line' = line /\ level' = level /\ hand' = hand
      /\ \A t : SameFields(t)
    BY <1>1, ThreadAssumption
       DEF Remove, RemoveHead, Goto, ownVars, dataVars, taskVars, loadVars, SameFields,
           TypeInv, TypeOK, PcOK, Threads
<1>4. /\ hand[c] \in Range(tempLists[level[c]])
      /\ Range(tempLists'[level[c]]) \subseteq Range(tempLists[level[c]])
    BY <1>1, <1>2, <1>3, TailPlaces
<1>5. \A l \in 0..2 : Range(tempLists'[l]) \subseteq Range(tempLists[l])
    BY <1>1, <1>3, <1>4
<1>6. Earned(hand[c], level[c])'
  <2>1. Earned(hand[c], level[c])
      BY <1>1, <1>4 DEF FeedInv, QueueInv
  <2> QED
      BY <1>3, <2>1 DEF Earned, Used, SameFields
<1>7. HeldOK(c)'
    BY <1>3, <1>6 DEF HeldOK
<1>8. \A l \in 0..2 : l \in l..2
    OBVIOUS
<1>9. c # Producer
    BY ThreadAssumption
<1> QED
    BY <1>1, <1>3, <1>5, <1>7, <1>8, <1>9, FeedUntouched

\* An insertion of a task that has earned level l.
LEMMA InsertFeeds ==
    ASSUME TypeInv, NEW l \in 0..2, NEW t \in Tasks, Insert(t, l),
           Earned(t, l)', Runnable(t)'
    PROVE  \A k \in 0..2 : \A x \in Range(tempLists'[k]) :
             \/ \E m \in k..2 : x \in Range(tempLists[m])
             \/ Earned(x, k)' /\ Runnable(x)'
<1>1. tempLists \in [0..2 -> Seq(Tasks)]
    BY DEF TypeInv, TypeOK, ListOK
<1>2. Range(Append(tempLists[l], t)) = Range(tempLists[l]) \cup {t}
    BY <1>1, AppendPlaces
<1>3. /\ Range(tempLists'[l]) = Range(tempLists[l]) \cup {t}
      /\ \A k \in 0..2 : k # l => tempLists'[k] = tempLists[k]
    BY <1>1, <1>2 DEF Insert
<1>4. ASSUME NEW k \in 0..2, NEW x \in Range(tempLists'[k])
      PROVE  x \in Range(tempLists[k]) \/ (k = l /\ x = t)
    BY <1>3
<1>5. \A k \in 0..2 : k \in k..2
    OBVIOUS
<1> QED
    BY <1>4, <1>5

\* A put-back queues a task at a level that it has earned.
LEMMA PutFeeds ==
    ASSUME TypeInv, TypeInv', Ownership, FeedInv, NEW c \in Consumers, Put(c)
    PROVE  FeedInv'
<1>1. level[c] \in 0..2 /\ pc[c] = "put" /\ Frame(c) /\ c \in Threads
    BY ConsumeFrame DEF Consume, Put, At, TypeInv, TypeOK, OwnOK, Threads
<1>2. /\ Insert(hand[c], level[c]) /\ pc'[c] = "decLock" /\ pc'[Producer] = pc[Producer]
      /\ line' = line /\ \A t : SameFields(t)
    BY <1>1, ThreadAssumption
       DEF Put, WakeAll, Waiting, dataVars, taskVars, loadVars, SameFields, Threads
<1>3. hand[c] \in Tasks /\ Holds(c) /\ HeldOK(c)
    BY <1>1, HoldsByPc DEF TypeInv, HandInv, HoldingPCs, OwningPCs, ConsumerPCs, FeedInv
<1>4. Earned(hand[c], level[c]) /\ Runnable(hand[c])
    BY <1>1, <1>3 DEF HeldOK, Runnable
<1> DEFINE t == hand[c]
           l == level[c]
<1>5. t \in Tasks /\ l \in 0..2 /\ Insert(t, l) /\ SameFields(t) /\ Earned(t, l) /\ Runnable(t)
    BY <1>1, <1>2, <1>3, <1>4
<1>6. HeldOK(c)'
  <2>1. ~ Holds(c)'
      BY <1>1, <1>2, HoldsByPc DEF OwningPCs, HoldingPCs, ConsumerPCs
  <2> QED
      BY <1>2, <2>1 DEF HeldOK
<1>7. c # Producer
    BY ThreadAssumption
<1>8. ASSUME NEW x \in Tasks, NEW k \in 0..2, Insert(x, k), SameFields(x), Earned(x, k), Runnable(x)
      PROVE  FeedInv'
  <2>1. Earned(x, k)' /\ Runnable(x)'
      BY <1>8, EarnedKept
  <2>2. \A j \in 0..2 : \A y \in Range(tempLists'[j]) :
             \/ \E m \in j..2 : y \in Range(tempLists[m])
             \/ Earned(y, j)' /\ Runnable(y)'
      BY <1>8, <2>1, InsertFeeds
  <2> QED
      BY <1>1, <1>2, <1>6, <1>7, <2>2, FeedUntouched
<1> QED
    BY <1>5, <1>8

\* What a run takes of the time and the allotment of its task, and what it does
\* with the rest of the allotment.
LEMMA RunSplits ==
    ASSUME TypeInv, NEW c \in Consumers, Run(c)
    PROVE  \E left \in Nat, rest \in Nat, spare \in Nat :
             /\ time[hand[c]] = rest + left /\ allotment[hand[c]] = spare + left
             /\ time' = [time EXCEPT ![hand[c]] = rest]
             /\ \/ /\ rest = 0 /\ Goto(c, "turnaround") /\ UNCHANGED level
                   /\ allotment' = [allotment EXCEPT ![hand[c]] = spare]
                \/ /\ rest > 0 /\ Goto(c, "putLock")
                   /\ level' = [level EXCEPT ![c] = LevelAfter(level[c], spare)]
                   /\ allotment' = [allotment EXCEPT ![hand[c]] = AllotmentAfter(spare)]
<1> DEFINE t == hand[c]
<1>1. t \in Tasks
    BY DEF Run, At, TypeInv, HandInv, HoldingPCs, ConsumerPCs
<1>2. time[t] \in Nat /\ allotment[t] \in 0..TIME_SLICE
    BY <1>1 DEF TypeInv, TypeOK, DataOK
<1>3. PICK ioTime \in IOTimes(t) :
        LET left  == Left(t, ioTime)
            spare == allotment[t] - left
        IN /\ time' = [time EXCEPT ![t] = @ - left]
           /\ \/ /\ time[t] = left
                 /\ allotment' = [allotment EXCEPT ![t] = spare]
                 /\ Goto(c, "turnaround")
                 /\ UNCHANGED level
              \/ /\ time[t] # left
                 /\ allotment' = [allotment EXCEPT ![t] = AllotmentAfter(spare)]
                 /\ level' = [level EXCEPT ![c] = LevelAfter(@, spare)]
                 /\ Goto(c, "putLock")
    BY DEF Run
<1> DEFINE left  == Left(t, ioTime)
           spare == allotment[t] - left
           rest  == time[t] - left
<1>4. QUANTUM - ioTime \in Nat
    BY <1>3, SliceAssumption DEF IOTimes
<1>5. left \in Nat /\ left <= time[t] /\ left <= allotment[t]
    BY <1>2, <1>4, SliceAssumption DEF Left, MIN
<1>6. time' = [time EXCEPT ![t] = rest]
    BY <1>3
<1>7. \/ /\ time[t] = left /\ Goto(c, "turnaround") /\ UNCHANGED level
         /\ allotment' = [allotment EXCEPT ![t] = spare]
      \/ /\ time[t] # left /\ Goto(c, "putLock")
         /\ level' = [level EXCEPT ![c] = LevelAfter(level[c], spare)]
         /\ allotment' = [allotment EXCEPT ![t] = AllotmentAfter(spare)]
    BY <1>3
<1> HIDE DEF left
<1>8. /\ spare \in Nat /\ rest \in Nat
      /\ time[t] = rest + left /\ allotment[t] = spare + left
      /\ (time[t] = left <=> rest = 0) /\ (time[t] # left <=> rest > 0)
    BY <1>2, <1>5
<1> HIDE DEF spare, rest
<1> QED
    BY <1>5, <1>6, <1>7, <1>8

\* A run that leaves its task unfinished moves it down a level when the task
\* has used up the slice of its level.
LEMMA RunFeeds ==
    ASSUME TypeInv, TypeInv', Ownership, FeedInv, NEW c \in Consumers, Run(c)
    PROVE  FeedInv'
<1> DEFINE t == hand[c]
<1>1. /\ pc[c] = "run" /\ Frame(c) /\ c \in Threads /\ level[c] \in 0..2 /\ c # Producer
      /\ tempLists' = tempLists /\ new' = new /\ hand' = hand /\ line' = line
    BY ConsumeFrame, ThreadAssumption
       DEF Consume, Run, At, TypeInv, TypeOK, OwnOK, Threads, loadVars
<1>2. t \in Tasks /\ Holds(c) /\ Earned(t, level[c])
    BY <1>1, HoldsByPc
       DEF TypeInv, HandInv, HoldingPCs, OwningPCs, ConsumerPCs, FeedInv, HeldOK
<1>3. PICK left \in Nat, rest \in Nat, spare \in Nat :
        /\ time[t] = rest + left /\ allotment[t] = spare + left
        /\ time' = [time EXCEPT ![t] = rest]
        /\ \/ /\ rest = 0 /\ Goto(c, "turnaround") /\ UNCHANGED level
              /\ allotment' = [allotment EXCEPT ![t] = spare]
           \/ /\ rest > 0 /\ Goto(c, "putLock")
              /\ level' = [level EXCEPT ![c] = LevelAfter(level[c], spare)]
              /\ allotment' = [allotment EXCEPT ![t] = AllotmentAfter(spare)]
    BY RunSplits
<1>4. /\ time \in [Tasks -> Nat] /\ allotment \in [Tasks -> 0..TIME_SLICE] /\ new \in [Tasks -> BOOLEAN]
      /\ allotment' \in [Tasks -> 0..TIME_SLICE] /\ level \in [Consumers \cup {Manager} -> 0..2]
      /\ pc \in [Threads -> ConsumerPCs \cup ManagerPCs \cup ProducerPCs \cup CleanerPCs]
    BY DEF TypeInv, TypeOK, PcOK, DataOK, OwnOK
<1>5. TimeOf[t] \in Nat
    BY <1>2, TaskAssumption
<1>6. Reaches(TimeOf[t] - (rest + left), spare + left, level[c])
    BY <1>2, <1>3 DEF Earned, Used, Reaches
<1>7. /\ Reaches(TimeOf[t] - rest, spare, level[c])
      /\ spare = 0 => Reaches(TimeOf[t] - rest, TIME_SLICE, MIN(level[c] + 1, 2))
    BY <1>1, <1>5, <1>6, RunEarns
<1> HIDE DEF t
<1>8. time'[t] = rest
    BY <1>2, <1>3, <1>4
<1>9. \/ rest = 0 /\ pc'[c] = "turnaround" /\ level'[c] = level[c] /\ allotment'[t] = spare
      \/ /\ rest > 0 /\ pc'[c] = "putLock" /\ level'[c] = LevelAfter(level[c], spare)
         /\ allotment'[t] = AllotmentAfter(spare)
    BY <1>1, <1>2, <1>3, <1>4 DEF Goto
<1>10. Reaches(TimeOf[t] - time'[t], allotment'[t], level'[c])
    BY <1>7, <1>8, <1>9 DEF LevelAfter, AllotmentAfter
<1>12. Earned(hand[c], level[c])'
    BY <1>1, <1>10 DEF Earned, Used, Reaches, t
<1>13. HeldOK(c)'
  <2>1. pc'[c] = "putLock" => allotment'[t] \in 1..TIME_SLICE /\ time'[t] > 0
      BY <1>2, <1>4, <1>8, <1>9, SliceAssumption DEF AllotmentAfter
  <2>2. pc'[c] = "turnaround" => time'[t] = 0
      BY <1>8, <1>9
  <2> QED
      BY <1>1, <1>9, <1>12, <2>1, <2>2 DEF HeldOK, t
<1>14. \A x \in Tasks \ {t} : SameFields(x)
    BY <1>1, <1>3, <1>4 DEF SameFields
<1>15. t \notin Queued /\ \A d \in Consumers \ {c} : Holds(d) => hand[d] # t
    BY <1>2, PlacesAre DEF Ownership, Places, t
<1> DEFINE T == {t}
<1>16. /\ \A x \in Tasks \ T : SameFields(x)
       /\ \A d \in Consumers \ {c} : Holds(d) => hand[d] \notin T
       /\ \A x \in T : \E d \in Consumers : Holds(d) /\ hand[d] = x
    BY <1>2, <1>14, <1>15 DEF t
<1>17. \A l \in 0..2 : \A x \in Range(tempLists'[l]) :
         x \notin T /\ x \in Tasks /\ \E m \in l..2 : x \in Range(tempLists[m])
  <2>1. \A l \in 0..2 : l \in l..2
      OBVIOUS
  <2> QED
      BY <1>1, <1>15, <2>1, QueuedTasks
<1> HIDE DEF T
<1>18. pc'[Producer] = pc[Producer]
    BY <1>1, <1>3, ConsumerGoto DEF ConsumerPCs
<1>19. FreshInv'
    BY <1>1, <1>16, <1>18, FreshKept
<1> QED
    BY <1>1, <1>13, <1>16, <1>17, <1>19, FeedKept

\* The first response touches only the mark of a new task.
LEMMA RespondedFeeds ==
    ASSUME TypeInv, TypeInv', Ownership, FeedInv, NEW c \in Consumers, Responded(c)
    PROVE  FeedInv'
<1> DEFINE t == hand[c]
<1>1. /\ pc[c] = "responded" /\ Goto(c, "run") /\ Frame(c) /\ c \in Threads /\ c # Producer
      /\ new' = [new EXCEPT ![t] = FALSE]
      /\ UNCHANGED <<tempLists, time, allotment, hand, level, line>>
    BY ConsumeFrame, ThreadAssumption DEF Consume, Responded, StoreSum, At, Threads, loadVars
<1>2. pc'[c] = "run" /\ pc'[Producer] = pc[Producer]
    BY <1>1, ConsumerGoto DEF ConsumerPCs
<1>3. t \in Tasks /\ Holds(c) /\ Earned(t, level[c])
    BY <1>1, HoldsByPc
       DEF TypeInv, HandInv, HoldingPCs, OwningPCs, ConsumerPCs, FeedInv, HeldOK
<1>4. HeldOK(c)'
    BY <1>1, <1>2, <1>3 DEF HeldOK, Earned, Used
<1> HIDE DEF t
<1>5. \A x \in Tasks \ {t} : SameFields(x)
  <2>1. new \in [Tasks -> BOOLEAN]
      BY DEF TypeInv, TypeOK, DataOK
  <2>2. \A x \in Tasks \ {t} : new'[x] <=> new[x]
      BY <1>1, <2>1, Zenon
  <2> QED
      BY <1>1, <2>2 DEF SameFields
<1>6. t \notin Queued /\ \A d \in Consumers \ {c} : Holds(d) => hand[d] # t
    BY <1>3, PlacesAre DEF Ownership, Places, t
<1> DEFINE T == {t}
<1>7. /\ \A x \in Tasks \ T : SameFields(x)
      /\ \A d \in Consumers \ {c} : Holds(d) => hand[d] \notin T
      /\ \A x \in T : \E d \in Consumers : Holds(d) /\ hand[d] = x
    BY <1>3, <1>5, <1>6 DEF t
<1>8. \A l \in 0..2 : \A x \in Range(tempLists'[l]) :
        x \notin T /\ x \in Tasks /\ \E m \in l..2 : x \in Range(tempLists[m])
  <2>1. \A l \in 0..2 : l \in l..2
      OBVIOUS
  <2> QED
      BY <1>1, <1>6, <2>1, QueuedTasks
<1> HIDE DEF T
<1>9. FreshInv'
    BY <1>1, <1>2, <1>7, FreshKept
<1> QED
    BY <1>1, <1>4, <1>7, <1>8, <1>9, FeedKept

\* Every step of consume() keeps the levels that were earned.
LEMMA ConsumeFeeds ==
    ASSUME TypeInv, TypeInv', SectInv, Ownership, FeedInv, NEW c \in Consumers,
           Consume(c) \/ SpuriousWakeup(c)
    PROVE  FeedInv'
<1>0. /\ c \in Threads /\ Frame(c) /\ c # Producer /\ HeldOK(c)
      /\ pc \in [Threads -> ConsumerPCs \cup ManagerPCs \cup ProducerPCs \cup CleanerPCs]
    BY ConsumeFrame, ThreadAssumption DEF Threads, TypeInv, TypeOK, PcOK, FeedInv
<1>1. CASE Remove(c) \/ Put(c) \/ Run(c) \/ Responded(c)
    BY <1>1, RemoveFeeds, PutFeeds, RunFeeds, RespondedFeeds
<1>2. CASE \/ Lock(c) \/ Look(c) \/ Wait(c) \/ SpuriousWakeup(c) \/ IncLock(c) \/ Inc(c)
           \/ DecLock(c) \/ Dec(c) \/ Respond(c) \/ Turnaround(c) \/ Free(c) \/ PutLock(c)
  <2>1. UNCHANGED <<tempLists, time, allotment, new, line>> /\ \E to : Goto(c, to)
    <3>1. CASE Lock(c) \/ Look(c) \/ Wait(c) \/ SpuriousWakeup(c) \/ PutLock(c)
        BY <3>1 DEF Lock, Look, Wait, SpuriousWakeup, Step, PutLock, TakeLock, dataVars, taskVars, loadVars
    <3>2. CASE IncLock(c) \/ Inc(c) \/ DecLock(c) \/ Dec(c)
        BY <3>2 DEF IncLock, Inc, DecLock, Dec, CountLock, Count, dataVars, taskVars, loadVars
    <3>3. CASE Respond(c) \/ Turnaround(c) \/ Free(c)
        BY <3>3 DEF Respond, Turnaround, LoadSum, Free, StoreSum, dataVars, taskVars, loadVars
    <3> QED
        BY <1>2, <3>1, <3>2, <3>3
  <2>2. pc'[Producer] = pc[Producer] /\ \A t \in Tasks : SameFields(t)
      BY <1>0, <2>1, ThreadAssumption DEF Goto, SameFields, Threads
  <2>3. HeldOK(c)'
    <3>1. CASE \/ Lock(c) \/ Look(c) \/ Wait(c) \/ SpuriousWakeup(c) \/ DecLock(c) \/ Dec(c) \/ Free(c)
      <4>1. pc'[c] \in {"look", "remove", "wait", "lock", "waiting", "dec", "decLock"}
          BY <1>0, <3>1 DEF Lock, TakeLock, Look, Wait, SpuriousWakeup, Step, DecLock, CountLock, Dec, Free, Goto
      <4>2. ~ Holds(c)'
          BY <4>1, HoldsByPc DEF OwningPCs, HoldingPCs, ConsumerPCs
      <4> QED
          BY <4>1, <4>2 DEF HeldOK
    <3>2. CASE IncLock(c) \/ Inc(c) \/ Respond(c) \/ Turnaround(c) \/ PutLock(c)
      <4>1. /\ hand' = hand /\ level' = level
            /\ pc[c] \in {"incLock", "inc", "respond", "turnaround", "putLock"}
          BY <3>2 DEF IncLock, Inc, CountLock, Count, Respond, Turnaround, LoadSum, PutLock, TakeLock,
                      At, ownVars
      <4>2. Earned(hand[c], level[c])
          BY <1>0, <4>1, HoldsByPc DEF OwningPCs, HoldingPCs, ConsumerPCs, HeldOK
      <4>3. Earned(hand[c], level[c])'
          BY <2>1, <4>1, <4>2 DEF Earned, Used
      <4>4. /\ pc'[c] \in {"inc", "run", "respond", "responded", "free", "put"}
            /\ pc'[c] = "respond" => new[hand[c]]
            /\ pc'[c] = "responded" => pc[c] = "respond"
            /\ pc'[c] = "free" => pc[c] = "turnaround"
            /\ pc'[c] = "put" => pc[c] = "putLock"
        <5>1. CASE IncLock(c)
          <6>1. Goto(c, "inc")
              BY <5>1 DEF IncLock, CountLock
          <6>2. pc'[c] = "inc"
              BY <6>1, ConsumerGoto DEF ConsumerPCs
          <6> QED
              BY <6>2
        <5>3. CASE Inc(c)
          <6>1. CASE new[hand[c]]
            <7>1. Goto(c, "respond")
                BY <5>3, <6>1 DEF Inc
            <7>2. pc'[c] = "respond"
                BY <7>1, ConsumerGoto DEF ConsumerPCs
            <7> QED
                BY <6>1, <7>2
          <6>2. CASE ~ new[hand[c]]
            <7>1. Goto(c, "run")
                BY <5>3, <6>2 DEF Inc
            <7>2. pc'[c] = "run"
                BY <7>1, ConsumerGoto DEF ConsumerPCs
            <7> QED
                BY <7>2
          <6> QED
              BY <6>1, <6>2
        <5>2. CASE Respond(c) \/ Turnaround(c) \/ PutLock(c)
            BY <1>0, <5>2 DEF Respond, Turnaround, LoadSum, PutLock, TakeLock, At, Goto
        <5> QED
            BY <3>2, <5>1, <5>2, <5>3
      <4> QED
          BY <1>0, <2>1, <4>1, <4>3, <4>4 DEF HeldOK
    <3> QED
        BY <1>2, <3>1, <3>2
  <2> QED
      BY <1>0, <2>1, <2>2, <2>3, FeedStep
<1> QED
    BY <1>1, <1>2 DEF Consume

\* The producer inserts into level 0, which a fresh task has earned.
LEMMA ProduceFeeds ==
    ASSUME TypeInv, TypeInv', Ownership, FeedInv, Produce
    PROVE  FeedInv'
<1>0. /\ Producer \in Threads /\ Producer \notin Consumers
      /\ pc \in [Threads -> ConsumerPCs \cup ManagerPCs \cup ProducerPCs \cup CleanerPCs]
    BY ThreadAssumption DEF Threads, TypeInv, TypeOK, PcOK
<1>1. CASE InsertTask
  <2> SUFFICES ASSUME NEW t, t = Lines[line] PROVE FeedInv'
      OBVIOUS
  <2>1. /\ pc[Producer] = "insert" /\ Insert(t, 0) /\ \A x : SameFields(x)
        /\ UNCHANGED <<hand, level>> /\ WakeAll(Producer, "next")
      BY <1>1 DEF InsertTask, At, taskVars, ownVars, SameFields
  <2>2. Frame(Producer) /\ pc'[Producer] = "next"
      BY <1>0, <2>1, ThreadAssumption DEF WakeAll, Waiting, Frame, Threads
  <2>3. t \in Tasks
      BY <2>1, LineIsTask DEF TypeInv, LineInv
  <2>4. time[t] = TimeOf[t] /\ allotment[t] = TIME_SLICE /\ new[t]
      BY <2>1 DEF FeedInv, FreshInv
  <2>5. Earned(t, 0) /\ Runnable(t)
    <3>1. TimeOf[t] \in Nat
        BY <2>3, TaskAssumption
    <3>2. Used(t) = 0 /\ allotment[t] = TIME_SLICE
        BY <2>4, <3>1 DEF Used
    <3>3. 1 \in 1..(0 + 1) /\ 0 + TIME_SLICE = 1 * TIME_SLICE /\ 0 < 1
        BY SliceAssumption
    <3> QED
        BY <2>4, <3>2, <3>3, SliceAssumption DEF Earned, Runnable
  <2>6. Earned(t, 0)' /\ Runnable(t)'
      BY <2>1, <2>5, EarnedKept
  <2>7. \A k \in 0..2 : \A x \in Range(tempLists'[k]) :
             \/ \E m \in k..2 : x \in Range(tempLists[m])
             \/ Earned(x, k)' /\ Runnable(x)'
      BY <2>1, <2>3, <2>6, InsertFeeds
  <2>8. FreshInv'
      BY <2>2 DEF FreshInv
  <2> QED
      BY <1>0, <2>1, <2>2, <2>7, <2>8, FeedUntouched
<1>2. CASE ReadTask
  <2> DEFINE t == Lines[line]
             T == {t}
  <2>1. /\ Goto(Producer, "lock0") /\ line <= Len(Lines) /\ t # Delay
        /\ time' = [time EXCEPT ![t] = TimeOf[t]]
        /\ allotment' = [allotment EXCEPT ![t] = TIME_SLICE]
        /\ new' = [new EXCEPT ![t] = TRUE]
        /\ UNCHANGED <<tempLists, hand, level, line>>
      BY <1>2 DEF ReadTask, loadVars, ownVars
  <2>2. /\ t \in Tasks /\ t \notin Queued
        /\ \A d \in Consumers \ {Producer} : Holds(d) => hand[d] \notin T
      BY <2>1, LineIsTask, NotLoadedYet
  <2>3. Frame(Producer)
      BY <1>0, <2>1, GotoFrame
  <2>4. time \in [Tasks -> Nat] /\ allotment \in [Tasks -> 0..TIME_SLICE] /\ new \in [Tasks -> BOOLEAN]
      BY DEF TypeInv, TypeOK, DataOK
  <2>5. FreshInv'
    <3>1. time'[t] = TimeOf[t] /\ allotment'[t] = TIME_SLICE
        BY <2>1, <2>2, <2>4
    <3>2. new'[t]
        BY <2>1, <2>2, <2>4, Zenon
    <3> QED
        BY <2>1, <3>1, <3>2 DEF FreshInv
  <2> HIDE DEF t
  <2>6. \A x \in Tasks \ T : SameFields(x)
    <3>1. \A x \in Tasks \ {t} : new'[x] <=> new[x]
        BY <2>1, <2>4, Zenon
    <3> QED
        BY <2>1, <2>4, <3>1 DEF SameFields
  <2>7. \A l \in 0..2 : \A x \in Range(tempLists'[l]) :
          x \notin T /\ x \in Tasks /\ \E m \in l..2 : x \in Range(tempLists[m])
    <3>1. \A l \in 0..2 : l \in l..2
        OBVIOUS
    <3> QED
        BY <2>1, <2>2, <3>1, QueuedTasks
  <2> HIDE DEF T
  <2> QED
      BY <1>0, <2>2, <2>3, <2>5, <2>6, <2>7, FeedKept
<1>3. CASE StartProducer \/ ReadDelay \/ EndOfFile
  <2>1. /\ \E to \in {"next", "wake", "done"} : Goto(Producer, to)
        /\ UNCHANGED <<tempLists, time, allotment, new, hand, level>>
      BY <1>3 DEF StartProducer, Step, ReadDelay, BeginWakeUp, EndOfFile, dataVars, taskVars, ownVars
  <2>2. Frame(Producer) /\ FreshInv' /\ \A t \in Tasks : SameFields(t)
      BY <1>0, <2>1, GotoFrame DEF FreshInv, SameFields
  <2> QED
      BY <1>0, <2>1, <2>2, FeedStep
<1>4. CASE TakeLock(Producer, "lock0", 0, "insert")
  <2>1. /\ pc[Producer] = "lock0" /\ Goto(Producer, "insert")
        /\ UNCHANGED <<tempLists, time, allotment, new, hand, level, line>>
      BY <1>4 DEF TakeLock, At, dataVars, taskVars, loadVars, ownVars
  <2>2. Frame(Producer) /\ FreshInv' /\ \A t \in Tasks : SameFields(t)
      BY <1>0, <2>1, GotoFrame DEF FeedInv, FreshInv, SameFields
  <2> QED
      BY <1>0, <2>1, <2>2, FeedStep
<1>5. CASE Signal(Producer, "next")
  <2>1. /\ Frame(Producer) /\ pc'[Producer] \in {"next", "wake"}
        /\ UNCHANGED <<tempLists, time, allotment, new>>
      BY <1>5, SignalFrame DEF Signal, dataVars, taskVars
  <2>2. FreshInv' /\ \A t \in Tasks : SameFields(t)
      BY <2>1 DEF FreshInv, SameFields
  <2> QED
      BY <1>0, <2>1, <2>2, FeedStep
<1> QED
    BY <1>1, <1>2, <1>3, <1>4, <1>5 DEF Produce

\* The manager moves tasks to a higher level, which they have earned as well.
LEMMA ManageFeeds ==
    ASSUME TypeInv, TypeInv', Ownership, FeedInv, Manage
    PROVE  FeedInv'
<1>0. /\ Manager \in Threads /\ Manager \notin Consumers /\ Manager # Producer
      /\ Producer \in Threads /\ Producer \notin Consumers /\ Producer # Cleaner
    BY ThreadAssumption DEF Threads
<1>1. UNCHANGED <<time, allotment, new, line>> /\ Frame(Manager) /\ \A t \in Tasks : SameFields(t)
  <2>1. UNCHANGED <<time, allotment, new, line>>
      BY DEF Manage, Step, TakeLock, DrainOne, DrainTwo, Scan, Signal, CheckDone, dataVars, taskVars, loadVars
  <2>2. CASE Signal(Manager, "lock3")
      BY <2>1, <2>2, SignalFrame DEF SameFields
  <2>3. CASE CheckDone
      BY <2>1, <2>3 DEF CheckDone, Frame, SameFields, ownVars, TypeInv, TypeOK, PcOK
  <2>4. CASE ~ Signal(Manager, "lock3") /\ ~ CheckDone
    <3>1. hand' = hand /\ (\E to : Goto(Manager, to))
          /\ (level' = level \/ \E l : level' = [level EXCEPT ![Manager] = l])
        BY <2>4 DEF Manage, Step, TakeLock, DrainOne, DrainTwo, Scan, BeginWakeUp, ownVars
    <3> QED
        BY <1>0, <2>1, <3>1, GotoFrame DEF SameFields
  <2> QED
      BY <2>2, <2>3, <2>4
<1>2. pc'[Producer] = pc[Producer]
    BY <1>0, <1>1 DEF Frame
<1>3. \A l \in 0..2 : \A t \in Range(tempLists'[l]) : \E m \in l..2 : t \in Range(tempLists[m])
  <2>1. \A l \in 0..2 : l \in l..2
      OBVIOUS
  <2>2. CASE DrainOne \/ DrainTwo
    <3>1. PICK l \in {1, 2} : LevelUp(l)
        BY <2>2 DEF DrainOne, DrainTwo
    <3>2. tempLists \in [0..2 -> Seq(Tasks)]
        BY DEF TypeInv, TypeOK, ListOK
    <3>3. /\ tempLists'[0] = tempLists[0] \o tempLists[l] /\ tempLists'[l] = << >>
          /\ \A m \in 0..2 : m # 0 /\ m # l => tempLists'[m] = tempLists[m]
        BY <3>1, <3>2 DEF LevelUp
    <3>4. Range(tempLists[0] \o tempLists[l]) = Range(tempLists[0]) \cup Range(tempLists[l])
        BY <3>2, ConcatPlaces
    <3>5. Range(tempLists'[0]) = Range(tempLists[0]) \cup Range(tempLists[l])
        BY <3>3, <3>4
    <3>6. Range(tempLists'[l]) = {}
        BY <3>3 DEF Range
    <3>7. l \in 0..2 /\ 0 \in 0..2
        OBVIOUS
    <3> QED
        BY <2>1, <3>3, <3>5, <3>6, <3>7
  <2>3. CASE ~ DrainOne /\ ~ DrainTwo
    <3>1. UNCHANGED tempLists
        BY <2>3 DEF Manage, Step, TakeLock, Scan, Signal, CheckDone
    <3> QED
        BY <2>1, <3>1
  <2> QED
      BY <2>2, <2>3
<1> QED
    BY <1>0, <1>1, <1>2, <1>3, FeedUntouched

\* clean() touches no task.
LEMMA CleanFeeds ==
    ASSUME TypeInv, TypeInv', Ownership, FeedInv, Clean \/ Report \/ UNCHANGED vars
    PROVE  FeedInv'
<1>0. /\ Cleaner \in Threads /\ Cleaner \notin Consumers /\ Cleaner # Producer
      /\ Producer \in Threads
    BY ThreadAssumption DEF Threads
<1>1. /\ UNCHANGED <<tempLists, time, allotment, new, line, hand, level>>
      /\ UNCHANGED pc \/ \E to : Goto(Cleaner, to)
    BY DEF Clean, EnterWait, TakeLock, Report, vars, dataVars, taskVars, loadVars, ownVars
<1>2. Frame(Cleaner) /\ pc'[Producer] = pc[Producer]
    BY <1>0, <1>1, GotoFrame DEF Frame
<1>3. \A t \in Tasks : SameFields(t)
    BY <1>1 DEF SameFields
<1> QED
    BY <1>0, <1>1, <1>2, <1>3, FeedStep

\* Every step keeps the levels that were earned.
LEMMA FeedNext == TypeInv /\ TypeInv' /\ SectInv /\ Ownership /\ FeedInv /\ [Next]_vars => FeedInv'
BY ConsumeFeeds, ProduceFeeds, ManageFeeds, CleanFeeds DEF Next

\* What the ownership proof and this one need of each other.
PoolInv == TypeInv /\ SectInv /\ Ownership /\ FeedInv

\* They hold at the start.
LEMMA PoolInvInit == Init => PoolInv
BY TypeInvInit, SectInit, OwnershipInit, FeedInit DEF PoolInv

\* And every step keeps them.
LEMMA PoolInvNext == PoolInv /\ [Next]_vars => PoolInv'
<1> SUFFICES ASSUME TypeInv, SectInv, Ownership, FeedInv, [Next]_vars PROVE PoolInv'
    BY DEF PoolInv
<1>1. TypeInv' /\ SectInv'
    BY TypeInvNext, SectNext
<1>2. Ownership'
    BY <1>1, ConsumeOwns, ProduceOwns, ManageOwns, CleanOwns DEF Next
<1>3. FeedInv'
    BY <1>1, FeedNext
<1> QED
    BY <1>1, <1>2, <1>3 DEF PoolInv

\* A task sits at a level only if it used up a whole slice at each level above
\* it, whatever i/o, put-backs and level-ups happened.
THEOREM LevelsEarned == Spec => []LevelEarned
<1>1. PoolInv => LevelEarned
    BY DEF PoolInv, FeedInv, QueueInv, HeldOK, LevelEarned
<1> QED
    BY <1>1, PoolInvInit, PoolInvNext, PTL DEF Spec

\* A queued task has some of its allotment left, and time to use it on.
THEOREM QueuedMakeProgress == Spec => []QueuedRunnable
<1>1. PoolInv => QueuedRunnable
    BY PlacesAre DEF PoolInv, FeedInv, QueueInv, Runnable, QueuedRunnable, Places
<1> QED
    BY <1>1, PoolInvInit, PoolInvNext, PTL DEF Spec

-----------------------------------------------------------------------------
(* The statistics *)

\* What a consumer has loaded of a sum of type ty, and is about to add to.
LoadedOK(c, ty) ==
    TypeOf[hand[c]] = ty =>
      /\ pc[c] = "responded" => reg[c] <= Cardinality(Responses(ty))
      /\ pc[c] = "free" => reg[c] <= Cardinality(Ends(ty))

SumOK(ty) == /\ waitTime[ty] <= Cardinality(Responses(ty))
             /\ turnaroundTime[ty] <= Cardinality(Ends(ty))

\* A sum, and what a consumer has loaded of it, is at most the number of the
\* contributions that were made.
SumInv == \A ty \in Types : SumOK(ty) /\ \A c \in Consumers : LoadedOK(c, ty)

\* Contributions are counted by numbers, and a new one adds one.
LEMMA ContributionsCount ==
    ASSUME NEW ty
    PROVE  /\ Cardinality(Responses(ty)) \in Nat /\ Cardinality(Ends(ty)) \in Nat
           /\ \A t : t \notin Responses(ty) =>
                Cardinality(Responses(ty) \cup {t}) = Cardinality(Responses(ty)) + 1
           /\ \A t : t \notin Ends(ty) =>
                Cardinality(Ends(ty) \cup {t}) = Cardinality(Ends(ty)) + 1
<1>1. Responses(ty) \in SUBSET Tasks /\ Ends(ty) \in SUBSET Tasks
    BY DEF Responses, Ends
<1>2. IsFiniteSet(Responses(ty)) /\ IsFiniteSet(Ends(ty))
    BY <1>1, TaskAssumption, FS_Subset
<1> QED
    BY <1>2, FS_CardinalityType, FS_AddElement

\* The steps of the producer, of the manager and of the cleaner leave the
\* consumers alone, but for the wakeUps.
LEMMA ProduceFrame == ASSUME TypeInv, Produce PROVE Frame(Producer)
<1>0. Producer \in Threads /\ Producer \notin Consumers
    BY ThreadAssumption DEF Threads
<1>1. CASE Signal(Producer, "next")
    BY <1>1, SignalFrame
<1>2. CASE InsertTask
    BY <1>0, <1>2 DEF InsertTask, WakeAll, Waiting, Frame, ownVars
<1>3. CASE ~ Signal(Producer, "next") /\ ~ InsertTask
  <2>1. (\E to : Goto(Producer, to)) /\ UNCHANGED <<hand, level>>
      BY <1>3 DEF Produce, StartProducer, Step, ReadDelay, BeginWakeUp, ReadTask, EndOfFile, TakeLock, ownVars
  <2> QED
      BY <1>0, <2>1, GotoFrame
<1> QED
    BY <1>1, <1>2, <1>3

\* The manager may move the cleaner, which Frame allows.
LEMMA ManageFrame == ASSUME TypeInv, Manage PROVE Frame(Manager)
<1>0. Manager \in Threads /\ Manager \notin Consumers
    BY ThreadAssumption DEF Threads
<1>1. CASE Signal(Manager, "lock3")
    BY <1>1, SignalFrame
<1>2. CASE CheckDone
    BY <1>2 DEF CheckDone, Frame, ownVars, TypeInv, TypeOK, PcOK
<1>3. CASE ~ Signal(Manager, "lock3") /\ ~ CheckDone
  <2>1. hand' = hand /\ (\E to : Goto(Manager, to))
        /\ (level' = level \/ \E l : level' = [level EXCEPT ![Manager] = l])
      BY <1>3 DEF Manage, Step, TakeLock, DrainOne, DrainTwo, Scan, BeginWakeUp, ownVars
  <2> QED
      BY <1>0, <2>1, GotoFrame
<1> QED
    BY <1>1, <1>2, <1>3

\* The cleaner and the end of the process.
LEMMA CleanFrame == ASSUME TypeInv, Clean \/ Report \/ UNCHANGED vars PROVE Frame(Cleaner)
<1>0. Cleaner \in Threads /\ Cleaner \notin Consumers
    BY ThreadAssumption DEF Threads
<1>1. /\ UNCHANGED <<hand, level>>
      /\ UNCHANGED pc \/ \E to : Goto(Cleaner, to)
    BY DEF Clean, EnterWait, TakeLock, Report, vars, ownVars
<1> QED
    BY <1>0, <1>1, GotoFrame DEF Frame

\* What a step of thread th does to the sums of type ty: nothing, or it stores
\* what it has loaded plus one, for a contribution that was not counted before.
Adds(th, ty) ==
    /\ \/ waitTime'[ty] = waitTime[ty] /\ Responses(ty)' = Responses(ty)
       \/ /\ th \in Consumers /\ pc[th] = "responded" /\ TypeOf[hand[th]] = ty
          /\ waitTime'[ty] = reg[th] + 1
          /\ Cardinality(Responses(ty)') = Cardinality(Responses(ty)) + 1
    /\ \/ turnaroundTime'[ty] = turnaroundTime[ty] /\ Ends(ty)' = Ends(ty)
       \/ /\ th \in Consumers /\ pc[th] = "free" /\ TypeOf[hand[th]] = ty
          /\ turnaroundTime'[ty] = reg[th] + 1
          /\ Cardinality(Ends(ty)') = Cardinality(Ends(ty)) + 1

\* A consumer that goes on to a store has loaded the sum as it is.
Loads(th) ==
    th \in Consumers =>
      /\ pc'[th] = "responded" => reg'[th] = waitTime'[TypeOf[hand'[th]]]
      /\ pc'[th] = "free" => reg'[th] = turnaroundTime'[TypeOf[hand'[th]]]

\* A step of th, as far as the statistics are concerned.
StatsStep(th) ==
    /\ Frame(th) /\ Loads(th) /\ \A ty \in Types : Adds(th, ty)
    /\ \A d \in Consumers \ {th} : reg'[d] = reg[d]

\* A step that leaves the sums and the fields they count alone.
LEMMA NoSums ==
    ASSUME NEW th \in Threads, Frame(th),
           UNCHANGED <<waitTime, turnaroundTime, new, freed>>, Loaded' = Loaded,
           \A d \in Consumers \ {th} : reg'[d] = reg[d], Loads(th)
    PROVE  StatsStep(th)
BY DEF StatsStep, Adds, Responses, Ends

\* A consumer counts every contribution in the sum of the task's type, and
\* nothing else.
LEMMA ConsumeSums ==
    ASSUME TypeInv, Ownership, FeedInv, NEW c \in Consumers, Consume(c) \/ SpuriousWakeup(c)
    PROVE  StatsStep(c)
<1>0. /\ c \in Threads /\ Frame(c) /\ HeldOK(c)
      /\ pc \in [Threads -> ConsumerPCs \cup ManagerPCs \cup ProducerPCs \cup CleanerPCs]
      /\ hand \in [Consumers -> Tasks \cup {NoTask}] /\ reg \in [Consumers -> Int]
      /\ waitTime \in [Types -> Int] /\ turnaroundTime \in [Types -> Int]
      /\ new \in [Tasks -> BOOLEAN]
    BY ConsumeFrame DEF Threads, TypeInv, TypeOK, PcOK, OwnOK, DataOK, FeedInv
<1>1. CASE Respond(c) \/ Turnaround(c)
  <2>1. /\ UNCHANGED <<waitTime, turnaroundTime, new, freed, line, hand>>
        /\ \A d \in Consumers \ {c} : reg'[d] = reg[d]
      BY <1>0, <1>1 DEF Respond, Turnaround, LoadSum, dataVars, taskVars, statVars, loadVars
  <2>2. /\ pc'[c] = "responded" => reg'[c] = waitTime[TypeOf[hand[c]]]
        /\ pc'[c] = "free" => reg'[c] = turnaroundTime[TypeOf[hand[c]]]
    <3>1. CASE Respond(c)
      <4>1. Goto(c, "responded") /\ reg' = [reg EXCEPT ![c] = waitTime[TypeOf[hand[c]]]]
          BY <3>1 DEF Respond, LoadSum
      <4>2. pc'[c] = "responded"
          BY <4>1, ConsumerGoto DEF ConsumerPCs
      <4> QED
          BY <1>0, <4>1, <4>2
    <3>2. CASE Turnaround(c)
      <4>1. Goto(c, "free") /\ reg' = [reg EXCEPT ![c] = turnaroundTime[TypeOf[hand[c]]]]
          BY <3>2 DEF Turnaround, LoadSum
      <4>2. pc'[c] = "free"
          BY <4>1, ConsumerGoto DEF ConsumerPCs
      <4> QED
          BY <1>0, <4>1, <4>2
    <3> QED
        BY <1>1, <3>1, <3>2
  <2>3. Loaded' = Loaded
      BY <2>1 DEF Loaded
  <2>4. Loads(c)
      BY <2>1, <2>2 DEF Loads
  <2> QED
      BY <1>0, <2>1, <2>3, <2>4, NoSums
<1>2. CASE Responded(c)
  <2> DEFINE t == hand[c]
  <2>1. /\ pc[c] = "responded" /\ Goto(c, "run")
        /\ new' = [new EXCEPT ![t] = FALSE]
        /\ waitTime' = [waitTime EXCEPT ![TypeOf[t]] = reg[c] + 1]
        /\ \A d \in Consumers \ {c} : reg'[d] = reg[d]
        /\ UNCHANGED <<turnaroundTime, freed, line>>
      BY <1>0, <1>2 DEF Responded, StoreSum, At, loadVars
  <2>2. pc'[c] = "run"
      BY <2>1, ConsumerGoto DEF ConsumerPCs
  <2>3. t \in Tasks /\ t \in Loaded /\ new[t]
    <3>1. t \in Tasks /\ Holds(c)
        BY <2>1, HoldsByPc DEF TypeInv, HandInv, HoldingPCs, OwningPCs, ConsumerPCs
    <3> QED
        BY <1>0, <2>1, <3>1, PlacesAre DEF Places, Ownership, HeldOK
  <2>4. Loads(c)
      BY <2>2 DEF Loads
  <2>5. Loaded' = Loaded
      BY <2>1 DEF Loaded
  <2>6. ~ new'[t] /\ \A x \in Tasks : x # t => (new'[x] <=> new[x])
      BY <1>0, <2>1, <2>3, Zenon
  <2>7. \A x : x # TypeOf[t] /\ x \in Types => waitTime'[x] = waitTime[x]
      BY <1>0, <2>1
  <2>8. TypeOf[t] \in Types
      BY <2>3, TaskAssumption
  <2>9. waitTime'[TypeOf[t]] = reg[c] + 1
      BY <1>0, <2>1, <2>8
  <2> HIDE DEF t
  <2>10. ASSUME NEW ty \in Types PROVE Adds(c, ty)
    <3>1. Ends(ty)' = Ends(ty)
        BY <2>1 DEF Ends
    <3>2. CASE ty # TypeOf[t]
      <4>1. Responses(ty)' = Responses(ty)
          BY <2>5, <2>6, <3>2 DEF Responses
      <4> QED
          BY <2>1, <2>7, <3>1, <3>2, <4>1 DEF Adds
    <3>3. CASE ty = TypeOf[t]
      <4>1. t \notin Responses(ty) /\ Responses(ty)' = Responses(ty) \cup {t}
          BY <2>3, <2>5, <2>6, <3>3 DEF Responses
      <4>2. Cardinality(Responses(ty)') = Cardinality(Responses(ty)) + 1
          BY <4>1, ContributionsCount
      <4> QED
          BY <2>1, <2>9, <3>1, <3>3, <4>2 DEF Adds, t
    <3> QED
        BY <3>2, <3>3
  <2> QED
      BY <1>0, <2>1, <2>4, <2>10 DEF StatsStep
<1>3. CASE Free(c)
  <2> DEFINE t == hand[c]
  <2>1. /\ pc[c] = "free" /\ Goto(c, "decLock")
        /\ freed' = freed \cup {t}
        /\ turnaroundTime' = [turnaroundTime EXCEPT ![TypeOf[t]] = reg[c] + 1]
        /\ \A d \in Consumers \ {c} : reg'[d] = reg[d]
        /\ UNCHANGED <<waitTime, new, line>>
      BY <1>0, <1>3 DEF Free, StoreSum, At, loadVars
  <2>2. pc'[c] = "decLock"
      BY <2>1, ConsumerGoto DEF ConsumerPCs
  <2>3. t \in Tasks /\ t \notin freed
    <3>1. t \in Tasks /\ Holds(c)
        BY <2>1, HoldsByPc DEF TypeInv, HandInv, HoldingPCs, OwningPCs, ConsumerPCs
    <3> QED
        BY <3>1, PlacesAre DEF Places, Ownership
  <2>4. Loads(c)
      BY <2>2 DEF Loads
  <2>5. Loaded' = Loaded
      BY <2>1 DEF Loaded
  <2>7. \A x : x # TypeOf[t] /\ x \in Types => turnaroundTime'[x] = turnaroundTime[x]
      BY <1>0, <2>1
  <2>8. TypeOf[t] \in Types
      BY <2>3, TaskAssumption
  <2>9. turnaroundTime'[TypeOf[t]] = reg[c] + 1
      BY <1>0, <2>1, <2>8
  <2> HIDE DEF t
  <2>10. ASSUME NEW ty \in Types PROVE Adds(c, ty)
    <3>1. Responses(ty)' = Responses(ty)
        BY <2>1, <2>5 DEF Responses
    <3>2. CASE ty # TypeOf[t]
      <4>1. Ends(ty)' = Ends(ty)
          BY <2>1, <3>2 DEF Ends
      <4> QED
          BY <2>1, <2>7, <3>1, <3>2, <4>1 DEF Adds
    <3>3. CASE ty = TypeOf[t]
      <4>1. t \notin Ends(ty) /\ Ends(ty)' = Ends(ty) \cup {t}
          BY <2>1, <2>3, <3>3 DEF Ends
      <4>2. Cardinality(Ends(ty)') = Cardinality(Ends(ty)) + 1
          BY <4>1, ContributionsCount
      <4> QED
          BY <2>1, <2>9, <3>1, <3>3, <4>2 DEF Adds, t
    <3> QED
        BY <3>2, <3>3
  <2> QED
      BY <1>0, <2>1, <2>4, <2>10 DEF StatsStep
<1>4. CASE \/ Lock(c) \/ Look(c) \/ Remove(c) \/ Wait(c) \/ SpuriousWakeup(c) \/ IncLock(c) \/ Inc(c)
           \/ DecLock(c) \/ Dec(c) \/ Run(c) \/ PutLock(c) \/ Put(c)
  <2>1. /\ UNCHANGED <<waitTime, turnaroundTime, new, freed, line>>
        /\ \A d \in Consumers \ {c} : reg'[d] = reg[d]
    <3>1. CASE Lock(c) \/ Look(c) \/ Remove(c) \/ Wait(c) \/ SpuriousWakeup(c) \/ PutLock(c) \/ Put(c)
        BY <3>1 DEF Lock, Look, Remove, Wait, SpuriousWakeup, Step, PutLock, TakeLock, Put,
                    dataVars, taskVars, statVars, loadVars, ownVars
    <3>2. CASE IncLock(c) \/ Inc(c) \/ DecLock(c) \/ Dec(c)
        BY <1>0, <3>2 DEF IncLock, Inc, DecLock, Dec, CountLock, Count, dataVars, taskVars, statVars, loadVars
    <3>3. CASE Run(c)
        BY <3>3 DEF Run, statVars, loadVars
    <3> QED
        BY <1>4, <3>1, <3>2, <3>3
  <2>2. pc'[c] \notin {"responded", "free"}
    <3>1. CASE Run(c)
      <4>1. Goto(c, "turnaround") \/ Goto(c, "putLock")
          BY <3>1 DEF Run
      <4> QED
          BY <1>0, <4>1 DEF Goto
    <3>2. CASE Put(c)
        BY <1>0, <3>2 DEF Put, WakeAll
    <3>3. CASE Look(c) \/ Inc(c)
      <4>1. Goto(c, "remove") \/ Goto(c, "wait") \/ Goto(c, "lock") \/ Goto(c, "respond") \/ Goto(c, "run")
        <5>1. CASE Look(c)
            BY <5>1 DEF Look
        <5>2. CASE Inc(c)
          <6>1. CASE new[hand[c]]
              BY <5>2, <6>1 DEF Inc
          <6>2. CASE ~ new[hand[c]]
              BY <5>2, <6>2 DEF Inc
          <6> QED
              BY <6>1, <6>2
        <5> QED
            BY <3>3, <5>1, <5>2
      <4> QED
          BY <1>0, <4>1 DEF Goto
    <3>4. CASE Lock(c) \/ Remove(c) \/ Wait(c) \/ SpuriousWakeup(c) \/ IncLock(c) \/ DecLock(c) \/ Dec(c) \/ PutLock(c)
        BY <1>0, <3>4 DEF Lock, TakeLock, Remove, Wait, SpuriousWakeup, Step, IncLock, DecLock, CountLock,
                          Dec, PutLock, Goto
    <3> QED
        BY <1>4, <3>1, <3>2, <3>3, <3>4
  <2>3. Loads(c)
      BY <2>2 DEF Loads
  <2>4. Loaded' = Loaded
      BY <2>1 DEF Loaded
  <2> QED
      BY <1>0, <2>1, <2>3, <2>4, NoSums
<1> QED
    BY <1>1, <1>2, <1>3, <1>4 DEF Consume

\* A task the producer reads or inserts is new: it has had no response.
LEMMA OtherSums ==
    ASSUME TypeInv, Ownership, FeedInv, Produce \/ Manage \/ Clean \/ Report \/ UNCHANGED vars
    PROVE  \E th \in Threads : StatsStep(th)
<1>1. UNCHANGED <<waitTime, turnaroundTime, reg, freed>>
  <2>1. CASE Produce
      BY <2>1 DEF Produce, StartProducer, Step, ReadDelay, ReadTask, InsertTask, EndOfFile, TakeLock, Signal,
                  dataVars, taskVars, statVars, ownVars
  <2>2. CASE Manage
      BY <2>2 DEF Manage, Step, TakeLock, DrainOne, DrainTwo, Scan, Signal, CheckDone,
                  dataVars, taskVars, statVars, ownVars
  <2>3. CASE Clean \/ Report \/ UNCHANGED vars
      BY <2>3 DEF Clean, EnterWait, TakeLock, Report, vars, dataVars, taskVars, statVars, ownVars
  <2> QED
      BY <2>1, <2>2, <2>3
<1>2. \A ty : Responses(ty)' = Responses(ty)
  <2>1. CASE ReadTask
    <3>1. Lines[line] \notin Loaded /\ UNCHANGED line
        BY <2>1, LineNotLoaded DEF ReadTask, loadVars
    <3>2. new' = [new EXCEPT ![Lines[line]] = TRUE] /\ new \in [Tasks -> BOOLEAN]
        BY <2>1 DEF ReadTask, TypeInv, TypeOK, DataOK
    <3>3. \A t \in Loaded : t \in Tasks /\ t # Lines[line]
        BY <3>1, LoadedTasks
    <3>4. \A t \in Loaded : new'[t] <=> new[t]
        BY <3>2, <3>3, Zenon
    <3>5. Loaded' = Loaded
        BY <3>1 DEF Loaded
    <3> QED
        BY <3>4, <3>5 DEF Responses
  <2>2. CASE InsertTask
    <3>1. new[Lines[line]] /\ UNCHANGED new /\ line <= Len(Lines) /\ line' = line + 1
        BY <2>2 DEF InsertTask, At, TypeInv, LineInv, FeedInv, FreshInv, taskVars
    <3>2. Loaded' = Loaded \/ Loaded' = Loaded \cup {Lines[line]}
        BY <3>1, LoadedNext
    <3> QED
        BY <3>1, <3>2 DEF Responses
  <2>3. CASE ReadDelay
    <3>1. Lines[line] = Delay /\ UNCHANGED new /\ line <= Len(Lines) /\ line' = line + 1
        BY <2>3 DEF ReadDelay, taskVars
    <3>2. Loaded' = Loaded
        BY <3>1, LoadedNext
    <3> QED
        BY <3>1, <3>2 DEF Responses
  <2>4. CASE ~ ReadTask /\ ~ InsertTask /\ ~ ReadDelay
    <3>1. UNCHANGED <<new, line>>
        BY <2>4 DEF Produce, StartProducer, Step, EndOfFile, TakeLock, Signal,
                    Manage, DrainOne, DrainTwo, Scan, CheckDone, Clean, EnterWait, Report, vars,
                    dataVars, taskVars, loadVars
    <3>2. Loaded' = Loaded
        BY <3>1 DEF Loaded
    <3> QED
        BY <3>1, <3>2 DEF Responses
  <2> QED
      BY <2>1, <2>2, <2>3, <2>4
<1>3. PICK th \in {Producer, Manager, Cleaner} : Frame(th)
    BY ProduceFrame, ManageFrame, CleanFrame
<1>4. th \in Threads /\ th \notin Consumers
    BY <1>3, ThreadAssumption DEF Threads
<1>5. \A ty : Ends(ty)' = Ends(ty)
    BY <1>1 DEF Ends
<1>6. StatsStep(th)
    BY <1>1, <1>2, <1>3, <1>4, <1>5 DEF StatsStep, Loads, Adds
<1> QED
    BY <1>4, <1>6

\* Every step is such a step of some thread.
LEMMA EveryStatsStep ==
    ASSUME TypeInv, Ownership, FeedInv, [Next]_vars
    PROVE  \E th \in Threads : StatsStep(th)
BY ConsumeSums, OtherSums DEF Next, Threads

\* No contribution was made before the threads have run.
LEMMA SumInit == Init => SumInv
<1> SUFFICES ASSUME Init, NEW ty \in Types PROVE SumOK(ty) /\ \A c \in Consumers : LoadedOK(c, ty)
    BY DEF SumInv
<1>1. \A c \in Consumers : pc[c] = "lock"
    BY ThreadAssumption DEF Init, Threads
<1>2. waitTime[ty] = 0 /\ turnaroundTime[ty] = 0
    BY DEF Init
<1> QED
    BY <1>1, <1>2, ContributionsCount DEF SumOK, LoadedOK

\* Every step keeps the sums within the contributions.
LEMMA SumNext ==
    ASSUME TypeInv, TypeInv', Ownership, FeedInv, SumInv, [Next]_vars
    PROVE  SumInv'
<1>1. PICK th \in Threads : StatsStep(th)
    BY EveryStatsStep
<1> SUFFICES ASSUME NEW ty \in Types PROVE SumOK(ty)' /\ \A c \in Consumers : LoadedOK(c, ty)'
    BY DEF SumInv
<1>2. /\ Cardinality(Responses(ty)) \in Nat /\ Cardinality(Ends(ty)) \in Nat
      /\ waitTime[ty] \in Int /\ turnaroundTime[ty] \in Int
      /\ SumOK(ty) /\ \A c \in Consumers : LoadedOK(c, ty) /\ reg[c] \in Int
    BY ContributionsCount DEF SumInv, TypeInv, TypeOK, DataOK, OwnOK
<1>3. Adds(th, ty)
    BY <1>1 DEF StatsStep
<1>4. SumOK(ty)'
    BY <1>2, <1>3 DEF Adds, SumOK, LoadedOK
<1>5. ASSUME NEW c \in Consumers PROVE LoadedOK(c, ty)'
  <2>1. CASE c = th
      BY <1>1, <1>4, <2>1 DEF StatsStep, Loads, LoadedOK, SumOK
  <2>2. CASE c # th
    <3>1. hand'[c] = hand[c] /\ reg'[c] = reg[c] /\ (pc'[c] = pc[c] \/ pc'[c] = "lock")
        BY <1>1, <2>2, ThreadAssumption DEF StatsStep, Frame, Threads
    <3> QED
        BY <1>2, <1>3, <3>1 DEF LoadedOK, Adds
  <2> QED
      BY <2>1, <2>2
<1> QED
    BY <1>4, <1>5

\* The statistics invent no contribution.
THEOREM StatsBounded == Spec => []StatsNeverOvercount
<1>1. SumInv => StatsNeverOvercount
    BY DEF SumInv, SumOK, StatsNeverOvercount
<1>2. Init => PoolInv /\ SumInv
    BY PoolInvInit, SumInit
<1>3. PoolInv /\ SumInv /\ [Next]_vars => (PoolInv /\ SumInv)'
    BY PoolInvNext, SumNext DEF PoolInv
<1> QED
    BY <1>1, <1>2, <1>3, PTL DEF Spec

\* A consumer about to store to a sum of type ty has loaded it as it still is.
UpToDate(c, ty) ==
    TypeOf[hand[c]] = ty =>
      /\ pc[c] = "responded" => reg[c] = waitTime[ty]
      /\ pc[c] = "free" => reg[c] = turnaroundTime[ty]

\* Types that were never raced for have exact sums; those raced for are recorded.
ExactInv ==
    /\ Racing \subseteq raced
    /\ \A ty \in Types \ raced : Exact(ty) /\ \A c \in Consumers : UpToDate(c, ty)

\* Nothing was added and nobody is at a sum before the threads have run.
LEMMA ExactInit == StatsInit => ExactInv
<1> SUFFICES ASSUME StatsInit PROVE ExactInv
    OBVIOUS
<1>1. \A c \in Consumers : pc[c] = "lock"
    BY ThreadAssumption DEF StatsInit, Init, Threads
<1>2. Racing = {}
    BY <1>1 DEF Racing, Updating
<1>3. ASSUME NEW ty \in Types PROVE Exact(ty)
  <2>1. Loaded = {} /\ freed = {}
      BY DEF StatsInit, Init, Loaded
  <2>2. Responses(ty) = {} /\ Ends(ty) = {}
      BY <2>1 DEF Responses, Ends
  <2> QED
      BY <2>2, FS_EmptySet DEF Exact, StatsInit, Init
<1> QED
    BY <1>1, <1>2, <1>3 DEF ExactInv, UpToDate

\* A consumer that is alone at a sum adds its contribution to all the others.
LEMMA ExactNext ==
    ASSUME TypeInv, Ownership, FeedInv, ExactInv, [StatsNext]_<<vars, raced>>
    PROVE  ExactInv'
<1>1. [Next]_vars
    BY DEF StatsNext
<1>2. PICK th \in Threads : StatsStep(th)
    BY <1>1, EveryStatsStep
<1>3. raced \subseteq raced' /\ Racing' \subseteq raced'
  <2>1. CASE StatsNext
      BY <2>1 DEF StatsNext
  <2>2. CASE UNCHANGED <<vars, raced>>
    <3>1. Racing' = Racing
        BY <2>2 DEF Racing, Updating, vars, ownVars
    <3> QED
        BY <2>2, <3>1 DEF ExactInv
  <2> QED
      BY <2>1, <2>2
<1>4. ASSUME NEW ty \in Types \ raced' PROVE Exact(ty)' /\ \A c \in Consumers : UpToDate(c, ty)'
  <2>1. /\ Exact(ty) /\ \A c \in Consumers : UpToDate(c, ty)
        /\ ty \in Types /\ ty \notin Racing
      BY <1>3, <1>4 DEF ExactInv
  <2>2. Adds(th, ty)
      BY <1>2, <2>1 DEF StatsStep
  <2>3. Exact(ty)'
      BY <2>1, <2>2 DEF Adds, Exact, UpToDate
  <2>4. ASSUME NEW c \in Consumers PROVE UpToDate(c, ty)'
    <3>1. CASE c = th
        BY <1>2, <3>1 DEF StatsStep, Loads, UpToDate
    <3>2. CASE c # th
      <4>1. hand'[c] = hand[c] /\ reg'[c] = reg[c] /\ (pc'[c] = pc[c] \/ pc'[c] = "lock")
          BY <1>2, <3>2, ThreadAssumption DEF StatsStep, Frame, Threads
      <4>2. ASSUME NEW sum \in {"responded", "free"}, th \in Consumers,
                   pc[th] = sum, TypeOf[hand[th]] = ty
            PROVE  ~ (pc[c] = sum /\ TypeOf[hand[c]] = ty)
          BY <2>1, <3>2, <4>2 DEF Racing, Updating
      <4>3. ASSUME TypeOf[hand[c]] = ty, pc[c] = "responded" PROVE waitTime'[ty] = waitTime[ty]
          BY <2>2, <4>2, <4>3 DEF Adds
      <4>4. ASSUME TypeOf[hand[c]] = ty, pc[c] = "free" PROVE turnaroundTime'[ty] = turnaroundTime[ty]
          BY <2>2, <4>2, <4>4 DEF Adds
      <4>5. UpToDate(c, ty)
          BY <2>1
      <4> QED
          BY <4>1, <4>3, <4>4, <4>5 DEF UpToDate
    <3> QED
        BY <3>1, <3>2
  <2> QED
      BY <2>3, <2>4
<1> QED
    BY <1>3, <1>4 DEF ExactInv

\* A sum is exact until two consumers meet between its load and its store: for
\* any number of consumers, tasks and types only that race loses an addition.
THEOREM LossesAreRaces == StatsSpec => []LostOnlyInRace
<1>1. SumInv /\ ExactInv => LostOnlyInRace
    BY DEF SumInv, SumOK, StatsNeverOvercount, ExactInv, LostOnlyInRace
<1>2. StatsInit => PoolInv /\ SumInv /\ ExactInv
    BY PoolInvInit, SumInit, ExactInit DEF StatsInit
<1>3. PoolInv /\ SumInv /\ ExactInv /\ [StatsNext]_<<vars, raced>> => (PoolInv /\ SumInv /\ ExactInv)'
  <2> SUFFICES ASSUME PoolInv, SumInv, ExactInv, [StatsNext]_<<vars, raced>>
               PROVE  (PoolInv /\ SumInv /\ ExactInv)'
      OBVIOUS
  <2>1. [Next]_vars
      BY DEF StatsNext
  <2>2. PoolInv'
      BY <2>1, PoolInvNext
  <2> QED
      BY <2>1, <2>2, SumNext, ExactNext DEF PoolInv
<1> QED
    BY <1>1, <1>2, <1>3, PTL DEF StatsSpec

-----------------------------------------------------------------------------
(* The working lock *)

\* The program counters of a consumer that has taken no task yet, of one that
\* updates working, and of one that has counted itself in.
IdlePCs == {"lock", "look", "wait", "waiting"}
CountingPCs == {"inc", "dec"}
CountedPCs ==
    {"respond", "responded", "run", "turnaround", "free", "putLock", "put", "decLock", "dec"}

\* Before the producer starts there is no task, and no consumer has any.
StartInv ==
    pc[Producer] = "start" =>
      /\ \A l \in 0..2 : tempLists[l] = << >>
      /\ \A c \in Consumers : pc[c] \in IdlePCs

\* The cleaner, whose wait unlocks a mutex it does not hold, is in it by then.
SettleInv == pc[Cleaner] = "enter" => pc[Producer] = "start"

\* Who updates working, or tests it, holds its lock.
WorkLockInv ==
    /\ \A c \in Consumers : pc[c] \in CountingPCs => mutex[3] = c
    /\ pc[Manager] = "check" => mutex[3] = Manager \/ pc[Producer] = "start"

\* What a consumer has loaded of working is still its value.
LoadedInv == \A c \in Consumers : pc[c] \in CountingPCs => reg[c] = working

WorkInv == StartInv /\ SettleInv /\ WorkLockInv /\ LoadedInv /\ WorkingExact

\* Nobody works before the threads have run.
LEMMA WorkInit == Init => WorkInv
<1> SUFFICES ASSUME Init PROVE WorkInv
    OBVIOUS
<1>1. /\ \A c \in Consumers : pc[c] = "lock"
      /\ pc[Manager] = "sleep" /\ pc[Producer] = "start" /\ pc[Cleaner] = "enter"
    BY ThreadAssumption DEF Init, Threads
<1>2. Counted = {}
    BY <1>1 DEF Counted
<1>3. WorkingExact
    BY <1>2, FS_EmptySet DEF Init, WorkingExact
<1> QED
    BY <1>1, <1>3 DEF Init, WorkInv, StartInv, SettleInv, WorkLockInv, LoadedInv, IdlePCs, CountingPCs

\* A consumer is in Counted when it is at one of CountedPCs.
LEMMA CountedIs ==
    /\ \A c : c \in Counted <=> c \in Consumers /\ pc[c] \in CountedPCs
    /\ \A c : c \in Counted' <=> c \in Consumers /\ pc'[c] \in CountedPCs
    /\ IsFiniteSet(Counted) /\ Cardinality(Counted) \in Nat
<1>1. Counted \in SUBSET Consumers
    BY DEF Counted
<1>2. IsFiniteSet(Counted)
    BY <1>1, FS_Subset, ThreadAssumption
<1> QED
    BY <1>2, FS_CardinalityType DEF Counted, CountedPCs

\* A step of th that neither writes working nor begins to is no count.
LEMMA CountKept ==
    ASSUME TypeInv, WorkInv, NEW th \in Threads, Frame(th), working' = working,
           \A d \in Consumers \ {th} : reg'[d] = reg[d],
           \A d \in Consumers \ {th} : pc[d] \in CountingPCs => mutex'[3] = mutex[3],
           th \in Consumers => /\ pc'[th] \in CountingPCs => mutex'[3] = th /\ reg'[th] = working
                               /\ pc'[th] \in CountedPCs <=> pc[th] \in CountedPCs
    PROVE  /\ \A c \in Consumers : pc'[c] \in CountingPCs => mutex'[3] = c
           /\ LoadedInv' /\ WorkingExact'
<1>1. \A d \in Consumers \ {th} : /\ pc'[d] \in CountingPCs <=> pc[d] \in CountingPCs
                                  /\ pc'[d] \in CountedPCs <=> pc[d] \in CountedPCs
    BY ThreadAssumption DEF Frame, Threads, CountingPCs, CountedPCs
<1>2. \A c \in Consumers : pc'[c] \in CountingPCs => mutex'[3] = c /\ reg'[c] = working
    BY <1>1 DEF WorkInv, WorkLockInv, LoadedInv
<1>3. \A c : c \in Counted' <=> c \in Counted
    BY <1>1, CountedIs
<1>4. Counted' = Counted
    BY <1>3
<1> QED
    BY <1>2, <1>4 DEF WorkInv, LoadedInv, WorkingExact

\* What the move of consumer c leaves alone.
LEMMA ConsumerMoves ==
    ASSUME TypeInv, NEW c \in Consumers, Frame(c), NEW to, Goto(c, to) \/ WakeAll(c, to)
    PROVE  /\ pc'[c] = to
           /\ pc'[Producer] = pc[Producer] /\ pc'[Manager] = pc[Manager] /\ pc'[Cleaner] = pc[Cleaner]
           /\ \A d \in Consumers \ {c} : pc'[d] = pc[d] \/ (pc[d] = "waiting" /\ pc'[d] = "lock")
BY ThreadAssumption DEF TypeInv, TypeOK, PcOK, Goto, WakeAll, Waiting, Frame, Threads

\* The steps of consume() that count the consumer in or out, and the others.
Counts(c) == IncLock(c) \/ Inc(c) \/ DecLock(c) \/ Dec(c)

\* Where the steps of consume() that do not count lead, and what they keep.
LEMMA OtherMoves ==
    ASSUME TypeInv, NEW c \in Consumers, Consume(c) \/ SpuriousWakeup(c), ~ Counts(c)
    PROVE  /\ UNCHANGED working /\ mutex'[3] = mutex[3]
           /\ \A d \in Consumers \ {c} : reg'[d] = reg[d]
           /\ pc[c] \notin CountingPCs /\ pc'[c] \notin CountingPCs
           /\ pc'[c] \in CountedPCs <=> pc[c] \in CountedPCs
           /\ \E to : Goto(c, to) \/ WakeAll(c, to)
<1> USE DEF CountingPCs, CountedPCs, At
<1>0. /\ c \in Threads /\ level[c] \in 0..2
      /\ pc \in [Threads -> ConsumerPCs \cup ManagerPCs \cup ProducerPCs \cup CleanerPCs]
      /\ mutex \in [0..3 -> Threads \cup {Nobody}]
      /\ reg \in [Consumers -> Int]
    BY DEF Threads, TypeInv, TypeOK, PcOK, ListOK, OwnOK
<1>1. CASE Lock(c) \/ PutLock(c)
    BY <1>0, <1>1 DEF Lock, PutLock, TakeLock, Acquire, Goto, dataVars, ownVars
<1>2. CASE Look(c)
    BY <1>0, <1>2 DEF Look, Unlock, Goto, dataVars
<1>3. CASE Remove(c)
  <2>1. /\ UNCHANGED <<working, reg>> /\ pc[c] = "remove" /\ Goto(c, "incLock")
        /\ mutex' = [mutex EXCEPT ![level[c]] = Nobody]
      BY <1>3 DEF Remove, Unlock, dataVars, ownVars
  <2>2. mutex'[3] = mutex[3]
      BY <1>0, <2>1
  <2>3. pc'[c] = "incLock"
      BY <1>0, <2>1 DEF Goto
  <2> QED
      BY <2>1, <2>2, <2>3
<1>4. CASE Wait(c) \/ SpuriousWakeup(c)
  <2>1. /\ UNCHANGED <<mutex, working, reg>> /\ pc[c] \in {"wait", "waiting"}
        /\ Goto(c, "waiting") \/ Goto(c, "lock")
      BY <1>4 DEF Wait, SpuriousWakeup, Step, dataVars, ownVars
  <2> QED
      BY <1>0, <2>1 DEF Goto
<1>5. CASE Respond(c) \/ Turnaround(c)
    BY <1>0, <1>5 DEF Respond, Turnaround, LoadSum, Goto, dataVars
<1>6. CASE Responded(c)
    BY <1>0, <1>6 DEF Responded, StoreSum, Goto
<1>7. CASE Free(c)
    BY <1>0, <1>7 DEF Free, StoreSum, Goto
<1>8. CASE Run(c)
  <2>1. /\ UNCHANGED <<mutex, working, reg>> /\ pc[c] = "run"
        /\ Goto(c, "turnaround") \/ Goto(c, "putLock")
      BY <1>8 DEF Run
  <2> QED
      BY <1>0, <2>1 DEF Goto
<1>9. CASE Put(c)
    BY <1>0, <1>9 DEF Put, Unlock, WakeAll, dataVars
<1> QED
    BY <1>1, <1>2, <1>3, <1>4, <1>5, <1>6, <1>7, <1>8, <1>9 DEF Counts, Consume

\* Before the producer starts, consumers look into empty queues and wait.
LEMMA IdleKept ==
    ASSUME TypeInv, StartInv, NEW c \in Consumers, Consume(c) \/ SpuriousWakeup(c),
           pc[Producer] = "start"
    PROVE  UNCHANGED tempLists /\ \E to \in IdlePCs : Goto(c, to)
<1>1. pc[c] \in {"lock", "look", "wait", "waiting"} /\ level[c] \in 0..2
    BY DEF StartInv, IdlePCs, TypeInv, TypeOK, OwnOK
<1>2. tempLists[level[c]] = << >>
    BY <1>1 DEF StartInv
<1>3. Lock(c) \/ Look(c) \/ Wait(c) \/ SpuriousWakeup(c)
    BY <1>1 DEF Consume, Remove, IncLock, CountLock, Inc, DecLock, Dec, Respond, LoadSum, Responded,
                Run, Turnaround, Free, PutLock, TakeLock, Put, At
<1> QED
    BY <1>2, <1>3 DEF Lock, TakeLock, Look, Wait, SpuriousWakeup, Step, IdlePCs

\* Every step of consume() keeps the count.
LEMMA ConsumeWork ==
    ASSUME TypeInv, WorkInv, NEW c \in Consumers, Consume(c) \/ SpuriousWakeup(c)
    PROVE  WorkInv'
<1>0. /\ c \in Threads /\ Frame(c) /\ mutex \in [0..3 -> Threads \cup {Nobody}]
      /\ reg \in [Consumers -> Int] /\ working \in Int
    BY ConsumeFrame DEF Threads, TypeInv, TypeOK, ListOK, OwnOK, DataOK
<1>1. PICK to : Goto(c, to) \/ WakeAll(c, to)
    BY OtherMoves DEF Counts, IncLock, DecLock, CountLock, Inc, Dec
<1>2. /\ pc'[c] = to
      /\ pc'[Producer] = pc[Producer] /\ pc'[Manager] = pc[Manager] /\ pc'[Cleaner] = pc[Cleaner]
      /\ \A d \in Consumers \ {c} : pc'[d] = pc[d] \/ (pc[d] = "waiting" /\ pc'[d] = "lock")
    BY <1>0, <1>1, ConsumerMoves
<1>3. StartInv'
  <2> SUFFICES ASSUME pc[Producer] = "start"
               PROVE  (\A l \in 0..2 : tempLists'[l] = << >>) /\ \A d \in Consumers : pc'[d] \in IdlePCs
      BY <1>2 DEF StartInv
  <2>1. UNCHANGED tempLists /\ \E l \in IdlePCs : Goto(c, l)
      BY IdleKept DEF WorkInv
  <2>2. pc'[c] \in IdlePCs
      BY <1>0, <2>1, GotoFrame DEF Goto, TypeInv, TypeOK, PcOK
  <2> QED
      BY <1>2, <2>1, <2>2 DEF WorkInv, StartInv, IdlePCs
<1>4. SettleInv'
    BY <1>2 DEF WorkInv, SettleInv
<1>5. CASE ~ Counts(c)
  <2>1. /\ UNCHANGED working /\ mutex'[3] = mutex[3]
        /\ \A d \in Consumers \ {c} : reg'[d] = reg[d]
        /\ pc[c] \notin CountingPCs /\ pc'[c] \notin CountingPCs
        /\ pc'[c] \in CountedPCs <=> pc[c] \in CountedPCs
      BY <1>5, OtherMoves
  <2>2. /\ \A d \in Consumers : pc'[d] \in CountingPCs => mutex'[3] = d
        /\ LoadedInv' /\ WorkingExact'
      BY <1>0, <2>1, CountKept
  <2> QED
      BY <1>2, <1>3, <1>4, <2>1, <2>2 DEF WorkInv, WorkLockInv
<1>6. CASE IncLock(c) \/ DecLock(c)
  <2>1. /\ UNCHANGED working /\ mutex[3] = Nobody /\ mutex'[3] = c /\ reg'[c] = working
        /\ \A d \in Consumers \ {c} : reg'[d] = reg[d]
        /\ \/ pc[c] = "incLock" /\ pc'[c] = "inc"
           \/ pc[c] = "decLock" /\ pc'[c] = "dec"
      BY <1>0, <1>6 DEF IncLock, DecLock, CountLock, At, Acquire, Goto, dataVars, TypeInv, TypeOK, PcOK
  <2>2. \A d \in Consumers : pc[d] \notin CountingPCs
      BY <2>1, ThreadAssumption DEF WorkInv, WorkLockInv, Threads
  <2>3. /\ \A d \in Consumers : pc'[d] \in CountingPCs => mutex'[3] = d
        /\ LoadedInv' /\ WorkingExact'
      BY <1>0, <2>1, <2>2, CountKept DEF CountingPCs, CountedPCs
  <2>4. pc[Manager] # "check" \/ pc[Producer] = "start"
      BY <2>1, ThreadAssumption DEF WorkInv, WorkLockInv, Threads
  <2> QED
      BY <1>2, <1>3, <1>4, <2>3, <2>4 DEF WorkInv, WorkLockInv
<1>7. CASE Inc(c) \/ Dec(c)
  <2>1. /\ mutex'[3] = Nobody /\ pc[c] \in CountingPCs
        /\ \A d \in Consumers \ {c} : reg'[d] = reg[d]
        /\ \/ pc[c] = "inc" /\ working' = reg[c] + 1 /\ pc'[c] \in {"respond", "run"}
           \/ pc[c] = "dec" /\ working' = reg[c] - 1 /\ pc'[c] = "lock"
      BY <1>0, <1>7 DEF Inc, Dec, Count, At, Unlock, Goto, CountingPCs, TypeInv, TypeOK, PcOK
  <2>2. \A d \in Consumers \ {c} : pc[d] \notin CountingPCs /\ pc'[d] \notin CountingPCs
      BY <1>2, <2>1 DEF WorkInv, WorkLockInv, CountingPCs
  <2>3. /\ reg[c] = working /\ pc'[c] \notin CountingPCs
        /\ pc[Manager] # "check" \/ pc[Producer] = "start"
      BY <2>1, ThreadAssumption DEF WorkInv, LoadedInv, WorkLockInv, CountingPCs
  <2>4. \A d \in Consumers \ {c} : pc'[d] \in CountedPCs <=> pc[d] \in CountedPCs
      BY <1>2 DEF CountedPCs
  <2>5. WorkingExact'
    <3>1. CASE pc[c] = "inc"
      <4>1. c \notin Counted /\ \A d : d \in Counted' <=> d \in Counted \cup {c}
          BY <2>1, <2>4, <3>1, CountedIs DEF CountedPCs
      <4>2. Counted' = Counted \cup {c}
          BY <4>1
      <4>3. Cardinality(Counted \cup {c}) = Cardinality(Counted) + 1
          BY <4>1, CountedIs, FS_AddElement
      <4> QED
          BY <2>1, <2>3, <3>1, <4>2, <4>3 DEF WorkInv, WorkingExact
    <3>2. CASE pc[c] = "dec"
      <4>1. c \in Counted /\ \A d : d \in Counted' <=> d \in Counted \ {c}
          BY <2>1, <2>4, <3>2, CountedIs DEF CountedPCs
      <4>2. Counted' = Counted \ {c}
          BY <4>1
      <4>3. Cardinality(Counted \ {c}) = Cardinality(Counted) - 1
          BY <4>1, CountedIs, FS_RemoveElement
      <4> QED
          BY <2>1, <2>3, <3>2, <4>2, <4>3 DEF WorkInv, WorkingExact
    <3> QED
        BY <2>1, <3>1, <3>2
  <2> QED
      BY <1>2, <1>3, <1>4, <2>2, <2>3, <2>5 DEF WorkInv, WorkLockInv, LoadedInv
<1> QED
    BY <1>5, <1>6, <1>7 DEF Counts

\* Every step of produce() keeps it: the producer starts when the cleaner waits.
LEMMA ProduceWork ==
    ASSUME TypeInv, WorkInv, StartupSettles, Produce
    PROVE  WorkInv'
<1>0. /\ Producer \in Threads /\ Producer \notin Consumers /\ Manager \in Threads \ {Producer}
      /\ Cleaner \in Threads \ {Producer}
    BY ThreadAssumption DEF Threads
<1>1. /\ Frame(Producer) /\ pc'[Producer] # "start" /\ pc'[Manager] = pc[Manager]
      /\ pc'[Cleaner] = pc[Cleaner] /\ UNCHANGED <<working, reg>> /\ mutex'[3] = mutex[3]
  <2>1. CASE StartProducer \/ ReadDelay \/ ReadTask \/ EndOfFile \/ TakeLock(Producer, "lock0", 0, "insert")
    <3>1. /\ \E to \in {"next", "wake", "lock0", "done", "insert"} : Goto(Producer, to)
          /\ UNCHANGED <<hand, level, working, reg>> /\ mutex'[3] = mutex[3]
        BY <2>1 DEF StartProducer, Step, ReadDelay, BeginWakeUp, ReadTask, EndOfFile, TakeLock,
                    Acquire, dataVars, ownVars, TypeInv, TypeOK, ListOK
    <3> QED
        BY <1>0, <3>1, GotoFrame
  <2>2. CASE Signal(Producer, "next")
    <3>1. UNCHANGED <<working, reg>> /\ Frame(Producer) /\ pc'[Producer] \in {"next", "wake"}
          /\ UNCHANGED mutex
        BY <2>2, SignalFrame DEF Signal, dataVars, ownVars
    <3>2. pc'[Manager] = pc[Manager] /\ pc'[Cleaner] = pc[Cleaner]
        BY <1>0, <2>2, ThreadAssumption DEF Signal, Goto, Waiting, TypeInv, TypeOK, PcOK
    <3> QED
        BY <3>1, <3>2
  <2>3. CASE InsertTask
    <3>1. /\ WakeAll(Producer, "next") /\ UNCHANGED <<hand, level, working, reg>>
          /\ mutex'[3] = mutex[3]
        BY <2>3 DEF InsertTask, Unlock, ownVars, TypeInv, TypeOK, ListOK
    <3> QED
        BY <1>0, <3>1, ThreadAssumption DEF WakeAll, Waiting, Frame, Threads
  <2> QED
      BY <2>1, <2>2, <2>3 DEF Produce
<1>2. CASE StartProducer
  <2>1. pc[Cleaner] # "enter" /\ pc[Manager] # "check"
      BY <1>2 DEF StartProducer
  <2> QED
      BY <1>0, <1>1, <2>1, CountKept DEF WorkInv, StartInv, SettleInv, WorkLockInv
<1>3. CASE ~ StartProducer
  <2>1. pc[Producer] # "start"
      BY <1>3 DEF Produce, ReadDelay, Signal, ReadTask, TakeLock, InsertTask, EndOfFile, At
  <2> QED
      BY <1>0, <1>1, <2>1, CountKept DEF WorkInv, StartInv, SettleInv, WorkLockInv
<1> QED
    BY <1>2, <1>3

\* Every step of manage() keeps it.
LEMMA ManageWork ==
    ASSUME TypeInv, WorkInv, Manage
    PROVE  WorkInv'
<1>0. /\ Manager \in Threads /\ Manager \notin Consumers /\ Producer \in Threads \ {Manager, Cleaner}
      /\ Cleaner \in Threads \ {Manager} /\ Nobody \notin Threads
      /\ mutex \in [0..3 -> Threads \cup {Nobody}]
      /\ pc \in [Threads -> ConsumerPCs \cup ManagerPCs \cup ProducerPCs \cup CleanerPCs]
    BY ThreadAssumption DEF Threads, TypeInv, TypeOK, PcOK, ListOK
<1>1. Frame(Manager) /\ UNCHANGED <<working, reg>>
  <2>1. CASE Signal(Manager, "lock3")
      BY <2>1, SignalFrame DEF Signal, dataVars, ownVars
  <2>2. CASE CheckDone
      BY <1>0, <2>2 DEF CheckDone, Frame, dataVars, ownVars
  <2>3. CASE ~ Signal(Manager, "lock3") /\ ~ CheckDone
    <3>1. UNCHANGED <<hand, working, reg>> /\ (\E to : Goto(Manager, to))
          /\ (level' = level \/ \E l : level' = [level EXCEPT ![Manager] = l])
        BY <2>3 DEF Manage, Step, TakeLock, DrainOne, DrainTwo, Scan, BeginWakeUp, dataVars, ownVars
    <3> QED
        BY <1>0, <3>1, GotoFrame
  <2> QED
      BY <2>1, <2>2, <2>3
<1>2. pc'[Producer] = pc[Producer] /\ \A c \in Consumers : pc'[c] = pc[c] \/ (pc[c] = "waiting" /\ pc'[c] = "lock")
    BY <1>0, <1>1, ThreadAssumption DEF Frame, Threads
<1>3. StartInv'
  <2> SUFFICES ASSUME pc[Producer] = "start" PROVE \A l \in 0..2 : tempLists'[l] = << >>
      BY <1>2 DEF WorkInv, StartInv, IdlePCs
  <2>1. tempLists \in [0..2 -> Seq(Tasks)] /\ \A l \in 0..2 : tempLists[l] = << >>
      BY DEF TypeInv, TypeOK, ListOK, WorkInv, StartInv
  <2>2. CASE DrainOne \/ DrainTwo
    <3>1. PICK l \in {1, 2} : LevelUp(l)
        BY <2>2 DEF DrainOne, DrainTwo
    <3>2. << >> \o << >> = << >>
        OBVIOUS
    <3> QED
        BY <2>1, <3>1, <3>2 DEF LevelUp
  <2>3. CASE ~ DrainOne /\ ~ DrainTwo
    <3>1. UNCHANGED tempLists
        BY <2>3 DEF Manage, Step, TakeLock, Scan, Signal, CheckDone
    <3> QED
        BY <2>1, <3>1
  <2> QED
      BY <2>2, <2>3
<1>4. SettleInv'
  <2>1. pc'[Cleaner] = "enter" => pc[Cleaner] = "enter"
    <3>1. CASE CheckDone
        BY <1>0, <3>1 DEF CheckDone
    <3>2. CASE Signal(Manager, "lock3")
        BY <1>0, <3>2, ThreadAssumption DEF Signal, Goto, Waiting, Threads
    <3>3. CASE ~ CheckDone /\ ~ Signal(Manager, "lock3")
      <4>1. \E to : Goto(Manager, to)
          BY <3>3 DEF Manage, Step, TakeLock, DrainOne, DrainTwo, Scan, BeginWakeUp
      <4> QED
          BY <1>0, <4>1 DEF Goto
    <3> QED
        BY <3>1, <3>2, <3>3
  <2> QED
      BY <1>2, <2>1 DEF WorkInv, SettleInv
<1>5. /\ \A c \in Consumers : pc[c] \in CountingPCs => mutex'[3] = mutex[3]
      /\ pc'[Manager] = "check" => mutex'[3] = Manager \/ pc[Producer] = "start"
  <2>1. CASE TakeLock(Manager, "lock3", 3, "check")
    <3>1. mutex[3] = Nobody /\ mutex'[3] = Manager
        BY <1>0, <2>1 DEF TakeLock, Acquire
    <3> QED
        BY <1>0, <3>1 DEF WorkInv, WorkLockInv, Threads
  <2>2. CASE CheckDone
    <3>1. pc[Manager] = "check" /\ pc'[Manager] = "sleep"
        BY <1>0, <2>2 DEF CheckDone, At
    <3>2. \A c \in Consumers : pc[c] \notin CountingPCs
        BY <1>0, <3>1 DEF WorkInv, WorkLockInv, StartInv, CountingPCs, IdlePCs
    <3> QED
        BY <3>1, <3>2
  <2>3. CASE ~ TakeLock(Manager, "lock3", 3, "check") /\ ~ CheckDone
    <3>1. mutex'[3] = mutex[3]
        BY <1>0, <2>3 DEF Manage, Step, TakeLock, DrainOne, DrainTwo, Scan, Signal, Acquire, Unlock
    <3>2. pc'[Manager] # "check"
      <4>1. CASE Signal(Manager, "lock3")
          BY <4>1, SignalFrame
      <4>2. CASE ~ Signal(Manager, "lock3")
        <5>1. \E to \in {"lock0", "lock1", "drain1", "lock2", "drain2", "scan", "wake", "lock3"} : Goto(Manager, to)
            BY <2>3, <4>2 DEF Manage, Step, TakeLock, DrainOne, DrainTwo, Scan, BeginWakeUp
        <5> QED
            BY <1>0, <5>1 DEF Goto
      <4> QED
          BY <4>1, <4>2
    <3> QED
        BY <3>1, <3>2
  <2> QED
      BY <2>1, <2>2, <2>3
<1>6. /\ \A c \in Consumers : pc'[c] \in CountingPCs => mutex'[3] = c
      /\ LoadedInv' /\ WorkingExact'
    BY <1>0, <1>1, <1>5, CountKept
<1> QED
    BY <1>2, <1>3, <1>4, <1>5, <1>6 DEF WorkInv, WorkLockInv

\* The cleaner's wait unlocks the working lock when nobody can hold it to count.
LEMMA CleanWork ==
    ASSUME TypeInv, WorkInv, Clean \/ Report \/ UNCHANGED vars
    PROVE  WorkInv'
<1>0. /\ Cleaner \in Threads /\ Cleaner \notin Consumers /\ Producer \in Threads \ {Cleaner}
      /\ Manager \in Threads \ {Cleaner} /\ Nobody \notin Threads
      /\ mutex \in [0..3 -> Threads \cup {Nobody}]
      /\ pc \in [Threads -> ConsumerPCs \cup ManagerPCs \cup ProducerPCs \cup CleanerPCs]
    BY ThreadAssumption DEF Threads, TypeInv, TypeOK, PcOK, ListOK
<1>1. CASE EnterWait
  <2>1. /\ pc[Cleaner] = "enter" /\ mutex'[3] = Nobody /\ Goto(Cleaner, "waiting")
        /\ UNCHANGED <<working, reg, hand, level, tempLists>>
      BY <1>0, <1>1 DEF EnterWait, At, Unlock, dataVars, ownVars
  <2>2. Frame(Cleaner) /\ pc'[Cleaner] = "waiting" /\ \A x \in Threads \ {Cleaner} : pc'[x] = pc[x]
      BY <1>0, <2>1, GotoFrame
  <2>3. pc[Producer] = "start" /\ \A c \in Consumers : pc[c] \notin CountingPCs /\ pc'[c] = pc[c]
      BY <1>0, <2>1, <2>2 DEF WorkInv, SettleInv, StartInv, IdlePCs, CountingPCs, Threads
  <2>4. LoadedInv' /\ WorkingExact'
      BY <1>0, <2>1, <2>2, <2>3, CountKept
  <2> QED
      BY <1>0, <2>1, <2>2, <2>3, <2>4 DEF WorkInv, StartInv, SettleInv, WorkLockInv
<1>2. CASE TakeLock(Cleaner, "relock", 3, "report")
  <2>1. /\ mutex[3] = Nobody /\ Goto(Cleaner, "report")
        /\ UNCHANGED <<working, reg, hand, level, tempLists>>
      BY <1>0, <1>2 DEF TakeLock, At, Acquire, dataVars, ownVars
  <2>2. Frame(Cleaner) /\ pc'[Cleaner] = "report" /\ \A x \in Threads \ {Cleaner} : pc'[x] = pc[x]
      BY <1>0, <2>1, GotoFrame
  <2>3. /\ \A c \in Consumers : pc[c] \notin CountingPCs /\ pc'[c] = pc[c]
        /\ pc[Manager] = "check" => pc[Producer] = "start"
      BY <1>0, <2>1, <2>2 DEF WorkInv, WorkLockInv, CountingPCs, Threads
  <2>4. LoadedInv' /\ WorkingExact'
      BY <1>0, <2>1, <2>2, <2>3, CountKept
  <2> QED
      BY <1>0, <2>1, <2>2, <2>3, <2>4 DEF WorkInv, StartInv, SettleInv, WorkLockInv
<1>3. CASE Report \/ UNCHANGED vars
  <2>1. UNCHANGED <<pc, tempLists, mutex, working, reg>>
      BY <1>3 DEF Report, vars, dataVars, ownVars
  <2>2. Counted' = Counted
      BY <2>1 DEF Counted
  <2> QED
      BY <2>1, <2>2 DEF WorkInv, StartInv, SettleInv, WorkLockInv, LoadedInv, WorkingExact
<1> QED
    BY <1>1, <1>2, <1>3 DEF Clean

\* Every step keeps the count, once the start has settled.
LEMMA WorkNext == StartupSettles /\ TypeInv /\ WorkInv /\ [Next]_vars => WorkInv'
BY ConsumeWork, ProduceWork, ManageWork, CleanWork DEF Next

\* working is exactly the number of consumers between working++ and working--,
\* provided that the cleaner reaches its wait in the 500 ms that main sleeps.
THEOREM WorkingCounted ==
    ASSUME StartupSettles
    PROVE  Spec => []WorkingExact
<1>1. Init => TypeInv /\ WorkInv
    BY TypeInvInit, WorkInit
<1>2. TypeInv /\ WorkInv /\ [Next]_vars => (TypeInv /\ WorkInv)'
    BY StartupSettles, TypeInvNext, WorkNext
<1>3. WorkInv => WorkingExact
    BY DEF WorkInv
<1> QED
    BY <1>1, <1>2, <1>3, PTL DEF Spec

-----------------------------------------------------------------------------
(* cond_done *)

\* The end of the file is reached before the consumers are told, and that
\* before the cleaner is.
EndInv ==
    /\ loadDone => line > Len(Lines)
    /\ pc[Cleaner] \in {"relock", "report"} => loadDone

\* What the threads do to the end of the file and to the cleaner.
LEMMA CleanerMoves ==
    ASSUME TypeInv, [Next]_vars
    PROVE  /\ \/ pc'[Cleaner] = pc[Cleaner]
              \/ pc[Cleaner] = "enter" /\ pc'[Cleaner] = "waiting"
              \/ pc[Cleaner] = "waiting" /\ CheckDone /\ Drained
              \/ pc[Cleaner] = "relock"
           /\ line' = line \/ line' = line + 1
           /\ (loadDone => loadDone') /\ (loadDone' => loadDone \/ line' > Len(Lines))
<1>0. /\ Cleaner \in Threads /\ Cleaner \notin Consumers /\ Cleaner # Manager /\ Cleaner # Producer
      /\ pc \in [Threads -> ConsumerPCs \cup ManagerPCs \cup ProducerPCs \cup CleanerPCs]
    BY ThreadAssumption DEF Threads, TypeInv, TypeOK, PcOK
<1>1. ASSUME NEW c \in Consumers, Consume(c) \/ SpuriousWakeup(c)
      PROVE  pc'[Cleaner] = pc[Cleaner] /\ UNCHANGED <<loadDone, line>>
  <2>1. pc'[Cleaner] = pc[Cleaner]
    <3>1. PICK to : Goto(c, to) \/ WakeAll(c, to)
        BY <1>1, OtherMoves DEF Counts, IncLock, DecLock, CountLock, Inc, Dec
    <3> QED
        BY <1>1, <3>1, ConsumeFrame, ConsumerMoves
  <2>2. UNCHANGED <<loadDone, line>>
      BY <1>1 DEF Consume, SpuriousWakeup, Step, Lock, TakeLock, Look, Remove, Wait, IncLock, CountLock,
                  Inc, Count, DecLock, Dec, Respond, LoadSum, Responded, StoreSum, Run, Turnaround,
                  Free, PutLock, Put, dataVars, loadVars
  <2> QED
      BY <2>1, <2>2
<1>2. ASSUME NEW th \in {Producer, Manager}, NEW to, Signal(th, to)
      PROVE  pc'[Cleaner] = pc[Cleaner] /\ UNCHANGED <<loadDone, line>>
  <2>1. pc' = [pc EXCEPT ![th] = to] \/ pc' = pc \/ \E c \in Consumers : pc' = [pc EXCEPT ![c] = "lock"]
      BY <1>2 DEF Signal, Goto, Waiting
  <2> QED
      BY <1>0, <1>2, <2>1 DEF Signal, dataVars, loadVars
<1>3. ASSUME NEW to, Goto(Producer, to) \/ Goto(Manager, to) PROVE pc'[Cleaner] = pc[Cleaner]
    BY <1>0, <1>3 DEF Goto
<1>4. CASE Produce
  <2>1. CASE Signal(Producer, "next")
      BY <1>2, <2>1
  <2>2. CASE InsertTask
      BY <1>0, <2>2 DEF InsertTask, WakeAll, Waiting
  <2>3. CASE StartProducer \/ ReadDelay \/ ReadTask \/ EndOfFile \/ TakeLock(Producer, "lock0", 0, "insert")
    <3>1. \E to : Goto(Producer, to)
        BY <2>3 DEF StartProducer, Step, ReadDelay, BeginWakeUp, ReadTask, EndOfFile, TakeLock
    <3>2. /\ line' = line \/ line' = line + 1
          /\ (loadDone => loadDone') /\ (loadDone' => loadDone \/ line' > Len(Lines))
        BY <2>3 DEF StartProducer, Step, ReadDelay, ReadTask, EndOfFile, TakeLock, dataVars, loadVars
    <3> QED
        BY <1>3, <3>1, <3>2
  <2> QED
      BY <1>4, <2>1, <2>2, <2>3 DEF Produce
<1>5. CASE Manage
  <2>1. CASE Signal(Manager, "lock3")
      BY <1>2, <2>1
  <2>2. CASE CheckDone
      BY <1>0, <2>2 DEF CheckDone, dataVars, loadVars
  <2>3. CASE ~ Signal(Manager, "lock3") /\ ~ CheckDone
    <3>1. (\E to : Goto(Manager, to)) /\ UNCHANGED <<loadDone, line>>
        BY <1>5, <2>3 DEF Manage, Step, TakeLock, DrainOne, DrainTwo, Scan, BeginWakeUp, dataVars, loadVars
    <3> QED
        BY <1>3, <3>1
  <2> QED
      BY <2>1, <2>2, <2>3
<1>6. CASE Clean
  <2>1. UNCHANGED <<loadDone, line>>
      BY <1>6 DEF Clean, EnterWait, TakeLock, dataVars, loadVars
  <2> QED
      BY <1>0, <1>6, <2>1 DEF Clean, EnterWait, TakeLock, At, Goto
<1>7. CASE Report \/ UNCHANGED vars
    BY <1>7 DEF Report, vars, dataVars, loadVars
<1> QED
    BY <1>1, <1>4, <1>5, <1>6, <1>7 DEF Next

\* The producer is at its first line, and the cleaner has not begun to wait.
LEMMA EndInit == Init => EndInv
BY ThreadAssumption DEF Init, EndInv, Threads

\* Only a CheckDone that finds the load done wakes the cleaner.
LEMMA EndNext == TypeInv /\ EndInv /\ [Next]_vars => EndInv'
<1> SUFFICES ASSUME TypeInv, EndInv, [Next]_vars PROVE EndInv'
    OBVIOUS
<1>1. line \in Int /\ Len(Lines) \in Int
    BY LinesAssumption, LenProperties DEF TypeInv, TypeOK, DataOK
<1>2. line > Len(Lines) => line' > Len(Lines)
    BY <1>1, CleanerMoves
<1>3. (loadDone => loadDone') /\ (loadDone' => loadDone \/ line' > Len(Lines))
    BY CleanerMoves
<1>4. pc'[Cleaner] \in {"relock", "report"} => pc[Cleaner] \in {"relock", "report"} \/ Drained
    BY CleanerMoves
<1> QED
    BY <1>2, <1>3, <1>4 DEF EndInv, Drained

\* When cond_done is signalled, every task that is not freed is in the hands of
\* a consumer that is not counted yet: DoneOnlyInWindow, step by step.
THEOREM DoneWindow ==
    ASSUME StartupSettles
    PROVE  Spec => DoneOnlyInWindow
<1> DEFINE IInv == TypeInv /\ WorkInv /\ EndInv
           Window == (pc[Cleaner] = "waiting" /\ pc'[Cleaner] # "waiting")
                       => /\ Queued = {}
                          /\ line > Len(Lines)
                          /\ \A c \in Consumers : Holds(c) => pc[c] \in {"incLock", "inc"}
<1>1. Init => IInv
    BY TypeInvInit, WorkInit, EndInit
<1>2. IInv /\ [Next]_vars => IInv'
    BY StartupSettles, TypeInvNext, WorkNext, EndNext
<1>3. IInv /\ [Next]_vars => Window
  <2> SUFFICES ASSUME TypeInv, WorkInv, EndInv, [Next]_vars,
                      pc[Cleaner] = "waiting", pc'[Cleaner] # "waiting"
               PROVE  /\ Queued = {}
                      /\ line > Len(Lines)
                      /\ \A c \in Consumers : Holds(c) => pc[c] \in {"incLock", "inc"}
      OBVIOUS
  <2>1. Drained
      BY CleanerMoves
  <2>2. Queued = {}
    <3>1. \A l \in 0..2 : Range(tempLists[l]) = {}
        BY <2>1 DEF Drained, Range
    <3> QED
        BY <3>1, PlacesAre DEF Places
  <2>3. line > Len(Lines)
      BY <2>1 DEF Drained, EndInv
  <2>4. Counted = {}
      BY <2>1, CountedIs, FS_EmptySet DEF Drained, WorkInv, WorkingExact
  <2>5. ASSUME NEW c \in Consumers, Holds(c) PROVE pc[c] \in {"incLock", "inc"}
      BY <2>4, <2>5, CountedIs, HoldsByPc DEF OwningPCs, HoldingPCs, ConsumerPCs, CountedPCs
  <2> QED
      BY <2>2, <2>3, <2>5
<1> HIDE DEF IInv
<1> QED
    BY <1>1, <1>2, <1>3, PTL DEF Spec, DoneOnlyInWindow

-----------------------------------------------------------------------------
(* The task pool *)

\* The state of a task in the pool follows from what is loaded, held and freed.
StateIs(t) ==
    PoolState[t] = IF t \in freed THEN "finished"
                   ELSE IF t \in Held THEN "running"
                   ELSE IF t \in Loaded THEN "ready" ELSE "unloaded"

\* The time a task has left in the pool.
Remaining == [t \in Tasks |-> IF t \in Loaded THEN time[t] ELSE TimeOf[t]]

\* Nothing else decides it: the three places are disjoint.
LEMMA PoolStateIs ==
    /\ Ownership => \A t \in Tasks : StateIs(t)
    /\ Ownership' => \A t \in Tasks : StateIs(t)'
<1>1. ASSUME Ownership, NEW t \in Tasks PROVE StateIs(t)
  <2>1. PoolState[t] = CASE t \in freed  -> "finished"
                         [] t \in Held   -> "running"
                         [] t \in Queued -> "ready"
                         [] OTHER        -> "unloaded"
      BY DEF PoolState
  <2>2. /\ ~ (t \in freed /\ t \in Held) /\ ~ (t \in freed /\ t \in Queued) /\ ~ (t \in Held /\ t \in Queued)
        /\ t \in Loaded <=> t \in Queued \/ t \in Held \/ t \in freed
      BY <1>1 DEF Ownership
  <2> QED
      BY <2>1, <2>2 DEF StateIs
<1>2. ASSUME Ownership', NEW t \in Tasks PROVE StateIs(t)'
  <2>1. PoolState'[t] = CASE t \in freed'  -> "finished"
                          [] t \in Held'   -> "running"
                          [] t \in Queued' -> "ready"
                          [] OTHER         -> "unloaded"
      BY DEF PoolState
  <2>2. /\ ~ (t \in freed' /\ t \in Held') /\ ~ (t \in freed' /\ t \in Queued')
        /\ ~ (t \in Held' /\ t \in Queued')
        /\ t \in Loaded' <=> t \in Queued' \/ t \in Held' \/ t \in freed'
      BY <1>2 DEF Ownership
  <2> QED
      BY <2>1, <2>2 DEF StateIs
<1> QED
    BY <1>1, <1>2

\* The states of the tasks, before and after a step, are functions.
LEMMA PoolStateType ==
    /\ PoolState = [t \in Tasks |-> PoolState[t]]
    /\ PoolState' = [t \in Tasks |-> PoolState'[t]]
BY DEF PoolState

\* A step that changes the place of one task changes its state only.
LEMMA PoolStep ==
    ASSUME Ownership, Ownership', NEW t \in Tasks,
           \A x \in Tasks \ {t} : /\ x \in freed' <=> x \in freed
                                  /\ x \in Held' <=> x \in Held
                                  /\ x \in Loaded' <=> x \in Loaded
    PROVE  PoolState' = [PoolState EXCEPT ![t] = PoolState'[t]]
<1>1. \A x \in Tasks : StateIs(x) /\ StateIs(x)'
    BY PoolStateIs
<1>2. \A x \in Tasks \ {t} : PoolState'[x] = PoolState[x]
    BY <1>1 DEF StateIs
<1> QED
    BY <1>2, PoolStateType

\* A step that changes no place and no time stutters.
LEMMA PoolSame ==
    ASSUME Ownership, Ownership', freed' = freed, Held' = Held, Loaded' = Loaded,
           \A t \in Loaded : time'[t] = time[t], UNCHANGED status
    PROVE  UNCHANGED <<PoolState, Remaining, status = "running">>
<1>1. Remaining' = Remaining
    BY DEF Remaining
<1>2. PoolState' = PoolState
  <2>1. \A x \in Tasks : StateIs(x) /\ StateIs(x)'
      BY PoolStateIs
  <2>2. \A x \in Tasks : PoolState'[x] = PoolState[x]
      BY <2>1 DEF StateIs
  <2> QED
      BY <2>2, PoolStateType
<1> QED
    BY <1>1, <1>2

\* A step that moves no task keeps what is held.
LEMMA HeldSame ==
    ASSUME TypeInv, TypeInv', NEW th \in Threads, Frame(th),
           th \in Consumers => /\ pc'[th] \in OwningPCs <=> pc[th] \in OwningPCs
                               /\ pc[th] \in OwningPCs => hand'[th] = hand[th]
    PROVE  Held' = Held
<1>1. \A c \in Consumers : /\ Holds(c) <=> pc[c] \in OwningPCs
                           /\ Holds(c)' <=> pc'[c] \in OwningPCs
    BY HoldsByPc
<1>2. \A c \in Consumers : pc'[c] \in OwningPCs <=> pc[c] \in OwningPCs
    BY ThreadAssumption DEF Frame, OwningPCs, HoldingPCs, Threads
<1>3. \A c \in Consumers : (Holds(c)' <=> Holds(c)) /\ (Holds(c) => hand'[c] = hand[c])
    BY <1>1, <1>2 DEF Frame
<1>4. \A t : t \in Held' <=> t \in Held
    BY <1>3, PlacesAre DEF Places
<1> QED
    BY <1>4

\* The pool counts as the scheduler does.
LEMMA PoolCardinality == \A S : Pool!Cardinality(S) = Cardinality(S)
BY DEF Pool!Cardinality, Cardinality

\* The tasks that run are the ones that consumers hold: no more than consumers.
LEMMA RunningAreHeld ==
    ASSUME TypeInv, Ownership
    PROVE  /\ Held \subseteq Tasks /\ Pool!In("running") = Held
           /\ \A c \in Consumers : ~ Holds(c) => Cardinality(Held) < cnt
<1>1. Held \subseteq Tasks
    BY HoldsByPc, PlacesAre DEF Places, OwningPCs, TypeInv, HandInv
<1>2. Pool!In("running") = Held
  <2>1. ASSUME NEW t \in Tasks PROVE PoolState[t] = "running" <=> t \in Held
    <3>1. StateIs(t) /\ ~ (t \in freed /\ t \in Held)
        BY PoolStateIs DEF Ownership
    <3> QED
        BY <3>1 DEF StateIs
  <2> QED
      BY <1>1, <2>1 DEF Pool!In
<1>3. ASSUME NEW c \in Consumers, ~ Holds(c) PROVE Cardinality(Held) < cnt
  <2> DEFINE H == {d \in Consumers : Holds(d)}
             f == [d \in H |-> hand[d]]
  <2>1. H \in SUBSET (Consumers \ {c})
      BY <1>3
  <2>2. /\ IsFiniteSet(Consumers \ {c}) /\ Cardinality(Consumers \ {c}) = cnt - 1 /\ cnt \in Nat
        /\ Cardinality(Consumers \ {c}) \in Nat
      BY ThreadAssumption, CntType, FS_RemoveElement, FS_CardinalityType DEF cnt
  <2>3. IsFiniteSet(H) /\ Cardinality(H) <= Cardinality(Consumers \ {c}) /\ Cardinality(H) \in Nat
      BY <2>1, <2>2, FS_Subset, FS_CardinalityType
  <2>4. f \in Surjection(H, Held)
      BY DEF Held, Surjection
  <2>5. IsFiniteSet(Held) /\ Cardinality(Held) <= Cardinality(H)
      BY <2>3, <2>4, FS_Surjection
  <2>6. Cardinality(Held) \in Nat
      BY <2>5, FS_CardinalityType
  <2> QED
      BY <2>2, <2>3, <2>5, <2>6
<1> QED
    BY <1>1, <1>2, <1>3

\* What a consumer's step does to what is held, when it takes or gives up a task.
LEMMA HeldAfter ==
    ASSUME TypeInv, TypeInv', Ownership, NEW c \in Consumers, Frame(c), NEW t, t = hand[c]
    PROVE  /\ ~ Holds(c) /\ Holds(c)' /\ hand'[c] = t => Held' = Held \cup {t}
           /\ Holds(c) /\ ~ Holds(c)' => Held' = Held \ {t}
<1>1. \A d \in Consumers \ {c} : (Holds(d)' <=> Holds(d)) /\ hand'[d] = hand[d]
    BY OwnersAfter
<1>2. ASSUME ~ Holds(c), Holds(c)', hand'[c] = t PROVE Held' = Held \cup {t}
    BY <1>1, <1>2, PlacesAre DEF Places
<1>3. ASSUME Holds(c), ~ Holds(c)' PROVE Held' = Held \ {t}
  <2>1. \A d \in Consumers \ {c} : Holds(d) => hand[d] # t
      BY <1>3 DEF Ownership
  <2> QED
      BY <1>1, <1>3, <2>1, PlacesAre DEF Places
<1> QED
    BY <1>2, <1>3

\* A removal starts the task, on a CPU that was free.
LEMMA RemoveStarts ==
    ASSUME TypeInv, TypeInv', SectInv, Ownership, Ownership', NEW c \in Consumers, Remove(c),
           UNCHANGED status
    PROVE  \E t \in Tasks : Pool!Start(t)
<1> SUFFICES ASSUME NEW t, t = hand[c] PROVE t \in Tasks /\ Pool!Start(t)
    OBVIOUS
<1>1. pc[c] = "remove" /\ level[c] \in 0..2 /\ Frame(c) /\ t \in Tasks
    BY ConsumeFrame DEF Consume, Remove, At, TypeInv, TypeOK, OwnOK, HandInv, HoldingPCs, ConsumerPCs
<1>2. /\ pc'[c] = "incLock" /\ hand' = hand /\ freed' = freed /\ Loaded' = Loaded /\ time' = time
  <2>1. /\ Goto(c, "incLock") /\ UNCHANGED <<hand, freed, line, time>>
      BY DEF Remove, ownVars, dataVars, taskVars, loadVars
  <2> QED
      BY <2>1, ConsumerGoto DEF ConsumerPCs, Loaded
<1>3. ~ Holds(c) /\ Holds(c)'
    BY <1>1, <1>2, HoldsByPc DEF OwningPCs, HoldingPCs, ConsumerPCs
<1>4. Held' = Held \cup {t}
    BY <1>1, <1>2, <1>3, HeldAfter
<1>5. t \in Queued
  <2>1. tempLists[level[c]] # << >> /\ t = tempLists[level[c]][1]
      BY <1>1 DEF SectInv, HeadInv
  <2>2. tempLists[level[c]] \in Seq(Tasks) /\ IsInjective(tempLists[level[c]])
      BY <1>1 DEF TypeInv, TypeOK, ListOK, Ownership
  <2>3. t \in Range(tempLists[level[c]])
      BY <2>1, <2>2, TailPlaces
  <2> QED
      BY <1>1, <2>3, PlacesAre DEF Places
<1>6. PoolState[t] = "ready" /\ PoolState'[t] = "running"
  <2>1. StateIs(t) /\ StateIs(t)'
      BY <1>1, PoolStateIs
  <2> QED
      BY <1>2, <1>4, <1>5, <2>1 DEF StateIs, Ownership
<1>7. PoolState' = [PoolState EXCEPT ![t] = PoolState'[t]]
    BY <1>1, <1>2, <1>4, PoolStep
<1>8. Remaining' = Remaining
    BY <1>2 DEF Remaining
<1>9. Pool!Cardinality(Pool!In("running")) < cnt
    BY <1>3, RunningAreHeld, PoolCardinality
<1>10. UNCHANGED <<Remaining, status = "running">>
    BY <1>8
<1> QED
    BY <1>1, <1>6, <1>7, <1>9, <1>10 DEF Pool!Start, Pool!Move, Remaining

\* A put-back preempts the task, with time left.
LEMMA PutPreempts ==
    ASSUME TypeInv, TypeInv', FeedInv, Ownership, Ownership', NEW c \in Consumers, Put(c),
           UNCHANGED status
    PROVE  \E t \in Tasks : Pool!Preempt(t)
<1> SUFFICES ASSUME NEW t, t = hand[c] PROVE t \in Tasks /\ Pool!Preempt(t)
    OBVIOUS
<1>1. pc[c] = "put" /\ Frame(c) /\ t \in Tasks /\ c \in Threads
    BY ConsumeFrame DEF Consume, Put, At, Threads, TypeInv, HandInv, HoldingPCs, ConsumerPCs
<1>2. /\ pc'[c] = "decLock" /\ freed' = freed /\ Loaded' = Loaded /\ time' = time
    BY <1>1 DEF Put, WakeAll, dataVars, taskVars, loadVars, Loaded
<1>3. Holds(c) /\ ~ Holds(c)'
    BY <1>1, <1>2, HoldsByPc DEF OwningPCs, HoldingPCs, ConsumerPCs
<1>4. Held' = Held \ {t}
    BY <1>1, <1>3, HeldAfter
<1>5. t \in Held /\ t \in Loaded /\ t \notin freed /\ time[t] > 0
  <2>1. t \in Held
      BY <1>3, PlacesAre DEF Places
  <2> QED
      BY <1>1, <2>1 DEF Ownership, FeedInv, HeldOK
<1>6. PoolState[t] = "running" /\ PoolState'[t] = "ready"
  <2>1. StateIs(t) /\ StateIs(t)'
      BY <1>1, PoolStateIs
  <2> QED
      BY <1>2, <1>4, <1>5, <2>1 DEF StateIs
<1>7. PoolState' = [PoolState EXCEPT ![t] = PoolState'[t]]
    BY <1>1, <1>2, <1>4, PoolStep
<1>8. UNCHANGED <<Remaining, status = "running">> /\ Remaining[t] > 0
    BY <1>1, <1>2, <1>5 DEF Remaining
<1> QED
    BY <1>1, <1>6, <1>7, <1>8 DEF Pool!Preempt, Pool!Move, Remaining

\* A free finishes the task, with no time left.
LEMMA FreeFinishes ==
    ASSUME TypeInv, TypeInv', FeedInv, Ownership, Ownership', NEW c \in Consumers, Free(c),
           UNCHANGED status
    PROVE  \E t \in Tasks : Pool!Finish(t)
<1> SUFFICES ASSUME NEW t, t = hand[c] PROVE t \in Tasks /\ Pool!Finish(t)
    OBVIOUS
<1>1. pc[c] = "free" /\ Frame(c) /\ t \in Tasks
    BY ConsumeFrame DEF Consume, Free, At, TypeInv, HandInv, HoldingPCs, ConsumerPCs
<1>2. /\ pc'[c] = "decLock" /\ freed' = freed \cup {t} /\ Loaded' = Loaded /\ time' = time
  <2>1. Goto(c, "decLock") /\ freed' = freed \cup {t} /\ UNCHANGED <<line, time>>
      BY DEF Free, StoreSum, loadVars
  <2> QED
      BY <2>1, ConsumerGoto DEF ConsumerPCs, Loaded
<1>3. Holds(c) /\ ~ Holds(c)'
    BY <1>1, <1>2, HoldsByPc DEF OwningPCs, HoldingPCs, ConsumerPCs
<1>4. Held' = Held \ {t}
    BY <1>1, <1>3, HeldAfter
<1>5. t \in Held /\ t \in Loaded /\ t \notin freed /\ time[t] = 0
  <2>1. t \in Held
      BY <1>3, PlacesAre DEF Places
  <2> QED
      BY <1>1, <2>1 DEF Ownership, FeedInv, HeldOK
<1>6. PoolState[t] = "running" /\ PoolState'[t] = "finished"
  <2>1. StateIs(t) /\ StateIs(t)'
      BY <1>1, PoolStateIs
  <2> QED
      BY <1>2, <1>5, <2>1 DEF StateIs
<1>7. PoolState' = [PoolState EXCEPT ![t] = PoolState'[t]]
    BY <1>1, <1>2, <1>4, PoolStep
<1>8. UNCHANGED <<Remaining, status = "running">> /\ Remaining[t] = 0
    BY <1>1, <1>2, <1>5 DEF Remaining
<1> QED
    BY <1>1, <1>6, <1>7, <1>8 DEF Pool!Finish, Pool!Move, Remaining

\* A run works on the task, or uses no time of it (i/o took the whole quantum,
\* or the task was of length 0).
LEMMA RunWorks ==
    ASSUME TypeInv, TypeInv', Ownership, Ownership', NEW c \in Consumers, Run(c), UNCHANGED status
    PROVE  \/ \E t \in Tasks : Pool!Work(t)
           \/ UNCHANGED <<PoolState, Remaining, status = "running">>
<1> SUFFICES ASSUME NEW t, t = hand[c]
             PROVE  t \in Tasks /\ (Pool!Work(t) \/ UNCHANGED <<PoolState, Remaining, status = "running">>)
    OBVIOUS
<1>1. pc[c] = "run" /\ Frame(c) /\ t \in Tasks /\ c \in Threads
    BY ConsumeFrame DEF Consume, Run, At, Threads, TypeInv, HandInv, HoldingPCs, ConsumerPCs
<1>2. PICK left \in Nat, rest \in Nat : time[t] = rest + left /\ time' = [time EXCEPT ![t] = rest]
    BY RunSplits
<1>3. UNCHANGED <<hand, freed, line>> /\ pc'[c] \in {"turnaround", "putLock"}
  <2>1. Goto(c, "turnaround") \/ Goto(c, "putLock")
      BY DEF Run
  <2>2. pc'[c] \in {"turnaround", "putLock"}
      BY <2>1, ConsumerGoto DEF ConsumerPCs
  <2> QED
      BY <2>2 DEF Run, loadVars
<1>4. Loaded' = Loaded
    BY <1>3 DEF Loaded
<1>5. Held' = Held
    BY <1>1, <1>3, HeldSame DEF OwningPCs, HoldingPCs, ConsumerPCs
<1>6. t \in Held /\ t \in Loaded /\ t \notin freed
  <2>1. t \in Held
      BY <1>1, HoldsByPc, PlacesAre DEF Places, OwningPCs, HoldingPCs, ConsumerPCs
  <2> QED
      BY <2>1 DEF Ownership
<1>7. CASE left = 0
  <2>1. time \in [Tasks -> Nat]
      BY DEF TypeInv, TypeOK, DataOK
  <2>2. time' = time
      BY <1>1, <1>2, <1>7, <2>1
  <2> QED
      BY <1>1, <1>3, <1>4, <1>5, <2>2, PoolSame
<1>8. CASE left > 0
  <2>1. PoolState' = PoolState
    <3>1. StateIs(t) /\ StateIs(t)'
        BY <1>1, PoolStateIs
    <3>2. PoolState'[t] = PoolState[t]
        BY <1>3, <1>4, <1>5, <3>1 DEF StateIs
    <3>3. PoolState' = [PoolState EXCEPT ![t] = PoolState'[t]]
        BY <1>1, <1>3, <1>4, <1>5, PoolStep
    <3> QED
        BY <3>2, <3>3, PoolStateType
  <2>2. PoolState[t] = "running"
    <3>1. StateIs(t)
        BY <1>1, PoolStateIs
    <3> QED
        BY <1>6, <3>1 DEF StateIs
  <2>3. /\ Remaining[t] = rest + left /\ left \in 1..Remaining[t] /\ Remaining[t] > 0
        /\ Remaining[t] - left = rest
      BY <1>1, <1>2, <1>6, <1>8 DEF Remaining
  <2>4. Remaining' = [Remaining EXCEPT ![t] = rest]
    <3>1. time \in [Tasks -> Nat]
        BY DEF TypeInv, TypeOK, DataOK
    <3> QED
        BY <1>1, <1>2, <1>4, <1>6, <3>1 DEF Remaining
  <2>5. Remaining' = [Remaining EXCEPT ![t] = Remaining[t] - left]
      BY <2>3, <2>4
  <2>6. UNCHANGED <<PoolState, status = "running">>
      BY <2>1
  <2> QED
      BY <1>1, <2>2, <2>3, <2>5, <2>6 DEF Pool!Work, Remaining
<1> QED
    BY <1>1, <1>2, <1>7, <1>8

\* An insertion by the producer loads a task, with all of its time left.
LEMMA InsertLoads ==
    ASSUME TypeInv, TypeInv', FeedInv, Ownership, Ownership', InsertTask, UNCHANGED status
    PROVE  \E t \in Tasks : Pool!Load(t)
<1> SUFFICES ASSUME NEW t, t = Lines[line] PROVE t \in Tasks /\ Pool!Load(t)
    OBVIOUS
<1>1. /\ pc[Producer] = "insert" /\ line' = line + 1 /\ freed' = freed /\ time' = time
    BY DEF InsertTask, At, taskVars
<1>2. line <= Len(Lines) /\ Lines[line] # Delay /\ t \in Tasks
    BY <1>1, LineIsTask DEF TypeInv, LineInv
<1>3. Loaded' = Loaded \cup {t} /\ t \notin Loaded
    BY <1>1, <1>2, LoadedNext
<1>4. Held' = Held
    BY ProduceFrame, HeldSame, ThreadAssumption DEF Produce, Threads
<1>5. time[t] = TimeOf[t]
    BY <1>1 DEF FeedInv, FreshInv
<1>6. PoolState[t] = "unloaded" /\ PoolState'[t] = "ready"
  <2>1. StateIs(t) /\ StateIs(t)' /\ t \notin Held /\ t \notin freed
      BY <1>2, <1>3, PoolStateIs DEF Ownership
  <2> QED
      BY <1>1, <1>3, <1>4, <2>1 DEF StateIs
<1>7. PoolState' = [PoolState EXCEPT ![t] = PoolState'[t]]
    BY <1>1, <1>2, <1>3, <1>4, PoolStep
<1>8. Remaining' = Remaining
    BY <1>1, <1>3, <1>5 DEF Remaining
<1>9. UNCHANGED <<Remaining, status = "running">>
    BY <1>8
<1> QED
    BY <1>2, <1>6, <1>7, <1>9 DEF Pool!Load, Pool!Move, Remaining

\* When the line is past the last, every task is loaded.
LEMMA AllLoaded ==
    ASSUME TypeInv, line > Len(Lines)
    PROVE  Tasks \subseteq Loaded
<1>1. Len(Lines) \in Nat /\ line = Len(Lines) + 1
    BY LinesAssumption, LenProperties DEF TypeInv, TypeOK, DataOK
<1>2. ASSUME NEW t \in Tasks PROVE \E i \in 1..Len(Lines) : t = Lines[i]
  <2>1. DOMAIN Lines = 1..Len(Lines)
      BY LinesAssumption, LenProperties
  <2> QED
      BY <2>1, LinesAssumption DEF Range
<1>3. 1..(line - 1) = 1..Len(Lines)
    BY <1>1
<1> QED
    BY <1>2, <1>3, TaskAssumption DEF Loaded

\* The report closes the pool, after the last line was loaded.
LEMMA ReportCloses ==
    ASSUME TypeInv, Ownership, EndInv, Ownership', status = "running", Report
    PROVE  Pool!Close
<1>1. line > Len(Lines)
    BY DEF EndInv, Report, At
<1>2. Pool!In("unloaded") = {}
  <2>1. ASSUME NEW t \in Tasks PROVE PoolState[t] # "unloaded"
    <3>1. StateIs(t) /\ t \in Loaded
        BY <1>1, AllLoaded, PoolStateIs
    <3> QED
        BY <3>1 DEF StateIs, Ownership
  <2> QED
      BY <2>1 DEF Pool!In
<1>3. UNCHANGED <<pc, tempLists, freed, hand, line, time>>
    BY DEF Report, dataVars, taskVars, loadVars, ownVars
<1>4. Held' = Held /\ Loaded' = Loaded /\ Queued' = Queued
    BY <1>3 DEF Held, Holds, Loaded, Queued
<1>5. PoolState' = PoolState /\ Remaining' = Remaining
    BY <1>3, <1>4 DEF PoolState, Remaining
<1>6. UNCHANGED <<PoolState, Remaining>>
    BY <1>5
<1>7. status' # "running"
    BY DEF Report
<1> QED
    BY <1>2, <1>6, <1>7 DEF Pool!Close, Remaining

\* The other steps of consume() are stutters of the pool.
LEMMA ConsumeStutters ==
    ASSUME TypeInv, TypeInv', Ownership, Ownership', NEW c \in Consumers,
           Consume(c) \/ SpuriousWakeup(c), ~ Remove(c), ~ Put(c), ~ Free(c), ~ Run(c), UNCHANGED status
    PROVE  UNCHANGED <<PoolState, Remaining, status = "running">>
<1>0. c \in Threads /\ Frame(c)
      /\ pc \in [Threads -> ConsumerPCs \cup ManagerPCs \cup ProducerPCs \cup CleanerPCs]
    BY ConsumeFrame DEF Threads, TypeInv, TypeOK, PcOK
<1>1. freed' = freed /\ line' = line /\ time' = time
    BY DEF Consume, Lock, TakeLock, Look, Wait, SpuriousWakeup, Step, IncLock, CountLock, Inc, Count,
           DecLock, Dec, Respond, LoadSum, Responded, StoreSum, Turnaround, PutLock,
           dataVars, taskVars, loadVars
<1>2. CASE Look(c)
  <2>1. pc[c] = "look" /\ pc'[c] \in {"remove", "wait", "lock"}
      BY <1>0, <1>2 DEF Look, At, Goto
  <2>2. Held' = Held
      BY <1>0, <2>1, HeldSame DEF OwningPCs, HoldingPCs
  <2>3. Loaded' = Loaded
      BY <1>1 DEF Loaded
  <2> QED
      BY <1>1, <2>2, <2>3, PoolSame
<1>3. CASE ~ Look(c)
  <2>1. hand' = hand
      BY <1>3 DEF Consume, Lock, TakeLock, Wait, SpuriousWakeup, Step, IncLock, CountLock, Inc, Count, DecLock,
                  Dec, Respond, LoadSum, Responded, StoreSum, Turnaround, PutLock, ownVars
  <2>2. pc'[c] \in OwningPCs <=> pc[c] \in OwningPCs
      BY <1>0, <1>3
         DEF Consume, Lock, TakeLock, Wait, SpuriousWakeup, Step, IncLock, CountLock, Inc, DecLock, Dec,
             Respond, LoadSum, Responded, Turnaround, PutLock, At, Goto,
             OwningPCs, HoldingPCs, ConsumerPCs
  <2>3. Held' = Held
      BY <1>0, <2>1, <2>2, HeldSame
  <2>4. Loaded' = Loaded
      BY <1>1 DEF Loaded
  <2> QED
      BY <1>1, <2>3, <2>4, PoolSame
<1> QED
    BY <1>2, <1>3

\* So are those of the other threads, but for the insertion and the report.
LEMMA OthersStutter ==
    ASSUME TypeInv, TypeInv', Ownership, Ownership', Produce \/ Manage \/ Clean \/ UNCHANGED vars,
           ~ InsertTask, UNCHANGED status
    PROVE  UNCHANGED <<PoolState, Remaining, status = "running">>
<1>1. UNCHANGED freed
    BY DEF Produce, StartProducer, Step, ReadDelay, ReadTask, EndOfFile, TakeLock, Signal,
           Manage, DrainOne, DrainTwo, Scan, CheckDone, Clean, EnterWait, vars, dataVars, taskVars
<1>2. Loaded' = Loaded
  <2>1. CASE ReadDelay
      BY <2>1, LoadedNext DEF ReadDelay
  <2>2. CASE ~ ReadDelay
    <3>1. UNCHANGED line
        BY <2>2 DEF Produce, StartProducer, Step, ReadTask, EndOfFile, TakeLock, Signal,
                    Manage, DrainOne, DrainTwo, Scan, CheckDone, Clean, EnterWait, vars, dataVars, loadVars
    <3> QED
        BY <3>1 DEF Loaded
  <2> QED
      BY <2>1, <2>2
<1>3. \A t \in Loaded : time'[t] = time[t]
  <2>1. CASE ReadTask
    <3>1. Lines[line] \notin Loaded /\ time' = [time EXCEPT ![Lines[line]] = TimeOf[Lines[line]]]
        BY <2>1, LineNotLoaded DEF ReadTask
    <3>2. time \in [Tasks -> Nat] /\ Loaded \subseteq Tasks
        BY LoadedTasks DEF TypeInv, TypeOK, DataOK
    <3> QED
        BY <3>1, <3>2
  <2>2. CASE ~ ReadTask
    <3>1. UNCHANGED time
        BY <2>2 DEF Produce, StartProducer, Step, ReadDelay, EndOfFile, TakeLock, Signal,
                    Manage, DrainOne, DrainTwo, Scan, CheckDone, Clean, EnterWait, vars, dataVars, taskVars
    <3> QED
        BY <3>1
  <2> QED
      BY <2>1, <2>2
<1>4. Held' = Held
  <2>1. \E th \in {Producer, Manager, Cleaner} : Frame(th)
      BY ProduceFrame, ManageFrame, CleanFrame
  <2> QED
      BY <2>1, HeldSame, ThreadAssumption DEF Threads
<1> QED
    BY <1>1, <1>2, <1>3, <1>4, PoolSame

\* Nothing is loaded at the start.
LEMMA PoolInitially == Init => Pool!Init
<1> SUFFICES ASSUME Init PROVE Pool!Init
    OBVIOUS
<1>1. Ownership /\ Loaded = {} /\ freed = {}
    BY OwnershipInit DEF Init, Loaded
<1>2. Held = {}
    BY <1>1 DEF Ownership
<1>3. PoolState = [t \in Tasks |-> "unloaded"]
  <2>1. \A t \in Tasks : StateIs(t)
      BY <1>1, PoolStateIs
  <2>2. \A t \in Tasks : PoolState[t] = "unloaded"
      BY <1>1, <1>2, <2>1 DEF StateIs
  <2> QED
      BY <2>2, PoolStateType
<1>4. [t \in Tasks |-> IF t \in Loaded THEN time[t] ELSE TimeOf[t]] = TimeOf
    BY <1>1, TaskAssumption
<1>5. status = "running"
    BY DEF Init
<1> QED
    BY <1>3, <1>4, <1>5 DEF Pool!Init

\* Every step is one of the pool, or a stutter.
LEMMA PoolNext ==
    ASSUME PoolInv, EndInv, PoolInv', [Next]_vars
    PROVE  [Pool!Next]_(Pool!poolVars)
<1>0. TypeInv /\ TypeInv' /\ SectInv /\ FeedInv /\ Ownership /\ Ownership'
    BY DEF PoolInv
<1> DEFINE Stutter == UNCHANGED <<PoolState, Remaining, status = "running">>
<1>1. ASSUME status = "running", UNCHANGED status, NEW c \in Consumers, Consume(c) \/ SpuriousWakeup(c)
      PROVE  (\E t \in Tasks : Pool!Start(t) \/ Pool!Work(t) \/ Pool!Preempt(t) \/ Pool!Finish(t)) \/ Stutter
  <2>1. CASE Remove(c)
      BY <1>0, <1>1, <2>1, RemoveStarts
  <2>2. CASE Put(c)
      BY <1>0, <1>1, <2>2, PutPreempts
  <2>3. CASE Free(c)
      BY <1>0, <1>1, <2>3, FreeFinishes
  <2>4. CASE Run(c)
      BY <1>0, <1>1, <2>4, RunWorks
  <2>5. CASE ~ Remove(c) /\ ~ Put(c) /\ ~ Free(c) /\ ~ Run(c)
      BY <1>0, <1>1, <2>5, ConsumeStutters
  <2> QED
      BY <2>1, <2>2, <2>3, <2>4, <2>5
<1>2. ASSUME status = "running", UNCHANGED status, Produce \/ Manage \/ Clean
      PROVE  (\E t \in Tasks : Pool!Load(t)) \/ Stutter
  <2>1. CASE InsertTask
      BY <1>0, <1>2, <2>1, InsertLoads
  <2>2. CASE ~ InsertTask
      BY <1>0, <1>2, <2>2, OthersStutter
  <2> QED
      BY <2>1, <2>2
<1>3. CASE status = "running" /\ Report
    BY <1>0, <1>3, ReportCloses DEF Pool!Next
<1>4. CASE UNCHANGED vars
  <2>1. UNCHANGED status
      BY <1>4 DEF vars
  <2>2. ~ InsertTask
    <3>1. line' = line /\ line \in Int
        BY <1>0, <1>4 DEF vars, dataVars, loadVars, TypeInv, TypeOK, DataOK
    <3> QED
        BY <3>1 DEF InsertTask
  <2> QED
      BY <1>0, <1>4, <2>1, <2>2, OthersStutter DEF Pool!poolVars, Remaining
<1> HIDE DEF Stutter
<1>5. Stutter => UNCHANGED Pool!poolVars
    BY DEF Stutter, Pool!poolVars, Remaining
<1>6. ASSUME status = "running", \/ \E t \in Tasks : Pool!Load(t)
                                 \/ \E t \in Tasks : Pool!Start(t) \/ Pool!Work(t) \/ Pool!Preempt(t) \/ Pool!Finish(t)
      PROVE  Pool!Next
    BY <1>6 DEF Pool!Next
<1> QED
    BY <1>1, <1>2, <1>3, <1>4, <1>5, <1>6 DEF Next

\* The scheduler implements the task pool: a task is loaded once, runs on one
\* CPU at a time and on at most cnt of them in all, loses time only there, is
\* put back only with time left and finished only with none; and the process
\* reports only after the whole file is loaded.
THEOREM ImplementsPool == Spec => PoolSpec
<1> DEFINE IInv == PoolInv /\ EndInv
<1>1. Init => IInv /\ Pool!Init
    BY PoolInvInit, EndInit, PoolInitially
<1>2. IInv /\ [Next]_vars => IInv'
    BY PoolInvNext, EndNext DEF PoolInv
<1>3. IInv /\ IInv' /\ [Next]_vars => [Pool!Next]_(Pool!poolVars)
    BY PoolNext
<1> HIDE DEF IInv
<1> QED
    BY <1>1, <1>2, <1>3, PTL DEF Spec, PoolSpec, Pool!Spec

=============================================================================
