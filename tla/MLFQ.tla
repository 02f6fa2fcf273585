-------------------------------- MODULE MLFQ --------------------------------
(***************************************************************************)
(* The multi-level feedback queue scheduler of src/A3/a3q1.c: cnt consumer *)
(* threads ("CPUs") take tasks from three locked queues, a manager thread  *)
(* moves every task back to level 0 once per period, a producer loads the  *)
(* tasks of a file, and a cleaner waits for the end, prints the averages   *)
(* and exits.                                                              *)
(*                                                                         *)
(* Grain of atomicity.  Taking a mutex is a step of its own.  The body of  *)
(* a critical section is one step when everything it touches is protected  *)
(* by the mutexes held, except that taking a task is two steps (read the   *)
(* head, then remove it), so that a missing lock shows.  Every read or     *)
(* write of a word that another thread accesses without the lock - the     *)
(* emptiness tests of the manager, the statistics, working - is a separate *)
(* step.  A wakeUp made under a level lock wakes every waiter in one step: *)
(* a woken consumer needs that lock to get back to the wait, and no more   *)
(* than cnt consumers exist.  A wakeUp made without a lock is a loop.      *)
(***************************************************************************)
EXTENDS Integers, Sequences, FiniteSets, Functions

CONSTANTS
    Consumers,      \* the cnt worker threads
    Manager, Producer, Cleaner,
    Nobody,         \* the "owner" of a free mutex
    Tasks, NoTask,  \* the struct task objects, and NULL
    Lines, Delay,   \* the task file: a sequence of tasks and DELAY lines
    Types, TypeOf,  \* the task types, and the type field of each task
    TimeOf,         \* the running time each task is loaded with
    OddsOfIO,       \* its io probability, in percent
    QUANTUM, TIME_SLICE,
    Spurious,       \* consumers whose pthread_cond_wait may return unsignalled
    StartupSettles  \* TRUE: the 500 ms sleep of main lets the cleaner wait

Threads == Consumers \cup {Manager, Producer, Cleaner}
cnt == Cardinality(Consumers)

ASSUME ThreadAssumption ==
    /\ IsFiniteSet(Consumers) /\ Consumers # {}
    /\ Manager \notin Consumers /\ Producer \notin Consumers
    /\ Cleaner \notin Consumers
    /\ Manager # Producer /\ Manager # Cleaner /\ Producer # Cleaner
    /\ Nobody \notin Threads
    /\ Spurious \subseteq Consumers
    /\ StartupSettles \in BOOLEAN

ASSUME TaskAssumption ==
    /\ IsFiniteSet(Tasks)
    /\ NoTask \notin Tasks /\ Delay \notin Tasks
    /\ TypeOf \in [Tasks -> Types]
    /\ TimeOf \in [Tasks -> Nat]
    /\ OddsOfIO \in [Tasks -> Nat]

\* Every line of the file is a task of its own, and every task is made of a line.
ASSUME LinesAssumption ==
    /\ Lines \in Seq(Tasks \cup {Delay})
    /\ \A i, j \in 1..Len(Lines) : Lines[i] = Lines[j] /\ i # j => Lines[i] = Delay
    /\ Tasks \subseteq Range(Lines)

ASSUME SliceAssumption ==
    QUANTUM \in Nat \ {0} /\ TIME_SLICE \in Nat \ {0}

VARIABLES
    pc,             \* where each thread is
    tempLists,      \* the three task queues
    mutex,          \* owner of the level locks 0..2 and of the working lock 3
    working,        \* number of threads working
    loadDone,       \* has the producer loaded every line?
    taskNum,        \* tasks loaded, per type
    waitTime,       \* response times added up, one unit per contribution
    turnaroundTime, \* turnaround times added up, one unit per contribution
    time, allotment, new,  \* the fields of the tasks
    freed,          \* tasks that were finished and freed
    hand,           \* the consumer's local t
    level,          \* level being scanned, by a consumer or by the manager
    reg,            \* value a consumer loaded and is about to add to
    line,           \* the line the producer is at
    signals,        \* signals left in a wakeUp made without a lock
    status          \* of the process

taskVars   == <<time, allotment, new, freed>>
statVars   == <<taskNum, waitTime, turnaroundTime>>
loadVars   == <<loadDone, line>>
dataVars   == <<working, taskVars, statVars, loadVars>>
ownVars    == <<hand, level, reg>>
vars == <<pc, tempLists, mutex, dataVars, ownVars, signals, status>>

MIN(x, y) == IF x < y THEN x ELSE y

ConsumerPCs ==
    {"lock", "look", "remove", "wait", "waiting", "incLock", "inc", "respond",
     "responded", "run", "turnaround", "free", "putLock", "put", "decLock", "dec"}
ManagerPCs ==
    {"sleep", "lock0", "lock1", "drain1", "lock2", "drain2", "scan", "wake",
     "lock3", "check"}
ProducerPCs == {"start", "next", "wake", "lock0", "insert", "done"}
CleanerPCs == {"enter", "waiting", "relock", "report"}

-----------------------------------------------------------------------------
(* Helpers *)

Goto(th, l) == pc' = [pc EXCEPT ![th] = l]
At(th, l) == pc[th] = l

\* A step that only moves the thread.
Step(th, from, to) ==
    At(th, from) /\ Goto(th, to) /\ UNCHANGED <<tempLists, mutex, dataVars, ownVars, signals>>

\* Mutant of Acquire: the lock is not waited for.
AcquireHeld(th, m) == mutex' = [mutex EXCEPT ![m] = th]

\* glibc's unlock of a normal mutex frees it whoever holds it.
Acquire(th, m) == mutex[m] = Nobody /\ mutex' = [mutex EXCEPT ![m] = th]
Unlock(m) == mutex' = [mutex EXCEPT ![m] = Nobody]

\* A step that only takes a mutex.
TakeLock(th, from, m, to) ==
    /\ At(th, from) /\ Acquire(th, m) /\ Goto(th, to)
    /\ UNCHANGED <<tempLists, dataVars, ownVars, signals>>

Insert(t, l) == tempLists' = [tempLists EXCEPT ![l] = Append(@, t)]
RemoveHead(l) == tempLists' = [tempLists EXCEPT ![l] = SubSeq(@, 2, Len(@))]

Waiting == {c \in Consumers : pc[c] = "waiting"}

\* A wakeUp under a level lock: every waiter starts its scan again, th goes on.
WakeAll(th, to) ==
    pc' = [x \in Threads |-> IF x = th THEN to ELSE IF x \in Waiting THEN "lock" ELSE pc[x]]

\* A wakeUp without a lock: a loop, each iteration of which wakes one waiter.
BeginWakeUp(th) == Goto(th, "wake") /\ signals' = [signals EXCEPT ![th] = cnt]

Signal(th, to) ==
    /\ At(th, "wake")
    /\ \/ /\ signals[th] = 0
          /\ Goto(th, to)
          /\ UNCHANGED signals
       \/ /\ signals[th] > 0
          /\ signals' = [signals EXCEPT ![th] = @ - 1]
          /\ \/ \E c \in Waiting : Goto(c, "lock")
             \/ Waiting = {} /\ UNCHANGED pc
    /\ UNCHANGED <<tempLists, mutex, dataVars, ownVars>>

Init ==
    /\ pc = [th \in Threads |->
               CASE th \in Consumers -> "lock" [] th = Manager -> "sleep"
                 [] th = Producer -> "start"   [] th = Cleaner -> "enter"]
    /\ tempLists = [l \in 0..2 |-> << >>]
    /\ mutex = [m \in 0..3 |-> Nobody]
    /\ working = 0 /\ loadDone = FALSE /\ line = 1
    /\ taskNum = [ty \in Types |-> 0]
    /\ waitTime = [ty \in Types |-> 0]
    /\ turnaroundTime = [ty \in Types |-> 0]
    /\ time = [t \in Tasks |-> 0]
    /\ allotment = [t \in Tasks |-> 0]
    /\ new = [t \in Tasks |-> FALSE]
    /\ freed = {}
    /\ hand = [c \in Consumers |-> NoTask]
    /\ level = [th \in Consumers \cup {Manager} |-> 0]
    /\ reg = [c \in Consumers |-> 0]
    /\ signals = [th \in {Manager, Producer} |-> 0]
    /\ status = "running"

-----------------------------------------------------------------------------
(* consume: choosing a task *)

Lock(c) == TakeLock(c, "lock", level[c], "look")

\* Read the head of the queue, or release the lock and go to the next level.
Look(c) ==
    /\ At(c, "look")
    /\ LET l == level[c] IN
       \/ /\ tempLists[l] # << >>
          /\ hand' = [hand EXCEPT ![c] = tempLists[l][1]]
          /\ Goto(c, "remove")
          /\ UNCHANGED <<mutex, level>>
       \/ /\ tempLists[l] = << >>
          /\ Unlock(l)
          /\ level' = [level EXCEPT ![c] = IF l = 2 THEN 0 ELSE l + 1]
          /\ Goto(c, IF l = 2 THEN "wait" ELSE "lock")
          /\ UNCHANGED hand
    /\ UNCHANGED <<tempLists, dataVars, reg, signals>>

Remove(c) ==
    /\ At(c, "remove")
    /\ RemoveHead(level[c])
    /\ Unlock(level[c])
    /\ Goto(c, "incLock")
    /\ UNCHANGED <<dataVars, ownVars, signals>>

\* pthread_cond_wait on the private mutex "local": no insertion or wakeUp is
\* excluded between the end of the scan and this step.
Wait(c) == Step(c, "wait", "waiting")

SpuriousWakeup(c) == c \in Spurious /\ Step(c, "waiting", "lock")

-----------------------------------------------------------------------------
(* consume: counting itself in and out, a load and a store of working *)

\* Mutant of CountLock: working is updated without its lock.
CountUnlocked(c, from, to) ==
    /\ At(c, from) /\ Goto(c, to)
    /\ reg' = [reg EXCEPT ![c] = working]
    /\ UNCHANGED <<tempLists, mutex, dataVars, hand, level, signals>>

CountLock(c, from, to) ==
    /\ At(c, from) /\ Acquire(c, 3) /\ Goto(c, to)
    /\ reg' = [reg EXCEPT ![c] = working]
    /\ UNCHANGED <<tempLists, dataVars, hand, level, signals>>

IncLock(c) == CountLock(c, "incLock", "inc")
DecLock(c) == CountLock(c, "decLock", "dec")

Count(c, value) ==
    /\ working' = value
    /\ Unlock(3)
    /\ reg' = [reg EXCEPT ![c] = 0]
    /\ UNCHANGED <<tempLists, taskVars, statVars, loadVars, hand, signals>>

Inc(c) ==
    /\ At(c, "inc")
    /\ Count(c, reg[c] + 1)
    /\ Goto(c, IF new[hand[c]] THEN "respond" ELSE "run")
    /\ UNCHANGED level

Dec(c) ==
    /\ At(c, "dec")
    /\ Count(c, reg[c] - 1)
    /\ Goto(c, "lock")
    /\ level' = [level EXCEPT ![c] = 0]

-----------------------------------------------------------------------------
(* consume: running the task.  The sums are updated without a lock: a load *)
(* and a store.                                                            *)

LoadSum(c, from, sum, to) ==
    /\ At(c, from) /\ Goto(c, to)
    /\ reg' = [reg EXCEPT ![c] = sum[TypeOf[hand[c]]]]
    /\ UNCHANGED <<tempLists, mutex, dataVars, hand, level, signals>>

StoreSum(c, sum) ==
    /\ sum' = [sum EXCEPT ![TypeOf[hand[c]]] = reg[c] + 1]
    /\ reg' = [reg EXCEPT ![c] = 0]
    /\ UNCHANGED <<tempLists, mutex, working, time, allotment, taskNum, loadVars, level, signals>>

Respond(c) == LoadSum(c, "respond", waitTime, "responded")

\* Mutant of Responded: the task stays new.
RespondedStaysNew(c) ==
    /\ At(c, "responded") /\ StoreSum(c, waitTime) /\ Goto(c, "run")
    /\ UNCHANGED <<new, freed, turnaroundTime, hand>>

Responded(c) ==
    /\ At(c, "responded")
    /\ new' = [new EXCEPT ![hand[c]] = FALSE]
    /\ StoreSum(c, waitTime)
    /\ Goto(c, "run")
    /\ UNCHANGED <<freed, turnaroundTime, hand>>

\* If rand() % 100 + 1 < oddsOfIO, rand() % QUANTUM of i/o, else none.
IOTimes(t) == IF OddsOfIO[t] > 1 THEN 0..(QUANTUM - 1) ELSE {0}

\* Mutant of Left: the time that is left is not looked at.
LeftOfAllotment(t, ioTime) == MIN(QUANTUM - ioTime, allotment[t])

\* What the task uses of its quantum, of its time and of its allotment.
Left(t, ioTime) == MIN(QUANTUM - ioTime, MIN(time[t], allotment[t]))

\* Mutants: a level beyond the last; an allotment refilled by every put-back;
\* an allotment never refilled.
LevelUnbounded(l, a) == IF a = 0 THEN l + 1 ELSE l
AllotmentRefilled(a) == TIME_SLICE
AllotmentKept(a) == a

\* Where an unfinished task goes, and with what allotment, when a is left of it.
LevelAfter(l, a) == IF a = 0 THEN MIN(l + 1, 2) ELSE l
AllotmentAfter(a) == IF a = 0 THEN TIME_SLICE ELSE a

Run(c) ==
    /\ At(c, "run")
    /\ LET t == hand[c] IN \E ioTime \in IOTimes(t) :
         LET left  == Left(t, ioTime)
             spare == allotment[t] - left
         IN /\ time' = [time EXCEPT ![t] = @ - left]
            /\ \/ /\ time[t] = left
                  /\ allotment' = [allotment EXCEPT ![t] = spare]
                  /\ Goto(c, "turnaround")
                  /\ UNCHANGED level
               \/ /\ time[t] # left
                  /\ allotment' = [allotment EXCEPT ![t] = AllotmentAfter(spare)]
                  /\ level' = [level EXCEPT ![c] = LevelAfter(@, spare)]
                  /\ Goto(c, "putLock")
    /\ UNCHANGED <<tempLists, mutex, working, new, freed, statVars, loadVars, hand, reg, signals>>

Turnaround(c) == LoadSum(c, "turnaround", turnaroundTime, "free")

Free(c) ==
    /\ At(c, "free")
    /\ StoreSum(c, turnaroundTime)
    /\ freed' = freed \cup {hand[c]}
    /\ hand' = [hand EXCEPT ![c] = NoTask]
    /\ Goto(c, "decLock")
    /\ UNCHANGED <<new, waitTime>>

PutLock(c) == TakeLock(c, "putLock", level[c], "put")

\* Insert the task at the tail of its level, wake every waiter, unlock.
Put(c) ==
    /\ At(c, "put")
    /\ Insert(hand[c], level[c])
    /\ WakeAll(c, "decLock")
    /\ Unlock(level[c])
    /\ hand' = [hand EXCEPT ![c] = NoTask]
    /\ UNCHANGED <<dataVars, level, reg, signals>>

Consume(c) ==
    \/ Lock(c) \/ Look(c) \/ Remove(c) \/ Wait(c)
    \/ IncLock(c) \/ Inc(c) \/ DecLock(c) \/ Dec(c)
    \/ Respond(c) \/ Responded(c) \/ Run(c) \/ Turnaround(c) \/ Free(c)
    \/ PutLock(c) \/ Put(c)

-----------------------------------------------------------------------------
(* produce *)

\* The thread is created after main has slept 500 ms: if that settles the
\* start, the cleaner is waiting, and a manager that held mutex[3] when the
\* cleaner's wait unlocked it has left its critical section.
StartProducer ==
    /\ StartupSettles => pc[Cleaner] # "enter" /\ pc[Manager] # "check"
    /\ Step(Producer, "start", "next")

\* A DELAY line wakes the consumers, without a lock, and sleeps.
ReadDelay ==
    /\ At(Producer, "next") /\ line <= Len(Lines) /\ Lines[line] = Delay
    /\ BeginWakeUp(Producer)
    /\ line' = line + 1
    /\ UNCHANGED <<tempLists, mutex, working, taskVars, statVars, loadDone, ownVars>>

ReadTask ==
    /\ At(Producer, "next") /\ line <= Len(Lines) /\ Lines[line] # Delay
    /\ LET t == Lines[line] IN
       /\ taskNum' = [taskNum EXCEPT ![TypeOf[t]] = @ + 1]
       /\ time' = [time EXCEPT ![t] = TimeOf[t]]
       /\ allotment' = [allotment EXCEPT ![t] = TIME_SLICE]
       /\ new' = [new EXCEPT ![t] = TRUE]
    /\ Goto(Producer, "lock0")
    /\ UNCHANGED <<tempLists, mutex, working, freed, waitTime, turnaroundTime, loadVars>>
    /\ UNCHANGED <<ownVars, signals>>

InsertTask ==
    /\ At(Producer, "insert")
    /\ Insert(Lines[line], 0)
    /\ WakeAll(Producer, "next")
    /\ Unlock(0)
    /\ line' = line + 1
    /\ UNCHANGED <<working, taskVars, statVars, loadDone, ownVars, signals>>

EndOfFile ==
    /\ At(Producer, "next") /\ line > Len(Lines)
    /\ loadDone' = TRUE
    /\ Goto(Producer, "done")
    /\ UNCHANGED <<tempLists, mutex, working, taskVars, statVars, line, ownVars, signals>>

Produce ==
    \/ StartProducer
    \/ ReadDelay \/ Signal(Producer, "next")
    \/ ReadTask \/ TakeLock(Producer, "lock0", 0, "insert") \/ InsertTask
    \/ EndOfFile

-----------------------------------------------------------------------------
(* manage *)

\* Every task of level l goes to the tail of level 0, in order.
LevelUp(l) ==
    tempLists' = [tempLists EXCEPT ![0] = @ \o tempLists[l], ![l] = << >>]

DrainOne ==
    /\ At(Manager, "drain1")
    /\ LevelUp(1)
    /\ Unlock(1)
    /\ Goto(Manager, "lock2")
    /\ UNCHANGED <<dataVars, ownVars, signals>>

DrainTwo ==
    /\ At(Manager, "drain2")
    /\ LevelUp(2)
    /\ mutex' = [mutex EXCEPT ![2] = Nobody, ![0] = Nobody]
    /\ Goto(Manager, "scan")
    /\ UNCHANGED <<dataVars, ownVars, signals>>

\* Mutant of Scan: the manager never wakes the consumers.
ScanOnly == Step(Manager, "scan", "lock3")

\* The unlocked test for a task: one list is read at a time.
Scan ==
    /\ At(Manager, "scan")
    /\ LET l == level[Manager] IN
       \/ /\ tempLists[l] # << >>
          /\ BeginWakeUp(Manager)
          /\ level' = [level EXCEPT ![Manager] = 0]
       \/ /\ tempLists[l] = << >>
          /\ Goto(Manager, IF l = 2 THEN "lock3" ELSE "scan")
          /\ level' = [level EXCEPT ![Manager] = IF l = 2 THEN 0 ELSE l + 1]
          /\ UNCHANGED signals
    /\ UNCHANGED <<tempLists, mutex, dataVars, hand, reg>>

\* Mutant of Drained: consumers at work are not looked at.
DrainedWhileWorking == loadDone /\ \A l \in 0..2 : tempLists[l] = << >>

\* Mutant of Drained: the lists are not looked at.
DrainedUnlisted == working = 0 /\ loadDone

\* With the working lock held and working = 0 no task can be put back, and
\* after loadDone none is loaded: the lists, read one by one, only shrink.
Drained == working = 0 /\ loadDone /\ \A l \in 0..2 : tempLists[l] = << >>

CheckDone ==
    /\ At(Manager, "check")
    /\ pc' = [pc EXCEPT ![Manager] = "sleep",
                        ![Cleaner] = IF @ = "waiting" /\ Drained THEN "relock" ELSE @]
    /\ Unlock(3)
    /\ UNCHANGED <<tempLists, dataVars, ownVars, signals>>

Manage ==
    \/ Step(Manager, "sleep", "lock0")
    \/ TakeLock(Manager, "lock0", 0, "lock1")
    \/ TakeLock(Manager, "lock1", 1, "drain1") \/ DrainOne
    \/ TakeLock(Manager, "lock2", 2, "drain2") \/ DrainTwo
    \/ Scan \/ Signal(Manager, "lock3")
    \/ TakeLock(Manager, "lock3", 3, "check") \/ CheckDone

-----------------------------------------------------------------------------
(* clean *)

\* pthread_cond_wait unlocks mutex[3], which the cleaner does not hold.
EnterWait ==
    /\ At(Cleaner, "enter")
    /\ Unlock(3)
    /\ Goto(Cleaner, "waiting")
    /\ UNCHANGED <<tempLists, dataVars, ownVars, signals>>

Clean == EnterWait \/ TakeLock(Cleaner, "relock", 3, "report")

\* Print the averages and exit(0); an average over no task divides by zero.
Report ==
    /\ At(Cleaner, "report")
    /\ status' = IF \E ty \in Types : taskNum[ty] = 0 THEN "crashed" ELSE "completed"
    /\ UNCHANGED <<pc, tempLists, mutex, dataVars, ownVars, signals>>

-----------------------------------------------------------------------------

\* While the process runs, a thread takes a step or the cleaner ends it.
Next ==
    \/ /\ status = "running"
       /\ \/ /\ \/ \E c \in Consumers : Consume(c) \/ SpuriousWakeup(c)
                \/ Produce \/ Manage \/ Clean
             /\ UNCHANGED status
          \/ Report
    \/ status # "running" /\ UNCHANGED vars

Spec == Init /\ [][Next]_vars

\* Every thread that can run again and again does: the mutexes are held for a
\* few instructions and every holder sleeps outside them.
Live(A) == status = "running" /\ A /\ UNCHANGED status
Fairness ==
    /\ \A c \in Consumers : SF_vars(Live(Consume(c)))
    /\ SF_vars(Live(Produce)) /\ SF_vars(Live(Manage)) /\ SF_vars(Live(Clean))
    /\ SF_vars(status = "running" /\ Report)

FairSpec == Spec /\ Fairness

-----------------------------------------------------------------------------
(* State functions the properties are about *)

Loaded == {Lines[i] : i \in 1..(line - 1)} \ {Delay}
Queued == UNION {Range(tempLists[l]) : l \in 0..2}

\* The head a consumer at "remove" has read is still in its queue.
Holds(c) == pc[c] # "remove" /\ hand[c] # NoTask
Held == {hand[c] : c \in {d \in Consumers : Holds(d)}}

\* Consumers that have counted themselves in and not yet out.
Counted == {c \in Consumers : pc[c] \in
              {"respond", "responded", "run", "turnaround", "free", "putLock",
               "put", "decLock", "dec"}}

-----------------------------------------------------------------------------
(* Safety *)

PcOK ==
    /\ pc \in [Threads -> ConsumerPCs \cup ManagerPCs \cup ProducerPCs \cup CleanerPCs]
    /\ \A c \in Consumers : pc[c] \in ConsumerPCs
    /\ pc[Manager] \in ManagerPCs
    /\ pc[Producer] \in ProducerPCs
    /\ pc[Cleaner] \in CleanerPCs
ListOK ==
    /\ tempLists \in [0..2 -> Seq(Tasks)]
    /\ mutex \in [0..3 -> Threads \cup {Nobody}]
DataOK ==
    /\ working \in Int /\ loadDone \in BOOLEAN /\ line \in 1..(Len(Lines) + 1)
    /\ taskNum \in [Types -> Nat]
    /\ waitTime \in [Types -> Int] /\ turnaroundTime \in [Types -> Int]
    /\ time \in [Tasks -> Nat] /\ allotment \in [Tasks -> 0..TIME_SLICE]
    /\ new \in [Tasks -> BOOLEAN] /\ freed \subseteq Tasks
OwnOK ==
    /\ hand \in [Consumers -> Tasks \cup {NoTask}]
    /\ level \in [Consumers \cup {Manager} -> 0..2]
    /\ reg \in [Consumers -> Int]
RestOK ==
    /\ signals \in [{Manager, Producer} -> Nat]
    /\ status \in {"running", "completed", "crashed"}

\* The type invariant: among others, no task has run beyond its time or its
\* allotment, and no level beyond the last is reached.
TypeOK == PcOK /\ ListOK /\ DataOK /\ OwnOK /\ RestOK

\* Every loaded task is in exactly one place: once in one queue, in the hands
\* of one consumer, or freed.  A task is never lost, never run by two
\* consumers, never queued twice and never touched after its free, whatever
\* the interleaving of consumers, the manager's drain and the producer.
Ownership ==
    /\ Loaded = Queued \cup Held \cup freed
    /\ Queued \cap Held = {} /\ Queued \cap freed = {} /\ Held \cap freed = {}
    /\ \A c, d \in Consumers : Holds(c) /\ Holds(d) /\ hand[c] = hand[d] => c = d
    /\ \A l \in 0..2 : IsInjective(tempLists[l])
    /\ \A l, m \in 0..2 : l # m => Range(tempLists[l]) \cap Range(tempLists[m]) = {}

\* working is the number of consumers between their increment and their
\* decrement: no update is lost, so the manager's working = 0 means what
\* the declaration says ("how many threads are working").
WorkingExact == working = Cardinality(Counted)

\* What a task has used of its time, and the levels it must have earned by it.
Used(t) == TimeOf[t] - time[t]
Earned(t, l) ==
    \E k \in 1..(Used(t) + 1) :
      /\ Used(t) + allotment[t] = k * TIME_SLICE
      /\ l < k

\* A task sits at a level only if it used up a whole TIME_SLICE at each of the
\* levels above it, however its use was cut into quanta and i/o, and whatever
\* the manager moved back: neither i/o nor a put-back refills its allotment.
LevelEarned ==
    /\ \A l \in 0..2 : \A t \in Range(tempLists[l]) : Earned(t, l)
    /\ \A c \in Consumers : Holds(c) => Earned(hand[c], level[c])

\* A queued task makes progress when it is run: it has some of its allotment,
\* and time to use it on (a task of length 0 only until its first run).
QueuedRunnable ==
    \A t \in Queued : /\ allotment[t] \in 1..TIME_SLICE
                      /\ time[t] > 0 \/ new[t]

\* cond_done is signalled while work is left only in the window between a
\* consumer's removal of a task and its working++: every task that is not
\* freed is then in the hands of a consumer that is not counted yet.
DoneOnlyInWindow ==
    [][ (pc[Cleaner] = "waiting" /\ pc'[Cleaner] # "waiting")
          => /\ Queued = {}
             /\ line > Len(Lines)
             /\ \A c \in Consumers : Holds(c) => pc[c] \in {"incLock", "inc"}
      ]_vars

\* "complete all tasks": when the process reports, every task was finished.
CompletesAllTasks == status = "completed" => freed = Tasks

-----------------------------------------------------------------------------
(* Liveness, under FairSpec *)

\* The process ends, although a wakeUp is lost whenever it falls between a
\* consumer's last scan and its wait.
Termination == <>(status # "running")

\* A task that is queued while every consumer sleeps is taken, as long as the
\* manager has not signalled the end: the wakeUp the producer or a consumer owed
\* it is repeated by the manager, which finds it by its unlocked tests of the
\* lists and cannot take the work for done before that task is in some hands.
StalledPoolRecovers ==
    \A t \in Tasks :
      (t \in Queued /\ Waiting = Consumers /\ pc[Cleaner] = "waiting")
        ~> \E c \in Consumers : Holds(c) /\ hand[c] = t

-----------------------------------------------------------------------------
(* Refinement *)

PoolState ==
    LET queued == Queued
        held   == Held
    IN [t \in Tasks |-> CASE t \in freed  -> "finished"
                         [] t \in held   -> "running"
                         [] t \in queued -> "ready"
                         [] OTHER        -> "unloaded"]

Pool == INSTANCE TaskPool WITH
    Capacity <- cnt,
    state <- PoolState,
    remaining <- [t \in Tasks |-> IF t \in Loaded THEN time[t] ELSE TimeOf[t]],
    open <- status = "running"

\* The scheduler implements the task pool.
PoolSpec == Pool!Spec
=============================================================================
