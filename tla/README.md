# COMP3430: formal models

TLA+ models of the concurrent programs of this repository, the TLC runs that
check them on small instances, and theorems about them that TLAPS checks for
every instance. The repository is a set of course programs in C with no shared
code; each program is a component of its own.

## Inventory

| Component | Source | State | Operations | Hard behaviour | What makes it correct |
|---|---|---|---|---|---|
| MLFQ scheduler | `A3/a3q1.c` | three task queues, four mutexes, two condition variables, `working`, `loadDone`, sums per type, the fields of each task | `produce`, `manage`, `consume` (cnt threads), `clean` | lost wakeups, a task in no list, unlocked reads and sums, a wait without its mutex | a task is in one place, is run to its end, goes down a level only after a whole slice; the process ends when all are done |
| Counting programs | `lab3/{spin-lock,atomic-lock,lock-really,official_lock}.c` | a lock word, `g_number`, a loop index per thread | `mutex_lock`, `g_number++`, `mutex_unlock` | test and set in two steps | no addition is lost |
| Printers on condition variables | `lab3/condition-vars.c` | `text`, a mutex, two condition variables | copy a line; print lower case; print upper case | waits without the mutex, text overwritten | each printer prints whole lines, none twice, and a woken one prints |
| Worker processes | `A1/a1-procs.c` | `currentThread`, `aimThread`, `buff`, `arr`, the children | `hupHandler`, `exitHandler`, the resize loop | signal handlers inside the loop, fork, wait | as many workers as configured, none left behind |
| Worker threads | `A1/a1-threads.c` | the same with `pthread`, `run` | the same, with `pthread_join` | the same, and a handler that may run in two threads at once | no thread is left behind or joined twice, `buff` is the last size configured |
| Process count | `lab1/processes.c` | `count`, `flag`, the children | fork, SIGUSR1 handshake, SIGUSR2 to the group | signals that are not queued | no signal is lost, SIGUSR2 finds every child ready, the group ends |
| Download threads | `lab1/threads.c` | `flag` | download, print | an unsynchronised flag | the printer ends after the download |
| Octopipe | `lab2/octopipe.c` | one pipe per child, open ends of each process | copy stdin to all pipes, close, wait | who holds a write end, full pipes | every child gets every line, then end of file |
| Shell | `A2/tmabsh.c` | processes, pipes, one FIFO | `execute`, `analyze`, `systemCall`, `shell` | concurrent stages of a pipeline, blocking opens | stages are connected in order, a command reads its own FIFO, a line waits for the one before, everything ends |
| exFAT reader | `A4/exfat.c` | position in a cluster, next link, path depth | `list`, `DFS`, `extract`, `info` | entry sets across clusters | every entry is read once, a file's bytes come out in order |
| exFAT check | `lab4/fsck-exfat.c` | the boot sector | `check_MBR`, `check_bitmap` | bounds, a search without an end | accepts exactly sound boot sectors, counts the right bitmap |
| ELF and PE headers | `A1/a1-elf.c`, `A1/before.c`, `lab1/pe.c` | a file position | decode and print | none | (not modelled) |

The components interact only through the operating system (`makefile`s build
one binary each). Inside the scheduler, the threads share everything: consumers
take and put back tasks under a level lock, `wakeUp` signals `cond_task` once
per consumer, the manager levels tasks up and tests for the end, and signals
`cond_done` to the cleaner, which prints and calls `exit(0)`.

`PROJECT.json` lists the hazards line by line, with the properties that cover
them and a note where none does yet.

## Modules

| Module | Role |
|---|---|
| `MLFQ` | the scheduler: state, one action per step of each thread, properties |
| `TaskPool` | what the scheduler promises about tasks, with no queue, lock or thread |
| `MLFQStats` | `MLFQ` with a history variable, `raced`: the types of which two consumers met at one sum |
| `MCMLFQ`, `MCMLFQStats` | instances of `MLFQ` for TLC, without and with that history |
| `MLFQProofs` | theorems about `MLFQ`: its types, and where its tasks are |
| `MLFQPoolProofs` | theorems about `MLFQ`: levels, statistics, `working`, the end, the refinement of `TaskPool` |
| `CounterLock` | the four counting programs, the kind of lock being a variable |
| `MCCounterLock` | instances of `CounterLock` |
| `CounterLockProofs` | theorems about `CounterLock` |
| `WorkerPool` | the pool of worker processes, its signal handlers and its workers |
| `MCWorkerPool` | instances of `WorkerPool` |
| `WorkerPoolProofs` | theorems about `WorkerPool` |
| `ExFatVolume` | an exFAT volume, and what `list` and `get` owe: the tree and the file, defined on whole chains |
| `WorkerThreads` | the pool of worker threads, its signals and its workers |
| `MCWorkerThreads` | instance of `WorkerThreads` |
| `WorkerThreadsProofs` | theorem about `WorkerThreads` |
| `OctoPipe` | octopipe: who holds which end of which pipe |
| `ForkCount` | the process count |
| `ConditionPrinters` | the printers on condition variables |
| `MCLabs` | instances of the last three, side by side |
| `LabsProofs` | theorems about the same three, for any constants of `MCLabs` |
| `Shell` | the processes, pipes and FIFOs of the lines of a script |
| `MCShell` | scripts for `Shell` |
| `ShellProofs` | theorems about `Shell` |
| `ExFat` | the exFAT reader, entry by entry |
| `MCExFat` | volumes for `ExFat`: short directories over fragmented chains |
| `ExFatCheck` | the exFAT check, in arithmetic modulo `WORD` |
| `MCExFatPrograms` | instances of `ExFat` and `ExFatCheck`, side by side |
| `ExFatProofs` | theorems about the same two, for any constants of `MCExFatPrograms` |

### MLFQ

`pc` says where each thread is; `hand`, `level` and `reg` are the locals `t`
and `level` and the register of a load; the other variables are the globals of
the same names, except `line` (position of the producer in the file), `signals`
(signals left in a `wakeUp` made without a lock), `freed` and `status` (of the
process).

| Code | Actions |
|---|---|
| `consume`, choosing (204-240) | `Lock`, `Look`, `Remove`, `Wait`, `SpuriousWakeup` |
| `consume`, counting (242-244, 302-304) | `IncLock`, `Inc`, `DecLock`, `Dec` |
| `consume`, running (246-299) | `Respond`, `Responded`, `Run`, `Turnaround`, `Free`, `PutLock`, `Put` |
| `produce` | `StartProducer`, `ReadDelay`, `ReadTask`, `InsertTask`, `EndOfFile`, `Signal` |
| `manage` | `DrainOne`, `DrainTwo`, `Scan`, `Signal`, `CheckDone` and the steps that take the locks |
| `clean` | `EnterWait`, the relock, `Report` |

Grain. Taking a mutex is a step. A critical section whose data is protected by
the mutexes held is one step, except that reading a queue's head and removing
it are two. Words that other threads access without the lock (the manager's
emptiness tests, the sums, `working`) are read and written in steps of their
own. `Run` is one step because only the holder of a task touches its fields.
`Drained` is one step because, with the working lock held and `working = 0`,
no list can grow while they are read one by one. The sleeps of the code are
absent: a thread may stay anywhere for any time.

Abstractions. A task is a model value, with its type, time and i/o odds as
functions. The file is a sequence of tasks and DELAY lines; reading an empty
line changes nothing and is left out. Each contribution to a sum of clock times
is one unit, so that a lost one shows. `rand()` is a choice.

The sums lose additions when two consumers are between the load and the store of
one sum. `MLFQStats` adds a variable to the specification that records the types
this happened to (`raced`) and that no action of `MLFQ` reads; `LostOnlyInRace`
says that the sums of every other type are exact. `Responses` and `Ends` are the
contributions they are compared with.

The 500 ms that `main` sleeps before it creates the producer are a guard
(`StartupSettles`): with it the cleaner waits before the first task exists.
Without it the cleaner's `pthread_cond_wait`, which does not hold `mutex[3]`,
may unlock that mutex under a consumer. `mlfq_refines` runs without it.

### CounterLock

`Enter` is the loop's test, `SpinTest` and `SpinSet` the two halves of the
`mutex_lock` of `spin-lock.c` and `atomic-lock.c`, `TestAndSet` the lock of the
two others, `Load` and `Store` the two halves of `g_number++`, `Unlock` the
release with the loop's `++i`. The makefile builds without optimisation, so a
plain `bool` is read in every iteration, as an atomic one is.

### WorkerPool

The parent's `pc` follows `main` of `A1/a1-procs.c` statement by statement: each
test reads `buff` anew, and `Fork`, `Store` and `Count` are the three steps in
which a worker comes to be counted. `HupHandler` may run between any two steps
and returns the parent from `pause` only if it is there. `CatchInt` starts
`exitHandler`, which never returns to the loop. A signal is sent (`pending`) and
caught later. A worker is `starting` until it has replaced the inherited handler
and `working` afterwards; `KillSiblings` is the inherited handler, run on the
worker's own copy of `arr`, and is one step because the signals it sends are
caught later anyhow. `wait(NULL)` reaps any worker that ended. A failed fork is
-1, and `kill` of -1 reaches everybody. A pid is not used twice. What is
undefined in the code, the read of `arr[-1]` after a SIGHUP with a negative size
between lines 123 and 129, ends a behaviour (`KillOutside`).

### ExFat

A call of `list` or `DFS` is a record of `stack` with the locals of the same
names; `copy` holds those of `extract`. `Enter` is the start of a call,
`ReadFile`, `ReadStream` and `ReadName` read an entry and `Advance`, which
stands for the nine copies of the switch to the next cluster; `ListSet` and
`FindSet` are what the two functions do with an entry set, `Loop` the test of
the `do`-`while`. The text of a line is its dashes, its kind and its name;
`dashes` are those of a line that nothing ended. Distances are counted in
entries of 32 bytes and in units of file data. The properties compare the end
of a command with `Tree` and `Sought` of `ExFatVolume`, which know whole chains
and no position.

The volumes considered are described by assumptions on the constant `Volumes`.
`DirectoriesAssumption`: in the root and every directory below it the chain of
clusters ends, and a file entry has its stream and its names behind it before
the chain does. On any other volume the code reads fields of an entry of
another kind, or link 0 of a free cluster. `TreeAssumption`: no directory is
below itself; the code would go round for ever. `FilesAssumption`: the chain of a
file is as long as its data. `PlainAssumption` (of `MCExFatPrograms`, for `list`):
below the root every entry set is of a directory (attribute 0x10) or a file
(0x20); what `list` prints if not is the run `exfat_mixed`, whose volumes are
those of `MCExFat` without it.

### WorkerThreads

The loop is that of `WorkerPool`; `RaiseFlag`, `Create` and `Count` are the
three steps in which a thread comes to be counted, `Stop` (which lowers the
flag), `JoinLast` and `Count` those in which one goes. `thread` is what
`pthread[n]` names. Linux gives a signal to the main thread unless it has it
blocked, so SIGHUP runs in `main`, and in a worker only while `main` is in
`hupHandler` itself: `hup` is where each thread is in it, `str` what it has read
there. SIGINT puts `exitHandler` on top of whatever `main` was doing (`resume`),
`hupHandler` included (`below`). A join of a thread that never started, or that
was joined, or that is being joined by the code SIGINT has interrupted, is
undefined: it returns or crashes (`Undefined`). A worker's sleep is left out.

### OctoPipe, ForkCount, ConditionPrinters

`OctoPipe`: `holds` is the set of (process, pipe, end) that are open, so that end
of file and SIGPIPE are what they are in Unix: nobody holds the write end, or
the read end. `Round` is one turn of a loop over the pipes; `OpenPipe`, `Fork`,
`CloseRead`, `Write`, `CloseWrite` and `Wait` are the loops of the parent in
their order, `CloseEnds` the loop of a child. A command reads to its end, ends
when it likes, or idles. A line (at most 1023 bytes) is written whole; the
capacity of a pipe is counted in lines.

`ForkCount`: `usr1` is one bit, as a pending signal is. `kill` of the own group
delivers SIGUSR2 to the parent before it returns, so `Broadcast` goes on in
`parentHandler`.

`ConditionPrinters`: `text` is copied and read character by character, by
whoever believes to have the mutex; `Wait` is `pthread_cond_wait` without the
mutex, which unlocks it for whoever has it and notes so in `stolen`.

These three are checked in one run, as are `ExFat` and `ExFatCheck`: the variable
`program` says which of them a behaviour is of, and the variables of the others
keep their initial values. The programs do not interact, and neither do the
actions. What their instances need is a constant of the MC module (`Totals`,
`PRINT_LINES` and `PRINT_LENGTH`; `WORD`, `Headers` and `Disks`) with an
assumption of its own, so that the theorems about them are not about the
instances that TLC is given.

### Shell

A process is a triple of its line, its stage and its role: `call` is the process
that `shell` forks for a line and waits for, `head` the one `analyze` forks
before a `|`, `cmd` the command that `execute` forks, `sub` the substituted
command. `in`, `out` and `spare` (both ends of the newest pipe) are its
descriptors. `Split` is `pipe` and `fork`, `RewireCall` and `RewireHead` what the
two sides do with their copies of the ends, `Execute` and `Return` the fork of a
command and the wait for it; `Unlink`, `Mkfifo`, `Open`, `Exec`, `ExecFails` are
`execute` in the child. All FIFOs have one name: `name` is the FIFO it stands
for, `opens` the one a process has opened or waits to open.

### ExFatCheck

`Checks` is the sequence of tests of `check_MBR` as the code computes them,
`Wrap` its 32 bit arithmetic; `CheckMbr` stops at the first test that fails.
`NextEntry` is the search, which reads a slot of the disk or, at the end of the
file, nothing; `CountByte` and `Compare` are the count. A field compared with
one value is that value or another. What `e` and `tmp` hold at first is a choice.
`RightAnswer` says what the answer should be with a set, the bits that the
bytes of the first bitmap set (`BitsSet`), and no counter.

## Runs

| Run | Shows | Distinct states |
|---|---|---|
| `mlfq_safety` | types, `Ownership`, `WorkingExact`, `LevelEarned`, `QueuedRunnable`, `LostOnlyInRace`, `DoneOnlyInWindow` | 623 987 |
| `mlfq_live` | `Termination`, `StalledPoolRecovers` under `FairSpec` | 39 246 |
| `mlfq_refines` | `MLFQ` implements `TaskPool` | 340 730 |
| `mlfq_early_exit` | `CompletesAllTasks` fails | |
| `counter_all` | `NothingLost`, `NeverTooMany`, `Termination` with three threads | 89 364 |
| `workers_all` | `NoStray`, `IdlePool`, `OrphanOnlyForked`, `Settles`, `HupApplied` | 132 231 |
| `workers_starting` | `PoolAsConfigured` fails | |
| `threads_all` | `CleanExit`, `Settles`, `LastSizeKept` | 90 537 |
| `labs_all` | `SameLines`, `EndAfterLastLine`, `OctoSettles`; `NoSignalLost`, `AllReady`, `AllEnd`; `WholeLines`, `NeverTwice`, `WokenPrints` | 87 682 |
| `shell_all` | `Wired`, `FedByOwn`, `NextAfterLast`, `Settles` | 3 984 |
| `exfat_all` | `ReadsInsideChain`, `ListsTheTree`, `ExtractsTheFile`, `Terminates`; `AcceptsExactly`, `CountsTheBitmap` | 85 848 |
| `exfat_mixed` | `ListsTheTree` fails with a read-only or hidden file in a subdirectory | |

Bounds. Two consumers are enough for every pairwise race; they are
interchangeable, so the runs of safety properties use their symmetry. With `QUANTUM` and
`TIME_SLICE` both 2 and i/o of 0 or 1, a task of length 7 goes down both levels,
uses up a slice at the last one, and is cut by i/o; the other task finishes in
its first quantum and keeps the second consumer busy. Both tasks are of one type,
so that the two consumers meet at the sums (and some behaviours lose an addition);
the task file of `mlfq_refines` has two types. The DELAY line makes the
producer wake consumers without a lock, and both consumers may wake spuriously.
`mlfq_live` has one task of length 3 (put back twice, once after a level-down)
for two consumers: the loss of the only wakeup is a behaviour of that instance.
`StalledPoolRecovers` names the task and who takes it, and does not follow from
`Termination`: a manager that signals the end without a look at the lists ends
the process and leaves the task (the mutant of `Drained`). It has no excuse for
an early end, because a task in a queue keeps the manager from signalling it.
`mlfq_refines` has a task of length 0 and one that goes down a level. Three
counting threads make two additions each: a thread can overtake another by a
whole iteration. `workers_all` has sizes -1, 0, 2 and 3: with three workers a
starting one has two siblings to kill, and two SIGHUPs let the pool shrink and
grow again before SIGINT. The pids (`MaxPid`) do not run out. The parent really
stops, in `pause`, after its exit, or in a wait that nothing ends, so deadlock
is not checked there, nor in `threads_all`, `labs_all` and `shell_all`, whose
programs stop too: `Settles`, `AllEnd` and `OctoSettles` say which stops are
possible. In `workers_all` that is, in every behaviour in which the parent has
not killed the -1 of a failed fork, only the pause, the exit and the read of
`arr[-1]`; the run has behaviours with failed forks and without.
The volumes of `exfat_all` have clusters of three slots, and
every directory of up to three entry sets (of three or four slots, a long name)
and other entries (one slot): every slot of a set is the last of a cluster in
some volume, and directories end with an end entry or with their last cluster.
Files have no data, part of a cluster, a whole one, or more than one. Chains run
down the disk or jump, so that the next cluster is never the one that follows.
The words of `ExFatCheck` have 6 bits: the boot sectors have numbers on both
sides of every bound and of every wrap, and `bytes_per_sector_shift` is at most
20, above which the code's own shift is undefined. The disks have a bitmap entry
first, later, twice, cut short, longer than an `int` says, or not at all.

`threads_all` has sizes -1 to 2, two SIGHUPs and one SIGINT: the second SIGHUP
is what a worker may catch while `main` is in the handler of the first. A second
SIGINT would find `main` in `exitHandler`, with SIGINT blocked.
`labs_all`: three children of octopipe with every mix of commands, two lines and
pipes of one line, so that a full pipe delays a sibling and a child is a line
behind; forks that fail. Four children to be counted, none, or a negative
number. Two lines of two characters, so that half of one and half of the other
can meet; each printer may wake once without a signal. `shell_all` has nine
scripts of up to three lines: pipelines of one to three stages, substitutions
that fit, that collide within a line and across lines, and whose command fails,
redirections, an empty stage, a `|` at the end, `cd` and `quit`.

Fairness. `FairSpec` asks strong fairness of each thread: every holder of a
mutex sleeps outside it for far longer than it holds it (50 ms of work against
a list operation, a whole period of the manager), so a thread that asks again
and again gets the lock. No fairness is asked of spurious wakeups. In
`CounterLock` each thread is weakly fair, which only says that it is scheduled. In `WorkerPool` each process
is weakly fair, which includes that it catches the signals sent to it; nothing
is asked of the users, and the same holds of `WorkerThreads` (each thread, and
the delivery of what was sent), `ForkCount`, `OctoPipe` and `Shell` (each
process; that a command which may end does end is part of it, and the idle
commands of octopipe do nothing at all). In `ConditionPrinters` the threads are
strongly fair: each holds the mutex for a few instructions, and who waits for it
gets it; spurious wakeups are not fair. `ExFat` and `ExFatCheck` are sequential
processes and weakly fair as a whole.

## Disagreements with the code's own words

- `CompletesAllTasks`: a consumer removes the task at `A3/a3q1.c:209` and
  counts itself in at line 243. In between no list holds it and `working` is 0,
  so the manager signals `cond_done` ("complete all tasks", line 35) and the
  process exits with the task unfinished. `DoneOnlyInWindow` shows that this
  window is the only one.
- `PoolAsConfigured`: a worker killed before `A1/a1-procs.c:138` runs the
  parent's `exitHandler` and kills the workers before it, which the pool goes on
  counting, against the purpose stated at line 12. `IdlePool` shows that a pool
  is never too large, `NoStray` that it loses no living worker.
- `ListsTheTree` with entries that are neither plain directories nor plain files:
  `list` prints the dashes of the level before it looks at the attribute
  (`A4/exfat.c:325`), so such an entry leaves them in front of the next line.
  `A4/README.md:59` shows one dash for each level. In the root the level is 0,
  and `exfat_all` has such entries there.

Facts of the code that the models have and that are no disagreement with a
statement of the repository: contributions to the sums of `A3/a3q1.c:253` are lost
(`LostOnlyInRace` shows that only the race of two consumers for one sum loses
some, and that none is invented); the total of
`lab3/spin-lock.c` and `atomic-lock.c` may be less than the product announced
(`NeverTooMany` shows it is not more); the bound of
`lab4/fsck-exfat.c:154` subtracts FatLength where the exFAT specification
subtracts FatOffset, and a heap offset below FatLength wraps and is accepted
(`NoWrap` in `AcceptsExactly`); a worker thread may write the older size last
(`overlapped` in `LastSizeKept`); two substitutions may meet at one FIFO name
and wait for ever (`Tidy` in `Shell`). The conditions `NoWrap`, `overlapped` and
`Tidy` are necessary: TLC finds the property violated without them.

## Theorems

Each theorem is about the specification that the runs check, for every value of
the constants that satisfies the assumptions of its modules; TLC evaluates those
assumptions on every instance. Every property that a passing run checks as an
invariant is proved, and so are the refinement of `TaskPool` and the safety half
of `CountsTheBitmap`; what is not is at the end of this section.

### The scheduler

`MLFQProofs`: `TypeCorrect`, for any consumers, tasks, file, quantum and slice.
`TypeOK` is not inductive: that `hand[c]` is a task when it is used needs
`HandInv` (a consumer holds a task exactly between the read of a head and the
free or the insertion), and that the producer inserts a task needs `LineInv`.
`TypeInv` is the conjunction; there is one lemma per thread, with one step per
action.

`TasksOwned`, that is `Ownership`, is inductive only together with `SectInv`: a
thread inside a section of a level owns that level's mutex (`LockInv`), so the
head a consumer has read is still the head when it removes it (`HeadInv`). Given
that, the proof says what each list operation does to the set of the elements
(`AppendPlaces`, `TailPlaces`, `ConcatPlaces`: one element more, one less, the
union, and no duplicates) and which of queue, hand and `freed` a step moves a
task between; `OwnKept` disposes of the steps that move none. The producer's
insertion needs that the lines are distinct tasks (`LinesAssumption`).

`MLFQPoolProofs`, the feedback: `LevelsEarned` and `QueuedMakeProgress`.
`LevelEarned` speaks of queues and hands, and a task's fields change while
somebody holds it; `FeedInv` follows it on that way: what is queued has earned
its level and can run (`QueueInv`), what a consumer holds has earned the level
it came from and, from the end of its quantum to its insertion, has an allotment
again (`HeldOK`), and what the producer inserts is as it was loaded (`FreshInv`).
A step writes the fields of the task in hand only, so every other task keeps
what it has earned; that nobody else has that task is `Ownership`, which is why
`PoolInv` carries both.

The statistics: `StatsBounded` and `LossesAreRaces`. `StatsStep` says what a step
of any thread does to them: nothing, a load, or a store of the loaded value plus
one for a contribution not counted before. From that alone, `SumInv` bounds the sums and the values that
consumers have loaded by the number of the tasks that had their response (or
were freed). Both sides matter: a store of an old value lowers the sum, and the
bound of what was loaded says that it does not raise it. `ExactInv` is about
`StatsSpec`: for a type that was not raced for, what a consumer has loaded is
still the sum, because nobody else is at that sum, so its store makes the sum the
number of the contributions again.

The count of the working consumers: `WorkingCounted` and `DoneWindow`, under the
hypothesis `StartupSettles`, that is with the 500 ms of `main` as a guard. It is
needed: without it the cleaner's wait unlocks the working lock under a consumer.
`WorkInv` says that the cleaner is past that before any task exists (`StartInv`,
`SettleInv`), that who adds to `working` or tests it has its lock
(`WorkLockInv`), and that what was loaded is still the value (`LoadedInv`); the
value is the number of the consumers in `Counted`, a finite set that each step
leaves alone, extends by one or reduces by one. `DoneWindow` follows one step at
a time: when `Drained` holds, no queue has a task, `working = 0` means that
nobody is in `Counted`, and `Ownership` leaves the consumers in between.

The refinement: `ImplementsPool`, with and without `StartupSettles`. The initial
states correspond, and a step is a `Load`, `Start`, `Work`, `Preempt`, `Finish`
or `Close` of `TaskPool` or a stutter. `Start` needs that there is a free CPU
(consumers hold distinct tasks, and there are `cnt`), `Work`, `Preempt` and
`Finish` what `FeedInv` says of the time left, and `Close` that the whole file has
been loaded (`EndInv`).

### Counting programs

`CounterLockProofs`: `ExactCount`, `NoInvention` and `ResultUnderAtomicLock`,
for any number of threads and iterations. The invariant adds to the types that
a thread past the loop's test has an addition to make (`IndexInv`), that an
atomic lock is held by the one thread in its critical section whose loaded value
is current (`LockInv`), and that a stale load never exceeds the additions made
(`LoadInv`). The only assumption is `CountAssumption`.

### Worker processes and worker threads

`WorkerPoolProofs`: `TypeCorrect`, `NoWorkerLost`, `FewOrphans` and `NoSurplus`,
for any sizes, places of `arr` that suffice for them, and numbers of forks and
signals. `RangeInv` says that a store never goes beyond `arr` and that the count
down ends at 0. Living workers only become fewer, but by `Fork`
(`WorkersShrink`), so `NoStray` can only break where the pool counts: `StoreInv`
(what fork returned is in `arr` when it is counted) and `DeadInv` (the place
given up was killed) say that it does not. `ExitInv` says that the places
`exitHandler` has passed were killed; at its end these are all, which with
`NoStray` gives `FewOrphans`. `NoSurplus` adds `TargetInv`, that outside of a
resize the pool has its target; every living worker is then in one of
`currentThread` places, and a set that so many places cover is no larger
(`FewPlaces`).

`WorkerThreadsProofs`: `ExitsClean`, for any sizes, any number of SIGHUPs and
SIGINT at any point of `main`. `PlaceInv` says which places of `pthread` may hold
what, with the one place that a resize is filling or leaving as the exception;
`AimInv` where in a resize `main` can be, `ExitInv` what `exitHandler` has joined.
All three speak of where SIGINT found `main` (`At`), not only of where it is. An
undefined join ends the invariant and needs a reason (`Crash`).

### octopipe, the process count and the printers

`LabsProofs` is about the three programs of `MCLabs`, each by its own
specification. octopipe: `TypeCorrect`, `LinesSame` and `WholeInput`, for any
number of children and lines, any capacity and whatever the commands do.
`LinesSame` is nearly inductive by itself: `LoopInv` adds that the loop of `Write`
begins at the first pipe, with a line that was read; `ReadMoves` and
`WriteExtends` say what a read and a write do to the sequence of lines.
`WholeInput` needs that sequence and `WriterInv`: until the last loop the parent
holds every write end, and in it those it has not passed, so a child that finds
its pipe empty and unheld does so after the last line. `ForkInv` says that a
child exists, and closes ends, only after its fork. The assumption is
`OctoAssumption`.

The process count: `SignalsCounted` and `HandlersSet`, for any number asked for.
A pending SIGUSR1 is one bit, so two must never be under way. `TallyInv` says
why: the children before the one being forked have all reported (`StageInv`), and
the signal of that one is in exactly one of three states, `Silent`, `Underway` or
`Counted` (`CountInv`).

The printers: `LinesWhole` and `PrintedOnce`, for any number and length of lines.
`PrintedOnce` holds whoever unlocks whose mutex, and rests on counting only
(`TurnInv`): a printer that is awake uses up a signal that was sent, a signal that
is to be sent a line that was read or printed, and a spurious wakeup is the one
thing not paid for. `LinesWhole` is about the time before any mutex was unlocked
for another thread: until then who copies or prints has the mutex (`MutexInv`),
the text is one line, or the beginning of one while it is copied (`TextInv`), and
a page is the beginning of the text (`PageInv`). The assumption is
`LabsAssumption`.

### Shell

`ShellProofs`: `LastFirst`, `PipesWired` and `OwnFed`, for any scripts of
`ScriptsAssumption` (a pipeline has a stage). `LinesInv`: the process of a line
executes only the last stage, whose command runs only while it is waited for
(`CallInv`), and nothing of a line exists before the shell starts it (`LineInv`).
`WireInv` says process by process which ends each of them holds at each point,
the spare pair of a `|` included; `Wired` needs it of all processes, for the
writers of a pipe are whoever holds a copy. `OwnInv` is about tidy scripts: it
follows a command and its substituted command from the `mkfifo` to both opens and
says what the one name stands for meanwhile. At most one line opens its FIFO at a
time: the command with the substitution is the one that its line waits for
(`CallInv`), and when it ends both sides have opened.

### exFAT

`ExFatProofs`: `BootSectorsJudged`, for any width of a word and any boot sectors
of the types of the code. `PassesIfSound` compares the tests of `check_MBR`,
modulo `WORD`, with `Sound`, in integers: under `NoWrap` the
subtraction of the FAT's length is the integer one, and a quotient fits where its
product does (`Quotient`, `Fitting`, `Wrapped`). A solver computes a power of two
only of a number, hence the 21 cases of `Shifts`; above 20 the shift of the code
itself is undefined. `PassesHasClusters` is without `NoWrap`.

`DirectoriesWalked`, for any sizes of a cluster, and any volumes with sound
directories, for both commands. `WalkInv` ties each call to a slot number `n` of
its directory seen as one sequence: `HasRead` says which cluster and position are that slot, that
`tmp` is the link of the cluster, and that a position at the end of a cluster
means that there is no further one; `PhaseOK` that the call is in the middle of an
entry set that starts at an earlier slot. A sound set ends inside the chain, so
while a set is being read there is a next slot. Two facts need induction, over
the length of a chain: that the function by which `Chain` is defined exists
(`RunExists`), and that its values are linked through the FAT (`ChainLinked`). The
theorem of the library for induction on a property cannot be used, so they are
by set induction: the set of the numbers for which they fail has no least element
(`SetInduction`, from `NatLessThanWellFounded` and `WFMin`).

`FileExtracted`, that is `ExtractsTheFile`: a file at a path is defined by trails,
functions that name a directory for each part of the path. `GetInv` keeps, with
the ghosts of the walk, that the directories of the calls are such a trail
(`OnTrail`) and, until the file is found, that if there is one then some call has
still to come to the set that leads to it (`ToCome`); once the search is over, either the
file is written or there is none (`SoFar`). `NamesLeft` and the names read so far
being those of the set makes the comparison in `IsStep` and `IsFile` one of whole
names. The copy is `CopyOf`: the units written are the first ones of the data,
and `copy` stands at the next one, in the cluster of the chain that has it. This
is where `FilesAssumption` is needed.

`TreeListed`, that is `ListsTheTree`: what is owed is defined by recursion over
the height of a directory, while the code calls itself from level to level. The
invariant `ListInv` has one more ghost for each call, `base[k]`, the lines that
were printed when the k-th call was made. A call has printed, after its base,
the lines of the slots it has dealt with (`Owed`), and the base of the call it
made, with all the lines of that subdirectory (`Whole`) behind, is what its own
slots come to (`Based`); so when a call returns, its lines are those its caller
had counted already. `OnLevels` says that the k-th call is in a directory of
level k - 1, which with `TreeAssumption` bounds the stack by the number of
clusters. The recursive functions of the definition are shown to exist, for any
depth and any length, by the same set induction (`LayersExist`, `ListsExist`,
`HeapsExist`): a recursive function is a `CHOOSE`, and without that nothing is
known of its values.

`BitmapCounted`, that is `RightAnswer`: `CountInv` says that no bitmap entry lies
among the slots read while the search goes on, whatever `e` held at first, so that
the entry it ends with is the first one (`FirstBitmap`), and that `cnt` is the
cardinality of the bits set in the bytes counted; a byte more adds the bits it
has (`OneByteMore`). A length below 2^31 is the `int` the loop takes it for
(`ShortLength`); a longer one is left out by `Whole`. That the search ends is
not part of it.

### Left to TLC

- Liveness and what rests on fairness: `Termination`, `StalledPoolRecovers`,
  `Settles`, `HupApplied`, `LastSizeKept`, `OctoSettles`, `AllEnd`, `WokenPrints`,
  `Terminates`, `CountsTheBitmap` (that the answer comes; that it is right is
  `BitmapCounted`), each under the fairness given above.
- The runs that expect a violation: a counterexample is what they show.

## Not modelled

Components: the decoders of ELF and PE headers (`A1/a1-elf.c`, `A1/before.c`,
`lab1/pe.c`) read fields at positions of a file and print them, with no state that
a later step depends on; `lab1/threads.c` is libcurl and a flag that one thread
sets and the other polls; the makefiles, notes, sample inputs and binaries.

Everywhere: the text syntax of task files, scripts and configuration, clock
values, what is printed but for the lines the properties are about.

- `MLFQ`: the division by zero of `A3/a3q1.c:322` when a type has no task is an
  outcome of `Report` (`crashed`) and not a property. Spurious returns of the
  cleaner's wait.
- `WorkerPool`, `WorkerThreads`: deadlocks of `stdio` inside signal handlers, the
  reuse of pids, what lies before `arr` and `run`.
- `OctoPipe`: writes cut short by a signal. `ForkCount`: signals from outside.
- `ConditionPrinters`: what main does after the last line. It does not test what
  `fgets` returns (line 97) and would go on with what `input` holds; in the model
  standard input stays open.
- `Shell`: the splitting of a line into stages (`trim`, `split`,
  `removeBrackets`), the row that `readFile` adds after a final newline (its
  content is not initialised), the capacity of pipes (a reader's end is what
  stops a writer), redirections to files that cannot be opened, forks that fail.
- `ExFat`: `info`; files without a FAT chain; offsets beyond 2 GiB; names that are
  not ASCII.
- `ExFatCheck`: shifts above 20; where on the disk a seek lands.
