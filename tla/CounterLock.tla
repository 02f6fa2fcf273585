----------------------------- MODULE CounterLock -----------------------------
(***************************************************************************)
(* The four counting programs of src/lab3: THREAD_NUM threads each add 1   *)
(* to g_number MAX_COUNT times, under a lock of one of four kinds.  The    *)
(* lock word of spin-lock.c and atomic-lock.c is read in the loop's        *)
(* condition and then written: two steps, atomic_bool or not.  That of     *)
(* lock-really.c is an atomic test-and-set; official_lock.c uses pthreads' *)
(* mutex.  g_number++ is a load and a store in every one of them.          *)
(***************************************************************************)
EXTENDS Integers, FiniteSets

CONSTANTS Threads, MAX_COUNT,
          Kinds   \* the programs considered

AtomicKinds == {"lock-really", "official_lock"}
RacyKinds == {"spin-lock", "atomic-lock"}
AllKinds == AtomicKinds \cup RacyKinds

ASSUME CountAssumption ==
    /\ IsFiniteSet(Threads)
    /\ MAX_COUNT \in Nat
    /\ Kinds \subseteq AllKinds

VARIABLES
    kind,       \* the program that runs
    pc,
    lock,       \* the lock word
    g_number,
    reg,        \* what a thread has loaded of g_number
    i           \* the loop index of each thread

vars == <<kind, pc, lock, g_number, reg, i>>

Init ==
    /\ kind \in Kinds
    /\ pc = [t \in Threads |-> "loop"]
    /\ lock = FALSE /\ g_number = 0
    /\ reg = [t \in Threads |-> 0] /\ i = [t \in Threads |-> 0]

Goto(t, from, to) == pc[t] = from /\ pc' = [pc EXCEPT ![t] = to]

Enter(t) ==
    /\ i[t] < MAX_COUNT
    /\ Goto(t, "loop", "lock")
    /\ UNCHANGED <<kind, lock, g_number, reg, i>>

\* while (*ptr) {}: the loop ends when the word is read as false.
SpinTest(t) ==
    /\ kind \in RacyKinds
    /\ ~ lock
    /\ Goto(t, "lock", "set")
    /\ UNCHANGED <<kind, lock, g_number, reg, i>>

\* *ptr = true
SpinSet(t) ==
    /\ Goto(t, "set", "load")
    /\ lock' = TRUE
    /\ UNCHANGED <<kind, g_number, reg, i>>

\* Mutant of TestAndSet: the word is written whatever it was.
SetOnly(t) ==
    /\ kind \in AtomicKinds
    /\ Goto(t, "lock", "load")
    /\ lock' = TRUE
    /\ UNCHANGED <<kind, g_number, reg, i>>

\* atomic_flag_test_and_set returned false, or pthread_mutex_lock returned.
TestAndSet(t) ==
    /\ kind \in AtomicKinds
    /\ ~ lock
    /\ Goto(t, "lock", "load")
    /\ lock' = TRUE
    /\ UNCHANGED <<kind, g_number, reg, i>>

Load(t) ==
    /\ Goto(t, "load", "store")
    /\ reg' = [reg EXCEPT ![t] = g_number]
    /\ UNCHANGED <<kind, lock, g_number, i>>

Store(t) ==
    /\ Goto(t, "store", "unlock")
    /\ g_number' = reg[t] + 1
    /\ UNCHANGED <<kind, lock, reg, i>>

\* Mutant of Unlock: the lock is kept.
KeepLock(t) ==
    /\ Goto(t, "unlock", "loop")
    /\ i' = [i EXCEPT ![t] = @ + 1]
    /\ UNCHANGED <<kind, lock, g_number, reg>>

\* Mutant of Unlock: the iteration is not counted.
KeepIndex(t) ==
    /\ Goto(t, "unlock", "loop")
    /\ lock' = FALSE
    /\ UNCHANGED <<kind, g_number, reg, i>>

Unlock(t) ==
    /\ Goto(t, "unlock", "loop")
    /\ lock' = FALSE
    /\ i' = [i EXCEPT ![t] = @ + 1]
    /\ UNCHANGED <<kind, g_number, reg>>

Count(t) ==
    \/ Enter(t) \/ SpinTest(t) \/ SpinSet(t) \/ TestAndSet(t)
    \/ Load(t) \/ Store(t) \/ Unlock(t)

AllDone == \A t \in Threads : pc[t] = "loop" /\ i[t] = MAX_COUNT

\* main joins the threads and prints g_number.
Next == (\E t \in Threads : Count(t)) \/ (AllDone /\ UNCHANGED vars)

Spec == Init /\ [][Next]_vars

\* Every thread is scheduled; the lock itself is not fair.
FairSpec == Spec /\ \A t \in Threads : WF_vars(Count(t))

-----------------------------------------------------------------------------

PCs == {"loop", "lock", "set", "load", "store", "unlock"}
Critical == {"load", "store", "unlock"}

\* The type invariant.
TypeOK ==
    /\ kind \in Kinds
    /\ pc \in [Threads -> PCs]
    /\ lock \in BOOLEAN
    /\ g_number \in Nat
    /\ reg \in [Threads -> Nat]
    /\ i \in [Threads -> 0..MAX_COUNT]

\* The additions made so far: thread t has made its k-th.
Made(t, k) == k <= i[t] \/ (k = i[t] + 1 /\ pc[t] = "unlock")
Additions == {a \in Threads \X (1..MAX_COUNT) : Made(a[1], a[2])}

\* With an atomic lock the total is exact at every moment: no thread's load
\* and store of g_number enclose another's store.
NothingLost == kind \in AtomicKinds => g_number = Cardinality(Additions)

\* With any lock at all g_number is at most the number of additions made: what
\* a race does to it is to lose some.
NeverTooMany == g_number <= Cardinality(Additions)

\* "The result should be MAX_COUNT * THREAD_NUM": what main prints is the
\* product, after every interleaving of the threads.
ResultAsPrinted == AllDone => g_number = MAX_COUNT * Cardinality(Threads)

\* No thread spins for ever, whatever the lock: the threads that get the lock first run out of
\* additions to make.
Termination == <>AllDone
=============================================================================
