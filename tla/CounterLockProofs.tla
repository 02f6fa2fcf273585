-------------------------- MODULE CounterLockProofs --------------------------
(***************************************************************************)
(* Machine-checked safety of the counting programs, for any number of      *)
(* threads and of additions.                                               *)
(***************************************************************************)
EXTENDS CounterLock, FiniteSetTheorems, TLAPS

\* A thread outside the loop's condition has an addition to make or just made.
IndexInv == \A t \in Threads : pc[t] # "loop" => i[t] < MAX_COUNT

\* An atomic lock is held by the one thread in its critical section, and what
\* that thread has loaded of g_number is still its value.
LockInv ==
    kind \in AtomicKinds =>
      /\ \A t \in Threads : pc[t] # "set"
      /\ \A t \in Threads : pc[t] \in Critical => lock
      /\ \A t, u \in Threads : pc[t] \in Critical /\ pc[u] \in Critical => t = u
      /\ \A t \in Threads : pc[t] = "store" => reg[t] = g_number

\* A stale load is of no more than the additions made.
LoadInv == \A t \in Threads : pc[t] = "store" => reg[t] <= Cardinality(Additions)

CountInv == TypeOK /\ IndexInv /\ LockInv /\ LoadInv /\ NothingLost /\ NeverTooMany

\* The additions made so far are finitely many, so that they can be counted.
LEMMA AdditionsFinite ==
    IsFiniteSet(Additions) /\ Cardinality(Additions) \in Nat
<1>1. IsFiniteSet(1..MAX_COUNT)
    BY CountAssumption, FS_Interval
<1>2. IsFiniteSet(Threads \X (1..MAX_COUNT))
    BY <1>1, CountAssumption, FS_Product
<1>3. IsFiniteSet(Additions)
    BY <1>2, FS_Subset DEF Additions
<1> QED
    BY <1>3, FS_CardinalityType

\* No addition is made yet, and no thread is in its critical section.
THEOREM CountInvInit == Init => CountInv
<1> SUFFICES ASSUME Init PROVE CountInv
    OBVIOUS
<1>1. TypeOK
  <2>1. lock \in BOOLEAN
      BY Zenon DEF Init
  <2>2. pc \in [Threads -> PCs] /\ reg \in [Threads -> Nat] /\ i \in [Threads -> 0..MAX_COUNT]
      BY CountAssumption DEF Init, PCs
  <2> QED
      BY <2>1, <2>2 DEF Init, TypeOK
<1>2. IndexInv /\ LockInv /\ LoadInv
    BY DEF Init, IndexInv, LockInv, LoadInv, Critical
<1>3. Additions = {}
    BY CountAssumption DEF Init, Additions, Made
<1>4. NothingLost /\ NeverTooMany
    BY <1>3, FS_EmptySet DEF Init, NothingLost, NeverTooMany
<1> QED
    BY <1>1, <1>2, <1>4 DEF CountInv

\* A step that is not Store makes no addition.
LEMMA AdditionsKept ==
    ASSUME TypeOK, IndexInv, NEW t \in Threads,
           \/ UNCHANGED i /\ (\A u \in Threads : pc'[u] = "unlock" <=> pc[u] = "unlock")
           \/ Unlock(t)
    PROVE  Additions' = Additions
<1>1. CASE UNCHANGED i /\ (\A u \in Threads : pc'[u] = "unlock" <=> pc[u] = "unlock")
    BY <1>1 DEF Additions, Made
<1>2. CASE Unlock(t)
  <2>1. /\ pc[t] = "unlock" /\ pc'[t] = "loop" /\ i'[t] = i[t] + 1
        /\ \A u \in Threads : u # t => pc'[u] = pc[u] /\ i'[u] = i[u]
        /\ \A u \in Threads : i[u] \in Nat
      BY <1>2 DEF Unlock, Goto, TypeOK
  <2>2. ASSUME NEW u \in Threads, NEW k \in 1..MAX_COUNT
        PROVE  Made(u, k)' <=> Made(u, k)
      BY <2>1 DEF Made
  <2> QED
      BY <2>2 DEF Additions
<1> QED
    BY <1>1, <1>2

\* Store makes one.
LEMMA StoreAdds ==
    ASSUME TypeOK, IndexInv, NEW t \in Threads, Store(t)
    PROVE  Cardinality(Additions') = Cardinality(Additions) + 1
<1>1. /\ pc[t] = "store" /\ pc'[t] = "unlock" /\ UNCHANGED i
      /\ \A u \in Threads : u # t => pc'[u] = pc[u]
      /\ \A u \in Threads : i[u] \in Nat
    BY DEF Store, Goto, TypeOK
<1>2. i[t] + 1 \in 1..MAX_COUNT
    BY <1>1, CountAssumption DEF IndexInv, TypeOK
<1>3. <<t, i[t] + 1>> \notin Additions
    BY <1>1 DEF Additions, Made
<1>4. Additions' = Additions \cup {<<t, i[t] + 1>>}
    BY <1>1, <1>2 DEF Additions, Made
<1> QED
    BY <1>3, <1>4, AdditionsFinite, FS_AddElement

\* No step of a thread leaves the types.
LEMMA CountTypeOK ==
    ASSUME TypeOK, IndexInv, NEW t \in Threads, Count(t)
    PROVE  TypeOK' /\ IndexInv'
<1> USE CountAssumption DEF Goto, PCs
<1>1. lock' \in BOOLEAN
    BY Zenon DEF TypeOK, Count, Enter, SpinTest, SpinSet, TestAndSet, Load, Store, Unlock
<1>2. pc' \in [Threads -> PCs] /\ kind' \in Kinds
    BY DEF TypeOK, Count, Enter, SpinTest, SpinSet, TestAndSet, Load, Store, Unlock
<1>3. g_number' \in Nat /\ reg' \in [Threads -> Nat]
  <2>1. reg[t] + 1 \in Nat
      BY DEF TypeOK
  <2> QED
      BY <2>1 DEF TypeOK, Count, Enter, SpinTest, SpinSet, TestAndSet, Load, Store, Unlock
<1>4. i' \in [Threads -> 0..MAX_COUNT] /\ IndexInv'
  <2>1. CASE Unlock(t)
    <3>1. i[t] + 1 \in 0..MAX_COUNT
        BY <2>1 DEF Unlock, TypeOK, IndexInv
    <3> QED
        BY <2>1, <3>1 DEF Unlock, TypeOK, IndexInv
  <2>2. CASE Enter(t)
      BY <2>2 DEF Enter, TypeOK, IndexInv
  <2>3. CASE SpinTest(t) \/ SpinSet(t) \/ TestAndSet(t) \/ Load(t) \/ Store(t)
      BY <2>3 DEF SpinTest, SpinSet, TestAndSet, Load, Store, TypeOK, IndexInv
  <2> QED
      BY <2>1, <2>2, <2>3 DEF Count
<1> QED
    BY <1>1, <1>2, <1>3, <1>4 DEF TypeOK

\* Under an atomic lock a thread enters its critical section only when no other is in one.
LEMMA CountLockInv ==
    ASSUME TypeOK, LockInv, NEW t \in Threads, Count(t)
    PROVE  LockInv'
<1> SUFFICES ASSUME kind \in AtomicKinds PROVE LockInv'
    BY DEF Count, Enter, SpinTest, SpinSet, TestAndSet, Load, Store, Unlock, LockInv
<1> USE DEF Goto, LockInv, Critical, TypeOK
<1>1. kind \notin RacyKinds
    BY DEF AtomicKinds, RacyKinds
<1>2. CASE Enter(t)
    BY <1>2 DEF Enter
<1>3. CASE SpinTest(t)
    BY <1>1, <1>3 DEF SpinTest
<1>4. CASE SpinSet(t)
    BY <1>4 DEF SpinSet
<1>5. CASE TestAndSet(t)
    BY <1>5 DEF TestAndSet
<1>6. CASE Load(t)
    BY <1>6 DEF Load
<1>7. CASE Store(t)
    BY <1>7 DEF Store
<1>8. CASE Unlock(t)
    BY <1>8 DEF Unlock
<1> QED
    BY <1>2, <1>3, <1>4, <1>5, <1>6, <1>7, <1>8 DEF Count

\* The inductive invariant is kept by every step of every thread.
THEOREM CountInvNext == CountInv /\ [Next]_vars => CountInv'
<1> SUFFICES ASSUME CountInv, [Next]_vars PROVE CountInv'
    OBVIOUS
<1> USE DEF CountInv
<1>1. CASE UNCHANGED vars
    BY <1>1 DEF vars, TypeOK, IndexInv, LockInv, LoadInv, NothingLost, NeverTooMany,
                Additions, Made
<1>2. ASSUME NEW t \in Threads, Count(t) PROVE CountInv'
  <2>1. TypeOK' /\ IndexInv' /\ LockInv'
      BY <1>2, CountTypeOK, CountLockInv
  <2>2. CASE Store(t)
    <3>1. Cardinality(Additions') = Cardinality(Additions) + 1 /\ Cardinality(Additions) \in Nat
        BY <2>2, StoreAdds, AdditionsFinite
    <3>2. reg[t] <= Cardinality(Additions) /\ (kind \in AtomicKinds => reg[t] = g_number)
        BY <2>2 DEF Store, Goto, LoadInv, LockInv
    <3>3. NothingLost' /\ NeverTooMany'
        BY <2>2, <3>1, <3>2 DEF Store, NothingLost, NeverTooMany, TypeOK
    <3>4. ASSUME NEW u \in Threads, pc'[u] = "store" PROVE reg'[u] <= Cardinality(Additions')
      <4>1. pc[u] = "store" /\ reg'[u] = reg[u]
          BY <2>2, <3>4 DEF Store, Goto, TypeOK
      <4> QED
          BY <3>1, <4>1 DEF LoadInv, TypeOK
    <3> QED
        BY <2>1, <3>3, <3>4 DEF LoadInv
  <2>3. CASE ~ Store(t)
    <3>1. Additions' = Additions /\ g_number' = g_number /\ kind' = kind
      <4>1. CASE Unlock(t)
          BY <4>1, AdditionsKept DEF Unlock
      <4>2. CASE Enter(t) \/ SpinTest(t) \/ SpinSet(t) \/ TestAndSet(t) \/ Load(t)
        <5>1. UNCHANGED <<i, g_number, kind>>
              /\ \A u \in Threads : pc'[u] = "unlock" <=> pc[u] = "unlock"
            BY <4>2 DEF Enter, SpinTest, SpinSet, TestAndSet, Load, Goto, TypeOK
        <5> QED
            BY <5>1, AdditionsKept
      <4> QED
          BY <1>2, <2>3, <4>1, <4>2 DEF Count
    <3>2. NothingLost' /\ NeverTooMany'
        BY <3>1 DEF NothingLost, NeverTooMany
    <3>3. ASSUME NEW u \in Threads, pc'[u] = "store" PROVE reg'[u] <= Cardinality(Additions')
      <4>1. \/ pc[u] = "store" /\ reg'[u] = reg[u]
            \/ reg'[u] = g_number
          BY <1>2, <2>3, <3>3 DEF Count, Enter, SpinTest, SpinSet, TestAndSet, Load, Unlock, Goto, TypeOK
      <4> QED
          BY <3>1, <4>1 DEF LoadInv, NeverTooMany
    <3> QED
        BY <2>1, <3>2, <3>3 DEF LoadInv
  <2> QED
      BY <2>2, <2>3
<1> QED
    BY <1>1, <1>2 DEF Next

\* For any number of threads and additions, the sum under an atomic lock is
\* the number of additions made, at every moment.
THEOREM ExactCount == Spec => []NothingLost
<1>1. CountInv => NothingLost
    BY DEF CountInv
<1> QED
    BY <1>1, CountInvInit, CountInvNext, PTL DEF Spec

\* Whatever the lock, the sum is never more than the additions made.
THEOREM NoInvention == Spec => []NeverTooMany
<1>1. CountInv => NeverTooMany
    BY DEF CountInv
<1> QED
    BY <1>1, CountInvInit, CountInvNext, PTL DEF Spec

\* With an atomic lock main prints MAX_COUNT times the number of threads.
THEOREM ResultUnderAtomicLock == Spec => [](kind \in AtomicKinds => ResultAsPrinted)
<1>1. CountInv => (kind \in AtomicKinds => ResultAsPrinted)
  <2> SUFFICES ASSUME CountInv, kind \in AtomicKinds, AllDone
               PROVE  g_number = MAX_COUNT * Cardinality(Threads)
      BY DEF ResultAsPrinted
  <2>1. Additions = Threads \X (1..MAX_COUNT)
      BY CountAssumption DEF Additions, Made, AllDone
  <2>2. IsFiniteSet(1..MAX_COUNT) /\ Cardinality(1..MAX_COUNT) = MAX_COUNT
      BY CountAssumption, FS_Interval
  <2>3. Cardinality(Additions) = Cardinality(Threads) * MAX_COUNT
      BY <2>1, <2>2, CountAssumption, FS_Product
  <2>4. Cardinality(Threads) \in Nat
      BY CountAssumption, FS_CardinalityType
  <2> QED
      BY <2>3, <2>4, CountAssumption DEF CountInv, NothingLost
<1> QED
    BY <1>1, CountInvInit, CountInvNext, PTL DEF Spec
=============================================================================
