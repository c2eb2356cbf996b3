--------------------------- MODULE TestKey_proofs ---------------------------
(***************************************************************************)
(* Proofs about TestKey, for any number of test programs.                  *)
(***************************************************************************)
EXTENDS TestKey, TLAPS, FiniteSetTheorems

\* A critical section that threw has thrown for good, and the dead stay dead.
LEMMA CleanBefore ==
  ASSUME TypeOK, [Next]_vars, Clean'
  PROVE  Clean
<1>1. ASSUME NEW p \in Proc, NEW q \in Proc,
             Open(p) \/ OpenFails(p) \/ WaitFails(p) \/ Proceed(p)
                     \/ GetKeysAgain(p) \/ Kill(p)
      PROVE  ~threw[q] /\ pc[q] # "dead"
  BY <1>1 DEF Clean, TypeOK, Open, OpenFails, WaitFails, Proceed, Wait, GetKeys,
     CreateKey, Throw, Post, Unlink, Close, GetKeysAgain, Kill, Go, Over
<1>2. CASE UNCHANGED vars
  BY <1>2 DEF vars, Clean
<1> QED
  BY <1>1, <1>2 DEF Next, Clean

LEMMA InitIInv == Init => IInv
  BY NoSemAssumption DEF Init, IInv, TypeOK, PC, Inside, Over, OneSemaphore,
     MutualExclusion, NobodyCreates, Opened

LEMMA StepType ==
  ASSUME TypeOK, [Next]_vars PROVE TypeOK'
<1> USE NoSemAssumption DEF TypeOK, PC, Inside, Over, Opened, Go
<1>1. ASSUME NEW p \in Proc, Open(p) PROVE TypeOK'
  BY <1>1 DEF Open
<1>2. ASSUME NEW p \in Proc, Wait(p) PROVE TypeOK'
  BY <1>2 DEF Wait
<1>3. ASSUME NEW p \in Proc, Post(p) PROVE TypeOK'
  BY <1>3 DEF Post
<1>4. ASSUME NEW p \in Proc, GetKeys(p) \/ CreateKey(p) \/ Throw(p)
      PROVE  TypeOK'
  <2>1. threw' \in [Proc -> BOOLEAN]
    BY <1>4 DEF GetKeys, CreateKey, Throw
  <2>2. pc' \in [Proc -> PC] /\ keys' \in Nat /\ found' \in [Proc -> Nat]
    BY <1>4 DEF GetKeys, CreateKey, Throw
  <2>3. \A q \in Proc : pc'[q] \in Opened <=> sem'[q] # NoSem
    BY <1>4 DEF GetKeys, CreateKey, Throw
  <2>4. UNCHANGED <<named, value, sem>>
    BY <1>4 DEF GetKeys, CreateKey, Throw
  <2> QED
    BY <2>1, <2>2, <2>3, <2>4
<1>5. ASSUME NEW p \in Proc, OpenFails(p) \/ WaitFails(p) \/ Unlink(p)
                             \/ Close(p) \/ GetKeysAgain(p) \/ Kill(p)
      PROVE  TypeOK'
  BY <1>5 DEF OpenFails, WaitFails, Unlink, Close, GetKeysAgain, Kill
<1>6. CASE UNCHANGED vars
  BY <1>6 DEF vars
<1> QED
  BY <1>1, <1>2, <1>3, <1>4, <1>5, <1>6 DEF Next, Proceed

\* What IInv says of a run in which nothing goes wrong.
Calm ==
    /\ keys = 0 => OneSemaphore
    /\ keys = 1 => NobodyCreates
    /\ keys <= 1

LEMMA StepCalm ==
  ASSUME TypeOK, Calm, Clean, Clean', [Next]_vars
  PROVE  Calm'
<1> USE NoSemAssumption
    DEF TypeOK, PC, Inside, Over, Opened, Go, Calm, OneSemaphore,
        NobodyCreates, MutualExclusion
<1>1. ASSUME NEW p \in Proc, Open(p) PROVE Calm'
  BY <1>1 DEF Open, Free
<1>2. ASSUME NEW p \in Proc, Wait(p) PROVE Calm'
  BY <1>2 DEF Wait
<1>3. ASSUME NEW p \in Proc, GetKeys(p) PROVE Calm'
  BY <1>3 DEF GetKeys
<1>4. ASSUME NEW p \in Proc, CreateKey(p) PROVE Calm'
  <2>1. keys = 0
    BY <1>4 DEF CreateKey
  <2>2. \A q \in Proc \ {p} : pc[q] \notin Inside
    BY <1>4, <2>1 DEF CreateKey
  <2> QED
    BY <1>4, <2>1, <2>2 DEF CreateKey
<1>5. ASSUME NEW p \in Proc, OpenFails(p) \/ WaitFails(p) PROVE Calm'
  BY <1>5 DEF OpenFails, WaitFails
<1>6. ASSUME NEW p \in Proc,
             Post(p) \/ Unlink(p) \/ Close(p) \/ GetKeysAgain(p)
      PROVE  Calm'
  BY <1>6 DEF Post, Unlink, Close, GetKeysAgain
<1>7. ASSUME NEW p \in Proc, Throw(p) \/ Kill(p) PROVE FALSE
  BY <1>7 DEF Throw, Kill, Clean
<1>8. CASE UNCHANGED vars
  BY <1>8 DEF vars
<1> QED
  BY <1>1, <1>2, <1>3, <1>4, <1>5, <1>6, <1>7, <1>8 DEF Next, Proceed

LEMMA NextIInv == IInv /\ [Next]_vars => IInv'
<1> SUFFICES ASSUME IInv, [Next]_vars PROVE IInv'
  OBVIOUS
<1>1. TypeOK'
  BY StepType DEF IInv
<1>2. ASSUME Clean' PROVE Calm'
  BY <1>2, CleanBefore, StepCalm DEF IInv, Calm
<1> QED
  BY <1>1, <1>2 DEF IInv, Calm

\* The inductive invariant holds for any number of programs.
THEOREM Invariance == Spec => []IInv
<1>1. Init => IInv
  BY InitIInv
<1>2. IInv /\ [Next]_vars => IInv'
  BY NextIInv
<1> QED
  BY <1>1, <1>2, PTL DEF Spec

\* However many test programs run at once, they make one key at most, unless
\* one of them fails or is killed.
THEOREM OneKeyAtMost == Spec => []KeyOnce
<1>1. IInv => KeyOnce
  BY DEF IInv, KeyOnce
<1> QED
  BY <1>1, Invariance, PTL

-----------------------------------------------------------------------------
(***************************************************************************)
(* Of two programs, one is in the critical section at a time.  While one   *)
(* of them has the semaphore, the other one opens the same: only a third   *)
(* could come after the name is gone and before all who wait are through.  *)
(***************************************************************************)

\* Before it has unlinked the name.
Early == {"waiting", "posting", "unlinking"} \cup Inside

\* It has taken the semaphore and not yet raised it.
Holding == Inside \cup {"posting"}

OnlyRun(a, b) == \A r \in Proc \ {a, b} : pc[r] = "start"

Pair(a, b) ==
    /\ named # NoSem => value[named] <= 1
    /\ \A p, q \in {a, b} : pc[p] \in Early /\ pc[q] \in Early =>
           sem[p] = sem[q]
    /\ \A p, q \in {a, b} : pc[p] \in Early /\ pc[q] = "start" =>
           sem[p] = named
    /\ \A p \in {a, b} : pc[p] \in Early => value[sem[p]] <= 1
    /\ \A p \in {a, b} : pc[p] \in Holding => value[sem[p]] = 0
    /\ \A p, q \in {a, b} : pc[p] \in Holding /\ pc[q] \in Holding => p = q

LEMMA StepPair ==
  ASSUME TypeOK, [Next]_vars, NEW a \in Proc, NEW b \in Proc,
         OnlyRun(a, b)', OnlyRun(a, b) => Pair(a, b)
  PROVE  Pair(a, b)'
<1> USE NoSemAssumption DEF Go
<1>1. CASE UNCHANGED vars
  BY <1>1 DEF vars, OnlyRun, Pair
<1>2. ASSUME NEW p \in Proc,
             Open(p) \/ OpenFails(p) \/ WaitFails(p) \/ Proceed(p)
                     \/ GetKeysAgain(p) \/ Kill(p)
      PROVE  Pair(a, b)'
  <2>1. pc' = [pc EXCEPT ![p] = pc'[p]] /\ pc'[p] # "start"
    BY <1>2 DEF TypeOK, Open, OpenFails, WaitFails, Proceed, Wait, GetKeys,
       CreateKey, Throw, Post, Unlink, Close, GetKeysAgain, Kill
  <2>2. p \in {a, b} /\ OnlyRun(a, b)
    BY <2>1 DEF OnlyRun, TypeOK
  <2>3. Pair(a, b)
    BY <2>2
  <2> USE <2>2, <2>3 DEF TypeOK, Pair, Early, Holding, Inside, Opened
  <2>4. CASE Open(p)
    BY <2>4 DEF Open, Free
  <2>5. CASE Wait(p)
    BY <2>5 DEF Wait
  <2>6. CASE Post(p)
    BY <2>6 DEF Post
  <2>7. CASE Unlink(p)
    BY <2>7 DEF Unlink
  <2>8. CASE GetKeys(p) \/ CreateKey(p) \/ Throw(p)
    BY <2>8 DEF GetKeys, CreateKey, Throw
  <2>9. CASE OpenFails(p) \/ WaitFails(p) \/ Close(p) \/ GetKeysAgain(p)
             \/ Kill(p)
    BY <2>9 DEF OpenFails, WaitFails, Close, GetKeysAgain, Kill
  <2> QED
    BY <1>2, <2>4, <2>5, <2>6, <2>7, <2>8, <2>9 DEF Proceed
<1> QED
  BY <1>1, <1>2 DEF Next

Started == {p \in Proc : pc[p] # "start"}

PairInv ==
    /\ TypeOK
    /\ IsFiniteSet(Started)
    /\ \A a, b \in Proc : OnlyRun(a, b) => Pair(a, b)

LEMMA PairInvInit == Init => PairInv
<1> SUFFICES ASSUME Init PROVE PairInv
  OBVIOUS
<1>1. TypeOK
  BY InitIInv DEF IInv
<1>2. Started = {}
  BY DEF Init, Started
<1>3. \A a, b \in Proc : Pair(a, b)
  BY DEF Init, Pair, Early, Holding, Inside
<1> QED
  BY <1>1, <1>2, <1>3, FS_EmptySet DEF PairInv

LEMMA PairInvNext == PairInv /\ [Next]_vars => PairInv'
<1> SUFFICES ASSUME PairInv, [Next]_vars PROVE PairInv'
  OBVIOUS
<1>1. TypeOK'
  BY StepType DEF PairInv
<1>2. IsFiniteSet(Started')
  <2>1. CASE UNCHANGED vars
    BY <2>1 DEF vars, Started, PairInv
  <2>2. CASE Next
    <3>1. PICK p \in Proc : pc' = [pc EXCEPT ![p] = pc'[p]]
      BY <2>2 DEF PairInv, TypeOK, Next, Open, OpenFails, WaitFails, Proceed,
         Wait, GetKeys, CreateKey, Throw, Post, Unlink, Close, GetKeysAgain,
         Kill, Go
    <3>2. Started' \subseteq Started \cup {p}
      BY <3>1 DEF Started, PairInv, TypeOK
    <3>3. IsFiniteSet(Started \cup {p})
      BY FS_AddElement DEF PairInv
    <3> QED
      BY <3>2, <3>3, FS_Subset
  <2> QED
    BY <2>1, <2>2
<1>3. ASSUME NEW a \in Proc, NEW b \in Proc, OnlyRun(a, b)'
      PROVE  Pair(a, b)'
  BY <1>3, StepPair DEF PairInv
<1> QED
  BY <1>1, <1>2, <1>3 DEF PairInv

LEMMA NoOthers ==
  ASSUME NEW S, IsFiniteSet(S), Cardinality(S) <= 2,
         NEW a \in S, NEW b \in S, a # b
  PROVE  S = {a, b}
<1>1. IsFiniteSet({a, b}) /\ Cardinality({a, b}) = 2
  <2>1. IsFiniteSet({a}) /\ Cardinality({a}) = 1
    BY FS_Singleton
  <2>2. /\ IsFiniteSet({a} \cup {b})
        /\ Cardinality({a} \cup {b}) =
             IF b \in {a} THEN Cardinality({a}) ELSE Cardinality({a}) + 1
    BY <2>1, FS_AddElement, Zenon
  <2>3. b \notin {a}
    OBVIOUS
  <2>4. Cardinality({a} \cup {b}) = 2
    BY <2>1, <2>2, <2>3
  <2>5. {a} \cup {b} = {a, b}
    OBVIOUS
  <2> QED
    BY <2>2, <2>4, <2>5, Zenon
<1>2. {a, b} \in SUBSET S
  OBVIOUS
<1>3. Cardinality({a, b}) <= Cardinality(S) /\ Cardinality(S) \in Nat
  BY <1>2, FS_Subset, FS_CardinalityType
<1>4. Cardinality(S) = Cardinality({a, b})
  BY <1>1, <1>3
<1> QED
  BY <1>2, <1>4, FS_Subset

\* gen_test_key_lock does its work as long as no more than two programs have
\* run, whatever fails and whichever is killed.
THEOREM TwoAreExclusive == Spec => []ExclusiveForTwo
<1>1. PairInv => ExclusiveForTwo
  <2> SUFFICES ASSUME PairInv, Cardinality(Started) <= 2,
                      NEW p \in Proc, NEW q \in Proc,
                      pc[p] \in Inside, pc[q] \in Inside, p # q
               PROVE  FALSE
    BY DEF ExclusiveForTwo, MutualExclusion, Started
  <2>1. p \in Started /\ q \in Started
    BY DEF Started, Inside
  <2>2. Started = {p, q}
    BY <2>1, NoOthers DEF PairInv
  <2>3. Pair(p, q)
    BY <2>2 DEF Started, OnlyRun, PairInv
  <2> QED
    BY <2>3 DEF Pair, Holding
<1> QED
  BY <1>1, PairInvInit, PairInvNext, PTL DEF Spec
=============================================================================
