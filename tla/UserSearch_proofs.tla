-------------------------- MODULE UserSearch_proofs --------------------------
(***************************************************************************)
(* Theorems about UserSearch: type correctness, that a search which has    *)
(* ended holds no lock, and that the name is asked for by one search at a  *)
(* time and by every process once.                                         *)
(***************************************************************************)
EXTENDS UserSearch, FiniteSetTheorems, TLAPS

\* The look a search is in follows from its next step, but for the steps that
\* all three looks share.
Rounds ==
    \A w \in Workers :
        /\ pc[w] \in {"idle", "name", "enter"} => round[w] = First
        /\ pc[w] \in {"cool", "ask", "call", "release", "save"} =>
              round[w] = Second

\* Before the call a search has no lookup in hand.
InHand ==
    \A w \in Workers :
        pc[w] \notin {"release", "save", "refill"} => got[w] = None

\* The distributed lock's lease is its owner's, who is at the call or about to
\* give it back.
Ownership ==
    /\ leased \subseteq {owner}
    /\ \A w \in Workers : owner = w => pc[w] \in {"call", "release"}

\* A process's lock is held by the search that was given it and has entered it.
HeldByOne ==
    \A i \in Instances, n \in Locks, w \in Workers :
        held[i][n] = w <=> i = here(w) /\ n = lock[w] /\ round[w] # First

\* Processes that have the lookup, or a search that brings it.
Served ==
    {i \in Instances :
        \/ table[i] # None
        \/ \E w \in Workers :
              here(w) = i /\ pc[w] \in {"release", "save"} /\ got[w] # None}

\* Until a lookup is lost there is one lock per process, what its holder did
\* not find is not there, and every answered call has served a process.
Counted ==
    calls # None =>
        /\ \A i \in Instances : newest[i] = 1
        /\ \A w \in Workers : lock[w] = 1
        /\ \A w \in Workers :
              pc[w] \in {"cool", "ask", "call"} => table[here(w)] = None
        /\ calls <= Cardinality(Served)

LockInv == TypeOK /\ Rounds /\ InHand /\ Ownership /\ HeldByOne

IInv == LockInv /\ Counted

USE InstanceOfAssumption, InstancesAssumption, NoOneAssumption, GoneAssumption,
    DaysAssumption, MaxLocksAssumption
USE DEF None, Age, Locks, First, Second, Third, Steps

LEMMA InstancesCount == Cardinality(Instances) \in Nat
BY FS_CardinalityType

LEMMA OlderType ==
    ASSUME NEW a \in {None} \cup Age
    PROVE  /\ Older(a) \in {None} \cup Age
           /\ Older(a) = None <=> a = None
BY DEF Older

LEMMA HereType == ASSUME NEW w \in Workers PROVE here(w) \in Instances
BY DEF here

\* The initial states satisfy the invariant.
LEMMA InitLockInv == Init => LockInv
<1> SUFFICES ASSUME Init PROVE LockInv
    OBVIOUS
<1> USE DEF Init
<1>1. TypeOK
    <2>1. calls \in {None} \cup 0..(Cardinality(Instances) + 1)
        BY InstancesCount
    <2>2. held \in [Instances -> [Locks -> Workers \cup {NoOne}]]
        OBVIOUS
    <2>3. newest \in [Instances -> Locks] /\ lock \in [Workers -> Locks]
        OBVIOUS
    <2>4. \A w \in Workers : pc[w] \notin {"save", "refill"}
        OBVIOUS
    <2>5. pc \in [Workers -> Steps]
        OBVIOUS
    <2>6. cacheAge = None /\ cacheLeft = 0 /\ 0 \in 0..CacheTtl
        OBVIOUS
    <2>7. /\ table \in [Instances -> {None} \cup Age]
          /\ got \in [Workers -> {None} \cup Age]
          /\ round \in [Workers -> First..Third]
        OBVIOUS
    <2> QED
        BY <2>1, <2>2, <2>3, <2>4, <2>5, <2>6, <2>7 DEF TypeOK
<1>2. Rounds /\ InHand /\ Ownership /\ HeldByOne
    BY DEF Rounds, InHand, Ownership, HeldByOne
<1> QED
    BY <1>1, <1>2 DEF LockInv

-----------------------------------------------------------------------------
(* type correctness *)

\* What ends a search leaves the types alone.
LEMMA AnswerType ==
    ASSUME TypeOK, NEW w \in Workers, NEW a, Answer(w, a)
    PROVE  /\ held' \in [Instances -> [Locks -> Workers \cup {NoOne}]]
           /\ lock' \in [Workers -> Locks]
           /\ pc' \in [Workers -> Steps]
           /\ round' \in [Workers -> First..Third]
           /\ got' \in [Workers -> {None} \cup Age]
           /\ late' \in BOOLEAN
           /\ \A v \in Workers :
                 pc'[v] \in {"save", "refill"} => got'[v] # None
<1>1. held' \in [Instances -> [Locks -> Workers \cup {NoOne}]]
    BY HereType DEF Answer, Unlocked, TypeOK
<1> QED
    BY <1>1 DEF Answer, Goto, TypeOK

LEMMA FailType ==
    ASSUME TypeOK, NEW w \in Workers, Fail(w)
    PROVE  /\ held' \in [Instances -> [Locks -> Workers \cup {NoOne}]]
           /\ lock' \in [Workers -> Locks]
           /\ pc' \in [Workers -> Steps]
           /\ round' \in [Workers -> First..Third]
           /\ got' \in [Workers -> {None} \cup Age]
           /\ late' \in BOOLEAN
           /\ \A v \in Workers :
                 pc'[v] \in {"save", "refill"} => got'[v] # None
BY AnswerType DEF Fail

LEMMA TypeStep ==
    ASSUME TypeOK, [Next]_vars
    PROVE  TypeOK'
<1> USE DEF TypeOK
<1>1. ASSUME NEW w \in Workers, Start(w) PROVE TypeOK'
    BY <1>1 DEF Start, Goto, stores, locks
<1>2. ASSUME NEW w \in Workers, Look(w) PROVE TypeOK'
    <2>1. CASE Answer(w, cacheAge)
        BY <1>2, <2>1, AnswerType DEF Look, stores
    <2>2. CASE Goto(w, "table") /\ UNCHANGED locals
        BY <1>2, <2>2 DEF Look, Goto, stores, locals
    <2> QED
        BY <1>2, <2>1, <2>2 DEF Look
<1>3. ASSUME NEW w \in Workers, LookTable(w) PROVE TypeOK'
    <2>1. CASE table[here(w)] # None
        BY <1>3, <2>1, HereType DEF LookTable, Goto, stores
    <2>2. CASE table[here(w)] = None
        <3>1. CASE Fail(w)
            BY <1>3, <3>1, FailType DEF LookTable, stores
        <3>2. CASE (Goto(w, "name") \/ Goto(w, "cool")) /\ UNCHANGED locals
            BY <1>3, <3>2 DEF LookTable, Goto, stores, locals
        <3> QED
            BY <1>3, <2>2, <3>1, <3>2 DEF LookTable, Missed
    <2> QED
        BY <2>1, <2>2
<1>4. ASSUME NEW w \in Workers, Refill(w) PROVE TypeOK'
    BY <1>4, AnswerType DEF Refill
<1>5. ASSUME NEW w \in Workers, NameLock(w) PROVE TypeOK'
    BY <1>5, HereType DEF NameLock, Goto, stores
<1>6. ASSUME NEW w \in Workers, Enter(w) PROVE TypeOK'
    <2>1. held' \in [Instances -> [Locks -> Workers \cup {NoOne}]]
        BY <1>6, HereType DEF Enter
    <2> QED
        BY <1>6, <2>1 DEF Enter, Goto, stores
<1>7. ASSUME NEW w \in Workers, Cool(w) PROVE TypeOK'
    <2>1. CASE Fail(w)
        BY <1>7, <2>1, FailType DEF Cool, stores
    <2>2. CASE Goto(w, "ask") /\ UNCHANGED locals
        BY <1>7, <2>2 DEF Cool, Goto, stores, locals
    <2> QED
        BY <1>7, <2>1, <2>2 DEF Cool
<1>8. ASSUME NEW w \in Workers, Ask(w) PROVE TypeOK'
    <2>1. owner' \in Workers \cup {NoOne, Gone} /\ leased' \subseteq Workers
        BY <1>8 DEF Ask
    <2>2. round' \in [Workers -> First..Third]
        <3>1. CASE UNCHANGED round
            BY <3>1
        <3>2. CASE round' = [round EXCEPT ![w] = Third]
            BY <3>2
        <3> QED
            BY <1>8, <3>1, <3>2 DEF Ask
    <2>3. /\ pc' \in [Workers -> Steps]
          /\ \A v \in Workers : pc'[v] # pc[v] => pc'[v] \in {"call", "look"}
        BY <1>8 DEF Ask, Goto
    <2> QED
        BY <1>8, <2>1, <2>2, <2>3 DEF Ask, stores
<1>9. ASSUME NEW w \in Workers, Call(w) PROVE TypeOK'
    <2>1. calls' \in {None} \cup 0..(Cardinality(Instances) + 1)
        BY <1>9, InstancesCount DEF Call
    <2>2. got' \in [Workers -> {None} \cup Age]
        BY <1>9 DEF Call
    <2>3. pc' \in [Workers -> Steps] /\ pc'[w] = "release"
        BY <1>9 DEF Call, Goto
    <2>4. \A v \in Workers : v # w => pc'[v] = pc[v] /\ got'[v] = got[v]
        BY <1>9 DEF Call, Goto
    <2>5. UNCHANGED <<stores, locks, round, late>>
        BY <1>9 DEF Call
    <2> QED
        BY <2>1, <2>2, <2>3, <2>4, <2>5 DEF stores, locks
<1>10. ASSUME NEW w \in Workers, Release(w) PROVE TypeOK'
    <2>1. CASE Fail(w)
        BY <1>10, <2>1, FailType DEF Release, stores
    <2>2. CASE got[w] # None /\ Goto(w, "save") /\ UNCHANGED locals
        BY <1>10, <2>2 DEF Release, Goto, stores, locals
    <2> QED
        BY <1>10, <2>1, <2>2 DEF Release
<1>11. ASSUME NEW w \in Workers, Save(w) PROVE TypeOK'
    <2>1. CASE Fail(w) /\ calls' = None /\ UNCHANGED table
        BY <1>11, <2>1, FailType DEF Save
    <2>2. CASE /\ table' = [table EXCEPT ![here(w)] = 0]
               /\ Goto(w, "refill") /\ UNCHANGED <<locals, calls>>
        BY <1>11, <2>2, HereType DEF Save, Goto, locals
    <2> QED
        BY <1>11, <2>1, <2>2 DEF Save
<1>12. ASSUME NEW i \in Instances, Evict(i) PROVE TypeOK'
    BY <1>12 DEF Evict, stores
<1>13. ASSUME NEW i \in Instances, Purge(i) PROVE TypeOK'
    BY <1>13 DEF Purge, locks
<1>14. ASSUME NEW i \in Instances, Replace(i) PROVE TypeOK'
    BY <1>14 DEF Replace
<1>15. CASE LeaseEnds
    BY <1>15 DEF LeaseEnds, stores
<1>16. CASE NextDay
    <2>1. /\ cacheLeft' \in 0..CacheTtl
          /\ cacheAge' \in {None} \cup Age
          /\ cacheAge' = None <=> cacheLeft' = 0
        BY <1>16, OlderType DEF NextDay
    <2>2. table' \in [Instances -> {None} \cup Age]
        BY <1>16, OlderType DEF NextDay
    <2>3. calls' \in {None, calls}
        BY <1>16 DEF NextDay
    <2> QED
        BY <1>16, <2>1, <2>2, <2>3 DEF NextDay, locks
<1>17. CASE UNCHANGED vars
    BY <1>17 DEF vars
<1> QED
    BY <1>1, <1>2, <1>3, <1>4, <1>5, <1>6, <1>7, <1>8, <1>9, <1>10, <1>11,
       <1>12, <1>13, <1>14, <1>15, <1>16, <1>17 DEF Next, Step

\* Type correctness: what a search has in hand to save or to cache is always a
\* lookup, and a cached lookup has days left, whatever threads, processes,
\* leases and purges do in between.
THEOREM TypeCorrect == Spec => []TypeOK
<1>1. Init => TypeOK
    BY InitLockInv DEF LockInv
<1> QED
    BY <1>1, TypeStep, PTL DEF Spec

-----------------------------------------------------------------------------
(* locks *)

\* A search that ends leaves its process's lock and touches no other.
LEMMA AnswerLocks ==
    ASSUME LockInv, NEW w \in Workers, NEW a, Answer(w, a)
    PROVE  Rounds' /\ InHand' /\ HeldByOne'
<1> USE DEF LockInv, TypeOK, Answer, Goto
<1>1. Rounds'
    BY DEF Rounds
<1>2. InHand'
    BY DEF InHand
<1>3. HeldByOne'
    <2>1. ASSUME NEW i \in Instances, NEW n \in Locks, NEW v \in Workers
          PROVE  held'[i][n] = v <=> i = here(v) /\ n = lock'[v] /\ round'[v] # First
        <3>1. round'[v] = IF v = w THEN First ELSE round[v]
            OBVIOUS
        <3>2. v # w => lock'[v] = lock[v]
            OBVIOUS
        <3>3. CASE round[w] = First
            <4>1. held' = held
                BY <3>3 DEF Unlocked
            <4> QED
                BY <3>1, <3>2, <3>3, <4>1 DEF HeldByOne
        <3>4. CASE round[w] # First
            <4>1. held'[i][n] = IF i = here(w) /\ n = lock[w] THEN NoOne ELSE held[i][n]
                BY <3>4, HereType DEF Unlocked
            <4>2. held[here(w)][lock[w]] = w
                BY <3>4, HereType DEF HeldByOne
            <4> QED
                BY <3>1, <3>2, <4>1, <4>2 DEF HeldByOne
        <3> QED
            BY <3>3, <3>4
    <2> QED
        BY <2>1 DEF HeldByOne
<1> QED
    BY <1>1, <1>2, <1>3

\* A step of one search that leaves the locks alone.
LEMMA SameLocks ==
    ASSUME HeldByOne, UNCHANGED <<held, lock, round>>
    PROVE  HeldByOne'
BY DEF HeldByOne

LEMMA SameOwner ==
    ASSUME LockInv, UNCHANGED <<owner, leased>>,
           \A v \in Workers : owner = v => pc'[v] \in {"call", "release"}
    PROVE  Ownership'
BY DEF LockInv, Ownership

LEMMA LockStep ==
    ASSUME LockInv, [Next]_vars
    PROVE  LockInv'
<1> DEFINE Goal == Rounds' /\ InHand' /\ Ownership' /\ HeldByOne'
<1>t. TypeOK /\ Rounds /\ InHand /\ Ownership /\ HeldByOne
    BY DEF LockInv
<1> USE DEF TypeOK
<1>1. ASSUME NEW w \in Workers, Start(w) PROVE Goal
    <2>1. Rounds' /\ InHand'
        BY <1>1, <1>t DEF Start, Goto, Rounds, InHand
    <2>2. Ownership'
        BY <1>1, <1>t DEF Start, Goto, Ownership, locks
    <2> QED
        BY <1>1, <1>t, <2>1, <2>2, SameLocks DEF Start, locks
<1>2. ASSUME NEW w \in Workers, Look(w) PROVE Goal
    <2>1. owner # w /\ UNCHANGED <<owner, leased>>
        BY <1>2, <1>t DEF Look, Ownership
    <2>2. CASE Answer(w, cacheAge)
        <3>1. Ownership'
            BY <1>t, <2>1, <2>2 DEF Answer, Goto, Ownership
        <3> QED
            BY <2>1, <2>2, <3>1, AnswerLocks
    <2>3. CASE Goto(w, "table") /\ UNCHANGED locals
        <3>1. Rounds' /\ InHand'
            BY <1>2, <2>3, <1>t DEF Look, Goto, Rounds, InHand, locals
        <3>2. Ownership'
            BY <1>t, <2>1, <2>3 DEF Goto, Ownership
        <3> QED
            BY <2>3, <1>t, <3>1, <3>2, SameLocks DEF locals
    <2> QED
        BY <1>2, <2>2, <2>3 DEF Look
<1>3. ASSUME NEW w \in Workers, LookTable(w) PROVE Goal
    <2>1. owner # w /\ UNCHANGED <<owner, leased>> /\ pc[w] = "table"
        BY <1>3, <1>t DEF LookTable, Ownership
    <2>2. CASE table[here(w)] # None
        <3>1. Rounds' /\ InHand'
            BY <1>3, <2>2, <1>t DEF LookTable, Goto, Rounds, InHand
        <3>2. Ownership'
            BY <1>3, <1>t, <2>1, <2>2 DEF LookTable, Goto, Ownership
        <3> QED
            BY <1>3, <2>2, <1>t, <3>1, <3>2, SameLocks DEF LookTable
    <2>3. CASE Fail(w)
        <3>1. Ownership'
            BY <1>t, <2>1, <2>3 DEF Fail, Answer, Goto, Ownership
        <3> QED
            BY <2>1, <2>3, <3>1, AnswerLocks DEF Fail
    <2>4. CASE /\ \/ round[w] = First /\ Goto(w, "name")
                  \/ round[w] = Second /\ Goto(w, "cool")
               /\ UNCHANGED locals
        <3>1. Rounds' /\ InHand'
            BY <2>1, <2>4, <1>t DEF Goto, Rounds, InHand, locals
        <3>2. Ownership'
            BY <1>t, <2>1, <2>4 DEF Goto, Ownership
        <3> QED
            BY <2>4, <1>t, <3>1, <3>2, SameLocks DEF locals
    <2> QED
        BY <1>3, <2>2, <2>3, <2>4 DEF LookTable, Missed
<1>4. ASSUME NEW w \in Workers, Refill(w) PROVE Goal
    <2>1. owner # w /\ UNCHANGED <<owner, leased>> /\ Answer(w, got[w])
        BY <1>4, <1>t DEF Refill, Ownership
    <2>2. Ownership'
        BY <1>t, <2>1 DEF Answer, Goto, Ownership
    <2> QED
        BY <2>1, <2>2, AnswerLocks
<1>5. ASSUME NEW w \in Workers, NameLock(w) PROVE Goal
    <2>1. Rounds' /\ InHand' /\ round[w] = First
        BY <1>5, <1>t DEF NameLock, Goto, Rounds, InHand
    <2>2. Ownership'
        BY <1>5, <1>t DEF NameLock, Goto, Ownership
    <2>3. HeldByOne'
        BY <1>5, <1>t, <2>1 DEF NameLock, HeldByOne
    <2> QED
        BY <2>1, <2>2, <2>3
<1>6. ASSUME NEW w \in Workers, Enter(w) PROVE Goal
    <2>1. Rounds' /\ InHand' /\ round[w] = First
        BY <1>6, <1>t DEF Enter, Goto, Rounds, InHand
    <2>2. Ownership'
        BY <1>6, <1>t DEF Enter, Goto, Ownership
    <2>3. ASSUME NEW i \in Instances, NEW n \in Locks, NEW v \in Workers
          PROVE  held'[i][n] = v <=> i = here(v) /\ n = lock'[v] /\ round'[v] # First
        <3>1. held'[i][n] = IF i = here(w) /\ n = lock[w] THEN w ELSE held[i][n]
            BY <1>6, <1>t, HereType DEF Enter
        <3>2. round'[v] = (IF v = w THEN Second ELSE round[v]) /\ lock'[v] = lock[v]
            BY <1>6, <1>t DEF Enter
        <3>3. held[here(w)][lock[w]] = NoOne
            BY <1>6 DEF Enter
        <3> QED
            BY <1>t, <2>1, <3>1, <3>2, <3>3 DEF HeldByOne
    <2>4. HeldByOne'
        BY <2>3 DEF HeldByOne
    <2> QED
        BY <2>1, <2>2, <2>4
<1>7. ASSUME NEW w \in Workers, Cool(w) PROVE Goal
    <2>1. owner # w /\ UNCHANGED <<owner, leased>> /\ pc[w] = "cool"
        BY <1>7, <1>t DEF Cool, Ownership
    <2>2. CASE Fail(w)
        <3>1. Ownership'
            BY <1>t, <2>1, <2>2 DEF Fail, Answer, Goto, Ownership
        <3> QED
            BY <2>1, <2>2, <3>1, AnswerLocks DEF Fail
    <2>3. CASE Goto(w, "ask") /\ UNCHANGED locals
        <3>1. Rounds' /\ InHand'
            BY <2>1, <2>3, <1>t DEF Goto, Rounds, InHand, locals
        <3>2. Ownership'
            BY <1>t, <2>1, <2>3 DEF Goto, Ownership
        <3> QED
            BY <2>3, <1>t, <3>1, <3>2, SameLocks DEF locals
    <2> QED
        BY <1>7, <2>2, <2>3 DEF Cool
<1>8. ASSUME NEW w \in Workers, Ask(w) PROVE Goal
    <2>1. InHand'
        BY <1>8, <1>t DEF Ask, Goto, InHand
    <2>5. Rounds'
        <3>1. CASE Goto(w, "call") /\ UNCHANGED round
            BY <1>8, <1>t, <3>1 DEF Ask, Goto, Rounds
        <3>2. CASE Goto(w, "look") /\ round' = [round EXCEPT ![w] = Third]
            BY <1>8, <1>t, <3>2 DEF Goto, Rounds
        <3> QED
            BY <1>8, <3>1, <3>2 DEF Ask
    <2>2. Ownership'
        BY <1>8, <1>t DEF Ask, Goto, Ownership
    <2>3. \A v \in Workers : round'[v] # First <=> round[v] # First
        BY <1>8, <1>t DEF Ask, Rounds
    <2>4. HeldByOne'
        BY <1>8, <1>t, <2>3 DEF Ask, HeldByOne
    <2> QED
        BY <2>1, <2>2, <2>4, <2>5
<1>9. ASSUME NEW w \in Workers, Call(w) PROVE Goal
    <2>1. Rounds'
        BY <1>9, <1>t DEF Call, Goto, Rounds
    <2>2. InHand'
        BY <1>9, <1>t DEF Call, Goto, InHand
    <2>3. Ownership'
        BY <1>9, <1>t DEF Call, Goto, Ownership, locks
    <2>4. HeldByOne'
        BY <1>9, <1>t, SameLocks DEF Call, locks
    <2> QED
        BY <2>1, <2>2, <2>3, <2>4
<1>10. ASSUME NEW w \in Workers, Release(w) PROVE Goal
    <2>1. Ownership'
        BY <1>10, <1>t DEF Release, Ownership, Fail, Answer, Goto
    <2>2. CASE got[w] # None /\ Goto(w, "save") /\ UNCHANGED locals
        <3>1. Rounds' /\ InHand'
            BY <1>10, <2>2, <1>t DEF Release, Goto, Rounds, InHand, locals
        <3> QED
            BY <2>1, <2>2, <1>t, <3>1, SameLocks DEF locals
    <2>3. CASE Fail(w)
        <3>1. Rounds' /\ InHand' /\ HeldByOne'
            BY <2>3, AnswerLocks DEF Fail
        <3> QED
            BY <2>1, <3>1
    <2> QED
        BY <1>10, <2>2, <2>3 DEF Release
<1>11. ASSUME NEW w \in Workers, Save(w) PROVE Goal
    <2>1. owner # w /\ UNCHANGED <<owner, leased>> /\ pc[w] = "save"
        BY <1>11, <1>t DEF Save, Ownership
    <2>2. CASE Fail(w)
        <3>1. Ownership'
            BY <1>t, <2>1, <2>2 DEF Fail, Answer, Goto, Ownership
        <3> QED
            BY <2>1, <2>2, <3>1, AnswerLocks DEF Fail
    <2>3. CASE Goto(w, "refill") /\ UNCHANGED locals
        <3>1. Rounds' /\ InHand'
            BY <2>1, <2>3, <1>t DEF Goto, Rounds, InHand, locals
        <3>2. Ownership'
            BY <1>t, <2>1, <2>3 DEF Goto, Ownership
        <3> QED
            BY <2>3, <1>t, <3>1, <3>2, SameLocks DEF locals
    <2> QED
        BY <1>11, <2>2, <2>3 DEF Save
<1>12. ASSUME NEW i \in Instances, Evict(i) PROVE Goal
    BY <1>12, <1>t DEF Evict, Rounds, InHand, Ownership, HeldByOne
<1>13. ASSUME NEW i \in Instances, Purge(i) PROVE Goal
    BY <1>13, <1>t DEF Purge, Rounds, InHand, Ownership, HeldByOne, locks
<1>14. ASSUME NEW i \in Instances, Replace(i) PROVE Goal
    <2> USE DEF Replace
    <2>1. Rounds' /\ InHand'
        BY <1>14, <1>t DEF Rounds, InHand
    <2>2. Ownership'
        BY <1>14, <1>t DEF Ownership, here
    <2>3. HeldByOne'
        <3>1. ASSUME NEW j \in Instances, NEW n \in Locks, NEW v \in Workers
              PROVE  held'[j][n] = v <=>
                        j = here(v) /\ n = lock'[v] /\ round'[v] # First
            <4>1. held'[j][n] = IF j = i THEN NoOne ELSE held[j][n]
                BY <1>14, <1>t
            <4>2. /\ round'[v] = IF here(v) = i THEN First ELSE round[v]
                  /\ here(v) # i => lock'[v] = lock[v]
                BY <1>14, <1>t
            <4> QED
                BY <1>t, <4>1, <4>2 DEF HeldByOne
        <3> QED
            BY <3>1 DEF HeldByOne
    <2> QED
        BY <2>1, <2>2, <2>3
<1>15. ASSUME LeaseEnds PROVE Goal
    <2>1. Rounds' /\ InHand' /\ Ownership'
        BY <1>15, <1>t DEF LeaseEnds, Rounds, InHand, Ownership
    <2> QED
        BY <1>15, <1>t, <2>1, SameLocks DEF LeaseEnds
<1>16. ASSUME NextDay PROVE Goal
    <2>1. Rounds' /\ InHand' /\ Ownership'
        BY <1>16, <1>t DEF NextDay, Rounds, InHand, Ownership, locks
    <2> QED
        BY <1>16, <1>t, <2>1, SameLocks DEF NextDay, locks
<1>17. ASSUME UNCHANGED vars PROVE Goal
    <2>1. Rounds' /\ InHand' /\ Ownership'
        BY <1>17, <1>t DEF vars, Rounds, InHand, Ownership
    <2> QED
        BY <1>17, <1>t, <2>1, SameLocks DEF vars
<1>18. Goal
    <2> HIDE DEF Goal
    <2> QED
        BY <1>1, <1>2, <1>3, <1>4, <1>5, <1>6, <1>7, <1>8, <1>9, <1>10, <1>11,
           <1>12, <1>13, <1>14, <1>15, <1>16, <1>17 DEF Next, Step
<1> QED
    BY <1>18, <1>t, TypeStep DEF LockInv

LEMMA LockInvariant == Spec => []LockInv
BY InitLockInv, LockStep, PTL DEF Spec

\* However a search ends, with an answer, a refusal, a failed call or save, it
\* has given both locks back, also when its lease ran out, when the registry
\* dropped its lock while it was held, or when its process was replaced.
THEOREM SearchReleasesLocks == Spec => []LocksReleased
<1>1. LockInv => LocksReleased
    <2> SUFFICES ASSUME LockInv, NEW w \in Workers, pc[w] = "idle"
                 PROVE  owner # w /\ \A n \in Locks : held[here(w)][n] # w
        BY DEF LocksReleased
    <2>1. round[w] = First /\ owner # w
        BY DEF LockInv, Rounds, Ownership
    <2> QED
        BY <2>1, HereType DEF LockInv, HeldByOne
<1> QED
    BY <1>1, LockInvariant, PTL

-----------------------------------------------------------------------------
(* one call per process *)

\* A search that has entered its process's lock is alone in it until the
\* registry hands out a second one.
LEMMA AloneInLock ==
    ASSUME LockInv, calls # None, Counted,
           NEW v \in Workers, NEW w \in Workers, here(v) = here(w),
           round[v] # First, round[w] # First
    PROVE  v = w
<1>1. lock[v] = 1 /\ lock[w] = 1 /\ 1 \in Locks
    BY DEF Counted
<1>2. held[here(v)][1] = v /\ held[here(w)][1] = w
    BY <1>1, HereType DEF LockInv, HeldByOne
<1> QED
    BY <1>2

LEMMA ServedType ==
    /\ IsFiniteSet(Served)
    /\ Cardinality(Served) \in Nat
    /\ Cardinality(Served) <= Cardinality(Instances)
BY FS_Subset, FS_CardinalityType DEF Served

\* A process that is served stays so until a lookup is lost.
LEMMA CountedStays ==
    ASSUME LockInv, Counted, calls' = calls, calls # None,
           Served \subseteq Served', Served' \subseteq Instances,
           newest' = newest, \A w \in Workers : lock'[w] = 1,
           \A w \in Workers :
              pc'[w] \in {"cool", "ask", "call"} => table'[here(w)] = None
    PROVE  Counted'
<1>1. IsFiniteSet(Served') /\ Cardinality(Served) <= Cardinality(Served')
    BY FS_Subset
<1>2. Cardinality(Served') \in Nat
    BY <1>1, FS_CardinalityType
<1>3. calls <= Cardinality(Served) /\ calls \in Nat
    BY DEF Counted, LockInv, TypeOK
<1>4. calls' <= Cardinality(Served')
    BY <1>1, <1>2, <1>3, ServedType
<1> QED
    BY <1>4 DEF Counted

\* Once a lookup may be lost nothing more is counted.
LEMMA LostStays ==
    ASSUME TypeOK, [Next]_vars, calls = None
    PROVE  calls' = None
<1> USE DEF TypeOK
<1>1. ASSUME NEW w \in Workers, Start(w) \/ Step(w) PROVE calls' = None
    BY <1>1, InstancesCount
       DEF Step, Start, Look, LookTable, Refill, NameLock, Enter, Cool, Ask, Call, Release, Save
<1>2. ASSUME NEW i \in Instances, Evict(i) \/ Purge(i) \/ Replace(i)
      PROVE  calls' = None
    BY <1>2 DEF Evict, Purge, Replace
<1>3. CASE LeaseEnds \/ NextDay \/ UNCHANGED vars
    BY <1>3 DEF LeaseEnds, NextDay, vars
<1> QED
    BY <1>1, <1>2, <1>3 DEF Next

\* The calls are counted by the processes they served: the one that the caller
\* of the API serves was not served before.
LEMMA CountedStep ==
    ASSUME IInv, [Next]_vars
    PROVE  Counted'
<1>i. LockInv /\ Counted
    BY DEF IInv
<1>t. TypeOK /\ Rounds /\ InHand /\ Ownership /\ HeldByOne
    BY <1>i DEF LockInv
<1>n. calls' = None => Counted'
    BY DEF Counted
<1> SUFFICES ASSUME calls' # None PROVE Counted'
    BY <1>n
<1>c. calls # None
    BY <1>t, LostStays
<1>d. /\ \A i \in Instances : newest[i] = 1
      /\ \A w \in Workers : lock[w] = 1
      /\ \A w \in Workers :
            pc[w] \in {"cool", "ask", "call"} => table[here(w)] = None
      /\ calls <= Cardinality(Served)
    BY <1>c, <1>i DEF Counted
<1>s. Served' \subseteq Instances
    BY DEF Served
<1> USE DEF TypeOK
<1>1. ASSUME NEW w \in Workers, Start(w) PROVE Counted'
    <2>1. /\ Served \subseteq Served'
          /\ \A v \in Workers : pc'[v] \in {"cool", "ask", "call"} => pc[v] = pc'[v]
        BY <1>1, <1>t DEF Start, Goto, Served, stores
    <2> QED
        BY <1>1, <1>c, <1>d, <1>i, <1>s, <2>1, CountedStays DEF Start, locks, stores
<1>2. ASSUME NEW w \in Workers, Answer(w, None) \/ Answer(w, cacheAge) \/ Answer(w, got[w]),
             pc[w] \in {"look", "table", "cool", "refill"} \/ got[w] = None,
             UNCHANGED <<table, newest, calls>>
      PROVE  Counted'
    <2>1. Served \subseteq Served'
        BY <1>2, <1>t DEF Answer, Goto, Served
    <2>2. /\ \A v \in Workers : pc'[v] \in {"cool", "ask", "call"} => pc[v] = pc'[v]
          /\ \A v \in Workers : lock'[v] = 1
        BY <1>2, <1>d, <1>t DEF Answer, Goto
    <2> QED
        BY <1>2, <1>c, <1>d, <1>i, <1>s, <2>1, <2>2, CountedStays
<1>3. ASSUME NEW w \in Workers, UNCHANGED <<table, newest, calls>>, UNCHANGED locals,
             \/ Goto(w, "table")
             \/ Goto(w, "name")
             \/ Goto(w, "ask") /\ pc[w] = "cool"
             \/ Goto(w, "cool") /\ table[here(w)] = None
             \/ Goto(w, "save") /\ pc[w] = "release",
             pc[w] \notin {"release", "save"} \/ Goto(w, "save")
      PROVE  Counted'
    <2>1. Served \subseteq Served'
        BY <1>3, <1>t DEF Goto, Served, locals
    <2>2. \A v \in Workers : pc'[v] \in {"cool", "ask", "call"} => table'[here(v)] = None
        BY <1>3, <1>d, <1>t DEF Goto
    <2> QED
        BY <1>3, <1>c, <1>d, <1>i, <1>s, <2>1, <2>2, CountedStays DEF locals
<1>4. ASSUME NEW w \in Workers, Look(w) PROVE Counted'
    <2>1. pc[w] = "look" /\ UNCHANGED <<table, newest, calls>>
        BY <1>4 DEF Look, stores
    <2>2. CASE Answer(w, cacheAge)
        BY <1>2, <2>1, <2>2
    <2>3. CASE Goto(w, "table") /\ UNCHANGED locals
        BY <1>3, <2>1, <2>3
    <2> QED
        BY <1>4, <2>2, <2>3 DEF Look
<1>5. ASSUME NEW w \in Workers, LookTable(w) PROVE Counted'
    <2>1. CASE table[here(w)] # None
        <3>1. Served \subseteq Served'
            BY <1>5, <2>1, <1>t DEF LookTable, Goto, Served, stores
        <3>2. \A v \in Workers : pc'[v] \in {"cool", "ask", "call"} => pc[v] = pc'[v]
            BY <1>5, <2>1, <1>t DEF LookTable, Goto
        <3> QED
            BY <1>5, <2>1, <1>c, <1>d, <1>i, <1>s, <3>1, <3>2, CountedStays DEF LookTable, stores
    <2>2. CASE table[here(w)] = None
        <3>1. pc[w] = "table" /\ UNCHANGED <<table, newest, calls>>
            BY <1>5 DEF LookTable, stores
        <3>2. CASE Answer(w, None)
            BY <1>2, <3>1, <3>2
        <3>3. CASE (Goto(w, "name") \/ Goto(w, "cool")) /\ UNCHANGED locals
            BY <1>3, <2>2, <3>1, <3>3
        <3> QED
            BY <1>5, <2>2, <3>2, <3>3 DEF LookTable, Missed, Fail
    <2> QED
        BY <2>1, <2>2
<1>6. ASSUME NEW w \in Workers, Refill(w) PROVE Counted'
    BY <1>2, <1>6 DEF Refill
<1>7. ASSUME NEW w \in Workers, NameLock(w) PROVE Counted'
    <2>1. Served \subseteq Served'
        BY <1>7, <1>t DEF NameLock, Goto, Served, stores
    <2>2. /\ \A v \in Workers : pc'[v] \in {"cool", "ask", "call"} => pc[v] = pc'[v]
          /\ \A v \in Workers : lock'[v] = 1
        BY <1>7, <1>d, <1>t, HereType DEF NameLock, Goto
    <2> QED
        BY <1>7, <1>c, <1>d, <1>i, <1>s, <2>1, <2>2, CountedStays DEF NameLock, stores
<1>8. ASSUME NEW w \in Workers, Enter(w) PROVE Counted'
    <2>1. Served \subseteq Served'
        BY <1>8, <1>t DEF Enter, Goto, Served, stores
    <2>2. \A v \in Workers : pc'[v] \in {"cool", "ask", "call"} => pc[v] = pc'[v]
        BY <1>8, <1>t DEF Enter, Goto
    <2> QED
        BY <1>8, <1>c, <1>d, <1>i, <1>s, <2>1, <2>2, CountedStays DEF Enter, stores
<1>9. ASSUME NEW w \in Workers, Cool(w) PROVE Counted'
    BY <1>2, <1>3, <1>9 DEF Cool, Fail, stores
<1>10. ASSUME NEW w \in Workers, Ask(w) PROVE Counted'
    <2>1. Served \subseteq Served'
        BY <1>10, <1>t DEF Ask, Goto, Served, stores
    <2>2. \A v \in Workers : pc'[v] \in {"cool", "ask", "call"} =>
                                pc[v] \in {"cool", "ask", "call"}
        BY <1>10, <1>t DEF Ask, Goto
    <2> QED
        BY <1>10, <1>c, <1>d, <1>i, <1>s, <2>1, <2>2, CountedStays DEF Ask, stores
<1>11. ASSUME NEW w \in Workers, Call(w) PROVE Counted'
    <2> DEFINE i == here(w)
    <2>1. /\ pc[w] = "call" /\ round[w] = Second /\ table[i] = None
          /\ UNCHANGED <<table, newest, lock, round>>
        BY <1>11, <1>t, <1>d DEF Call, Rounds, stores, locks
    <2>2. ASSUME NEW v \in Workers, here(v) = i, pc[v] \in {"release", "save"} PROVE FALSE
        <3>1. round[v] = Second
            BY <1>t, <2>2 DEF Rounds
        <3> QED
            BY <1>c, <1>i, <2>1, <2>2, <3>1, AloneInLock
    <2>3. i \in Instances /\ i \notin Served
        BY <2>1, <2>2, HereType DEF Served
    <2>4. Served \subseteq Served'
        BY <1>11, <1>t, <2>1 DEF Call, Goto, Served
    <2>5. \A v \in Workers : pc'[v] \in {"cool", "ask", "call"} => table'[here(v)] = None
        BY <1>11, <1>t, <1>d, <2>1 DEF Call, Goto
    <2>6. CASE UNCHANGED calls
        BY <1>c, <1>d, <1>i, <1>s, <2>1, <2>4, <2>5, <2>6, CountedStays
    <2>7. CASE got' = [got EXCEPT ![w] = 0] /\ calls' = calls + 1
        <3>1. i \in Served'
            BY <1>11, <1>t, <2>3, <2>7 DEF Call, Goto, Served
        <3>2. IsFiniteSet(Served') /\ Served \cup {i} \subseteq Served'
            BY <1>s, <2>4, <3>1, FS_Subset
        <3>3. Cardinality(Served \cup {i}) = Cardinality(Served) + 1
            BY <2>3, ServedType, FS_AddElement
        <3>4. Cardinality(Served) + 1 <= Cardinality(Served') /\ Cardinality(Served') \in Nat
            BY <3>2, <3>3, FS_Subset, FS_CardinalityType
        <3>5. calls' <= Cardinality(Served')
            BY <1>c, <1>d, <1>t, <2>7, <3>4, ServedType
        <3> QED
            BY <1>d, <2>1, <2>5, <3>5 DEF Counted
    <2> QED
        BY <1>11, <2>6, <2>7 DEF Call
<1>12. ASSUME NEW w \in Workers, Release(w) PROVE Counted'
    BY <1>2, <1>3, <1>12 DEF Release, Fail, stores
<1>13. ASSUME NEW w \in Workers, Save(w) PROVE Counted'
    <2>1. /\ table' = [table EXCEPT ![here(w)] = 0] /\ Goto(w, "refill")
          /\ UNCHANGED <<locals, calls, newest>> /\ pc[w] = "save"
        BY <1>13 DEF Save
    <2>2. Served \subseteq Served'
        BY <1>t, <2>1 DEF Goto, Served, locals
    <2>3. ASSUME NEW v \in Workers, pc'[v] \in {"cool", "ask", "call"}
          PROVE  table'[here(v)] = None
        <3>1. v # w /\ pc[v] \in {"cool", "ask", "call"}
            BY <1>t, <2>1, <2>3 DEF Goto
        <3>2. round[v] = Second /\ round[w] = Second
            BY <1>t, <2>1, <3>1 DEF Rounds
        <3>3. here(v) # here(w)
            BY <1>c, <1>i, <3>1, <3>2, AloneInLock
        <3> QED
            BY <1>d, <1>t, <2>1, <3>1, <3>3, HereType
    <2> QED
        BY <1>c, <1>d, <1>i, <1>s, <2>1, <2>2, <2>3, CountedStays DEF locals
<1>14. CASE NextDay
    <2>1. \A j \in Instances : table'[j] = None <=> table[j] = None
        BY <1>14, <1>t, OlderType DEF NextDay
    <2>2. UNCHANGED <<pc, got, newest, lock>> /\ calls' = calls
        BY <1>14 DEF NextDay, locks
    <2>3. Served \subseteq Served'
        BY <2>1, <2>2 DEF Served
    <2> QED
        BY <1>c, <1>d, <1>i, <1>s, <2>1, <2>2, <2>3, HereType, CountedStays
<1>15. CASE UNCHANGED vars
    BY <1>15, <1>i DEF vars, Counted, Served
<1> QED
    BY <1>1, <1>4, <1>5, <1>6, <1>7, <1>8, <1>9, <1>10, <1>11, <1>12, <1>13,
       <1>14, <1>15 DEF Next, Step, Evict, Purge, Replace, LeaseEnds

\* One caller at a time: of two searches in the call at most one has a lease,
\* although a name may have two locks in one process.  And until a lookup is
\* lost no process asks for the name twice, although the distributed lock is
\* given back before the answer is saved: whoever waits behind it is in
\* another process.
THEOREM SearchAsksOnce == Spec => []AskedOnce
<1>1. Init => IInv
    <2>1. Init => Counted
        BY ServedType DEF Init, Counted
    <2> QED
        BY <2>1, InitLockInv DEF IInv
<1>2. IInv /\ [Next]_vars => IInv'
    BY LockStep, CountedStep DEF IInv
<1>3. IInv => AskedOnce
    <2> SUFFICES ASSUME IInv PROVE AskedOnce
        OBVIOUS
    <2>1. OneCaller
        BY DEF IInv, LockInv, Ownership, OneCaller
    <2>2. CallsBounded
        <3>1. CASE calls = None
            BY <3>1, InstancesCount DEF CallsBounded
        <3>2. CASE calls # None
            BY <3>2, ServedType, InstancesCount
               DEF CallsBounded, IInv, LockInv, TypeOK, Counted
        <3> QED
            BY <3>1, <3>2
    <2> QED
        BY <2>1, <2>2 DEF AskedOnce
<1> QED
    BY <1>1, <1>2, <1>3, PTL DEF Spec
=============================================================================
