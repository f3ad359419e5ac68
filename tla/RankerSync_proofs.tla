------------------------- MODULE RankerSync_proofs -------------------------
(***************************************************************************)
(* Theorems about RankerSync, for any instances, callers, rankers and      *)
(* retention: the lock of an instance is its worker's, a sync is tried     *)
(* once a day, and a valid snapshot that is shared is what is answered.    *)
(***************************************************************************)
EXTENDS RankerSync, NaturalLemmas, TLAPS

USE HomeOfAssumption, ActorsAssumption, RanksAssumption,
    RetentionAssumption, AutoSyncAssumption

\* Workers do the daily sync, requests all the rest.
Jobs ==
    /\ \A i \in Instances : job[i] \in {"daily", "refresh"}
    /\ \A c \in Callers : job[c] \in {"read", "latest", "refresh"}

\* A thread that could not be started left no worker, and nobody can start one
\* under the lock it left.
StuckIsIdle == \A i \in Instances : stuck[i] => pc[i] = "idle"

\* A sync that has ended has recorded its attempt.
EndedWasTried == \A i \in Instances : ended[i] => attempted[i]

WorkerInv == Jobs /\ StuckIsIdle /\ LockedByWorker /\ EndedWasTried /\ OneSyncADay

\* What is about to be shared is valid.
Storing == {"storePrimed", "storePrimedLast", "store", "storeLast"}
StoresValid == \A a \in Actors : pc[a] \in Storing => Valid(hand[a])

\* A request that asked while a valid snapshot was shared still finds it, or
\* has one in hand until it answers.
Holding == Storing \cup {"aggregate", "answer"}
KeptIsFound ==
    \A c \in Callers : kept[c] =>
        \/ pc[c] = "look" /\ Valid(lastValid)
        \/ pc[c] \in Holding /\ Valid(hand[c])

IInv == RankerTypeOK /\ WorkerInv /\ StoresValid /\ KeptIsFound

-----------------------------------------------------------------------------
(* the table *)

\* What an aggregation makes is dated by a row that may still be kept.
LEMMA AggregatedIsValid ==
    ASSUME RankerTypeOK, NEW i \in Instances, Members(i) # {}
    PROVE  Aggregated(i) \in Snapshots /\ Valid(Aggregated(i))
<1> DEFINE Ages == {table[i][r].age : r \in Listed(i)}
           Used == {table[i][r].age : r \in Members(i)}
<1>1. \A r \in Listed(i) : table[i][r].age \in AgesOf /\ table[i][r].age < Retention
    BY DEF RankerTypeOK, Rows, Listed
<1>2. Members(i) \subseteq Listed(i)
    BY DEF Members
<1>3. Ages \in SUBSET Nat /\ Ages # {} /\ Used \in SUBSET AgesOf /\ Used # {}
    BY <1>1, <1>2 DEF AgesOf
<1> HIDE DEF Ages, Used
<1>4. \E n \in Ages : \A m \in Ages : n <= m
    BY <1>3, LeastNatural
<1>5. \E n \in Used : \A m \in Used : m <= n
    BY <1>3, GreatestNatural DEF AgesOf
<1>6. Youngest(i) \in Ages
    BY <1>4 DEF Youngest, Ages
<1>7. Aggregated(i).oldest \in Used
    BY <1>5 DEF Aggregated, Used
<1>8. Aggregated(i).age \in AgesOf /\ Aggregated(i).age < Retention
    BY <1>1, <1>6 DEF Aggregated, Ages
<1>9. Aggregated(i) = [age |-> Aggregated(i).age, oldest |-> Aggregated(i).oldest]
    BY DEF Aggregated
<1> QED
    BY <1>3, <1>7, <1>8, <1>9 DEF Snapshots, Valid

-----------------------------------------------------------------------------
(* types *)

LEMMA Homes ==
    /\ \A c \in Callers : c \in Actors /\ c \notin Instances /\ HomeOf[c] \in Instances
    /\ \A i \in Instances : i \in Actors
    /\ \A a \in Actors : Home(a) \in Instances
    /\ \A i \in Instances : Home(i) = i /\ i \notin Callers
BY DEF Home, Actors

\* What prime_ranker_benchmark leads to is a place of the model.
LEMMA PrimePlaces ==
    ASSUME NEW a \in Actors, NEW s
    PROVE  PlaceAfterPrime(a, s) \in {"check", "answer", "aggregate"}
BY DEF PlaceAfterPrime

LEMMA LookMoves ==
    ASSUME NEW a \in Actors, Look(a)
    PROVE  \E p \in {"check", "answer", "aggregate", "storePrimed"} :
              pc' = [pc EXCEPT ![a] = p]
BY PrimePlaces DEF Look, Goto

\* No handler changes a type, whatever the table holds.
LEMMA TypeInv == RankerTypeOK /\ [RankerNext]_rankerVars => RankerTypeOK'
<1> SUFFICES ASSUME RankerTypeOK, [RankerNext]_rankerVars PROVE RankerTypeOK'
    OBVIOUS
<1> USE DEF RankerTypeOK, Goto, Take, sharedVars, localVars, historyVars, Places
<1>1. NoSnapshot \in Snapshots /\ NoRow \in Rows
    BY DEF NoSnapshot, NoRow, Snapshots, Rows, AgesOf
<1>2. ASSUME NEW c \in Callers,
             Ask(c) \/ AskStarts(c) \/ AskCannotStart(c) \/ AskRefresh(c)
             \/ ListLatest(c) \/ Answer(c)
      PROVE  RankerTypeOK'
    <2> USE Homes
    <2>1. CASE Ask(c)
        BY <2>1 DEF Ask, NoTrigger, Actors
    <2>2. CASE AskStarts(c)
        <3>1. PICK j \in {"read", "latest"} :
                /\ job' = [job EXCEPT ![c] = j]
                /\ pc' = [pc EXCEPT ![c] = IF j = "read" THEN "look" ELSE "list",
                                    ![HomeOf[c]] = "start"]
            BY <2>2 DEF AskStarts
        <3>2. pc' \in [Actors -> Places] /\ job' \in [Actors -> {"daily", "refresh", "read", "latest"}]
            BY <3>1
        <3>3. kept' \in [Callers -> BOOLEAN]
            BY <2>2 DEF AskStarts, Valid
        <3> QED
            BY <2>2, <3>2, <3>3 DEF AskStarts
    <2>3. CASE AskCannotStart(c)
        BY <2>3 DEF AskCannotStart
    <2>4. CASE AskRefresh(c)
        BY <2>4 DEF AskRefresh
    <2>5. CASE ListLatest(c)
        BY <2>5 DEF ListLatest
    <2>6. CASE Answer(c)
        BY <1>1, <2>6 DEF Answer
    <2> QED
        BY <1>2, <2>1, <2>2, <2>3, <2>4, <2>5, <2>6
<1>3. ASSUME NEW i \in Instances,
             NotAgain(i) \/ Check(i) \/ Lock(i) \/ Finish(i) \/ Restart(i)
      PROVE  RankerTypeOK'
    <2> USE DEF WorkerEnds
    <2>1. CASE NotAgain(i)
        BY <2>1 DEF NotAgain
    <2>2. CASE Check(i)
        BY <1>1, <2>2 DEF Check
    <2>3. CASE Lock(i)
        BY <2>3 DEF Lock
    <2>4. CASE Finish(i)
        BY <1>1, <2>4 DEF Finish
    <2>5. CASE Restart(i)
        BY <1>1, <2>5, Homes DEF Restart, StartPlace
    <2> QED
        BY <1>3, <2>1, <2>2, <2>3, <2>4, <2>5
<1>4. ASSUME NEW a \in Actors,
             Fetch(a) \/ Save(a) \/ Look(a) \/ Aggregate(a) \/ Store(a) \/ StoreLast(a)
      PROVE  RankerTypeOK'
    <2> USE Homes
    <2>1. CASE Fetch(a)
        BY <2>1 DEF Fetch
    <2>2. CASE Save(a)
        <3>1. table' \in [Instances -> [Ranks -> Rows]]
            <4>1. PICK n \in {0} \cup Ranks : \E usable \in SUBSET {r \in Ranks : r <= n} :
                    table' = [table EXCEPT ![Home(a)] = [r \in Ranks |->
                        IF r <= n THEN [age |-> 0, usable |-> r \in usable] ELSE @[r]]]
                BY <2>2 DEF Save
            <4>2. PICK usable \in SUBSET {r \in Ranks : r <= n} :
                    table' = [table EXCEPT ![Home(a)] = [r \in Ranks |->
                        IF r <= n THEN [age |-> 0, usable |-> r \in usable] ELSE @[r]]]
                BY <4>1
            <4>3. \A r \in Ranks : [age |-> 0, usable |-> r \in usable] \in Rows
                BY DEF Rows, AgesOf
            <4> QED
                BY <4>2, <4>3
        <3>2. kept' \in [Callers -> BOOLEAN]
            <4>1. Valid(lastValid) \in BOOLEAN
                BY DEF Valid
            <4> QED
                BY <2>2, <4>1 DEF Save
        <3> QED
            BY <2>2, <3>1, <3>2 DEF Save
    <2>3. CASE Look(a)
        <3>1. [age |-> bundled, oldest |-> bundled] \in Snapshots
            BY DEF Snapshots
        <3>2. pc' \in [Actors -> Places]
            BY ZenonT(30), <2>3, LookMoves
        <3>3. hand' \in [Actors -> Snapshots]
            BY <2>3, <3>1 DEF Look
        <3> QED
            BY <2>3, <3>2, <3>3 DEF Look
    <2>4. CASE Aggregate(a)
        <3>1. CASE Members(Home(a)) # {}
            <4>1. hand' \in [Actors -> Snapshots]
                BY SMTT(30), <2>4, <3>1, AggregatedIsValid DEF Aggregate
            <4> QED
                BY ZenonT(30), <2>4, <3>1, <4>1 DEF Aggregate
        <3>2. CASE Members(Home(a)) = {}
            BY SMTT(30), <2>4, <3>2 DEF Aggregate, Returns
        <3> QED
            BY <3>1, <3>2
    <2>5. CASE Store(a)
        BY <2>5 DEF Store
    <2>6. CASE StoreLast(a)
        BY <2>6, PrimePlaces DEF StoreLast, Returns
    <2> QED
        BY <1>4, <2>1, <2>2, <2>3, <2>4, <2>5, <2>6
<1>5. CASE HourIsOver \/ LeaseIsOver
    BY <1>1, <1>5 DEF HourIsOver, LeaseIsOver
<1>6. CASE DayPasses
    <2>1. \A n \in AgesOf : OneDayOlder(n) \in AgesOf
        BY DEF OneDayOlder, AgesOf
    <2>2. OlderSnapshot(lastValid) \in Snapshots
        BY <1>1, <2>1 DEF OlderSnapshot, Snapshots, AgesOf
    <2>3. table' \in [Instances -> [Ranks -> Rows]]
        <3>1. \A i \in Instances, r \in Ranks :
                table[i][r].age + 1 < Retention =>
                    [table[i][r] EXCEPT !.age = @ + 1] \in Rows
            BY SMTT(30) DEF Rows, AgesOf
        <3> QED
            BY <1>1, <1>6, <3>1 DEF DayPasses
    <2> QED
        BY <1>1, <1>6, <2>1, <2>2, <2>3 DEF DayPasses
<1>7. CASE UNCHANGED rankerVars
    BY <1>7 DEF rankerVars
<1> QED
    BY <1>2, <1>3, <1>4, <1>5, <1>6, <1>7 DEF RankerNext

-----------------------------------------------------------------------------
(* the worker of an instance *)

\* A worker under way may move on, and a request may move anywhere.
LEMMA MoveKeepsWorkers ==
    ASSUME RankerTypeOK, WorkerInv, NEW a \in Actors, NEW p \in Places,
           pc' = [pc EXCEPT ![a] = p],
           a \in Instances => pc[a] # "idle" /\ p \notin {"idle", "start"} /\ ~ended[a],
           UNCHANGED <<syncing, attempted, stuck, ended>>, Jobs'
    PROVE  WorkerInv'
BY Homes DEF RankerTypeOK, WorkerInv, Jobs, StuckIsIdle, LockedByWorker,
   EndedWasTried, OneSyncADay

\* A worker may end and release the lock of its instance.
LEMMA EndKeepsWorkers ==
    ASSUME RankerTypeOK, WorkerInv, NEW i \in Instances, pc[i] # "idle",
           WorkerEnds(i), UNCHANGED <<attempted, stuck, ended>>, Jobs'
    PROVE  WorkerInv'
BY Homes DEF RankerTypeOK, WorkerInv, Jobs, StuckIsIdle, LockedByWorker,
   EndedWasTried, OneSyncADay, WorkerEnds, Goto

\* A step of a request leaves the workers alone, but may start one or fail to.
LEMMA RequestsKeepWorkers ==
    ASSUME RankerTypeOK, WorkerInv, NEW c \in Callers,
           Ask(c) \/ AskStarts(c) \/ AskCannotStart(c) \/ AskRefresh(c)
           \/ ListLatest(c) \/ Answer(c)
    PROVE  WorkerInv'
<1> USE Homes DEF RankerTypeOK, WorkerInv, Jobs, StuckIsIdle, LockedByWorker,
        EndedWasTried, OneSyncADay, Goto, Take, sharedVars, localVars, historyVars
<1>1. CASE Ask(c)
    BY <1>1 DEF Ask, NoTrigger
<1>2. CASE AskStarts(c)
    <2>1. pc' = [pc EXCEPT ![c] = pc'[c], ![HomeOf[c]] = "start"]
          /\ job' = [job EXCEPT ![c] = job'[c]] /\ job'[c] \in {"read", "latest"}
        BY ZenonT(60), <1>2 DEF AskStarts
    <2>2. pc[HomeOf[c]] = "idle" /\ ~stuck[HomeOf[c]]
        BY <1>2 DEF AskStarts
    <2>3. \A i \in Instances : pc'[i] = IF i = HomeOf[c] THEN "start" ELSE pc[i]
        BY <2>1
    <2>4. syncing' = [syncing EXCEPT ![HomeOf[c]] = TRUE]
        BY <1>2 DEF AskStarts
    <2>5. Jobs'
        <3>1. PICK j \in {"read", "latest"} : job' = [job EXCEPT ![c] = j]
            BY <1>2 DEF AskStarts
        <3> QED
            BY <3>1
    <2>6. UNCHANGED <<stuck, ended, attempted>>
        BY <1>2 DEF AskStarts
    <2>7. StuckIsIdle' /\ EndedWasTried' /\ OneSyncADay'
        BY ZenonT(30), <2>2, <2>3, <2>6
    <2>8. LockedByWorker'
        <3>1. ASSUME NEW i \in Instances, i # HomeOf[c]
              PROVE  syncing'[i] <=> (pc'[i] # "idle" \/ stuck'[i])
            BY <2>3, <2>4, <2>6, <3>1
        <3>2. syncing'[HomeOf[c]] /\ pc'[HomeOf[c]] # "idle"
            BY <2>3, <2>4
        <3> QED
            BY <3>1, <3>2
    <2> QED
        BY <2>5, <2>7, <2>8
<1>3. CASE AskCannotStart(c)
    BY <1>3 DEF AskCannotStart
<1>4. CASE AskRefresh(c)
    BY <1>4 DEF AskRefresh
<1>5. CASE ListLatest(c)
    <2>1. CASE UNCHANGED attempted
        BY <1>5, <2>1 DEF ListLatest
    <2>2. CASE attempted' = [attempted EXCEPT ![HomeOf[c]] = TRUE]
        BY <1>5, <2>2 DEF ListLatest
    <2> QED
        BY <1>5, <2>1, <2>2 DEF ListLatest
<1>6. CASE Answer(c)
    BY <1>6 DEF Answer
<1> QED
    BY <1>1, <1>2, <1>3, <1>4, <1>5, <1>6

\* A step of a worker by itself, and the start of a new instance.
LEMMA WorkersKeepWorkers ==
    ASSUME RankerTypeOK, WorkerInv, NEW i \in Instances,
           NotAgain(i) \/ Check(i) \/ Lock(i) \/ Finish(i) \/ Restart(i)
    PROVE  WorkerInv'
<1> USE Homes DEF RankerTypeOK, WorkerInv, Jobs, StuckIsIdle, LockedByWorker,
        EndedWasTried, OneSyncADay, Goto, Take, WorkerEnds, sharedVars, historyVars
<1>1. CASE NotAgain(i)
    BY <1>1, EndKeepsWorkers DEF NotAgain
<1>2. CASE Check(i)
    <2>1. Jobs' /\ pc[i] = "check" /\ UNCHANGED <<attempted, stuck, ended>>
        BY <1>2 DEF Check
    <2>2. WorkerEnds(i) \/ (Goto(i, "lock") /\ UNCHANGED syncing)
        BY <1>2 DEF Check
    <2> QED
        BY <2>1, <2>2, EndKeepsWorkers, MoveKeepsWorkers DEF Places
<1>3. CASE Lock(i)
    <2>1. Jobs' /\ pc[i] = "lock" /\ UNCHANGED <<attempted, stuck, ended>>
        <3>1. job' = job \/ job' = [job EXCEPT ![i] = "refresh"]
            BY <1>3 DEF Lock
        <3>2. Jobs'
            BY ZenonT(30), <3>1
        <3> QED
            BY <1>3, <3>2 DEF Lock
    <2>2. \/ WorkerEnds(i)
          \/ \E p \in {"finish", "fetch"} : Goto(i, p) /\ UNCHANGED syncing
        BY <1>3 DEF Lock
    <2> QED
        BY ZenonT(60), <2>1, <2>2, EndKeepsWorkers, MoveKeepsWorkers DEF Places
<1>4. CASE Finish(i)
    BY <1>4 DEF Finish
<1>5. CASE Restart(i)
    BY <1>5 DEF Restart, StartPlace
<1> QED
    BY <1>1, <1>2, <1>3, <1>4, <1>5

\* The steps that workers share with requests move them so.
LEMMA SyncKeepsWorkers ==
    ASSUME RankerTypeOK, WorkerInv, NEW a \in Actors,
           Fetch(a) \/ Save(a) \/ Look(a) \/ Aggregate(a) \/ Store(a) \/ StoreLast(a)
    PROVE  WorkerInv'
<1> USE DEF Fetch, Save, Look, Aggregate, Store, StoreLast, Goto
<1>1. UNCHANGED <<syncing, attempted, stuck, ended>> /\ Jobs'
    BY DEF sharedVars, localVars, historyVars, WorkerInv, Jobs
<1>2. a \in Instances => pc[a] # "idle" /\ ~ended[a]
    BY Homes DEF WorkerInv, EndedWasTried, OneSyncADay, LockedByWorker
<1>3. \E p \in Places : /\ pc' = [pc EXCEPT ![a] = p]
                        /\ a \in Instances => p \notin {"idle", "start"}
    <2>1. CASE Fetch(a)
        BY <2>1 DEF Places
    <2>2. CASE Look(a)
        BY <2>2, PrimePlaces DEF Places
    <2>3. CASE Aggregate(a)
        BY <2>3 DEF Returns, Places
    <2>4. CASE StoreLast(a)
        BY <2>4, PrimePlaces DEF Returns, Places
    <2>5. CASE Save(a) \/ Store(a)
        BY <2>5 DEF Places
    <2> QED
        BY <2>1, <2>2, <2>3, <2>4, <2>5
<1> QED
    BY <1>1, <1>2, <1>3, MoveKeepsWorkers

LEMMA WorkersInv == RankerTypeOK /\ WorkerInv /\ [RankerNext]_rankerVars => WorkerInv'
<1> SUFFICES ASSUME RankerTypeOK, WorkerInv, [RankerNext]_rankerVars PROVE WorkerInv'
    OBVIOUS
<1>1. CASE HourIsOver \/ LeaseIsOver \/ UNCHANGED rankerVars
    BY <1>1 DEF HourIsOver, LeaseIsOver, rankerVars, localVars, historyVars,
       WorkerInv, Jobs, StuckIsIdle, LockedByWorker, EndedWasTried, OneSyncADay
<1>2. CASE DayPasses
    BY <1>2 DEF DayPasses, WorkerInv, Jobs, StuckIsIdle, LockedByWorker,
       EndedWasTried, OneSyncADay, RankerTypeOK
<1> QED
    BY <1>1, <1>2, RequestsKeepWorkers, WorkersKeepWorkers, SyncKeepsWorkers
    DEF RankerNext

-----------------------------------------------------------------------------
(* the snapshots *)

\* What is stored is the snapshot shipped with the code, as long as it may be
\* kept, or one made of rows that may.
LEMMA StoresInv ==
    RankerTypeOK /\ StoresValid /\ [RankerNext]_rankerVars => StoresValid'
<1> SUFFICES ASSUME RankerTypeOK, StoresValid, [RankerNext]_rankerVars PROVE StoresValid'
    OBVIOUS
<1> USE Homes DEF RankerTypeOK, StoresValid, Storing, Goto, Take, WorkerEnds,
        sharedVars, localVars, historyVars
<1>1. ASSUME NEW c \in Callers,
             Ask(c) \/ AskStarts(c) \/ AskCannotStart(c) \/ AskRefresh(c)
             \/ ListLatest(c) \/ Answer(c)
      PROVE  StoresValid'
    <2>1. CASE AskStarts(c)
        <3>1. PICK p \in {"look", "list"} :
                pc' = [pc EXCEPT ![c] = p, ![HomeOf[c]] = "start"]
            BY <2>1 DEF AskStarts
        <3> QED
            BY <2>1, <3>1 DEF AskStarts
    <2>2. CASE Ask(c) \/ AskCannotStart(c) \/ AskRefresh(c)
        BY <2>2 DEF Ask, AskCannotStart, AskRefresh
    <2>3. CASE ListLatest(c) \/ Answer(c)
        BY <2>3 DEF ListLatest, Answer
    <2> QED
        BY <1>1, <2>1, <2>2, <2>3
<1>2. ASSUME NEW i \in Instances,
             NotAgain(i) \/ Check(i) \/ Lock(i) \/ Finish(i) \/ Restart(i)
      PROVE  StoresValid'
    <2>1. CASE NotAgain(i) \/ Check(i) \/ Lock(i)
        BY <2>1 DEF NotAgain, Check, Lock
    <2>2. CASE Finish(i)
        BY <2>2 DEF Finish
    <2>3. CASE Restart(i)
        <3>1. \A a \in Actors : pc'[a] \in Storing => pc'[a] = pc[a] /\ hand'[a] = hand[a]
            BY <2>3 DEF Restart, StartPlace
        <3> QED
            BY <3>1
    <2> QED
        BY <1>2, <2>1, <2>2, <2>3
<1>3. ASSUME NEW a \in Actors,
             Fetch(a) \/ Save(a) \/ Look(a) \/ Aggregate(a) \/ Store(a) \/ StoreLast(a)
      PROVE  StoresValid'
    <2>1. CASE Fetch(a) \/ Save(a)
        BY <2>1 DEF Fetch, Save
    <2>2. CASE Look(a)
        <3>1. bundled # Retention => Valid([age |-> bundled, oldest |-> bundled])
            BY DEF Valid, AgesOf
        <3>2. PICK s, p : /\ hand' = [hand EXCEPT ![a] = s] /\ pc' = [pc EXCEPT ![a] = p]
                          /\ p \in Storing => Valid(s)
            BY <2>2, <3>1, PrimePlaces DEF Look
        <3> QED
            BY <3>2
    <2>3. CASE Aggregate(a)
        BY <2>3, AggregatedIsValid DEF Aggregate, Returns
    <2>4. CASE Store(a)
        BY <2>4 DEF Store
    <2>5. CASE StoreLast(a)
        BY <2>5, PrimePlaces DEF StoreLast, Returns
    <2> QED
        BY <1>3, <2>1, <2>2, <2>3, <2>4, <2>5
<1>4. CASE HourIsOver \/ LeaseIsOver \/ UNCHANGED rankerVars
    BY <1>4 DEF HourIsOver, LeaseIsOver, rankerVars
<1>5. CASE DayPasses
    BY <1>5 DEF DayPasses
<1> QED
    BY <1>1, <1>2, <1>3, <1>4, <1>5 DEF RankerNext

\* A snapshot that a request could have had stays: what replaces it is valid,
\* and an aggregation of nothing leaves what was read.
LEMMA KeptInv ==
    RankerTypeOK /\ WorkerInv /\ StoresValid /\ KeptIsFound /\ [RankerNext]_rankerVars
        => KeptIsFound'
<1> SUFFICES ASSUME RankerTypeOK, WorkerInv, StoresValid, KeptIsFound,
                    [RankerNext]_rankerVars
             PROVE  KeptIsFound'
    OBVIOUS
<1> USE Homes DEF RankerTypeOK, Holding, Storing, Goto, Take,
        sharedVars, localVars, historyVars
<1>1. ASSUME NEW c \in Callers,
             Ask(c) \/ AskStarts(c) \/ AskCannotStart(c) \/ AskRefresh(c)
             \/ ListLatest(c) \/ Answer(c)
      PROVE  KeptIsFound'
    <2> USE DEF KeptIsFound
    <2>1. CASE Ask(c)
        BY <2>1 DEF Ask
    <2>2. CASE AskStarts(c)
        BY <2>2 DEF AskStarts
    <2>3. CASE AskCannotStart(c)
        BY <2>3 DEF AskCannotStart
    <2>4. CASE AskRefresh(c)
        BY <2>4 DEF AskRefresh
    <2>5. CASE ListLatest(c)
        BY <2>5 DEF ListLatest
    <2>6. CASE Answer(c)
        BY <2>6 DEF Answer
    <2> QED
        BY <1>1, <2>1, <2>2, <2>3, <2>4, <2>5, <2>6
<1>2. ASSUME NEW i \in Instances,
             NotAgain(i) \/ Check(i) \/ Lock(i) \/ Finish(i)
      PROVE  KeptIsFound'
    <2>1. UNCHANGED <<kept, lastValid>>
        BY <1>2 DEF NotAgain, Check, Lock, Finish
    <2>2. \A c \in Callers : pc'[c] = pc[c] /\ hand'[c] = hand[c]
        BY <1>2 DEF NotAgain, Check, Lock, Finish, WorkerEnds
    <2> QED
        BY <2>1, <2>2 DEF KeptIsFound
<1>3. ASSUME NEW i \in Instances, Restart(i) PROVE KeptIsFound'
    BY ZenonT(30), <1>3 DEF Restart, KeptIsFound, Home
<1>4. ASSUME NEW a \in Actors,
             Fetch(a) \/ Save(a) \/ Look(a) \/ Aggregate(a) \/ Store(a) \/ StoreLast(a)
      PROVE  KeptIsFound'
    <2>1. CASE Fetch(a)
        BY <2>1 DEF Fetch, KeptIsFound
    <2>2. CASE Save(a)
        BY <2>2 DEF Save, KeptIsFound
    <2>3. CASE Look(a)
        <3>1. PICK s, p :
                /\ hand' = [hand EXCEPT ![a] = s] /\ pc' = [pc EXCEPT ![a] = p]
                /\ Valid(lastValid) => Valid(s)
                /\ a \in Callers => p \in Holding
            BY <2>3 DEF Look, PlaceAfterPrime, WorkerInv, Jobs, Valid
        <3> QED
            BY <2>3, <3>1 DEF Look, KeptIsFound
    <2>4. CASE Aggregate(a)
        BY SMTT(30), <2>4, AggregatedIsValid DEF Aggregate, Returns, KeptIsFound
    <2>5. CASE Store(a)
        BY <2>5 DEF Store, KeptIsFound
    <2>6. CASE StoreLast(a)
        <3>1. Valid(hand[a])
            BY <2>6 DEF StoreLast, StoresValid
        <3>2. PICK p : /\ pc' = [pc EXCEPT ![a] = p]
                       /\ a \in Callers => p \in Holding
            BY <2>6 DEF StoreLast, PlaceAfterPrime, Returns, WorkerInv, Jobs
        <3> QED
            BY <2>6, <3>1, <3>2 DEF StoreLast, KeptIsFound
    <2> QED
        BY <1>4, <2>1, <2>2, <2>3, <2>4, <2>5, <2>6
<1>5. CASE HourIsOver \/ LeaseIsOver \/ UNCHANGED rankerVars
    BY <1>5 DEF HourIsOver, LeaseIsOver, rankerVars, KeptIsFound
<1>6. CASE DayPasses
    BY <1>6 DEF DayPasses, KeptIsFound
<1> QED
    BY <1>1, <1>2, <1>3, <1>4, <1>5, <1>6 DEF RankerNext

-----------------------------------------------------------------------------
(* the theorems *)

\* An empty table, and a worker under its lock if the sync is on.
LEMMA InitInv == RankerInit => IInv
<1> SUFFICES ASSUME RankerInit PROVE IInv
    OBVIOUS
<1> USE Homes DEF RankerInit, StartPlace
<1>1. RankerTypeOK
    BY DEF RankerTypeOK, Places, NoSnapshot, NoRow, Snapshots, Rows, AgesOf
<1>2. WorkerInv
    BY DEF WorkerInv, Jobs, StuckIsIdle, LockedByWorker, EndedWasTried, OneSyncADay
<1>3. StoresValid /\ KeptIsFound
    BY DEF StoresValid, Storing, KeptIsFound
<1> QED
    BY <1>1, <1>2, <1>3 DEF IInv

LEMMA NextInv == IInv /\ [RankerNext]_rankerVars => IInv'
BY TypeInv, WorkersInv, StoresInv, KeptInv DEF IInv

\* The invariant holds in every reachable state.
LEMMA Invariance == RankerSpec => []IInv
BY InitInv, NextInv, PTL DEF RankerSpec

\* Tables, snapshots, locks and places keep their types, whatever is read,
\* aggregated, stored, outdated or restarted in between.
THEOREM TypeCorrect == RankerSpec => []RankerTypeOK
BY Invariance, PTL DEF IInv

\* _RANKER_SYNC_LOCK: held exactly while the worker of its instance is under
\* way, but for a thread that could not be started.
THEOREM LockIsOfWorker == RankerSpec => []LockedByWorker
BY Invariance, PTL DEF IInv, WorkerInv

\* _ensure_daily_rankers: no second sync of an instance goes to work within a
\* day of the end of the first, failed or not.
THEOREM SyncsOnceADay == RankerSpec => []OneSyncADay
BY Invariance, PTL DEF IInv, WorkerInv

\* get_ranker_benchmark: a valid snapshot that was shared when a request came
\* is not lost to it by other requests, workers, restarts or empty reads.
THEOREM SnapshotIsServed == RankerSpec => []ValidIsServed
<1>1. IInv => ValidIsServed
    BY DEF IInv, KeptIsFound, ValidIsServed, Valid, NoSnapshot
<1> QED
    BY <1>1, Invariance, PTL
=============================================================================
