----------------------------- MODULE RankerSync -----------------------------
(***************************************************************************)
(* The ranker benchmark of fcoach: the daily background sync of            *)
(* apps/api/app/main.py, the ranker table of services/ranker_source.py and *)
(* the shared snapshot of services/ranker_benchmark.py.                    *)
(*                                                                         *)
(* Every instance has a ranker table of its own; the snapshot is kept in   *)
(* the shared cache under two keys, CACHE_KEY for an hour and              *)
(* LAST_VALID_KEY for as long as the data may be kept.  A worker thread of *)
(* an instance syncs once a day under two locks, one of the instance and   *)
(* one shared; requests read the snapshot or, without any lock, refresh it.*)
(*                                                                         *)
(* Time is counted in days.  An age is the number of whole days since the  *)
(* ranking was fetched; what is Retention days old is not kept any more.   *)
(* Rates, members and metrics are left out: a row of the table is usable   *)
(* when its ouid is resolved and some of its matches are stored.           *)
(***************************************************************************)
EXTENDS Integers, FiniteSets

CONSTANTS
    Instances,     \* processes of the service
    Callers,       \* request threads
    HomeOf,        \* HomeOf[c]: the instance that serves caller c
    Ranks,         \* rank_no of the rankers on the list
    Retention,     \* nexon_api_data_ttl_days()
    AutoSync       \* _can_auto_ranker_sync()

ASSUME HomeOfAssumption == HomeOf \in [Callers -> Instances]
ASSUME ActorsAssumption == Instances \cap Callers = {}
ASSUME RanksAssumption == Ranks \subseteq Nat /\ IsFiniteSet(Ranks)
ASSUME RetentionAssumption == Retention \in Nat \ {0}
ASSUME AutoSyncAssumption == AutoSync \in BOOLEAN

NoSnapshot == [age |-> Retention, oldest |-> Retention]
Free == [held |-> "free"]
HeldBy(a) == [held |-> a]
NoRow == [age |-> Retention, usable |-> FALSE]

VARIABLES
    pc,          \* pc[a]: next step of the worker of instance a or caller a
    job,         \* job[a]: "daily", "refresh", "read" or "latest"
    hand,        \* hand[a]: the snapshot a has read or made
    table,       \* table[i][r]: the row of official_rankers at i
    syncing,     \* syncing[i]: _RANKER_SYNC_LOCK of i is held
    attempted,   \* attempted[i]: _LAST_AUTO_RANKER_SYNC_AT is not a day ago
    hourly,      \* the snapshot under CACHE_KEY
    lastValid,   \* the snapshot under LAST_VALID_KEY
    lease,       \* who holds the lock rankers:daily_sync
    bundled,     \* age of the snapshot shipped with the code
    stuck,       \* history: a thread of i could not be started
    ended,       \* history: the last daily sync of i ended within a day
    kept         \* history: a valid snapshot was shared when c asked

sharedVars == <<hourly, lastValid, lease, bundled>>
localVars == <<table, syncing, attempted>>
historyVars == <<stuck, ended, kept>>
rankerVars == <<pc, job, hand, table, syncing, attempted, hourly,
                lastValid, lease, bundled, stuck, ended, kept>>

Actors == Instances \cup Callers
Home(a) == IF a \in Callers THEN HomeOf[a] ELSE a
AgesOf == 0..Retention
Snapshots == [age : AgesOf, oldest : AgesOf]
Rows == [age : AgesOf, usable : BOOLEAN]
Places == {"idle", "start", "look", "storePrimed", "storePrimedLast", "check",
           "lock", "fetch", "save", "aggregate", "store", "storeLast", "finish",
           "answer", "list"}

RankerTypeOK ==
    /\ pc \in [Actors -> Places]
    /\ job \in [Actors -> {"daily", "refresh", "read", "latest"}]
    /\ hand \in [Actors -> Snapshots]
    /\ table \in [Instances -> [Ranks -> Rows]]
    /\ syncing \in [Instances -> BOOLEAN]
    /\ attempted \in [Instances -> BOOLEAN]
    /\ hourly \in Snapshots
    /\ lastValid \in Snapshots
    /\ lease \in {Free} \cup {HeldBy(a) : a \in Instances}
    /\ bundled \in AgesOf
    /\ stuck \in [Instances -> BOOLEAN]
    /\ ended \in [Instances -> BOOLEAN]
    /\ kept \in [Callers -> BOOLEAN]

\* startup(): every instance begins with a worker under its lock.
StartPlace == IF AutoSync THEN "start" ELSE "idle"

RankerInit ==
    /\ pc = [a \in Actors |-> IF a \in Instances THEN StartPlace ELSE "idle"]
    /\ job = [a \in Actors |-> IF a \in Instances THEN "daily" ELSE "read"]
    /\ hand = [a \in Actors |-> NoSnapshot]
    /\ table = [i \in Instances |-> [r \in Ranks |-> NoRow]]
    /\ syncing = [i \in Instances |-> AutoSync]
    /\ attempted = [i \in Instances |-> FALSE]
    /\ hourly = NoSnapshot
    /\ lastValid = NoSnapshot
    /\ lease = Free
    /\ bundled = 0
    /\ stuck = [i \in Instances |-> FALSE]
    /\ ended = [i \in Instances |-> FALSE]
    /\ kept = [c \in Callers |-> FALSE]

-----------------------------------------------------------------------------
(* helpers *)

\* 0 <= age < limit for the whole time data may be kept.
Valid(s) == s.age < Retention

\* age < max_age_hours for 24 hours.
Today(s) == Valid(s) /\ s.age < 1

\* The rows that list_official_rankers returns: those before the cut-off.
Listed(i) == {r \in Ranks : table[i][r].age < Retention}

\* _latest_fetched_at, and max(m['fetched_at'] for m in members)
Youngest(i) == CHOOSE n \in {table[i][r].age : r \in Listed(i)} :
                   \A r \in Listed(i) : n <= table[i][r].age

\* The rankers that aggregate_rankers takes into account.
Members(i) == {r \in Listed(i) : table[i][r].usable}

\* aggregate_rankers, dated by the youngest row of the list; oldest is the age
\* of the oldest row it is made of.
Aggregated(i) ==
    [age |-> Youngest(i),
     oldest |-> CHOOSE n \in {table[i][r].age : r \in Members(i)} :
                    \A r \in Members(i) : table[i][r].age <= n]

Goto(a, place) == pc' = [pc EXCEPT ![a] = place]
Take(a, s) == hand' = [hand EXCEPT ![a] = s]
Returns(a) == Goto(a, IF a \in Instances THEN "finish" ELSE "answer")

-----------------------------------------------------------------------------
(* requests *)

\* _trigger_ranker_sync_async: nothing when it is off or the lock is held.
NoTrigger(i) ==
    /\ ~AutoSync \/ syncing[i]
    /\ UNCHANGED syncing

\* GET /rankers/benchmark and /rankers/latest, when no worker is started.
Ask(c) ==
    /\ pc[c] = "idle"
    /\ NoTrigger(HomeOf[c])
    /\ \E j \in {"read", "latest"} :
          /\ job' = [job EXCEPT ![c] = j]
          /\ Goto(c, IF j = "read" THEN "look" ELSE "list")
    /\ kept' = [kept EXCEPT ![c] = job'[c] = "read" /\ Valid(lastValid)]
    /\ UNCHANGED <<hand, table, attempted, stuck, ended>>
    /\ UNCHANGED sharedVars

\* The same, when the lock is free: the request starts the worker.
AskStarts(c) ==
    /\ pc[c] = "idle"
    /\ AutoSync /\ ~syncing[HomeOf[c]]
    /\ syncing' = [syncing EXCEPT ![HomeOf[c]] = TRUE]
    /\ \E j \in {"read", "latest"} :
          /\ job' = [job EXCEPT ![c] = j]
          /\ pc' = [pc EXCEPT ![c] = IF j = "read" THEN "look" ELSE "list",
                              ![HomeOf[c]] = "start"]
    /\ kept' = [kept EXCEPT ![c] = job'[c] = "read" /\ Valid(lastValid)]
    /\ UNCHANGED <<hand, table, attempted, stuck, ended>>
    /\ UNCHANGED sharedVars

\* thread.start() raises: the request fails and nobody releases the lock.
AskCannotStart(c) ==
    /\ pc[c] = "idle"
    /\ AutoSync /\ ~syncing[HomeOf[c]]
    /\ syncing' = [syncing EXCEPT ![HomeOf[c]] = TRUE]
    /\ stuck' = [stuck EXCEPT ![HomeOf[c]] = TRUE]
    /\ UNCHANGED <<pc, job, hand, table, attempted, ended, kept>>
    /\ UNCHANGED sharedVars

\* POST /rankers/refresh with the admin key: a sync without any lock.
AskRefresh(c) ==
    /\ pc[c] = "idle"
    /\ job' = [job EXCEPT ![c] = "refresh"]
    /\ Goto(c, "fetch")
    /\ UNCHANGED <<hand, localVars, sharedVars, historyVars>>

\* rankers_latest: a failing live read, tried only when the table has nothing
\* to list, counts as an attempt of the daily sync.
ListLatest(c) ==
    /\ pc[c] = "list"
    /\ \/ UNCHANGED attempted
       \/ /\ Listed(HomeOf[c]) = {}
          /\ attempted' = [attempted EXCEPT ![HomeOf[c]] = TRUE]
    /\ Goto(c, "idle")
    /\ UNCHANGED <<job, hand, table, syncing>>
    /\ UNCHANGED <<sharedVars, historyVars>>

-----------------------------------------------------------------------------
(* the worker of an instance: _ensure_daily_rankers *)

\* A worker without the finally around its body.
WorkerEndsLocked(i) ==
    /\ Goto(i, "idle")
    /\ UNCHANGED syncing

\* _worker ends by return: its finally releases the lock of the instance.
WorkerEnds(i) ==
    /\ Goto(i, "idle")
    /\ syncing' = [syncing EXCEPT ![i] = FALSE]

\* Less than a day after the last attempt of this instance there is nothing to
\* do; otherwise prime_ranker_benchmark is next (Look).
NotAgain(i) ==
    /\ pc[i] = "start" /\ attempted[i]
    /\ WorkerEnds(i)
    /\ UNCHANGED <<job, hand, table, attempted>>
    /\ UNCHANGED <<sharedVars, historyVars>>

\* cached_ranker_benchmark(max_age_hours=24): a snapshot of today will do.
Check(i) ==
    /\ pc[i] = "check"
    /\ IF Today(hourly) \/ Today(lastValid)
       THEN WorkerEnds(i)
       ELSE Goto(i, "lock") /\ UNCHANGED syncing
    /\ Take(i, NoSnapshot)
    /\ UNCHANGED <<job, table, attempted>>
    /\ UNCHANGED <<sharedVars, historyVars>>

\* ensure_official_rankers is content with a table of today unless it is forced.
TableOfToday(i) == Listed(i) # {} /\ Youngest(i) < 1

\* cache.acquire_lock('rankers:daily_sync', ttl_sec=600)
Lock(i) ==
    /\ pc[i] = "lock"
    /\ \/ /\ lease = Free
          /\ lease' = HeldBy(i)
          /\ job' = [job EXCEPT ![i] = "refresh"]
          /\ Goto(i, IF TableOfToday(i) THEN "finish" ELSE "fetch")
          /\ UNCHANGED syncing
       \/ lease # Free /\ WorkerEnds(i) /\ UNCHANGED <<lease, job>>
    /\ UNCHANGED <<hand, table, attempted, hourly, lastValid, bundled>>
    /\ UNCHANGED historyVars

\* A sync that records the time of its attempt only where it succeeds.
FinishUnrecorded(i) ==
    /\ pc[i] = "finish"
    /\ attempted' \in {attempted, [attempted EXCEPT ![i] = TRUE]}
    /\ ended' = [ended EXCEPT ![i] = TRUE]
    /\ lease' = IF lease = HeldBy(i) THEN Free ELSE lease
    /\ job' = [job EXCEPT ![i] = "daily"]
    /\ Take(i, NoSnapshot)
    /\ WorkerEnds(i)
    /\ UNCHANGED <<table, hourly, lastValid, bundled, stuck, kept>>

\* The finally of the sync, whatever its outcome, and then that of _worker.
Finish(i) ==
    /\ pc[i] = "finish"
    /\ attempted' = [attempted EXCEPT ![i] = TRUE]
    /\ ended' = [ended EXCEPT ![i] = TRUE]
    /\ lease' = IF lease = HeldBy(i) THEN Free ELSE lease
    /\ job' = [job EXCEPT ![i] = "daily"]
    /\ Take(i, NoSnapshot)
    /\ WorkerEnds(i)
    /\ UNCHANGED <<table, hourly, lastValid, bundled, stuck, kept>>

-----------------------------------------------------------------------------
(* ensure_official_rankers *)

\* fetch_official_rankers raises when a page cannot be read.
Fetch(a) ==
    /\ pc[a] = "fetch"
    /\ \/ Goto(a, IF a \in Instances THEN "finish" ELSE "idle")
       \/ Goto(a, "save")
    /\ UNCHANGED <<job, hand>>
    /\ UNCHANGED <<localVars, sharedVars, historyVars>>

\* The first ranks of the list replace their rows, be it without an ouid: any
\* of them may be unresolved or without matches.  Rows below the end of the
\* list stay.  get_ranker_benchmark(refresh=True) follows.
Save(a) ==
    /\ pc[a] = "save"
    /\ \E n \in {0} \cup Ranks : \E usable \in SUBSET {r \in Ranks : r <= n} :
          table' = [table EXCEPT ![Home(a)] = [r \in Ranks |->
                      IF r <= n THEN [age |-> 0, usable |-> r \in usable] ELSE @[r]]]
    /\ Goto(a, "look")
    /\ kept' = [c \in Callers |-> IF c = a THEN Valid(lastValid) ELSE kept[c]]
    /\ UNCHANGED <<job, hand, syncing, attempted, stuck, ended>>
    /\ UNCHANGED sharedVars

-----------------------------------------------------------------------------
(* prime_ranker_benchmark and get_ranker_benchmark *)

\* What follows prime_ranker_benchmark, which returned s: the worker goes on to
\* its check, a read is answered if there is something to show, and otherwise
\* the table is aggregated.
PlaceAfterPrime(a, s) ==
    CASE job[a] = "daily" -> "check"
      [] job[a] = "read" /\ Valid(s) -> "answer"
      [] OTHER -> "aggregate"

\* A read that knows one key only.
LookHourly(a) ==
    /\ pc[a] = "look" \/ (pc[a] = "start" /\ ~attempted[a])
    /\ IF Valid(hourly) \/ bundled = Retention
       THEN Take(a, hourly) /\ Goto(a, PlaceAfterPrime(a, hourly))
       ELSE /\ Take(a, [age |-> bundled, oldest |-> bundled])
            /\ Goto(a, "storePrimed")
    /\ UNCHANGED job
    /\ UNCHANGED <<localVars, sharedVars, historyVars>>

\* cached_ranker_benchmark(): the hourly key first, then the last valid one.
\* With neither, the snapshot shipped with the code is stored if it may be kept.
Look(a) ==
    /\ pc[a] = "look" \/ (pc[a] = "start" /\ ~attempted[a])
    /\ LET cached == IF Valid(hourly) THEN hourly ELSE lastValid
       IN  IF Valid(cached) \/ bundled = Retention
           THEN Take(a, cached) /\ Goto(a, PlaceAfterPrime(a, cached))
           ELSE /\ Take(a, [age |-> bundled, oldest |-> bundled])
                /\ Goto(a, "storePrimed")
    /\ UNCHANGED job
    /\ UNCHANGED <<localVars, sharedVars, historyVars>>

\* get_ranker_benchmark when it does not return what is cached: a result that
\* is not available leaves what was cached, and is not stored.
Aggregate(a) ==
    /\ pc[a] = "aggregate"
    /\ IF Members(Home(a)) # {}
       THEN Take(a, Aggregated(Home(a))) /\ Goto(a, "store")
       ELSE Returns(a) /\ UNCHANGED hand
    /\ UNCHANGED job
    /\ UNCHANGED <<localVars, sharedVars, historyVars>>

\* store_ranker_benchmark in its two callers: first CACHE_KEY ...
Store(a) ==
    /\ pc[a] \in {"storePrimed", "store"}
    /\ hourly' = hand[a]
    /\ Goto(a, IF pc[a] = "store" THEN "storeLast" ELSE "storePrimedLast")
    /\ UNCHANGED <<job, hand, lastValid, lease, bundled>>
    /\ UNCHANGED <<localVars, historyVars>>

\* ... then LAST_VALID_KEY.
StoreLast(a) ==
    /\ \/ pc[a] = "storePrimedLast" /\ Goto(a, PlaceAfterPrime(a, hand[a]))
       \/ pc[a] = "storeLast" /\ Returns(a)
    /\ lastValid' = hand[a]
    /\ UNCHANGED <<job, hand, hourly, lease, bundled>>
    /\ UNCHANGED <<localVars, historyVars>>

\* The request is over; what it had in hand is forgotten.
Answer(c) ==
    /\ pc[c] = "answer"
    /\ Goto(c, "idle")
    /\ Take(c, NoSnapshot)
    /\ kept' = [kept EXCEPT ![c] = FALSE]
    /\ UNCHANGED <<job, stuck, ended>>
    /\ UNCHANGED <<localVars, sharedVars>>

-----------------------------------------------------------------------------
(* time and failures *)

\* The hour of CACHE_KEY is over.
HourIsOver ==
    /\ hourly # NoSnapshot
    /\ hourly' = NoSnapshot
    /\ UNCHANGED <<pc, job, hand, lastValid, lease, bundled>>
    /\ UNCHANGED <<localVars, historyVars>>

\* The 600 seconds of the shared lock are over, sync or no sync.
LeaseIsOver ==
    /\ lease # Free
    /\ lease' = Free
    /\ UNCHANGED <<pc, job, hand, hourly, lastValid, bundled>>
    /\ UNCHANGED <<localVars, historyVars>>

OneDayOlder(n) == IF n < Retention THEN n + 1 ELSE Retention
OlderSnapshot(s) ==
    IF s.age + 1 < Retention
    THEN [age |-> s.age + 1, oldest |-> OneDayOlder(s.oldest)]
    ELSE NoSnapshot

\* 24 hours pass; no handler takes as long.
DayPasses ==
    /\ \A a \in Actors : pc[a] \in {"idle", "start"}
    /\ table' = [i \in Instances |-> [r \in Ranks |->
                   IF table[i][r].age + 1 < Retention
                   THEN [table[i][r] EXCEPT !.age = @ + 1] ELSE NoRow]]
    /\ attempted' = [i \in Instances |-> FALSE]
    /\ ended' = [i \in Instances |-> FALSE]
    /\ hourly' = NoSnapshot
    /\ lastValid' = OlderSnapshot(lastValid)
    /\ bundled' = OneDayOlder(bundled)
    /\ UNCHANGED <<pc, job, hand, syncing, lease, stuck, kept>>

\* An instance is replaced: empty table, new locks, a worker at once.  The
\* shared lock stays with the token of the dead one.
Restart(i) ==
    /\ pc' = [a \in Actors |-> IF a = i THEN StartPlace
                               ELSE IF Home(a) = i THEN "idle" ELSE pc[a]]
    /\ job' = [job EXCEPT ![i] = "daily"]
    /\ hand' = [a \in Actors |-> IF Home(a) = i THEN NoSnapshot ELSE hand[a]]
    /\ kept' = [c \in Callers |-> kept[c] /\ HomeOf[c] # i]
    /\ table' = [table EXCEPT ![i] = [r \in Ranks |-> NoRow]]
    /\ syncing' = [syncing EXCEPT ![i] = AutoSync]
    /\ attempted' = [attempted EXCEPT ![i] = FALSE]
    /\ ended' = [ended EXCEPT ![i] = FALSE]
    /\ stuck' = [stuck EXCEPT ![i] = FALSE]
    /\ UNCHANGED sharedVars

RankerNext ==
    \/ \E c \in Callers : \/ Ask(c) \/ AskStarts(c) \/ AskCannotStart(c)
                          \/ AskRefresh(c) \/ ListLatest(c) \/ Answer(c)
    \/ \E i \in Instances : \/ NotAgain(i) \/ Check(i) \/ Lock(i) \/ Finish(i)
                            \/ Restart(i)
    \/ \E a \in Actors : \/ Fetch(a) \/ Save(a) \/ Look(a) \/ Aggregate(a)
                         \/ Store(a) \/ StoreLast(a)
    \/ HourIsOver \/ LeaseIsOver \/ DayPasses

RankerSpec == RankerInit /\ [][RankerNext]_rankerVars

-----------------------------------------------------------------------------
(* properties *)

\* The lock of an instance is held by its running worker, or for ever after a
\* thread that could not be started.
LockedByWorker ==
    \A i \in Instances : syncing[i] <=> (pc[i] # "idle" \/ stuck[i])

\* No daily sync goes to work within a day of the end of the last one of its
\* instance, be it that the last one failed.
OneSyncADay ==
    \A i \in Instances : pc[i] \notin {"idle", "start"} => ~ended[i]

\* No request is told that there is no benchmark while a valid one is shared:
\* neither a new instance nor a sync that read nothing takes it away.
ValidIsServed ==
    \A c \in Callers :
        pc[c] = "answer" /\ hand[c] = NoSnapshot => ~kept[c]

\* A snapshot is shared no longer than the rows it was made of may be kept.
SnapshotInTime ==
    \A s \in {hourly, lastValid} : Valid(s) => s.oldest < Retention
=============================================================================
