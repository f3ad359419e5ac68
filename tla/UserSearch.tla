----------------------------- MODULE UserSearch -----------------------------
(***************************************************************************)
(* GET /users/search of apps/api/app/main.py for one name, with the lookup *)
(* table of apps/api/app/db.py and the purge of data past its retention.   *)
(*                                                                         *)
(* A search looks into the shared cache and the table of its process up to *)
(* three times: first without a lock, then under the process's lock of the *)
(* name, and once more when another search has the distributed lock.  A    *)
(* lookup is told apart by its age in days; no search takes that long.     *)
(***************************************************************************)
EXTENDS Integers, FiniteSets

CONSTANTS
    Workers,      \* request threads
    Instances,    \* API processes, each with a table of its own
    InstanceOf,   \* InstanceOf[w]: the process of thread w
    NoOne,        \* the owner of a free lock
    Gone,         \* the owner of a lock whose process was replaced
    Retention,    \* days that API data may be kept
    CacheTtl,     \* days a lookup stays in the cache
    MaxAge,       \* bound: ages above are not told apart
    MaxLocks      \* bound: locks that one process ever makes for the name

ASSUME InstanceOfAssumption == InstanceOf \in [Workers -> Instances]
ASSUME InstancesAssumption == IsFiniteSet(Instances)
ASSUME NoOneAssumption == NoOne \notin Workers /\ Gone \notin Workers
ASSUME GoneAssumption == NoOne # Gone
ASSUME DaysAssumption ==
    Retention \in Nat /\ CacheTtl \in Nat \ {0} /\ MaxAge \in Nat
ASSUME MaxLocksAssumption == MaxLocks \in Nat \ {0}

VARIABLES
    cacheAge,   \* age of the cached lookup, or None
    cacheLeft,  \* days the cached lookup has left
    table,      \* table[i]: age of the row in i's table, or None
    newest,     \* newest[i]: the lock that i's registry has for the name
    held,       \* held[i][n]: the worker that holds lock n of i, or NoOne
    lock,       \* lock[w]: the lock that w was given, 1 before that
    owner,      \* the owner of the distributed lock
    leased,     \* history: workers whose lease has not run out
    pc,         \* the next step of the worker
    round,      \* which of the three looks it is in
    got,        \* age of the lookup that the worker has in hand, or None
    late,       \* history: the last answer had a lookup past its retention
    calls       \* history: answered calls, None once a lookup may be lost

vars == <<cacheAge, cacheLeft, table, newest, held, lock, owner, leased,
          pc, round, got, late, calls>>
stores == <<cacheAge, cacheLeft, table>>
locks == <<newest, held, lock, owner, leased>>
locals == <<held, lock, round, got, late>>

None == -1
Age == 0..MaxAge
Locks == 1..MaxLocks
First == 1      \* the look without a lock
Second == 2     \* the look under the process's lock
Third == 3      \* the look after the distributed lock was taken

Steps == {"idle", "look", "table", "refill", "name", "enter", "cool", "ask",
          "call", "release", "save"}

TypeOK ==
    /\ cacheAge \in {None} \cup Age
    /\ cacheLeft \in 0..CacheTtl
    /\ table \in [Instances -> {None} \cup Age]
    /\ newest \in [Instances -> Locks]
    /\ held \in [Instances -> [Locks -> Workers \cup {NoOne}]]
    /\ lock \in [Workers -> Locks]
    /\ owner \in Workers \cup {NoOne, Gone}
    /\ leased \subseteq Workers
    /\ pc \in [Workers -> Steps]
    /\ round \in [Workers -> First..Third]
    /\ got \in [Workers -> {None} \cup Age]
    /\ late \in BOOLEAN
    /\ calls \in {None} \cup 0..(Cardinality(Instances) + 1)
    /\ cacheAge = None <=> cacheLeft = 0
    /\ \A w \in Workers : pc[w] \in {"save", "refill"} => got[w] # None

Init ==
    /\ cacheAge = None /\ cacheLeft = 0
    /\ table = [i \in Instances |-> None]
    /\ newest = [i \in Instances |-> 1]
    /\ held = [i \in Instances |-> [n \in Locks |-> NoOne]]
    /\ lock = [w \in Workers |-> 1]
    /\ owner = NoOne /\ leased = {}
    /\ pc = [w \in Workers |-> "idle"]
    /\ round = [w \in Workers |-> First]
    /\ got = [w \in Workers |-> None]
    /\ late = FALSE
    /\ calls = 0

-----------------------------------------------------------------------------
(* moves *)

here(w) == InstanceOf[w]
Goto(w, place) == pc' = [pc EXCEPT ![w] = place]

\* Leave the with block, if w has entered it: the lock is free again.
Unlocked(w) ==
    held' = IF round[w] = First THEN held
            ELSE [held EXCEPT ![here(w)][lock[w]] = NoOne]

\* A return or an exception that answers with a lookup of the given age.
Answer(w, age) ==
    /\ Goto(w, "idle")
    /\ Unlocked(w)
    /\ round' = [round EXCEPT ![w] = First]
    /\ got' = [got EXCEPT ![w] = None]
    /\ late' = (age > Retention)
    /\ lock' = [lock EXCEPT ![w] = 1]

Fail(w) == Answer(w, None)

\* Where a look that finds nothing leads.
Missed(w) ==
    \/ round[w] = First /\ Goto(w, "name") /\ UNCHANGED locals
    \/ round[w] = Second /\ Goto(w, "cool") /\ UNCHANGED locals
    \/ round[w] = Third /\ Fail(w)

-----------------------------------------------------------------------------
(* users_search *)

Start(w) ==
    /\ pc[w] = "idle"
    /\ Goto(w, "look")
    /\ UNCHANGED <<stores, locks, round, got, late, calls>>

\* cache.get_json
Look(w) ==
    /\ pc[w] = "look"
    /\ IF cacheAge # None
       THEN Answer(w, cacheAge)
       ELSE Goto(w, "table") /\ UNCHANGED locals
    /\ UNCHANGED <<stores, newest, owner, leased, calls>>

\* get_user_lookup
LookTable(w) ==
    /\ pc[w] = "table"
    /\ IF table[here(w)] # None
       THEN /\ got' = [got EXCEPT ![w] = table[here(w)]]
            /\ Goto(w, "refill")
            /\ UNCHANGED <<held, lock, round, late>>
       ELSE Missed(w)
    /\ UNCHANGED <<stores, newest, owner, leased, calls>>

\* cache.set_json and the answer, for a row or for an answer of the API.
Refill(w) ==
    /\ pc[w] = "refill"
    /\ cacheAge' = got[w]
    /\ cacheLeft' = CacheTtl
    /\ Answer(w, got[w])
    /\ UNCHANGED <<table, newest, owner, leased, calls>>

\* _user_search_lock
NameLock(w) ==
    /\ pc[w] = "name"
    /\ lock' = [lock EXCEPT ![w] = newest[here(w)]]
    /\ Goto(w, "enter")
    /\ UNCHANGED <<stores, newest, held, owner, leased, round, got, late, calls>>

\* A block that does not look again once it has the lock.
EnterWithoutLook(w) ==
    /\ pc[w] = "enter"
    /\ held[here(w)][lock[w]] = NoOne
    /\ held' = [held EXCEPT ![here(w)][lock[w]] = w]
    /\ round' = [round EXCEPT ![w] = Second]
    /\ Goto(w, "cool")
    /\ UNCHANGED <<stores, newest, lock, owner, leased, got, late, calls>>

Enter(w) ==
    /\ pc[w] = "enter"
    /\ held[here(w)][lock[w]] = NoOne
    /\ held' = [held EXCEPT ![here(w)][lock[w]] = w]
    /\ round' = [round EXCEPT ![w] = Second]
    /\ Goto(w, "look")
    /\ UNCHANGED <<stores, newest, lock, owner, leased, got, late, calls>>

\* cooldown_remaining_sec is zero, or the search is refused.
Cool(w) ==
    /\ pc[w] = "cool"
    /\ \/ Goto(w, "ask") /\ UNCHANGED locals
       \/ Fail(w)
    /\ UNCHANGED <<stores, newest, owner, leased, calls>>

\* A search that waits for the one it has met inside its own lock.
AskWaits(w) ==
    /\ pc[w] = "ask"
    /\ owner = NoOne
    /\ owner' = w /\ leased' = leased \cup {w}
    /\ Goto(w, "call")
    /\ UNCHANGED <<stores, newest, held, lock, round, got, late, calls>>

\* acquire_lock: with the lock call the API, otherwise sleep and look again.
Ask(w) ==
    /\ pc[w] = "ask"
    /\ \/ /\ owner = NoOne
          /\ owner' = w /\ leased' = leased \cup {w}
          /\ Goto(w, "call")
          /\ UNCHANGED round
       \/ /\ owner # NoOne
          /\ round' = [round EXCEPT ![w] = Third]
          /\ Goto(w, "look")
          /\ UNCHANGED <<owner, leased>>
    /\ UNCHANGED <<stores, newest, held, lock, got, late, calls>>

\* find_user_by_nickname.  The stale row that its handlers would fall back on
\* cannot exist: a row would have ended the second look.
Call(w) ==
    /\ pc[w] = "call"
    /\ \/ /\ got' = [got EXCEPT ![w] = 0]
          /\ calls' = IF calls \in 0..Cardinality(Instances)
                      THEN calls + 1 ELSE calls
       \/ UNCHANGED <<got, calls>>
    /\ Goto(w, "release")
    /\ UNCHANGED <<stores, locks, round, late>>

\* A release that only the successful path reaches.
ReleaseOnSuccess(w) ==
    /\ pc[w] = "release"
    /\ IF got[w] # None
       THEN /\ owner' = IF owner = w THEN NoOne ELSE owner
            /\ leased' = leased \ {w}
            /\ Goto(w, "save")
            /\ UNCHANGED locals
       ELSE Fail(w) /\ UNCHANGED <<owner, leased>>
    /\ UNCHANGED <<stores, newest, calls>>

\* A failed call that goes on to save what it did not get.
ReleaseAndSave(w) ==
    /\ pc[w] = "release"
    /\ owner' = IF owner = w THEN NoOne ELSE owner
    /\ leased' = leased \ {w}
    /\ Goto(w, "save") /\ UNCHANGED locals
    /\ UNCHANGED <<stores, newest, calls>>

\* A release that does not compare the owner.
ReleaseUnchecked(w) ==
    /\ pc[w] = "release"
    /\ owner' = NoOne
    /\ leased' = leased \ {w}
    /\ \/ got[w] # None /\ Goto(w, "save") /\ UNCHANGED locals
       \/ got[w] = None /\ Fail(w)
    /\ UNCHANGED <<stores, newest, calls>>

\* The finally clause, before the answer is saved.
Release(w) ==
    /\ pc[w] = "release"
    /\ owner' = IF owner = w THEN NoOne ELSE owner
    /\ leased' = leased \ {w}
    /\ \/ got[w] # None /\ Goto(w, "save") /\ UNCHANGED locals
       \/ got[w] = None /\ Fail(w)
    /\ UNCHANGED <<stores, newest, calls>>

\* save_user_lookup, one transaction, which may raise.
Save(w) ==
    /\ pc[w] = "save"
    /\ \/ /\ table' = [table EXCEPT ![here(w)] = 0]
          /\ Goto(w, "refill")
          /\ UNCHANGED <<locals, calls>>
       \/ /\ Fail(w)
          /\ calls' = None
          /\ UNCHANGED table
    /\ UNCHANGED <<cacheAge, cacheLeft, newest, owner, leased>>

-----------------------------------------------------------------------------
(* time, retention and the host *)

\* The 20 s of the distributed lock are over before its search is.
LeaseEnds ==
    /\ owner # NoOne
    /\ owner' = NoOne /\ leased' = leased \ {owner}
    /\ calls' = None
    /\ UNCHANGED <<stores, newest, held, lock, pc, round, got, late>>

\* With more than 5000 names the registry drops the lock of this one, held or
\* not; the next search gets a new lock.
Evict(i) ==
    /\ newest[i] < MaxLocks
    /\ newest' = [newest EXCEPT ![i] = @ + 1]
    /\ calls' = None
    /\ UNCHANGED <<stores, held, lock, owner, leased, pc, round, got, late>>

\* purge_stale_nexon_api_data, in an analysis or at the start of the process.
Purge(i) ==
    /\ table[i] > Retention
    /\ table' = [table EXCEPT ![i] = None]
    /\ calls' = None
    /\ UNCHANGED <<cacheAge, cacheLeft, locks, pc, round, got, late>>

\* A process is replaced: its table, its locks and its searches are gone, what
\* it has in Redis stays.
Replace(i) ==
    /\ table' = [table EXCEPT ![i] = None]
    /\ newest' = [newest EXCEPT ![i] = 1]
    /\ held' = [held EXCEPT ![i] = [n \in Locks |-> NoOne]]
    /\ owner' = IF owner \in Workers /\ InstanceOf[owner] = i THEN Gone ELSE owner
    /\ leased' = {w \in leased : here(w) # i}
    /\ pc' = [w \in Workers |-> IF here(w) = i THEN "idle" ELSE pc[w]]
    /\ round' = [w \in Workers |-> IF here(w) = i THEN First ELSE round[w]]
    /\ got' = [w \in Workers |-> IF here(w) = i THEN None ELSE got[w]]
    /\ lock' = [w \in Workers |-> IF here(w) = i THEN 1 ELSE lock[w]]
    /\ calls' = None
    /\ UNCHANGED <<cacheAge, cacheLeft, late>>

Older(age) == IF age = None THEN None ELSE IF age = MaxAge THEN MaxAge ELSE age + 1

\* A day passes.
NextDay ==
    /\ \A w \in Workers : pc[w] = "idle"
    /\ cacheAge' = IF cacheLeft <= 1 THEN None ELSE Older(cacheAge)
    /\ cacheLeft' = IF cacheLeft = 0 THEN 0 ELSE cacheLeft - 1
    /\ table' = [i \in Instances |-> Older(table[i])]
    /\ calls' = IF cacheAge' = None THEN None ELSE calls
    /\ UNCHANGED <<locks, pc, round, got, late>>

Step(w) ==
    \/ Look(w) \/ LookTable(w) \/ Refill(w) \/ NameLock(w) \/ Enter(w)
    \/ Cool(w) \/ Ask(w) \/ Call(w) \/ Release(w) \/ Save(w)

Next ==
    \/ \E w \in Workers : Start(w) \/ Step(w)
    \/ \E i \in Instances : Evict(i) \/ Purge(i) \/ Replace(i)
    \/ LeaseEnds
    \/ NextDay

\* A search that can go on does: its calls time out.  Nobody has to search, no
\* lock has to run out and no process has to be replaced.
Spec == Init /\ [][Next]_vars /\ \A w \in Workers : WF_vars(Step(w))

-----------------------------------------------------------------------------
(* properties *)

\* The name is asked for by one search at a time, also when the registry has
\* handed out two locks for it in one process, until a lease runs out.
OneCaller ==
    \A v, w \in Workers :
        v # w /\ pc[v] = "call" /\ pc[w] = "call" => v \notin leased \/ w \notin leased

\* As long as nothing that was looked up is lost, every process asks the API
\* for the name at most once, although the distributed lock is released before
\* the answer is saved.
CallsBounded == calls <= Cardinality(Instances)

\* One caller at a time, and no more calls than there are processes.
AskedOnce == OneCaller /\ CallsBounded

\* Whatever way a search ends, it holds neither of its locks afterwards.
LocksReleased ==
    \A w \in Workers : pc[w] = "idle" =>
        /\ owner # w
        /\ \A n \in Locks : held[here(w)][n] # w

\* A process's lock of the name is given back: a search never waits in it for
\* the search that has the distributed lock.
LockComesBack ==
    \A w \in Workers : []<>(round[w] = First)

\* Data that came from the API longer ago than the retention is not served.
ServedInTime == ~ late
=============================================================================
