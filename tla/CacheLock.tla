----------------------------- MODULE CacheLock -----------------------------
(***************************************************************************)
(* The locks of CacheClient (apps/api/app/services/cache.py): one lock key *)
(* shared by several API instances.  Each instance has one CacheClient,    *)
(* which uses Redis until any call to Redis raises and its own memory from *)
(* then on.  A lock is a lease: it ends by release or when its TTL runs    *)
(* out, and the worker that took it is not told.                           *)
(*                                                                         *)
(* Time is counted down: `entry' and `lease' hold what is left, in ticks.  *)
(***************************************************************************)
EXTENDS Integers, FiniteSets

CONSTANTS
    Workers,     \* request threads, all contending for the one key
    Clients,     \* CacheClient objects, one per API instance
    ClientOf,    \* ClientOf[w] is the instance that worker w runs in
    Redis,       \* the shared store
    NoToken,
    TTL,         \* ttl_sec as the callers pass it
    MaxAsks      \* bound: how often each worker asks for the lock

ASSUME ClientOfAssumption == ClientOf \in [Workers -> Clients]
ASSUME RedisAssumption == Redis \notin Clients
ASSUME TTLAssumption == TTL \in Int
ASSUME MaxAsksAssumption == MaxAsks \in Nat

Stores == Clients \cup {Redis}

\* A uuid4 is never drawn twice: the n-th token of worker w.
Tokens == Workers \X (1..MaxAsks)

ASSUME NoTokenAssumption == NoToken \notin Tokens

Lease == IF TTL < 1 THEN 1 ELSE TTL

Entries == [token : Tokens \cup {NoToken}, ttl : 0..Lease]

Free == [token |-> NoToken, ttl |-> 0]

VARIABLES
    entry,    \* entry[s]: what store s holds under the lock key
    online,   \* online[c]: c._redis is not None
    pc,       \* "idle", "asking", "holding", "releasing"
    asks,     \* how many tokens w has drawn
    place,    \* the store that granted w its lock
    lease     \* ticks left of the time w was granted; 0 once it stops

vars == <<entry, online, pc, asks, place, lease>>

token(w) == <<w, asks[w]>>

TypeOK ==
    /\ entry \in [Stores -> Entries]
    /\ online \in [Clients -> BOOLEAN]
    /\ pc \in [Workers -> {"idle", "asking", "holding", "releasing"}]
    /\ asks \in [Workers -> 0..MaxAsks]
    /\ place \in [Workers -> Stores]
    /\ lease \in [Workers -> 0..Lease]

Init ==
    /\ entry = [s \in Stores |-> Free]
    /\ online \in [Clients -> BOOLEAN]   \* REDIS_URL set and ping answered
    /\ pc = [w \in Workers |-> "idle"]
    /\ asks = [w \in Workers |-> 0]
    /\ place = [w \in Workers |-> ClientOf[w]]
    /\ lease = [w \in Workers |-> 0]

-----------------------------------------------------------------------------
(* acquire_lock *)

\* What a store keeps of a granted lock.
Granted(w) == [token |-> token(w), ttl |-> Lease]

Ask(w) ==
    /\ pc[w] = "idle"
    /\ asks[w] < MaxAsks
    /\ asks' = [asks EXCEPT ![w] = @ + 1]
    /\ pc' = [pc EXCEPT ![w] = "asking"]
    /\ UNCHANGED <<entry, online, place, lease>>

\* A set without NX: whoever holds the lock is overwritten.
AskStoreOverwrites(w, s) ==
    /\ pc[w] = "asking"
    /\ entry' = [entry EXCEPT ![s] = Granted(w)]
    /\ pc' = [pc EXCEPT ![w] = "holding"]
    /\ place' = [place EXCEPT ![w] = s]
    /\ lease' = [lease EXCEPT ![w] = Lease]
    /\ UNCHANGED <<online, asks>>

\* SET NX EX in Redis, or check-and-set of the memory dict under its mutex.
AskStore(w, s) ==
    /\ pc[w] = "asking"
    /\ IF entry[s].token = NoToken
       THEN /\ entry' = [entry EXCEPT ![s] = Granted(w)]
            /\ pc' = [pc EXCEPT ![w] = "holding"]
            /\ place' = [place EXCEPT ![w] = s]
            /\ lease' = [lease EXCEPT ![w] = Lease]
       ELSE /\ pc' = [pc EXCEPT ![w] = "idle"]
            /\ UNCHANGED <<entry, place, lease>>
    /\ UNCHANGED <<online, asks>>

AskRedis(w) == online[ClientOf[w]] /\ AskStore(w, Redis)

AskMemory(w) == ~online[ClientOf[w]] /\ AskStore(w, ClientOf[w])

\* SET raises: it may have been executed and only its reply lost.  The client
\* gives Redis up and the worker goes on to the memory dict.
AskRedisRaises(w) ==
    /\ pc[w] = "asking"
    /\ online[ClientOf[w]]
    /\ online' = [online EXCEPT ![ClientOf[w]] = FALSE]
    /\ \/ UNCHANGED entry
       \/ /\ entry[Redis].token = NoToken
          /\ entry' = [entry EXCEPT ![Redis] = Granted(w)]
    /\ UNCHANGED <<pc, asks, place, lease>>

-----------------------------------------------------------------------------
(* release_lock *)

\* A release that does not compare the token.
DeletedUnchecked(e, w) == Free

\* Compare and delete: a Lua script in Redis, the mutex in memory.
Deleted(e, w) == IF e.token = token(w) THEN Free ELSE e

\* The work under the lock is over: the callers release in `finally'.
StartRelease(w) ==
    /\ pc[w] = "holding"
    /\ pc' = [pc EXCEPT ![w] = "releasing"]
    /\ lease' = [lease EXCEPT ![w] = 0]
    /\ UNCHANGED <<entry, online, asks, place>>

ReleaseStore(w, s) ==
    /\ pc[w] = "releasing"
    /\ entry' = [entry EXCEPT ![s] = Deleted(@, w)]
    /\ pc' = [pc EXCEPT ![w] = "idle"]
    /\ UNCHANGED <<online, asks, place, lease>>

ReleaseRedis(w) == online[ClientOf[w]] /\ ReleaseStore(w, Redis)

ReleaseMemory(w) == ~online[ClientOf[w]] /\ ReleaseStore(w, ClientOf[w])

ReleaseRedisRaises(w) ==
    /\ pc[w] = "releasing"
    /\ online[ClientOf[w]]
    /\ online' = [online EXCEPT ![ClientOf[w]] = FALSE]
    /\ \/ UNCHANGED entry
       \/ entry' = [entry EXCEPT ![Redis] = Deleted(@, w)]
    /\ UNCHANGED <<pc, asks, place, lease>>

-----------------------------------------------------------------------------
(* the rest of the client, the process and the clock *)

\* A client that tries Redis again after it had turned to its memory.
OtherCallReconnects(c) ==
    /\ online' = [online EXCEPT ![c] = ~@]
    /\ UNCHANGED <<entry, pc, asks, place, lease>>

\* get_json or set_json of another key raises: Redis is given up for good.
OtherCallRaises(c) ==
    /\ online[c]
    /\ online' = [online EXCEPT ![c] = FALSE]
    /\ UNCHANGED <<entry, pc, asks, place, lease>>

\* The instance stops and starts: its workers and its memory are gone, a lock
\* it held in Redis stays there.
Restart(c) ==
    /\ entry' = [entry EXCEPT ![c] = Free]
    /\ online' \in {[online EXCEPT ![c] = up] : up \in BOOLEAN}
    /\ pc' = [w \in Workers |-> IF ClientOf[w] = c THEN "idle" ELSE pc[w]]
    /\ lease' = [w \in Workers |-> IF ClientOf[w] = c THEN 0 ELSE lease[w]]
    /\ UNCHANGED <<asks, place>>

\* Redis drops a key when its TTL is used up; the memory dict still counts an
\* entry whose expire_at equals the time of the call.
LastTick(s) == IF s = Redis THEN 1 ELSE 0

\* A lock that is set in Redis without EX.
AgedWithoutEx(e, s) ==
    IF s = Redis \/ e.token = NoToken \/ e.ttl <= LastTick(s)
    THEN IF s = Redis THEN e ELSE Free
    ELSE [e EXCEPT !.ttl = @ - 1]

\* A store that looks at the expiry time but keeps what has expired.
AgedKept(e, s) ==
    IF e.token = NoToken THEN Free ELSE [e EXCEPT !.ttl = @ - 1]

Aged(e, s) ==
    IF e.token = NoToken \/ e.ttl <= LastTick(s)
    THEN Free
    ELSE [e EXCEPT !.ttl = @ - 1]

Tick ==
    /\ entry' = [s \in Stores |-> Aged(entry[s], s)]
    /\ lease' = [w \in Workers |-> IF lease[w] = 0 THEN 0 ELSE lease[w] - 1]
    /\ UNCHANGED <<online, pc, asks, place>>

WorkerStep(w) ==
    \/ Ask(w) \/ AskRedis(w) \/ AskMemory(w) \/ AskRedisRaises(w)
    \/ StartRelease(w) \/ ReleaseRedis(w) \/ ReleaseMemory(w)
    \/ ReleaseRedisRaises(w)

Next ==
    \/ \E w \in Workers : WorkerStep(w)
    \/ \E c \in Clients : OtherCallRaises(c) \/ Restart(c)
    \/ Tick

\* Time passes whatever the workers do; nothing else is assumed to happen.
Spec == Init /\ [][Next]_vars /\ WF_vars(Tick)

-----------------------------------------------------------------------------
(* properties *)

\* Two workers within the time their lock was granted for never got it from
\* the same store: a store frees a lock only by its own token or its TTL.
MutualExclusion ==
    \A v, w \in Workers :
        v # w /\ lease[v] > 0 /\ lease[w] > 0 => place[v] # place[w]

\* Two workers of instances that still reach Redis are never both within their
\* lease: the lock is split between stores only while some client is cut off.
SplitNeedsOutage ==
    \A v, w \in Workers :
        v # w /\ lease[v] > 0 /\ lease[w] > 0 =>
            ~online[ClientOf[v]] \/ ~online[ClientOf[w]]

\* No grant is for ever: whatever crashes, raises or forgets to release, the
\* token that a store holds is gone from it after a while.
GrantsRunOut ==
    \A s \in Stores, t \in Tokens : []<>(entry[s].token # t)

\* The tokens that store s may still be asked with.
unusedAt(s) ==
    {t \in Tokens :
        \/ t[2] > asks[t[1]]
        \/ /\ t = token(t[1]) /\ pc[t[1]] = "asking"
           /\ IF s = Redis THEN online[ClientOf[t[1]]] ELSE s = ClientOf[t[1]]}

Lock(s) == INSTANCE LeaseLock WITH owner <- entry[s].token,
                                   unused <- unusedAt(s)

\* Each store on its own, Redis and every memory dict, keeps the promise of
\* LeaseLock, through lost replies, fallback and restarts.
StoresAreLeaseLocks ==
    /\ \A s \in Stores : Lock(s)!Init
    /\ [][\A s \in Stores : [Lock(s)!Next]_<<entry[s].token, unusedAt(s)>>]_vars
=============================================================================
