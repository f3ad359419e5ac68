---------------------------- MODULE RateLimiter ----------------------------
(***************************************************************************)
(* _enforce_rate_limit of apps/api/app/main.py: a sliding window of the    *)
(* requests accepted for each scope and client address.                    *)
(*                                                                         *)
(* A request reads the clock before it takes _RATE_LIMIT_LOCK, so requests *)
(* may be judged in another order than their time stamps.  Times are kept  *)
(* as ages in ticks; the clock has PerSec ticks in a second because the    *)
(* Retry-After that a refused client is told is a whole number of seconds. *)
(***************************************************************************)
EXTENDS Integers, Sequences, FiniteSets

CONSTANTS
    Requests,      \* request threads
    Keys,          \* "scope:address"
    KeyOf,         \* KeyOf[r]: the key that request r is counted under
    MaxRequests,   \* max_requests of the endpoint
    WindowSec,     \* window_sec of the endpoint
    PerSec,        \* ticks in a second
    MaxLag,        \* bound: ticks between reading the clock and the lock
    MaxBuckets     \* 5000: more keys than this and empty ones are dropped

ASSUME KeyOfAssumption == KeyOf \in [Requests -> Keys]
ASSUME MaxRequestsAssumption == MaxRequests \in Nat \ {0}
ASSUME WindowSecAssumption == WindowSec \in Nat \ {0}
ASSUME PerSecAssumption == PerSec \in Nat \ {0}
ASSUME MaxLagAssumption == MaxLag \in 0..(WindowSec * PerSec - 1)
ASSUME MaxBucketsAssumption == MaxBuckets \in Nat

Window == WindowSec * PerSec
OldestAge == Window + MaxLag     \* an entry of this age is expired for all
NoRequest == -1
NoPromise == -1

VARIABLES
    bucket,     \* bucket[k]: ages of the entries of k, first entry first
    known,      \* the keys that the dict of buckets has
    stamp,      \* stamp[r]: age of the time r has read, or NoRequest
    accepted,   \* history: accepted[k][a] requests let through up to a ticks ago
    promise     \* history: ticks until k may come back, or NoPromise

vars == <<bucket, known, stamp, accepted, promise>>

Ages == 0..(Window - 1)

TypeOK ==
    /\ bucket \in [Keys -> Seq(0..OldestAge)]
    /\ \A k \in Keys : Len(bucket[k]) <= MaxRequests
    /\ known \subseteq Keys
    /\ stamp \in [Requests -> {NoRequest} \cup 0..MaxLag]
    /\ accepted \in [Keys -> [Ages -> Nat]]
    /\ promise \in [Keys -> {NoPromise} \cup Nat]

Init ==
    /\ bucket = [k \in Keys |-> <<>>]
    /\ known = {}
    /\ stamp = [r \in Requests |-> NoRequest]
    /\ accepted = [k \in Keys |-> [a \in Ages |-> 0]]
    /\ promise = [k \in Keys |-> NoPromise]

\* now = time.time()
Arrive(r) ==
    /\ stamp[r] = NoRequest
    /\ stamp' = [stamp EXCEPT ![r] = 0]
    /\ UNCHANGED <<bucket, known, accepted, promise>>

\* A loop that stops one tick late drops entries still inside the window.
PrunedEarly(b, s) ==
    LET live == {n \in DOMAIN b : b[n] - s < Window - 1}
    IN  IF live = {} THEN <<>>
        ELSE SubSeq(b, CHOOSE n \in live : \A m \in live : n <= m, Len(b))

\* The popleft loop for a request whose time is s ticks old: drop entries from
\* the front until one is inside the window.
Pruned(b, s) ==
    LET live == {n \in DOMAIN b : b[n] - s < Window}
    IN  IF live = {} THEN <<>>
        ELSE SubSeq(b, CHOOSE n \in live : \A m \in live : n <= m, Len(b))

\* int(window_sec - (now - bucket[0])), at least one, without the last + 1.
RetryRoundedDown(b, s) ==
    LET left == (Window - (b[1] - s)) \div PerSec
    IN  IF left < 1 THEN 1 ELSE left

\* retry_after, in seconds.
RetryAfterSec(b, s) ==
    LET left == (Window - (b[1] - s)) \div PerSec + 1
    IN  IF left < 1 THEN 1 ELSE left

\* An eviction that drops keys whether or not they still have entries.
EvictedAny(keys, bs) == IF Cardinality(keys) > MaxBuckets THEN {} ELSE keys

\* Above MaxBuckets keys the empty ones leave the dict.
Evicted(keys, bs) ==
    IF Cardinality(keys) > MaxBuckets
    THEN keys \ {k \in keys : bs[k] = <<>>}
    ELSE keys

Refuse(r, b) ==
    LET k == KeyOf[r]
        ticks == RetryAfterSec(b, stamp[r]) * PerSec
    IN  /\ Len(b) >= MaxRequests
        /\ bucket' = [bucket EXCEPT ![k] = b]
        /\ known' = known \cup {k}
        /\ promise' = [promise EXCEPT ![k] = IF @ = NoPromise THEN ticks ELSE @]
        /\ UNCHANGED accepted

\* A comparison that lets one request too many through.
AcceptOneMore(r, b) ==
    LET k == KeyOf[r]
        full == [bucket EXCEPT ![k] = Append(b, stamp[r])]
    IN  /\ Len(b) <= MaxRequests
        /\ known' = known \cup {k}
        /\ bucket' = full
        /\ accepted' = [accepted EXCEPT ![k] = [a \in Ages |-> @[a] + 1]]
        /\ promise' = [promise EXCEPT ![k] = NoPromise]

Accept(r, b) ==
    LET k == KeyOf[r]
        full == [bucket EXCEPT ![k] = Append(b, stamp[r])]
    IN  /\ Len(b) < MaxRequests
        /\ known' = Evicted(known \cup {k}, full)
        /\ bucket' = [q \in Keys |-> IF q \in known' THEN full[q] ELSE <<>>]
        /\ accepted' = [accepted EXCEPT ![k] = [a \in Ages |-> @[a] + 1]]
        /\ promise' = [promise EXCEPT ![k] = NoPromise]

\* The block under _RATE_LIMIT_LOCK.
Judge(r) ==
    /\ stamp[r] # NoRequest
    /\ LET b == Pruned(bucket[KeyOf[r]], stamp[r])
       IN  Refuse(r, b) \/ Accept(r, b)
    /\ stamp' = [stamp EXCEPT ![r] = NoRequest]

Older(a, top) == IF a = top THEN top ELSE a + 1

\* Time passes, but no request waits longer than MaxLag for the lock.
Tick ==
    /\ \A r \in Requests : stamp[r] < MaxLag
    /\ stamp' = [r \in Requests |->
                   IF stamp[r] = NoRequest THEN NoRequest ELSE stamp[r] + 1]
    /\ bucket' = [k \in Keys |->
                    [n \in DOMAIN bucket[k] |-> Older(bucket[k][n], OldestAge)]]
    /\ accepted' = [k \in Keys |->
                      [a \in Ages |-> IF a = 0 THEN 0 ELSE accepted[k][a - 1]]]
    /\ promise' = [k \in Keys |-> IF promise[k] > 0 THEN promise[k] - 1
                                                    ELSE promise[k]]
    /\ UNCHANGED known

Next ==
    \/ \E r \in Requests : Arrive(r) \/ Judge(r)
    \/ Tick

Spec == Init /\ [][Next]_vars

-----------------------------------------------------------------------------
(* properties *)

\* No key is let through more than MaxRequests times in any stretch of time as
\* long as the window, less the time a request may wait for the lock.
WindowBound ==
    \A k \in Keys : accepted[k][Window - MaxLag - 1] <= MaxRequests

\* A client that waits as long as it was told finds room, if nobody used its
\* key in between.
RetryAfterHonest ==
    \A k \in Keys : promise[k] = 0 => Len(Pruned(bucket[k], 0)) < MaxRequests

\* No key ever leaves the dict: judging a request leaves its own bucket with an
\* entry, so the eviction finds no empty one and memory grows with addresses.
NothingIsEvicted == [][known \subseteq known']_vars
=============================================================================
