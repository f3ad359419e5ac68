----------------------------- MODULE DetailPool -----------------------------
(***************************************************************************)
(* _fetch_match_details of apps/api/app/services/openapi_client.py: the    *)
(* details of a list of matches, fetched in batches by the workers of      *)
(* DETAIL_POOL that all requests of a process share.                       *)
(*                                                                         *)
(* Every request has a client of its own.  A worker makes itself a session *)
(* in the client for its first fetch, and the request closes the sessions  *)
(* when it is done.  A cancelled future ends only when a worker takes it   *)
(* off the queue, so the request waits for that too.                       *)
(***************************************************************************)
EXTENDS Integers, Sequences, FiniteSets

CONSTANTS
    Fetchers,    \* requests that fetch details
    SizeOf,      \* SizeOf[c]: how many match ids c fetches
    BatchSize,   \* 4
    PoolWorkers  \* the threads of DETAIL_POOL

ASSUME SizeOfAssumption == SizeOf \in [Fetchers -> Nat]
ASSUME BatchAssumption == BatchSize \in Nat \ {0}

NoWork == [client |-> "none", place |-> 0]
Work(c, n) == [client |-> c, place |-> n]

VARIABLES
    step,      \* step[c]: "idle", "collect", "wait", "returned" or "raised"
    offset,    \* offset[c]: ids of the batches before the present one
    future,    \* future[c][n]: state of the fetch of the n-th id
    payloads,  \* payloads[c]: the places whose details c has collected
    queue,     \* work the pool has not begun
    working,   \* working[w]: what worker w fetches, or NoWork
    sessions   \* sessions[c]: workers with an open session in the client of c

poolVars == <<step, offset, future, payloads, queue, working, sessions>>

IdsOf(c) == 1..SizeOf[c]
FutureStates == {"none", "queued", "running", "fetched", "failed", "cancelled",
                 "dropped"}
OverStates == {"none", "fetched", "failed", "dropped"}

PoolTypeOK ==
    /\ step \in [Fetchers -> {"idle", "collect", "wait", "returned", "raised"}]
    /\ \A c \in Fetchers :
          /\ offset[c] \in 0..SizeOf[c]
          /\ future[c] \in [IdsOf(c) -> FutureStates]
          /\ payloads[c] \in Seq(IdsOf(c)) /\ Len(payloads[c]) <= SizeOf[c]
          /\ sessions[c] \subseteq PoolWorkers
    /\ \A n \in DOMAIN queue : queue[n].place \in IdsOf(queue[n].client)
    /\ DOMAIN working = PoolWorkers

PoolInit ==
    /\ step = [c \in Fetchers |-> "idle"]
    /\ offset = [c \in Fetchers |-> 0]
    /\ future = [c \in Fetchers |-> [n \in IdsOf(c) |-> "none"]]
    /\ payloads = [c \in Fetchers |-> <<>>]
    /\ queue = <<>>
    /\ working = [w \in PoolWorkers |-> NoWork]
    /\ sessions = [c \in Fetchers |-> {}]

-----------------------------------------------------------------------------
(* the request *)

BatchFrom(c, first) == {n \in IdsOf(c) : first < n /\ n <= first + BatchSize}
Batch(c) == BatchFrom(c, offset[c])

\* The futures of the batch after `first' are submitted, in the order of the ids.
Submit(c, first) ==
    /\ offset' = [offset EXCEPT ![c] = first]
    /\ future' = [future EXCEPT ![c] = [n \in IdsOf(c) |->
                    IF n \in BatchFrom(c, first) THEN "queued" ELSE @[n]]]
    /\ queue' = queue \o [n \in 1..Cardinality(BatchFrom(c, first))
                            |-> Work(c, first + n)]

\* _fetch_match_details; an empty list is returned at once.
FetchDetails(c) ==
    /\ step[c] = "idle"
    /\ IF SizeOf[c] = 0
       THEN /\ step' = [step EXCEPT ![c] = "returned"]
            /\ UNCHANGED <<offset, future, queue>>
       ELSE /\ step' = [step EXCEPT ![c] = "collect"]
            /\ Submit(c, 0)
    /\ UNCHANGED <<payloads, working, sessions>>

\* result() of the next future of the batch returns.
NextPlace(c) == Len(payloads[c]) + 1

CollectResult(c) ==
    /\ step[c] = "collect" /\ NextPlace(c) \in Batch(c)
    /\ future[c][NextPlace(c)] = "fetched"
    /\ payloads' = [payloads EXCEPT ![c] = Append(@, NextPlace(c))]
    /\ UNCHANGED <<step, offset, future, queue, working, sessions>>

\* All of the batch is collected: the next one, or the end.
EndBatch(c) ==
    /\ step[c] = "collect" /\ NextPlace(c) \notin Batch(c)
    /\ IF NextPlace(c) \in IdsOf(c)
       THEN Submit(c, offset[c] + BatchSize) /\ UNCHANGED step
       ELSE /\ step' = [step EXCEPT ![c] = "wait"]
            /\ UNCHANGED <<offset, future, queue>>
    /\ UNCHANGED <<payloads, working, sessions>>

\* result() raises: what no worker has begun is cancelled, and the rows of all
\* batches are lost with the exception.
CollectFails(c) ==
    /\ step[c] = "collect" /\ NextPlace(c) \in Batch(c)
    /\ future[c][NextPlace(c)] = "failed"
    /\ future' = [future EXCEPT ![c] = [n \in IdsOf(c) |->
                    IF @[n] = "queued" THEN "cancelled" ELSE @[n]]]
    /\ step' = [step EXCEPT ![c] = "wait"]
    /\ UNCHANGED <<offset, payloads, queue, working, sessions>>

\* A finally that closes the sessions without waiting for the batch.
LeaveAtOnce(c) ==
    /\ step[c] = "wait"
    /\ sessions' = [sessions EXCEPT ![c] = {}]
    /\ step' = [step EXCEPT ![c] =
                  IF NextPlace(c) \in IdsOf(c) THEN "raised" ELSE "returned"]
    /\ UNCHANGED <<offset, future, payloads, queue, working>>

\* wait(futures) of the finally returns; the sessions of the client are closed.
Leave(c) ==
    /\ step[c] = "wait"
    /\ \A n \in Batch(c) : future[c][n] \in OverStates
    /\ sessions' = [sessions EXCEPT ![c] = {}]
    /\ step' = [step EXCEPT ![c] =
                  IF NextPlace(c) \in IdsOf(c) THEN "raised" ELSE "returned"]
    /\ UNCHANGED <<offset, future, payloads, queue, working>>

\* Another request takes the place of one that has left, with a new client.
NewClient(c) ==
    /\ step[c] \in {"returned", "raised"}
    /\ step' = [step EXCEPT ![c] = "idle"]
    /\ offset' = [offset EXCEPT ![c] = 0]
    /\ future' = [future EXCEPT ![c] = [n \in IdsOf(c) |-> "none"]]
    /\ payloads' = [payloads EXCEPT ![c] = <<>>]
    /\ UNCHANGED <<queue, working, sessions>>

-----------------------------------------------------------------------------
(* the workers *)

\* A worker that puts cancelled work back at the end of the queue.
TakeWorkRequeues(w) ==
    /\ working[w] = NoWork /\ queue # <<>>
    /\ LET c == Head(queue).client
           n == Head(queue).place
       IN  IF future[c][n] = "cancelled"
           THEN /\ queue' = Append(Tail(queue), Head(queue))
                /\ UNCHANGED <<future, working, sessions>>
           ELSE /\ queue' = Tail(queue)
                /\ future' = [future EXCEPT ![c][n] = "running"]
                /\ working' = [working EXCEPT ![w] = Head(queue)]
                /\ sessions' = [sessions EXCEPT ![c] = @ \cup {w}]
    /\ UNCHANGED <<step, offset, payloads>>

\* A worker takes the first work of the queue; if it is not cancelled, it gets
\* its session from the client, or makes one.
TakeWork(w) ==
    /\ working[w] = NoWork /\ queue # <<>>
    /\ queue' = Tail(queue)
    /\ LET c == Head(queue).client
           n == Head(queue).place
       IN  IF future[c][n] = "cancelled"
           THEN /\ future' = [future EXCEPT ![c][n] = "dropped"]
                /\ UNCHANGED <<working, sessions>>
           ELSE /\ future' = [future EXCEPT ![c][n] = "running"]
                /\ working' = [working EXCEPT ![w] = Head(queue)]
                /\ sessions' = [sessions EXCEPT ![c] = @ \cup {w}]
    /\ UNCHANGED <<step, offset, payloads>>

\* fetch_match_detail returns or raises.
EndWork(w) ==
    /\ working[w] # NoWork
    /\ \E outcome \in {"fetched", "failed"} :
          future' = [future EXCEPT
                       ![working[w].client][working[w].place] = outcome]
    /\ working' = [working EXCEPT ![w] = NoWork]
    /\ UNCHANGED <<step, offset, payloads, queue, sessions>>

Proceed(c) == CollectResult(c) \/ EndBatch(c) \/ CollectFails(c) \/ Leave(c)
Serve(w) == TakeWork(w) \/ EndWork(w)

PoolNext ==
    \/ \E c \in Fetchers : FetchDetails(c) \/ Proceed(c) \/ NewClient(c)
    \/ \E w \in PoolWorkers : Serve(w)

\* Threads are scheduled, and every fetch ends: requests have time limits.
PoolSpec ==
    /\ PoolInit /\ [][PoolNext]_poolVars
    /\ \A c \in Fetchers : WF_poolVars(Proceed(c))
    /\ \A w \in PoolWorkers : WF_poolVars(Serve(w))

-----------------------------------------------------------------------------
(* properties *)

\* The sessions of a client are closed by nobody while a worker uses its own,
\* and once a request has left none of its work is left in the pool; only a
\* request that has every detail returns, in the order of the ids.
NothingRunsOn ==
    /\ \A w \in PoolWorkers :
          working[w] # NoWork => w \in sessions[working[w].client]
    /\ \A c \in Fetchers :
          /\ step[c] \in {"returned", "raised"} =>
                \A n \in IdsOf(c) : future[c][n] \in OverStates
          /\ step[c] = "returned" =>
                /\ payloads[c] = [n \in IdsOf(c) |-> n]
                /\ \A n \in IdsOf(c) : future[c][n] = "fetched"

\* Every request leaves: a cancelled future is waited for, but the workers
\* reach it, whatever other requests have queued before it.
EveryRequestLeaves ==
    \A c \in Fetchers : []<>(step[c] \notin {"collect", "wait"})
=============================================================================
