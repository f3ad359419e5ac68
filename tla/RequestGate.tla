---------------------------- MODULE RequestGate ----------------------------
(***************************************************************************)
(* How one HTTP request to the Nexon Open API gets out: the slots and the  *)
(* pacer of apps/api/app/services/nexon_requests.py, the shared cooldown   *)
(* and the retry loop of NexonOpenApiClient._get (openapi_client.py).      *)
(*                                                                         *)
(* Every instance (process) has its slots, its pacer and its cooldown; the *)
(* cooldown is also written to a CacheClient, which instances share when   *)
(* StoreOf sends them to the same store.  Time is counted down in ticks.   *)
(***************************************************************************)
EXTENDS Integers, FiniteSets

CONSTANTS
    Threads,      \* threads that call _get
    Instances,    \* API processes
    InstanceOf,   \* InstanceOf[t]: the process of thread t
    Caches,       \* what cooldown caches are kept in: Redis or a memory dict
    StoreOf,      \* StoreOf[i]: the store that instance i's cache uses
    Slots,        \* value of the semaphore REQUEST_SLOTS
    Interval,     \* ticks between two reservations, 1 / rate
    Retries,      \* attempts of one call
    Unit429,      \* ticks of 2.0 s, the back-off unit after a 429
    Unit5xx,      \* ticks of 1.5 s, the back-off unit after a 5xx
    RetryAfter,   \* values the Retry-After header may carry, in ticks
    Window        \* length of the window in which sent requests are counted

ASSUME ThreadsAssumption == IsFiniteSet(Threads)
ASSUME InstanceOfAssumption == InstanceOf \in [Threads -> Instances]
ASSUME StoreOfAssumption == StoreOf \in [Instances -> Caches]
ASSUME SlotsAssumption == Slots \in Nat \ {0}
ASSUME IntervalAssumption == Interval \in Nat \ {0}
ASSUME RetriesAssumption == Retries \in Nat \ {0}
ASSUME UnitsAssumption == Unit429 \in Nat \ {0} /\ Unit5xx \in Nat
ASSUME RetryAfterAssumption == RetryAfter \subseteq Nat
ASSUME WindowAssumption == Window \in Nat \ {0}

VARIABLES
    phase,        \* where the thread is in _get
    attempt,   \* idx + 1 of the retry loop
    timer,     \* ticks the thread still sleeps, or limited_until - now
    wait,      \* wait_seconds of a 429
    free,      \* free[i]: slots left in instance i
    nextIn,    \* nextIn[i]: next_request - now, 0 when that is past
    local,     \* local[i]: _rate_limited_until - now, 0 when past
    shared,    \* shared[s]: limited_until - now in store s, 0 when past
    sent,      \* history: sent[i][a] requests of i left up to a ticks ago
    told,      \* history: ticks left of the longest wait i has recorded
    leaked     \* history: requests i sent since that wait began

gateVars == <<phase, attempt, timer, wait, free, nextIn, local, shared, sent,
              told, leaked>>

Ages == 0..(Window - 1)

\* The places between `with REQUEST_SLOTS' and the end of its block.
InSlot == {"pace", "sleep", "shared", "barred", "send", "wire"}

Places == InSlot \cup {"idle", "slot", "limit", "share", "backoff"}

inst(t) == InstanceOf[t]
Larger(m, n) == IF m > n THEN m ELSE n
Down(n) == IF n = 0 THEN 0 ELSE n - 1

Insiders(i) == {t \in Threads : inst(t) = i /\ phase[t] \in InSlot}

GateTypeOK ==
    /\ phase \in [Threads -> Places]
    /\ attempt \in [Threads -> 0..Retries]
    /\ timer \in [Threads -> Nat]
    /\ wait \in [Threads -> Nat]
    /\ free \in [Instances -> 0..Slots]
    /\ nextIn \in [Instances -> Nat]
    /\ local \in [Instances -> Nat]
    /\ shared \in [Caches -> Nat]
    /\ sent \in [Instances -> [Ages -> Nat]]
    /\ told \in [Instances -> Nat]
    /\ leaked \in [Instances -> Nat]

GateInit ==
    /\ phase = [t \in Threads |-> "idle"]
    /\ attempt = [t \in Threads |-> 0]
    /\ timer = [t \in Threads |-> 0]
    /\ wait = [t \in Threads |-> 0]
    /\ free = [i \in Instances |-> Slots]
    /\ nextIn = [i \in Instances |-> 0]
    /\ local = [i \in Instances |-> 0]
    /\ shared = [s \in Caches |-> 0]
    /\ sent = [i \in Instances |-> [a \in Ages |-> 0]]
    /\ told = [i \in Instances |-> 0]
    /\ leaked = [i \in Instances |-> 0]

-----------------------------------------------------------------------------
(* moves of a thread through _get *)

\* t goes to place p to sleep n ticks there, in attempt k.
Go(t, p, n, k) ==
    /\ phase' = [phase EXCEPT ![t] = p]
    /\ timer' = [timer EXCEPT ![t] = n]
    /\ attempt' = [attempt EXCEPT ![t] = k]
    /\ wait' = [wait EXCEPT ![t] = 0]

\* _get returns or raises.
End(t) == Go(t, "idle", 0, 0)

LeaveSlot(t) == free' = [free EXCEPT ![inst(t)] = @ + 1]

Call(t) ==
    /\ phase[t] = "idle"
    /\ Go(t, "slot", 0, 1)
    /\ UNCHANGED <<free, nextIn, local, shared, sent, told, leaked>>

\* A block that is entered without waiting for a slot.
EnterSlotUnlimited(t) ==
    /\ phase[t] = "slot"
    /\ free' = [free EXCEPT ![inst(t)] = @ - 1]
    /\ Go(t, "pace", 0, attempt[t])
    /\ UNCHANGED <<nextIn, local, shared, sent, told, leaked>>

EnterSlot(t) ==
    /\ phase[t] = "slot"
    /\ free[inst(t)] > 0
    /\ free' = [free EXCEPT ![inst(t)] = @ - 1]
    /\ Go(t, "pace", 0, attempt[t])
    /\ UNCHANGED <<nextIn, local, shared, sent, told, leaked>>

\* A pacer that puts the next request one interval after now, not after the
\* slot it has just reserved.
ReserveFromNow(t) ==
    /\ phase[t] = "pace"
    /\ nextIn' = [nextIn EXCEPT ![inst(t)] = Interval]
    /\ Go(t, "sleep", nextIn[inst(t)], attempt[t])
    /\ UNCHANGED <<free, local, shared, sent, told, leaked>>

\* RequestPacer.acquire: reserve max(now, next_request), then sleep until it.
Reserve(t) ==
    /\ phase[t] = "pace"
    /\ nextIn' = [nextIn EXCEPT ![inst(t)] = @ + Interval]
    /\ Go(t, "sleep", nextIn[inst(t)], attempt[t])
    /\ UNCHANGED <<free, local, shared, sent, told, leaked>>

\* A cooldown error that forgets the slot.
RefuseInSlot(t) == End(t) /\ UNCHANGED free

Refuse(t) == End(t) /\ LeaveSlot(t)

\* A check that trusts the cached window alone.
CheckCachedOnly(t) ==
    /\ phase[t] = "sleep"
    /\ timer[t] = 0
    /\ Go(t, "shared", 0, attempt[t])
    /\ UNCHANGED <<free, nextIn, local, shared, sent, told, leaked>>

\* cooldown_remaining_sec reads the instance's own window ...
CheckLocal(t) ==
    /\ phase[t] = "sleep"
    /\ timer[t] = 0
    /\ Go(t, IF local[inst(t)] > 0 THEN "barred" ELSE "shared", 0, attempt[t])
    /\ UNCHANGED <<free, nextIn, local, shared, sent, told, leaked>>

\* ... and then the cached one, and the longer of the two decides.
CheckShared(t) ==
    LET barred == phase[t] = "barred" \/ shared[StoreOf[inst(t)]] > 0
    IN  /\ phase[t] \in {"shared", "barred"}
        /\ \/ barred /\ Refuse(t)
           \/ ~barred /\ Go(t, "send", 0, attempt[t]) /\ UNCHANGED free
        /\ UNCHANGED <<nextIn, local, shared, sent, told, leaked>>

Send(t) ==
    /\ phase[t] = "send"
    /\ Go(t, "wire", 0, attempt[t])
    /\ sent' = [sent EXCEPT ![inst(t)] = [a \in Ages |-> @[a] + 1]]
    /\ leaked' = [leaked EXCEPT ![inst(t)] =
                    IF told[inst(t)] > 0 THEN @ + 1 ELSE @]
    /\ UNCHANGED <<free, nextIn, local, shared, told>>

\* Another attempt after n ticks, if there is one left: otherwise _get raises
\* for the last response, or returns None for a status it does not name.
Retry(t, n) ==
    IF attempt[t] < Retries THEN Go(t, "backoff", n, attempt[t]) ELSE End(t)

\* A retry that stays in its slot and does not count its attempts.
RespondInSlot(t) ==
    /\ phase[t] = "wire"
    /\ \/ End(t) /\ LeaveSlot(t)
       \/ Go(t, "pace", 0, attempt[t]) /\ UNCHANGED free
    /\ UNCHANGED <<nextIn, local, shared, sent, told, leaked>>

Respond(t) ==
    /\ phase[t] = "wire"
    /\ LeaveSlot(t)
    /\ \/ End(t)                             \* 200, 4xx, time-out, no connection
       \/ Retry(t, attempt[t] * Unit5xx)     \* 500, 502, 503, 504
       \/ Retry(t, 0)                        \* any other status below 400
       \/ \E after \in RetryAfter :          \* 429
            /\ phase' = [phase EXCEPT ![t] = "limit"]
            /\ wait' = [wait EXCEPT ![t] = Larger(after, attempt[t] * Unit429)]
            /\ UNCHANGED <<timer, attempt>>
    /\ UNCHANGED <<nextIn, local, shared, sent, told, leaked>>

\* The window that a 429 leaves in its process.
OverwrittenLocal(old, new) == new

ExtendedLocal(old, new) == Larger(old, new)

\* _set_rate_limit_window: the instance's window under _state_lock ...
SetLocal(t) ==
    /\ phase[t] = "limit"
    /\ local' = [local EXCEPT ![inst(t)] = ExtendedLocal(@, wait[t])]
    /\ phase' = [phase EXCEPT ![t] = "share"]
    /\ told' = [told EXCEPT ![inst(t)] = Larger(@, wait[t])]
    /\ timer' = [timer EXCEPT ![t] = wait[t]]
    /\ UNCHANGED <<attempt, wait, free, nextIn, shared, sent, leaked>>

\* ... and the cached one, which is overwritten, outside it.
SetShared(t) ==
    /\ phase[t] = "share"
    /\ shared' = [shared EXCEPT ![StoreOf[inst(t)]] = timer[t]]
    /\ Retry(t, wait[t])
    /\ UNCHANGED <<free, nextIn, local, sent, told, leaked>>

Resume(t) ==
    /\ phase[t] = "backoff"
    /\ timer[t] = 0
    /\ Go(t, "slot", 0, attempt[t] + 1)
    /\ UNCHANGED <<free, nextIn, local, shared, sent, told, leaked>>

GateTick ==
    /\ timer' = [t \in Threads |-> Down(timer[t])]
    /\ nextIn' = [i \in Instances |-> Down(nextIn[i])]
    /\ local' = [i \in Instances |-> Down(local[i])]
    /\ shared' = [s \in Caches |-> Down(shared[s])]
    /\ sent' = [i \in Instances |->
                  [a \in Ages |-> IF a = 0 THEN 0 ELSE sent[i][a - 1]]]
    /\ told' = [i \in Instances |-> Down(told[i])]
    /\ leaked' = [i \in Instances |-> IF told[i] <= 1 THEN 0 ELSE leaked[i]]
    /\ UNCHANGED <<phase, attempt, wait, free>>

\* What a thread does on its own once it is in _get.
Advance(t) ==
    \/ EnterSlot(t) \/ Reserve(t) \/ CheckLocal(t) \/ CheckShared(t)
    \/ Send(t) \/ Respond(t) \/ SetLocal(t) \/ SetShared(t) \/ Resume(t)

GateNext == GateTick \/ \E t \in Threads : Call(t) \/ Advance(t)

\* A thread that can run runs at last, a request is answered or times out
\* (timeout=), and time passes.  Nobody has to call, and nothing is assumed of
\* the order in which threads win a slot.
GateSpec ==
    /\ GateInit /\ [][GateNext]_gateVars
    /\ WF_gateVars(GateTick)
    /\ \A t \in Threads : WF_gateVars(Advance(t))

-----------------------------------------------------------------------------
(* properties *)

\* No path out of the block loses a slot or gives one back twice.
SlotsConserved ==
    \A i \in Instances : free[i] + Cardinality(Insiders(i)) = Slots

\* The reservations that threads of one instance sleep for are at least one
\* interval apart, and the next one comes after all of them.
Spaced ==
    \A t \in Threads : phase[t] = "sleep" /\ timer[t] > 0 =>
        /\ timer[t] + Interval <= nextIn[inst(t)]
        /\ \A u \in Threads \ {t} :
             phase[u] = "sleep" /\ timer[u] > 0 /\ inst(u) = inst(t) =>
                \/ timer[t] + Interval <= timer[u]
                \/ timer[u] + Interval <= timer[t]

\* However late threads wake up, no window of Window ticks sees more requests
\* of an instance than its reservations allow plus one per slot.
PaceBound ==
    \A i \in Instances :
        sent[i][Window - 1] <= (Window - 1) \div Interval + 1 + Slots

\* However late threads wake up, the pacer keeps its pace: what it has promised
\* and what has left in any window.
PaceKept == Spaced /\ PaceBound

\* For as long as the longest wait that a 429 told the instance, only requests
\* that had passed the check in their slot still go out, whatever shorter waits
\* are recorded in between.
CooldownLeakBound == \A i \in Instances : leaked[i] <= Slots

\* When every 429 has been recorded, the common wait in the store is at least
\* what each of its instances waits for.
CommonWaitCovers ==
    (\A t \in Threads : phase[t] \notin {"limit", "share"}) =>
        \A i \in Instances : local[i] <= shared[StoreOf[i]]

\* A slot that was taken is given back: no thread sleeps or waits in it for
\* ever, and threads in their slots never wait for each other.
SlotsComeBack ==
    \A t \in Threads : []<>(phase[t] \notin InSlot)
=============================================================================
