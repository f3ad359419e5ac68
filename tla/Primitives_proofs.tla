-------------------------- MODULE Primitives_proofs --------------------------
(***************************************************************************)
(* Theorems about two of the primitives that MCPrimitives runs side by     *)
(* side: what a batch of details leaves behind in the pool; and of the     *)
(* lock, its types, exclusion between leases, and that every store         *)
(* implements LeaseLock.  The theorems of the gate are in                  *)
(* RequestGate_proofs.                                                     *)
(***************************************************************************)
EXTENDS MCPrimitives, FiniteSetTheorems, SequenceTheorems, TLAPS

-----------------------------------------------------------------------------
(* DetailPool *)

Works == {w \in [client : Fetchers, place : Nat] : w.place \in IdsOf(w.client)}
FetchOf(f, w) == f[w.client][w.place]

PoolShape ==
    /\ step \in [Fetchers -> {"idle", "collect", "wait", "returned", "raised"}]
    /\ offset \in [Fetchers -> Nat]
    /\ DOMAIN future = Fetchers
    /\ \A c \in Fetchers : future[c] \in [IdsOf(c) -> FutureStates]
    /\ payloads \in [Fetchers -> Seq(Nat)]
    /\ queue \in Seq(Works)
    /\ working \in [PoolWorkers -> Works \cup {NoWork}]
    /\ sessions \in [Fetchers -> SUBSET PoolWorkers]

\* The details are collected in the order of the ids, none before its fetch, and
\* nothing is submitted that is past the batch.
Collected ==
    \A c \in Fetchers :
        /\ \A n \in 1..Len(payloads[c]) : payloads[c][n] = n
        /\ offset[c] <= Len(payloads[c]) /\ Len(payloads[c]) <= offset[c] + BatchSize
        /\ Len(payloads[c]) <= SizeOf[c]
        /\ \A n \in IdsOf(c) :
              /\ n <= Len(payloads[c]) => future[c][n] = "fetched"
              /\ n > offset[c] + BatchSize => future[c][n] = "none"

\* A fetch that a worker makes, or that waits in the queue, is there once.
OnceInPool ==
    /\ \A w \in PoolWorkers : working[w] # NoWork =>
          FetchOf(future, working[w]) = "running" /\ w \in sessions[working[w].client]
    /\ \A v, w \in PoolWorkers : working[v] = working[w] /\ working[w] # NoWork => v = w
    /\ \A i \in DOMAIN queue : FetchOf(future, queue[i]) \in {"queued", "cancelled"}
    /\ \A i, j \in DOMAIN queue : queue[i] = queue[j] => i = j

\* A request that has not begun has no work, and one that has left none to come.
BeforeAndAfter ==
    \A c \in Fetchers :
        /\ step[c] = "idle" =>
              /\ offset[c] = 0 /\ payloads[c] = <<>>
              /\ \A n \in IdsOf(c) : future[c][n] = "none"
        /\ step[c] \in {"returned", "raised"} =>
              \A n \in IdsOf(c) : future[c][n] \in OverStates
        /\ step[c] = "returned" => Len(payloads[c]) = SizeOf[c]

PoolInv == PoolShape /\ Collected /\ OnceInPool /\ BeforeAndAfter

\* A number or a fetch of a request is one of its numbers.
LEMMA PoolNumbers ==
    ASSUME PoolShape, NEW c \in Fetchers
    PROVE  /\ SizeOf[c] \in Nat /\ offset[c] \in Nat /\ BatchSize \in Nat \ {0}
           /\ Len(payloads[c]) \in Nat /\ IdsOf(c) \subseteq Nat \ {0}
           /\ DOMAIN payloads[c] = 1..Len(payloads[c])
BY SizeOfAssumption, BatchAssumption, LenProperties DEF PoolShape, IdsOf

LEMMA PoolPlaces ==
    ASSUME PoolShape
    PROVE  /\ \A w \in PoolWorkers : working[w] # NoWork =>
                 working[w] \in Works
           /\ \A i \in DOMAIN queue : queue[i] \in Works
           /\ \A j \in Works : j.client \in Fetchers /\ j.place \in IdsOf(j.client)
           /\ NoWork \notin Works
<1>1. \A i \in DOMAIN queue : queue[i] \in Works
    BY ElementOfSeq DEF PoolShape
<1>2. \A j \in Works : j.client \in Fetchers /\ j.place \in IdsOf(j.client)
    BY DEF Works
<1>3. \A j \in Works : j.place # 0
    BY SizeOfAssumption DEF Works, IdsOf
<1>4. NoWork.place = 0
    BY DEF NoWork
<1> QED
    BY <1>1, <1>2, <1>3, <1>4 DEF PoolShape

\* Works of a request are told apart by their places.
LEMMA WorkIs ==
    ASSUME NEW c \in Fetchers, NEW n \in IdsOf(c)
    PROVE  /\ Work(c, n) \in Works /\ Work(c, n).client = c /\ Work(c, n).place = n
           /\ FetchOf(future, Work(c, n)) = future[c][n]
           /\ \A j \in Works : j.client = c /\ j.place = n => j = Work(c, n)
BY SizeOfAssumption DEF Work, Works, IdsOf, FetchOf

\* A new batch is put in the queue in one piece.
LEMMA SubmitIs ==
    ASSUME PoolShape, Collected, NEW c \in Fetchers, NEW first \in Nat, first < SizeOf[c],
           \A n \in BatchFrom(c, first) : future[c][n] = "none",
           \A i, j \in DOMAIN queue : queue[i] = queue[j] => i = j,
           \A i \in DOMAIN queue : FetchOf(future, queue[i]) \in {"queued", "cancelled"},
           Submit(c, first)
    PROVE  /\ queue' \in Seq(Works)
           /\ offset' = [offset EXCEPT ![c] = first]
           /\ DOMAIN future' = Fetchers
           /\ \A d \in Fetchers : d # c => future'[d] = future[d]
           /\ future'[c] \in [IdsOf(c) -> FutureStates]
           /\ \A n \in IdsOf(c) :
                 future'[c][n] = IF n \in BatchFrom(c, first) THEN "queued" ELSE future[c][n]
           /\ \A i \in DOMAIN queue' : FetchOf(future', queue'[i]) \in {"queued", "cancelled"}
           /\ \A i, j \in DOMAIN queue' : queue'[i] = queue'[j] => i = j
<1> DEFINE k == Cardinality(BatchFrom(c, first))
           new == [n \in 1..k |-> Work(c, first + n)]
<1>1. /\ SizeOf[c] \in Nat /\ BatchSize \in Nat \ {0}
    BY PoolNumbers
<1>2. PICK last \in Nat : /\ last <= SizeOf[c] /\ last <= first + BatchSize /\ first < last
                         /\ (last = SizeOf[c] \/ last = first + BatchSize)
    <2>1. CASE first + BatchSize <= SizeOf[c]
        BY <1>1, <2>1
    <2>2. CASE first + BatchSize > SizeOf[c]
        BY <1>1, <2>2
    <2> QED
        BY <1>1, <2>1, <2>2
<1>3. BatchFrom(c, first) = (first + 1)..last
    BY <1>1, <1>2 DEF BatchFrom, IdsOf
<1>4. k = last - first
    BY <1>2, <1>3, FS_Interval
<1>5. k \in Nat /\ \A n \in 1..k : first + n \in BatchFrom(c, first) /\ first + n \in IdsOf(c)
    BY <1>1, <1>2, <1>3, <1>4 DEF IdsOf
<1>6. \A n \in 1..k : Work(c, first + n) \in Works
    BY <1>5, WorkIs
<1> HIDE DEF k
<1>7. new \in Seq(Works) /\ Len(new) = k
    BY <1>5, <1>6, IsASeq
<1>8. queue' = queue \o new /\ queue \in Seq(Works)
    BY DEF Submit, PoolShape, k
<1> HIDE DEF new
<1>9. /\ queue' \in Seq(Works) /\ Len(queue) \in Nat
      /\ Len(queue') = Len(queue) + k
      /\ \A i \in 1..(Len(queue) + k) :
            queue'[i] = IF i <= Len(queue) THEN queue[i] ELSE new[i - Len(queue)]
    <2>1. /\ queue \o new \in Seq(Works) /\ Len(queue \o new) = Len(queue) + Len(new)
          /\ \A i \in 1..(Len(queue) + Len(new)) :
                (queue \o new)[i] = IF i <= Len(queue) THEN queue[i] ELSE new[i - Len(queue)]
        BY <1>7, <1>8, ConcatProperties
    <2>2. Len(queue) \in Nat
        BY <1>8, LenProperties
    <2> QED
        BY <1>7, <1>8, <2>1, <2>2
<1>10. DOMAIN queue = 1..Len(queue) /\ DOMAIN queue' = 1..(Len(queue) + k)
    BY <1>8, <1>9, LenProperties
<1>11. /\ offset' = [offset EXCEPT ![c] = first]
       /\ DOMAIN future' = Fetchers
       /\ \A d \in Fetchers : d # c => future'[d] = future[d]
       /\ future'[c] = [n \in IdsOf(c) |->
                          IF n \in BatchFrom(c, first) THEN "queued" ELSE future[c][n]]
    BY DEF Submit, PoolShape
<1>12. future'[c] \in [IdsOf(c) -> FutureStates]
    BY <1>11 DEF PoolShape, FutureStates
<1>13. \A i \in DOMAIN queue : queue[i] \in Works
    BY PoolPlaces
<1>14. ASSUME NEW i \in DOMAIN queue'
       PROVE  \/ i \in DOMAIN queue /\ queue'[i] = queue[i]
              \/ /\ i \notin DOMAIN queue /\ i - Len(queue) \in 1..k
                 /\ queue'[i] = Work(c, first + (i - Len(queue)))
    <2>1. CASE i <= Len(queue)
        BY <1>5, <1>9, <1>10, <2>1
    <2>2. CASE ~(i <= Len(queue))
        <3>1. i - Len(queue) \in 1..k /\ i \notin DOMAIN queue
            BY <1>5, <1>9, <1>10, <2>2
        <3>2. queue'[i] = new[i - Len(queue)]
            BY <1>9, <1>10, <2>2
        <3> QED
            BY <3>1, <3>2 DEF new
    <2> QED
        BY <2>1, <2>2
<1>15. ASSUME NEW m \in 1..k
       PROVE  /\ FetchOf(future', Work(c, first + m)) = "queued"
              /\ FetchOf(future, Work(c, first + m)) = "none"
              /\ Work(c, first + m).client = c /\ Work(c, first + m).place = first + m
    BY <1>5, <1>11 DEF FetchOf, Work
<1>16. \A i \in DOMAIN queue' : FetchOf(future', queue'[i]) \in {"queued", "cancelled"}
    <2> SUFFICES ASSUME NEW i \in DOMAIN queue'
                 PROVE  FetchOf(future', queue'[i]) \in {"queued", "cancelled"}
        OBVIOUS
    <2>1. CASE i \in DOMAIN queue /\ queue'[i] = queue[i]
        <3>1. PICK w \in Works : w = queue[i]
            BY <1>13, <2>1
        <3>2. future[w.client][w.place] \in {"queued", "cancelled"}
            BY <2>1, <3>1 DEF FetchOf
        <3>3. w.client \in Fetchers /\ w.place \in IdsOf(w.client)
            BY DEF Works
        <3>4. future'[w.client][w.place] \in {"queued", "cancelled"}
            BY <1>11, <3>2, <3>3
        <3> QED
            BY <2>1, <3>1, <3>4 DEF FetchOf
    <2>2. CASE /\ i - Len(queue) \in 1..k
               /\ queue'[i] = Work(c, first + (i - Len(queue)))
        BY <1>15, <2>2 DEF FetchOf
    <2> QED
        BY <1>14, <2>1, <2>2
<1>17. \A i, j \in DOMAIN queue' : queue'[i] = queue'[j] => i = j
    <2> SUFFICES ASSUME NEW i \in DOMAIN queue', NEW j \in DOMAIN queue',
                        queue'[i] = queue'[j]
                 PROVE  i = j
        OBVIOUS
    <2>1. ASSUME NEW m \in DOMAIN queue, NEW l \in 1..k, queue[m] = Work(c, first + l)
          PROVE  FALSE
        BY <1>15, <2>1
    <2>2. CASE i \in DOMAIN queue /\ j \in DOMAIN queue
        BY <1>14, <2>2
    <2>3. CASE i \notin DOMAIN queue /\ j \notin DOMAIN queue
        <3>1. /\ i - Len(queue) \in 1..k /\ j - Len(queue) \in 1..k
              /\ first + (i - Len(queue)) = first + (j - Len(queue))
            BY <1>14, <1>15, <2>3
        <3> QED
            BY <1>9, <1>10, <3>1
    <2>4. CASE i \in DOMAIN queue /\ j \notin DOMAIN queue
        BY <1>14, <2>1, <2>4
    <2>5. CASE i \notin DOMAIN queue /\ j \in DOMAIN queue
        BY <1>14, <2>1, <2>5
    <2> QED
        BY <2>2, <2>3, <2>4, <2>5
<1> QED
    BY <1>9, <1>11, <1>12, <1>16, <1>17

\* Work that is not over belongs to the batch of a request that is there.
LEMMA ActivePlace ==
    ASSUME PoolInv, NEW c \in Fetchers, NEW n \in IdsOf(c), future[c][n] \notin OverStates
    PROVE  /\ Len(payloads[c]) < n /\ n <= offset[c] + BatchSize
           /\ n \in Batch(c)
           /\ step[c] \in {"collect", "wait"}
<1>1. /\ SizeOf[c] \in Nat /\ offset[c] \in Nat /\ BatchSize \in Nat \ {0}
      /\ Len(payloads[c]) \in Nat /\ n \in Nat \ {0}
    BY PoolNumbers DEF PoolInv
<1>2. future[c][n] # "fetched" /\ future[c][n] # "none"
    BY DEF OverStates
<1>3. ~(n <= Len(payloads[c])) /\ ~(n > offset[c] + BatchSize)
    BY <1>2 DEF PoolInv, Collected
<1>4. step[c] \in {"collect", "wait"}
    BY <1>2 DEF PoolInv, PoolShape, BeforeAndAfter
<1>5. offset[c] <= Len(payloads[c])
    BY DEF PoolInv, Collected
<1> QED
    BY <1>1, <1>3, <1>4, <1>5 DEF Batch, BatchFrom

\* A request that has collected all it has submitted submits the next batch.
LEMMA SubmitKeeps ==
    ASSUME PoolInv, NEW c \in Fetchers, NEW first, first = Len(payloads[c]),
           first < SizeOf[c], \A n \in IdsOf(c) : n > first => future[c][n] = "none",
           Submit(c, first), step' = [step EXCEPT ![c] = "collect"],
           UNCHANGED <<payloads, working, sessions>>
    PROVE  PoolInv'
<1> USE DEF PoolInv
<1>1. /\ SizeOf[c] \in Nat /\ first \in Nat /\ BatchSize \in Nat \ {0}
      /\ \A n \in IdsOf(c) : n \in Nat \ {0}
    BY PoolNumbers
<1>2. \A n \in BatchFrom(c, first) : n \in IdsOf(c) /\ n > first
    BY DEF BatchFrom
<1>3. /\ queue' \in Seq(Works)
      /\ offset' = [offset EXCEPT ![c] = first]
      /\ DOMAIN future' = Fetchers
      /\ \A d \in Fetchers : d # c => future'[d] = future[d]
      /\ future'[c] \in [IdsOf(c) -> FutureStates]
      /\ \A n \in IdsOf(c) :
             future'[c][n] = IF n \in BatchFrom(c, first) THEN "queued" ELSE future[c][n]
      /\ \A i \in DOMAIN queue' : FetchOf(future', queue'[i]) \in {"queued", "cancelled"}
      /\ \A i, j \in DOMAIN queue' : queue'[i] = queue'[j] => i = j
    BY <1>1, <1>2, SubmitIs DEF OnceInPool
<1>4. PoolShape'
    <2>1. \A d \in Fetchers : future'[d] \in [IdsOf(d) -> FutureStates]
        BY <1>3 DEF PoolShape
    <2> QED
        BY <1>1, <1>3, <2>1 DEF PoolShape
<1>5. Collected'
    <2> SUFFICES ASSUME NEW d \in Fetchers
                 PROVE  /\ \A n \in 1..Len(payloads'[d]) : payloads'[d][n] = n
                        /\ offset'[d] <= Len(payloads'[d])
                        /\ Len(payloads'[d]) <= offset'[d] + BatchSize
                        /\ Len(payloads'[d]) <= SizeOf[d]
                        /\ \A n \in IdsOf(d) :
                             /\ n <= Len(payloads'[d]) => future'[d][n] = "fetched"
                             /\ n > offset'[d] + BatchSize => future'[d][n] = "none"
        BY DEF Collected
    <2>1. CASE d = c
        <3>1. offset'[c] = first /\ payloads'[c] = payloads[c] /\ Len(payloads'[c]) = first
            BY <1>3 DEF PoolShape
        <3>2. ASSUME NEW n \in IdsOf(c)
              PROVE  /\ n > first + BatchSize => n \notin BatchFrom(c, first) /\ n > first
                     /\ n <= first => n \notin BatchFrom(c, first)
            BY <1>1 DEF BatchFrom
        <3>3. \A n \in IdsOf(c) : n <= first => future[c][n] = "fetched"
            BY DEF Collected
        <3>4. \A n \in 1..Len(payloads[c]) : payloads[c][n] = n
            BY DEF Collected
        <3>5. first <= first + BatchSize /\ first <= SizeOf[c]
            BY <1>1
        <3>6. ASSUME NEW n \in IdsOf(c)
              PROVE  /\ n <= first => future'[c][n] = "fetched"
                     /\ n > first + BatchSize => future'[c][n] = "none"
            BY <1>3, <3>2, <3>3
        <3> QED
            BY <2>1, <3>1, <3>4, <3>5, <3>6
    <2>2. CASE d # c
        <3>1. /\ offset'[d] = offset[d] /\ future'[d] = future[d]
              /\ payloads'[d] = payloads[d]
            BY <1>3, <2>2 DEF PoolShape
        <3> QED
            BY <3>1 DEF Collected
    <2> QED
        BY <2>1, <2>2
<1>6. OnceInPool'
    <2>1. \A w \in PoolWorkers : working[w] # NoWork =>
              FetchOf(future', working[w]) = "running"
        <3> SUFFICES ASSUME NEW w \in PoolWorkers, working[w] # NoWork
                     PROVE  FetchOf(future', working[w]) = "running"
            OBVIOUS
        <3>1. PICK j \in Works : j = working[w]
            BY PoolPlaces
        <3>2. future[j.client][j.place] = "running"
            BY <3>1 DEF OnceInPool, FetchOf
        <3>3. j.client \in Fetchers /\ j.place \in IdsOf(j.client)
            BY DEF Works
        <3>4. j.client = c => j.place \notin BatchFrom(c, first)
            BY <1>2, <3>2, <3>3
        <3> QED
            BY <1>3, <3>1, <3>2, <3>3, <3>4 DEF FetchOf
    <2> QED
        BY <1>3, <2>1 DEF OnceInPool, FetchOf
<1>7. BeforeAndAfter'
    <2>1. \A d \in Fetchers : d # c =>
              /\ step'[d] = step[d] /\ future'[d] = future[d] /\ offset'[d] = offset[d]
              /\ payloads'[d] = payloads[d]
        BY <1>3 DEF PoolShape
    <2>2. step'[c] = "collect"
        BY DEF PoolShape
    <2> QED
        BY <2>1, <2>2 DEF BeforeAndAfter
<1> QED
    BY <1>4, <1>5, <1>6, <1>7

\* A request that moves on without its work being touched.
LEMMA StepKeeps ==
    ASSUME PoolInv, NEW c \in Fetchers,
           NEW s \in {"collect", "wait", "returned", "raised"},
           step' = [step EXCEPT ![c] = s],
           UNCHANGED <<offset, future, payloads, queue, working>>,
           \/ UNCHANGED sessions
           \/ /\ sessions' = [sessions EXCEPT ![c] = {}]
              /\ \A n \in IdsOf(c) : future[c][n] # "running",
           s \in {"returned", "raised"} => \A n \in IdsOf(c) : future[c][n] \in OverStates,
           s = "returned" => Len(payloads[c]) = SizeOf[c]
    PROVE  PoolInv'
<1> USE DEF PoolInv
<1>1. PoolShape'
    BY DEF PoolShape
<1>2. Collected'
    BY DEF Collected
<1>3. OnceInPool'
    <2>1. ASSUME NEW w \in PoolWorkers, working[w] # NoWork
          PROVE  w \in sessions'[working[w].client]
        <3>1. PICK j \in Works : j = working[w]
            BY <2>1, PoolPlaces
        <3>2. /\ future[j.client][j.place] = "running" /\ w \in sessions[j.client]
              /\ j.client \in Fetchers /\ j.place \in IdsOf(j.client)
            BY <2>1, <3>1 DEF OnceInPool, FetchOf, Works
        <3>3. j.client # c \/ UNCHANGED sessions
            BY <3>2
        <3> QED
            BY <3>1, <3>2, <3>3 DEF PoolShape
    <2> QED
        BY <2>1 DEF OnceInPool, FetchOf
<1>4. BeforeAndAfter'
    <2>1. \A d \in Fetchers : step'[d] = IF d = c THEN s ELSE step[d]
        BY DEF PoolShape
    <2> QED
        BY <2>1 DEF BeforeAndAfter
<1> QED
    BY <1>1, <1>2, <1>3, <1>4

\* The steps of a request.
LEMMA FetchDetailsKeeps ==
    ASSUME PoolInv, NEW c \in Fetchers, FetchDetails(c)
    PROVE  PoolInv'
<1> USE DEF PoolInv
<1>1. /\ SizeOf[c] \in Nat /\ Len(payloads[c]) = 0
      /\ \A n \in IdsOf(c) : future[c][n] = "none"
      /\ UNCHANGED <<payloads, working, sessions>>
    BY PoolNumbers DEF BeforeAndAfter, FetchDetails
<1>2. CASE SizeOf[c] = 0
    BY <1>1, <1>2, StepKeeps DEF FetchDetails, OverStates
<1>3. CASE SizeOf[c] # 0
    BY <1>1, <1>3, SubmitKeeps DEF FetchDetails
<1> QED
    BY <1>2, <1>3

LEMMA EndBatchKeeps ==
    ASSUME PoolInv, NEW c \in Fetchers, EndBatch(c)
    PROVE  PoolInv'
<1> USE DEF PoolInv
<1>1. /\ SizeOf[c] \in Nat /\ Len(payloads[c]) \in Nat /\ offset[c] \in Nat
      /\ BatchSize \in Nat \ {0} /\ offset[c] <= Len(payloads[c])
      /\ Len(payloads[c]) <= offset[c] + BatchSize
    BY PoolNumbers DEF Collected
<1>2. CASE NextPlace(c) \in IdsOf(c)
    <2>1. Len(payloads[c]) + 1 \in 1..SizeOf[c] /\ Len(payloads[c]) + 1 \notin Batch(c)
        BY <1>2 DEF EndBatch, NextPlace, IdsOf
    <2>2. offset[c] + BatchSize = Len(payloads[c]) /\ Len(payloads[c]) < SizeOf[c]
        BY <1>1, <2>1 DEF Batch, BatchFrom, IdsOf
    <2>3. \A n \in IdsOf(c) : n > offset[c] + BatchSize => future[c][n] = "none"
        BY DEF Collected
    <2>4. /\ Submit(c, offset[c] + BatchSize) /\ step' = [step EXCEPT ![c] = "collect"]
          /\ UNCHANGED <<payloads, working, sessions>>
        BY <1>2 DEF EndBatch, PoolShape
    <2> QED
        BY <2>2, <2>3, <2>4, SubmitKeeps
<1>3. CASE NextPlace(c) \notin IdsOf(c)
    BY <1>3, StepKeeps DEF EndBatch
<1> QED
    BY <1>2, <1>3

LEMMA LeaveKeeps ==
    ASSUME PoolInv, NEW c \in Fetchers, Leave(c)
    PROVE  PoolInv'
<1> USE DEF PoolInv
<1>1. \A n \in IdsOf(c) : future[c][n] \in OverStates
    BY ActivePlace DEF Leave
<1>2. PICK s : s = IF NextPlace(c) \in IdsOf(c) THEN "raised" ELSE "returned"
    OBVIOUS
<1>3. /\ SizeOf[c] \in Nat /\ Len(payloads[c]) \in Nat /\ Len(payloads[c]) <= SizeOf[c]
    BY PoolNumbers DEF Collected
<1>4. s = "returned" => Len(payloads[c]) = SizeOf[c]
    BY <1>2, <1>3 DEF NextPlace, IdsOf
<1>5. \A n \in IdsOf(c) : future[c][n] # "running"
    BY <1>1 DEF OverStates
<1>6. /\ step' = [step EXCEPT ![c] = s] /\ sessions' = [sessions EXCEPT ![c] = {}]
      /\ UNCHANGED <<offset, future, payloads, queue, working>>
    BY <1>2 DEF Leave
<1> QED
    BY <1>1, <1>2, <1>4, <1>5, <1>6, StepKeeps

LEMMA CollectResultKeeps ==
    ASSUME PoolInv, NEW c \in Fetchers, CollectResult(c)
    PROVE  PoolInv'
<1> USE DEF PoolInv
<1>1. /\ SizeOf[c] \in Nat /\ Len(payloads[c]) \in Nat /\ offset[c] \in Nat
      /\ BatchSize \in Nat \ {0} /\ payloads[c] \in Seq(Nat)
      /\ \A n \in IdsOf(c) : n \in Nat \ {0}
    BY PoolNumbers DEF PoolShape
<1> DEFINE m == Len(payloads[c]) + 1
<1>2. /\ m \in IdsOf(c) /\ m <= offset[c] + BatchSize /\ m <= SizeOf[c]
      /\ future[c][m] = "fetched" /\ step[c] = "collect"
      /\ payloads' = [payloads EXCEPT ![c] = Append(payloads[c], m)]
      /\ UNCHANGED <<step, offset, future, queue, working, sessions>>
    BY <1>1 DEF CollectResult, NextPlace, Batch, BatchFrom, IdsOf
<1>3. /\ payloads'[c] \in Seq(Nat) /\ Len(payloads'[c]) = m
      /\ \A n \in 1..Len(payloads[c]) : payloads'[c][n] = payloads[c][n]
      /\ payloads'[c][m] = m
      /\ \A d \in Fetchers : d # c => payloads'[d] = payloads[d]
    BY <1>1, <1>2, AppendProperties DEF PoolShape
<1>4. PoolShape'
    BY <1>2, <1>3 DEF PoolShape
<1>5. Collected'
    <2>1. ASSUME NEW n \in IdsOf(c), n <= m PROVE future[c][n] = "fetched"
        <3>1. n = m \/ n <= Len(payloads[c])
            BY <1>1, <2>1
        <3> QED
            BY <1>2, <3>1 DEF Collected
    <2>2. \A n \in 1..m : payloads'[c][n] = n
        <3>1. \A n \in 1..m : n = m \/ n \in 1..Len(payloads[c])
            BY <1>1
        <3> QED
            BY <1>3, <3>1 DEF Collected
    <2>3. offset[c] <= m
        BY <1>1 DEF Collected
    <2> HIDE DEF m
    <2>4. /\ \A n \in 1..Len(payloads'[c]) : payloads'[c][n] = n
          /\ offset'[c] <= Len(payloads'[c]) /\ Len(payloads'[c]) <= offset'[c] + BatchSize
          /\ Len(payloads'[c]) <= SizeOf[c]
          /\ \A n \in IdsOf(c) :
                /\ n <= Len(payloads'[c]) => future'[c][n] = "fetched"
                /\ n > offset'[c] + BatchSize => future'[c][n] = "none"
        BY <1>2, <1>3, <2>1, <2>2, <2>3 DEF Collected
    <2> QED
        BY <1>2, <1>3, <2>4 DEF Collected
<1>6. OnceInPool'
    BY <1>2 DEF OnceInPool, FetchOf
<1>7. BeforeAndAfter'
    BY <1>2, <1>3 DEF BeforeAndAfter
<1> QED
    BY <1>4, <1>5, <1>6, <1>7

\* A change of the fetches of c that are queued or running, each to one of its
\* later states, that the queue and the workers agree with.
LEMMA FuturesChange ==
    ASSUME PoolInv, NEW c \in Fetchers, UNCHANGED <<offset, payloads>>,
           DOMAIN future' = Fetchers, future'[c] \in [IdsOf(c) -> FutureStates],
           \A d \in Fetchers : d # c => future'[d] = future[d],
           \A n \in IdsOf(c) : future'[c][n] # future[c][n] =>
               future[c][n] \notin OverStates,
           \/ UNCHANGED step
           \/ step[c] = "collect" /\ step' = [step EXCEPT ![c] = "wait"]
    PROVE  /\ Collected' /\ BeforeAndAfter'
           /\ DOMAIN future' = Fetchers
           /\ \A d \in Fetchers : future'[d] \in [IdsOf(d) -> FutureStates]
<1>1. \A n \in IdsOf(c) : future'[c][n] # future[c][n] =>
          /\ Len(payloads[c]) < n /\ n <= offset[c] + BatchSize
          /\ step[c] \in {"collect", "wait"}
    BY ActivePlace
<1>2. /\ Len(payloads[c]) \in Nat /\ offset[c] \in Nat /\ BatchSize \in Nat
      /\ \A n \in IdsOf(c) : n \in Nat
    BY PoolNumbers DEF PoolInv
<1>3. \A n \in IdsOf(c) : n <= Len(payloads[c]) \/ n > offset[c] + BatchSize =>
          future'[c][n] = future[c][n]
    BY <1>1, <1>2
<1>4. Collected'
    BY <1>3 DEF PoolInv, Collected
<1>5. \A d \in Fetchers : step'[d] = step[d] \/ (d = c /\ step'[d] = "wait")
    BY DEF PoolInv, PoolShape
<1>6. BeforeAndAfter'
    <2>1. \A n \in IdsOf(c) : step'[c] # "wait" /\ step'[c] # "collect" =>
              future'[c][n] = future[c][n]
        BY <1>1, <1>5
    <2> QED
        BY <1>5, <2>1 DEF PoolInv, BeforeAndAfter
<1> QED
    BY <1>4, <1>6 DEF PoolInv, PoolShape

LEMMA CollectFailsKeeps ==
    ASSUME PoolInv, NEW c \in Fetchers, CollectFails(c)
    PROVE  PoolInv'
<1> USE DEF PoolInv
<1>1. /\ step[c] = "collect" /\ step' = [step EXCEPT ![c] = "wait"]
      /\ DOMAIN future' = Fetchers
      /\ \A d \in Fetchers : d # c => future'[d] = future[d]
      /\ future'[c] = [n \in IdsOf(c) |->
                         IF future[c][n] = "queued" THEN "cancelled" ELSE future[c][n]]
      /\ UNCHANGED <<offset, payloads, queue, working, sessions>>
    BY DEF CollectFails, PoolShape
<1>2. future'[c] \in [IdsOf(c) -> FutureStates]
    BY <1>1 DEF PoolShape, FutureStates
<1>3. Collected' /\ BeforeAndAfter'
      /\ \A d \in Fetchers : future'[d] \in [IdsOf(d) -> FutureStates]
    BY <1>1, <1>2, FuturesChange DEF OverStates
<1>4. PoolShape'
    BY <1>1, <1>3 DEF PoolShape
<1>5. ASSUME NEW j \in Works
      PROVE  /\ FetchOf(future, j) = "running" => FetchOf(future', j) = "running"
             /\ FetchOf(future, j) \in {"queued", "cancelled"} =>
                   FetchOf(future', j) \in {"queued", "cancelled"}
    BY <1>1 DEF FetchOf, Works
<1>6. OnceInPool'
    <2>1. \A w \in PoolWorkers : working[w] # NoWork => FetchOf(future', working[w]) = "running"
        BY <1>5, PoolPlaces DEF OnceInPool
    <2>2. \A i \in DOMAIN queue : FetchOf(future', queue[i]) \in {"queued", "cancelled"}
        BY <1>5, PoolPlaces DEF OnceInPool
    <2> QED
        BY <1>1, <2>1, <2>2 DEF OnceInPool, FetchOf
<1> QED
    BY <1>3, <1>4, <1>6

\* The place of a request that has left is taken.
LEMMA NewClientKeeps ==
    ASSUME PoolInv, NEW c \in Fetchers, NewClient(c)
    PROVE  PoolInv'
<1> USE DEF PoolInv
<1>1. /\ step' = [step EXCEPT ![c] = "idle"] /\ offset' = [offset EXCEPT ![c] = 0]
      /\ payloads' = [payloads EXCEPT ![c] = <<>>]
      /\ DOMAIN future' = Fetchers
      /\ \A d \in Fetchers : d # c => future'[d] = future[d]
      /\ future'[c] = [n \in IdsOf(c) |-> "none"]
      /\ UNCHANGED <<queue, working, sessions>>
      /\ \A n \in IdsOf(c) : future[c][n] \in OverStates
    BY DEF NewClient, PoolShape, BeforeAndAfter
<1>2. PoolShape'
    <2>1. \A d \in Fetchers : future'[d] \in [IdsOf(d) -> FutureStates]
        BY <1>1 DEF PoolShape, FutureStates
    <2>2. <<>> \in Seq(Nat)
        BY EmptySeq
    <2> QED
        BY <1>1, <2>1, <2>2 DEF PoolShape
<1>3. Collected'
    <2>1. /\ SizeOf[c] \in Nat /\ BatchSize \in Nat \ {0}
          /\ \A n \in IdsOf(c) : n \in Nat \ {0}
        BY PoolNumbers
    <2>2. /\ payloads'[c] = <<>> /\ Len(payloads'[c]) = 0 /\ offset'[c] = 0
          /\ \A d \in Fetchers : d # c => payloads'[d] = payloads[d] /\ offset'[d] = offset[d]
        BY <1>1 DEF PoolShape
    <2>3. /\ \A n \in 1..Len(payloads'[c]) : payloads'[c][n] = n
          /\ offset'[c] <= Len(payloads'[c]) /\ Len(payloads'[c]) <= offset'[c] + BatchSize
          /\ Len(payloads'[c]) <= SizeOf[c]
          /\ \A n \in IdsOf(c) :
                /\ n <= Len(payloads'[c]) => future'[c][n] = "fetched"
                /\ n > offset'[c] + BatchSize => future'[c][n] = "none"
        BY <1>1, <2>1, <2>2
    <2> QED
        BY <1>1, <2>2, <2>3 DEF Collected
<1>4. ASSUME NEW j \in Works, FetchOf(future, j) \in {"running", "queued", "cancelled"}
      PROVE  FetchOf(future', j) = FetchOf(future, j)
    BY <1>1, <1>4 DEF FetchOf, Works, OverStates
<1>5. OnceInPool'
    <2>1. \A w \in PoolWorkers : working[w] # NoWork => FetchOf(future', working[w]) = "running"
        BY <1>4, PoolPlaces DEF OnceInPool
    <2>2. \A i \in DOMAIN queue : FetchOf(future', queue[i]) \in {"queued", "cancelled"}
        BY <1>4, PoolPlaces DEF OnceInPool
    <2> QED
        BY <1>1, <2>1, <2>2 DEF OnceInPool, FetchOf
<1>6. BeforeAndAfter'
    <2>1. \A d \in Fetchers : d # c => /\ step'[d] = step[d] /\ payloads'[d] = payloads[d]
                                      /\ offset'[d] = offset[d]
        BY <1>1 DEF PoolShape
    <2>2. step'[c] = "idle" /\ payloads'[c] = <<>> /\ offset'[c] = 0
        BY <1>1 DEF PoolShape
    <2> QED
        BY <1>1, <2>1, <2>2 DEF BeforeAndAfter
<1> QED
    BY <1>2, <1>3, <1>5, <1>6

\* The steps of a worker.
LEMMA TakeWorkKeeps ==
    ASSUME PoolInv, NEW w \in PoolWorkers, TakeWork(w)
    PROVE  PoolInv'
<1> USE DEF PoolInv
<1>1. PICK j, c, n : j = Head(queue) /\ c = j.client /\ n = j.place
    OBVIOUS
<1>2. PICK new : new = IF future[c][n] = "cancelled" THEN "dropped" ELSE "running"
    OBVIOUS
<1>3. /\ queue \in Seq(Works) /\ queue # <<>> /\ queue' = Tail(queue)
      /\ working[w] = NoWork /\ UNCHANGED <<step, offset, payloads>>
    BY DEF TakeWork, PoolShape
<1>4. /\ Len(queue) \in Nat \ {0} /\ DOMAIN queue = 1..Len(queue) /\ j = queue[1]
      /\ queue' \in Seq(Works) /\ Len(queue') = Len(queue) - 1
      /\ DOMAIN queue' = 1..(Len(queue) - 1)
      /\ \A i \in 1..(Len(queue) - 1) : queue'[i] = queue[i + 1]
    <2>1. Len(queue) \in Nat \ {0} /\ DOMAIN queue = 1..Len(queue)
        BY <1>3, EmptySeq, LenProperties
    <2>2. /\ queue' \in Seq(Works) /\ Len(queue') = Len(queue) - 1
          /\ \A i \in 1..Len(queue') : queue'[i] = queue[i + 1]
        BY <1>3, HeadTailProperties
    <2>3. DOMAIN queue' = 1..Len(queue')
        BY <2>2, LenProperties
    <2> QED
        BY <1>1, <1>3, <2>1, <2>2, <2>3
<1>5. /\ j \in Works /\ c \in Fetchers /\ n \in IdsOf(c)
      /\ future[c][n] \in {"queued", "cancelled"}
    <2>1. 1 \in DOMAIN queue
        BY <1>4
    <2>2. j \in Works /\ FetchOf(future, j) \in {"queued", "cancelled"}
        BY <1>4, <2>1, PoolPlaces DEF OnceInPool
    <2> QED
        BY <1>1, <2>2 DEF Works, FetchOf
<1>6. /\ future' = [future EXCEPT ![c][n] = new]
      /\ new = "dropped" => UNCHANGED <<working, sessions>>
      /\ new # "dropped" => /\ new = "running"
                            /\ working' = [working EXCEPT ![w] = j]
                            /\ sessions' = [sessions EXCEPT ![c] = @ \cup {w}]
    BY <1>1, <1>2 DEF TakeWork
<1>7. /\ DOMAIN future' = Fetchers
      /\ \A d \in Fetchers : d # c => future'[d] = future[d]
      /\ future'[c] = [m \in IdsOf(c) |-> IF m = n THEN new ELSE future[c][m]]
    BY <1>5, <1>6 DEF PoolShape
<1>8. future'[c] \in [IdsOf(c) -> FutureStates]
    <2>1. new \in FutureStates
        BY <1>2 DEF FutureStates
    <2>2. future[c] \in [IdsOf(c) -> FutureStates]
        BY <1>5 DEF PoolShape
    <2> QED
        BY <1>7, <2>1, <2>2
<1>9. Collected' /\ BeforeAndAfter'
      /\ \A d \in Fetchers : future'[d] \in [IdsOf(d) -> FutureStates]
    BY <1>3, <1>5, <1>7, <1>8, FuturesChange DEF OverStates
<1>10. PoolShape'
    <2>1. /\ working' \in [PoolWorkers -> Works \cup {NoWork}]
          /\ sessions' \in [Fetchers -> SUBSET PoolWorkers]
        <3>1. CASE new = "dropped"
            BY <1>6, <3>1 DEF PoolShape
        <3>2. CASE new # "dropped"
            <4>1. /\ working' = [working EXCEPT ![w] = j]
                  /\ sessions' = [sessions EXCEPT ![c] = sessions[c] \cup {w}]
                BY <1>6, <3>2
            <4>2. working' \in [PoolWorkers -> Works \cup {NoWork}]
                BY <1>5, <4>1 DEF PoolShape
            <4>3. sessions[c] \cup {w} \in SUBSET PoolWorkers
                BY <1>5 DEF PoolShape
            <4>4. sessions' \in [Fetchers -> SUBSET PoolWorkers]
                BY <1>5, <4>1, <4>3 DEF PoolShape
            <4> QED
                BY <4>2, <4>4
        <3> QED
            BY <3>1, <3>2
    <2> QED
        BY <1>3, <1>4, <1>7, <1>9, <2>1 DEF PoolShape
<1>11. \A i \in Works : /\ i = j => FetchOf(future', i) = new
                        /\ i # j => FetchOf(future', i) = FetchOf(future, i)
    <2> SUFFICES ASSUME NEW i \in Works
                 PROVE  /\ i = j => FetchOf(future', i) = new
                        /\ i # j => FetchOf(future', i) = FetchOf(future, i)
        OBVIOUS
    <2>1. i.client \in Fetchers /\ i.place \in IdsOf(i.client)
        BY DEF Works
    <2>2. i.client = c /\ i.place = n => i = j
        BY <1>1, <1>5 DEF Works
    <2> QED
        BY <1>1, <1>5, <1>7, <2>1, <2>2 DEF FetchOf
<1>12. \A v \in PoolWorkers : working[v] # NoWork =>
           working[v] \in Works /\ working[v] # j /\ v \in sessions[working[v].client]
                                 /\ FetchOf(future, working[v]) = "running"
    BY <1>1, <1>5, PoolPlaces DEF OnceInPool, FetchOf
<1>13. OnceInPool'
    <2>1. ASSUME NEW v \in PoolWorkers, working'[v] # NoWork
          PROVE  FetchOf(future', working'[v]) = "running" /\ v \in sessions'[working'[v].client]
        <3>1. CASE v = w /\ new = "running"
            <4>1. working'[v] = j /\ v \in sessions'[c]
                BY <1>5, <1>6, <3>1 DEF PoolShape
            <4>2. FetchOf(future', j) = "running"
                BY <1>5, <1>11, <3>1
            <4> QED
                BY <1>1, <4>1, <4>2
        <3>2. CASE v # w \/ new # "running"
            <4>1. working'[v] = working[v]
                BY <1>2, <1>6, <3>2 DEF PoolShape
            <4>2. PICK i \in Works : i = working[v]
                BY <1>12, <2>1, <4>1
            <4>3. sessions[i.client] \subseteq sessions'[i.client]
                <5>1. i.client \in Fetchers
                    BY DEF Works
                <5>2. CASE sessions' = [sessions EXCEPT ![c] = @ \cup {w}]
                    BY <5>1, <5>2 DEF PoolShape
                <5> QED
                    BY <1>6, <5>2
            <4>4. i # j /\ v \in sessions[i.client] /\ FetchOf(future, i) = "running"
                BY <1>12, <2>1, <4>1, <4>2
            <4>5. FetchOf(future', i) = "running"
                <5>1. FetchOf(future', i) = FetchOf(future, i)
                    BY <1>11, <4>4
                <5> QED
                    BY <4>4, <5>1
            <4>7. v \in sessions'[i.client]
                BY <4>3, <4>4
            <4>6. working'[v] = i
                BY <4>1, <4>2
            <4> QED
                BY <4>5, <4>6, <4>7
        <3> QED
            BY <1>2, <3>1, <3>2
    <2>2. ASSUME NEW u \in PoolWorkers, NEW v \in PoolWorkers, working'[u] = working'[v],
                 working'[u] # NoWork
          PROVE  u = v
        <3>1. CASE UNCHANGED working
            BY <2>2, <3>1 DEF OnceInPool
        <3>2. CASE working' = [working EXCEPT ![w] = j]
            <4>1. \A x \in PoolWorkers : working'[x] = IF x = w THEN j ELSE working[x]
                BY <3>2 DEF PoolShape
            <4>2. \A x \in PoolWorkers : working[x] # NoWork => working[x] # j
                BY <1>12
            <4>3. j # NoWork
                BY <1>5, PoolPlaces
            <4> QED
                BY <2>2, <4>1, <4>2, <4>3 DEF OnceInPool
        <3> QED
            BY <1>6, <3>1, <3>2
    <2>3. ASSUME NEW i \in DOMAIN queue'
          PROVE  FetchOf(future', queue'[i]) \in {"queued", "cancelled"}
        <3>1. i + 1 \in DOMAIN queue /\ i + 1 # 1 /\ 1 \in DOMAIN queue
              /\ queue'[i] = queue[i + 1]
            BY <1>4
        <3>2. queue[i + 1] # j
            BY <1>4, <3>1 DEF OnceInPool
        <3>3. queue[i + 1] \in Works
            BY <3>1, PoolPlaces
        <3> QED
            BY <1>11, <3>1, <3>2, <3>3 DEF OnceInPool
    <2>4. ASSUME NEW i \in DOMAIN queue', NEW k \in DOMAIN queue', queue'[i] = queue'[k]
          PROVE  i = k
        <3>1. /\ i + 1 \in DOMAIN queue /\ k + 1 \in DOMAIN queue
              /\ queue'[i] = queue[i + 1] /\ queue'[k] = queue[k + 1]
              /\ i \in Nat /\ k \in Nat
            BY <1>4
        <3>2. i + 1 = k + 1
            BY <2>4, <3>1 DEF OnceInPool
        <3> QED
            BY <3>1, <3>2
    <2> QED
        BY <2>1, <2>2, <2>3, <2>4 DEF OnceInPool
<1> QED
    BY <1>9, <1>10, <1>13

LEMMA EndWorkKeeps ==
    ASSUME PoolInv, NEW w \in PoolWorkers, EndWork(w)
    PROVE  PoolInv'
<1> USE DEF PoolInv
<1>1. PICK j, c, n : j = working[w] /\ c = j.client /\ n = j.place
    OBVIOUS
<1>2. PICK new \in {"fetched", "failed"} : future' = [future EXCEPT ![c][n] = new]
    BY <1>1 DEF EndWork
<1>3. /\ working[w] # NoWork /\ working' = [working EXCEPT ![w] = NoWork]
      /\ UNCHANGED <<step, offset, payloads, queue, sessions>>
    BY DEF EndWork
<1>4. /\ j \in Works /\ c \in Fetchers /\ n \in IdsOf(c) /\ future[c][n] = "running"
    BY <1>1, <1>3, PoolPlaces DEF OnceInPool, FetchOf, Works
<1>5. /\ DOMAIN future' = Fetchers
      /\ \A d \in Fetchers : d # c => future'[d] = future[d]
      /\ future'[c] = [m \in IdsOf(c) |-> IF m = n THEN new ELSE future[c][m]]
    BY <1>2, <1>4 DEF PoolShape
<1>6. future'[c] \in [IdsOf(c) -> FutureStates]
    <2>1. new \in FutureStates
        BY DEF FutureStates
    <2>2. future[c] \in [IdsOf(c) -> FutureStates]
        BY <1>4 DEF PoolShape
    <2> QED
        BY <1>5, <2>1, <2>2
<1>7. Collected' /\ BeforeAndAfter'
      /\ \A d \in Fetchers : future'[d] \in [IdsOf(d) -> FutureStates]
    BY <1>3, <1>4, <1>5, <1>6, FuturesChange DEF OverStates
<1>8. PoolShape'
    BY <1>3, <1>5, <1>7 DEF PoolShape
<1>9. ASSUME NEW i \in Works, i # j
      PROVE  FetchOf(future', i) = FetchOf(future, i)
    <2>1. i.client \in Fetchers /\ i.place \in IdsOf(i.client)
        BY DEF Works
    <2>2. i.client = c /\ i.place = n => i = j
        BY <1>1, <1>4 DEF Works
    <2> QED
        BY <1>5, <1>9, <2>1, <2>2 DEF FetchOf
<1>10. OnceInPool'
    <2>1. ASSUME NEW v \in PoolWorkers, working'[v] # NoWork
          PROVE  working'[v] = working[v] /\ FetchOf(future', working[v]) = "running"
        <3>1. v # w /\ working'[v] = working[v] /\ working[v] # NoWork
            BY <1>3, <2>1 DEF PoolShape
        <3>2. working[v] \in Works /\ working[v] # j
            BY <1>1, <1>3, <3>1, PoolPlaces DEF OnceInPool
        <3> QED
            BY <1>9, <3>1, <3>2 DEF OnceInPool
    <2>2. \A i \in DOMAIN queue : FetchOf(future', queue[i]) \in {"queued", "cancelled"}
        <3> SUFFICES ASSUME NEW i \in DOMAIN queue
                     PROVE  FetchOf(future', queue[i]) \in {"queued", "cancelled"}
            OBVIOUS
        <3>1. queue[i] \in Works /\ FetchOf(future, queue[i]) \in {"queued", "cancelled"}
            BY PoolPlaces DEF OnceInPool
        <3>2. queue[i] # j
            BY <1>1, <1>4, <3>1 DEF FetchOf
        <3> QED
            BY <1>9, <3>1, <3>2
    <2>3. \A u, v \in PoolWorkers : working'[u] = working'[v] /\ working'[u] # NoWork => u = v
        BY <2>1 DEF OnceInPool
    <2>4. \A v \in PoolWorkers : working'[v] # NoWork =>
              FetchOf(future', working'[v]) = "running" /\ v \in sessions'[working'[v].client]
        BY <1>3, <2>1 DEF OnceInPool
    <2> QED
        BY <1>3, <2>2, <2>3, <2>4 DEF OnceInPool
<1> QED
    BY <1>7, <1>8, <1>10

\* Nothing is fetched, queued or collected at the start.
LEMMA PoolStarts == PoolInit => PoolInv
<1> SUFFICES ASSUME PoolInit PROVE PoolInv
    OBVIOUS
<1>1. PoolShape
    BY EmptySeq DEF PoolInit, PoolShape, FutureStates
<1>2. Collected
    BY SizeOfAssumption, BatchAssumption DEF PoolInit, Collected, IdsOf
<1>3. OnceInPool
    BY DEF PoolInit, OnceInPool
<1>4. BeforeAndAfter
    BY DEF PoolInit, BeforeAndAfter
<1> QED
    BY <1>1, <1>2, <1>3, <1>4 DEF PoolInv

LEMMA PoolInvariance == PoolSpec => []PoolInv
<1>1. ASSUME PoolInv, PoolNext PROVE PoolInv'
    BY <1>1, FetchDetailsKeeps, CollectResultKeeps, EndBatchKeeps, CollectFailsKeeps,
       LeaveKeeps, NewClientKeeps, TakeWorkKeeps, EndWorkKeeps
    DEF PoolNext, Proceed, Serve
<1>2. ASSUME PoolInv, UNCHANGED poolVars PROVE PoolInv'
    <2>1. PoolShape' /\ Collected'
        BY <1>2 DEF PoolInv, poolVars, PoolShape, Collected
    <2>2. OnceInPool'
        BY <1>2 DEF PoolInv, poolVars, OnceInPool, FetchOf
    <2>3. BeforeAndAfter'
        BY <1>2 DEF PoolInv, poolVars, BeforeAndAfter
    <2> QED
        BY <2>1, <2>2, <2>3 DEF PoolInv
<1> QED
    BY <1>1, <1>2, PoolStarts, PTL DEF PoolSpec

\* No session is closed under a worker that uses it, no work of a request that
\* has left is still in the pool, and a request that returns has every detail in
\* the order of its ids: for any requests, lengths, batches and workers.
THEOREM NoFetchOutlives == PoolSpec => []NothingRunsOn
<1>1. ASSUME PoolInv PROVE NothingRunsOn
    <2> USE DEF PoolInv
    <2>1. ASSUME NEW c \in Fetchers, step[c] = "returned"
          PROVE  /\ payloads[c] = [n \in IdsOf(c) |-> n]
                 /\ \A n \in IdsOf(c) : future[c][n] = "fetched"
        <3>1. /\ Len(payloads[c]) = SizeOf[c] /\ payloads[c] \in Seq(Nat)
              /\ DOMAIN payloads[c] = 1..Len(payloads[c])
              /\ \A n \in 1..Len(payloads[c]) : payloads[c][n] = n
            BY <1>1, <2>1, PoolNumbers DEF BeforeAndAfter, PoolShape, Collected
        <3>2. payloads[c] = [n \in 1..Len(payloads[c]) |-> payloads[c][n]]
            BY <3>1
        <3>3. \A n \in IdsOf(c) : n <= Len(payloads[c])
            BY <3>1, <1>1, PoolNumbers DEF IdsOf
        <3> QED
            BY <1>1, <3>1, <3>2, <3>3 DEF Collected, IdsOf
    <2> QED
        BY <1>1, <2>1 DEF NothingRunsOn, OnceInPool, BeforeAndAfter
<1> QED
    BY <1>1, PoolInvariance, PTL

-----------------------------------------------------------------------------
(* CacheLock *)

\* A worker that is doing something has drawn a token.
Asked == \A w \in Workers : pc[w] # "idle" => asks[w] \in 1..MaxAsks

\* A live lease is backed by the entry it was granted: the store still holds
\* the worker's token, for at least as long, and it is Redis unless the
\* worker's client has given Redis up.
Backed ==
    \A w \in Workers :
        lease[w] > 0 =>
            /\ pc[w] = "holding"
            /\ entry[place[w]].token = token(w)
            /\ lease[w] <= entry[place[w]].ttl
            /\ place[w] # Redis =>
                  place[w] = ClientOf[w] /\ ~online[ClientOf[w]]

IInv == TypeOK /\ Asked /\ Backed

USE ClientOfAssumption, RedisAssumption, TTLAssumption, MaxAsksAssumption

\* Lease is a positive number of ticks whatever ttl_sec is passed.
LEMMA LeasePositive == Lease \in Nat /\ Lease >= 1
BY DEF Lease

\* The value a granted lock leaves in its store is an entry.
LEMMA GrantedType ==
    ASSUME NEW w \in Workers, asks[w] \in 1..MaxAsks
    PROVE  Granted(w) \in Entries
BY LeasePositive DEF Granted, Entries, token, Tokens

LEMMA FreeType == Free \in Entries
BY LeasePositive DEF Free, Entries

\* Ageing an entry leaves an entry of the same token, or a free one.
LEMMA AgedType ==
    ASSUME NEW e \in Entries, NEW s \in Stores
    PROVE  /\ Aged(e, s) \in Entries
           /\ Aged(e, s).token \in {e.token, NoToken}
           /\ e.token # NoToken /\ e.ttl > LastTick(s) =>
                 Aged(e, s).token = e.token /\ Aged(e, s).ttl = e.ttl - 1
BY FreeType, LeasePositive DEF Aged, Entries, LastTick, Free

\* Tokens of different workers differ, and none is the mark of a free lock.
LEMMA TokensDiffer ==
    ASSUME NEW v \in Workers, NEW w \in Workers
    PROVE  /\ token(v) = token(w) => v = w
           /\ asks[w] \in 1..MaxAsks => token(w) # NoToken
BY NoTokenAssumption DEF token, Tokens

\* The initial states satisfy the inductive invariant.
LEMMA InitIInv == Init => IInv
BY FreeType, LeasePositive DEF Init, IInv, TypeOK, Asked, Backed, Stores

\* Type correctness and Asked are preserved by every step.
LEMMA TypeStep == TypeOK /\ Asked /\ [Next]_vars => TypeOK' /\ Asked'
<1> SUFFICES ASSUME TypeOK, Asked, [Next]_vars
             PROVE  TypeOK' /\ Asked'
    OBVIOUS
<1> USE DEF TypeOK, Asked
<1>s. ASSUME NEW c \in Clients PROVE c \in Stores
    BY DEF Stores
<1>r. Redis \in Stores
    BY DEF Stores
<1>1. ASSUME NEW w \in Workers, Ask(w)
      PROVE  TypeOK' /\ Asked'
    BY <1>1 DEF Ask
<1>2. ASSUME NEW w \in Workers, NEW s \in Stores, AskStore(w, s)
      PROVE  TypeOK' /\ Asked'
    <2>1. CASE entry[s].token = NoToken
        BY <1>2, <2>1, GrantedType, LeasePositive DEF AskStore
    <2>2. CASE entry[s].token # NoToken
        BY <1>2, <2>2 DEF AskStore
    <2> QED
        BY <2>1, <2>2
<1>3. ASSUME NEW w \in Workers, AskRedisRaises(w)
      PROVE  TypeOK' /\ Asked'
    BY <1>3, GrantedType DEF AskRedisRaises
<1>4. ASSUME NEW w \in Workers, StartRelease(w)
      PROVE  TypeOK' /\ Asked'
    BY <1>4, LeasePositive DEF StartRelease
<1>5. ASSUME NEW w \in Workers, NEW s \in Stores, ReleaseStore(w, s)
      PROVE  TypeOK' /\ Asked'
    BY <1>5, FreeType DEF ReleaseStore, Deleted
<1>6. ASSUME NEW w \in Workers, ReleaseRedisRaises(w)
      PROVE  TypeOK' /\ Asked'
    BY <1>6, FreeType DEF ReleaseRedisRaises, Deleted
<1>7. ASSUME NEW c \in Clients, OtherCallRaises(c)
      PROVE  TypeOK' /\ Asked'
    BY <1>7 DEF OtherCallRaises
<1>8. ASSUME NEW c \in Clients, Restart(c)
      PROVE  TypeOK' /\ Asked'
    <2>1. entry' \in [Stores -> Entries]
        BY <1>8, FreeType DEF Restart
    <2>2. online' \in [Clients -> BOOLEAN]
        BY <1>8 DEF Restart
    <2>3. pc' \in [Workers -> {"idle", "asking", "holding", "releasing"}]
        BY <1>8 DEF Restart
    <2>4. lease' \in [Workers -> 0..Lease]
        BY <1>8, LeasePositive DEF Restart
    <2>5. Asked'
        BY <1>8 DEF Restart
    <2> QED
        BY <1>8, <2>1, <2>2, <2>3, <2>4, <2>5 DEF Restart
<1>9. CASE Tick
    <2>1. entry' \in [Stores -> Entries]
        BY <1>9, AgedType DEF Tick
    <2>2. lease' \in [Workers -> 0..Lease]
        BY <1>9, LeasePositive DEF Tick
    <2> QED
        BY <1>9, <2>1, <2>2 DEF Tick
<1>10. CASE UNCHANGED vars
    BY <1>10 DEF vars
<1> QED
    BY <1>s, <1>r, <1>1, <1>2, <1>3, <1>4, <1>5, <1>6, <1>7, <1>8, <1>9, <1>10
       DEF Next, WorkerStep, AskRedis, AskMemory, ReleaseRedis, ReleaseMemory

\* Every reachable state is well typed.
THEOREM TypeCorrect == Spec => []TypeOK
<1>1. Init => TypeOK /\ Asked
    BY InitIInv DEF IInv
<1> QED
    BY <1>1, TypeStep, PTL DEF Spec

\* No step takes the entry of a live lease away.
LEMMA BackedStep == IInv /\ [Next]_vars => Backed'
<1> SUFFICES ASSUME IInv, [Next]_vars, NEW x \in Workers, lease'[x] > 0
             PROVE  /\ pc'[x] = "holding"
                    /\ entry'[place'[x]].token = token(x)'
                    /\ lease'[x] <= entry'[place'[x]].ttl
                    /\ place'[x] # Redis =>
                          place'[x] = ClientOf[x] /\ ~online'[ClientOf[x]]
    BY DEF Backed
<1> DEFINE Goal == /\ pc'[x] = "holding"
                   /\ entry'[place'[x]].token = token(x)'
                   /\ lease'[x] <= entry'[place'[x]].ttl
                   /\ place'[x] # Redis =>
                         place'[x] = ClientOf[x] /\ ~online'[ClientOf[x]]
<1>ok. TypeOK /\ Asked /\ Backed
    BY DEF IInv
<1>s. Redis \in Stores /\ \A c \in Clients : c \in Stores
    BY DEF Stores
<1>tok. ASSUME lease[x] > 0
        PROVE  /\ asks[x] \in 1..MaxAsks
               /\ token(x) # NoToken
               /\ pc[x] = "holding"
               /\ entry[place[x]].token = token(x)
               /\ lease[x] <= entry[place[x]].ttl
               /\ place[x] # Redis =>
                     place[x] = ClientOf[x] /\ ~online[ClientOf[x]]
    <2>1. pc[x] = "holding"
        BY <1>ok, <1>tok DEF Backed
    <2> QED
        BY <2>1, <1>ok, <1>tok, TokensDiffer DEF Backed, Asked
<1> SUFFICES Goal
    BY DEF Goal
<1> HIDE DEF Goal
<1>1. ASSUME NEW w \in Workers, Ask(w)
      PROVE  Goal
    BY <1>1, <1>ok, <1>tok DEF Ask, Goal, TypeOK, token
<1>2. ASSUME NEW w \in Workers, NEW s \in Stores, AskStore(w, s),
             s # Redis => s = ClientOf[w] /\ ~online[ClientOf[w]]
      PROVE  Goal
    <2>1. CASE entry[s].token = NoToken /\ x = w
        <3>1. /\ token(x)' = token(x) /\ place'[x] = s /\ lease'[x] = Lease
              /\ pc'[x] = "holding" /\ online' = online
              /\ entry'[s] = Granted(x)
            BY <1>2, <2>1, <1>ok DEF AskStore, TypeOK, token
        <3>2. entry'[s].token = token(x) /\ entry'[s].ttl = Lease
            BY <3>1 DEF Granted
        <3> QED
            BY <1>2, <2>1, <3>1, <3>2, LeasePositive DEF Goal
    <2>2. CASE entry[s].token = NoToken /\ x # w
        <3>1. /\ lease[x] > 0 /\ token(x)' = token(x) /\ place'[x] = place[x]
              /\ lease'[x] = lease[x] /\ pc'[x] = pc[x] /\ online' = online
            BY <1>2, <2>2, <1>ok DEF AskStore, TypeOK, token
        <3>2. place[x] \in Stores /\ place[x] # s
            BY <3>1, <2>2, <1>ok, <1>tok DEF TypeOK
        <3>3. entry'[place[x]] = entry[place[x]]
            BY <1>2, <2>2, <3>2, <1>ok DEF AskStore, TypeOK
        <3> QED
            BY <3>1, <3>3, <1>tok DEF Goal
    <2>3. CASE entry[s].token # NoToken
        <3>1. lease[x] > 0 /\ x # w
            BY <1>2, <2>3, <1>tok DEF AskStore
        <3> QED
            BY <1>2, <2>3, <3>1, <1>ok, <1>tok DEF AskStore, Goal, TypeOK, token
    <2> QED
        BY <2>1, <2>2, <2>3
<1>3. ASSUME NEW w \in Workers, AskRedisRaises(w)
      PROVE  Goal
    <2>1. lease[x] > 0 /\ token(x)' = token(x) /\ place' = place
        BY <1>3 DEF AskRedisRaises, token
    <2>2. place[x] \in Stores /\ entry'[place[x]] = entry[place[x]]
        <3>1. place[x] \in Stores /\ entry \in [Stores -> Entries]
            BY <1>ok DEF TypeOK
        <3>2. place[x] = Redis => entry[Redis].token # NoToken
            BY <2>1, <1>tok
        <3> QED
            BY <1>3, <3>1, <3>2 DEF AskRedisRaises
    <2>3. place[x] # Redis => ~online'[ClientOf[x]]
        BY <1>3, <2>1, <1>ok, <1>tok DEF AskRedisRaises, TypeOK
    <2> QED
        BY <1>3, <2>1, <2>2, <2>3, <1>tok DEF AskRedisRaises, Goal
<1>4. ASSUME NEW w \in Workers, StartRelease(w)
      PROVE  Goal
    BY <1>4, <1>ok, <1>tok DEF StartRelease, Goal, TypeOK, token
<1>del. ASSUME NEW w \in Workers, pc[w] = "releasing", NEW s \in Stores,
               entry' = [entry EXCEPT ![s] = Deleted(@, w)] \/ UNCHANGED entry,
               UNCHANGED <<asks, place, lease>>
        PROVE  /\ entry'[place'[x]].token = token(x)'
               /\ lease'[x] <= entry'[place'[x]].ttl
               /\ x # w
    <2>1. lease[x] > 0 /\ token(x)' = token(x)
        BY <1>del DEF token
    <2>2. x # w
        BY <2>1, <1>tok, <1>del
    <2>3. token(x) # token(w)
        BY <2>2, TokensDiffer
    <2> QED
        BY <2>1, <2>2, <2>3, <1>tok, <1>del, <1>ok DEF Deleted, TypeOK
<1>5. ASSUME NEW w \in Workers, NEW s \in Stores, ReleaseStore(w, s)
      PROVE  Goal
    <2>1. /\ entry'[place'[x]].token = token(x)'
          /\ lease'[x] <= entry'[place'[x]].ttl
          /\ x # w
        BY <1>5, <1>del DEF ReleaseStore
    <2> QED
        BY <2>1, <1>5, <1>ok, <1>tok DEF ReleaseStore, Goal, TypeOK
<1>6. ASSUME NEW w \in Workers, ReleaseRedisRaises(w)
      PROVE  Goal
    <2>1. /\ entry'[place'[x]].token = token(x)'
          /\ lease'[x] <= entry'[place'[x]].ttl
        BY <1>6, <1>s, <1>del DEF ReleaseRedisRaises
    <2> QED
        BY <2>1, <1>6, <1>ok, <1>tok DEF ReleaseRedisRaises, Goal, TypeOK
<1>7. ASSUME NEW c \in Clients, OtherCallRaises(c)
      PROVE  Goal
    BY <1>7, <1>ok, <1>tok DEF OtherCallRaises, Goal, TypeOK, token
<1>8. ASSUME NEW c \in Clients, Restart(c)
      PROVE  Goal
    <2>1. ClientOf[x] # c /\ lease'[x] = lease[x] /\ lease[x] > 0 /\ pc'[x] = pc[x]
        BY <1>8 DEF Restart
    <2>2. place[x] # c
        BY <2>1, <1>tok
    <2>3. entry'[place[x]] = entry[place[x]]
        BY <1>8, <2>2, <1>ok DEF Restart, TypeOK
    <2>4. online'[ClientOf[x]] = online[ClientOf[x]]
        BY <1>8, <2>1, <1>ok DEF Restart, TypeOK
    <2> QED
        BY <1>8, <2>1, <2>3, <2>4, <1>tok DEF Restart, Goal, token
<1>9. CASE Tick
    <2> DEFINE e == entry[place[x]]
    <2>1. lease[x] > 0 /\ lease[x] \in Nat /\ lease'[x] = lease[x] - 1
          /\ place' = place /\ place[x] \in Stores /\ token(x)' = token(x)
        BY <1>9, <1>ok, LeasePositive DEF Tick, TypeOK, token
    <2>2. e \in Entries /\ e.ttl \in Nat
        BY <2>1, <1>ok, LeasePositive DEF TypeOK, Entries
    <2>3. lease[x] >= 2 /\ e.ttl >= 2
        BY <2>1, <2>2, <1>tok
    <2>4. e.ttl > LastTick(place[x])
        BY <2>2, <2>3 DEF LastTick
    <2>5. entry'[place[x]] = Aged(e, place[x])
        BY <1>9, <2>1 DEF Tick
    <2>6. entry'[place[x]].token = e.token /\ entry'[place[x]].ttl = e.ttl - 1
        BY <2>1, <2>2, <2>4, <2>5, <1>tok, AgedType
    <2> QED
        BY <1>9, <2>1, <2>2, <2>6, <1>tok DEF Tick, Goal
<1>10. CASE UNCHANGED vars
    BY <1>10, <1>tok DEF vars, Goal, token
<1>11. ASSUME NEW w \in Workers, WorkerStep(w)
       PROVE  Goal
    <2>1. ASSUME AskRedis(w) PROVE Goal
        BY <2>1, <1>s, <1>2 DEF AskRedis
    <2>2. ASSUME AskMemory(w) PROVE Goal
        BY <2>2, <1>s, <1>2 DEF AskMemory
    <2>3. ASSUME ReleaseRedis(w) PROVE Goal
        BY <2>3, <1>s, <1>5 DEF ReleaseRedis
    <2>4. ASSUME ReleaseMemory(w) PROVE Goal
        BY <2>4, <1>s, <1>5 DEF ReleaseMemory
    <2> QED
        BY <1>11, <1>1, <1>3, <1>4, <1>6, <2>1, <2>2, <2>3, <2>4
           DEF WorkerStep
<1>12. CASE Next
    <2>1. CASE \E w \in Workers : WorkerStep(w)
        BY <2>1, <1>11
    <2>2. CASE \E c \in Clients : OtherCallRaises(c) \/ Restart(c)
        BY <2>2, <1>7, <1>8
    <2> QED
        BY <2>1, <2>2, <1>9, <1>12 DEF Next
<1> QED
    BY <1>10, <1>12

\* The inductive invariant holds of every reachable state.
THEOREM Invariance == Spec => []IInv
<1>1. IInv /\ [Next]_vars => IInv'
    BY TypeStep, BackedStep DEF IInv
<1> QED
    BY <1>1, InitIInv, PTL DEF Spec

\* Workers whose leases come from one store never overlap: the compare-and-
\* delete release and the TTL never free a lock under a live lease.
THEOREM Exclusion == Spec => []MutualExclusion
<1>1. IInv => MutualExclusion
    BY TokensDiffer DEF IInv, Backed, MutualExclusion
<1> QED
    BY <1>1, Invariance, PTL

\* Leases overlap only while the client of one of the workers is cut off from
\* Redis: the fallback to memory is the only way to split the lock.
THEOREM SplitOnlyInOutage == Spec => []SplitNeedsOutage
<1>1. IInv => SplitNeedsOutage
    BY TokensDiffer DEF IInv, Backed, SplitNeedsOutage
<1> QED
    BY <1>1, Invariance, PTL

-----------------------------------------------------------------------------
(* Every store implements LeaseLock. *)

\* A step that draws no token of w and does not let w start asking, or takes
\* its client off line, adds nothing to the tokens a store may be asked with.
LEMMA UnusedShrinks ==
    ASSUME IInv, [Next]_vars, NEW s \in Stores
    PROVE  unusedAt(s)' \subseteq unusedAt(s)
<1> SUFFICES ASSUME NEW t \in Tokens, t \in unusedAt(s)'
             PROVE  t \in unusedAt(s)
    BY DEF unusedAt
<1> DEFINE w == t[1]
           Open(up, p, n) ==
               \/ t[2] > n
               \/ /\ t = <<w, n>> /\ p = "asking"
                  /\ IF s = Redis THEN up ELSE s = ClientOf[w]
<1>1. w \in Workers /\ t[2] \in Nat /\ t = <<w, t[2]>>
    BY DEF Tokens
<1>2. Open(online'[ClientOf[w]], pc'[w], asks'[w])
    BY DEF unusedAt, token
<1>3. SUFFICES Open(online[ClientOf[w]], pc[w], asks[w])
    BY DEF unusedAt, token
<1>ok. TypeOK /\ ClientOf[w] \in Clients
    BY <1>1 DEF IInv
<1>4. ASSUME pc'[w] = pc[w] \/ pc'[w] # "asking", asks'[w] = asks[w],
             online'[ClientOf[w]] => online[ClientOf[w]]
      PROVE  Open(online[ClientOf[w]], pc[w], asks[w])
    BY <1>2, <1>4
<1>5. ASSUME NEW v \in Workers, Ask(v)
      PROVE  Open(online[ClientOf[w]], pc[w], asks[w])
    <2>1. CASE v = w
        BY <1>1, <1>2, <1>5, <2>1, <1>ok DEF Ask, TypeOK
    <2>2. CASE v # w
        BY <1>1, <1>4, <1>5, <2>2, <1>ok DEF Ask, TypeOK
    <2> QED
        BY <2>1, <2>2
<1>6. ASSUME NEW v \in Workers, NEW r \in Stores, AskStore(v, r)
      PROVE  Open(online[ClientOf[w]], pc[w], asks[w])
    BY <1>1, <1>4, <1>6, <1>ok DEF AskStore, TypeOK
<1>7. ASSUME NEW v \in Workers,
             AskRedisRaises(v) \/ StartRelease(v) \/ ReleaseRedisRaises(v)
      PROVE  Open(online[ClientOf[w]], pc[w], asks[w])
    BY <1>1, <1>4, <1>7, <1>ok
       DEF AskRedisRaises, StartRelease, ReleaseRedisRaises, TypeOK
<1>8. ASSUME NEW v \in Workers, NEW r \in Stores, ReleaseStore(v, r)
      PROVE  Open(online[ClientOf[w]], pc[w], asks[w])
    BY <1>1, <1>4, <1>8, <1>ok DEF ReleaseStore, TypeOK
<1>9. ASSUME NEW c \in Clients, OtherCallRaises(c)
      PROVE  Open(online[ClientOf[w]], pc[w], asks[w])
    BY <1>1, <1>4, <1>9, <1>ok DEF OtherCallRaises, TypeOK
<1>10. ASSUME NEW c \in Clients, Restart(c)
       PROVE  Open(online[ClientOf[w]], pc[w], asks[w])
    <2>1. CASE ClientOf[w] = c
        BY <1>1, <1>2, <1>10, <2>1 DEF Restart
    <2>2. CASE ClientOf[w] # c
        BY <1>1, <1>4, <1>10, <2>2, <1>ok DEF Restart, TypeOK
    <2> QED
        BY <2>1, <2>2
<1>11. CASE Tick \/ UNCHANGED vars
    BY <1>4, <1>11 DEF Tick, vars
<1> HIDE DEF Open, w
<1>s. Redis \in Stores /\ \A c \in Clients : c \in Stores
    BY DEF Stores
<1>12. ASSUME NEW v \in Workers, WorkerStep(v)
       PROVE  Open(online[ClientOf[w]], pc[w], asks[w])
    BY <1>5, <1>6, <1>7, <1>8, <1>12, <1>s
       DEF WorkerStep, AskRedis, AskMemory, ReleaseRedis, ReleaseMemory
<1>13. CASE \E v \in Workers : WorkerStep(v)
    BY <1>12, <1>13
<1>14. CASE \E c \in Clients : OtherCallRaises(c) \/ Restart(c)
    BY <1>9, <1>10, <1>14
<1> QED
    BY <1>11, <1>13, <1>14 DEF Next

\* A grant takes the token out of the tokens the store may be asked with.
LEMMA GrantUsesToken ==
    ASSUME IInv, NEW w \in Workers, pc[w] = "asking", NEW s \in Stores,
           IF s = Redis THEN online[ClientOf[w]] ELSE s = ClientOf[w],
           asks' = asks,
           \/ pc'[w] = "holding"
           \/ s = Redis /\ ~online'[ClientOf[w]]
    PROVE  token(w) \in unusedAt(s) \ unusedAt(s)'
<1>1. asks[w] \in 1..MaxAsks /\ asks[w] \in Nat
    BY DEF IInv, Asked
<1>2. token(w) \in Tokens /\ token(w)[1] = w /\ token(w)[2] = asks[w]
    BY <1>1 DEF token, Tokens
<1>3. token(w) \in unusedAt(s)
    BY <1>2 DEF unusedAt
<1>4. ~ (token(w)[2] > asks'[w])
    BY <1>1, <1>2
<1>5. ~ (/\ pc'[w] = "asking"
         /\ IF s = Redis THEN online'[ClientOf[w]] ELSE s = ClientOf[w])
    OBVIOUS
<1>6. token(w) \notin unusedAt(s)'
    BY <1>2, <1>4, <1>5 DEF unusedAt
<1> QED
    BY <1>3, <1>6

\* What a step may do to the owner of one store's lock.
OwnerStep(s) ==
    \/ entry'[s].token = entry[s].token
    \/ entry'[s].token = NoToken
    \/ /\ entry[s].token = NoToken
       /\ entry'[s].token \in unusedAt(s) \ unusedAt(s)'

\* Every step treats the owner of every store's lock as LeaseLock allows.
LEMMA OwnerSteps ==
    ASSUME IInv, [Next]_vars, NEW s \in Stores
    PROVE  OwnerStep(s)
<1> USE DEF OwnerStep
<1>ok. TypeOK
    BY DEF IInv
<1>s. Redis \in Stores /\ \A c \in Clients : c \in Stores
    BY DEF Stores
<1>1. ASSUME entry' = entry
      PROVE  OwnerStep(s)
    BY <1>1
<1>2. ASSUME NEW w \in Workers, NEW r \in Stores, AskStore(w, r),
             IF r = Redis THEN online[ClientOf[w]] ELSE r = ClientOf[w]
      PROVE  OwnerStep(s)
    <2>1. CASE entry[r].token = NoToken /\ s = r
        <3>1. entry'[s].token = token(w)
            BY <1>2, <2>1, <1>ok DEF AskStore, TypeOK, Granted
        <3>2. pc[w] = "asking" /\ pc'[w] = "holding" /\ asks' = asks
            BY <1>2, <2>1, <1>ok DEF AskStore, TypeOK
        <3>3. token(w) \in unusedAt(s) \ unusedAt(s)'
            BY <1>2, <2>1, <3>2, GrantUsesToken
        <3> QED
            BY <2>1, <3>1, <3>3
    <2>2. CASE entry[r].token = NoToken /\ s # r
        BY <1>2, <2>2, <1>ok DEF AskStore, TypeOK
    <2>3. CASE entry[r].token # NoToken
        BY <1>2, <2>3 DEF AskStore
    <2> QED
        BY <2>1, <2>2, <2>3
<1>3. ASSUME NEW w \in Workers, AskRedisRaises(w)
      PROVE  OwnerStep(s)
    <2>1. CASE s = Redis /\ entry' # entry
        <3>1. entry[s].token = NoToken /\ entry'[s].token = token(w)
            BY <1>3, <2>1, <1>ok DEF AskRedisRaises, TypeOK, Granted
        <3>2. /\ pc[w] = "asking" /\ asks' = asks
              /\ online[ClientOf[w]] /\ ~online'[ClientOf[w]]
            BY <1>3, <1>ok DEF AskRedisRaises, TypeOK
        <3>3. token(w) \in unusedAt(s) \ unusedAt(s)'
            BY <2>1, <3>2, GrantUsesToken
        <3> QED
            BY <3>1, <3>3
    <2>2. CASE s # Redis \/ entry' = entry
        BY <1>3, <2>2, <1>ok DEF AskRedisRaises, TypeOK
    <2> QED
        BY <2>1, <2>2
<1>4. ASSUME NEW w \in Workers, NEW r \in Stores,
             entry' = [entry EXCEPT ![r] = Deleted(@, w)]
      PROVE  OwnerStep(s)
    BY <1>4, <1>ok DEF Deleted, Free, TypeOK
<1>5. ASSUME NEW c \in Clients, Restart(c)
      PROVE  OwnerStep(s)
    BY <1>5, <1>ok DEF Restart, Free, TypeOK
<1>6. CASE Tick
    BY <1>6, <1>ok, AgedType DEF Tick, TypeOK
<1>7. ASSUME NEW w \in Workers, WorkerStep(w)
      PROVE  OwnerStep(s)
    <2>1. CASE Ask(w) \/ StartRelease(w)
        BY <2>1, <1>1 DEF Ask, StartRelease
    <2>2. CASE AskRedis(w)
        BY <2>2, <1>s, <1>2 DEF AskRedis
    <2>3. CASE AskMemory(w)
        <3>1. ClientOf[w] \in Clients
            OBVIOUS
        <3> QED
            BY <2>3, <3>1, <1>s, <1>2 DEF AskMemory
    <2>4. CASE ReleaseRedis(w) \/ ReleaseMemory(w)
        BY <2>4, <1>s, <1>4 DEF ReleaseRedis, ReleaseMemory, ReleaseStore
    <2>5. CASE ReleaseRedisRaises(w)
        BY <2>5, <1>s, <1>1, <1>4 DEF ReleaseRedisRaises
    <2> QED
        BY <1>7, <1>3, <2>1, <2>2, <2>3, <2>4, <2>5 DEF WorkerStep
<1>8. CASE \E w \in Workers : WorkerStep(w)
    BY <1>7, <1>8
<1>9. CASE \E c \in Clients : OtherCallRaises(c) \/ Restart(c)
    BY <1>1, <1>5, <1>9 DEF OtherCallRaises
<1>10. CASE UNCHANGED vars
    BY <1>1, <1>10 DEF vars
<1> QED
    BY <1>6, <1>8, <1>9, <1>10 DEF Next

\* Redis and every memory dict implement LeaseLock: a lock is granted only
\* while it is free, and to a token that this store never granted before.
THEOREM Refinement == Spec => StoresAreLeaseLocks
<1>1. ASSUME Init, NEW s \in Stores
      PROVE  Lock(s)!Init
    <2>1. entry[s].token = NoToken
        BY <1>1 DEF Init, Free
    <2>2. unusedAt(s) = Tokens
        BY <1>1 DEF Init, unusedAt, Tokens
    <2> QED
        BY <2>1, <2>2 DEF Lock!Init
<1>2. ASSUME IInv, [Next]_vars, NEW s \in Stores
      PROVE  [Lock(s)!Next]_<<entry[s].token, unusedAt(s)>>
    BY <1>2, UnusedShrinks, OwnerSteps DEF OwnerStep, Lock!Next
<1>3. Init => \A s \in Stores : Lock(s)!Init
    BY <1>1
<1>4. IInv /\ [Next]_vars =>
        [\A s \in Stores :
            [Lock(s)!Next]_<<entry[s].token, unusedAt(s)>>]_vars
    BY <1>2
<1> QED
    BY <1>3, <1>4, Invariance, PTL DEF Spec, StoresAreLeaseLocks

-----------------------------------------------------------------------------
(* the composition *)

\* Every step of the composition is one of its lock, its pool or its gate, and
\* leaves the other two alone: the safety that is proved of each holds of the
\* composition that is model-checked.
LEMMA PrimitivesAreTheirs ==
    /\ PrimitivesInit => Init /\ PoolInit /\ GateInit
    /\ [PrimitivesNext]_primitiveVars =>
            [Next]_vars /\ [PoolNext]_poolVars /\ [GateNext]_gateVars
BY DEF PrimitivesInit, PrimitivesNext, TheLock, ThePool, TheGate, primitiveVars
=============================================================================
