------------------------- MODULE RequestGate_proofs -------------------------
(***************************************************************************)
(* Theorems about RequestGate: type correctness, conservation of slots,    *)
(* spacing of reservations, and what a cooldown still lets out.            *)
(***************************************************************************)
EXTENDS RequestGate, FiniteSetTheorems, TLAPS

\* A thread that will try again has an attempt left.
AttemptLeft == \A t \in Threads : phase[t] = "backoff" => attempt[t] < Retries

\* Threads of instance i that have passed the check of its own window.
Checked(i) == {t \in Threads : inst(t) = i /\ phase[t] \in {"shared", "send"}}

\* An instance keeps the longest wait it was told, which lets out no more
\* requests than had passed the check; one that is over has let none out.
LeakBacked ==
    /\ local = told
    /\ \A i \in Instances :
          /\ local[i] > 0 => leaked[i] + Cardinality(Checked(i)) <= Slots
          /\ local[i] = 0 => leaked[i] = 0

\* Threads of instance i whose reservation is due and whose request is not out.
Due(i) ==
    {t \in Threads :
        /\ inst(t) = i
        /\ \/ phase[t] \in {"shared", "send"}
           \/ phase[t] = "sleep" /\ timer[t] = 0}

\* With c ticks to the next reservation or sleeper, or an interval if that is
\* less: what has left and what is due was reserved at one interval after the
\* other, but for one request per slot, reserved before it was counted.
PacedBy(i, c) ==
    /\ c <= nextIn[i]
    /\ \A t \in Threads :
          inst(t) = i /\ phase[t] = "sleep" /\ timer[t] > 0 => c <= timer[t]
    /\ \A a \in Ages :
          sent[i][a] + Cardinality(Due(i)) <= Slots + (a + c) \div Interval

PaceBacked == \A i \in Instances : \E c \in 0..Interval : PacedBy(i, c)

Typed == GateTypeOK /\ AttemptLeft

IInv == Typed /\ SlotsConserved /\ Spaced /\ LeakBacked /\ PaceBacked

USE ThreadsAssumption, InstanceOfAssumption, StoreOfAssumption,
    SlotsAssumption, IntervalAssumption, RetriesAssumption, UnitsAssumption,
    RetryAfterAssumption, WindowAssumption

LEMMA ProductNat ==
    ASSUME NEW m \in Nat, NEW n \in Nat
    PROVE  m * n \in Nat
OBVIOUS

LEMMA LargerNat ==
    ASSUME NEW m \in Nat, NEW n \in Nat
    PROVE  Larger(m, n) \in Nat /\ Larger(m, n) >= m /\ Larger(m, n) >= n
BY DEF Larger

LEMMA DownNat ==
    ASSUME NEW n \in Nat
    PROVE  /\ Down(n) \in Nat
           /\ n > 0 => Down(n) = n - 1
           /\ n = 0 => Down(n) = 0
BY DEF Down

\* Sending a thread somewhere keeps the types of what it carries.
LEMMA GoTyped ==
    ASSUME Typed, NEW t \in Threads, NEW p \in Places, NEW n \in Nat,
           NEW k \in 0..Retries, p = "backoff" => k < Retries, Go(t, p, n, k)
    PROVE  /\ phase' \in [Threads -> Places]
           /\ attempt' \in [Threads -> 0..Retries]
           /\ timer' \in [Threads -> Nat]
           /\ wait' \in [Threads -> Nat]
           /\ AttemptLeft'
BY DEF Go, Typed, GateTypeOK, AttemptLeft

\* The same for the two ways an attempt ends.
LEMMA RetryTyped ==
    ASSUME Typed, NEW t \in Threads, NEW n \in Nat, Retry(t, n) \/ End(t)
    PROVE  /\ phase' \in [Threads -> Places]
           /\ attempt' \in [Threads -> 0..Retries]
           /\ timer' \in [Threads -> Nat]
           /\ wait' \in [Threads -> Nat]
           /\ AttemptLeft'
<1>1. attempt[t] \in 0..Retries /\ 0 \in 0..Retries
    BY DEF Typed, GateTypeOK
<1>2. CASE End(t)
    BY <1>1, <1>2, GoTyped DEF End, Places
<1>3. CASE Retry(t, n) /\ attempt[t] < Retries
    BY <1>1, <1>3, GoTyped DEF Retry, Places
<1>4. CASE Retry(t, n) /\ ~(attempt[t] < Retries)
    BY <1>4, <1>2 DEF Retry
<1> QED
    BY <1>2, <1>3, <1>4

\* The threads of an instance that are in their slots can be counted.
LEMMA InsiderCount ==
    ASSUME Typed, NEW i \in Instances
    PROVE  IsFiniteSet(Insiders(i)) /\ Cardinality(Insiders(i)) \in Nat
<1>1. Insiders(i) \subseteq Threads
    BY DEF Insiders
<1> QED
    BY <1>1, FS_Subset, FS_CardinalityType

-----------------------------------------------------------------------------
(* slots *)

\* How a step of t changes the slots: it moves on the same side of the block's
\* border, takes a free slot, or gives its own back.
Stays(t) ==
    /\ free' = free
    /\ \E p \in Places : /\ phase' = [phase EXCEPT ![t] = p]
                         /\ phase[t] \in InSlot <=> p \in InSlot

Enters(t) ==
    /\ free[inst(t)] > 0
    /\ free' = [free EXCEPT ![inst(t)] = @ - 1]
    /\ \E p \in InSlot : phase' = [phase EXCEPT ![t] = p]
    /\ phase[t] \notin InSlot

Leaves(t) ==
    /\ LeaveSlot(t)
    /\ \E p \in Places \ InSlot : phase' = [phase EXCEPT ![t] = p]
    /\ phase[t] \in InSlot

\* Every handler of _get does one of the three.
LEMMA SlotMoves ==
    ASSUME Typed, NEW t \in Threads, Call(t) \/ Advance(t)
    PROVE  Stays(t) \/ Enters(t) \/ Leaves(t)
<1> USE DEF Stays, Enters, Leaves, Go, End, InSlot, Places
<1>1. CASE Call(t)
    BY <1>1 DEF Call
<1>2. CASE EnterSlot(t)
    BY <1>2 DEF EnterSlot
<1>3. CASE Reserve(t)
    BY <1>3 DEF Reserve
<1>4. CASE CheckLocal(t)
    BY <1>4 DEF CheckLocal, Refuse
<1>5. CASE CheckShared(t)
    BY <1>5 DEF CheckShared, Refuse
<1>6. CASE Send(t)
    BY <1>6 DEF Send
<1>7. CASE Respond(t)
    BY <1>7 DEF Respond, Retry
<1>8. CASE SetLocal(t)
    BY <1>8 DEF SetLocal
<1>9. CASE SetShared(t)
    BY <1>9 DEF SetShared, Retry
<1>10. CASE Resume(t)
    BY <1>10 DEF Resume
<1> QED
    BY <1>1, <1>2, <1>3, <1>4, <1>5, <1>6, <1>7, <1>8, <1>9, <1>10 DEF Advance

\* The three ways keep the sum of free and taken slots.
LEMMA SlotsKept ==
    ASSUME Typed, SlotsConserved, NEW t \in Threads,
           Stays(t) \/ Enters(t) \/ Leaves(t)
    PROVE  SlotsConserved'
<1> SUFFICES ASSUME NEW i \in Instances
             PROVE  (free[i] + Cardinality(Insiders(i)) = Slots)'
    BY DEF SlotsConserved
<1>1. /\ phase \in [Threads -> Places]
      /\ free \in [Instances -> 0..Slots]
      /\ inst(t) \in Instances
    BY DEF Typed, GateTypeOK, inst
<1>2. /\ IsFiniteSet(Insiders(i))
      /\ Cardinality(Insiders(i)) \in Nat
      /\ free[i] + Cardinality(Insiders(i)) = Slots
    BY InsiderCount DEF SlotsConserved
<1>3. CASE Stays(t)
    <2>1. Insiders(i)' = Insiders(i)
        BY <1>1, <1>3 DEF Stays, Insiders
    <2> QED
        BY <1>2, <1>3, <2>1 DEF Stays
<1>4. CASE Enters(t) /\ i = inst(t)
    <2>1. Insiders(i)' = Insiders(i) \cup {t} /\ t \notin Insiders(i)
        BY <1>1, <1>4 DEF Enters, Insiders
    <2>2. Cardinality(Insiders(i)') = Cardinality(Insiders(i)) + 1
        BY <1>2, <2>1, FS_AddElement
    <2> QED
        BY <1>1, <1>2, <1>4, <2>2 DEF Enters
<1>5. CASE Leaves(t) /\ i = inst(t)
    <2>1. Insiders(i)' = Insiders(i) \ {t} /\ t \in Insiders(i)
        BY <1>1, <1>5 DEF Leaves, Insiders
    <2>2. Cardinality(Insiders(i)') = Cardinality(Insiders(i)) - 1
        BY ZenonT(30), <1>2, <2>1, FS_RemoveElement
    <2> QED
        BY <1>1, <1>2, <1>5, <2>2 DEF Leaves, LeaveSlot
<1>6. CASE (Enters(t) \/ Leaves(t)) /\ i # inst(t)
    <2>1. Insiders(i)' = Insiders(i)
        BY <1>1, <1>6 DEF Enters, Leaves, Insiders
    <2> QED
        BY <1>1, <1>2, <1>6, <2>1 DEF Enters, Leaves, LeaveSlot
<1> QED
    BY <1>3, <1>4, <1>5, <1>6

\* What conservation says about one instance, before and after a step.
LEMMA SlotsStep ==
    ASSUME Typed, SlotsConserved, [GateNext]_gateVars
    PROVE  SlotsConserved'
<1>1. CASE GateTick \/ UNCHANGED gateVars
    <2>1. phase' = phase /\ free' = free
        BY <1>1 DEF GateTick, gateVars
    <2> QED
        BY <2>1 DEF SlotsConserved, Insiders
<1>2. CASE \E t \in Threads : Call(t) \/ Advance(t)
    BY <1>2, SlotMoves, SlotsKept
<1> QED
    BY <1>1, <1>2 DEF GateNext

-----------------------------------------------------------------------------
(* types *)

\* The part of the types that belongs to the threads, and to the instances.
ThreadTyped ==
    /\ phase \in [Threads -> Places]
    /\ attempt \in [Threads -> 0..Retries]
    /\ timer \in [Threads -> Nat]
    /\ wait \in [Threads -> Nat]
    /\ AttemptLeft

InstanceTyped ==
    /\ free \in [Instances -> Int]
    /\ nextIn \in [Instances -> Nat]
    /\ local \in [Instances -> Nat]
    /\ shared \in [Caches -> Nat]
    /\ sent \in [Instances -> [Ages -> Nat]]
    /\ told \in [Instances -> Nat]
    /\ leaked \in [Instances -> Nat]

\* A handler keeps the types of the threads: the back-off after attempt k is
\* a multiple of its unit, and only an attempt that is not the last backs off.
LEMMA ThreadTypes ==
    ASSUME Typed, NEW t \in Threads, Call(t) \/ Advance(t)
    PROVE  ThreadTyped'
<1>1. /\ attempt[t] \in 0..Retries /\ attempt[t] \in Nat
      /\ 0 \in 0..Retries /\ 1 \in 0..Retries /\ 0 \in Nat
      /\ timer[t] \in Nat /\ wait[t] \in Nat
      /\ nextIn[inst(t)] \in Nat
    BY DEF Typed, GateTypeOK, inst
<1>2. attempt[t] * Unit5xx \in Nat /\ attempt[t] * Unit429 \in Nat
    BY <1>1, ProductNat
<1>3. ThreadTyped
    BY DEF ThreadTyped, Typed, GateTypeOK
<1>4. ASSUME NEW p \in Places \ {"backoff"}, NEW n \in Nat,
             NEW k \in 0..Retries, Go(t, p, n, k)
      PROVE  ThreadTyped'
    BY <1>4, GoTyped DEF ThreadTyped
<1>5. ASSUME NEW n \in Nat, Retry(t, n) \/ End(t)
      PROVE  ThreadTyped'
    BY <1>5, RetryTyped DEF ThreadTyped
<1>6. CASE Call(t)
    BY <1>1, <1>4, <1>6 DEF Call, Places
<1>7. CASE EnterSlot(t)
    BY <1>1, <1>4, <1>7 DEF EnterSlot, Places, InSlot
<1>8. CASE Reserve(t)
    BY <1>1, <1>4, <1>8 DEF Reserve, Places, InSlot
<1>9. CASE CheckLocal(t)
    BY <1>1, <1>4, <1>5, <1>9 DEF CheckLocal, Refuse, Places, InSlot
<1>10. CASE CheckShared(t)
    BY <1>1, <1>4, <1>5, <1>10 DEF CheckShared, Refuse, Places, InSlot
<1>11. CASE Send(t)
    BY <1>1, <1>4, <1>11 DEF Send, Places, InSlot
<1>12. CASE Respond(t)
    <2>1. CASE End(t) \/ Retry(t, attempt[t] * Unit5xx) \/ Retry(t, 0)
        BY <1>1, <1>2, <1>5, <2>1
    <2>2. ASSUME NEW after \in RetryAfter,
                 phase' = [phase EXCEPT ![t] = "limit"],
                 wait' = [wait EXCEPT ![t] =
                            Larger(after, attempt[t] * Unit429)],
                 UNCHANGED <<timer, attempt>>
          PROVE  ThreadTyped'
        <3>1. Larger(after, attempt[t] * Unit429) \in Nat
            BY <1>2, LargerNat
        <3> QED
            BY <1>3, <2>2, <3>1 DEF ThreadTyped, AttemptLeft, Places
    <2> QED
        BY <1>12, <2>1, <2>2 DEF Respond
<1>13. CASE SetLocal(t)
    BY <1>1, <1>3, <1>13 DEF SetLocal, ThreadTyped, AttemptLeft, Places
<1>14. CASE SetShared(t)
    BY <1>1, <1>5, <1>14 DEF SetShared
<1>15. CASE Resume(t)
    <2>1. attempt[t] + 1 \in 0..Retries
        BY <1>1, <1>15 DEF Resume, Typed, AttemptLeft
    <2> QED
        BY <1>1, <1>4, <1>15, <2>1 DEF Resume, Places
<1> QED
    BY <1>6, <1>7, <1>8, <1>9, <1>10, <1>11, <1>12, <1>13, <1>14, <1>15
    DEF Advance

\* A handler keeps the types of what its instance and its store hold.
LEMMA InstanceTypes ==
    ASSUME Typed, NEW t \in Threads, Call(t) \/ Advance(t)
    PROVE  InstanceTyped'
<1>1. InstanceTyped /\ inst(t) \in Instances /\ StoreOf[inst(t)] \in Caches
    BY DEF InstanceTyped, Typed, GateTypeOK, inst
<1>2. timer[t] \in Nat /\ wait[t] \in Nat
    BY DEF Typed, GateTypeOK
<1>3. CASE Call(t) \/ EnterSlot(t) \/ Reserve(t) \/ Resume(t)
    BY <1>1, <1>3 DEF Call, EnterSlot, Reserve, Resume, InstanceTyped
<1>4. CASE CheckLocal(t) \/ CheckShared(t)
    BY <1>1, <1>4
    DEF CheckLocal, CheckShared, Refuse, LeaveSlot, InstanceTyped
<1>5. CASE Send(t)
    <2>1. 0 \in Ages
        BY DEF Ages
    <2> QED
        BY <1>1, <1>5, <2>1 DEF Send, InstanceTyped
<1>6. CASE Respond(t)
    BY <1>1, <1>6 DEF Respond, LeaveSlot, InstanceTyped
<1>7. CASE SetLocal(t)
    <2>1. local[inst(t)] \in Nat
        BY <1>1 DEF InstanceTyped
    <2>2. ExtendedLocal(local[inst(t)], wait[t]) \in Nat
        BY <1>2, <2>1, LargerNat DEF ExtendedLocal
    <2>3. Larger(told[inst(t)], wait[t]) \in Nat
        BY <1>1, <1>2, LargerNat DEF InstanceTyped
    <2> QED
        BY <1>1, <1>7, <2>2, <2>3 DEF SetLocal, InstanceTyped
<1>8. CASE SetShared(t)
    BY <1>1, <1>2, <1>8 DEF SetShared, InstanceTyped
<1> QED
    BY <1>3, <1>4, <1>5, <1>6, <1>7, <1>8 DEF Advance

\* A tick keeps every type: no countdown goes below 0.
LEMMA TickTypes ==
    ASSUME Typed, GateTick
    PROVE  ThreadTyped' /\ InstanceTyped'
<1>1. ThreadTyped'
    BY DownNat DEF GateTick, ThreadTyped, AttemptLeft, Typed, GateTypeOK
<1>2. /\ free' \in [Instances -> Int]
      /\ nextIn' \in [Instances -> Nat]
      /\ local' \in [Instances -> Nat]
      /\ shared' \in [Caches -> Nat]
      /\ told' \in [Instances -> Nat]
      /\ leaked' \in [Instances -> Nat]
    BY DownNat DEF GateTick, Typed, GateTypeOK
<1>3. ASSUME NEW i \in Instances, NEW a \in Ages
      PROVE  (IF a = 0 THEN 0 ELSE sent[i][a - 1]) \in Nat
    <2>1. a # 0 => a - 1 \in Ages
        BY DEF Ages
    <2> QED
        BY <2>1 DEF Typed, GateTypeOK
<1>4. sent' \in [Instances -> [Ages -> Nat]]
    BY <1>3 DEF GateTick
<1> QED
    BY <1>1, <1>2, <1>4 DEF InstanceTyped

\* The semaphore's value stays between 0 and Slots because the sum of free and
\* taken slots is Slots and neither is negative.
LEMMA TypeStep ==
    ASSUME Typed, SlotsConserved, [GateNext]_gateVars
    PROVE  Typed'
<1>1. ThreadTyped' /\ InstanceTyped'
    <2>1. CASE UNCHANGED gateVars
        <3>1. ThreadTyped /\ InstanceTyped
            BY DEF ThreadTyped, InstanceTyped, Typed, GateTypeOK
        <3> QED
            BY <2>1, <3>1
            DEF gateVars, ThreadTyped, InstanceTyped, AttemptLeft
    <2>2. CASE GateTick
        BY <2>2, TickTypes
    <2>3. CASE \E t \in Threads : Call(t) \/ Advance(t)
        BY <2>3, ThreadTypes, InstanceTypes
    <2> QED
        BY <2>1, <2>2, <2>3 DEF GateNext
<1>2. ASSUME NEW i \in Instances
      PROVE  free'[i] \in 0..Slots
    <2>1. free'[i] >= 0
        <3>1. free[i] \in 0..Slots /\ \A j \in Instances : free[j] \in 0..Slots
            BY DEF Typed, GateTypeOK
        <3>2. CASE UNCHANGED gateVars \/ GateTick
            BY <3>1, <3>2 DEF gateVars, GateTick
        <3>3. ASSUME NEW t \in Threads, Call(t) \/ Advance(t)
              PROVE  free'[i] >= 0
            <4>1. Stays(t) \/ Enters(t) \/ Leaves(t)
                BY <3>3, SlotMoves
            <4>2. free \in [Instances -> 0..Slots]
                BY DEF Typed, GateTypeOK
            <4>3. \/ free'[i] = free[i]
                  \/ free'[i] = free[i] + 1
                  \/ free[i] > 0 /\ free'[i] = free[i] - 1
                BY <4>1, <4>2 DEF Stays, Enters, Leaves, LeaveSlot
            <4> QED
                BY <3>1, <4>3
        <3> QED
            BY <3>2, <3>3 DEF GateNext
    <2>2. Insiders(i)' \subseteq Threads
        BY DEF Insiders
    <2>3. Cardinality(Insiders(i)') \in Nat
        BY <2>2, FS_Subset, FS_CardinalityType
    <2>4. free'[i] + Cardinality(Insiders(i)') = Slots
        BY SlotsStep DEF SlotsConserved
    <2>5. free'[i] \in Int
        BY <1>1 DEF InstanceTyped
    <2> QED
        BY <2>1, <2>3, <2>4, <2>5
<1>3. free' \in [Instances -> 0..Slots]
    BY <1>1, <1>2 DEF InstanceTyped
<1> QED
    BY <1>1, <1>3 DEF Typed, GateTypeOK, ThreadTyped, InstanceTyped

-----------------------------------------------------------------------------
(* reservations *)

\* A reservation is put after all the others; a thread that moves without
\* reserving adds no sleeper, and a tick moves them all.
LEMMA SpacedStep ==
    ASSUME Typed, Spaced, [GateNext]_gateVars
    PROVE  Spaced'
<1>1. /\ phase \in [Threads -> Places]
      /\ timer \in [Threads -> Nat]
      /\ nextIn \in [Instances -> Nat]
      /\ \A t \in Threads : inst(t) \in Instances
    BY DEF Typed, GateTypeOK, inst
<1>2. CASE UNCHANGED gateVars
    BY <1>2 DEF gateVars, Spaced
<1>3. CASE GateTick
    <2> SUFFICES ASSUME NEW t \in Threads, phase'[t] = "sleep", timer'[t] > 0
                 PROVE  /\ timer'[t] + Interval <= nextIn'[inst(t)]
                        /\ \A u \in Threads \ {t} :
                             /\ phase'[u] = "sleep" /\ timer'[u] > 0
                             /\ inst(u) = inst(t)
                             => \/ timer'[t] + Interval <= timer'[u]
                                \/ timer'[u] + Interval <= timer'[t]
        BY DEF Spaced, inst
    <2>1. ASSUME NEW u \in Threads, timer'[u] > 0
          PROVE  timer[u] > 0 /\ timer'[u] = timer[u] - 1
        BY <1>1, <1>3, <2>1 DEF GateTick, Down
    <2>2. timer[t] > 0 /\ timer'[t] = timer[t] - 1
        BY <2>1
    <2>3. phase' = phase
        BY <1>3 DEF GateTick
    <2>4. timer'[t] + Interval <= nextIn'[inst(t)]
        <3>1. timer[t] + Interval <= nextIn[inst(t)]
            BY <2>2, <2>3 DEF Spaced
        <3>2. nextIn'[inst(t)] = Down(nextIn[inst(t)])
            BY <1>1, <1>3 DEF GateTick
        <3>3. nextIn[inst(t)] \in Nat /\ timer[t] \in Nat
            BY <1>1
        <3> QED
            BY <2>2, <3>1, <3>2, <3>3 DEF Down
    <2>5. ASSUME NEW u \in Threads \ {t}, phase'[u] = "sleep", timer'[u] > 0,
                 inst(u) = inst(t)
          PROVE  \/ timer'[t] + Interval <= timer'[u]
                 \/ timer'[u] + Interval <= timer'[t]
        <3>1. timer[u] > 0 /\ timer'[u] = timer[u] - 1
            BY <2>1, <2>5
        <3>2. \/ timer[t] + Interval <= timer[u]
              \/ timer[u] + Interval <= timer[t]
            BY <2>2, <2>3, <2>5, <3>1 DEF Spaced
        <3> QED
            BY <1>1, <2>2, <3>1, <3>2
    <2> QED
        BY <2>4, <2>5
<1>4. ASSUME NEW t \in Threads, Reserve(t)
      PROVE  Spaced'
    BY <1>1, <1>4 DEF Reserve, Go, Spaced
<1>5. ASSUME NEW t \in Threads, Call(t) \/ Advance(t), ~Reserve(t)
      PROVE  Spaced'
    <2>1. /\ nextIn' = nextIn
          /\ phase'[t] # "sleep"
          /\ \A u \in Threads \ {t} : phase'[u] = phase[u] /\ timer'[u] = timer[u]
        BY <1>1, <1>5
        DEF Call, Advance, EnterSlot, CheckLocal, CheckShared, Send, Respond,
            SetLocal, SetShared, Resume, Refuse, Retry, End, Go
    <2> QED
        BY <1>1, <2>1 DEF Spaced
<1> QED
    BY <1>2, <1>3, <1>4, <1>5 DEF GateNext

-----------------------------------------------------------------------------
(* what a cooldown lets out *)

\* The threads past the check are among those in their slots, so there are
\* never more than Slots of them.
LEMMA CheckedBound ==
    ASSUME Typed, SlotsConserved, NEW i \in Instances
    PROVE  /\ IsFiniteSet(Checked(i))
           /\ Cardinality(Checked(i)) \in Nat
           /\ Cardinality(Checked(i)) <= Slots
<1>1. Checked(i) \subseteq Insiders(i)
    BY DEF Checked, Insiders, InSlot
<1>2. /\ IsFiniteSet(Insiders(i))
      /\ Cardinality(Insiders(i)) \in Nat
      /\ free[i] + Cardinality(Insiders(i)) = Slots
      /\ free[i] \in Nat
    BY InsiderCount DEF SlotsConserved, Typed, GateTypeOK
<1>3. /\ IsFiniteSet(Checked(i))
      /\ Cardinality(Checked(i)) <= Cardinality(Insiders(i))
    BY <1>1, <1>2, FS_Subset
<1>4. Cardinality(Checked(i)) \in Nat
    BY <1>3, FS_CardinalityType
<1> QED
    BY <1>2, <1>3, <1>4

\* A request that goes out during a cooldown moves from the checked to the
\* leaked; a thread can only pass the check while there is no cooldown; and
\* when one opens, at most Slots threads have passed.
LEMMA LeakStep ==
    ASSUME Typed, SlotsConserved, LeakBacked, [GateNext]_gateVars
    PROVE  LeakBacked'
<1>a. local' = told'
    <2>1. local = told
        BY DEF LeakBacked
    <2>2. CASE GateTick \/ UNCHANGED gateVars
        BY <2>1, <2>2 DEF GateTick, gateVars
    <2>3. ASSUME NEW t \in Threads, SetLocal(t)
          PROVE  local' = told'
        BY <2>1, <2>3 DEF SetLocal, ExtendedLocal
    <2>4. ASSUME NEW t \in Threads, Call(t) \/ Advance(t), ~SetLocal(t)
          PROVE  local' = told'
        BY <2>1, <2>4
        DEF Call, Advance, EnterSlot, Reserve, CheckLocal, CheckShared, Send,
            Respond, SetShared, Resume
    <2> QED
        BY <2>2, <2>3, <2>4 DEF GateNext
<1> SUFFICES ASSUME NEW i \in Instances
             PROVE  /\ local'[i] > 0 =>
                          leaked'[i] + Cardinality(Checked(i)') <= Slots
                    /\ local'[i] = 0 => leaked'[i] = 0
    BY <1>a DEF LeakBacked
<1>1. /\ IsFiniteSet(Checked(i))
      /\ Cardinality(Checked(i)) \in Nat
      /\ Cardinality(Checked(i)) <= Slots
    BY CheckedBound
<1>2. /\ local[i] > 0 => leaked[i] + Cardinality(Checked(i)) <= Slots
      /\ local[i] = 0 => leaked[i] = 0
      /\ local[i] \in Nat /\ leaked[i] \in Nat /\ told = local
    BY DEF LeakBacked, Typed, GateTypeOK
<1>3. /\ phase \in [Threads -> Places]
      /\ local \in [Instances -> Nat]
      /\ leaked \in [Instances -> Nat]
      /\ \A t \in Threads : inst(t) \in Instances /\ wait[t] \in Nat
    BY DEF Typed, GateTypeOK, inst
<1>4. ASSUME Checked(i)' \subseteq Checked(i)
      PROVE  Cardinality(Checked(i)') \in Nat
             /\ Cardinality(Checked(i)') <= Cardinality(Checked(i))
    BY <1>1, <1>4, FS_Subset, FS_CardinalityType
<1>5. CASE UNCHANGED gateVars
    BY <1>2, <1>5 DEF gateVars, Checked
<1>6. CASE GateTick
    <2>1. Checked(i)' = Checked(i)
        BY <1>6 DEF GateTick, Checked
    <2>2. /\ local'[i] = Down(local[i])
          /\ leaked'[i] = IF local[i] <= 1 THEN 0 ELSE leaked[i]
        BY <1>2, <1>6 DEF GateTick
    <2> QED
        BY <1>1, <1>2, <2>1, <2>2 DEF Down
<1>7. ASSUME NEW t \in Threads,
             Call(t) \/ EnterSlot(t) \/ Reserve(t) \/ CheckShared(t)
               \/ Respond(t) \/ SetShared(t) \/ Resume(t)
      PROVE  /\ local'[i] > 0 => leaked'[i] + Cardinality(Checked(i)') <= Slots
             /\ local'[i] = 0 => leaked'[i] = 0
    <2>1. Checked(i)' \subseteq Checked(i) /\ local' = local /\ leaked' = leaked
        BY <1>3, <1>7
        DEF Call, EnterSlot, Reserve, CheckShared, Respond, SetShared, Resume,
            Refuse, Retry, End, Go, Checked
    <2> QED
        BY <1>1, <1>2, <1>4, <2>1
<1>8. ASSUME NEW t \in Threads, CheckLocal(t)
      PROVE  /\ local'[i] > 0 => leaked'[i] + Cardinality(Checked(i)') <= Slots
             /\ local'[i] = 0 => leaked'[i] = 0
    <2>1. local' = local /\ leaked' = leaked
        BY <1>8 DEF CheckLocal
    <2>2. local[i] > 0 => Checked(i)' \subseteq Checked(i)
        BY <1>3, <1>8 DEF CheckLocal, Refuse, End, Go, Checked
    <2> QED
        BY <1>1, <1>2, <1>4, <2>1, <2>2
<1>9. ASSUME NEW t \in Threads, Send(t)
      PROVE  /\ local'[i] > 0 => leaked'[i] + Cardinality(Checked(i)') <= Slots
             /\ local'[i] = 0 => leaked'[i] = 0
    <2>1. /\ local' = local
          /\ leaked'[i] = IF i = inst(t) /\ local[i] > 0
                          THEN leaked[i] + 1 ELSE leaked[i]
        BY <1>2, <1>3, <1>9 DEF Send
    <2>2. Checked(i)' = IF i = inst(t) THEN Checked(i) \ {t} ELSE Checked(i)
        BY <1>3, <1>9 DEF Send, Go, Checked
    <2>3. i = inst(t) => t \in Checked(i)
        BY <1>9 DEF Send, Checked
    <2>4. i = inst(t) =>
            Cardinality(Checked(i)') = Cardinality(Checked(i)) - 1
        BY ZenonT(30), <1>1, <2>2, <2>3, FS_RemoveElement
    <2> QED
        BY <1>1, <1>2, <2>1, <2>2, <2>4
<1>10. ASSUME NEW t \in Threads, SetLocal(t)
      PROVE  /\ local'[i] > 0 => leaked'[i] + Cardinality(Checked(i)') <= Slots
             /\ local'[i] = 0 => leaked'[i] = 0
    <2>1. leaked' = leaked
        BY <1>10 DEF SetLocal
    <2>2. Checked(i)' = Checked(i)
        BY <1>3, <1>10 DEF SetLocal, Checked
    <2>3. local'[i] \in Nat /\ local'[i] >= local[i]
        <3>1. local'[i] = IF i = inst(t)
                          THEN Larger(local[i], wait[t]) ELSE local[i]
            BY <1>3, <1>10 DEF SetLocal, ExtendedLocal
        <3>2. /\ Larger(local[i], wait[t]) \in Nat
              /\ Larger(local[i], wait[t]) >= local[i]
            BY <1>3, LargerNat
        <3> QED
            BY <1>2, <3>1, <3>2
    <2> QED
        BY <1>1, <1>2, <2>1, <2>2, <2>3
<1> QED
    BY <1>5, <1>6, <1>7, <1>8, <1>9, <1>10 DEF GateNext, Advance

-----------------------------------------------------------------------------
(* pace *)

LEMMA ProductOrder ==
    ASSUME NEW m \in Int, NEW n \in Int, m <= n
    PROVE  m * Interval \in Int /\ n * Interval \in Int /\ m * Interval <= n * Interval
OBVIOUS

LEMMA Quotient ==
    ASSUME NEW n \in Nat
    PROVE  /\ n \div Interval \in Nat
           /\ (n \div Interval) * Interval <= n
           /\ n < (n \div Interval + 1) * Interval
OBVIOUS

\* The number of intervals in n ticks grows with n, by one for an interval.
LEMMA QuotientOrder ==
    ASSUME NEW m \in Nat, NEW n \in Nat, m <= n
    PROVE  m \div Interval <= n \div Interval
<1> DEFINE p == m \div Interval  q == n \div Interval
<1>1. p \in Nat /\ q \in Nat /\ p * Interval <= m /\ n < (q + 1) * Interval
    BY Quotient
<1> HIDE DEF p, q
<1>2. ASSUME q + 1 <= p PROVE FALSE
    <2>1. /\ (q + 1) * Interval \in Int /\ p * Interval \in Int
          /\ (q + 1) * Interval <= p * Interval
        BY <1>1, <1>2, ProductOrder
    <2> QED
        BY <1>1, <2>1
<1>3. p <= q
    BY <1>1, <1>2
<1> QED
    BY <1>3 DEF p, q

LEMMA QuotientIs ==
    ASSUME NEW n \in Nat
    PROVE  (n + Interval) \div Interval = n \div Interval + 1
<1> DEFINE p == n \div Interval  q == (n + Interval) \div Interval
<1>1. /\ p \in Nat /\ q \in Nat
      /\ p * Interval <= n /\ n < (p + 1) * Interval
      /\ q * Interval <= n + Interval /\ n + Interval < (q + 1) * Interval
    BY Quotient
<1> HIDE DEF p, q
<1>2. /\ (p + 1) * Interval = p * Interval + Interval /\ p * Interval \in Int
      /\ (p + 2) * Interval = p * Interval + Interval + Interval
    BY <1>1
<1>3. ASSUME q + 1 <= p + 1 PROVE FALSE
    <2>1. /\ (q + 1) * Interval \in Int /\ (p + 1) * Interval \in Int
          /\ (q + 1) * Interval <= (p + 1) * Interval
        BY <1>1, <1>3, ProductOrder
    <2> QED
        BY <1>1, <1>2, <2>1
<1>4. ASSUME p + 2 <= q PROVE FALSE
    <2>1. /\ (p + 2) * Interval \in Int /\ q * Interval \in Int
          /\ (p + 2) * Interval <= q * Interval
        BY <1>1, <1>4, ProductOrder
    <2> QED
        BY <1>1, <1>2, <2>1
<1>5. q = p + 1
    BY <1>1, <1>3, <1>4
<1> QED
    BY <1>5 DEF p, q

LEMMA QuotientNext ==
    ASSUME NEW n \in Nat
    PROVE  n \div Interval + 1 <= (n + Interval) \div Interval
<1> DEFINE p == n \div Interval
<1>1. p \in Nat /\ (n + Interval) \div Interval = p + 1
    BY QuotientIs, Quotient
<1> HIDE DEF p
<1>2. p + 1 <= (n + Interval) \div Interval
    BY <1>1
<1> QED
    BY <1>2 DEF p

\* Threads that are due are in their slots.
LEMMA DueBound ==
    ASSUME Typed, SlotsConserved, NEW i \in Instances
    PROVE  /\ IsFiniteSet(Due(i))
           /\ Cardinality(Due(i)) \in Nat
           /\ Cardinality(Due(i)) <= Slots
<1>1. Due(i) \subseteq Insiders(i)
    BY DEF Due, Insiders, InSlot
<1>2. /\ IsFiniteSet(Insiders(i))
      /\ Cardinality(Insiders(i)) \in Nat
      /\ free[i] + Cardinality(Insiders(i)) = Slots
      /\ free[i] \in Nat
    BY InsiderCount DEF SlotsConserved, Typed, GateTypeOK
<1>3. /\ IsFiniteSet(Due(i))
      /\ Cardinality(Due(i)) <= Cardinality(Insiders(i))
    BY <1>1, <1>2, FS_Subset
<1>4. Cardinality(Due(i)) \in Nat
    BY <1>3, FS_CardinalityType
<1> QED
    BY <1>2, <1>3, <1>4

\* A tick that wakes nobody brings the next reservation nearer by one tick, and
\* what left up to a - 1 ticks ago now left up to a ticks ago.
LEMMA TickUnpaced ==
    ASSUME Typed, SlotsConserved, Spaced, GateTick, NEW i \in Instances,
           NEW c \in 0..Interval, PacedBy(i, c),
           \A t \in Threads : ~(inst(t) = i /\ phase[t] = "sleep" /\ timer[t] = 1)
    PROVE  \E d \in 0..Interval : PacedBy(i, d)'
<1> DEFINE d == Down(c)
<1>1. d \in 0..Interval /\ c \in Nat /\ d \in Nat /\ c <= d + 1 /\ d <= c
    BY DEF Down
<1>2. /\ nextIn[i] \in Nat /\ nextIn'[i] = Down(nextIn[i])
      /\ \A t \in Threads : timer[t] \in Nat /\ timer'[t] = Down(timer[t])
      /\ phase' = phase
    BY DEF Typed, GateTypeOK, GateTick
<1>3. d <= nextIn'[i]
    BY <1>1, <1>2 DEF PacedBy, Down
<1>4. \A t \in Threads :
         inst(t) = i /\ phase'[t] = "sleep" /\ timer'[t] > 0 => d <= timer'[t]
    BY <1>1, <1>2 DEF PacedBy, Down
<1>5. Due(i)' = Due(i)
    BY <1>2 DEF Due, Down, inst
<1> HIDE DEF d
<1>6. ASSUME NEW a \in Ages
      PROVE  sent'[i][a] + Cardinality(Due(i)') <= Slots + (a + d) \div Interval
    <2>1. Cardinality(Due(i)) \in Nat /\ Cardinality(Due(i)) <= Slots
        BY DueBound
    <2>2. a \in Nat /\ (a + d) \div Interval \in Nat
        BY <1>1, Quotient DEF Ages
    <2>3. sent'[i][a] = IF a = 0 THEN 0 ELSE sent[i][a - 1]
        BY DEF GateTick
    <2>4. CASE a = 0
        BY <1>5, <2>1, <2>2, <2>3, <2>4
    <2>5. CASE a # 0
        <3>1. a - 1 \in Ages /\ a - 1 \in Nat
            BY <2>5 DEF Ages
        <3>2. /\ sent[i][a - 1] \in Nat
              /\ sent[i][a - 1] + Cardinality(Due(i)) <= Slots + ((a - 1) + c) \div Interval
            BY <3>1 DEF PacedBy, Typed, GateTypeOK
        <3>3. /\ ((a - 1) + c) \div Interval <= (a + d) \div Interval
              /\ ((a - 1) + c) \div Interval \in Nat
            BY <1>1, <2>2, <3>1, QuotientOrder, Quotient
        <3> QED
            BY <1>5, <2>1, <2>2, <2>3, <2>5, <3>2, <3>3
    <2> QED
        BY <2>4, <2>5
<1> QED
    BY <1>1, <1>3, <1>4, <1>6 DEF PacedBy, inst

\* A tick wakes one thread at most, and the next one sleeps an interval longer.
LEMMA TickPaced ==
    ASSUME Typed, SlotsConserved, Spaced, GateTick, NEW i \in Instances,
           NEW c \in 0..Interval, PacedBy(i, c),
           NEW t \in Threads, inst(t) = i, phase[t] = "sleep", timer[t] = 1
    PROVE  PacedBy(i, Interval)'
<1>1. /\ nextIn[i] \in Nat /\ nextIn'[i] = Down(nextIn[i])
      /\ \A u \in Threads : timer[u] \in Nat /\ timer'[u] = Down(timer[u])
      /\ phase' = phase
    BY DEF Typed, GateTypeOK, GateTick
<1>2. c \in Nat /\ c <= 1
    BY DEF PacedBy
<1>3. Interval <= nextIn'[i]
    <2>1. 1 + Interval <= nextIn[i]
        BY DEF Spaced
    <2> QED
        BY <1>1, <2>1 DEF Down
<1>4. ASSUME NEW u \in Threads, inst(u) = i, phase[u] = "sleep", timer[u] > 0, u # t
      PROVE  1 + Interval <= timer[u]
    BY <1>1, <1>4 DEF Spaced
<1>5. \A u \in Threads :
         inst(u) = i /\ phase'[u] = "sleep" /\ timer'[u] > 0 => Interval <= timer'[u]
    BY <1>1, <1>4 DEF Down
<1>6. Due(i)' \subseteq Due(i) \cup {t}
    BY <1>1, <1>4 DEF Due, Down, inst
<1>7. /\ Cardinality(Due(i)) \in Nat /\ Cardinality(Due(i)') \in Nat
      /\ Cardinality(Due(i)') <= Cardinality(Due(i)) + 1
      /\ Cardinality(Due(i)') <= Slots
    <2>1. IsFiniteSet(Due(i)) /\ Cardinality(Due(i)) \in Nat
        BY DueBound
    <2>2. /\ IsFiniteSet(Due(i) \cup {t})
          /\ Cardinality(Due(i) \cup {t}) <= Cardinality(Due(i)) + 1
          /\ Cardinality(Due(i) \cup {t}) \in Nat
        <3>1. IsFiniteSet(Due(i) \cup {t})
            BY <2>1, FS_AddElement
        <3>2. Cardinality(Due(i) \cup {t}) = IF t \in Due(i) THEN Cardinality(Due(i))
                                                             ELSE Cardinality(Due(i)) + 1
            BY <2>1, FS_AddElement
        <3> QED
            BY <2>1, <3>1, <3>2
    <2>3. /\ IsFiniteSet(Due(i)')
          /\ Cardinality(Due(i)') <= Cardinality(Due(i) \cup {t})
          /\ Cardinality(Due(i)') \in Nat
        BY <1>6, <2>2, FS_Subset, FS_CardinalityType
    <2>4. Insiders(i)' = Insiders(i) /\ free' = free
        BY <1>1 DEF Insiders, inst, GateTick
    <2>5. /\ IsFiniteSet(Insiders(i)) /\ Cardinality(Insiders(i)) \in Nat
          /\ free[i] + Cardinality(Insiders(i)) = Slots /\ free[i] \in Nat
        BY InsiderCount DEF SlotsConserved, Typed, GateTypeOK
    <2>6. Due(i)' \subseteq Insiders(i)
        BY <1>1 DEF Due, Insiders, InSlot, inst
    <2>7. Cardinality(Due(i)') <= Cardinality(Insiders(i))
        BY <2>5, <2>6, FS_Subset
    <2> QED
        BY <2>1, <2>2, <2>3, <2>5, <2>7
<1>8. ASSUME NEW a \in Ages
      PROVE  sent'[i][a] + Cardinality(Due(i)') <= Slots + (a + Interval) \div Interval
    <2>1. /\ a \in Nat /\ a \div Interval \in Nat /\ (a + Interval) \div Interval \in Nat
          /\ a \div Interval + 1 <= (a + Interval) \div Interval
        BY Quotient, QuotientNext DEF Ages
    <2>2. sent'[i][a] = IF a = 0 THEN 0 ELSE sent[i][a - 1]
        BY DEF GateTick
    <2>3. CASE a = 0
        BY <1>7, <2>1, <2>2, <2>3
    <2>4. CASE a # 0
        <3>1. a - 1 \in Ages /\ a - 1 \in Nat
            BY <2>4 DEF Ages
        <3>2. /\ sent[i][a - 1] \in Nat
              /\ sent[i][a - 1] + Cardinality(Due(i)) <= Slots + ((a - 1) + c) \div Interval
            BY <3>1 DEF PacedBy, Typed, GateTypeOK
        <3>3. /\ ((a - 1) + c) \div Interval <= a \div Interval
              /\ ((a - 1) + c) \div Interval \in Nat
            BY <1>2, <2>1, <3>1, QuotientOrder, Quotient
        <3> QED
            BY <1>7, <2>1, <2>2, <2>4, <3>2, <3>3
    <2> QED
        BY <2>3, <2>4
<1> QED
    BY <1>3, <1>5, <1>8 DEF PacedBy, inst

\* A reservation is due at once, an interval after the last one or later, or it
\* sleeps behind all the others.
LEMMA ReservePaced ==
    ASSUME Typed, SlotsConserved, Spaced, NEW i \in Instances,
           NEW c \in 0..Interval, PacedBy(i, c),
           NEW t \in Threads, Reserve(t), inst(t) = i
    PROVE  \E d \in 0..Interval : PacedBy(i, d)'
<1>1. /\ phase' = [phase EXCEPT ![t] = "sleep"]
      /\ timer' = [timer EXCEPT ![t] = nextIn[i]]
      /\ phase[t] = "pace"
      /\ sent' = sent
    BY DEF Reserve, Go
<1>2. /\ phase \in [Threads -> Places] /\ timer \in [Threads -> Nat]
      /\ nextIn[i] \in Nat /\ nextIn'[i] = nextIn[i] + Interval
      /\ \A a \in Ages : sent[i][a] \in Nat /\ a \in Nat
    <2>1. nextIn \in [Instances -> Nat] /\ sent \in [Instances -> [Ages -> Nat]]
        BY DEF Typed, GateTypeOK
    <2>2. \A a \in Ages : a \in Nat
        BY DEF Ages
    <2> QED
        BY <2>1, <2>2 DEF Typed, GateTypeOK, Reserve
<1>3. c \in Nat
    OBVIOUS
<1>4. CASE nextIn[i] = 0
    <2>1. c = 0
        BY <1>3, <1>4 DEF PacedBy
    <2>2. \A u \in Threads : inst(u) = i /\ phase[u] = "sleep" => timer[u] = 0
        BY <1>2, <1>4 DEF Spaced
    <2>3. Due(i)' = Due(i) \cup {t} /\ t \notin Due(i)
        BY <1>1, <1>2, <1>4 DEF Due, inst
    <2>4. /\ Cardinality(Due(i)) \in Nat
          /\ Cardinality(Due(i)') = Cardinality(Due(i)) + 1
        BY ZenonT(30), <2>3, DueBound, FS_AddElement
    <2>5. \A u \in Threads : ~(inst(u) = i /\ phase'[u] = "sleep" /\ timer'[u] > 0)
        BY <1>1, <1>2, <1>4, <2>2
    <2>6. ASSUME NEW a \in Ages
          PROVE  sent'[i][a] + Cardinality(Due(i)') <= Slots + (a + Interval) \div Interval
        <3>1. a \in Nat /\ sent[i][a] \in Nat
            BY <1>2
        <3>2. sent[i][a] + Cardinality(Due(i)) <= Slots + a \div Interval
            BY <2>1, <3>1 DEF PacedBy
        <3>3. /\ a \div Interval \in Nat /\ (a + Interval) \div Interval \in Nat
              /\ a \div Interval + 1 <= (a + Interval) \div Interval
            BY <3>1, Quotient, QuotientNext
        <3> QED
            BY <1>1, <2>4, <3>1, <3>2, <3>3
    <2>7. PacedBy(i, Interval)'
        BY <1>2, <1>4, <2>5, <2>6 DEF PacedBy, inst
    <2> QED
        BY <2>7
<1>5. CASE nextIn[i] > 0
    <2>1. Due(i)' = Due(i)
        BY <1>1, <1>2, <1>5 DEF Due, inst
    <2>2. c <= nextIn'[i]
        BY <1>2, <1>3 DEF PacedBy
    <2>3. \A u \in Threads :
             inst(u) = i /\ phase'[u] = "sleep" /\ timer'[u] > 0 => c <= timer'[u]
        BY <1>1, <1>2 DEF PacedBy
    <2>4. PacedBy(i, c)'
        BY <1>1, <2>1, <2>2, <2>3 DEF PacedBy, inst
    <2> QED
        BY <2>4
<1> QED
    BY <1>2, <1>4, <1>5

\* Other steps of a thread let at most one request that was due go out.
LEMMA PaceStep ==
    ASSUME Typed, SlotsConserved, Spaced, PaceBacked, [GateNext]_gateVars
    PROVE  PaceBacked'
<1> SUFFICES ASSUME NEW i \in Instances
             PROVE  \E d \in 0..Interval : PacedBy(i, d)'
    BY DEF PaceBacked
<1>1. PICK c \in 0..Interval : PacedBy(i, c)
    BY DEF PaceBacked
<1>2. /\ phase \in [Threads -> Places] /\ timer \in [Threads -> Nat]
      /\ nextIn \in [Instances -> Nat]
      /\ sent \in [Instances -> [Ages -> Nat]]
      /\ \A t \in Threads : inst(t) \in Instances
    BY DEF Typed, GateTypeOK, inst
<1>3. CASE GateTick
    <2>1. Interval \in 0..Interval
        OBVIOUS
    <2> QED
        BY <1>1, <1>3, <2>1, TickUnpaced, TickPaced
<1>4. ASSUME NEW t \in Threads, Reserve(t)
      PROVE  \E d \in 0..Interval : PacedBy(i, d)'
    <2>1. CASE inst(t) = i
        BY <1>1, <1>4, <2>1, ReservePaced
    <2>2. CASE inst(t) # i
        <3>1. /\ \A u \in Threads : inst(u) = i => phase'[u] = phase[u] /\ timer'[u] = timer[u]
              /\ nextIn'[i] = nextIn[i] /\ sent' = sent
            BY <1>2, <1>4, <2>2 DEF Reserve, Go
        <3>2. Due(i)' = Due(i)
            BY <3>1 DEF Due, inst
        <3> QED
            BY <1>1, <3>1, <3>2 DEF PacedBy, inst
    <2> QED
        BY <2>1, <2>2
<1>5. ASSUME NEW t \in Threads, Send(t)
      PROVE  PacedBy(i, c)'
    <2>1. /\ nextIn' = nextIn /\ phase[t] = "send" /\ phase'[t] = "wire"
          /\ \A u \in Threads \ {t} : phase'[u] = phase[u] /\ timer'[u] = timer[u]
          /\ \A a \in Ages :
                sent'[i][a] = IF i = inst(t) THEN sent[i][a] + 1 ELSE sent[i][a]
        BY <1>2, <1>5 DEF Send, Go
    <2>2. Due(i)' = IF i = inst(t) THEN Due(i) \ {t} ELSE Due(i)
        BY <2>1 DEF Due, inst
    <2>3. i = inst(t) => t \in Due(i)
        BY <2>1 DEF Due
    <2>4. i = inst(t) => Cardinality(Due(i)') = Cardinality(Due(i)) - 1
        BY ZenonT(30), <2>2, <2>3, DueBound, FS_RemoveElement
    <2>5. ASSUME NEW a \in Ages
          PROVE  sent'[i][a] + Cardinality(Due(i)') <= Slots + (a + c) \div Interval
        <3>0. sent[i][a] \in Nat /\ Cardinality(Due(i)) \in Nat
            BY <1>2, DueBound
        <3>1. (a + c) \div Interval \in Nat
            BY Quotient DEF Ages
        <3>2. sent[i][a] + Cardinality(Due(i)) <= Slots + (a + c) \div Interval
            BY <1>1 DEF PacedBy
        <3> QED
            BY <2>1, <2>2, <2>4, <3>0, <3>1, <3>2
    <2> QED
        BY <1>1, <2>1, <2>5 DEF PacedBy, inst
<1>6. ASSUME NEW t \in Threads, Call(t) \/ Advance(t), ~Reserve(t), ~Send(t)
      PROVE  PacedBy(i, c)'
    <2>1. /\ nextIn' = nextIn /\ sent' = sent
          /\ phase'[t] # "sleep"
          /\ phase'[t] \in {"shared", "send"} =>
                phase[t] = "shared" \/ (phase[t] = "sleep" /\ timer[t] = 0)
          /\ \A u \in Threads \ {t} : phase'[u] = phase[u] /\ timer'[u] = timer[u]
        BY <1>2, <1>6
        DEF Call, Advance, EnterSlot, CheckLocal, CheckShared, Respond,
            SetLocal, SetShared, Resume, Refuse, Retry, End, Go
    <2>2. Due(i)' \subseteq Due(i)
        BY <2>1 DEF Due, inst
    <2>3. /\ Cardinality(Due(i)') \in Nat /\ Cardinality(Due(i)) \in Nat
          /\ Cardinality(Due(i)') <= Cardinality(Due(i))
        BY <2>2, DueBound, FS_Subset, FS_CardinalityType
    <2>4. ASSUME NEW a \in Ages
          PROVE  sent'[i][a] + Cardinality(Due(i)') <= Slots + (a + c) \div Interval
        <3>0. sent[i][a] \in Nat
            BY <1>2
        <3>1. (a + c) \div Interval \in Nat
            BY Quotient DEF Ages
        <3>2. sent[i][a] + Cardinality(Due(i)) <= Slots + (a + c) \div Interval
            BY <1>1 DEF PacedBy
        <3> QED
            BY <2>1, <2>3, <3>0, <3>1, <3>2
    <2> QED
        BY <1>1, <2>1, <2>4 DEF PacedBy, inst
<1>7. CASE UNCHANGED gateVars
    <2>1. PacedBy(i, c)'
        BY <1>1, <1>7 DEF gateVars, PacedBy, Due
    <2> QED
        BY <2>1
<1> QED
    BY <1>3, <1>4, <1>5, <1>6, <1>7 DEF GateNext

-----------------------------------------------------------------------------
(* theorems *)

\* No thread is anywhere, and every slot is free.
LEMMA InitIInv == GateInit => IInv
<1> SUFFICES ASSUME GateInit PROVE IInv
    OBVIOUS
<1>1. Typed
    BY DEF GateInit, Typed, GateTypeOK, AttemptLeft, Places
<1>2. ASSUME NEW i \in Instances
      PROVE  Insiders(i) = {} /\ Checked(i) = {}
    BY DEF GateInit, Insiders, Checked, InSlot
<1>3. SlotsConserved
    <2>1. ASSUME NEW i \in Instances
          PROVE  free[i] + Cardinality(Insiders(i)) = Slots
        <3>1. Cardinality(Insiders(i)) = 0
            BY <1>2, FS_EmptySet
        <3>2. free[i] = Slots
            BY DEF GateInit
        <3> QED
            BY <3>1, <3>2
    <2> QED
        BY <2>1 DEF SlotsConserved
<1>4. Spaced
    BY DEF GateInit, Spaced
<1>5. LeakBacked
    BY <1>2, FS_EmptySet DEF GateInit, LeakBacked
<1>6. PaceBacked
    <2>1. ASSUME NEW i \in Instances PROVE PacedBy(i, 0)
        <3>1. Due(i) = {} /\ Cardinality(Due(i)) = 0
            BY FS_EmptySet DEF GateInit, Due
        <3>2. nextIn[i] = 0 /\ \A a \in Ages : a \in Nat /\ sent[i][a] = 0
            BY DEF GateInit, Ages
        <3>3. \A t \in Threads : phase[t] # "sleep"
            BY DEF GateInit
        <3> QED
            BY <3>1, <3>2, <3>3, Quotient DEF PacedBy
    <2>2. 0 \in 0..Interval
        OBVIOUS
    <2> QED
        BY <2>1, <2>2 DEF PaceBacked
<1> QED
    BY <1>1, <1>3, <1>4, <1>5, <1>6 DEF IInv

\* Every step keeps the inductive invariant.
LEMMA StepIInv == IInv /\ [GateNext]_gateVars => IInv'
BY TypeStep, SlotsStep, SpacedStep, LeakStep, PaceStep DEF IInv

\* The inductive invariant holds in every reachable state.
THEOREM Invariance == GateSpec => []IInv
BY InitIInv, StepIInv, PTL DEF GateSpec

\* The variables keep their types: in particular no attempt is made beyond
\* Retries, no countdown passes 0 and no semaphore passes its value.
THEOREM TypeCorrect == GateSpec => []GateTypeOK
<1>1. IInv => GateTypeOK
    BY DEF IInv, Typed
<1> QED
    BY <1>1, Invariance, PTL

\* No path of _get through its `with REQUEST_SLOTS' block loses a slot.
THEOREM SlotsAreConserved == GateSpec => []SlotsConserved
<1>1. IInv => SlotsConserved
    BY DEF IInv
<1> QED
    BY <1>1, Invariance, PTL

\* RequestPacer.acquire keeps the reservations of one process an interval
\* apart, and however late its threads wake up no window sees more requests
\* than the reservations of that time and one per slot, for any number of
\* threads, slots, interval and window.
THEOREM PaceIsKept == GateSpec => []PaceKept
<1>1. IInv => PaceBound
    <2> SUFFICES ASSUME IInv, NEW i \in Instances
                 PROVE  sent[i][Window - 1] <= (Window - 1) \div Interval + 1 + Slots
        BY DEF PaceBound
    <2> DEFINE a == Window - 1
    <2>1. a \in Ages /\ a \in Nat /\ sent[i][a] \in Nat
        BY DEF Ages, IInv, Typed, GateTypeOK
    <2>2. PICK c \in 0..Interval : PacedBy(i, c)
        BY DEF IInv, PaceBacked
    <2>3. Cardinality(Due(i)) \in Nat
        BY DueBound DEF IInv
    <2> HIDE DEF a
    <2>4. sent[i][a] + Cardinality(Due(i)) <= Slots + (a + c) \div Interval
        BY <2>1, <2>2 DEF PacedBy
    <2>5. /\ (a + c) \div Interval <= (a + Interval) \div Interval
          /\ (a + c) \div Interval \in Nat
        BY <2>1, QuotientOrder, Quotient
    <2>6. (a + Interval) \div Interval = a \div Interval + 1 /\ a \div Interval \in Nat
        BY <2>1, QuotientIs, Quotient
    <2>7. sent[i][a] <= a \div Interval + 1 + Slots
        BY <2>1, <2>3, <2>4, <2>5, <2>6
    <2> QED
        BY <2>7 DEF a
<1>2. IInv => Spaced
    BY DEF IInv
<1> QED
    BY <1>1, <1>2, Invariance, PTL DEF PaceKept

\* A cooldown that a process knows of lets out at most Slots requests.
THEOREM CooldownLeaks == GateSpec => []CooldownLeakBound
<1>1. IInv => CooldownLeakBound
    <2> SUFFICES ASSUME IInv, NEW i \in Instances
                 PROVE  leaked[i] <= Slots
        BY DEF CooldownLeakBound
    <2>1. /\ local[i] \in Nat /\ leaked[i] \in Nat
          /\ local[i] > 0 => leaked[i] + Cardinality(Checked(i)) <= Slots
          /\ local[i] = 0 => leaked[i] = 0
        BY DEF IInv, Typed, GateTypeOK, LeakBacked
    <2>2. Cardinality(Checked(i)) \in Nat
        BY CheckedBound DEF IInv
    <2> QED
        BY <2>1, <2>2
<1> QED
    BY <1>1, Invariance, PTL
=============================================================================
