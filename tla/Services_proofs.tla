-------------------------- MODULE Services_proofs --------------------------
(***************************************************************************)
(* Theorems about the services that MCServices runs side by side: the rate *)
(* limiter, the usage statistics and the retention of matches, for any     *)
(* values of their constants.  Those about the ranker benchmark are in     *)
(* RankerSync_proofs.  The last section carries all of them over to the    *)
(* composition.                                                            *)
(***************************************************************************)
EXTENDS MCServices, RankerSync_proofs, NaturalLemmas, SequenceTheorems, TLAPS

-----------------------------------------------------------------------------
(* UsageAnalytics *)

Events == 1..Len(log)
FieldSet == {"events", "hosts", "failures"}
EventType == [kind : Kinds, at : 0..LastTick, server : Servers, stored : SUBSET Stores]

IsList(list) == \E T : list \in Seq(T)

HourShape(hour) ==
    /\ hour = [events |-> hour.events, hosts |-> hour.hosts, failures |-> hour.failures]
    /\ hour.events \in [Kinds -> Nat] /\ hour.hosts \in Nat
    /\ IsList(hour.failures)

LogShape ==
    /\ clock \in 0..LastTick /\ connected \in [Servers -> BOOLEAN]
    /\ log \in Seq(EventType) /\ Len(log) <= MaxEvents
    /\ \A n \in Events : log[n].at <= clock

RedisShape ==
    /\ DOMAIN redis = HoursOfClock
    /\ \A h \in HoursOfClock : HourShape(redis[h])

RowsShape ==
    /\ rows \in [Servers -> SUBSET Events]
    /\ \A s \in Servers : \A n \in rows[s] : log[n].server = s

\* A thread's event is its own, and its next command one of the event's.
SendingShape ==
    /\ sending \in [Trackers -> [event : 0..Len(log), next : 1..4 \cup {Done}]]
    /\ \A t \in Trackers : sending[t].next # Done =>
          Sent(t) # 0 /\ sending[t].next <= Len(Commands(EventOf(t))) + 1
    /\ \A t, u \in Trackers : Sent(t) = Sent(u) /\ Sent(t) # 0 => t = u
    /\ \A t \in Trackers : Sent(t) # 0 => log[Sent(t)].server = ServerOf[t]

\* The types, lists included.
UsageShape == LogShape /\ RedisShape /\ RowsShape /\ SendingShape

SummaryShape ==
    /\ summary.server \in Servers /\ summary.source \in Stores \cup {"none"}
    /\ summary = [server |-> summary.server, source |-> summary.source,
                  since |-> summary.since, left |-> summary.left,
                  floor |-> summary.floor, got |-> summary.got]
    /\ summary.since \in Int
    /\ summary.left \in Seq(HoursOfClock \X FieldSet)
    /\ summary.floor \subseteq Events
    /\ HourShape(summary.got)
    /\ summary.source = "none" => summary = NoSummary

Slice(S, h) == {n \in S : HourOf(log[n].at) = h}

\* c[f]: the events that a command on field f has counted.  It was one each, and
\* those acknowledged are among the counted.
CountedInRedis(c) ==
    /\ \A h \in HoursOfClock :
          /\ \A k \in Kinds :
                redis[h].events[k] = Cardinality(OfKind(Slice(c["events"], h), k))
          /\ redis[h].hosts = Cardinality(Slice(c["hosts"], h))
          /\ Len(redis[h].failures) <= Cardinality(Slice(c["failures"], h))
    /\ \A n \in c["hosts"] : log[n].kind = "page_view"
    /\ \A n \in Events : "redis" \in log[n].stored => n \in c["events"]
    /\ \A t \in Trackers : sending[t].next # Done =>
          /\ Sent(t) \in c["events"] <=> sending[t].next # 1
          /\ sending[t].next \in 1..2 => Sent(t) \notin c["hosts"] \cup c["failures"]

RedisCounts == \E c \in [FieldSet -> SUBSET Events] : CountedInRedis(c)

ToRead(hour, field) ==
    \E j \in DOMAIN summary.left : summary.left[j] = <<hour, field>>

\* g[f]: the events that the totals of field f count, each once.
CountedIn(g) ==
    /\ \A k \in Kinds : summary.got.events[k] = Cardinality(OfKind(g["events"], k))
    /\ summary.got.hosts = Cardinality(g["hosts"])
    /\ Len(summary.got.failures) <= Cardinality(g["failures"])
    /\ \A n \in g["hosts"] : log[n].kind = "page_view"
    /\ \A f \in FieldSet : g[f] \subseteq Possible

\* The reads of Redis that are left are of hours the totals do not count yet.
LeftInRedis(g) ==
    /\ \A i, j \in DOMAIN summary.left : summary.left[i] = summary.left[j] => i = j
    /\ \A f \in FieldSet : \A n \in g[f] : ~ToRead(HourOf(log[n].at), f)
    /\ \A n \in summary.floor :
          /\ "redis" \in log[n].stored
          /\ n \in g["events"] \/ ToRead(HourOf(log[n].at), "events")

LeftInTable(g) ==
    /\ \A j \in DOMAIN summary.left : summary.left[j][1] = 0
    /\ summary.floor \subseteq rows[summary.server]
    /\ \A n \in summary.floor :
          /\ log[n].at >= summary.since
          /\ n \in g["events"] \/ ToRead(0, "events")
          /\ log[n].kind = "page_view" => n \in g["hosts"] \/ ToRead(0, "hosts")

SummaryCounts ==
    \E g \in [FieldSet -> SUBSET Events] :
        /\ CountedIn(g)
        /\ summary.source = "redis" => LeftInRedis(g)
        /\ summary.source = "sqlite" => LeftInTable(g)

UsageInv == UsageShape /\ SummaryShape /\ RedisCounts /\ SummaryCounts

-----------------------------------------------------------------------------
(* hours, lists and the log *)

\* The quotient of naturals is one of the naturals and grows with its dividend.
LEMMA Division ==
    ASSUME NEW d \in Nat \ {0}, NEW n \in Nat
    PROVE  n \div d \in Nat /\ (n \div d) * d <= n /\ n < (n \div d + 1) * d
OBVIOUS

LEMMA DivisionGrows ==
    ASSUME NEW d \in Nat \ {0}, NEW m \in Nat, NEW n \in Nat, m <= n
    PROVE  m \div d <= n \div d
<1> DEFINE p == m \div d  q == n \div d
<1>1. p \in Nat /\ q \in Nat /\ p * d <= m /\ n < (q + 1) * d
    BY Division
<1> HIDE DEF p, q
<1>2. ASSUME q + 1 <= p PROVE FALSE
    <2>1. PICK k \in Nat : p = q + 1 + k
        <3>1. p - (q + 1) \in Nat /\ p = q + 1 + (p - (q + 1))
            BY <1>1, <1>2
        <3> QED
            BY <3>1
    <2>2. p * d = (q + 1) * d + k * d
        BY <1>1, <2>1
    <2>3. k * d \in Nat /\ (q + 1) * d \in Nat /\ p * d \in Nat
        BY <1>1, <2>1
    <2> QED
        BY <1>1, <2>2, <2>3
<1>3. p <= q
    BY <1>1, <1>2
<1> QED
    BY <1>3 DEF p, q

LEMMA HoursOfTimes ==
    /\ \A time \in 0..LastTick : HourOf(time) \in HoursOfClock
    /\ \A m, n \in 0..LastTick : m <= n => HourOf(m) <= HourOf(n)
    /\ LastTick \div PerHour \in Nat /\ HoursOfClock \subseteq Nat
<1>1. LastTick \in Nat /\ PerHour \in Nat \ {0}
    BY UsageBoundsAssumption, PerHourAssumption
<1>2. \A m, n \in 0..LastTick : m <= n => HourOf(m) <= HourOf(n)
    BY <1>1, DivisionGrows DEF HourOf
<1>3. \A time \in 0..LastTick : HourOf(time) \in Nat
    BY <1>1, Division DEF HourOf
<1>4. \A time \in 0..LastTick : HourOf(time) <= HourOf(LastTick)
    BY <1>1, <1>2
<1>5. HourOf(LastTick) \in Nat
    BY <1>1, <1>3
<1> QED
    BY <1>2, <1>3, <1>4, <1>5 DEF HoursOfClock, HourOf

LEMMA ListLength ==
    ASSUME NEW list, IsList(list)
    PROVE  Len(list) \in Nat /\ DOMAIN list = 1..Len(list)
BY LenProperties DEF IsList

LEMMA ListOfFunction ==
    ASSUME NEW n \in Nat, NEW list, list = [i \in 1..n |-> list[i]]
    PROVE  IsList(list) /\ Len(list) = n
<1>1. list \in [1..n -> {list[i] : i \in 1..n}]
    OBVIOUS
<1>2. list \in Seq({list[i] : i \in 1..n})
    BY <1>1
<1>3. Len(list) \in Nat /\ DOMAIN list = 1..Len(list) /\ DOMAIN list = 1..n
    <2>1. \A T : list \in Seq(T) => Len(list) \in Nat /\ DOMAIN list = 1..Len(list)
        BY LenProperties
    <2> QED
        BY <1>1, <1>2, <2>1
<1>4. IsList(list)
    BY <1>2, Zenon DEF IsList
<1>5. Len(list) = n
    BY <1>3
<1> QED
    BY <1>4, <1>5

LEMMA ListConcat ==
    ASSUME NEW l, NEW m, IsList(l), IsList(m)
    PROVE  IsList(l \o m) /\ Len(l \o m) = Len(l) + Len(m)
<1>1. PICK T : l \in Seq(T)
    BY DEF IsList
<1>2. PICK U : m \in Seq(U)
    BY DEF IsList
<1>3. l \in Seq(T \cup U) /\ m \in Seq(T \cup U)
    BY <1>1, <1>2, SeqMonotonic, Zenon
<1> QED
    BY <1>3, ConcatProperties DEF IsList

\* The first n entries of a list.
LEMMA ListPrefix ==
    ASSUME NEW l, IsList(l), NEW n \in 0..Len(l)
    PROVE  IsList(SubSeq(l, 1, n)) /\ Len(SubSeq(l, 1, n)) = n
<1>1. PICK T : l \in Seq(T)
    BY DEF IsList
<1>2. Len(l) \in Nat /\ \A i \in 1..n : l[i] \in T
    BY <1>1, ElementOfSeq, ListLength
<1>3. SubSeq(l, 1, n) \in Seq(T)
      /\ Len(SubSeq(l, 1, n)) = IF 1 <= n THEN n - 1 + 1 ELSE 0
    BY <1>2, SubSeqProperties
<1> QED
    BY <1>2, <1>3 DEF IsList

\* The events of the log keep what they are; Redis forgets none.
EventsStay ==
    /\ log' \in Seq(EventType) /\ Len(log) <= Len(log') /\ Len(log') <= MaxEvents
    /\ \A n \in Events :
          /\ log'[n].kind = log[n].kind /\ log'[n].at = log[n].at
          /\ log'[n].server = log[n].server
          /\ "redis" \in log[n].stored => "redis" \in log'[n].stored

LEMMA Events1 ==
    ASSUME UsageShape
    PROVE  /\ Len(log) \in Nat /\ DOMAIN log = Events
           /\ \A n \in Events : log[n] \in EventType /\ HourOf(log[n].at) \in HoursOfClock
           /\ MaxEvents \in Nat /\ LastTick \in Nat
           /\ log \in Seq(EventType) /\ Len(log) <= MaxEvents
<1>1. log \in Seq(EventType) /\ Len(log) <= MaxEvents
    BY DEF UsageShape, LogShape, RedisShape, SendingShape
<1>2. Len(log) \in Nat /\ DOMAIN log = Events /\ \A n \in Events : log[n] \in EventType
    BY <1>1, LenProperties, ElementOfSeq DEF Events
<1>3. \A n \in Events : log[n].at \in 0..LastTick
    BY <1>2 DEF EventType
<1> QED
    BY <1>1, <1>2, <1>3, UsageBoundsAssumption, HoursOfTimes

LEMMA StoredStays ==
    ASSUME UsageShape, NEW n \in Events, NEW store \in Stores, StoredIn(n, store)
    PROVE  /\ EventsStay /\ Len(log') = Len(log)
           /\ \A m \in Events : "redis" \in log'[m].stored =>
                 "redis" \in log[m].stored \/ (m = n /\ store = "redis")
<1> DEFINE e == [log[n] EXCEPT !.stored = @ \cup {store}]
<1>1. e \in EventType
    BY Events1 DEF EventType
<1>2. log' = [log EXCEPT ![n] = e]
    BY DEF StoredIn
<1>3. /\ e.kind = log[n].kind /\ e.at = log[n].at /\ e.server = log[n].server
      /\ e.stored = log[n].stored \cup {store}
    BY Events1 DEF EventType
<1> HIDE DEF e
<1>4. /\ log' \in Seq(EventType) /\ Len(log') = Len(log)
      /\ \A m \in Events : log'[m] = IF m = n THEN e ELSE log[m]
    BY <1>1, <1>2, ExceptSeq, Events1 DEF Events
<1>5. \A m \in Events : log'[m] = IF m = n THEN e ELSE log[m]
    BY <1>4
<1> QED
    BY <1>3, <1>4, <1>5, Events1 DEF EventsStay

LEMMA ReplacedStays ==
    ASSUME UsageShape, NEW s \in Servers, ReplaceServer(s)
    PROVE  /\ EventsStay /\ Len(log') = Len(log)
           /\ \A m \in Events : "redis" \in log'[m].stored => "redis" \in log[m].stored
<1> DEFINE e(n) == IF log[n].server = s THEN [log[n] EXCEPT !.stored = @ \ {"sqlite"}]
                                        ELSE log[n]
<1>1. \A n \in Events : /\ e(n) \in EventType
                        /\ e(n).kind = log[n].kind /\ e(n).at = log[n].at
                        /\ e(n).server = log[n].server
                        /\ "redis" \in e(n).stored <=> "redis" \in log[n].stored
    BY Events1 DEF EventType, Stores
<1>2. log' = [n \in Events |-> e(n)]
    BY Events1 DEF ReplaceServer
<1> HIDE DEF e
<1>3. log' \in [1..Len(log) -> EventType]
    BY <1>1, <1>2 DEF Events
<1>4. log' \in Seq(EventType)
    BY <1>3, Events1
<1>5. Len(log') = Len(log)
    BY <1>3, <1>4, Events1, LenProperties
<1> QED
    BY <1>1, <1>2, <1>4, <1>5, Events1 DEF EventsStay

\* The event that is tracked is the last of the log.
LEMMA TrackedStays ==
    ASSUME UsageShape, NEW t \in Trackers, Track(t)
    PROVE  /\ EventsStay /\ Len(log') = Len(log) + 1
           /\ log'[Len(log) + 1].at = clock
           /\ log'[Len(log) + 1].server = ServerOf[t]
           /\ log'[Len(log) + 1].stored = {}
<1>1. PICK k \in Kinds : log' = Append(log, [kind |-> k, at |-> clock,
                                             server |-> ServerOf[t], stored |-> {}])
    BY DEF Track
<1> DEFINE e == [kind |-> k, at |-> clock, server |-> ServerOf[t], stored |-> {}]
<1>2. e \in EventType
    BY TrackersAssumption DEF EventType, UsageShape, LogShape, RedisShape, SendingShape
<1>3. e.at = clock /\ e.stored = {} /\ e.server = ServerOf[t]
    OBVIOUS
<1> HIDE DEF e
<1>4. /\ log' \in Seq(EventType) /\ Len(log') = Len(log) + 1
      /\ \A i \in 1..Len(log) : log'[i] = log[i]
      /\ log'[Len(log) + 1] = e
    BY <1>1, <1>2, AppendProperties DEF UsageShape, LogShape, RedisShape, SendingShape, e
<1> QED
    BY <1>3, <1>4, Events1 DEF EventsStay, Track, Events

LEMMA UsageEventsStay ==
    ASSUME UsageShape, UsageNext
    PROVE  EventsStay
<1>1. log' = log => EventsStay
    BY Events1 DEF EventsStay
<1>2. ASSUME NEW t \in Trackers,
             Track(t) \/ RunCommand(t) \/ Executes(t) \/ ExecuteFails(t) \/ InsertEvent(t)
      PROVE  EventsStay
    <2>1. Sent(t) # 0 => Sent(t) \in Events
        BY Events1 DEF UsageShape, LogShape, RedisShape, SendingShape, Sent, Events
    <2>2. CASE Track(t)
        BY <2>2, TrackedStays
    <2>3. CASE RunCommand(t) \/ ExecuteFails(t)
        BY <1>1, <2>3 DEF RunCommand, ExecuteFails
    <2>4. CASE Executes(t)
        <3>1. Sent(t) # 0
            BY <2>4 DEF Executes, UsageShape, LogShape, RedisShape, SendingShape
        <3> QED
            BY <2>1, <2>4, <3>1, StoredStays DEF Executes, Stores
    <2>5. CASE InsertEvent(t)
        BY <1>1, <2>1, <2>5, StoredStays DEF InsertEvent, Stores
    <2> QED
        BY <1>2, <2>2, <2>3, <2>4, <2>5
<1>3. ASSUME NEW s \in Servers, AskSummary(s) \/ ReplaceServer(s)
      PROVE  EventsStay
    BY <1>1, <1>3, ReplacedStays DEF AskSummary
<1>4. CASE ReadRedis \/ ReadRedisFails \/ ReadTable \/ AnswerSummary \/ ClockTicks
    BY <1>1, <1>4 DEF ReadRedis, ReadRedisFails, ReadTable, AnswerSummary, ClockTicks
<1> QED
    BY <1>2, <1>3, <1>4 DEF UsageNext

-----------------------------------------------------------------------------
(* shapes *)

LEMMA CommandsAre ==
    ASSUME UsageShape, NEW t \in Trackers, sending[t].next # Done
    PROVE  /\ Sent(t) \in Events /\ EventOf(t) \in EventType
           /\ HourOf(EventOf(t).at) \in HoursOfClock
           /\ sending[t].next \in 1..4
           /\ EventOf(t).kind \in Kinds
           /\ EventOf(t).kind = "page_view" =>
                 Len(Commands(EventOf(t))) = 2
                 /\ Commands(EventOf(t))[1] = "events" /\ Commands(EventOf(t))[2] = "hosts"
           /\ EventOf(t).kind # "page_view" =>
                 /\ Len(Commands(EventOf(t))) = 3
                 /\ Commands(EventOf(t))[1] = "events" /\ Commands(EventOf(t))[2] = "failures"
                 /\ Commands(EventOf(t))[3] = "trim"
<1>1. Sent(t) \in Events /\ sending[t].next \in 1..4
    BY Events1 DEF UsageShape, LogShape, RedisShape, SendingShape, Sent, Events
<1> QED
    BY <1>1, Events1 DEF EventOf, Commands, EventType

\* What a command does to an hour.
LEMMA ExecutedIs ==
    ASSUME UsageShape, NEW t \in Trackers, RunCommand(t)
    PROVE  LET e == EventOf(t)
               h == HourOf(e.at)
           IN  /\ DOMAIN redis' = HoursOfClock
               /\ \A g \in HoursOfClock : g # h => redis'[g] = redis[g]
               /\ HourShape(redis'[h])
               /\ sending[t].next = 1 =>
                     /\ redis'[h].events = [redis[h].events EXCEPT ![e.kind] = @ + 1]
                     /\ redis'[h].hosts = redis[h].hosts
                     /\ redis'[h].failures = redis[h].failures
               /\ sending[t].next # 1 => redis'[h].events = redis[h].events
               /\ sending[t].next = 2 /\ e.kind = "page_view" =>
                     /\ redis'[h].hosts = redis[h].hosts + 1
                     /\ redis'[h].failures = redis[h].failures
               /\ sending[t].next = 2 /\ e.kind # "page_view" =>
                     /\ redis'[h].hosts = redis[h].hosts
                     /\ Len(redis'[h].failures) = Len(redis[h].failures) + 1
                     /\ redis'[h].failures = <<e.at>> \o redis[h].failures
               /\ sending[t].next \notin 1..2 =>
                     /\ redis'[h].hosts = redis[h].hosts
                     /\ Len(redis'[h].failures) <= Len(redis[h].failures)
                     /\ redis'[h].failures =
                          SubSeq(redis[h].failures, 1,
                                 Lesser(KeptFailures, Len(redis[h].failures)))
               /\ sending[t].next = 2 \/ (sending[t].next = 1 \/ e.kind # "page_view")
<1> DEFINE e == EventOf(t)
           h == HourOf(e.at)
           o == redis[h]
           w == Executed(o, Commands(e)[sending[t].next], e)
<1>1. /\ sending[t].next # Done /\ sending[t].next <= Len(Commands(e))
      /\ redis' = [redis EXCEPT ![h] = w]
    BY DEF RunCommand
<1>2. /\ h \in HoursOfClock /\ e.kind \in Kinds /\ sending[t].next \in 1..4
      /\ e.kind = "page_view" =>
            Len(Commands(e)) = 2
            /\ Commands(e)[1] = "events" /\ Commands(e)[2] = "hosts"
      /\ e.kind # "page_view" =>
            /\ Len(Commands(e)) = 3
            /\ Commands(e)[1] = "events" /\ Commands(e)[2] = "failures"
            /\ Commands(e)[3] = "trim"
    BY <1>1, CommandsAre
<1>3. DOMAIN redis' = HoursOfClock /\ redis'[h] = w
      /\ \A g \in HoursOfClock : g # h => redis'[g] = redis[g]
    BY <1>1, <1>2 DEF UsageShape, LogShape, RedisShape, SendingShape
<1>4. HourShape(o)
    BY <1>2 DEF UsageShape, LogShape, RedisShape, SendingShape
<1>5. sending[t].next = 1 => w = Executed(o, "events", e)
    BY <1>2
<1>6. sending[t].next = 2 /\ e.kind = "page_view" => w = Executed(o, "hosts", e)
    BY <1>2
<1>7. sending[t].next = 2 /\ e.kind # "page_view" => w = Executed(o, "failures", e)
    BY <1>2
<1>8. sending[t].next \notin 1..2 => w = Executed(o, "trim", e) /\ e.kind # "page_view"
    BY <1>1, <1>2
<1> HIDE DEF w, o, h, e
<1>9. LET x == Executed(o, "events", e)
      IN  /\ HourShape(x) /\ x.hosts = o.hosts /\ x.failures = o.failures
          /\ x.events = [o.events EXCEPT ![e.kind] = @ + 1]
    BY <1>2, <1>4 DEF Executed, HourShape
<1>10. LET x == Executed(o, "hosts", e)
       IN  /\ HourShape(x) /\ x.hosts = o.hosts + 1 /\ x.failures = o.failures
           /\ x.events = o.events
    BY <1>4 DEF Executed, HourShape
<1>11. LET x == Executed(o, "failures", e)
       IN  /\ HourShape(x) /\ x.hosts = o.hosts /\ x.events = o.events
           /\ Len(x.failures) = Len(o.failures) + 1
           /\ x.failures = <<e.at>> \o o.failures
    <2>1. IsList(<<e.at>>) /\ Len(<<e.at>>) = 1
        <3>1. <<e.at>> \in Seq({e.at})
            OBVIOUS
        <3> QED
            BY <3>1 DEF IsList
    <2>2. IsList(<<e.at>> \o o.failures)
          /\ Len(<<e.at>> \o o.failures) = Len(o.failures) + 1
        BY <1>4, <2>1, ListConcat, ListLength DEF HourShape
    <2> QED
        BY <1>4, <2>2 DEF Executed, HourShape
<1>12. LET x == Executed(o, "trim", e)
       IN  /\ HourShape(x) /\ x.hosts = o.hosts /\ x.events = o.events
           /\ Len(x.failures) <= Len(o.failures)
           /\ x.failures = SubSeq(o.failures, 1, Lesser(KeptFailures, Len(o.failures)))
    <2> DEFINE n == Lesser(KeptFailures, Len(o.failures))
    <2>1. n \in 0..Len(o.failures) /\ Len(o.failures) \in Nat
        BY <1>4, ListLength, SummaryAssumption DEF HourShape, Lesser
    <2>2. IsList(SubSeq(o.failures, 1, n)) /\ Len(SubSeq(o.failures, 1, n)) = n
        BY <1>4, <2>1, ListPrefix DEF HourShape
    <2>3. Executed(o, "trim", e) = [o EXCEPT !.failures = SubSeq(o.failures, 1, n)]
        BY DEF Executed
    <2> DEFINE l == SubSeq(o.failures, 1, n)
    <2>4. Executed(o, "trim", e) = [events |-> o.events, hosts |-> o.hosts, failures |-> l]
        BY <1>4, <2>3 DEF HourShape
    <2>5. IsList(l) /\ Len(l) <= Len(o.failures)
        BY <2>1, <2>2
    <2>6. l = SubSeq(o.failures, 1, Lesser(KeptFailures, Len(o.failures)))
        OBVIOUS
    <2> HIDE DEF l, n
    <2> QED
        <3>1. LET x == Executed(o, "trim", e)
              IN  /\ HourShape(x) /\ x.hosts = o.hosts /\ x.events = o.events
                  /\ Len(x.failures) <= Len(o.failures) /\ x.failures = l
            BY <1>4, <2>4, <2>5 DEF HourShape
        <3> QED
            BY <2>6, <3>1, Zenon
<1>13. HourShape(w)
    BY <1>2, <1>5, <1>6, <1>7, <1>8, <1>9, <1>10, <1>11, <1>12
<1>14. sending[t].next = 1 =>
          /\ w.events = [o.events EXCEPT ![e.kind] = @ + 1]
          /\ w.hosts = o.hosts /\ w.failures = o.failures
    BY <1>5, <1>9
<1>15. sending[t].next # 1 => w.events = o.events
    BY <1>2, <1>6, <1>7, <1>8, <1>10, <1>11, <1>12
<1>16. sending[t].next = 2 /\ e.kind = "page_view" =>
          w.hosts = o.hosts + 1 /\ w.failures = o.failures
    BY <1>6, <1>10
<1>17. sending[t].next = 2 /\ e.kind # "page_view" =>
          /\ w.hosts = o.hosts /\ Len(w.failures) = Len(o.failures) + 1
          /\ w.failures = <<e.at>> \o o.failures
    BY <1>7, <1>11
<1>18. sending[t].next \notin 1..2 =>
          /\ w.hosts = o.hosts /\ Len(w.failures) <= Len(o.failures)
          /\ w.failures = SubSeq(o.failures, 1, Lesser(KeptFailures, Len(o.failures)))
    BY <1>8, <1>12
<1>19. sending[t].next = 2 \/ (sending[t].next = 1 \/ e.kind # "page_view")
    BY <1>2, <1>8
<1> QED
    BY <1>3, <1>13, <1>14, <1>15, <1>16, <1>17, <1>18, <1>19 DEF o, h, e

LEMMA UsageStarts == UsageInit => UsageShape /\ SummaryShape
<1> SUFFICES ASSUME UsageInit PROVE UsageShape /\ SummaryShape
    OBVIOUS
<1>1. HourShape(EmptyHour)
    <2>1. IsList(<<>>)
        BY EmptySeq DEF IsList
    <2> QED
        BY <2>1 DEF HourShape, EmptyHour
<1>2. log = <<>> /\ Len(log) = 0 /\ log \in Seq(EventType) /\ Events = {}
    BY EmptySeq DEF UsageInit, Events
<1>3. LogShape
    BY <1>2, UsageBoundsAssumption DEF LogShape, UsageInit
<1>4. RedisShape
    BY <1>1 DEF RedisShape, UsageInit
<1>5. RowsShape
    BY DEF RowsShape, UsageInit
<1>6. SendingShape
    BY <1>2 DEF SendingShape, UsageInit, Resting, Sent, Done
<1>7. (CHOOSE s \in Servers : TRUE) \in Servers
    BY ServersAssumption
<1>8. SummaryShape
    BY <1>1, <1>7, EmptySeq DEF SummaryShape, UsageInit, NoSummary
<1> QED
    BY <1>3, <1>4, <1>5, <1>6, <1>8 DEF UsageShape

\* The events a table or a thread knows by its place in the log are the same.
LEMMA SendingStays ==
    ASSUME UsageShape, EventsStay, UNCHANGED sending
    PROVE  SendingShape'
<1>1. sending' \in [Trackers -> [event : 0..Len(log'), next : 1..4 \cup {Done}]]
    BY Events1 DEF UsageShape, SendingShape, EventsStay
<1>2. ASSUME NEW t \in Trackers, sending[t].next # Done
      PROVE  Sent(t)' # 0 /\ sending'[t].next <= Len(Commands(EventOf(t))') + 1
    <2>1. Sent(t) # 0 /\ sending[t].next <= Len(Commands(EventOf(t))) + 1
        BY <1>2 DEF UsageShape, SendingShape
    <2>2. Sent(t)' = Sent(t) /\ Sent(t) \in Events
        BY <1>2, CommandsAre DEF Sent
    <2>3. EventOf(t)'.kind = EventOf(t).kind
        BY <2>2 DEF EventOf, EventsStay
    <2>4. Commands(EventOf(t))' = Commands(EventOf(t))
        BY <2>3 DEF Commands
    <2> QED
        BY <2>1, <2>2, <2>4
<1>3. \A t \in Trackers : Sent(t)' # 0 => log'[Sent(t)'].server = ServerOf[t]
    BY Events1 DEF UsageShape, SendingShape, Sent, EventsStay, Events
<1> QED
    BY <1>1, <1>2, <1>3 DEF UsageShape, SendingShape, Sent

LEMMA RowsStay ==
    ASSUME UsageShape, EventsStay, UNCHANGED rows
    PROVE  RowsShape'
BY Events1 DEF UsageShape, RowsShape, EventsStay, Events

LEMMA LogStays ==
    ASSUME UsageShape, EventsStay, Len(log') = Len(log), UNCHANGED clock,
           connected' \in [Servers -> BOOLEAN]
    PROVE  LogShape'
BY Events1 DEF UsageShape, LogShape, EventsStay, Events

LEMMA TrackShape ==
    ASSUME UsageShape, NEW t \in Trackers, Track(t) PROVE UsageShape'
<1>1. /\ EventsStay /\ Len(log') = Len(log) + 1
      /\ log'[Len(log) + 1].at = clock
      /\ Len(log) \in Nat
    BY TrackedStays, Events1
<1>2. LogShape'
    <2>1. ASSUME NEW n \in 1..Len(log') PROVE log'[n].at <= clock
        <3>1. CASE n \in Events
            BY <1>1, <3>1 DEF EventsStay, UsageShape, LogShape
        <3>2. CASE n = Len(log) + 1
            BY <1>1, <3>2 DEF UsageShape, LogShape
        <3> QED
            BY <1>1, <3>1, <3>2 DEF Events
    <2> QED
        BY <1>1, <2>1 DEF UsageShape, LogShape, EventsStay, Track, Events
<1>3. RedisShape'
    BY DEF UsageShape, RedisShape, Track
<1>4. RowsShape'
    BY <1>1, RowsStay DEF Track
<1>5. SendingShape'
    <2> DEFINE new == [event |-> Len(log) + 1,
                       next |-> IF connected[ServerOf[t]] THEN 1 ELSE Done]
    <2>1. sending' = [sending EXCEPT ![t] = new]
        BY DEF Track
    <2>2. \A u \in Trackers : u # t => sending'[u] = sending[u]
        BY <2>1 DEF UsageShape, SendingShape
    <2>3. sending'[t].event = Len(log) + 1 /\ sending'[t].next \in {1, Done}
        BY <2>1 DEF UsageShape, SendingShape
    <2>4. sending' \in [Trackers -> [event : 0..Len(log'), next : 1..4 \cup {Done}]]
        BY <1>1, <2>1 DEF UsageShape, SendingShape
    <2>5. ASSUME NEW u \in Trackers, sending'[u].next # Done
          PROVE  Sent(u)' # 0 /\ sending'[u].next <= Len(Commands(EventOf(u))') + 1
        <3>1. CASE u = t
            <4>1. Len(Commands(EventOf(u))') \in 2..3
                BY DEF Commands
            <4> QED
                BY <1>1, <2>3, <2>5, <3>1, <4>1 DEF Sent
        <3>2. CASE u # t
            <4>1. sending[u].next # Done /\ Sent(u)' = Sent(u)
                BY <2>2, <2>5, <3>2 DEF Sent
            <4>2. Sent(u) \in Events /\ Sent(u) # 0
                  /\ sending[u].next <= Len(Commands(EventOf(u))) + 1
                BY <4>1, CommandsAre DEF UsageShape, SendingShape
            <4>3. EventOf(u)'.kind = EventOf(u).kind
                BY <1>1, <4>1, <4>2 DEF EventOf, EventsStay
            <4>4. Commands(EventOf(u))' = Commands(EventOf(u))
                BY <4>3 DEF Commands
            <4> QED
                BY <2>2, <3>2, <4>1, <4>2, <4>4
        <3> QED
            BY <3>1, <3>2
    <2>6. ASSUME NEW u \in Trackers, NEW v \in Trackers,
                 sending'[u].event = sending'[v].event, sending'[u].event # 0
          PROVE  u = v
        <3>1. \A x \in Trackers : sending[x].event \in 0..Len(log)
            BY DEF UsageShape, SendingShape
        <3>2. u # t /\ v # t => u = v
            BY <2>2, <2>6 DEF UsageShape, SendingShape, Sent
        <3> QED
            BY <1>1, <2>2, <2>3, <2>6, <3>1, <3>2
    <2>7. \A u \in Trackers : Sent(u)' # 0 => log'[Sent(u)'].server = ServerOf[u]
        <3>1. log'[Len(log) + 1].server = ServerOf[t]
            BY TrackedStays
        <3>2. \A u \in Trackers : Sent(u) # 0 =>
                  Sent(u) \in Events /\ log[Sent(u)].server = ServerOf[u]
            BY <1>1 DEF UsageShape, SendingShape, Sent, Events
        <3> QED
            BY <1>1, <2>2, <2>3, <3>1, <3>2 DEF EventsStay, Sent
    <2> QED
        BY <2>4, <2>5, <2>6, <2>7 DEF SendingShape, Sent
<1> QED
    BY <1>2, <1>3, <1>4, <1>5 DEF UsageShape

\* Threads that keep their events or give them up.
LEMMA SendingKept ==
    ASSUME UsageShape, EventsStay,
           sending' \in [Trackers -> [event : 0..Len(log'), next : 1..4 \cup {Done}]],
           \A u \in Trackers : sending'[u].event \in {0, sending[u].event},
           \A u \in Trackers : sending'[u].next # Done =>
               /\ sending'[u].event # 0
               /\ sending'[u].next <= Len(Commands(EventOf(u))) + 1
    PROVE  SendingShape'
<1>1. ASSUME NEW u \in Trackers, sending'[u].next # Done
      PROVE  Sent(u)' # 0 /\ sending'[u].next <= Len(Commands(EventOf(u))') + 1
    <2>1. Sent(u)' # 0 /\ Sent(u)' = Sent(u) /\ Sent(u) \in Events
        BY <1>1, Events1 DEF Sent, UsageShape, SendingShape, Events
    <2>2. EventOf(u)'.kind = EventOf(u).kind
        BY <2>1 DEF EventOf, EventsStay
    <2>3. Commands(EventOf(u))' = Commands(EventOf(u))
        BY <2>2 DEF Commands
    <2> QED
        BY <1>1, <2>1, <2>3
<1>2. \A u, v \in Trackers : Sent(u)' = Sent(v)' /\ Sent(u)' # 0 => u = v
    BY DEF UsageShape, SendingShape, Sent
<1>3. \A t \in Trackers : Sent(t)' # 0 => log'[Sent(t)'].server = ServerOf[t]
    BY Events1 DEF UsageShape, SendingShape, Sent, EventsStay, Events
<1> QED
    BY <1>1, <1>2, <1>3 DEF SendingShape

\* A thread that sends its next command, or stops.
LEMMA SendNextKept ==
    ASSUME UsageShape, EventsStay, NEW t \in Trackers, NEW n \in 1..4 \cup {Done},
           SendNext(t, n), sending[t].next # Done,
           n # Done => n <= Len(Commands(EventOf(t))) + 1
    PROVE  SendingShape'
<1>1. Len(log) \in Nat /\ Len(log') \in Nat /\ Len(log) <= Len(log')
    BY Events1, LenProperties DEF EventsStay
<1>2. /\ sending \in [Trackers -> [event : 0..Len(log'), next : 1..4 \cup {Done}]]
      /\ sending' = [sending EXCEPT ![t].next = n]
    BY <1>1 DEF UsageShape, SendingShape, SendNext
<1>3. /\ sending' \in [Trackers -> [event : 0..Len(log'), next : 1..4 \cup {Done}]]
      /\ \A u \in Trackers : sending'[u].event = sending[u].event
      /\ \A u \in Trackers : u # t => sending'[u] = sending[u]
      /\ sending'[t].next = n
    BY <1>2
<1>4. \A u \in Trackers : sending[u].next # Done =>
          sending[u].event # 0 /\ sending[u].next <= Len(Commands(EventOf(u))) + 1
    BY DEF UsageShape, SendingShape, Sent
<1>5. \A u \in Trackers : sending'[u].next # Done =>
          sending'[u].event # 0 /\ sending'[u].next <= Len(Commands(EventOf(u))) + 1
    BY <1>3, <1>4
<1> QED
    BY <1>3, <1>5, SendingKept

LEMMA CommandShape ==
    ASSUME UsageShape, NEW t \in Trackers,
           RunCommand(t) \/ Executes(t) \/ ExecuteFails(t), EventsStay
    PROVE  UsageShape'
<1>1. sending[t].next # Done /\ Sent(t) \in Events
    BY CommandsAre DEF RunCommand, Executes, ExecuteFails
<1>2. Len(log') = Len(log) /\ UNCHANGED <<clock, rows>>
    BY <1>1, StoredStays DEF RunCommand, Executes, ExecuteFails, Stores
<1>3. connected' \in [Servers -> BOOLEAN]
    BY DEF UsageShape, LogShape, RunCommand, Executes, ExecuteFails
<1>4. RedisShape'
    <2>1. CASE RunCommand(t)
        <3>1. \A g \in HoursOfClock : HourShape(redis'[g])
            BY <2>1, ExecutedIs DEF UsageShape, RedisShape
        <3>2. DOMAIN redis' = HoursOfClock
            BY <2>1, ExecutedIs
        <3>3. \A g \in HoursOfClock : HourShape(redis[g])'
            BY <3>1 DEF HourShape
        <3> QED
            BY <3>2, <3>3 DEF RedisShape
    <2>2. CASE Executes(t) \/ ExecuteFails(t)
        BY <2>2 DEF Executes, ExecuteFails, UsageShape, RedisShape
    <2> QED
        BY <2>1, <2>2
<1>5. SendingShape'
    <2>1. CASE RunCommand(t)
        <3>4. Len(Commands(EventOf(t))) \in 2..3 /\ sending[t].next \in 1..4
            BY <1>1, CommandsAre
        <3>5. sending[t].next <= Len(Commands(EventOf(t)))
            BY <2>1 DEF RunCommand
        <3>1. sending[t].next + 1 \in 1..4
              /\ sending[t].next + 1 <= Len(Commands(EventOf(t))) + 1
            <4> DEFINE a == sending[t].next
                       b == Len(Commands(EventOf(t)))
            <4>1. a \in 1..4 /\ b \in 2..3 /\ a <= b
                BY <3>4, <3>5
            <4> HIDE DEF a, b
            <4>2. a + 1 \in 1..4 /\ a + 1 <= b + 1
                BY <4>1
            <4> QED
                BY <4>2 DEF a, b
        <3> DEFINE n == sending[t].next + 1
        <3>2. SendNext(t, n)
            BY <2>1 DEF RunCommand
        <3>3. n \in 1..4 \cup {Done} /\ n <= Len(Commands(EventOf(t))) + 1
            BY <3>1
        <3> HIDE DEF n
        <3> QED
            BY <1>1, <3>2, <3>3, SendNextKept
    <2>2. CASE Executes(t) \/ ExecuteFails(t)
        BY <1>1, <2>2, SendNextKept DEF Executes, ExecuteFails
    <2> QED
        BY <2>1, <2>2
<1> QED
    BY <1>2, <1>3, <1>4, <1>5, LogStays, RowsStay DEF UsageShape

LEMMA InsertShape ==
    ASSUME UsageShape, NEW t \in Trackers, InsertEvent(t), EventsStay
    PROVE  UsageShape'
<1>1. Sent(t) \in Events
    BY Events1 DEF InsertEvent, UsageShape, SendingShape, Sent, Events
<1>2. Len(log') = Len(log) /\ UNCHANGED <<clock, connected, redis>>
    BY <1>1, StoredStays DEF InsertEvent, Stores
<1>3. LogShape' /\ RedisShape'
    BY <1>2, LogStays DEF UsageShape, LogShape, RedisShape
<1>4. SendingShape'
    <2>1. sending' = [sending EXCEPT ![t] = Resting]
        BY DEF InsertEvent
    <2>2. sending' \in [Trackers -> [event : 0..Len(log'), next : 1..4 \cup {Done}]]
        BY <1>2, <2>1, Events1 DEF UsageShape, SendingShape, Resting
    <2>3. \A u \in Trackers : sending'[u] = Resting \/ sending'[u] = sending[u]
        BY <2>1 DEF UsageShape, SendingShape
    <2>4. \A u \in Trackers : sending'[u].event \in {0, sending[u].event}
        BY <2>3 DEF Resting
    <2>5. \A u \in Trackers : sending'[u].next # Done => sending'[u] = sending[u]
        BY <2>3 DEF Resting
    <2>6. \A u \in Trackers : sending'[u].next # Done =>
               /\ sending'[u].event # 0
               /\ sending'[u].next <= Len(Commands(EventOf(u))) + 1
        BY <2>5 DEF UsageShape, SendingShape, Sent
    <2> QED
        BY <2>2, <2>4, <2>6, SendingKept
<1>5. RowsShape'
    <2>1. CASE UNCHANGED rows
        BY <2>1, RowsStay
    <2>2. CASE rows' = [rows EXCEPT ![ServerOf[t]] = @ \cup {Sent(t)}]
        <3>1. log[Sent(t)].server = ServerOf[t] /\ Len(log) \in Nat
            BY Events1 DEF InsertEvent, UsageShape, SendingShape
        <3>2. \A n \in Events : n \in 1..Len(log') /\ log'[n].server = log[n].server
            BY <1>2, Events1 DEF EventsStay, Events
        <3>3. \A s \in Servers :
                  /\ rows'[s] \subseteq Events
                  /\ \A n \in rows'[s] : log[n].server = s
            BY <1>1, <2>2, <3>1 DEF UsageShape, RowsShape
        <3>4. rows' = [s \in Servers |-> rows'[s]]
            BY <2>2 DEF UsageShape, RowsShape
        <3> QED
            BY <1>2, <3>2, <3>3, <3>4 DEF RowsShape, Events
    <2> QED
        BY <2>1, <2>2 DEF InsertEvent
<1> QED
    BY <1>3, <1>4, <1>5 DEF UsageShape

LEMMA ReplaceShape ==
    ASSUME UsageShape, NEW s \in Servers, ReplaceServer(s)
    PROVE  UsageShape'
<1>1. EventsStay /\ Len(log') = Len(log)
    BY ReplacedStays
<1>2. LogShape'
    BY <1>1, LogStays DEF ReplaceServer, UsageShape, LogShape
<1>3. RedisShape'
    BY DEF ReplaceServer, UsageShape, RedisShape
<1>4. RowsShape'
    <2>1. rows' = [rows EXCEPT ![s] = {}]
        BY DEF ReplaceServer
    <2>2. \A n \in Events : n \in 1..Len(log') /\ log'[n].server = log[n].server
        BY <1>1, Events1 DEF EventsStay, Events
    <2>3. \A r \in Servers :
              /\ rows'[r] \subseteq Events
              /\ \A n \in rows'[r] : log[n].server = r
        BY <2>1 DEF UsageShape, RowsShape
    <2>4. rows' = [r \in Servers |-> rows'[r]]
        BY <2>1 DEF UsageShape, RowsShape
    <2> QED
        BY <1>1, <2>2, <2>3, <2>4 DEF RowsShape, Events
<1>5. SendingShape'
    <2>1. sending' = [t \in Trackers |-> IF ServerOf[t] = s THEN Resting ELSE sending[t]]
        BY DEF ReplaceServer
    <2>2. sending' \in [Trackers -> [event : 0..Len(log'), next : 1..4 \cup {Done}]]
        BY <1>1, <2>1, Events1 DEF UsageShape, SendingShape, Resting
    <2>3. \A u \in Trackers : sending'[u] = Resting \/ sending'[u] = sending[u]
        BY <2>1
    <2>4. \A u \in Trackers : sending'[u].event \in {0, sending[u].event}
        BY <2>3 DEF Resting
    <2>5. \A u \in Trackers : sending'[u].next # Done => sending'[u] = sending[u]
        BY <2>3 DEF Resting
    <2>6. \A u \in Trackers : sending'[u].next # Done =>
               /\ sending'[u].event # 0
               /\ sending'[u].next <= Len(Commands(EventOf(u))) + 1
        BY <2>5 DEF UsageShape, SendingShape, Sent
    <2> QED
        BY <1>1, <2>2, <2>4, <2>6, SendingKept
<1> QED
    BY <1>2, <1>3, <1>4, <1>5 DEF UsageShape

LEMMA ShapeKept == UsageShape /\ UsageNext => UsageShape'
<1> SUFFICES ASSUME UsageShape, UsageNext PROVE UsageShape'
    OBVIOUS
<1>1. EventsStay
    BY UsageEventsStay
<1>2. ASSUME UNCHANGED <<clock, redis, rows, log, sending>>,
             connected' \in [Servers -> BOOLEAN]
      PROVE  UsageShape'
    BY <1>1, <1>2, LogStays, RowsStay, SendingStays DEF UsageShape, RedisShape
<1>3. ASSUME NEW s \in Servers, AskSummary(s) PROVE UsageShape'
    BY <1>2, <1>3 DEF AskSummary, UsageShape, LogShape
<1>4. CASE ReadRedis \/ ReadTable \/ AnswerSummary
    BY <1>2, <1>4 DEF ReadRedis, ReadTable, AnswerSummary, UsageShape, LogShape
<1>5. CASE ReadRedisFails
    BY <1>2, <1>5 DEF ReadRedisFails, UsageShape, LogShape
<1>6. CASE ClockTicks
    <2>1. LogShape'
        BY <1>6, Events1 DEF ClockTicks, UsageShape, LogShape, EventType, Events
    <2> QED
        BY <1>1, <1>6, <2>1, RowsStay, SendingStays DEF ClockTicks, UsageShape, RedisShape
<1> QED
    BY <1>1, <1>3, <1>4, <1>5, <1>6, TrackShape, CommandShape, InsertShape, ReplaceShape
    DEF UsageNext

-----------------------------------------------------------------------------
(* the summary's reads *)

LEMMA SinceIs ==
    ASSUME UsageShape
    PROVE  /\ Since \in Int /\ Since <= clock
           /\ HourOf(clock) \in HoursOfClock
           /\ FirstHour \in 0..HourOf(clock)
           /\ \A n \in Events : log[n].at \in 0..clock
           /\ \A n \in InRedis : HourOf(log[n].at) \in FirstHour..HourOf(clock)
<1>1. PerHour \in Nat \ {0} /\ SummaryHours \in Nat /\ clock \in 0..LastTick
      /\ LastTick \in Nat
    BY PerHourAssumption, SummaryAssumption, UsageBoundsAssumption DEF UsageShape, LogShape
<1>2. SummaryHours * PerHour \in Nat
    BY <1>1
<1>3. Since \in Int /\ Since <= clock
    BY <1>1, <1>2 DEF Since
<1>4. HourOf(clock) \in HoursOfClock /\ HoursOfClock \subseteq Nat
    BY <1>1, HoursOfTimes
<1>8. HourOf(clock) \in Nat
    BY <1>4
<1>5. FirstHour \in 0..HourOf(clock)
    <2>1. CASE Since < 0
        BY <1>8, <2>1 DEF FirstHour
    <2>2. CASE Since >= 0
        <3>1. Since \in 0..LastTick
            BY <1>1, <1>3, <2>2
        <3>2. HourOf(Since) <= HourOf(clock) /\ HourOf(Since) \in Nat
            BY <1>1, <1>3, <3>1, HoursOfTimes
        <3>3. FirstHour = HourOf(Since)
            BY <1>3, <2>2 DEF FirstHour
        <3> QED
            BY <1>8, <3>2, <3>3
    <2> QED
        BY <1>3, <2>1, <2>2
<1>6. \A n \in Events : log[n].at \in 0..clock
    BY <1>1, Events1 DEF EventType, UsageShape, LogShape
<1>7. ASSUME NEW n \in InRedis PROVE HourOf(log[n].at) \in FirstHour..HourOf(clock)
    <2>1. n \in Events /\ HourOf(log[n].at) >= HourOf(Since)
        BY <1>7, Events1 DEF InRedis
    <2>2. log[n].at \in 0..LastTick /\ log[n].at <= clock
        BY <1>1, <1>6, <2>1
    <2>3. HourOf(log[n].at) \in Nat /\ HourOf(log[n].at) <= HourOf(clock)
        BY <1>1, <1>4, <2>2, HoursOfTimes
    <2>4. FirstHour = 0 \/ FirstHour = HourOf(Since)
        BY DEF FirstHour
    <2> QED
        BY <1>4, <1>5, <2>1, <2>3, <2>4
<1> QED
    BY <1>3, <1>4, <1>5, <1>6, <1>7

LEMMA ReadsAre ==
    ASSUME UsageShape
    PROVE  /\ RedisReads \in Seq(HoursOfClock \X FieldSet)
           /\ \A i, j \in DOMAIN RedisReads : RedisReads[i] = RedisReads[j] => i = j
           /\ \A h \in FirstHour..HourOf(clock), f \in FieldSet :
                 \E j \in DOMAIN RedisReads : RedisReads[j] = <<h, f>>
<1> DEFINE a == FirstHour
           b == HourOf(clock)
           n == 3 * (b - a + 1)
           r(i) == <<a + (i - 1) \div 3, Fields[((i - 1) % 3) + 1]>>
<1>1. RedisReads = [i \in 1..n |-> r(i)]
    BY DEF RedisReads
<1>2. b \in HoursOfClock /\ b \in Nat /\ a \in 0..b
    BY SinceIs, HoursOfTimes
<1>3. \A h \in a..b : h \in HoursOfClock
    BY <1>2, HoursOfTimes DEF HoursOfClock
<1> HIDE DEF a, b
<1>4. n \in Nat
    BY <1>2
<1>5. ASSUME NEW i \in 1..n
      PROVE  /\ (i - 1) \div 3 \in 0..(b - a) /\ (i - 1) % 3 \in 0..2
             /\ i - 1 = 3 * ((i - 1) \div 3) + ((i - 1) % 3)
    BY <1>2
<1>6. \A m \in 0..2 : Fields[m + 1] \in FieldSet
    BY DEF Fields, FieldSet
<1>7. \A m, l \in 0..2 : Fields[m + 1] = Fields[l + 1] => m = l
    BY DEF Fields
<1>8. \A i \in 1..n : r(i) \in HoursOfClock \X FieldSet
    <2> SUFFICES ASSUME NEW i \in 1..n PROVE r(i) \in HoursOfClock \X FieldSet
        OBVIOUS
    <2>1. a + (i - 1) \div 3 \in HoursOfClock
        BY <1>2, <1>3, <1>5
    <2> QED
        BY <1>5, <1>6, <2>1
<1>9. \A i, j \in 1..n : r(i) = r(j) => i = j
    <2> SUFFICES ASSUME NEW i \in 1..n, NEW j \in 1..n, r(i) = r(j) PROVE i = j
        OBVIOUS
    <2>1. a + (i - 1) \div 3 = a + (j - 1) \div 3
          /\ Fields[((i - 1) % 3) + 1] = Fields[((j - 1) % 3) + 1]
        OBVIOUS
    <2>2. (i - 1) % 3 = (j - 1) % 3
        BY <1>5, <1>7, <2>1
    <2> QED
        BY <1>2, <1>5, <2>1, <2>2
<1>10. \A h \in a..b, f \in FieldSet : \E j \in 1..n : r(j) = <<h, f>>
    <2> SUFFICES ASSUME NEW h \in a..b, NEW f \in FieldSet
                 PROVE  \E j \in 1..n : r(j) = <<h, f>>
        OBVIOUS
    <2>1. PICK m \in 0..2 : Fields[m + 1] = f
        <3>1. Fields[0 + 1] = "events" /\ Fields[1 + 1] = "hosts" /\ Fields[2 + 1] = "failures"
            BY DEF Fields
        <3> QED
            BY <3>1 DEF FieldSet
    <2> DEFINE j == 3 * (h - a) + m + 1
    <2>2. j \in 1..n /\ (j - 1) \div 3 = h - a /\ (j - 1) % 3 = m
        BY <1>2
    <2>3. r(j) = <<h, f>>
        BY <1>2, <2>1, <2>2
    <2> QED
        BY <2>2, <2>3
<1> HIDE DEF r, n
<1>11. RedisReads \in Seq(HoursOfClock \X FieldSet) /\ DOMAIN RedisReads = 1..n
    BY <1>1, <1>4, <1>8
<1> QED
    BY <1>1, <1>9, <1>10, <1>11 DEF a, b

\* Sets of events are finite.
LEMMA PartOfEvents ==
    ASSUME UsageShape, NEW S \in SUBSET Events
    PROVE  /\ IsFiniteSet(S) /\ Cardinality(S) \in Nat
           /\ Cardinality(S) <= Len(log)
           /\ \A T \in SUBSET S : IsFiniteSet(T) /\ Cardinality(T) \in Nat
                                  /\ Cardinality(T) <= Cardinality(S)
<1>1. Len(log) \in Nat
    BY Events1
<1>2. IsFiniteSet(Events) /\ Cardinality(Events) = Len(log)
    BY <1>1, FS_Interval DEF Events
<1>3. \A X \in SUBSET Events :
          IsFiniteSet(X) /\ Cardinality(X) \in Nat /\ Cardinality(X) <= Len(log)
    BY <1>2, FS_Subset, FS_CardinalityType, Zenon
<1>4. \A T \in SUBSET S : IsFiniteSet(T) /\ Cardinality(T) <= Cardinality(S)
    BY <1>3, FS_Subset, Zenon
<1> QED
    BY <1>3, <1>4, FS_CardinalityType, Zenon

LEMMA CountOfBoth ==
    ASSUME NEW S, NEW T, IsFiniteSet(S), IsFiniteSet(T), S \cap T = {}
    PROVE  Cardinality(S \cup T) = Cardinality(S) + Cardinality(T)
<1>1. Cardinality(S \cup T) = Cardinality(S) + Cardinality(T) - Cardinality(S \cap T)
    BY FS_Union
<1>2. Cardinality(S \cap T) = 0
    BY FS_EmptySet
<1>3. Cardinality(S) \in Nat /\ Cardinality(T) \in Nat
    BY FS_CardinalityType
<1> QED
    BY <1>1, <1>2, <1>3

LEMMA FailuresReadIs ==
    ASSUME NEW list, IsList(list), NEW since
    PROVE  /\ IsList(FailuresRead(list, since))
           /\ Len(FailuresRead(list, since)) <= Len(list)
           /\ Len(FailuresRead(list, since)) \in Nat
<1> DEFINE last == 2 * SummaryLimit + 1
           m == Lesser(last, Len(list))
           places == {i \in 1..m : list[i] >= since}
           read == InOrder(places, LAMBDA i, j : i < j)
           n == Cardinality(places)
<1>1. Len(list) \in Nat /\ last \in Nat
    BY ListLength, SummaryAssumption
<1> HIDE DEF last
<1>2. m \in Nat /\ m <= Len(list)
    BY <1>1 DEF Lesser
<1> HIDE DEF m
<1>3. n \in Nat /\ n <= Len(list)
    <2>1. IsFiniteSet(1..m) /\ Cardinality(1..m) = m /\ places \in SUBSET (1..m)
        BY <1>2, FS_Interval
    <2> HIDE DEF places
    <2>2. IsFiniteSet(places) /\ n <= m
        BY <2>1, FS_Subset
    <2>3. n \in Nat
        BY <2>2, FS_CardinalityType
    <2> QED
        BY <1>1, <1>2, <2>2, <2>3
<1>4. FailuresRead(list, since) = [i \in 1..n |-> list[read[i]]]
    BY DEF FailuresRead, m, last
<1> DEFINE f == FailuresRead(list, since)
<1> HIDE DEF n, read, f
<1>5. f = [i \in 1..n |-> f[i]]
    BY <1>4 DEF f
<1> QED
    BY <1>1, <1>3, <1>5, ListOfFunction DEF f

\* What reading an hour adds.
LEMMA EventsAdded ==
    ASSUME NEW got, NEW hour, HourShape(got), HourShape(hour), NEW since,
           NEW x, x = Added(got, hour, "events", since)
    PROVE  /\ HourShape(x) /\ x.hosts = got.hosts /\ x.failures = got.failures
           /\ \A k \in Kinds : x.events[k] = got.events[k] + hour.events[k]
<1> DEFINE ev == [k \in Kinds |-> got.events[k] + hour.events[k]]
<1>1. ev \in [Kinds -> Nat]
    BY DEF HourShape
<1>2. x
        = [events |-> ev, hosts |-> got.hosts, failures |-> got.failures]
    BY DEF Added, HourShape
<1> QED
    BY <1>1, <1>2 DEF HourShape

LEMMA HostsAdded ==
    ASSUME NEW got, NEW hour, HourShape(got), HourShape(hour), NEW since,
           NEW x, x = Added(got, hour, "hosts", since)
    PROVE  /\ HourShape(x) /\ x.events = got.events /\ x.failures = got.failures
           /\ x.hosts = got.hosts + hour.hosts
<1>1. x
        = [events |-> got.events, hosts |-> got.hosts + hour.hosts,
           failures |-> got.failures]
    BY DEF Added, HourShape
<1> QED
    BY <1>1 DEF HourShape

LEMMA FailuresAdded ==
    ASSUME NEW got, NEW hour, HourShape(got), HourShape(hour), NEW since,
           NEW x, x = Added(got, hour, "failures", since)
    PROVE  /\ HourShape(x) /\ x.events = got.events /\ x.hosts = got.hosts
           /\ Len(x.failures) <= Len(got.failures) + Len(hour.failures)
<1> DEFINE read == FailuresRead(hour.failures, since)
           l == got.failures \o read
<1>1. /\ IsList(read) /\ Len(read) <= Len(hour.failures) /\ Len(read) \in Nat
      /\ Len(hour.failures) \in Nat /\ Len(got.failures) \in Nat
    BY FailuresReadIs, ListLength DEF HourShape
<1>2. IsList(l) /\ Len(l) = Len(got.failures) + Len(read)
    BY <1>1, ListConcat DEF HourShape
<1>3. x
        = [events |-> got.events, hosts |-> got.hosts, failures |-> l]
    BY DEF Added, HourShape
<1>4. Len(l) <= Len(got.failures) + Len(hour.failures)
    BY <1>1, <1>2
<1> HIDE DEF l, read
<1> QED
    BY <1>2, <1>3, <1>4 DEF HourShape

\* What a query of the table finds.
LEMMA QueriedIs ==
    ASSUME UsageShape, SummaryShape
    PROVE  LET got == summary.got
           IN  /\ \A k \in Kinds : Selected(k) \subseteq Events
               /\ LET x == Queried(got, "events")
                  IN  /\ HourShape(x) /\ x.hosts = got.hosts /\ x.failures = got.failures
                      /\ \A k \in Kinds : x.events[k] = Cardinality(Selected(k))
               /\ LET x == Queried(got, "hosts")
                  IN  /\ HourShape(x) /\ x.events = got.events
                      /\ x.failures = got.failures
                      /\ x.hosts = Cardinality(Selected("page_view"))
               /\ LET x == Queried(got, "failures")
                  IN  /\ HourShape(x) /\ x.events = got.events /\ x.hosts = got.hosts
                      /\ Len(x.failures) <= Cardinality(Selected("search_user_failed"))
<1> DEFINE got == summary.got
<1>1. \A k \in Kinds : Selected(k) \subseteq Events
    BY DEF Selected, UsageShape, RowsShape, SummaryShape
<1>2. \A k \in Kinds : Cardinality(Selected(k)) \in Nat
    BY <1>1, PartOfEvents
<1>3. "page_view" \in Kinds /\ "search_user_failed" \in Kinds
    BY DEF Kinds
<1>4. HourShape(got)
    BY DEF SummaryShape
<1> HIDE DEF got
<1>5. LET x == Queried(got, "events")
      IN  /\ HourShape(x) /\ x.hosts = got.hosts /\ x.failures = got.failures
          /\ \A k \in Kinds : x.events[k] = Cardinality(Selected(k))
    <2> DEFINE ev == [k \in Kinds |-> Cardinality(Selected(k))]
    <2>1. ev \in [Kinds -> Nat]
        BY <1>2
    <2>2. Queried(got, "events")
            = [events |-> ev, hosts |-> got.hosts, failures |-> got.failures]
        BY <1>4 DEF Queried, HourShape
    <2> QED
        BY <1>4, <2>1, <2>2 DEF HourShape
<1>6. LET x == Queried(got, "hosts")
      IN  /\ HourShape(x) /\ x.events = got.events
          /\ x.failures = got.failures
          /\ x.hosts = Cardinality(Selected("page_view"))
    <2>1. Queried(got, "hosts")
            = [events |-> got.events, hosts |-> Cardinality(Selected("page_view")),
               failures |-> got.failures]
        BY <1>4 DEF Queried, HourShape
    <2> QED
        BY <1>2, <1>3, <1>4, <2>1 DEF HourShape
<1>7. LET x == Queried(got, "failures")
      IN  /\ HourShape(x) /\ x.events = got.events /\ x.hosts = got.hosts
          /\ Len(x.failures) <= Cardinality(Selected("search_user_failed"))
    <2> DEFINE S == Selected("search_user_failed")
               found == NewestFirst(S)
               n == Lesser(SummaryLimit, Len(found))
               l == [i \in 1..n |-> log[found[i]].at]
    <2>1. Cardinality(S) \in Nat
        BY <1>2, <1>3
    <2> HIDE DEF S
    <2>2. Len(found) = Cardinality(S)
        BY <2>1 DEF NewestFirst, InOrder
    <2>3. n \in Nat /\ n <= Cardinality(S)
        BY <2>1, <2>2, SummaryAssumption DEF Lesser
    <2>4. Queried(got, "failures")
            = [events |-> got.events, hosts |-> got.hosts, failures |-> l]
        BY <1>4 DEF Queried, HourShape, S
    <2> HIDE DEF n, found
    <2>5. l = [i \in 1..n |-> l[i]]
        OBVIOUS
    <2> HIDE DEF l
    <2>6. IsList(l) /\ Len(l) = n
        BY <2>3, <2>5, ListOfFunction
    <2> QED
        BY <1>4, <2>3, <2>4, <2>6 DEF HourShape, S
<1> QED
    BY <1>1, <1>5, <1>6, <1>7 DEF got

-----------------------------------------------------------------------------
(* the shape of the summary *)

LEMMA NoneIsShaped ==
    /\ HourShape(EmptyHour)
    /\ NoSummary.server \in Servers
<1>1. IsList(<<>>)
    BY EmptySeq DEF IsList
<1> QED
    BY <1>1, ServersAssumption DEF HourShape, EmptyHour, NoSummary

LEMMA SummaryStays ==
    ASSUME UsageShape, SummaryShape, EventsStay, UNCHANGED summary
    PROVE  SummaryShape'
<1>1. summary.floor \subseteq 1..Len(log')
    BY Events1 DEF SummaryShape, EventsStay, Events
<1> QED
    BY <1>1 DEF SummaryShape, Events, HourShape, IsList

LEMMA SummaryEnds ==
    ASSUME summary' = NoSummary PROVE SummaryShape'
BY NoneIsShaped, EmptySeq DEF SummaryShape, NoSummary, HourShape, IsList

LEMMA BegunShape ==
    ASSUME UsageShape, UNCHANGED log, NEW s \in Servers,
           summary' = FromRedis(s) \/ summary' = FromTable(s)
    PROVE  SummaryShape'
<1>1. Since \in Int
    BY SinceIs
<1>2. CASE summary' = FromRedis(s)
    <2>1. RedisReads \in Seq(HoursOfClock \X FieldSet)
        BY ReadsAre
    <2>2. InRedis \subseteq 1..Len(log')
        BY Events1 DEF InRedis, Events
    <2> QED
        BY <1>1, <1>2, <2>1, <2>2, NoneIsShaped
        DEF SummaryShape, FromRedis, Stores, Events, HourShape, IsList
<1>3. CASE summary' = FromTable(s)
    <2> DEFINE reads == [i \in 1..3 |-> <<0, Fields[i]>>]
    <2>1. reads \in Seq(HoursOfClock \X FieldSet)
        <3>1. 0 \in HoursOfClock
            BY HoursOfTimes DEF HoursOfClock
        <3>2. \A i \in 1..3 : Fields[i] \in FieldSet
            BY DEF Fields, FieldSet
        <3> QED
            BY <3>1, <3>2
    <2>2. InTable(s) \subseteq 1..Len(log')
        BY DEF InTable, UsageShape, RowsShape, Events
    <2>3. summary' = [server |-> s, source |-> "sqlite", since |-> Since, left |-> reads,
                      floor |-> InTable(s), got |-> EmptyHour]
        BY <1>3 DEF FromTable
    <2> HIDE DEF reads
    <2> QED
        BY <1>1, <2>1, <2>2, <2>3, NoneIsShaped
        DEF SummaryShape, Stores, Events, HourShape, IsList
<1> QED
    BY <1>2, <1>3

\* The fields of a summary whose next read has been made.
ReadOn(got) ==
    /\ summary.left # <<>>
    /\ summary'.server = summary.server /\ summary'.source = summary.source
    /\ summary'.since = summary.since /\ summary'.floor = summary.floor
    /\ summary'.left = Tail(summary.left) /\ summary'.got = got
    /\ Head(summary.left) \in HoursOfClock \X FieldSet

LEMMA ReadShape ==
    ASSUME UsageShape, SummaryShape, ReadRedis \/ ReadTable
    PROVE  /\ SummaryShape'
           /\ ReadRedis =>
                 LET read == Head(summary.left)
                 IN  ReadOn(Added(summary.got, redis[read[1]], read[2], summary.since))
           /\ ReadTable => ReadOn(Queried(summary.got, Head(summary.left)[2]))
<1> DEFINE read == Head(summary.left)
           x == IF summary.source = "redis"
                THEN Added(summary.got, redis[read[1]], read[2], summary.since)
                ELSE Queried(summary.got, read[2])
<1>1. /\ summary.left # <<>> /\ summary.source # "none" /\ log' = log
      /\ summary' = [summary EXCEPT !.left = Tail(summary.left), !.got = x]
      /\ ReadRedis => summary.source = "redis"
      /\ ReadTable => summary.source = "sqlite"
    BY DEF ReadRedis, ReadTable
<1>2. /\ read \in HoursOfClock \X FieldSet
      /\ Tail(summary.left) \in Seq(HoursOfClock \X FieldSet)
    BY <1>1, HeadTailProperties DEF SummaryShape
<1>3. HourShape(x)
    <2>1. HourShape(redis[read[1]]) /\ HourShape(summary.got)
        BY <1>2 DEF UsageShape, RedisShape, SummaryShape
    <2>2. read[2] \in FieldSet
        BY <1>2
    <2> QED
        BY <2>1, <2>2, EventsAdded, HostsAdded, FailuresAdded, QueriedIs DEF FieldSet
<1> HIDE DEF x
<1>4. /\ summary' = [server |-> summary.server, source |-> summary.source,
                     since |-> summary.since, left |-> Tail(summary.left),
                     floor |-> summary.floor, got |-> x]
    BY <1>1 DEF SummaryShape
<1>5. SummaryShape'
    BY <1>1, <1>2, <1>3, <1>4 DEF SummaryShape, Events, HourShape, IsList
<1>6. ReadOn(x)
    BY <1>1, <1>2, <1>4 DEF ReadOn
<1> QED
    BY <1>1, <1>5, <1>6 DEF x

LEMMA SummaryShapeKept ==
    ASSUME UsageShape, SummaryShape, UsageNext
    PROVE  SummaryShape'
<1>1. EventsStay
    BY UsageEventsStay
<1>2. UNCHANGED summary => SummaryShape'
    BY <1>1, SummaryStays
<1>3. ASSUME NEW t \in Trackers,
             Track(t) \/ RunCommand(t) \/ Executes(t) \/ ExecuteFails(t) \/ InsertEvent(t)
      PROVE  SummaryShape'
    BY <1>2, <1>3 DEF Track, RunCommand, Executes, ExecuteFails, InsertEvent
<1>4. ASSUME NEW s \in Servers, AskSummary(s) PROVE SummaryShape'
    BY <1>4, BegunShape DEF AskSummary
<1>5. ASSUME NEW s \in Servers, ReplaceServer(s) PROVE SummaryShape'
    BY <1>2, <1>5, SummaryEnds DEF ReplaceServer
<1>6. CASE ReadRedisFails
    <2>1. summary.server \in Servers
        BY DEF SummaryShape
    <2> QED
        BY <1>6, <2>1, BegunShape DEF ReadRedisFails
<1>7. CASE AnswerSummary
    BY <1>7, SummaryEnds DEF AnswerSummary
<1>8. CASE ClockTicks
    BY <1>2, <1>8 DEF ClockTicks
<1> QED
    BY <1>3, <1>4, <1>5, <1>6, <1>7, <1>8, ReadShape DEF UsageNext

-----------------------------------------------------------------------------
(* what Redis has counted *)

\* Sets of known events are split by hour and kind as before.
LEMMA SplitStays ==
    ASSUME UsageShape, EventsStay, NEW S \in SUBSET Events
    PROVE  /\ \A h \in HoursOfClock : Slice(S, h)' = Slice(S, h) /\ Slice(S, h) \subseteq S
           /\ \A k \in Kinds : OfKind(S, k)' = OfKind(S, k) /\ OfKind(S, k) \subseteq S
           /\ S \subseteq 1..Len(log')
<1>0. Len(log) \in Nat /\ Len(log') \in Nat /\ Len(log) <= Len(log')
    BY Events1, LenProperties DEF EventsStay
<1>4. Events \subseteq 1..Len(log')
    BY <1>0 DEF Events
<1>5. \A n \in S : log'[n].at = log[n].at /\ log'[n].kind = log[n].kind
    BY DEF EventsStay
<1>1. /\ Events \subseteq 1..Len(log')
      /\ \A n \in S : log'[n].at = log[n].at /\ log'[n].kind = log[n].kind
    BY <1>4, <1>5
<1>2. \A h \in HoursOfClock : Slice(S, h)' = Slice(S, h) /\ Slice(S, h) \subseteq S
    BY <1>1 DEF Slice, HourOf
<1>3. \A k \in Kinds : OfKind(S, k)' = OfKind(S, k) /\ OfKind(S, k) \subseteq S
    BY <1>1 DEF OfKind
<1> QED
    BY <1>1, <1>2, <1>3

LEMMA RedisFrame ==
    ASSUME UsageShape, EventsStay, UNCHANGED redis,
           NEW c \in [FieldSet -> SUBSET Events], CountedInRedis(c),
           \A n \in 1..Len(log') : "redis" \in log'[n].stored => n \in c["events"],
           \A t \in Trackers : sending'[t].next # Done =>
               /\ sending'[t].event \in c["events"] <=> sending'[t].next # 1
               /\ sending'[t].next \in 1..2 =>
                     sending'[t].event \notin c["hosts"] \cup c["failures"]
    PROVE  RedisCounts'
<1>1. \A f \in FieldSet : c[f] \in SUBSET Events
    OBVIOUS
<1>2. c \in [FieldSet -> SUBSET (1..Len(log'))]
    BY <1>1, SplitStays
<1>3. ASSUME NEW h \in HoursOfClock
      PROVE  /\ \A k \in Kinds :
                   redis'[h].events[k] = Cardinality(OfKind(Slice(c["events"], h), k)')
             /\ redis'[h].hosts = Cardinality(Slice(c["hosts"], h)')
             /\ Len(redis'[h].failures) <= Cardinality(Slice(c["failures"], h)')
    <2>1. \A f \in FieldSet : Slice(c[f], h)' = Slice(c[f], h) /\ Slice(c[f], h) \in SUBSET Events
        BY <1>1, SplitStays
    <2>2. "events" \in FieldSet /\ "hosts" \in FieldSet /\ "failures" \in FieldSet
        BY DEF FieldSet
    <2>3. \A k \in Kinds :
              OfKind(Slice(c["events"], h), k)' = OfKind(Slice(c["events"], h), k)
        <3> DEFINE S == Slice(c["events"], h)
        <3>1. S' = S /\ S \in SUBSET Events
            BY <2>1, <2>2
        <3>2. \A n \in S : log'[n].kind = log[n].kind
            BY <3>1 DEF EventsStay
        <3> HIDE DEF S
        <3> QED
            BY <3>1, <3>2 DEF OfKind, S
    <2> QED
        BY <2>1, <2>2, <2>3 DEF CountedInRedis
<1>4. \A n \in c["hosts"] : log'[n].kind = "page_view"
    <2>1. c["hosts"] \in SUBSET Events
        BY <1>1 DEF FieldSet
    <2> QED
        BY <2>1 DEF CountedInRedis, EventsStay
<1>5. CountedInRedis(c)'
    BY <1>3, <1>4 DEF CountedInRedis, Sent, Events
<1> QED
    BY <1>2, <1>5 DEF RedisCounts, Events

\* One event more counts one more in its hour and its kind.
LEMMA OneMore ==
    ASSUME UsageShape, NEW S \in SUBSET Events, NEW n \in Events \ S
    PROVE  LET T == S \cup {n}
           IN  /\ \A h \in HoursOfClock, k \in Kinds :
                     Cardinality(OfKind(Slice(T, h), k))
                       = Cardinality(OfKind(Slice(S, h), k))
                         + IF h = HourOf(log[n].at) /\ k = log[n].kind THEN 1 ELSE 0
               /\ \A h \in HoursOfClock :
                     Cardinality(Slice(T, h))
                       = Cardinality(Slice(S, h)) + IF h = HourOf(log[n].at) THEN 1 ELSE 0
<1> DEFINE T == S \cup {n}
<1>1. ASSUME NEW A \in SUBSET S, NEW B, B = A \cup {n}
      PROVE  Cardinality(B) = Cardinality(A) + 1
    <2>1. IsFiniteSet(A) /\ n \notin A
        BY PartOfEvents
    <2> QED
        BY <1>1, <2>1, FS_AddElement
<1>2. ASSUME NEW A \in SUBSET S PROVE Cardinality(A) = Cardinality(A) + 0
    <2>1. Cardinality(A) \in Nat
        BY PartOfEvents
    <2> QED
        BY <2>1
<1>3. ASSUME NEW h \in HoursOfClock
      PROVE  Cardinality(Slice(T, h))
               = Cardinality(Slice(S, h)) + IF h = HourOf(log[n].at) THEN 1 ELSE 0
    <2>1. Slice(S, h) \in SUBSET S
        BY DEF Slice
    <2>2. CASE h = HourOf(log[n].at)
        <3>1. Slice(T, h) = Slice(S, h) \cup {n}
            BY <2>2 DEF Slice
        <3> HIDE DEF T
        <3> QED
            BY <1>1, <2>1, <2>2, <3>1
    <2>3. CASE h # HourOf(log[n].at)
        <3>1. Slice(T, h) = Slice(S, h)
            BY <2>3 DEF Slice
        <3> HIDE DEF T
        <3> QED
            BY <1>2, <2>1, <2>3, <3>1
    <2> QED
        BY <2>2, <2>3
<1>4. ASSUME NEW h \in HoursOfClock, NEW k \in Kinds
      PROVE  Cardinality(OfKind(Slice(T, h), k))
               = Cardinality(OfKind(Slice(S, h), k))
                 + IF h = HourOf(log[n].at) /\ k = log[n].kind THEN 1 ELSE 0
    <2>1. OfKind(Slice(S, h), k) \in SUBSET S
        BY DEF Slice, OfKind
    <2>2. CASE h = HourOf(log[n].at) /\ k = log[n].kind
        <3>1. OfKind(Slice(T, h), k) = OfKind(Slice(S, h), k) \cup {n}
            BY <2>2 DEF Slice, OfKind
        <3> HIDE DEF T
        <3> QED
            BY <1>1, <2>1, <2>2, <3>1
    <2>3. CASE ~(h = HourOf(log[n].at) /\ k = log[n].kind)
        <3>1. OfKind(Slice(T, h), k) = OfKind(Slice(S, h), k)
            BY <2>3 DEF Slice, OfKind
        <3> HIDE DEF T
        <3> QED
            BY <1>2, <2>1, <2>3, <3>1
    <2> QED
        BY <2>2, <2>3
<1> QED
    BY <1>3, <1>4

\* A command counts its event, which it had not counted, or counts nothing.
LEMMA CommandCounts ==
    ASSUME UsageShape, RedisCounts, NEW t \in Trackers, RunCommand(t)
    PROVE  RedisCounts'
<1>1. PICK c \in [FieldSet -> SUBSET Events] : CountedInRedis(c)
    BY DEF RedisCounts
<1> DEFINE n == Sent(t)
           x == sending[t].next
           e == EventOf(t)
           h == HourOf(e.at)
           f == IF x = 1 THEN "events"
                ELSE IF x # 2 THEN "none"
                ELSE IF e.kind = "page_view" THEN "hosts" ELSE "failures"
           counted == [g \in FieldSet |-> IF g = f THEN c[g] \cup {n} ELSE c[g]]
<1>21. PICK d : d = counted
    OBVIOUS
<1>2. /\ x # Done /\ UNCHANGED <<log>> /\ SendNext(t, x + 1)
      /\ n \in Events /\ e = log[n] /\ h \in HoursOfClock /\ e.kind \in Kinds /\ x \in 1..4
    BY CommandsAre DEF RunCommand, EventOf
<1>3. /\ n \in c["events"] <=> x # 1
      /\ x \in 1..2 => n \notin c["hosts"] \cup c["failures"]
    BY <1>1, <1>2 DEF CountedInRedis
<1>4. /\ \A u \in Trackers : u # t => sending'[u] = sending[u]
      /\ sending'[t].event = n /\ sending'[t].next = x + 1
    BY <1>2 DEF SendNext, UsageShape, SendingShape, Sent
<1>5. \A u \in Trackers : u # t /\ sending[u].next # Done => Sent(u) # n
    BY <1>2, CommandsAre DEF UsageShape, SendingShape
<1>6. /\ \A g \in HoursOfClock : g # h => redis'[g] = redis[g]
      /\ x = 1 =>
            /\ redis'[h].events = [redis[h].events EXCEPT ![e.kind] = @ + 1]
            /\ redis'[h].hosts = redis[h].hosts
            /\ redis'[h].failures = redis[h].failures
      /\ x # 1 => redis'[h].events = redis[h].events
      /\ x = 2 /\ e.kind = "page_view" =>
            /\ redis'[h].hosts = redis[h].hosts + 1
            /\ redis'[h].failures = redis[h].failures
      /\ x = 2 /\ e.kind # "page_view" =>
            /\ redis'[h].hosts = redis[h].hosts
            /\ Len(redis'[h].failures) = Len(redis[h].failures) + 1
      /\ x \notin 1..2 =>
            /\ redis'[h].hosts = redis[h].hosts
            /\ Len(redis'[h].failures) <= Len(redis[h].failures)
    BY ExecutedIs
<1>7. \A g \in FieldSet : c[g] \in SUBSET Events
    OBVIOUS
<1>8. \A g \in HoursOfClock :
          /\ redis[g].events \in [Kinds -> Nat] /\ redis[g].hosts \in Nat
          /\ Len(redis[g].failures) \in Nat
    BY ListLength DEF UsageShape, RedisShape, HourShape
<1>9. \A g \in HoursOfClock :
          /\ Len(redis'[g].failures) \in Nat
          /\ \A k \in Kinds : Cardinality(OfKind(Slice(c["events"], g), k)) \in Nat
          /\ Cardinality(Slice(c["hosts"], g)) \in Nat
          /\ Cardinality(Slice(c["failures"], g)) \in Nat
    <2>1. \A g \in HoursOfClock : HourShape(redis'[g])
        BY <1>6, ExecutedIs DEF UsageShape, RedisShape
    <2>2. \A S \in SUBSET Events, g \in HoursOfClock :
              /\ Slice(S, g) \in SUBSET Events
              /\ \A k \in Kinds : OfKind(Slice(S, g), k) \in SUBSET Events
        BY DEF Slice, OfKind
    <2> QED
        BY <1>7, <2>1, <2>2, PartOfEvents, ListLength DEF HourShape, FieldSet
<1>10. d \in [FieldSet -> SUBSET (1..Len(log'))]
    BY <1>2, <1>7, <1>21 DEF Events
<1>11. f = "hosts" => e.kind = "page_view"
    OBVIOUS
<1>12. /\ d["events"] = IF f = "events" THEN c["events"] \cup {n} ELSE c["events"]
       /\ d["hosts"] = IF f = "hosts" THEN c["hosts"] \cup {n} ELSE c["hosts"]
       /\ d["failures"] = IF f = "failures" THEN c["failures"] \cup {n} ELSE c["failures"]
    BY <1>21 DEF FieldSet
<1>13. /\ f = "events" => x = 1 /\ n \notin c["events"]
       /\ f = "hosts" => x = 2 /\ n \notin c["hosts"] /\ e.kind = "page_view"
       /\ f = "failures" => x = 2 /\ n \notin c["failures"] /\ e.kind # "page_view"
       /\ x = 1 => f = "events"
       /\ x = 2 /\ e.kind = "page_view" => f = "hosts"
       /\ x = 2 /\ e.kind # "page_view" => f = "failures"
       /\ f \notin FieldSet => x \notin 1..2
    BY <1>2, <1>3 DEF FieldSet
<1> HIDE DEF counted, f, h, e, n, x
<1>14. ASSUME NEW g \in HoursOfClock, NEW k \in Kinds
       PROVE  redis'[g].events[k] = Cardinality(OfKind(Slice(d["events"], g), k)')
    <2>1. redis[g].events[k] = Cardinality(OfKind(Slice(c["events"], g), k))
        BY <1>1 DEF CountedInRedis
    <2>2. OfKind(Slice(d["events"], g), k)' = OfKind(Slice(d["events"], g), k)
        BY <1>2 DEF OfKind, Slice
    <2>3. CASE f = "events"
        <3>1. /\ redis'[g].events[k]
                   = redis[g].events[k] + IF g = h /\ k = e.kind THEN 1 ELSE 0
            BY <1>2, <1>6, <1>8, <1>13, <2>3
        <3>2. Cardinality(OfKind(Slice(c["events"] \cup {n}, g), k))
                = Cardinality(OfKind(Slice(c["events"], g), k))
                  + IF g = h /\ k = e.kind THEN 1 ELSE 0
            BY <1>2, <1>7, <1>13, <2>3, OneMore DEF h, FieldSet
        <3> QED
            BY <1>12, <2>1, <2>2, <2>3, <3>1, <3>2
    <2>4. CASE f # "events"
        BY <1>6, <1>12, <1>13, <2>1, <2>2, <2>4
    <2> QED
        BY <2>3, <2>4
<1>15. ASSUME NEW g \in HoursOfClock
       PROVE  redis'[g].hosts = Cardinality(Slice(d["hosts"], g)')
    <2>1. redis[g].hosts = Cardinality(Slice(c["hosts"], g))
        BY <1>1 DEF CountedInRedis
    <2>2. Slice(d["hosts"], g)' = Slice(d["hosts"], g)
        BY <1>2 DEF Slice
    <2>3. CASE f = "hosts"
        <3>1. redis'[g].hosts = redis[g].hosts + IF g = h THEN 1 ELSE 0
            BY <1>6, <1>8, <1>13, <2>3
        <3>2. Cardinality(Slice(c["hosts"] \cup {n}, g))
                = Cardinality(Slice(c["hosts"], g)) + IF g = h THEN 1 ELSE 0
            <4>1. c["hosts"] \in SUBSET Events /\ n \in Events \ c["hosts"]
                BY <1>2, <1>7, <1>13, <2>3 DEF FieldSet
            <4>2. h = HourOf(log[n].at)
                BY <1>2 DEF h
            <4> QED
                BY <4>1, <4>2, OneMore
        <3> QED
            BY <1>12, <2>1, <2>2, <2>3, <3>1, <3>2
    <2>4. CASE f # "hosts"
        <3>1. redis'[g].hosts = redis[g].hosts
            BY <1>2, <1>6, <1>13, <2>4
        <3> QED
            BY <1>12, <2>1, <2>2, <2>4, <3>1
    <2> QED
        BY <2>3, <2>4
<1>16. ASSUME NEW g \in HoursOfClock
       PROVE  Len(redis'[g].failures) <= Cardinality(Slice(d["failures"], g)')
    <2>1. Len(redis[g].failures) <= Cardinality(Slice(c["failures"], g))
        BY <1>1 DEF CountedInRedis
    <2>2. Slice(d["failures"], g)' = Slice(d["failures"], g)
        BY <1>2 DEF Slice
    <2>3. CASE f = "failures"
        <3>1. Len(redis'[g].failures)
                = Len(redis[g].failures) + IF g = h THEN 1 ELSE 0
            <4>1. CASE g = h
                BY <1>6, <1>13, <2>3, <4>1
            <4>2. CASE g # h
                BY <1>6, <1>8, <2>3, <4>2
            <4> QED
                BY <4>1, <4>2
        <3>2. Cardinality(Slice(c["failures"] \cup {n}, g))
                = Cardinality(Slice(c["failures"], g)) + IF g = h THEN 1 ELSE 0
            <4>1. c["failures"] \in SUBSET Events /\ n \in Events \ c["failures"]
                BY <1>2, <1>7, <1>13, <2>3 DEF FieldSet
            <4>2. h = HourOf(log[n].at)
                BY <1>2 DEF h
            <4> QED
                BY <4>1, <4>2, OneMore
        <3>3. Len(redis'[g].failures) <= Cardinality(Slice(c["failures"] \cup {n}, g))
            <4> DEFINE a == Len(redis[g].failures)
                       b == Cardinality(Slice(c["failures"], g))
                       i == IF g = h THEN 1 ELSE 0
            <4>1. a \in Nat /\ b \in Nat /\ i \in Nat /\ a <= b
                BY <1>8, <1>9, <2>1
            <4> HIDE DEF a, b, i
            <4>2. a + i <= b + i
                BY <4>1
            <4> QED
                BY <3>1, <3>2, <4>2 DEF a, b, i
        <3> QED
            BY <1>12, <2>2, <2>3, <3>3
    <2>4. CASE f # "failures"
        <3>1. Len(redis'[g].failures) <= Len(redis[g].failures)
            <4>1. g # h => redis'[g].failures = redis[g].failures
                BY <1>6
            <4>2. x \in 1..2 => redis'[h].failures = redis[h].failures
                BY <1>6, <1>13, <2>4
            <4>3. x \notin 1..2 => Len(redis'[h].failures) <= Len(redis[h].failures)
                BY <1>6
            <4> QED
                BY <1>8, <4>1, <4>2, <4>3
        <3>2. Len(redis'[g].failures) <= Cardinality(Slice(c["failures"], g))
            BY <1>8, <1>9, <2>1, <3>1
        <3> QED
            BY <1>12, <2>2, <2>4, <3>2
    <2> QED
        BY <2>3, <2>4
<1>17. \A m \in d["hosts"] : log'[m].kind = "page_view"
    BY <1>1, <1>2, <1>12, <1>13 DEF CountedInRedis
<1>18. \A m \in 1..Len(log') : "redis" \in log'[m].stored => m \in d["events"]
    BY <1>1, <1>2, <1>12 DEF CountedInRedis, Events
<1>19. ASSUME NEW u \in Trackers, sending'[u].next # Done
       PROVE  /\ Sent(u)' \in d["events"] <=> sending'[u].next # 1
              /\ sending'[u].next \in 1..2 =>
                    Sent(u)' \notin d["hosts"] \cup d["failures"]
    <2>1. CASE u = t
        <3>1. Sent(u)' = n /\ sending'[u].next = x + 1 /\ x \in 1..4
            BY <1>2, <1>4, <2>1 DEF Sent
        <3>2. n \in d["events"]
            BY <1>3, <1>12, <1>13
        <3>3. x = 1 => n \notin d["hosts"] \cup d["failures"]
            BY <1>3, <1>12, <1>13
        <3> QED
            BY <3>1, <3>2, <3>3
    <2>2. CASE u # t
        <3>1. sending[u].next # Done /\ Sent(u)' = Sent(u) /\ Sent(u) # n
              /\ sending'[u].next = sending[u].next
            BY <1>4, <1>5, <1>19, <2>2 DEF Sent
        <3>2. /\ Sent(u) \in c["events"] <=> sending[u].next # 1
              /\ sending[u].next \in 1..2 => Sent(u) \notin c["hosts"] \cup c["failures"]
            BY <1>1, <3>1 DEF CountedInRedis
        <3> QED
            BY <1>12, <3>1, <3>2
    <2> QED
        BY <2>1, <2>2
<1>20. CountedInRedis(d)'
    BY <1>14, <1>15, <1>16, <1>17, <1>18, <1>19 DEF CountedInRedis, Events
<1> QED
    BY <1>10, <1>20 DEF RedisCounts, Events

LEMMA RedisCountsKept ==
    ASSUME UsageShape, RedisCounts, UsageNext
    PROVE  RedisCounts'
<1>1. EventsStay
    BY UsageEventsStay
<1>2. PICK c \in [FieldSet -> SUBSET Events] : CountedInRedis(c)
    BY DEF RedisCounts
<1>3. /\ \A n \in Events : "redis" \in log[n].stored => n \in c["events"]
      /\ \A t \in Trackers : sending[t].next # Done =>
            /\ sending[t].event \in c["events"] <=> sending[t].next # 1
            /\ sending[t].next \in 1..2 =>
                  sending[t].event \notin c["hosts"] \cup c["failures"]
      /\ c["events"] \cup c["hosts"] \cup c["failures"] \subseteq Events
    BY <1>2 DEF CountedInRedis, Sent, FieldSet
<1>4. Len(log) \in Nat /\ Events = 1..Len(log)
    BY Events1 DEF Events
<1>5. ASSUME UNCHANGED redis, Len(log') = Len(log),
             \A n \in Events : "redis" \in log'[n].stored => n \in c["events"],
             \A t \in Trackers : sending'[t].next # Done => sending'[t] = sending[t]
      PROVE  RedisCounts'
    <2>1. \A n \in 1..Len(log') : "redis" \in log'[n].stored => n \in c["events"]
        BY <1>4, <1>5
    <2>2. \A t \in Trackers : sending'[t].next # Done =>
              /\ sending'[t].event \in c["events"] <=> sending'[t].next # 1
              /\ sending'[t].next \in 1..2 =>
                    sending'[t].event \notin c["hosts"] \cup c["failures"]
        BY <1>3, <1>5
    <2> QED
        BY <1>1, <1>2, <1>5, <2>1, <2>2, RedisFrame
<1>6. UNCHANGED <<redis, log, sending>> => RedisCounts'
    BY <1>3, <1>5
<1>7. ASSUME NEW t \in Trackers, Track(t) PROVE RedisCounts'
    <2>1. /\ Len(log') = Len(log) + 1 /\ log'[Len(log) + 1].stored = {}
          /\ \A n \in Events : log'[n] = log[n]
          /\ UNCHANGED redis
        <3>1. PICK k \in Kinds : log' = Append(log, [kind |-> k, at |-> clock,
                                                     server |-> ServerOf[t], stored |-> {}])
            BY <1>7 DEF Track
        <3> QED
            BY <1>4, <1>7, <3>1, Events1, TrackedStays DEF Track
    <2>2. \A n \in 1..Len(log') : "redis" \in log'[n].stored => n \in c["events"]
        <3> SUFFICES ASSUME NEW n \in 1..Len(log'), "redis" \in log'[n].stored
                     PROVE  n \in c["events"]
            OBVIOUS
        <3>1. n \in Events
            BY <1>4, <2>1
        <3> QED
            BY <1>3, <2>1, <3>1
    <2>3. /\ \A u \in Trackers : u # t => sending'[u] = sending[u]
          /\ sending'[t].event = Len(log) + 1 /\ sending'[t].next \in {1, Done}
        BY <1>7 DEF Track, UsageShape, SendingShape
    <2>4. Len(log) + 1 \notin c["events"] \cup c["hosts"] \cup c["failures"]
        BY <1>3, <1>4
    <2>5. \A u \in Trackers : sending'[u].next # Done =>
              /\ sending'[u].event \in c["events"] <=> sending'[u].next # 1
              /\ sending'[u].next \in 1..2 =>
                    sending'[u].event \notin c["hosts"] \cup c["failures"]
        <3> SUFFICES ASSUME NEW u \in Trackers, sending'[u].next # Done
                     PROVE  /\ sending'[u].event \in c["events"] <=> sending'[u].next # 1
                            /\ sending'[u].next \in 1..2 =>
                                  sending'[u].event \notin c["hosts"] \cup c["failures"]
            OBVIOUS
        <3>1. CASE u = t
            BY <2>3, <2>4, <3>1
        <3>2. CASE u # t
            BY <1>3, <2>3, <3>2
        <3> QED
            BY <3>1, <3>2
    <2> QED
        BY <1>1, <1>2, <2>1, <2>2, <2>5, RedisFrame
<1>8. ASSUME NEW t \in Trackers, Executes(t) \/ ExecuteFails(t) PROVE RedisCounts'
    <2>1. /\ sending[t].next # Done /\ UNCHANGED redis /\ SendNext(t, Done)
        BY <1>8 DEF Executes, ExecuteFails
    <2>2. \A u \in Trackers : sending'[u].next # Done => sending'[u] = sending[u]
        BY <2>1 DEF SendNext, UsageShape, SendingShape
    <2>3. CASE Executes(t)
        <3>1. Sent(t) \in Events /\ sending[t].next # 1
            <4>1. Len(Commands(EventOf(t))) \in 2..3 /\ Sent(t) \in Events
                BY <2>1, CommandsAre
            <4>2. sending[t].next = Len(Commands(EventOf(t))) + 1
                BY <2>3 DEF Executes
            <4>3. \A l \in 2..3 : l + 1 # 1
                OBVIOUS
            <4> QED
                BY <4>1, <4>2, <4>3
        <3>2. Sent(t) \in c["events"]
            BY <1>3, <2>1, <3>1 DEF Sent
        <3>3. /\ Len(log') = Len(log)
              /\ \A n \in Events : "redis" \in log'[n].stored =>
                    "redis" \in log[n].stored \/ n = Sent(t)
            BY <2>3, <3>1, StoredStays DEF Executes, Stores
        <3> QED
            BY <1>3, <1>5, <2>1, <2>2, <3>2, <3>3
    <2>4. CASE ExecuteFails(t)
        BY <1>3, <1>5, <2>1, <2>2, <2>4 DEF ExecuteFails
    <2> QED
        BY <1>8, <2>3, <2>4
<1>9. ASSUME NEW t \in Trackers, InsertEvent(t) PROVE RedisCounts'
    <2>1. Sent(t) \in Events
        BY <1>4, <1>9 DEF InsertEvent, UsageShape, SendingShape, Sent
    <2>2. /\ Len(log') = Len(log)
          /\ \A n \in Events : "redis" \in log'[n].stored => "redis" \in log[n].stored
        BY <1>9, <2>1, StoredStays DEF InsertEvent, Stores
    <2>3. \A u \in Trackers : sending'[u].next # Done => sending'[u] = sending[u]
        BY <1>9 DEF InsertEvent, UsageShape, SendingShape, Resting
    <2>4. UNCHANGED redis
        BY <1>9 DEF InsertEvent
    <2> QED
        BY <1>3, <1>5, <2>2, <2>3, <2>4
<1>10. ASSUME NEW s \in Servers, ReplaceServer(s) PROVE RedisCounts'
    <2>1. /\ Len(log') = Len(log)
          /\ \A n \in Events : "redis" \in log'[n].stored => "redis" \in log[n].stored
        BY <1>10, ReplacedStays
    <2>2. \A u \in Trackers : sending'[u].next # Done => sending'[u] = sending[u]
        BY <1>10 DEF ReplaceServer, Resting
    <2>3. UNCHANGED redis
        BY <1>10 DEF ReplaceServer
    <2> QED
        BY <1>3, <1>5, <2>1, <2>2, <2>3
<1>11. ASSUME NEW s \in Servers, AskSummary(s) PROVE RedisCounts'
    BY <1>6, <1>11 DEF AskSummary
<1>12. CASE ReadRedis \/ ReadRedisFails \/ ReadTable \/ AnswerSummary \/ ClockTicks
    BY <1>6, <1>12 DEF ReadRedis, ReadRedisFails, ReadTable, AnswerSummary, ClockTicks
<1> QED
    BY <1>7, <1>8, <1>9, <1>10, <1>11, <1>12, CommandCounts DEF UsageNext

-----------------------------------------------------------------------------
(* what a summary has counted *)

\* The totals of a summary that stays are still counted by the same events.
LEMMA TotalsStay ==
    ASSUME UsageShape, SummaryShape, SummaryCounts, EventsStay, UNCHANGED summary,
           summary.source = "sqlite" => rows[summary.server] \subseteq rows'[summary.server]
    PROVE  SummaryCounts'
<1>1. PICK g \in [FieldSet -> SUBSET Events] :
         /\ CountedIn(g)
         /\ summary.source = "redis" => LeftInRedis(g)
         /\ summary.source = "sqlite" => LeftInTable(g)
    BY DEF SummaryCounts
<1>2. \A f \in FieldSet : g[f] \in SUBSET Events
    OBVIOUS
<1>3. g \in [FieldSet -> SUBSET (1..Len(log'))]
    BY <1>2, SplitStays
<1>4. /\ \A n \in Events :
            /\ n \in 1..Len(log') /\ log'[n].at = log[n].at
            /\ log'[n].kind = log[n].kind /\ log'[n].server = log[n].server
            /\ "redis" \in log[n].stored => "redis" \in log'[n].stored
      /\ summary.floor \subseteq Events
      /\ DOMAIN log = Events /\ DOMAIN log' = 1..Len(log')
    BY Events1, LenProperties DEF EventsStay, SummaryShape, Events
<1>5. CountedIn(g)'
    <2>1. \A k \in Kinds : OfKind(g["events"], k)' = OfKind(g["events"], k)
        BY <1>2, SplitStays DEF FieldSet
    <2>2. \A n \in g["hosts"] : log'[n].kind = "page_view"
        BY <1>1, <1>2, <1>4 DEF CountedIn, FieldSet
    <2>3. \A f \in FieldSet : g[f] \subseteq Possible'
        BY <1>1, <1>2, <1>4 DEF CountedIn, Possible
    <2> QED
        BY <1>1, <2>1, <2>2, <2>3 DEF CountedIn
<1>6. summary.source = "redis" => LeftInRedis(g)'
    <2> SUFFICES ASSUME summary.source = "redis" PROVE LeftInRedis(g)'
        OBVIOUS
    <2>1. LeftInRedis(g)
        BY <1>1
    <2>2. \A n \in Events : HourOf(log[n].at)' = HourOf(log[n].at)
        BY <1>4 DEF HourOf
    <2>3. \A n \in Events, f \in FieldSet :
              ToRead(HourOf(log[n].at), f)' <=> ToRead(HourOf(log[n].at), f)
        BY <2>2 DEF ToRead
    <2>4. \A f \in FieldSet : \A n \in g[f] : ~ToRead(HourOf(log[n].at), f)'
        BY <1>2, <2>1, <2>3 DEF LeftInRedis
    <2>5. \A n \in summary.floor :
              /\ "redis" \in log'[n].stored
              /\ n \in g["events"] \/ ToRead(HourOf(log[n].at), "events")'
        BY <1>4, <2>1, <2>3 DEF LeftInRedis, FieldSet
    <2>6. \A i, j \in DOMAIN summary.left : summary.left[i] = summary.left[j] => i = j
        BY <2>1 DEF LeftInRedis
    <2> QED
        BY <2>4, <2>5, <2>6 DEF LeftInRedis
<1>7. summary.source = "sqlite" => LeftInTable(g)'
    BY <1>1, <1>2, <1>4 DEF LeftInTable, ToRead
<1> QED
    BY <1>3, <1>5, <1>6, <1>7 DEF SummaryCounts, Events

\* No event counts for nothing.
LEMMA NothingCounted ==
    ASSUME NEW g, g = [f \in FieldSet |-> {}], summary'.got = EmptyHour
    PROVE  CountedIn(g)'
<1>1. g["events"] = {} /\ g["hosts"] = {} /\ \A f \in FieldSet : g[f] = {}
    BY DEF FieldSet
<1>2. /\ summary'.got.hosts = 0 /\ summary'.got.failures = <<>>
      /\ \A k \in Kinds : summary'.got.events[k] = 0
    BY DEF EmptyHour
<1>3. \A k \in Kinds : OfKind(g["events"], k)' = {}
    BY <1>1 DEF OfKind
<1>4. Cardinality({}) = 0 /\ Len(<<>>) = 0
    BY FS_EmptySet, EmptySeq
<1>5. Len(summary'.got.failures) <= Cardinality(g["failures"])
    BY <1>1, <1>2, <1>4 DEF FieldSet
<1> QED
    BY <1>1, <1>2, <1>3, <1>4, <1>5 DEF CountedIn

\* A summary that begins has counted nothing.
LEMMA BegunCounts ==
    ASSUME UsageShape, UNCHANGED <<clock, rows, log>>, NEW s \in Servers,
           summary' = FromRedis(s) \/ summary' = FromTable(s)
    PROVE  SummaryCounts'
<1>1. PICK g : g = [f \in FieldSet |-> {}]
    OBVIOUS
<1>2. g \in [FieldSet -> SUBSET (1..Len(log'))] /\ \A f \in FieldSet : g[f] = {}
    BY <1>1
<1>3. summary'.got = EmptyHour
    BY DEF FromRedis, FromTable
<1>4. CountedIn(g)'
    BY <1>1, <1>3, NothingCounted
<1>5. CASE summary' = FromRedis(s)
    <2>1. summary'.left = RedisReads /\ summary'.floor = InRedis /\ summary'.source = "redis"
        BY <1>5 DEF FromRedis
    <2>2. \A n \in InRedis : /\ "redis" \in log'[n].stored
                             /\ ToRead(HourOf(log[n].at), "events")'
        <3> SUFFICES ASSUME NEW n \in InRedis
                     PROVE  /\ "redis" \in log'[n].stored
                            /\ ToRead(HourOf(log[n].at), "events")'
            OBVIOUS
        <3>1. "redis" \in log'[n].stored
            BY DEF InRedis
        <3>2. PICK j \in DOMAIN RedisReads :
                 RedisReads[j] = <<HourOf(log[n].at), "events">>
            BY SinceIs, ReadsAre DEF FieldSet
        <3>3. HourOf(log[n].at)' = HourOf(log[n].at)
            BY DEF HourOf
        <3> QED
            BY <2>1, <3>1, <3>2, <3>3 DEF ToRead
    <2>3. LeftInRedis(g)'
        BY <1>2, <2>1, <2>2, ReadsAre DEF LeftInRedis
    <2> QED
        BY <1>2, <1>4, <2>1, <2>3 DEF SummaryCounts, Events
<1>6. CASE summary' = FromTable(s)
    <2> DEFINE reads == [i \in 1..3 |-> <<0, Fields[i]>>]
    <2>1. /\ summary'.left = reads /\ summary'.floor = InTable(s)
          /\ summary'.source = "sqlite" /\ summary'.server = s /\ summary'.since = Since
        BY <1>6 DEF FromTable
    <2>2. /\ DOMAIN reads = 1..3 /\ \A j \in 1..3 : reads[j][1] = 0
          /\ reads[1] = <<0, "events">> /\ reads[2] = <<0, "hosts">>
        BY DEF Fields
    <2> HIDE DEF reads
    <2>3. ToRead(0, "events")' /\ ToRead(0, "hosts")'
        BY <2>1, <2>2 DEF ToRead
    <2>4. LeftInTable(g)'
        BY <2>1, <2>2, <2>3 DEF LeftInTable, InTable
    <2> QED
        BY <1>2, <1>4, <2>1, <2>4 DEF SummaryCounts, Events
<1> QED
    BY <1>5, <1>6

\* A summary that is given up has counted nothing.
LEMMA EndedCounts ==
    ASSUME summary' = NoSummary
    PROVE  SummaryCounts'
<1>1. PICK g : g = [f \in FieldSet |-> {}]
    OBVIOUS
<1>2. summary'.got = EmptyHour /\ summary'.source = "none"
    BY DEF NoSummary
<1>3. CountedIn(g)'
    BY <1>1, <1>2, NothingCounted
<1> QED
    BY <1>1, <1>2, <1>3 DEF SummaryCounts

\* What is left to read after a read.
LEMMA ReadsLeft ==
    ASSUME SummaryShape, NEW got, ReadOn(got)
    PROVE  /\ DOMAIN summary'.left = 1..(Len(summary.left) - 1)
           /\ DOMAIN summary.left = 1..Len(summary.left)
           /\ Len(summary.left) \in Nat \ {0}
           /\ Head(summary.left) = summary.left[1]
           /\ \A j \in 1..(Len(summary.left) - 1) : summary'.left[j] = summary.left[j + 1]
           /\ \A h \in HoursOfClock, f \in FieldSet :
                 /\ ToRead(h, f)' =>
                       \E j \in DOMAIN summary.left : j # 1 /\ summary.left[j] = <<h, f>>
                 /\ ToRead(h, f) => Head(summary.left) = <<h, f>> \/ ToRead(h, f)'
<1> DEFINE l == summary.left
           m == summary'.left
<1>1. l \in Seq(HoursOfClock \X FieldSet) /\ l # <<>> /\ m = Tail(l)
    BY DEF SummaryShape, ReadOn
<1>2. Len(l) \in Nat \ {0} /\ DOMAIN l = 1..Len(l)
    BY <1>1, EmptySeq, LenProperties
<1>3. m \in Seq(HoursOfClock \X FieldSet) /\ Len(m) = Len(l) - 1
      /\ \A j \in 1..Len(m) : m[j] = l[j + 1]
    BY <1>1, HeadTailProperties
<1>4. DOMAIN m = 1..Len(m)
    BY <1>3, LenProperties
<1>5. Head(l) = l[1]
    BY <1>1
<1> HIDE DEF l, m
<1>6. ASSUME NEW x, NEW j \in DOMAIN m, m[j] = x
      PROVE  \E i \in DOMAIN l : i # 1 /\ l[i] = x
    <2>1. j + 1 \in DOMAIN l /\ j + 1 # 1 /\ l[j + 1] = x
        BY <1>2, <1>3, <1>4, <1>6
    <2> QED
        BY <2>1
<1>7. ASSUME NEW x, NEW j \in DOMAIN l, l[j] = x
      PROVE  Head(l) = x \/ \E i \in DOMAIN m : m[i] = x
    <2>1. CASE j = 1
        BY <1>5, <1>7, <2>1
    <2>2. CASE j # 1
        <3>1. j - 1 \in DOMAIN m /\ m[j - 1] = x
            BY <1>2, <1>3, <1>4, <1>7, <2>2
        <3> QED
            BY <3>1
    <2> QED
        BY <2>1, <2>2
<1> QED
    BY <1>2, <1>3, <1>4, <1>5, <1>6, <1>7 DEF l, m, ToRead

LEMMA ThreeSums ==
    ASSUME NEW l \in Nat, NEW m \in Nat, NEW n \in Nat, NEW a \in Nat, NEW b \in Nat,
           n <= l + m, l <= a, m <= b
    PROVE  n <= a + b
OBVIOUS

\* Reading a field of an hour counts the events that Redis has counted there,
\* none of which was counted before.
LEMMA RedisReadCounts ==
    ASSUME UsageShape, SummaryShape, RedisCounts, SummaryCounts, ReadRedis
    PROVE  SummaryCounts'
<1> DEFINE left == summary.left
           h == Head(left)[1]
           f == Head(left)[2]
           got == summary.got
           x == Added(got, redis[h], f, summary.since)
<1>1. PICK c \in [FieldSet -> SUBSET Events] : CountedInRedis(c)
    BY DEF RedisCounts
<1>2. PICK g \in [FieldSet -> SUBSET Events] : CountedIn(g) /\ LeftInRedis(g)
    BY DEF SummaryCounts, ReadRedis
<1>3. PICK d : d = [y \in FieldSet |-> IF y = f THEN g[y] \cup Slice(c[y], h) ELSE g[y]]
    OBVIOUS
<1>4. /\ UNCHANGED <<redis, log>> /\ summary.source = "redis"
      /\ ReadOn(x) /\ SummaryShape'
    BY ReadShape DEF ReadRedis
<1>5. /\ h \in HoursOfClock /\ f \in FieldSet /\ Head(left) = <<h, f>>
      /\ left # <<>>
    BY <1>4 DEF ReadOn
<1>6. /\ summary'.source = "redis" /\ summary'.server = summary.server
      /\ summary'.floor = summary.floor /\ summary'.got = x
    BY <1>4 DEF ReadOn
<1>7. /\ DOMAIN summary'.left = 1..(Len(left) - 1) /\ DOMAIN left = 1..Len(left)
      /\ Len(left) \in Nat \ {0} /\ left[1] = <<h, f>>
      /\ \A j \in 1..(Len(left) - 1) : summary'.left[j] = left[j + 1]
      /\ \A i \in HoursOfClock, y \in FieldSet :
            /\ ToRead(i, y)' => \E j \in DOMAIN left : j # 1 /\ left[j] = <<i, y>>
            /\ ToRead(i, y) => Head(left) = <<i, y>> \/ ToRead(i, y)'
    BY <1>4, <1>5, ReadsLeft
<1>8. /\ \A y \in FieldSet : g[y] \in SUBSET Events /\ c[y] \in SUBSET Events
      /\ Slice(c[f], h) \in SUBSET Events
    BY <1>5 DEF Slice
<1> HIDE DEF left, x
<1>9. g[f] \cap Slice(c[f], h) = {}
    <2> SUFFICES ASSUME NEW n \in g[f], n \in Slice(c[f], h) PROVE FALSE
        OBVIOUS
    <2>1. HourOf(log[n].at) = h /\ ~ToRead(HourOf(log[n].at), f)
        BY <1>2, <1>5 DEF Slice, LeftInRedis
    <2>2. ToRead(h, f)
        BY <1>7 DEF ToRead, left
    <2> QED
        BY <2>1, <2>2
<1>10. /\ \A y \in FieldSet : d[y] \in SUBSET Events
       /\ d[f] = g[f] \cup Slice(c[f], h)
       /\ \A y \in FieldSet : y # f => d[y] = g[y]
       /\ d \in [FieldSet -> SUBSET (1..Len(log'))]
    BY <1>3, <1>4, <1>5, <1>8 DEF Events
<1>11. /\ HourShape(redis[h]) /\ HourShape(got)
    BY <1>5 DEF UsageShape, RedisShape, SummaryShape
<1>12. "events" \in FieldSet /\ "hosts" \in FieldSet /\ "failures" \in FieldSet
       /\ (f = "events" \/ f = "hosts" \/ f = "failures")
    BY <1>5 DEF FieldSet
<1>20. /\ f = "events" =>
             /\ x.hosts = got.hosts /\ x.failures = got.failures
             /\ \A k \in Kinds : x.events[k] = got.events[k] + redis[h].events[k]
       /\ f = "hosts" =>
             /\ x.events = got.events /\ x.failures = got.failures
             /\ x.hosts = got.hosts + redis[h].hosts
       /\ f = "failures" =>
             /\ x.events = got.events /\ x.hosts = got.hosts
             /\ Len(x.failures) <= Len(got.failures) + Len(redis[h].failures)
       /\ HourShape(x)
    <2>1. PICK a, b, s, u, z : /\ a = got /\ b = redis[h] /\ s = summary.since
                              /\ u = f /\ z = x
        OBVIOUS
    <2>2. HourShape(a) /\ HourShape(b) /\ z = Added(a, b, u, s)
        BY <1>11, <2>1 DEF x
    <2>3. ASSUME u = "events"
          PROVE  /\ z.hosts = a.hosts /\ z.failures = a.failures
                 /\ \A k \in Kinds : z.events[k] = a.events[k] + b.events[k]
                 /\ HourShape(z)
        <3>1. z = Added(a, b, "events", s)
            BY <2>2, <2>3
        <3> QED
            BY <2>2, <3>1, EventsAdded
    <2>4. ASSUME u = "hosts"
          PROVE  /\ z.events = a.events /\ z.failures = a.failures
                 /\ z.hosts = a.hosts + b.hosts
                 /\ HourShape(z)
        <3>1. z = Added(a, b, "hosts", s)
            BY <2>2, <2>4
        <3> QED
            BY <2>2, <3>1, HostsAdded
    <2>5. ASSUME u = "failures"
          PROVE  /\ HourShape(z) /\ z.events = a.events /\ z.hosts = a.hosts
                 /\ Len(z.failures) <= Len(a.failures) + Len(b.failures)
        <3>1. z = Added(a, b, "failures", s)
            BY <2>2, <2>5
        <3>2. HourShape(a) /\ HourShape(b)
            BY <2>2
        <3>3. HourShape(z)
            BY <3>1, <3>2, FailuresAdded
        <3>4. Len(z.failures) <= Len(a.failures) + Len(b.failures)
            BY <3>1, <3>2, FailuresAdded
        <3>5. z.events = a.events /\ z.hosts = a.hosts
            BY <3>1, <3>2 DEF Added, HourShape
        <3> QED
            BY <3>3, <3>4, <3>5
    <2>6. ("events" = u \/ "hosts" = u \/ "failures" = u)
          /\ "events" # "hosts" /\ "events" # "failures" /\ "hosts" # "failures"
        BY <1>12, <2>1
    <2> HIDE DEF got, f, h
    <2> QED
        BY <2>1, <2>3, <2>4, <2>5, <2>6
<1>13. ASSUME NEW k \in Kinds
       PROVE  x.events[k] = Cardinality(OfKind(d["events"], k))
    <2>1. got.events[k] = Cardinality(OfKind(g["events"], k))
        BY <1>2 DEF CountedIn
    <2>2. CASE f = "events"
        <3>1. x.events[k] = got.events[k] + redis[h].events[k]
            BY <1>20, <2>2
        <3>2. redis[h].events[k] = Cardinality(OfKind(Slice(c["events"], h), k))
            BY <1>1, <1>5 DEF CountedInRedis
        <3> DEFINE A == OfKind(g["events"], k)
                   B == OfKind(Slice(c["events"], h), k)
        <3>3. A \in SUBSET Events /\ B \in SUBSET Events /\ A \cap B = {}
            BY <1>8, <1>9, <1>12, <2>2 DEF OfKind
        <3>4. OfKind(d["events"], k) = A \cup B
            BY <1>10, <2>2 DEF OfKind
        <3> HIDE DEF A, B
        <3>5. Cardinality(A \cup B) = Cardinality(A) + Cardinality(B)
            BY <3>3, PartOfEvents, CountOfBoth
        <3> QED
            BY <2>1, <3>1, <3>2, <3>4, <3>5 DEF A, B
    <2>3. CASE f # "events"
        <3>1. x.events = got.events
            BY <1>12, <1>20, <2>3
        <3> QED
            BY <1>10, <1>12, <2>1, <2>3, <3>1
    <2> QED
        BY <2>2, <2>3
<1>14. x.hosts = Cardinality(d["hosts"])
    <2>1. got.hosts = Cardinality(g["hosts"])
        BY <1>2 DEF CountedIn
    <2>2. CASE f = "hosts"
        <3>1. x.hosts = got.hosts + redis[h].hosts
            BY <1>20, <2>2
        <3>2. redis[h].hosts = Cardinality(Slice(c["hosts"], h))
            BY <1>1, <1>5 DEF CountedInRedis
        <3>3. Cardinality(g["hosts"] \cup Slice(c["hosts"], h))
                = Cardinality(g["hosts"]) + Cardinality(Slice(c["hosts"], h))
            BY <1>8, <1>9, <1>12, <2>2, PartOfEvents, CountOfBoth
        <3> QED
            BY <1>10, <2>1, <2>2, <3>1, <3>2, <3>3
    <2>3. CASE f # "hosts"
        <3>1. x.hosts = got.hosts
            BY <1>12, <1>20, <2>3
        <3> QED
            BY <1>10, <1>12, <2>1, <2>3, <3>1
    <2> QED
        BY <2>2, <2>3
<1>15. Len(x.failures) <= Cardinality(d["failures"])
    <2>1. Len(got.failures) <= Cardinality(g["failures"])
        BY <1>2 DEF CountedIn
    <2>2. CASE f = "failures"
        <3> DEFINE B == Slice(c["failures"], h)
        <3>1. Len(x.failures) <= Len(got.failures) + Len(redis[h].failures)
              /\ HourShape(x)
            BY <1>20, <2>2
        <3>2. Len(redis[h].failures) <= Cardinality(B)
            BY <1>1, <1>5 DEF CountedInRedis
        <3>3. Cardinality(g["failures"] \cup B) = Cardinality(g["failures"]) + Cardinality(B)
            BY <1>8, <1>9, <1>12, <2>2, PartOfEvents, CountOfBoth
        <3>4. Cardinality(g["failures"]) \in Nat /\ Cardinality(B) \in Nat
            BY <1>8, <1>12, <2>2, PartOfEvents
        <3>5. Len(x.failures) \in Nat /\ Len(got.failures) \in Nat
              /\ Len(redis[h].failures) \in Nat
            BY <1>11, <3>1, ListLength DEF HourShape
        <3>6. d["failures"] = g["failures"] \cup B
            BY <1>10, <2>2
        <3> HIDE DEF B
        <3>7. Len(x.failures) <= Cardinality(g["failures"]) + Cardinality(B)
            BY <2>1, <3>1, <3>2, <3>4, <3>5, ThreeSums
        <3> QED
            BY <3>3, <3>6, <3>7
    <2>3. CASE f # "failures"
        <3>1. x.failures = got.failures
            BY <1>12, <1>20, <2>3
        <3> QED
            BY <1>10, <1>12, <2>1, <2>3, <3>1
    <2> QED
        BY <2>2, <2>3
<1>16. \A n \in d["hosts"] : log[n].kind = "page_view"
    BY <1>1, <1>2, <1>10, <1>12 DEF CountedIn, CountedInRedis, Slice
<1>17. \A y \in FieldSet : d[y] \subseteq Possible'
    BY <1>4, <1>6, <1>10, Events1 DEF Possible
<1>18. CountedIn(d)'
    <2>1. \A k \in Kinds : OfKind(d["events"], k)' = OfKind(d["events"], k)
        BY <1>4 DEF OfKind
    <2> QED
        BY <1>4, <1>6, <1>13, <1>14, <1>15, <1>16, <1>17, <2>1 DEF CountedIn
<1>19. LeftInRedis(d)'
    <2>1. \A i, j \in DOMAIN left : left[i] = left[j] => i = j
        BY <1>2 DEF LeftInRedis, left
    <2>2. \A i, j \in DOMAIN summary'.left : summary'.left[i] = summary'.left[j] => i = j
        <3> SUFFICES ASSUME NEW i \in DOMAIN summary'.left, NEW j \in DOMAIN summary'.left,
                            summary'.left[i] = summary'.left[j]
                     PROVE  i = j
            OBVIOUS
        <3>1. i \in 1..(Len(left) - 1) /\ j \in 1..(Len(left) - 1)
            BY <1>7
        <3>2. summary'.left[i] = left[i + 1] /\ summary'.left[j] = left[j + 1]
            BY <1>7, <3>1
        <3>4. i + 1 \in DOMAIN left /\ j + 1 \in DOMAIN left
            <4> PICK l : l = Len(left)
                OBVIOUS
            <4>1. l \in Nat /\ DOMAIN left = 1..l /\ i \in 1..(l - 1) /\ j \in 1..(l - 1)
                BY <1>7, <3>1
            <4>2. i + 1 \in 1..l /\ j + 1 \in 1..l
                BY <4>1
            <4> QED
                BY <4>1, <4>2
        <3>3. i + 1 = j + 1
            BY <2>1, <3>2, <3>4
        <3> QED
            BY <3>1, <3>3
    <2>3. \A n \in Events : HourOf(log[n].at)' = HourOf(log[n].at)
                            /\ HourOf(log[n].at) \in HoursOfClock
        BY <1>4, Events1 DEF HourOf
    <2>4. ASSUME NEW y \in FieldSet, NEW n \in d[y], ToRead(HourOf(log[n].at), y)'
          PROVE  FALSE
        <3>1. n \in Events
            BY <1>10
        <3>2. PICK j \in DOMAIN left : j # 1 /\ left[j] = <<HourOf(log[n].at), y>>
            <4> PICK i : i = HourOf(log[n].at)
                OBVIOUS
            <4>1. i \in HoursOfClock /\ HourOf(log[n].at)' = i
                BY <2>3, <3>1
            <4>2. ToRead(i, y)'
                BY <2>4, <4>1 DEF ToRead
            <4> QED
                BY <1>7, <4>1, <4>2
        <3>3. CASE n \in g[y]
            BY <1>2, <3>2, <3>3 DEF LeftInRedis, ToRead, left
        <3>4. CASE n \notin g[y]
            <4>1. y = f /\ HourOf(log[n].at) = h
                BY <1>10, <2>4, <3>4 DEF Slice
            <4>2. 1 \in DOMAIN left /\ left[1] = left[j]
                BY <1>7, <3>2, <4>1
            <4> QED
                BY <2>1, <3>2, <4>2
        <3> QED
            BY <3>3, <3>4
    <2>5. ASSUME NEW n \in summary.floor
          PROVE  /\ "redis" \in log[n].stored
                 /\ n \in d["events"] \/ ToRead(HourOf(log[n].at), "events")'
        <3>1. n \in Events /\ "redis" \in log[n].stored
            BY <1>2 DEF LeftInRedis, SummaryShape
        <3>2. CASE n \in g["events"]
            BY <1>10, <1>12, <3>1, <3>2
        <3>3. CASE n \notin g["events"]
            <4>1. ToRead(HourOf(log[n].at), "events")
                BY <1>2, <3>3 DEF LeftInRedis
            <4>2. CASE Head(left) = <<HourOf(log[n].at), "events">>
                <5>1. HourOf(log[n].at) = h /\ f = "events"
                    BY <1>5, <4>2
                <5>2. n \in c["events"]
                    BY <1>1, <3>1 DEF CountedInRedis
                <5> QED
                    BY <1>10, <3>1, <5>1, <5>2 DEF Slice
            <4>3. CASE ToRead(HourOf(log[n].at), "events")'
                BY <3>1, <4>3
            <4>4. HourOf(log[n].at) \in HoursOfClock
                BY <2>3, <3>1
            <4>5. Head(left) = <<HourOf(log[n].at), "events">>
                  \/ ToRead(HourOf(log[n].at), "events")'
                <5> PICK i : i = HourOf(log[n].at)
                    OBVIOUS
                <5>1. i \in HoursOfClock /\ ToRead(i, "events")
                    BY <4>1, <4>4
                <5>2. Head(left) = <<i, "events">> \/ ToRead(i, "events")'
                    BY <1>7, <1>12, <5>1
                <5>3. HourOf(log[n].at)' = HourOf(log[n].at)
                    BY <2>3, <3>1
                <5> QED
                    BY <5>2, <5>3 DEF ToRead
            <4> QED
                BY <4>2, <4>3, <4>5
        <3> QED
            BY <3>2, <3>3
    <2>6. \A y \in FieldSet, n \in Events :
              ToRead(HourOf(log[n].at), y)' <=>
                  \E j \in DOMAIN summary'.left : summary'.left[j] = <<HourOf(log[n].at), y>>
        BY <2>3 DEF ToRead
    <2> QED
        BY <1>4, <1>6, <1>10, <2>2, <2>4, <2>5 DEF LeftInRedis
<1> QED
    BY <1>6, <1>10, <1>18, <1>19 DEF SummaryCounts, Events

\* A query of the table counts the rows it selects, which hold what was there
\* when the summary began.
LEMMA TableReadCounts ==
    ASSUME UsageShape, SummaryShape, SummaryCounts, ReadTable
    PROVE  SummaryCounts'
<1>1. PICK g \in [FieldSet -> SUBSET Events] : CountedIn(g) /\ LeftInTable(g)
    BY DEF SummaryCounts, ReadTable
<1>2. PICK f, x, got : /\ f = Head(summary.left)[2] /\ got = summary.got
                       /\ x = Queried(got, f)
    OBVIOUS
<1>3. PICK R, V, F : /\ R = {n \in rows[summary.server] : log[n].at >= summary.since}
                     /\ V = Selected("page_view")
                     /\ F = Selected("search_user_failed")
    OBVIOUS
<1>4. /\ UNCHANGED <<rows, log>> /\ summary.source = "sqlite" /\ ReadOn(x)
    BY <1>2, ReadShape DEF ReadTable
<1>5. /\ Head(summary.left) \in HoursOfClock \X FieldSet
      /\ summary'.source = "sqlite" /\ summary'.server = summary.server
      /\ summary'.since = summary.since
      /\ summary'.floor = summary.floor /\ summary'.got = x
    BY <1>4 DEF ReadOn
<1>6. /\ f \in FieldSet
      /\ f = "events" \/ f = "hosts" \/ f = "failures"
      /\ "events" \in FieldSet /\ "hosts" \in FieldSet /\ "failures" \in FieldSet
    BY <1>2, <1>5 DEF FieldSet
<1>7. /\ DOMAIN summary'.left = 1..(Len(summary.left) - 1)
      /\ DOMAIN summary.left = 1..Len(summary.left)
      /\ Len(summary.left) \in Nat \ {0} /\ Head(summary.left) = summary.left[1]
      /\ \A j \in 1..(Len(summary.left) - 1) : summary'.left[j] = summary.left[j + 1]
      /\ \A i \in HoursOfClock, y \in FieldSet :
            ToRead(i, y) => Head(summary.left) = <<i, y>> \/ ToRead(i, y)'
    BY <1>4, ReadsLeft
<1>8. /\ R \in SUBSET Events /\ V \in SUBSET Events /\ F \in SUBSET Events
      /\ \A n \in R : log[n].server = summary.server
      /\ \A n \in V : n \in R /\ log[n].kind = "page_view"
      /\ \A n \in F : n \in R
      /\ \A n \in R : log[n].kind = "page_view" => n \in V
      /\ \A k \in Kinds : OfKind(R, k) = Selected(k)
    BY <1>3 DEF Selected, UsageShape, RowsShape, SummaryShape, OfKind
<1>9. PICK d : d = [y \in FieldSet |->
                      IF y # f THEN g[y]
                      ELSE IF f = "events" THEN R ELSE IF f = "hosts" THEN V ELSE F]
    OBVIOUS
<1>10. /\ \A y \in FieldSet : d[y] \in SUBSET Events
       /\ \A y \in FieldSet : y # f => d[y] = g[y]
       /\ f = "events" => d["events"] = R
       /\ f = "hosts" => d["hosts"] = V
       /\ f = "failures" => d["failures"] = F
       /\ d \in [FieldSet -> SUBSET (1..Len(log'))]
    BY <1>4, <1>6, <1>8, <1>9 DEF Events
<1>11. /\ "events" # "hosts" /\ "events" # "failures" /\ "hosts" # "failures"
    OBVIOUS
<1>12. /\ f = "events" =>
             /\ x.hosts = got.hosts /\ x.failures = got.failures
             /\ \A k \in Kinds : x.events[k] = Cardinality(OfKind(R, k))
       /\ f = "hosts" =>
             /\ x.events = got.events /\ x.failures = got.failures
             /\ x.hosts = Cardinality(V)
       /\ f = "failures" =>
             /\ x.events = got.events /\ x.hosts = got.hosts
             /\ Len(x.failures) <= Cardinality(F)
    <2>1. CASE f = "events"
        BY <1>2, <1>3, <1>8, <1>11, <2>1, QueriedIs
    <2>2. CASE f = "hosts"
        BY <1>2, <1>3, <1>8, <1>11, <2>2, QueriedIs
    <2>3. CASE f = "failures"
        BY <1>2, <1>3, <1>8, <1>11, <2>3, QueriedIs
    <2> QED
        BY <1>6, <2>1, <2>2, <2>3
<1>13. /\ \A k \in Kinds : got.events[k] = Cardinality(OfKind(g["events"], k))
       /\ got.hosts = Cardinality(g["hosts"])
       /\ Len(got.failures) <= Cardinality(g["failures"])
       /\ \A n \in g["hosts"] : log[n].kind = "page_view"
       /\ \A y \in FieldSet : g[y] \subseteq Possible
    BY <1>1, <1>2 DEF CountedIn
<1>14. \A k \in Kinds : x.events[k] = Cardinality(OfKind(d["events"], k))
    BY <1>6, <1>10, <1>11, <1>12, <1>13
<1>15. x.hosts = Cardinality(d["hosts"])
    BY <1>6, <1>10, <1>11, <1>12, <1>13
<1>16. Len(x.failures) <= Cardinality(d["failures"])
    BY <1>6, <1>10, <1>11, <1>12, <1>13
<1>17. \A n \in d["hosts"] : log[n].kind = "page_view"
    BY <1>6, <1>8, <1>10, <1>13
<1>18. \A y \in FieldSet : d[y] \subseteq Possible'
    <2> SUFFICES ASSUME NEW y \in FieldSet, NEW n \in d[y] PROVE n \in Possible'
        OBVIOUS
    <2>1. n \in Events /\ DOMAIN log = Events
        BY <1>10, Events1
    <2>2. log[n].server = summary.server
        <3>1. CASE y = f
            BY <1>6, <1>8, <1>10, <3>1
        <3>2. CASE y # f
            BY <1>4, <1>10, <1>13, <3>2 DEF Possible
        <3> QED
            BY <3>1, <3>2
    <2> QED
        BY <1>4, <1>5, <2>1, <2>2 DEF Possible
<1>19. CountedIn(d)'
    <2>1. \A k \in Kinds : OfKind(d["events"], k)' = OfKind(d["events"], k)
        BY <1>4 DEF OfKind
    <2> QED
        BY <1>4, <1>5, <1>14, <1>15, <1>16, <1>17, <1>18, <2>1 DEF CountedIn
<1>20. LeftInTable(d)'
    <2>1. /\ \A j \in DOMAIN summary.left : summary.left[j][1] = 0
          /\ summary.floor \subseteq rows[summary.server]
          /\ \A n \in summary.floor :
                /\ log[n].at >= summary.since
                /\ n \in g["events"] \/ ToRead(0, "events")
                /\ log[n].kind = "page_view" => n \in g["hosts"] \/ ToRead(0, "hosts")
        BY <1>1 DEF LeftInTable
    <2>2. \A j \in DOMAIN summary'.left : summary'.left[j][1] = 0
        <3> SUFFICES ASSUME NEW j \in DOMAIN summary'.left PROVE summary'.left[j][1] = 0
            OBVIOUS
        <3>1. j \in 1..(Len(summary.left) - 1) /\ j + 1 \in DOMAIN summary.left
            BY <1>7
        <3> QED
            BY <1>7, <2>1, <3>1
    <2>3. 0 \in HoursOfClock /\ Head(summary.left) = <<0, f>>
        <3>1. 1 \in DOMAIN summary.left
            BY <1>7
        <3>2. Head(summary.left)[1] = 0
            BY <1>7, <2>1, <3>1
        <3> QED
            BY <1>2, <1>5, <3>2
    <2>4. \A y \in FieldSet : ToRead(0, y) => y = f \/ ToRead(0, y)'
        BY <1>7, <2>3
    <2>5. \A n \in summary.floor : n \in R
        BY <1>3, <2>1
    <2>6. ASSUME NEW n \in summary.floor
          PROVE  /\ n \in d["events"] \/ ToRead(0, "events")'
                 /\ log[n].kind = "page_view" => n \in d["hosts"] \/ ToRead(0, "hosts")'
        <3>1. n \in d["events"] \/ ToRead(0, "events")'
            <4>1. CASE f = "events"
                BY <1>10, <2>5, <4>1
            <4>2. CASE f # "events"
                BY <1>6, <1>10, <2>1, <2>4, <4>2
            <4> QED
                BY <4>1, <4>2
        <3>2. ASSUME log[n].kind = "page_view"
              PROVE  n \in d["hosts"] \/ ToRead(0, "hosts")'
            <4>1. CASE f = "hosts"
                BY <1>8, <1>10, <2>5, <3>2, <4>1
            <4>2. CASE f # "hosts"
                BY <1>6, <1>10, <2>1, <2>4, <3>2, <4>2
            <4> QED
                BY <4>1, <4>2
        <3> QED
            BY <3>1, <3>2
    <2> QED
        BY <1>4, <1>5, <2>1, <2>2, <2>6 DEF LeftInTable
<1> QED
    BY <1>5, <1>10, <1>19, <1>20 DEF SummaryCounts, Events

\* The events of a summary are its own through every step.
LEMMA SummaryCountsKept ==
    ASSUME UsageInv, UsageNext
    PROVE  SummaryCounts'
<1> USE DEF UsageInv
<1>1. EventsStay
    BY UsageEventsStay
<1>2. ASSUME UNCHANGED summary, UNCHANGED rows PROVE SummaryCounts'
    BY <1>1, <1>2, TotalsStay
<1>3. ASSUME NEW t \in Trackers, Track(t) \/ RunCommand(t) \/ Executes(t) \/ ExecuteFails(t)
      PROVE  SummaryCounts'
    BY <1>2, <1>3 DEF Track, RunCommand, Executes, ExecuteFails
<1>4. ASSUME NEW t \in Trackers, InsertEvent(t) PROVE SummaryCounts'
    <2>1. UNCHANGED summary /\ \A s \in Servers : rows[s] \subseteq rows'[s]
        BY <1>4 DEF InsertEvent, UsageShape, RowsShape
    <2> QED
        BY <1>1, <2>1, TotalsStay DEF SummaryShape
<1>5. ASSUME NEW s \in Servers, AskSummary(s) PROVE SummaryCounts'
    BY <1>5, BegunCounts DEF AskSummary
<1>6. ASSUME NEW s \in Servers, ReplaceServer(s) PROVE SummaryCounts'
    <2>1. CASE summary.server = s
        BY <1>6, <2>1, EndedCounts DEF ReplaceServer
    <2>2. CASE summary.server # s
        <3>1. UNCHANGED summary /\ rows'[summary.server] = rows[summary.server]
            BY <1>6, <2>2 DEF ReplaceServer, UsageShape, RowsShape, SummaryShape
        <3> QED
            BY <1>1, <3>1, TotalsStay
    <2> QED
        BY <2>1, <2>2
<1>7. ASSUME ReadRedis PROVE SummaryCounts'
    BY <1>7, RedisReadCounts
<1>8. ASSUME ReadRedisFails PROVE SummaryCounts'
    BY <1>8, BegunCounts DEF ReadRedisFails, SummaryShape
<1>9. ASSUME ReadTable PROVE SummaryCounts'
    BY <1>9, TableReadCounts
<1>10. ASSUME AnswerSummary PROVE SummaryCounts'
    BY <1>10, EndedCounts DEF AnswerSummary
<1>11. ASSUME ClockTicks PROVE SummaryCounts'
    BY <1>2, <1>11 DEF ClockTicks
<1> QED
    BY <1>3, <1>4, <1>5, <1>6, <1>7, <1>8, <1>9, <1>10, <1>11 DEF UsageNext

\* It holds of every behaviour.
LEMMA UsageInvHolds == UsageSpec => []UsageInv
<1>1. ASSUME UsageInit PROVE UsageInv
    <2>1. UsageShape /\ SummaryShape
        BY <1>1, UsageStarts
    <2>2. PICK g : g = [f \in FieldSet |-> {}]
        OBVIOUS
    <2>3. /\ g \in [FieldSet -> SUBSET Events]
          /\ g["events"] = {} /\ g["hosts"] = {} /\ g["failures"] = {}
          /\ \A f \in FieldSet : g[f] = {}
        BY <2>2 DEF FieldSet
    <2>4. /\ \A k \in Kinds : OfKind({}, k) = {}
          /\ \A h \in HoursOfClock : Slice({}, h) = {}
          /\ Cardinality({}) = 0
        BY FS_EmptySet DEF OfKind, Slice
    <2>5. EmptyHour.hosts = 0 /\ Len(EmptyHour.failures) = 0
          /\ \A k \in Kinds : EmptyHour.events[k] = 0
        BY DEF EmptyHour
    <2>6. CountedInRedis(g)
        <3>1. /\ \A h \in HoursOfClock : redis[h] = EmptyHour
              /\ \A n \in Events : FALSE
              /\ \A t \in Trackers : sending[t].next = Done
            BY <1>1 DEF UsageInit, Events, Resting
        <3>2. ASSUME NEW h \in HoursOfClock
              PROVE  /\ \A k \in Kinds :
                           redis[h].events[k] = Cardinality(OfKind(Slice(g["events"], h), k))
                     /\ redis[h].hosts = Cardinality(Slice(g["hosts"], h))
                     /\ Len(redis[h].failures) <= Cardinality(Slice(g["failures"], h))
            <4>1. /\ Slice(g["events"], h) = {} /\ Slice(g["hosts"], h) = {}
                  /\ Slice(g["failures"], h) = {}
                BY <2>3, <2>4
            <4>2. \A k \in Kinds : OfKind(Slice(g["events"], h), k) = {}
                BY <2>4, <4>1
            <4>3. redis[h] = EmptyHour
                BY <3>1
            <4>4. Len(redis[h].failures) <= Cardinality(Slice(g["failures"], h))
                BY <2>4, <2>5, <4>1, <4>3
            <4> QED
                BY <2>4, <2>5, <4>1, <4>2, <4>3, <4>4
        <3> QED
            BY <2>3, <3>1, <3>2 DEF CountedInRedis
    <2>7. CountedIn(g) /\ summary.source = "none"
        <3>1. summary.got = EmptyHour /\ summary.source = "none"
            BY <1>1 DEF UsageInit, NoSummary
        <3>2. Len(summary.got.failures) <= Cardinality(g["failures"])
            BY <2>3, <2>4, <2>5, <3>1
        <3> QED
            BY <2>3, <2>4, <2>5, <3>1, <3>2 DEF CountedIn
    <2> QED
        BY <2>1, <2>3, <2>6, <2>7 DEF UsageInv, RedisCounts, SummaryCounts
<1>2. ASSUME UsageInv, UsageNext PROVE UsageInv'
    BY <1>2, ShapeKept, SummaryShapeKept, RedisCountsKept, SummaryCountsKept DEF UsageInv
<1>3. ASSUME UsageInv, UNCHANGED usageVars PROVE UsageInv'
    <2> USE <1>3
    <2>1. UsageShape' /\ SummaryShape'
        BY DEF UsageInv, usageVars, UsageShape, LogShape, RedisShape, RowsShape, SendingShape,
               SummaryShape, Events, Sent, EventOf, Commands, NoSummary
    <2>2. RedisCounts'
        <3>1. PICK c \in [FieldSet -> SUBSET Events] : CountedInRedis(c)
            BY DEF UsageInv, RedisCounts
        <3>2. UNCHANGED <<redis, log, sending>>
            BY DEF usageVars
        <3>3. CountedInRedis(c)' <=> CountedInRedis(c)
            BY <3>2 DEF CountedInRedis, Events, Slice, HourOf, OfKind, Sent
        <3>4. Events' = Events
            BY <3>2 DEF Events
        <3> QED
            BY <3>1, <3>3, <3>4 DEF RedisCounts
    <2>3. SummaryCounts'
        <3>1. UNCHANGED summary /\ EventsStay
            BY Events1 DEF UsageInv, usageVars, EventsStay
        <3> QED
            BY <3>1, TotalsStay DEF UsageInv, usageVars
    <2> QED
        BY <2>1, <2>2, <2>3 DEF UsageInv
<1> QED
    BY <1>1, <1>2, <1>3, PTL DEF UsageSpec

\* A state that counts each event once is of the model's types.
LEMMA UsageInvTypes == UsageInv => UsageTypeOK
<1> SUFFICES ASSUME UsageInv PROVE UsageTypeOK
    OBVIOUS
<1> USE DEF UsageInv
<1>1. /\ Len(log) \in Nat /\ MaxEvents \in Nat /\ Len(log) <= MaxEvents
      /\ DOMAIN log = Events
    BY Events1
<1>2. ASSUME NEW S \in SUBSET Events
      PROVE  Cardinality(S) \in 0..MaxEvents
    BY <1>1, PartOfEvents
<1>3. ASSUME NEW l, IsList(l), NEW S \in SUBSET Events, Len(l) <= Cardinality(S)
      PROVE  Len(l) <= MaxEvents
    <2>1. Len(l) \in Nat /\ Cardinality(S) \in 0..MaxEvents
        BY <1>2, <1>3, ListLength
    <2> QED
        BY <1>1, <1>3, <2>1
<1>4. \A h \in HoursOfClock : HourType(redis[h])
    <2>1. PICK c \in [FieldSet -> SUBSET Events] : CountedInRedis(c)
        BY DEF RedisCounts
    <2> SUFFICES ASSUME NEW h \in HoursOfClock PROVE HourType(redis[h])
        OBVIOUS
    <2>2. HourShape(redis[h])
        BY DEF UsageShape, RedisShape
    <2>3. /\ Slice(c["hosts"], h) \in SUBSET Events
          /\ Slice(c["failures"], h) \in SUBSET Events
          /\ \A k \in Kinds : OfKind(Slice(c["events"], h), k) \in SUBSET Events
        BY DEF Slice, OfKind, FieldSet
    <2>4. \A k \in Kinds : redis[h].events[k] \in 0..MaxEvents
        BY <1>2, <2>1, <2>3 DEF CountedInRedis
    <2>5. redis[h].hosts \in 0..MaxEvents
        BY <1>2, <2>1, <2>3 DEF CountedInRedis
    <2>6. Len(redis[h].failures) <= MaxEvents
        BY <1>3, <2>1, <2>2, <2>3 DEF CountedInRedis, HourShape
    <2> QED
        BY <2>2, <2>4, <2>5, <2>6 DEF HourType, HourShape
<1>5. HourType(summary.got)
    <2>1. PICK g \in [FieldSet -> SUBSET Events] : CountedIn(g)
        BY DEF SummaryCounts
    <2>2. HourShape(summary.got)
        BY DEF SummaryShape
    <2>3. /\ g["hosts"] \in SUBSET Events /\ g["failures"] \in SUBSET Events
          /\ \A k \in Kinds : OfKind(g["events"], k) \in SUBSET Events
        BY DEF OfKind, FieldSet
    <2>4. \A k \in Kinds : summary.got.events[k] \in 0..MaxEvents
        BY <1>2, <2>1, <2>3 DEF CountedIn
    <2>5. summary.got.hosts \in 0..MaxEvents
        BY <1>2, <2>1, <2>3 DEF CountedIn
    <2>6. Len(summary.got.failures) <= MaxEvents
        BY <1>3, <2>1, <2>2, <2>3 DEF CountedIn, HourShape
    <2> QED
        BY <2>2, <2>4, <2>5, <2>6 DEF HourType, HourShape
<1>6. \A n \in DOMAIN log : log[n] \in [kind : Kinds, at : 0..clock, server : Servers,
                                       stored : SUBSET Stores]
    <2> SUFFICES ASSUME NEW n \in Events
                 PROVE  log[n] \in [kind : Kinds, at : 0..clock, server : Servers,
                                    stored : SUBSET Stores]
        BY <1>1
    <2>1. log[n] \in EventType /\ log[n].at <= clock /\ clock \in Nat
        BY Events1 DEF UsageShape, LogShape
    <2>2. log[n].at \in 0..clock
        BY <2>1 DEF EventType
    <2> QED
        BY <2>1, <2>2 DEF EventType
<1> QED
    BY <1>1, <1>4, <1>5, <1>6
    DEF UsageTypeOK, UsageShape, LogShape, RedisShape, RowsShape, SendingShape, SummaryShape,
        Events

\* Every variable of the statistics keeps its type, whatever servers, threads and
\* hours there are: no count passes the events tracked.
THEOREM UsageTypes == UsageSpec => []UsageTypeOK
BY UsageInvHolds, UsageInvTypes, PTL

\* An answer counts the events it should.
LEMMA AnswerCounts == UsageInv => CountsOfEvents
<1> SUFFICES ASSUME UsageInv, Answered PROVE CountsOfEvents
    BY DEF CountsOfEvents
<1> USE DEF UsageInv
<1>1. PICK g \in [FieldSet -> SUBSET Events] :
         /\ CountedIn(g)
         /\ summary.source = "redis" => LeftInRedis(g)
         /\ summary.source = "sqlite" => LeftInTable(g)
    BY DEF SummaryCounts
<1>2. summary.source = "redis" \/ summary.source = "sqlite"
    BY DEF Answered, SummaryShape, Stores
<1>3. \A h, f : ~ToRead(h, f)
    <2>1. DOMAIN summary.left = {}
        BY DEF Answered
    <2> QED
        BY <2>1 DEF ToRead
<1>4. \A n \in summary.floor : n \in g["events"]
    BY <1>1, <1>2, <1>3 DEF LeftInRedis, LeftInTable
<1>5. summary.source = "sqlite" =>
         \A n \in summary.floor : log[n].kind = "page_view" => n \in g["hosts"]
    BY <1>1, <1>3 DEF LeftInTable
<1>6. /\ DOMAIN log = Events /\ Possible \subseteq Events
      /\ g["events"] \in SUBSET Possible /\ g["hosts"] \in SUBSET Possible
      /\ g["events"] \in SUBSET Events /\ g["hosts"] \in SUBSET Events
    BY <1>1, Events1 DEF CountedIn, FieldSet, Possible
<1>7. ASSUME NEW S \in SUBSET Events, NEW T \in SUBSET S
      PROVE  /\ Cardinality(S) \in Nat /\ Cardinality(T) \in Nat
             /\ Cardinality(T) <= Cardinality(S)
    BY PartOfEvents
<1>8. ASSUME NEW k \in Kinds
      PROVE  /\ summary.got.events[k] >= Cardinality(OfKind(summary.floor, k))
             /\ summary.got.events[k] <= Cardinality(OfKind(Possible, k))
    <2>1. summary.got.events[k] = Cardinality(OfKind(g["events"], k))
        BY <1>1 DEF CountedIn
    <2>2. /\ OfKind(summary.floor, k) \subseteq OfKind(g["events"], k)
          /\ OfKind(g["events"], k) \subseteq OfKind(Possible, k)
          /\ OfKind(Possible, k) \in SUBSET Events
          /\ OfKind(g["events"], k) \in SUBSET Events
        BY <1>4, <1>6 DEF OfKind
    <2> QED
        BY <1>7, <2>1, <2>2
<1>9. PICK v, w, p, l : /\ v = OfKind(g["events"], "page_view") /\ w = g["hosts"]
                        /\ p = OfKind(Possible, "page_view")
                        /\ l = OfKind(summary.floor, "page_view")
    OBVIOUS
<1>10. /\ w \subseteq p /\ v \subseteq p /\ l \subseteq v /\ p \in SUBSET Events
       /\ w \in SUBSET Events /\ v \in SUBSET Events
       /\ summary.source = "sqlite" => l \subseteq w
    BY <1>1, <1>4, <1>5, <1>6, <1>9 DEF OfKind, CountedIn
<1>11. /\ summary.got.events["page_view"] = Cardinality(v)
       /\ summary.got.hosts = Cardinality(w)
    BY <1>1, <1>9 DEF CountedIn, Kinds
<1>12. /\ \/ HostViews = Cardinality(w)
          \/ HostViews = Cardinality(v) /\ summary.source = "redis"
       /\ summary.source = "redis" => HostViews >= Cardinality(v)
    BY <1>7, <1>10, <1>11 DEF HostViews
<1>13. HostViews >= Cardinality(l) /\ HostViews <= Cardinality(p)
    BY <1>2, <1>7, <1>10, <1>12
<1> QED
    BY <1>8, <1>9, <1>13 DEF CountsOfEvents

\* Whatever is lost or runs in between, an answered summary counts every event
\* that was stored before it began, and none twice.
THEOREM EventsCountedOnce == UsageSpec => []CountsOfEvents
BY UsageInvHolds, AnswerCounts, PTL

-----------------------------------------------------------------------------
(* which failures a summary shows *)

Others == Cardinality(Trackers) - 1

\* The threads that may still put a failure older than n before it.
Overtaking(n) ==
    {t \in Trackers : sending[t].next \in 1..2 /\ EventOf(t).at < log[n].at}

OlderIn(list, i, at) == {j \in 1..i : list[j] < at}

\* A failure of that time is in the list, or was cut from its end, and those put
\* before it that are older, with the m that may be, are not more than one for
\* each other thread.
HoldsPlace(list, at, m) ==
    \E i \in 0..Len(list) :
        /\ (i # 0 /\ list[i] = at) \/ (i = Len(list) /\ i >= KeptFailures)
        /\ Cardinality(OlderIn(list, i, at)) + m <= Others

Pushed(n) ==
    /\ log[n].kind = "search_user_failed"
    /\ \/ "redis" \in log[n].stored
       \/ \E t \in Trackers : Sent(t) = n /\ sending[t].next \in 3..4

NewestKept ==
    \A n \in Events : Pushed(n) =>
        HoldsPlace(redis[HourOf(log[n].at)].failures, log[n].at, Cardinality(Overtaking(n)))

Times == 0..LastTick
TimesListed ==
    /\ \A h \in HoursOfClock : redis[h].failures \in Seq(Times)
    /\ summary.got.failures \in Seq(Times)

\* The times found have a failure of that time, or enough that are not older.
Covered(list, at) ==
    \/ \E i \in DOMAIN list : list[i] = at
    \/ Cardinality({i \in DOMAIN list : list[i] >= at}) >= SureToShow

NewestRead ==
    \A n \in summary.floor :
        log[n].kind = "search_user_failed" /\ log[n].at >= summary.since =>
            \/ ToRead(IF summary.source = "redis" THEN HourOf(log[n].at) ELSE 0, "failures")
            \/ Covered(summary.got.failures, log[n].at)

NewestInv == UsageInv /\ TimesListed /\ NewestKept /\ NewestRead

-----------------------------------------------------------------------------
LEMMA ThreadsAre ==
    /\ IsFiniteSet(Trackers) /\ Cardinality(Trackers) \in Nat /\ Others \in Int
    /\ \A T \in SUBSET Trackers :
          IsFiniteSet(T) /\ Cardinality(T) \in Nat
          /\ \A U \in SUBSET T : Cardinality(U) <= Cardinality(T)
    /\ \A T \in SUBSET Trackers : \A t \in Trackers \ T : Cardinality(T) <= Others
    /\ \A T \in SUBSET Trackers : \A t \in T : Cardinality(T \ {t}) = Cardinality(T) - 1
<1>1. IsFiniteSet(Trackers) /\ Cardinality(Trackers) \in Nat
    BY TrackersAssumption, FS_CardinalityType
<1>2. \A T \in SUBSET Trackers : IsFiniteSet(T) /\ Cardinality(T) \in Nat
    BY <1>1, FS_Subset, FS_CardinalityType
<1>3. ASSUME NEW T \in SUBSET Trackers, NEW U \in SUBSET T
      PROVE  Cardinality(U) <= Cardinality(T)
    BY <1>2, FS_Subset
<1>4. ASSUME NEW T \in SUBSET Trackers, NEW t \in T
      PROVE  Cardinality(T \ {t}) = Cardinality(T) - 1
    BY <1>2, FS_RemoveElement
<1>5. ASSUME NEW T \in SUBSET Trackers, NEW t \in Trackers \ T
      PROVE  Cardinality(T) <= Others
    <2>1. T \in SUBSET (Trackers \ {t}) /\ Trackers \ {t} \in SUBSET Trackers
        OBVIOUS
    <2>2. Cardinality(T) <= Cardinality(Trackers \ {t})
        BY <1>3, <2>1
    <2> QED
        BY <1>4, <2>2 DEF Others
<1> QED
    BY <1>1, <1>2, <1>3, <1>4, <1>5 DEF Others

LEMMA OlderAre ==
    ASSUME NEW list, NEW i \in Nat, NEW at
    PROVE  /\ OlderIn(list, i, at) \subseteq 1..i /\ IsFiniteSet(OlderIn(list, i, at))
           /\ Cardinality(OlderIn(list, i, at)) \in Nat
           /\ \A T \in SUBSET OlderIn(list, i, at) :
                 IsFiniteSet(T) /\ Cardinality(T) \in Nat
                 /\ Cardinality(T) <= Cardinality(OlderIn(list, i, at))
<1>1. IsFiniteSet(1..i) /\ OlderIn(list, i, at) \in SUBSET (1..i)
    BY FS_Interval DEF OlderIn
<1>2. IsFiniteSet(OlderIn(list, i, at))
    BY <1>1, FS_Subset
<1> QED
    BY <1>1, <1>2, FS_Subset, FS_CardinalityType

\* A place is held with fewer threads that may overtake.
LEMMA PlaceStays ==
    ASSUME NEW list \in Seq(Times), NEW at, NEW m \in Nat, NEW l \in Nat, l <= m,
           HoldsPlace(list, at, m)
    PROVE  HoldsPlace(list, at, l)
<1>1. PICK i \in 0..Len(list) :
        /\ (i # 0 /\ list[i] = at) \/ (i = Len(list) /\ i >= KeptFailures)
        /\ Cardinality(OlderIn(list, i, at)) + m <= Others
    BY DEF HoldsPlace
<1>4. i \in Nat
    BY LenProperties
<1>2. Cardinality(OlderIn(list, i, at)) \in Nat
    BY <1>4, OlderAre
<1>3. Cardinality(OlderIn(list, i, at)) + l <= Others
    BY <1>1, <1>2, ThreadsAre
<1> QED
    BY <1>1, <1>3 DEF HoldsPlace

\* It is held when a failure is put before it, which was one of those threads'
\* if it is older.
LEMMA PlaceBehind ==
    ASSUME NEW list \in Seq(Times), NEW x \in Times, NEW at \in Times,
           NEW m \in Nat, NEW l \in Nat,
           l <= m, x < at => l + 1 <= m, HoldsPlace(list, at, m)
    PROVE  HoldsPlace(<<x>> \o list, at, l)
<1> DEFINE new == <<x>> \o list
<1>1. PICK i \in 0..Len(list) :
        /\ (i # 0 /\ list[i] = at) \/ (i = Len(list) /\ i >= KeptFailures)
        /\ Cardinality(OlderIn(list, i, at)) + m <= Others
    BY DEF HoldsPlace
<1>2. Len(list) \in Nat /\ i \in Nat /\ i + 1 \in Nat
    BY LenProperties
<1>3. /\ Len(new) = Len(list) + 1 /\ new[1] = x
      /\ \A j \in 1..Len(list) : new[j + 1] = list[j]
    <2>1. <<x>> \in Seq(Times) /\ Len(<<x>>) = 1 /\ <<x>>[1] = x
        OBVIOUS
    <2> QED
        BY <1>2, <2>1, ConcatProperties
<1> DEFINE A == OlderIn(list, i, at)
           B == OlderIn(new, i + 1, at)
           shift == [j \in B \ {1} |-> j - 1]
<1>4. IsFiniteSet(A) /\ IsFiniteSet(B) /\ Cardinality(A) \in Nat /\ Cardinality(B) \in Nat
    BY <1>2, OlderAre
<1> HIDE DEF new
<1>5. shift \in Injection(B \ {1}, A)
    <2>1. \A j \in B \ {1} : j \in Nat /\ j - 1 \in 1..i /\ new[j] = list[j - 1] /\ new[j] < at
        <3> SUFFICES ASSUME NEW j \in B \ {1}
                     PROVE  j \in Nat /\ j - 1 \in 1..i /\ new[j] = list[j - 1] /\ new[j] < at
            OBVIOUS
        <3>1. j \in 1..(i + 1) /\ j # 1 /\ new[j] < at
            BY DEF OlderIn
        <3>2. j - 1 \in 1..Len(list) /\ (j - 1) + 1 = j /\ j - 1 \in 1..i
            BY <1>1, <1>2, <3>1
        <3> QED
            BY <1>3, <3>1, <3>2
    <2>2. \A j \in B \ {1} : j - 1 \in A
        BY <2>1 DEF OlderIn
    <2>3. shift \in [B \ {1} -> A]
        BY <2>2
    <2>4. \A j, k \in B \ {1} : shift[j] = shift[k] => j = k
        BY <2>1
    <2> HIDE DEF shift
    <2> QED
        BY <2>3, <2>4 DEF Injection, IsInjective
<1> HIDE DEF A, B, shift
<1>6. Cardinality(B \ {1}) <= Cardinality(A)
    BY <1>4, <1>5, FS_Injection
<1>10. Cardinality(A) + m <= Others /\ Others \in Int
    BY <1>1, ThreadsAre DEF A
<1>7. Cardinality(B) + l <= Others
    <2>1. CASE 1 \in B
        <3>1. x < at
            BY <1>3, <2>1 DEF B, OlderIn
        <3>2. Cardinality(B \ {1}) = Cardinality(B) - 1
            BY <1>4, <2>1, FS_RemoveElement
        <3> QED
            BY <1>4, <1>6, <1>10, <3>1, <3>2
    <2>2. CASE 1 \notin B
        <3>1. Cardinality(B) <= Cardinality(A)
            <4>1. B \ {1} = B
                BY <2>2
            <4> QED
                BY <1>6, <4>1
        <3> QED
            BY <1>4, <1>6, <1>10, <3>1
    <2> QED
        BY <2>1, <2>2
<1>8. (i + 1 # 0 /\ new[i + 1] = at) \/ (i + 1 = Len(new) /\ i + 1 >= KeptFailures)
    <2>1. KeptFailures \in Nat
        BY SummaryAssumption
    <2> QED
        BY <1>1, <1>2, <1>3, <2>1
<1>9. i + 1 \in 0..Len(new)
    BY <1>2, <1>3
<1> QED
    BY <1>7, <1>8, <1>9 DEF HoldsPlace, B, new

\* It is held when the list is cut.
LEMMA PlaceCut ==
    ASSUME NEW list \in Seq(Times), NEW at, NEW m \in Nat, HoldsPlace(list, at, m)
    PROVE  HoldsPlace(SubSeq(list, 1, Lesser(KeptFailures, Len(list))), at, m)
<1> DEFINE n == Lesser(KeptFailures, Len(list))
           new == SubSeq(list, 1, n)
<1>1. PICK i \in 0..Len(list) :
        /\ (i # 0 /\ list[i] = at) \/ (i = Len(list) /\ i >= KeptFailures)
        /\ Cardinality(OlderIn(list, i, at)) + m <= Others
    BY DEF HoldsPlace
<1>2. Len(list) \in Nat /\ i \in Nat /\ KeptFailures \in Nat
    BY LenProperties, SummaryAssumption
<1>3. n \in 0..Len(list) /\ n <= KeptFailures /\ (n = KeptFailures \/ n = Len(list))
    BY <1>2 DEF Lesser
<1> HIDE DEF n
<1>4. Len(new) = n /\ \A j \in 1..n : new[j] = list[j]
    <2>1. \A j \in 1..n : list[j] \in Times
        BY <1>3, ElementOfSeq
    <2> QED
        BY <1>2, <1>3, <2>1, SubSeqProperties
<1> DEFINE k == IF i <= n THEN i ELSE n
<1>5. k \in 0..n /\ k <= i /\ k \in Nat
    BY <1>2, <1>3
<1>6. (k # 0 /\ new[k] = at) \/ (k = Len(new) /\ k >= KeptFailures)
    BY <1>1, <1>2, <1>3, <1>4
<1> HIDE DEF new
<1>7. OlderIn(new, k, at) \subseteq OlderIn(list, i, at)
    BY <1>2, <1>3, <1>4, <1>5 DEF OlderIn
<1>8. /\ Cardinality(OlderIn(new, k, at)) <= Cardinality(OlderIn(list, i, at))
      /\ Cardinality(OlderIn(new, k, at)) \in Nat /\ Cardinality(OlderIn(list, i, at)) \in Nat
    BY <1>2, <1>7, OlderAre
<1>9. Cardinality(OlderIn(new, k, at)) + m <= Others
    BY <1>1, <1>8, ThreadsAre
<1> QED
    BY <1>4, <1>5, <1>6, <1>9 DEF HoldsPlace, new, n

LEMMA LesserIs ==
    \A m, n \in Nat : /\ Lesser(m, n) \in Nat /\ Lesser(m, n) <= m /\ Lesser(m, n) <= n
                      /\ Lesser(m, n) = m \/ Lesser(m, n) = n
BY DEF Lesser

\* What an hour shows of its list holds a failure that has its place there, or
\* enough that are not older.
LEMMA PlaceIsRead ==
    ASSUME NEW list \in Seq(Times), NEW since \in Int
    PROVE  /\ FailuresRead(list, since) \in Seq(Times)
           /\ \A at \in Times, m \in Nat : at >= since /\ HoldsPlace(list, at, m) =>
                 Covered(FailuresRead(list, since), at)
<1> DEFINE q == Lesser(2 * SummaryLimit + 1, Len(list))
           places == {i \in 1..q : list[i] >= since}
           ahead == [i \in places |-> {j \in places : j < i}]
           n == Cardinality(places)
           read == [i \in 1..n |-> CHOOSE k \in places : Cardinality(ahead[k]) = i - 1]
           res == FailuresRead(list, since)
<1>0. DOMAIN list = 1..Len(list)
    BY LenProperties
<1>1. /\ Len(list) \in Nat /\ KeptFailures \in Nat /\ SummaryLimit \in Nat
      /\ \A i \in 1..Len(list) : list[i] \in Times /\ list[i] \in Nat
    BY LenProperties, ElementOfSeq, SummaryAssumption, UsageBoundsAssumption DEF Times
<1>2. q \in 0..Len(list) /\ q <= 2 * SummaryLimit + 1 /\ q \in Nat
      /\ (q = 2 * SummaryLimit + 1 \/ q = Len(list))
    <2>1. 2 * SummaryLimit + 1 \in Nat
        BY <1>1
    <2>2. q \in Nat /\ q <= 2 * SummaryLimit + 1 /\ q <= Len(list)
          /\ (q = 2 * SummaryLimit + 1 \/ q = Len(list))
        BY <1>1, <2>1, LesserIs
    <2> HIDE DEF q
    <2> QED
        BY <1>1, <2>2
<1> HIDE DEF q
<1>3. /\ IsFiniteSet(places) /\ IsOrder(places, ahead) /\ n \in Nat
      /\ \A i \in places : i \in 1..q /\ i \in DOMAIN list
    <2>1. IsFiniteSet(1..q) /\ places \in SUBSET (1..q)
        BY <1>2, FS_Interval
    <2>2. IsFiniteSet(places)
        BY <2>1, FS_Subset
    <2>5. \A i \in 1..q : i \in 1..Len(list) /\ i \in Nat
        BY <1>1, <1>2
    <2>3. \A i \in places : i \in 1..q /\ i \in Nat /\ i \in DOMAIN list
        BY <1>0, <2>5
    <2> HIDE DEF places
    <2>4. IsOrder(places, ahead)
        BY <2>3 DEF IsOrder
    <2> QED
        BY <2>2, <2>3, <2>4, FS_CardinalityType
<1>4. \A i \in 1..Len(list) : i \in 1..q /\ list[i] >= since => i \in places
    OBVIOUS
<1>5. res = [i \in 1..n |-> list[read[i]]]
    <2>1. \A i \in 1..n : read[i] = CHOOSE k \in places : Cardinality({j \in places : j < k}) = i - 1
        OBVIOUS
    <2>2. InOrder(places, LAMBDA i, j : i < j)
            = [i \in 1..n |-> CHOOSE k \in places : Cardinality({j \in places : j < k}) = i - 1]
        BY DEF InOrder
    <2> QED
        BY <2>1, <2>2 DEF FailuresRead, q
<1> HIDE DEF places, ahead
<1>6. /\ \A i \in 1..n : read[i] \in places
      /\ \A k \in places : /\ Cardinality(ahead[k]) + 1 \in 1..n
                            /\ read[Cardinality(ahead[k]) + 1] = k
    <2>1. read = ByRank(places, ahead)
        BY DEF ByRank
    <2> HIDE DEF read
    <2> QED
        BY <1>3, <2>1, ListedByRank
<1>7. \A j, k \in places : Cardinality(ahead[j]) = Cardinality(ahead[k]) => j = k
    BY <1>3, RanksAre
<1> HIDE DEF read, res
<1>8. res \in [1..n -> Times] /\ res \in Seq(Times) /\ DOMAIN res = 1..n
    <2>1. \A i \in 1..n : list[read[i]] \in Times
        BY <1>1, <1>3, <1>6
    <2>2. res \in [1..n -> Times]
        BY <1>5, <2>1
    <2> QED
        BY <1>3, <2>2
<1>9. \A k \in places : /\ Cardinality(ahead[k]) + 1 \in 1..n
                         /\ res[Cardinality(ahead[k]) + 1] = list[k]
    BY <1>5, <1>6
<1>10. ASSUME NEW at \in Times, NEW m \in Nat, at >= since, HoldsPlace(list, at, m)
       PROVE  Covered(res, at)
    <2>1. at \in Nat
        BY UsageBoundsAssumption DEF Times
    <2>10. PICK i \in 0..Len(list) :
            /\ (i # 0 /\ list[i] = at) \/ (i = Len(list) /\ i >= KeptFailures)
            /\ Cardinality(OlderIn(list, i, at)) + m <= Others
        BY <1>10 DEF HoldsPlace
    <2>11. CASE i # 0 /\ list[i] = at /\ i <= q
        <3>1. i \in places
            <4>1. i \in 1..Len(list) /\ i \in 1..q
                BY <1>1, <1>2, <2>11
            <4> QED
                BY <1>4, <1>10, <2>11, <4>1
        <3> QED
            BY <1>8, <1>9, <2>11, <3>1 DEF Covered
    <2>12. CASE ~(i # 0 /\ list[i] = at /\ i <= q)
        <3>1. q <= i /\ q >= Lesser(KeptFailures, 2 * SummaryLimit + 1) /\ i \in Nat
            <4>1. i \in Nat /\ i <= Len(list)
                BY <1>1
            <4>2. CASE i = Len(list) /\ i >= KeptFailures
                BY <1>1, <1>2, <4>1, <4>2 DEF Lesser
            <4>3. CASE i # 0 /\ list[i] = at
                BY <1>1, <1>2, <2>12, <4>1, <4>3 DEF Lesser
            <4> QED
                BY <2>10, <4>2, <4>3
        <3> DEFINE old == OlderIn(list, q, at)
                   new == (1..q) \ old
                   shown == {k \in DOMAIN res : res[k] >= at}
                   rank == [k \in new |-> Cardinality(ahead[k]) + 1]
        <3>2. Cardinality(old) <= Others
            <4>1. OlderIn(list, q, at) \subseteq OlderIn(list, i, at)
                BY <1>2, <3>1 DEF OlderIn
            <4>2. /\ Cardinality(old) <= Cardinality(OlderIn(list, i, at))
                  /\ Cardinality(old) \in Nat /\ Cardinality(OlderIn(list, i, at)) \in Nat
                BY <1>2, <3>1, <4>1, OlderAre
            <4> QED
                BY <2>10, <4>2, ThreadsAre
        <3>3. IsFiniteSet(new) /\ Cardinality(new) = q - Cardinality(old)
            <4>1. IsFiniteSet(1..q) /\ Cardinality(1..q) = q
                BY <1>2, FS_Interval
            <4>2. old \subseteq 1..q
                BY <1>2, OlderAre
            <4> HIDE DEF old
            <4>3. IsFiniteSet(new)
                  /\ Cardinality(new) = Cardinality(1..q) - Cardinality((1..q) \cap old)
                BY <4>1, FS_Difference
            <4>4. (1..q) \cap old = old
                BY <4>2
            <4> QED
                BY <4>1, <4>3, <4>4
        <3>4. \A j \in new : j \in places /\ list[j] >= at
            <4> SUFFICES ASSUME NEW j \in new PROVE j \in places /\ list[j] >= at
                OBVIOUS
            <4>1. j \in 1..q /\ ~(list[j] < at) /\ j \in 1..Len(list)
                BY <1>2 DEF OlderIn
            <4>2. list[j] \in Nat /\ at \in Nat
                BY <1>1, <2>1, <4>1
            <4>3. list[j] >= at
                BY <4>1, <4>2
            <4>4. list[j] >= since
                BY <1>10, <4>2, <4>3
            <4> QED
                BY <1>4, <4>1, <4>3, <4>4
        <3> HIDE DEF old, new
        <3>5. rank \in Injection(new, shown)
            <4>1. \A j \in new : rank[j] \in shown
                BY <1>8, <1>9, <3>4
            <4>2. \A j, k \in new : rank[j] = rank[k] => j = k
                <5>1. \A k \in places : Cardinality(ahead[k]) \in Nat
                    BY <1>3, RanksAre
                <5> QED
                    BY <1>7, <3>4, <5>1
            <4>3. rank \in [new -> shown]
                BY <4>1
            <4> HIDE DEF rank, shown
            <4> QED
                BY <4>2, <4>3 DEF Injection, IsInjective
        <3>6. IsFiniteSet(shown) /\ Cardinality(shown) \in Nat
            <4>1. IsFiniteSet(1..n) /\ shown \in SUBSET (1..n)
                BY <1>3, <1>8, FS_Interval
            <4> HIDE DEF shown
            <4> QED
                BY <4>1, FS_Subset, FS_CardinalityType
        <3> HIDE DEF rank, shown
        <3>7. Cardinality(new) <= Cardinality(shown)
            BY <3>5, <3>6, FS_Injection
        <3>8. Cardinality(shown) >= Lesser(KeptFailures, 2 * SummaryLimit + 1) - Others
            <4>1. Lesser(KeptFailures, 2 * SummaryLimit + 1) \in Nat
                BY <1>1 DEF Lesser
            <4>2. Cardinality(old) \in Nat
                BY <1>2, OlderAre DEF old
            <4> QED
                BY <1>2, <3>1, <3>2, <3>3, <3>6, <3>7, <4>1, <4>2, ThreadsAre
        <3>9. Cardinality(shown) >= SureToShow
            <4>1. Lesser(KeptFailures, 2 * SummaryLimit + 1) \in Nat
                BY <1>1 DEF Lesser
            <4>2. SureToShow = Lesser(SummaryLimit, Lesser(KeptFailures, 2 * SummaryLimit + 1) - Others)
                BY DEF SureToShow, Others
            <4> QED
                BY <1>1, <3>6, <3>8, <4>1, <4>2, ThreadsAre DEF Lesser
        <3> QED
            BY <3>9 DEF Covered, shown
    <2> QED
        BY <2>11, <2>12
<1> QED
    BY <1>8, <1>10 DEF res

\* Failures keep their places when no list changes and no thread is added that
\* may overtake.
LEMMA PlacesStay ==
    ASSUME UsageShape, TimesListed, NewestKept, EventsStay,
           \A h \in HoursOfClock : redis'[h].failures = redis[h].failures,
           \A n \in Events : Overtaking(n)' \subseteq Overtaking(n),
           \A n \in Events' : Pushed(n)' => n \in Events /\ Pushed(n)
    PROVE  NewestKept'
<1> SUFFICES ASSUME NEW n \in Events', Pushed(n)'
             PROVE  HoldsPlace(redis[HourOf(log[n].at)].failures, log[n].at,
                               Cardinality(Overtaking(n)))'
    BY DEF NewestKept
<1>1. n \in Events /\ Pushed(n)
    OBVIOUS
<1> DEFINE at == log[n].at
           list == redis[HourOf(at)].failures
           m == Cardinality(Overtaking(n))
           l == Cardinality(Overtaking(n)')
<1>2. log'[n].at = at /\ HourOf(at) \in HoursOfClock
    BY <1>1, Events1 DEF EventsStay
<1>3. redis'[HourOf(log'[n].at)].failures = list /\ list \in Seq(Times)
    BY <1>2 DEF TimesListed
<1>4. HoldsPlace(list, at, m)
    BY <1>1 DEF NewestKept
<1>5. m \in Nat /\ l \in Nat /\ l <= m
    <2>1. Overtaking(n) \in SUBSET Trackers /\ Overtaking(n)' \in SUBSET Overtaking(n)
        BY <1>1 DEF Overtaking
    <2>2. Overtaking(n)' \in SUBSET Trackers
        BY <2>1
    <2> QED
        BY <2>1, <2>2, ThreadsAre
<1> HIDE DEF at, list, m, l
<1>6. HoldsPlace(list, at, l)
    BY <1>3, <1>4, <1>5, PlaceStays
<1>7. HourOf(log[n].at)' = HourOf(log'[n].at)
    BY DEF HourOf
<1>8. /\ redis[HourOf(log[n].at)].failures' = list /\ log[n].at' = at
      /\ Cardinality(Overtaking(n))' = l
    BY <1>2, <1>3, <1>7 DEF l
<1> QED
    BY <1>6, <1>8 DEF HoldsPlace, OlderIn, Others

\* A thread that goes on does not begin to overtake.
LEMMA FewerOvertake ==
    ASSUME UsageShape, EventsStay,
           \A t \in Trackers : sending'[t].next \in 1..2 =>
               sending[t].next \in 1..2 /\ sending'[t].event = sending[t].event
    PROVE  \A n \in Events : Overtaking(n)' \subseteq Overtaking(n)
<1> SUFFICES ASSUME NEW n \in Events, NEW t \in Overtaking(n)' PROVE t \in Overtaking(n)
    OBVIOUS
<1>1. /\ t \in Trackers /\ sending'[t].next \in 1..2
      /\ log'[sending'[t].event].at < log'[n].at
    BY DEF Overtaking, EventOf, Sent
<1>2. sending[t].next \in 1..2 /\ sending'[t].event = Sent(t)
    BY <1>1 DEF Sent
<1>3. Sent(t) \in Events
    BY <1>1, <1>2, CommandsAre DEF Done
<1>4. log'[Sent(t)].at = log[Sent(t)].at /\ log'[n].at = log[n].at
    BY <1>3 DEF EventsStay
<1> QED
    BY <1>1, <1>2, <1>4 DEF Overtaking, EventOf

\* Only a failure that was pushed is, when none is on its way to be.
LEMMA PushedBefore ==
    ASSUME UsageShape, EventsStay, Len(log') = Len(log),
           \A n \in Events : "redis" \in log'[n].stored =>
               \/ "redis" \in log[n].stored
               \/ log[n].kind = "search_user_failed" => Pushed(n),
           \A t \in Trackers : sending'[t].next \in 3..4 =>
               \/ sending[t].next \in 3..4 /\ sending'[t].event = sending[t].event
               \/ log'[sending'[t].event].kind # "search_user_failed"
    PROVE  \A n \in Events' : Pushed(n)' => n \in Events /\ Pushed(n)
<1> SUFFICES ASSUME NEW n \in Events', Pushed(n)' PROVE n \in Events /\ Pushed(n)
    OBVIOUS
<1>1. n \in Events
    BY DEF Events
<1>2. log[n].kind = "search_user_failed" /\ log'[n].kind = "search_user_failed"
    BY <1>1 DEF EventsStay, Pushed
<1>3. CASE "redis" \in log'[n].stored
    BY <1>1, <1>2, <1>3 DEF Pushed
<1>4. ASSUME NEW t \in Trackers, sending'[t].event = n, sending'[t].next \in 3..4
      PROVE  Pushed(n)
    BY <1>1, <1>2, <1>4 DEF Pushed, Sent
<1> QED
    BY <1>1, <1>3, <1>4 DEF Pushed, Sent

-----------------------------------------------------------------------------
(* steps *)

LEMMA TrackKeepsPlaces ==
    ASSUME UsageShape, TimesListed, NewestKept, NEW t \in Trackers, Track(t)
    PROVE  NewestKept'
<1>1. /\ EventsStay /\ Len(log') = Len(log) + 1 /\ Len(log) \in Nat
      /\ log'[Len(log) + 1].at = clock /\ log'[Len(log) + 1].stored = {}
    BY TrackedStays, Events1
<1>2. /\ UNCHANGED redis
      /\ \A u \in Trackers : u # t => sending'[u] = sending[u]
      /\ sending'[t].event = Len(log) + 1 /\ sending'[t].next \in {1, Done}
    BY DEF Track, UsageShape, SendingShape
<1>3. ASSUME NEW n \in Events PROVE Overtaking(n)' \subseteq Overtaking(n)
    <2> SUFFICES ASSUME NEW u \in Overtaking(n)' PROVE u \in Overtaking(n)
        OBVIOUS
    <2>1. /\ u \in Trackers /\ sending'[u].next \in 1..2
          /\ log'[sending'[u].event].at < log'[n].at
        BY DEF Overtaking, EventOf, Sent
    <2>2. log'[n].at = log[n].at /\ log[n].at <= clock /\ log[n].at \in Nat /\ clock \in Nat
        <3>1. log[n] \in EventType /\ LastTick \in Nat
            BY Events1
        <3>2. log[n].at \in 0..LastTick
            BY <3>1 DEF EventType
        <3> QED
            BY <1>1, <3>1, <3>2 DEF EventsStay, UsageShape, LogShape
    <2>3. u # t
        BY <1>1, <1>2, <2>1, <2>2
    <2>4. sending[u].next \in 1..2 /\ sending'[u].event = Sent(u) /\ Sent(u) \in Events
        BY <1>2, <2>1, <2>3, CommandsAre DEF Sent, Done
    <2>5. log'[Sent(u)].at = log[Sent(u)].at
        BY <1>1, <2>4 DEF EventsStay
    <2> QED
        BY <2>1, <2>2, <2>4, <2>5 DEF Overtaking, EventOf
<1>4. ASSUME NEW n \in Events', Pushed(n)' PROVE n \in Events /\ Pushed(n)
    <2>1. n \in Events \/ n = Len(log) + 1
        BY <1>1 DEF Events
    <2>2. \A u \in Trackers : sending'[u].event = n /\ sending'[u].next \in 3..4 =>
              u # t /\ Sent(u) = n /\ sending[u].next \in 3..4 /\ n \in Events
        <3> SUFFICES ASSUME NEW u \in Trackers, sending'[u].event = n,
                            sending'[u].next \in 3..4
                     PROVE  u # t /\ Sent(u) = n /\ sending[u].next \in 3..4 /\ n \in Events
            OBVIOUS
        <3>1. u # t
            BY <1>2 DEF Done
        <3> QED
            BY <1>2, <3>1, CommandsAre DEF Sent, Done
    <2>3. n \in Events
        BY <1>1, <1>4, <2>1, <2>2 DEF Pushed, Sent
    <2>4. /\ log'[n].kind = log[n].kind
          /\ "redis" \in log'[n].stored => "redis" \in log[n].stored
        <3>1. \E k \in Kinds : log' = Append(log, [kind |-> k, at |-> clock,
                                             server |-> ServerOf[t], stored |-> {}])
            BY DEF Track
        <3>2. log'[n] = log[n]
            BY <2>3, <3>1, Events1, AppendProperties DEF Events
        <3> QED
            BY <3>2
    <2> QED
        BY <1>4, <2>2, <2>3, <2>4 DEF Pushed, Sent
<1> QED
    BY <1>1, <1>2, <1>3, <1>4, PlacesStay

LEMMA CommandKeepsPlaces ==
    ASSUME UsageShape, TimesListed, NewestKept, EventsStay, NEW t \in Trackers, RunCommand(t)
    PROVE  NewestKept' /\ \A h \in HoursOfClock : redis'[h].failures \in Seq(Times)
<1> DEFINE e == EventOf(t)
           h == HourOf(e.at)
           k == sending[t].next
           list == redis[h].failures
           new == redis'[h].failures
<1>1. /\ Sent(t) \in Events /\ k \in 1..4 /\ k <= Len(Commands(e)) /\ k # Done
      /\ e = log[Sent(t)] /\ e.at \in Times /\ h \in HoursOfClock /\ e.kind \in Kinds
      /\ e.kind = "page_view" => k <= 2
      /\ e.kind # "page_view" => k <= 3
    <2>1. k # Done /\ k <= Len(Commands(e))
        BY DEF RunCommand
    <2>2. /\ Sent(t) \in Events /\ k \in 1..4 /\ h \in HoursOfClock /\ e.kind \in Kinds
          /\ e.kind = "page_view" => Len(Commands(e)) = 2
          /\ e.kind # "page_view" => Len(Commands(e)) = 3
        BY <2>1, CommandsAre
    <2>3. e \in EventType /\ e = log[Sent(t)]
        BY <2>1, CommandsAre DEF EventOf
    <2> QED
        BY <2>1, <2>2, <2>3 DEF EventType, Times
<1>2. /\ log' = log /\ Events' = Events
      /\ \A u \in Trackers : u # t => sending'[u] = sending[u]
      /\ sending'[t].event = Sent(t) /\ sending'[t].next = k + 1
    BY DEF RunCommand, SendNext, Sent, Events, UsageShape, SendingShape
<1>3. \A g \in HoursOfClock : g # h => redis'[g] = redis[g]
    BY ExecutedIs
<1>4. list \in Seq(Times) /\ \A g \in HoursOfClock : redis[g].failures \in Seq(Times)
    BY <1>1 DEF TimesListed
<1> HIDE DEF e, h, k, list, new
<1>5. \A n \in Events : Overtaking(n)' \subseteq Overtaking(n)
    <2>1. ASSUME NEW u \in Trackers, sending'[u].next \in 1..2
          PROVE  sending[u].next \in 1..2 /\ sending'[u].event = sending[u].event
        <3>1. CASE u = t
            BY <1>1, <1>2, <2>1, <3>1 DEF k, Sent
        <3>2. CASE u # t
            BY <1>2, <2>1, <3>2
        <3> QED
            BY <3>1, <3>2
    <2> QED
        BY <2>1, FewerOvertake
<1>6. \A n \in Events : /\ Cardinality(Overtaking(n)) \in Nat
                         /\ Cardinality(Overtaking(n)') \in Nat
                         /\ Cardinality(Overtaking(n)') <= Cardinality(Overtaking(n))
    <2> SUFFICES ASSUME NEW n \in Events
                 PROVE  /\ Cardinality(Overtaking(n)) \in Nat
                        /\ Cardinality(Overtaking(n)') \in Nat
                        /\ Cardinality(Overtaking(n)') <= Cardinality(Overtaking(n))
        OBVIOUS
    <2>1. Overtaking(n) \in SUBSET Trackers /\ Overtaking(n)' \in SUBSET Overtaking(n)
        BY <1>5 DEF Overtaking
    <2>2. Overtaking(n)' \in SUBSET Trackers
        BY <2>1
    <2> QED
        BY <2>1, <2>2, ThreadsAre
<1>7. ASSUME \A n \in Events : Pushed(n)' =>
                 HoldsPlace(redis'[HourOf(log[n].at)].failures, log[n].at,
                            Cardinality(Overtaking(n)'))
      PROVE  NewestKept'
    BY <1>2, <1>7 DEF NewestKept, HoldsPlace, OlderIn, HourOf, Others
<1>8. ASSUME NEW n \in Events, Pushed(n)
      PROVE  /\ HoldsPlace(redis[HourOf(log[n].at)].failures, log[n].at,
                           Cardinality(Overtaking(n)'))
             /\ log[n].at \in Times /\ HourOf(log[n].at) \in HoursOfClock
    <2>1. log[n].at \in Times /\ HourOf(log[n].at) \in HoursOfClock
        BY Events1 DEF EventType, Times
    <2>2. redis[HourOf(log[n].at)].failures \in Seq(Times)
        BY <1>4, <2>1
    <2>3. HoldsPlace(redis[HourOf(log[n].at)].failures, log[n].at,
                     Cardinality(Overtaking(n)))
        BY <1>8 DEF NewestKept
    <2> QED
        BY <1>6, <2>1, <2>2, <2>3, PlaceStays
<1>9. k # 2 \/ e.kind = "page_view" => \A n \in Events : Pushed(n)' => Pushed(n)
    <2> SUFFICES ASSUME k # 2 \/ e.kind = "page_view",
                        NEW n \in Events, Pushed(n)', ~("redis" \in log[n].stored)
                 PROVE  Pushed(n)
        BY <1>2 DEF Pushed
    <2>1. PICK u \in Trackers : sending'[u].event = n /\ sending'[u].next \in 3..4
        BY <1>2 DEF Pushed, Sent
    <2>2. log[n].kind = "search_user_failed"
        BY <1>2 DEF Pushed
    <2>3. CASE u = t
        <3>1. e.kind = "search_user_failed"
            BY <1>1, <1>2, <2>1, <2>2, <2>3
        <3>2. k \in 3..4
            BY <1>1, <1>2, <2>1, <2>3, <3>1
        <3> QED
            BY <1>2, <2>1, <2>2, <2>3, <3>2 DEF Pushed, k
    <2>4. CASE u # t
        BY <1>2, <2>1, <2>2, <2>4 DEF Pushed, Sent
    <2> QED
        BY <2>3, <2>4
<1>10. CASE k = 1 \/ e.kind = "page_view"
    <2>1. new = list
        BY <1>1, <1>10, ExecutedIs DEF e, h, k, list, new
    <2>2. \A g \in HoursOfClock : redis'[g].failures = redis[g].failures
        BY <1>3, <2>1 DEF list, new
    <2>3. \A n \in Events : Pushed(n)' => Pushed(n)
        BY <1>9, <1>10
    <2>4. NewestKept'
        BY <1>7, <1>8, <2>2, <2>3
    <2> QED
        BY <1>4, <2>2, <2>4
<1>11. CASE k = 2 /\ e.kind # "page_view"
    <2>1. new = <<e.at>> \o list
        BY <1>11, ExecutedIs DEF e, h, k, list, new
    <2>2. new \in Seq(Times) /\ Len(new) = Len(list) + 1 /\ new[1] = e.at
        <3>1. <<e.at>> \in Seq(Times) /\ Len(<<e.at>>) = 1 /\ <<e.at>>[1] = e.at
            BY <1>1
        <3> QED
            BY <1>4, <2>1, <3>1, ConcatProperties
    <2>3. ASSUME NEW n \in Events, Pushed(n)', n # Sent(t)
          PROVE  HoldsPlace(redis'[HourOf(log[n].at)].failures, log[n].at,
                            Cardinality(Overtaking(n)'))
        <3>1. Pushed(n)
            <4>1. ASSUME NEW u \in Trackers, sending'[u].event = n, sending'[u].next \in 3..4
                  PROVE  Sent(u) = n /\ sending[u].next \in 3..4
                BY <1>2, <2>3, <4>1 DEF Sent
            <4> QED
                BY <1>2, <2>3, <4>1 DEF Pushed, Sent
        <3>2. CASE HourOf(log[n].at) # h
            BY <1>3, <1>8, <3>1, <3>2
        <3>3. CASE HourOf(log[n].at) = h
            <4> DEFINE m == Cardinality(Overtaking(n))
                       l == Cardinality(Overtaking(n)')
            <4>1. HoldsPlace(list, log[n].at, m) /\ log[n].at \in Times
                BY <1>8, <3>1, <3>3 DEF NewestKept, list
            <4>2. m \in Nat /\ l \in Nat /\ l <= m
                BY <1>6
            <4>3. ASSUME e.at < log[n].at PROVE l + 1 <= m
                <5>1. t \in Overtaking(n) /\ t \notin Overtaking(n)'
                    BY <1>1, <1>2, <1>11, <4>3 DEF Overtaking, e, k
                <5>2. Overtaking(n)' \in SUBSET (Overtaking(n) \ {t})
                    BY <1>5, <5>1
                <5>3. Overtaking(n) \in SUBSET Trackers /\ Overtaking(n) \ {t} \in SUBSET Trackers
                    BY DEF Overtaking
                <5>4. Cardinality(Overtaking(n) \ {t}) = m - 1
                    BY <5>1, <5>3, ThreadsAre
                <5>5. l <= Cardinality(Overtaking(n) \ {t})
                    BY <5>2, <5>3, ThreadsAre
                <5> QED
                    BY <4>2, <5>4, <5>5
            <4> HIDE DEF m, l
            <4>4. HoldsPlace(<<e.at>> \o list, log[n].at, l)
                BY <1>1, <1>4, <4>1, <4>2, <4>3, PlaceBehind
            <4> QED
                BY <2>1, <3>3, <4>4 DEF new, l
        <3> QED
            BY <3>2, <3>3
    <2>4. ASSUME NEW n \in Events, n = Sent(t)
          PROVE  HoldsPlace(redis'[HourOf(log[n].at)].failures, log[n].at,
                            Cardinality(Overtaking(n)'))
        <3>1. e.at = log[n].at /\ redis'[HourOf(log[n].at)].failures = new
            BY <1>1, <2>4 DEF new, h
        <3>2. t \notin Overtaking(n)'
            BY <1>2, <1>11 DEF Overtaking
        <3>3. Overtaking(n)' \in SUBSET Trackers
            BY <1>5 DEF Overtaking
        <3>4. Cardinality(Overtaking(n)') <= Others
            BY <3>2, <3>3, ThreadsAre
        <3>5. OlderIn(new, 1, e.at) = {}
            <4>1. e.at \in Nat
                BY <1>1, UsageBoundsAssumption DEF Times
            <4> QED
                BY <2>2, <4>1 DEF OlderIn
        <3>6. Cardinality(OlderIn(new, 1, e.at)) = 0
            BY <3>5, FS_EmptySet
        <3>7. 1 \in 0..Len(new) /\ 1 # 0 /\ new[1] = e.at
            <4>1. Len(list) \in Nat
                BY <1>4, LenProperties
            <4> QED
                BY <2>2, <4>1
        <3>8. 0 + Cardinality(Overtaking(n)') <= Others
            BY <1>6, <3>4
        <3>9. HoldsPlace(new, e.at, Cardinality(Overtaking(n)'))
            BY <3>6, <3>7, <3>8 DEF HoldsPlace
        <3> QED
            BY <3>1, <3>9
    <2>5. NewestKept'
        BY <1>7, <2>3, <2>4
    <2> QED
        BY <1>3, <1>4, <2>2, <2>5 DEF new
<1>12. CASE k \notin 1..2
    <2> DEFINE n0 == Lesser(KeptFailures, Len(list))
    <2>1. new = SubSeq(list, 1, n0)
        BY <1>12, ExecutedIs DEF e, h, k, list, new
    <2>2. new \in Seq(Times)
        <3>1. n0 \in Nat /\ n0 <= Len(list) /\ Len(list) \in Nat
            BY <1>4, LenProperties, SummaryAssumption, LesserIs
        <3> HIDE DEF n0
        <3>2. \A i \in 1..n0 : list[i] \in Times
            BY <1>4, <3>1, ElementOfSeq
        <3> QED
            BY <1>4, <2>1, <3>1, <3>2, SubSeqProperties
    <2>3. ASSUME NEW n \in Events, Pushed(n)'
          PROVE  HoldsPlace(redis'[HourOf(log[n].at)].failures, log[n].at,
                            Cardinality(Overtaking(n)'))
        <3>1. Pushed(n)
            BY <1>9, <1>12, <2>3
        <3>2. CASE HourOf(log[n].at) # h
            BY <1>3, <1>8, <3>1, <3>2
        <3>3. CASE HourOf(log[n].at) = h
            <4>1. HoldsPlace(list, log[n].at, Cardinality(Overtaking(n)'))
                BY <1>8, <3>1, <3>3 DEF list
            <4>2. HoldsPlace(new, log[n].at, Cardinality(Overtaking(n)'))
                BY <1>4, <1>6, <2>1, <4>1, PlaceCut
            <4> QED
                BY <3>3, <4>2 DEF new
        <3> QED
            BY <3>2, <3>3
    <2>4. NewestKept'
        BY <1>7, <2>3
    <2> QED
        BY <1>3, <1>4, <2>2, <2>4 DEF new
<1> QED
    BY <1>1, <1>10, <1>11, <1>12

LEMMA NewestKeptStays ==
    ASSUME UsageShape, TimesListed, NewestKept, UsageNext
    PROVE  NewestKept'
<1>1. EventsStay
    BY UsageEventsStay
<1>3. ASSUME UNCHANGED redis, Len(log') = Len(log),
             \A n \in Events : "redis" \in log'[n].stored =>
                 \/ "redis" \in log[n].stored
                 \/ log[n].kind = "search_user_failed" => Pushed(n),
             \A t \in Trackers : sending'[t].next # Done =>
                 sending'[t].next = sending[t].next /\ sending'[t].event = sending[t].event
      PROVE  NewestKept'
    <2>1. \A t \in Trackers : sending'[t].next \in 1..4 => sending'[t].next # Done
        BY DEF Done
    <2>2. \A n \in Events : Overtaking(n)' \subseteq Overtaking(n)
        BY <1>1, <1>3, <2>1, FewerOvertake
    <2>3. \A n \in Events' : Pushed(n)' => n \in Events /\ Pushed(n)
        BY <1>1, <1>3, <2>1, PushedBefore
    <2> QED
        BY <1>1, <1>3, <2>2, <2>3, PlacesStay
<1>4. ASSUME UNCHANGED <<redis, log, sending>> PROVE NewestKept'
    BY <1>3, <1>4
<1>5. ASSUME NEW t \in Trackers, Executes(t) \/ ExecuteFails(t) PROVE NewestKept'
    <2>1. Sent(t) \in Events /\ sending[t].next # Done
        BY <1>5, CommandsAre DEF Executes, ExecuteFails
    <2>2. \A u \in Trackers : sending'[u].next # Done => sending'[u] = sending[u]
        BY <1>5 DEF Executes, ExecuteFails, SendNext, UsageShape, SendingShape
    <2>3. CASE ExecuteFails(t)
        BY <1>3, <2>2, <2>3 DEF ExecuteFails
    <2>4. CASE Executes(t)
        <3>1. /\ Len(log') = Len(log)
              /\ \A m \in Events : "redis" \in log'[m].stored =>
                    "redis" \in log[m].stored \/ m = Sent(t)
            BY <2>1, <2>4, StoredStays DEF Executes, Stores
        <3>2. log[Sent(t)].kind = "search_user_failed" => Pushed(Sent(t))
            <4> SUFFICES ASSUME log[Sent(t)].kind = "search_user_failed" PROVE Pushed(Sent(t))
                OBVIOUS
            <4>1. sending[t].next = 4
                BY <2>1, <2>4, CommandsAre DEF Executes, EventOf
            <4> QED
                BY <4>1 DEF Pushed
        <3> QED
            BY <1>3, <2>2, <2>4, <3>1, <3>2 DEF Executes
    <2> QED
        BY <1>5, <2>3, <2>4
<1>6. ASSUME NEW t \in Trackers, InsertEvent(t) PROVE NewestKept'
    <2>1. Sent(t) \in Events
        BY <1>6, Events1 DEF InsertEvent, UsageShape, SendingShape, Sent, Events
    <2>2. \A u \in Trackers : sending'[u].next # Done => sending'[u] = sending[u]
        BY <1>6 DEF InsertEvent, Resting, UsageShape, SendingShape
    <2>3. /\ Len(log') = Len(log)
          /\ \A m \in Events : "redis" \in log'[m].stored => "redis" \in log[m].stored
        BY <1>6, <2>1, StoredStays DEF InsertEvent, Stores
    <2> QED
        BY <1>3, <1>6, <2>2, <2>3 DEF InsertEvent
<1>7. ASSUME NEW s \in Servers, AskSummary(s) PROVE NewestKept'
    BY <1>4, <1>7 DEF AskSummary
<1>8. ASSUME NEW s \in Servers, ReplaceServer(s) PROVE NewestKept'
    <2>1. \A u \in Trackers : sending'[u].next # Done => sending'[u] = sending[u]
        BY <1>8 DEF ReplaceServer, Resting
    <2> QED
        BY <1>3, <1>8, <2>1, ReplacedStays DEF ReplaceServer
<1>9. CASE ReadRedis \/ ReadRedisFails \/ ReadTable \/ AnswerSummary \/ ClockTicks
    BY <1>4, <1>9 DEF ReadRedis, ReadRedisFails, ReadTable, AnswerSummary, ClockTicks
<1> QED
    BY <1>1, <1>5, <1>6, <1>7, <1>8, <1>9, TrackKeepsPlaces, CommandKeepsPlaces DEF UsageNext

\* The lists of Redis hold times.
LEMMA ListsHoldTimes ==
    ASSUME UsageShape, TimesListed, NewestKept, UsageNext
    PROVE  \A h \in HoursOfClock : redis'[h].failures \in Seq(Times)
<1>1. UNCHANGED redis => \A h \in HoursOfClock : redis'[h].failures \in Seq(Times)
    BY DEF TimesListed
<1>2. ASSUME NEW t \in Trackers,
             Track(t) \/ Executes(t) \/ ExecuteFails(t) \/ InsertEvent(t)
      PROVE  UNCHANGED redis
    BY <1>2 DEF Track, Executes, ExecuteFails, InsertEvent
<1>3. ASSUME NEW t \in Trackers, RunCommand(t)
      PROVE  \A h \in HoursOfClock : redis'[h].failures \in Seq(Times)
    BY <1>3, UsageEventsStay, CommandKeepsPlaces
<1>4. ASSUME NEW s \in Servers, AskSummary(s) \/ ReplaceServer(s) PROVE UNCHANGED redis
    BY <1>4 DEF AskSummary, ReplaceServer
<1>5. CASE ReadRedis \/ ReadRedisFails \/ ReadTable \/ AnswerSummary \/ ClockTicks
    BY <1>1, <1>5 DEF ReadRedis, ReadRedisFails, ReadTable, AnswerSummary, ClockTicks
<1> QED
    BY <1>1, <1>2, <1>3, <1>4, <1>5 DEF UsageNext

-----------------------------------------------------------------------------
(* what a summary has found *)

\* More failures found cover as much.
LEMMA CoveredStays ==
    ASSUME NEW l \in Seq(Times), NEW m \in Seq(Times), NEW at \in Times
    PROVE  /\ l \o m \in Seq(Times)
           /\ Covered(l, at) \/ Covered(m, at) => Covered(l \o m, at)
<1> DEFINE a == Len(l)
           b == Len(m)
           both == l \o m
           L == {i \in 1..a : l[i] >= at}
           M == {i \in 1..b : m[i] >= at}
           B == {i \in 1..(a + b) : both[i] >= at}
           shift == [i \in M |-> a + i]
<1>1. a \in Nat /\ b \in Nat
    BY LenProperties
<1>2. /\ both \in Seq(Times) /\ Len(both) = a + b
      /\ \A i \in 1..(a + b) : both[i] = IF i <= a THEN l[i] ELSE m[i - a]
    BY <1>1, ConcatProperties
<1>3. DOMAIN l = 1..a /\ DOMAIN m = 1..b
    BY LenProperties
<1>4. DOMAIN both = 1..(a + b)
    BY <1>2, LenProperties
<1> HIDE DEF a, b, both
<1>5. /\ \A i \in 1..a : i \in 1..(a + b) /\ both[i] = l[i]
      /\ \A i \in 1..b : a + i \in 1..(a + b) /\ both[a + i] = m[i]
    <2>1. \A i \in 1..a : i \in 1..(a + b) /\ both[i] = l[i]
        BY <1>1, <1>2
    <2>2. ASSUME NEW i \in 1..b PROVE a + i \in 1..(a + b) /\ both[a + i] = m[i]
        <3>1. a + i \in 1..(a + b) /\ ~(a + i <= a) /\ (a + i) - a = i
            BY <1>1
        <3> QED
            BY <1>2, <3>1
    <2> QED
        BY <2>1, <2>2
<1>6. IsFiniteSet(B) /\ Cardinality(B) \in Nat
    <2>1. IsFiniteSet(1..(a + b)) /\ B \in SUBSET (1..(a + b))
        BY <1>1, FS_Interval
    <2> HIDE DEF B
    <2> QED
        BY <2>1, FS_Subset, FS_CardinalityType
<1>7. Cardinality(L) <= Cardinality(B) /\ Cardinality(L) \in Nat
    <2>1. L \subseteq B
        BY <1>5
    <2> HIDE DEF L, B
    <2> QED
        BY <1>6, <2>1, FS_Subset, FS_CardinalityType
<1>8. Cardinality(M) <= Cardinality(B) /\ Cardinality(M) \in Nat
    <2>1. \A i \in M : shift[i] \in B
        BY <1>5
    <2>2. \A i, j \in M : shift[i] = shift[j] => i = j
        BY <1>1
    <2>3. shift \in [M -> B]
        BY <2>1
    <2> HIDE DEF shift, M, B
    <2>4. shift \in Injection(M, B)
        BY <2>2, <2>3 DEF Injection, IsInjective
    <2> QED
        BY <1>6, <2>4, FS_Injection, FS_CardinalityType
<1>9. SureToShow \in Int
    BY SummaryAssumption, ThreadsAre DEF SureToShow, Lesser, Others
<1>10. (\E i \in 1..a : l[i] = at) \/ (\E i \in 1..b : m[i] = at)
          => \E i \in 1..(a + b) : both[i] = at
    BY <1>5
<1>11. Cardinality(L) >= SureToShow \/ Cardinality(M) >= SureToShow
          => Cardinality(B) >= SureToShow
    BY <1>6, <1>7, <1>8, <1>9
<1>12. Covered(l, at) => (\E i \in 1..a : l[i] = at) \/ Cardinality(L) >= SureToShow
    BY <1>3, Zenon DEF Covered
<1>13. Covered(m, at) => (\E i \in 1..b : m[i] = at) \/ Cardinality(M) >= SureToShow
    BY <1>3, Zenon DEF Covered
<1>14. (\E i \in 1..(a + b) : both[i] = at) \/ Cardinality(B) >= SureToShow
          => Covered(both, at)
    BY <1>4, Zenon DEF Covered
<1> HIDE DEF L, M, B
<1>15. Covered(l, at) \/ Covered(m, at) => Covered(both, at)
    BY <1>10, <1>11, <1>12, <1>13, <1>14
<1> QED
    BY <1>2, <1>15 DEF both

\* A query of the table finds the newest rows.
LEMMA TableCovers ==
    ASSUME UsageShape, SummaryShape,
           NEW list, list = Queried(summary.got, "failures").failures
    PROVE  /\ list \in Seq(Times)
           /\ \A n \in Selected("search_user_failed") : Covered(list, log[n].at)
<1> DEFINE S == Selected("search_user_failed")
           ahead == [n \in S |->
                       {m \in S : log[m].at > log[n].at \/ (log[m].at = log[n].at /\ m < n)}]
           found == NewestFirst(S)
           c == Cardinality(S)
           n0 == Lesser(SummaryLimit, Len(found))
<1>1. S \subseteq Events /\ IsFiniteSet(S)
    <2>1. "search_user_failed" \in Kinds
        BY DEF Kinds
    <2> QED
        BY <2>1, QueriedIs, PartOfEvents
<1>2. \A n \in S : log[n].at \in Times /\ log[n].at \in Nat /\ n \in Nat
    <2> SUFFICES ASSUME NEW n \in S PROVE log[n].at \in Times /\ log[n].at \in Nat /\ n \in Nat
        OBVIOUS
    <2>1. n \in Events /\ log[n] \in EventType /\ LastTick \in Nat
        BY <1>1, Events1
    <2>2. log[n].at \in 0..LastTick
        BY <2>1 DEF EventType
    <2> QED
        BY <2>1, <2>2 DEF Events, Times
<1>3. found = ByRank(S, ahead)
    <2>1. found = [i \in 1..c |-> CHOOSE n \in S :
                     Cardinality({m \in S : log[m].at > log[n].at
                                             \/ (log[m].at = log[n].at /\ m < n)}) = i - 1]
        BY DEF NewestFirst, InOrder
    <2> DEFINE l == [i \in 1..c |-> CHOOSE n \in S : Cardinality(ahead[n]) = i - 1]
    <2>2. \A i \in 1..c : l[i] = CHOOSE n \in S :
                     Cardinality({m \in S : log[m].at > log[n].at
                                             \/ (log[m].at = log[n].at /\ m < n)}) = i - 1
        OBVIOUS
    <2>3. l = ByRank(S, ahead)
        BY DEF ByRank
    <2> HIDE DEF found, S, ahead
    <2>4. found = l
        BY <2>1, <2>2
    <2> QED
        BY <2>3, <2>4
<1>4. list = [i \in 1..n0 |-> log[found[i]].at]
    <2>1. HourShape(summary.got)
        BY DEF SummaryShape
    <2> QED
        BY <2>1 DEF Queried, HourShape
<1> HIDE DEF S, found
<1>5. IsOrder(S, ahead)
    <2>1. \A k, m \in S : k \in ahead[m] <=>
              log[k].at > log[m].at \/ (log[k].at = log[m].at /\ k < m)
        OBVIOUS
    <2>2. \A k \in S : ahead[k] \subseteq S
        OBVIOUS
    <2> HIDE DEF ahead
    <2>3. \A k \in S : k \notin ahead[k]
        BY <1>2, <2>1
    <2>4. \A k, m \in S : k = m \/ k \in ahead[m] \/ m \in ahead[k]
        BY <1>2, <2>1
    <2>5. \A k, m, j \in S : m \in ahead[k] /\ j \in ahead[m] => j \in ahead[k]
        BY <1>2, <2>1
    <2> QED
        BY <2>2, <2>3, <2>4, <2>5 DEF IsOrder
<1>6. /\ c \in Nat
      /\ \A k \in S : Cardinality(ahead[k]) \in 0..(c - 1)
      /\ \A k, m \in S : m \in ahead[k] <=> Cardinality(ahead[m]) < Cardinality(ahead[k])
    BY <1>1, <1>5, RanksAre
<1>7. \A k, m \in S : m \in ahead[k] => log[m].at >= log[k].at
    BY <1>2
<1> HIDE DEF ahead, c
<1>8. /\ Len(found) = c
      /\ \A i \in 1..c : found[i] \in S /\ Cardinality(ahead[found[i]]) = i - 1
      /\ \A k \in S : /\ Cardinality(ahead[k]) + 1 \in 1..c
                       /\ found[Cardinality(ahead[k]) + 1] = k
    BY <1>1, <1>3, <1>5, ListedByRank DEF c
<1>9. n0 \in Nat /\ n0 <= c /\ n0 <= SummaryLimit /\ (n0 = c \/ n0 = SummaryLimit)
      /\ SummaryLimit \in Nat
    <2>1. SummaryLimit \in Nat /\ Len(found) \in Nat /\ Len(found) = c
        BY <1>6, <1>8, SummaryAssumption
    <2> QED
        BY <2>1, LesserIs
<1> HIDE DEF n0
<1>10. \A i \in 1..n0 : i \in 1..c
    BY <1>6, <1>9
<1>11. list \in Seq(Times) /\ DOMAIN list = 1..n0
    <2>1. \A i \in 1..n0 : log[found[i]].at \in Times
        BY <1>2, <1>8, <1>10
    <2>2. list \in [1..n0 -> Times]
        BY <1>4, <2>1
    <2> QED
        BY <1>9, <2>2
<1>12. ASSUME NEW n \in S PROVE Covered(list, log[n].at)
    <2> DEFINE r == Cardinality(ahead[n])
    <2>1. r \in 0..(c - 1) /\ r + 1 \in 1..c /\ found[r + 1] = n
        BY <1>6, <1>8
    <2> HIDE DEF r
    <2>2. CASE r < SummaryLimit
        <3>1. r + 1 \in 1..n0
            BY <1>6, <1>9, <2>1, <2>2
        <3>2. list[r + 1] = log[n].at
            BY <1>4, <2>1, <3>1
        <3> QED
            BY <1>11, <3>1, <3>2 DEF Covered
    <2>3. CASE ~(r < SummaryLimit)
        <3>1. n0 = SummaryLimit
            BY <1>6, <1>9, <2>1, <2>3
        <3>2. ASSUME NEW i \in 1..n0 PROVE list[i] >= log[n].at
            <4>1. found[i] \in S /\ Cardinality(ahead[found[i]]) = i - 1
                BY <1>8, <1>10
            <4>2. i - 1 < r
                BY <1>6, <1>9, <2>1, <2>3, <3>1
            <4>3. found[i] \in ahead[n]
                BY <1>6, <4>1, <4>2 DEF r
            <4> QED
                BY <1>4, <1>7, <4>1, <4>3
        <3>3. {i \in DOMAIN list : list[i] >= log[n].at} = 1..n0
            BY <1>11, <3>2
        <3>4. Cardinality(1..n0) = SummaryLimit
            BY <1>9, <3>1, FS_Interval
        <3>5. SummaryLimit >= SureToShow
            BY <1>9, SummaryAssumption, ThreadsAre DEF SureToShow, Lesser, Others
        <3>6. Cardinality({i \in DOMAIN list : list[i] >= log[n].at}) >= SureToShow
            BY <3>3, <3>4, <3>5
        <3> QED
            BY <3>6 DEF Covered
    <2> QED
        BY <2>2, <2>3
<1> QED
    BY <1>11, <1>12 DEF S

\* The first of the times found by time cover what the times found do.
LEMMA RecentCovers ==
    ASSUME SummaryShape, summary.got.failures \in Seq(Times), NEW at \in Times,
           Covered(summary.got.failures, at)
    PROVE  \/ \E i \in Recent : summary.got.failures[i] = at
           \/ Cardinality({i \in Recent : summary.got.failures[i] >= at}) >= SureToShow
<1> DEFINE found == summary.got.failures
           S == DOMAIN found
           ahead == [i \in S |->
                       {j \in S : found[j] > found[i] \/ (found[j] = found[i] /\ j < i)}]
<1>1. S = 1..Len(found) /\ Len(found) \in Nat
    BY LenProperties
<1>2. \A i \in S : found[i] \in Nat /\ i \in Nat
    BY <1>1, ElementOfSeq, UsageBoundsAssumption DEF Times
<1>4. Recent = {i \in S : Cardinality(ahead[i]) < SummaryLimit}
    BY DEF Recent
<1> HIDE DEF found, S
<1>3. IsFiniteSet(S) /\ at \in Nat
    BY <1>1, FS_Interval, UsageBoundsAssumption DEF Times
<1>5. IsOrder(S, ahead)
    <2>1. \A k, m \in S : k \in ahead[m] <=>
              found[k] > found[m] \/ (found[k] = found[m] /\ k < m)
        OBVIOUS
    <2>2. \A k \in S : ahead[k] \subseteq S
        OBVIOUS
    <2> HIDE DEF ahead
    <2>3. \A k \in S : k \notin ahead[k]
        BY <1>2, <2>1
    <2>4. \A k, m \in S : k = m \/ k \in ahead[m] \/ m \in ahead[k]
        BY <1>2, <2>1
    <2>5. \A k, m, j \in S : m \in ahead[k] /\ j \in ahead[m] => j \in ahead[k]
        BY <1>2, <2>1
    <2> QED
        BY <2>2, <2>3, <2>4, <2>5 DEF IsOrder
<1>6. /\ Cardinality(S) \in Nat
      /\ \A k \in S : Cardinality(ahead[k]) \in 0..(Cardinality(S) - 1)
      /\ \A k, m \in S : m \in ahead[k] <=> Cardinality(ahead[m]) < Cardinality(ahead[k])
    BY <1>3, <1>5, RanksAre
<1>7. \A k, m \in S : m \in ahead[k] => found[m] >= found[k]
    BY <1>2
<1>8. SummaryLimit \in Nat /\ SummaryLimit >= SureToShow /\ SureToShow \in Int
    BY SummaryAssumption, ThreadsAre DEF SureToShow, Lesser, Others
<1> HIDE DEF ahead
<1>9. Cardinality(Recent) = IF SummaryLimit <= Cardinality(S) THEN SummaryLimit
                                                             ELSE Cardinality(S)
    BY <1>3, <1>4, <1>5, <1>8, FirstByRank
\* One that is not shown leaves as many as are shown that are not older.
<1>10. ASSUME NEW i \in S, found[i] >= at, i \notin Recent
       PROVE  Cardinality({j \in Recent : found[j] >= at}) >= SureToShow
    <2>1. ~(Cardinality(ahead[i]) < SummaryLimit)
        BY <1>4, <1>10
    <2>2. Cardinality(Recent) = SummaryLimit
        BY <1>6, <1>8, <1>9, <2>1
    <2>3. ASSUME NEW j \in Recent PROVE found[j] >= at
        <3>1. j \in S /\ Cardinality(ahead[j]) < SummaryLimit
            BY <1>4
        <3>2. Cardinality(ahead[j]) < Cardinality(ahead[i])
            BY <1>6, <1>8, <2>1, <3>1
        <3>3. j \in ahead[i]
            BY <1>6, <3>1, <3>2
        <3>4. found[j] >= found[i]
            BY <1>7, <3>1, <3>3
        <3> QED
            BY <1>2, <1>3, <1>10, <3>1, <3>4
    <2>4. {j \in Recent : found[j] >= at} = Recent
        BY <2>3
    <2> QED
        BY <1>8, <2>2, <2>4
<1>11. CASE \E i \in S : found[i] = at
    <2>1. PICK i \in S : found[i] = at
        BY <1>11
    <2>2. found[i] >= at
        BY <1>2, <2>1
    <2> QED
        BY <1>10, <2>1, <2>2 DEF found
<1>12. CASE Cardinality({i \in S : found[i] >= at}) >= SureToShow
    <2>1. CASE \A i \in S : found[i] >= at => i \in Recent
        <3>1. {i \in Recent : found[i] >= at} = {i \in S : found[i] >= at}
            BY <1>4, <2>1
        <3> QED
            BY <1>12, <3>1 DEF found
    <2>2. CASE \E i \in S : found[i] >= at /\ i \notin Recent
        BY <1>10, <2>2 DEF found
    <2> QED
        BY <2>1, <2>2
<1>13. (\E i \in S : found[i] = at) \/ Cardinality({i \in S : found[i] >= at}) >= SureToShow
    BY Zenon DEF Covered, found, S
<1> QED
    BY <1>11, <1>12, <1>13

\* A read of an hour of Redis keeps the times found, and those it adds cover the
\* failures that have their place there.
LEMMA RedisReadCovers ==
    ASSUME NewestInv, ReadRedis
    PROVE  summary'.got.failures \in Seq(Times) /\ NewestRead'
<1> DEFINE h == Head(summary.left)[1]
           f == Head(summary.left)[2]
           got == summary.got
           since == summary.since
           list == redis[h].failures
           x == Added(got, redis[h], f, since)
<1>0. UsageShape /\ SummaryShape /\ TimesListed /\ NewestKept /\ NewestRead
    BY DEF NewestInv, UsageInv
<1>1. UNCHANGED log /\ summary.source = "redis" /\ ReadOn(x)
    BY <1>0, ReadShape DEF ReadRedis
<1>2. h \in HoursOfClock /\ f \in FieldSet /\ Head(summary.left) = <<h, f>>
    BY <1>1 DEF ReadOn
<1>3. /\ summary'.source = "redis" /\ summary'.floor = summary.floor
      /\ summary'.since = since /\ summary'.got = x
    BY <1>1 DEF ReadOn
<1>4. \A n \in summary.floor : n \in Events /\ "redis" \in log[n].stored
    <2>1. PICK g : LeftInRedis(g)
        BY <1>1 DEF NewestInv, UsageInv, SummaryCounts
    <2> QED
        BY <1>0, <2>1 DEF LeftInRedis, SummaryShape
<1>5. \A y \in FieldSet : ToRead(HourOf(log[1].at), y) \in BOOLEAN
    BY DEF ToRead
<1>6. ASSUME NEW i \in HoursOfClock, ToRead(i, "failures")
      PROVE  (h = i /\ f = "failures") \/ ToRead(i, "failures")'
    <2>1. "failures" \in FieldSet
        BY DEF FieldSet
    <2> QED
        BY <1>0, <1>1, <1>2, <1>6, <2>1, ReadsLeft
<1>7. got.failures \in Seq(Times) /\ list \in Seq(Times) /\ since \in Int
    BY <1>0, <1>2 DEF TimesListed, SummaryShape
<1>8. HourShape(got) /\ HourShape(redis[h])
    BY <1>0, <1>2 DEF UsageShape, RedisShape, SummaryShape
<1>9. /\ f # "failures" => x.failures = got.failures
      /\ f = "failures" => x.failures = got.failures \o FailuresRead(list, since)
    <2>1. f # "failures" => x.failures = got.failures
        BY <1>2, <1>8, EventsAdded, HostsAdded DEF FieldSet
    <2>2. f = "failures" => x.failures = got.failures \o FailuresRead(list, since)
        BY <1>8 DEF Added, HourShape
    <2> QED
        BY <2>1, <2>2
<1>10. FailuresRead(list, since) \in Seq(Times)
    BY <1>7, PlaceIsRead
<1> HIDE DEF x, got, since, list
<1>11. x.failures \in Seq(Times)
    <2>1. 0 \in Times
        BY UsageBoundsAssumption DEF Times
    <2> QED
        BY <1>7, <1>9, <1>10, <2>1, CoveredStays
<1>12. ASSUME NEW at \in Times, Covered(got.failures, at)
       PROVE  Covered(x.failures, at)
    BY <1>7, <1>9, <1>10, <1>12, CoveredStays
<1>13. ASSUME NEW n \in summary.floor, log[n].kind = "search_user_failed",
              log[n].at >= since, h = HourOf(log[n].at), f = "failures"
       PROVE  Covered(x.failures, log[n].at)
    <2> DEFINE at == log[n].at
               m == Cardinality(Overtaking(n))
    <2>1. n \in Events /\ Pushed(n)
        BY <1>4, <1>13 DEF Pushed
    <2>2. at \in Times
        BY <1>0, <2>1, Events1 DEF EventType, Times
    <2>3. HoldsPlace(list, at, m)
        BY <1>0, <1>13, <2>1 DEF NewestKept, list
    <2>4. m \in Nat
        BY ThreadsAre DEF Overtaking
    <2> HIDE DEF m, at
    <2>5. Covered(FailuresRead(list, since), at)
        BY <1>7, <1>13, <2>2, <2>3, <2>4, PlaceIsRead DEF at
    <2>6. Covered(x.failures, at)
        BY <1>7, <1>9, <1>10, <1>13, <2>2, <2>5, CoveredStays
    <2> QED
        BY <2>6 DEF at
<1>15. \A n : HourOf(log[n].at)' = HourOf(log[n].at) /\ log'[n] = log[n]
    BY <1>1 DEF HourOf
<1>14. ASSUME NEW n \in summary.floor, log[n].kind = "search_user_failed", log[n].at >= since
       PROVE  ToRead(HourOf(log[n].at), "failures")' \/ Covered(x.failures, log[n].at)
    <2>1. log[n].at \in Times /\ HourOf(log[n].at) \in HoursOfClock
        BY <1>0, <1>4, Events1 DEF EventType, Times
    <2>2. ToRead(HourOf(log[n].at), "failures") \/ Covered(got.failures, log[n].at)
        BY <1>0, <1>1, <1>14 DEF NewestRead, got, since
    <2>3. CASE Covered(got.failures, log[n].at)
        BY <1>12, <2>1, <2>3
    <2>4. ASSUME ToRead(HourOf(log[n].at), "failures")
          PROVE  \/ h = HourOf(log[n].at) /\ f = "failures"
                 \/ ToRead(HourOf(log[n].at), "failures")'
        <3>1. PICK i \in HoursOfClock : i = HourOf(log[n].at)
            BY <2>1
        <3>2. (h = i /\ f = "failures") \/ ToRead(i, "failures")'
            BY <1>6, <2>4, <3>1
        <3>3. i = HourOf(log[n].at)'
            BY <1>15, <3>1
        <3> QED
            BY <3>1, <3>2, <3>3
    <2> QED
        BY <1>13, <1>14, <2>2, <2>3, <2>4
<1>16. \A l, at : Covered(l, at)' <=> Covered(l, at)
    BY DEF Covered, SureToShow
<1>17. NewestRead'
    <2> SUFFICES ASSUME NEW n \in summary.floor, log[n].kind = "search_user_failed",
                        log[n].at >= since
                 PROVE  \/ ToRead(HourOf(log[n].at), "failures")'
                        \/ Covered(x.failures, log[n].at)
        BY <1>3, <1>15, <1>16 DEF NewestRead
    <2> QED
        BY <1>14
<1> QED
    BY <1>3, <1>11, <1>17

\* A query of the table finds the newest of its rows.
LEMMA TableReadCovers ==
    ASSUME NewestInv, ReadTable
    PROVE  summary'.got.failures \in Seq(Times) /\ NewestRead'
<1> DEFINE f == Head(summary.left)[2]
           got == summary.got
           x == Queried(got, f)
<1>0. UsageShape /\ SummaryShape /\ TimesListed /\ NewestRead
    BY DEF NewestInv, UsageInv
<1>1. UNCHANGED log /\ summary.source = "sqlite" /\ ReadOn(x)
    BY <1>0, ReadShape DEF ReadTable
<1>2. f \in FieldSet /\ Head(summary.left) \in HoursOfClock \X FieldSet
    BY <1>1 DEF ReadOn
<1>3. /\ summary'.source = "sqlite" /\ summary'.floor = summary.floor
      /\ summary'.since = summary.since /\ summary'.got = x
    BY <1>1 DEF ReadOn
<1>4. PICK g : LeftInTable(g)
    BY <1>1 DEF NewestInv, UsageInv, SummaryCounts
<1>5. \A n \in summary.floor : n \in Events
    BY <1>0 DEF SummaryShape
<1>6. ASSUME ToRead(0, "failures") PROVE f = "failures" \/ ToRead(0, "failures")'
    <2>1. "failures" \in FieldSet /\ 0 \in HoursOfClock
        BY HoursOfTimes DEF FieldSet, HoursOfClock
    <2> QED
        BY <1>0, <1>1, <1>6, <2>1, ReadsLeft
<1>7. f # "failures" => x.failures = got.failures
    BY <1>0, <1>2, QueriedIs DEF FieldSet
<1>8. f = "failures" =>
         /\ x.failures \in Seq(Times)
         /\ \A n \in Selected("search_user_failed") : Covered(x.failures, log[n].at)
    BY <1>0, TableCovers
<1>9. x.failures \in Seq(Times)
    BY <1>0, <1>7, <1>8 DEF TimesListed
<1> HIDE DEF x, f
<1>10. ASSUME NEW n \in summary.floor, log[n].kind = "search_user_failed",
              log[n].at >= summary.since
       PROVE  ToRead(0, "failures")' \/ Covered(x.failures, log[n].at)
    <2>1. ToRead(0, "failures") \/ Covered(got.failures, log[n].at)
        BY <1>0, <1>1, <1>10 DEF NewestRead
    <2>2. n \in Selected("search_user_failed")
        BY <1>4, <1>10 DEF LeftInTable, Selected
    <2> QED
        BY <1>6, <1>7, <1>8, <2>1, <2>2
<1>15. \A n : log'[n] = log[n]
    BY <1>1
<1>16. \A l, at : Covered(l, at)' <=> Covered(l, at)
    BY DEF Covered, SureToShow
<1>17. NewestRead'
    <2> SUFFICES ASSUME NEW n \in summary.floor, log[n].kind = "search_user_failed",
                        log[n].at >= summary.since
                 PROVE  ToRead(0, "failures")' \/ Covered(x.failures, log[n].at)
        BY <1>3, <1>15, <1>16 DEF NewestRead
    <2> QED
        BY <1>10
<1> QED
    BY <1>3, <1>9, <1>17

-----------------------------------------------------------------------------
(* what a summary has found through every step *)

LEMMA FoundStays ==
    ASSUME UsageShape, SummaryShape, NewestRead, EventsStay, UNCHANGED summary
    PROVE  NewestRead'
<1>1. \A n \in summary.floor : log'[n].kind = log[n].kind /\ log'[n].at = log[n].at
    BY DEF SummaryShape, EventsStay
<1>2. \A n \in summary.floor : HourOf(log[n].at)' = HourOf(log[n].at)
    BY <1>1 DEF HourOf
<1>3. \A h, f : ToRead(h, f)' <=> ToRead(h, f)
    BY DEF ToRead
<1>4. \A list, at : Covered(list, at)' <=> Covered(list, at)
    BY DEF Covered, SureToShow
<1> SUFFICES ASSUME NEW n \in summary.floor, log[n].kind = "search_user_failed",
                    log[n].at >= summary.since
             PROVE  \/ ToRead(IF summary.source = "redis" THEN HourOf(log[n].at) ELSE 0,
                              "failures")
                    \/ Covered(summary.got.failures, log[n].at)
    BY <1>1, <1>2, <1>3, <1>4 DEF NewestRead
<1> QED
    BY DEF NewestRead

LEMMA BegunToFind ==
    ASSUME UsageShape, UNCHANGED <<clock, rows, log>>, NEW s \in Servers,
           summary' = FromRedis(s) \/ summary' = FromTable(s)
    PROVE  NewestRead'
<1>1. CASE summary' = FromRedis(s)
    <2>1. summary'.left = RedisReads /\ summary'.floor = InRedis /\ summary'.source = "redis"
        BY <1>1 DEF FromRedis
    <2>2. ASSUME NEW n \in InRedis PROVE ToRead(HourOf(log[n].at), "failures")'
        <3>1. PICK j \in DOMAIN RedisReads :
                 RedisReads[j] = <<HourOf(log[n].at), "failures">>
            BY SinceIs, ReadsAre DEF FieldSet
        <3>2. HourOf(log[n].at)' = HourOf(log[n].at)
            BY DEF HourOf
        <3> QED
            BY <2>1, <3>1, <3>2 DEF ToRead
    <2> QED
        BY <2>1, <2>2 DEF NewestRead
<1>2. CASE summary' = FromTable(s)
    <2> DEFINE reads == [i \in 1..3 |-> <<0, Fields[i]>>]
    <2>1. summary'.left = reads /\ summary'.source = "sqlite"
        BY <1>2 DEF FromTable
    <2>2. 3 \in DOMAIN reads /\ reads[3] = <<0, "failures">>
        BY DEF Fields
    <2> HIDE DEF reads
    <2>3. ToRead(0, "failures")'
        BY <2>1, <2>2 DEF ToRead
    <2> QED
        BY <2>1, <2>3 DEF NewestRead
<1> QED
    BY <1>1, <1>2

LEMMA FoundNothing ==
    ASSUME summary' = NoSummary PROVE NewestRead'
BY DEF NewestRead, NoSummary

\* The newest failures are found through every step.
LEMMA NewestSteps ==
    ASSUME NewestInv, UsageNext
    PROVE  NewestInv'
<1>0. /\ UsageInv /\ UsageShape /\ SummaryShape /\ TimesListed /\ NewestKept /\ NewestRead
      /\ EventsStay
    BY UsageEventsStay DEF NewestInv, UsageInv
<1>1. UsageInv'
    BY <1>0, ShapeKept, SummaryShapeKept, RedisCountsKept, SummaryCountsKept DEF UsageInv
<1>2. NewestKept' /\ \A h \in HoursOfClock : redis'[h].failures \in Seq(Times)
    BY <1>0, NewestKeptStays, ListsHoldTimes
<1> DEFINE Found == summary'.got.failures \in Seq(Times) /\ NewestRead'
<1>3. UNCHANGED summary => Found
    BY <1>0, FoundStays DEF TimesListed
<1>4. summary'.got = EmptyHour => summary'.got.failures \in Seq(Times)
    BY EmptySeq DEF EmptyHour
<1>5. summary' = NoSummary => Found
    BY <1>4, FoundNothing DEF NoSummary
<1>6. ASSUME NEW s \in Servers, UNCHANGED <<clock, rows, log>>,
             summary' = FromRedis(s) \/ summary' = FromTable(s)
      PROVE  Found
    <2>1. summary'.got = EmptyHour
        BY <1>6 DEF FromRedis, FromTable
    <2> QED
        BY <1>0, <1>4, <1>6, <2>1, BegunToFind
<1> HIDE DEF Found
<1>7. ASSUME NEW t \in Trackers,
             Track(t) \/ RunCommand(t) \/ Executes(t) \/ ExecuteFails(t) \/ InsertEvent(t)
      PROVE  Found
    BY <1>3, <1>7 DEF Track, RunCommand, Executes, ExecuteFails, InsertEvent
<1>8. ASSUME NEW s \in Servers, AskSummary(s) \/ ReplaceServer(s) PROVE Found
    BY <1>3, <1>5, <1>6, <1>8 DEF AskSummary, ReplaceServer
<1>9. ASSUME ReadRedis \/ ReadTable PROVE Found
    BY <1>9, RedisReadCovers, TableReadCovers DEF Found
<1>10. ASSUME ReadRedisFails \/ AnswerSummary \/ ClockTicks PROVE Found
    BY <1>0, <1>3, <1>5, <1>6, <1>10 DEF ReadRedisFails, AnswerSummary, ClockTicks, SummaryShape
<1>11. Found
    BY <1>7, <1>8, <1>9, <1>10 DEF UsageNext
<1> QED
    BY <1>1, <1>2, <1>11 DEF NewestInv, TimesListed, Found

LEMMA NewestInvHolds == UsageSpec => []NewestInv
<1>1. UsageInit => TimesListed /\ NewestKept /\ NewestRead
    <2> SUFFICES ASSUME UsageInit PROVE TimesListed /\ NewestKept /\ NewestRead
        OBVIOUS
    <2>1. \A h \in HoursOfClock : redis[h].failures = <<>>
        BY DEF UsageInit, EmptyHour
    <2>2. summary.got.failures = <<>> /\ summary.floor = {}
        BY DEF UsageInit, NoSummary, EmptyHour
    <2>3. Events = {}
        BY DEF UsageInit, Events
    <2> QED
        BY <2>1, <2>2, <2>3, EmptySeq DEF TimesListed, NewestKept, NewestRead
<1>2. NewestInv /\ UNCHANGED usageVars /\ UsageInv' => NewestInv'
    <2> SUFFICES ASSUME NewestInv, UNCHANGED usageVars, UsageInv' PROVE NewestInv'
        OBVIOUS
    <2>1. TimesListed'
        BY DEF NewestInv, TimesListed, usageVars
    <2>2. \A n \in Events : /\ Pushed(n)' <=> Pushed(n)
                            /\ Overtaking(n)' = Overtaking(n)
                            /\ HourOf(log[n].at)' = HourOf(log[n].at)
        BY DEF usageVars, Pushed, Overtaking, HourOf, Sent, EventOf
    <2>3. Events' = Events /\ log' = log /\ redis' = redis
        BY DEF usageVars, Events
    <2>4. \A list, at, m : HoldsPlace(list, at, m)' <=> HoldsPlace(list, at, m)
        BY DEF HoldsPlace, OlderIn, Others
    <2>5. NewestKept'
        BY <2>2, <2>3, <2>4 DEF NewestInv, NewestKept
    <2>6. EventsStay
        BY <2>3, Events1 DEF NewestInv, UsageInv, EventsStay
    <2>7. NewestRead'
        BY <2>6, FoundStays DEF NewestInv, UsageInv, usageVars
    <2> QED
        BY <2>1, <2>5, <2>7 DEF NewestInv
<1>3. UsageSpec => []UsageInv
    BY UsageInvHolds
<1>4. UsageInv /\ TimesListed /\ NewestKept /\ NewestRead => NewestInv
    BY DEF NewestInv
<1>5. NewestInv /\ [UsageNext]_usageVars /\ UsageInv' => NewestInv'
    BY <1>2, NewestSteps
<1> QED
    BY <1>1, <1>3, <1>4, <1>5, PTL DEF UsageSpec

\* A summary that is answered has found all it shows.
LEMMA AnswerShowsNewest == NewestInv => RecentAreNewest
<1> SUFFICES ASSUME NewestInv, Answered,
                    NEW n \in OfKind(summary.floor, "search_user_failed"),
                    log[n].at >= summary.since
             PROVE  \/ \E i \in Recent : summary.got.failures[i] = log[n].at
                    \/ Cardinality({i \in Recent : summary.got.failures[i] >= log[n].at})
                          >= SureToShow
    BY DEF RecentAreNewest
<1>1. \A h, f : ~ToRead(h, f)
    <2>1. DOMAIN summary.left = {}
        BY DEF Answered
    <2> QED
        BY <2>1 DEF ToRead
<1>2. n \in summary.floor /\ log[n].kind = "search_user_failed" /\ n \in Events
    BY DEF OfKind, NewestInv, UsageInv, SummaryShape
<1>3. Covered(summary.got.failures, log[n].at)
    BY <1>1, <1>2 DEF NewestInv, NewestRead
<1>4. log[n].at \in Times
    BY <1>2, Events1 DEF NewestInv, UsageInv, EventType, Times
<1> QED
    BY <1>3, <1>4, RecentCovers DEF NewestInv, UsageInv, TimesListed

\* Whatever pipelines interleave, are cut or are lost, an answered summary counts
\* every event that was stored before it began once, and shows the newest failures:
\* one is missing only when as many as there is room for are not older.
THEOREM SummaryIsRight == UsageSpec => []SummaryMatchesEvents
<1>1. NewestInv => CountsOfEvents /\ RecentAreNewest
    BY AnswerCounts, AnswerShowsNewest DEF NewestInv
<1> QED
    BY <1>1, NewestInvHolds, PTL DEF SummaryMatchesEvents

-----------------------------------------------------------------------------
(* DataRetention *)

USE DEF TooOld, NoMatch

-----------------------------------------------------------------------------
(* the types *)

\* No age leaves its range by growing, and a row that is not there stays away.
LEMMA OlderInRange ==
    ASSUME NEW age \in 0..NoMatch
    PROVE  /\ TickOlder(age) \in 0..NoMatch
           /\ TickOlder(age) = NoMatch <=> age = NoMatch
           /\ TickOlder(age) <= age + 1
BY PeriodAssumption DEF TickOlder

\* A purge changes no type.
LEMMA PurgeInRange ==
    ASSUME RetentionTypeOK
    PROVE  /\ Purged(stored) \in [MatchIds -> 0..NoMatch]
           /\ PurgedSnapshot(newest) \in [age : 0..NoMatch, text : BOOLEAN, version : 0..MaxVersion]
<1>1. Purged(stored) \in [MatchIds -> 0..NoMatch]
    BY PeriodAssumption DEF RetentionTypeOK, Purged
<1>2. ASSUME NEW b \in BOOLEAN
      PROVE  [newest EXCEPT !.text = b]
                \in [age : 0..NoMatch, text : BOOLEAN, version : 0..MaxVersion]
    BY DEF RetentionTypeOK
<1>3. (newest.text /\ InPeriod(newest.age)) \in BOOLEAN
    OBVIOUS
<1> QED
    BY <1>1, <1>2, <1>3 DEF PurgedSnapshot

\* Ages, the cached list and the newest snapshot keep their types: the service
\* starts with an empty database, and no handler, purge or tick leaves a range.
THEOREM RetentionTypes == RetentionSpec => []RetentionTypeOK
<1>1. RetentionInit => RetentionTypeOK
    BY PeriodAssumption, VersionAssumption DEF RetentionInit, RetentionTypeOK, NoNewest
<1>2. ASSUME RetentionTypeOK, [RetentionNext]_retentionVars PROVE RetentionTypeOK'
    <2>1. ASSUME NEW new \in SUBSET MatchIds, SaveMatches(new) PROVE RetentionTypeOK'
        BY <1>2, <2>1, PeriodAssumption DEF SaveMatches, RetentionTypeOK
    <2>2. ASSUME NEW next \in version..MaxVersion, StartServer(next) PROVE RetentionTypeOK'
        BY <1>2, <2>2, PurgeInRange, VersionAssumption DEF StartServer, RetentionTypeOK
    <2>3. CASE SaveAnalysis
        <3>1. newest' \in [age : 0..NoMatch, text : BOOLEAN, version : 0..MaxVersion]
            BY <1>2, <2>3, PurgeInRange, PeriodAssumption, VersionAssumption
            DEF SaveAnalysis, RetentionTypeOK
        <3> QED
            BY <1>2, <2>3, <3>1, PurgeInRange DEF SaveAnalysis, RetentionTypeOK
    <2>4. CASE EmptyDatabase
        BY <1>2, <2>4, PeriodAssumption, VersionAssumption
        DEF EmptyDatabase, RetentionTypeOK, NoNewest
    <2>5. CASE TimePasses
        BY <1>2, <2>5, OlderInRange, PeriodAssumption DEF TimePasses, RetentionTypeOK
    <2>6. CASE UNCHANGED retentionVars
        BY <1>2, <2>6 DEF retentionVars, RetentionTypeOK
    <2> QED
        BY <1>2, <2>1, <2>2, <2>3, <2>4, <2>5, <2>6 DEF RetentionNext
<1> QED
    BY <1>1, <1>2, PTL DEF RetentionSpec

-----------------------------------------------------------------------------
(* what follows from it *)

\* Rows that the purge removes are rows no reader takes: list_match_stats,
\* get_match_review, get_latest_analysis and the endpoint of the cards.
LEMMA PurgedIsSilent == RetentionTypeOK => PurgeIsSilent
<1> SUFFICES ASSUME RetentionTypeOK PROVE PurgeIsSilent
    OBVIOUS
<1> DEFINE purged == Purged(stored)
           s == PurgedSnapshot(newest)
<1>1. \A m \in MatchIds : /\ InPeriod(purged[m]) <=> InPeriod(stored[m])
                          /\ InPeriod(stored[m]) => purged[m] = stored[m]
    BY PeriodAssumption DEF RetentionTypeOK, Purged, InPeriod
<1>2. ListMatchStats(purged) = ListMatchStats(stored)
    BY <1>1 DEF ListMatchStats
<1>3. \A m \in MatchIds : Reviewed(purged, m) = Reviewed(stored, m)
    BY <1>1 DEF Reviewed
<1>4. s.age = newest.age /\ s.version = newest.version
      /\ (s.text /\ InPeriod(s.age) <=> newest.text /\ InPeriod(newest.age))
    BY DEF RetentionTypeOK, PurgedSnapshot
<1>5. AnalysisShown(purged, s) = AnalysisShown(stored, newest)
    <2> HIDE DEF purged, s
    <2> QED
        BY <1>2, <1>4 DEF AnalysisShown
<1>6. ActionsShown(purged, s) = ActionsShown(stored, newest)
    BY <1>5 DEF ActionsShown
<1> QED
    BY <1>2, <1>3, <1>5, <1>6 DEF PurgeIsSilent

\* Cards are shown with an analysis of the running version in its period.
LEMMA AdviceInTime == AdviceIsCurrent
BY DEF AdviceIsCurrent, ActionsShown, AnalysisShown, InPeriod

\* No answer of the service depends on whether the purge has come, and advice is
\* that of an analysis in its period: for every period and time to live.
THEOREM RetentionIsKept == RetentionSpec => []RetentionKept
<1>1. RetentionTypeOK => RetentionKept
    BY PurgedIsSilent, AdviceInTime DEF RetentionKept
<1> QED
    BY <1>1, RetentionTypes, PTL

HIDE DEF TooOld, NoMatch

-----------------------------------------------------------------------------
(* RateLimiter *)

USE KeyOfAssumption, MaxRequestsAssumption, WindowSecAssumption,
    PerSecAssumption, MaxLagAssumption, MaxBucketsAssumption

\* A refused client that waits as told comes when the entry it waited for, the
\* first of its key, has left the window.
Promised ==
    \A k \in Keys : promise[k] # NoPromise =>
        bucket[k] = <<>> \/ bucket[k][1] + promise[k] >= Window

\* A key of the dict has an entry, though it may be an old one.
HasEntry == \A k \in known : bucket[k] # <<>>

\* A key that is not in the dict has no bucket.
NoBucket == \A k \in Keys \ known : bucket[k] = <<>>

\* The last n entries of b have been let through up to a ticks ago, after they
\* had waited for the lock.
Listing(b, n, a) ==
    /\ n <= Len(b)
    /\ \A j \in 1..Len(b) : j > Len(b) - n => b[j] <= a + MaxLag

\* What was let through a short time ago is still in its bucket.
LetThroughIsListed ==
    \A k \in Keys, a \in Ages :
        a + MaxLag < Window => Listing(bucket[k], accepted[k][a], a)

LimiterInv ==
    TypeOK /\ Promised /\ HasEntry /\ NoBucket /\ LetThroughIsListed

-----------------------------------------------------------------------------
(* numbers and lists *)

LEMMA LimiterNumbers ==
    /\ Window \in Nat \ {0}
    /\ MaxLag \in Nat /\ MaxLag < Window
    /\ OldestAge \in Nat /\ OldestAge = Window + MaxLag
<1>1. \A m, n \in Nat \ {0} : m * n \in Nat \ {0}
    OBVIOUS
<1>2. Window \in Nat \ {0}
    BY <1>1 DEF Window
<1>3. MaxLag \in 0..(Window - 1)
    BY DEF Window
<1> HIDE DEF Window
<1> QED
    BY <1>2, <1>3 DEF OldestAge

Buckets == Seq(0..OldestAge)

LEMMA BucketIsList ==
    ASSUME NEW b \in Buckets
    PROVE  /\ Len(b) \in Nat /\ DOMAIN b = 1..Len(b)
           /\ \A n \in 1..Len(b) : b[n] \in 0..OldestAge
           /\ b # <<>> => Len(b) > 0 /\ b[1] \in 0..OldestAge
<1> DEFINE S == 0..OldestAge
<1>1. b \in Seq(S)
    BY DEF Buckets
<1> HIDE DEF S
<1>2. Len(b) \in Nat /\ b \in [1..Len(b) -> S]
    BY <1>1, LenProperties
<1>3. b # <<>> => Len(b) \in Nat \ {0}
    BY <1>1, EmptySeq
<1> QED
    BY <1>2, <1>3 DEF S

\* The loop drops a prefix, of entries outside the window.  If it drops nothing
\* the list is as it was, and its first entry is inside the window; an entry
\* outside of it is dropped.
LEMMA PrunedIsSuffix ==
    ASSUME NEW b \in Buckets, NEW s \in 0..MaxLag
    PROVE  /\ Pruned(b, s) \in Buckets
           /\ Len(Pruned(b, s)) <= Len(b)
           /\ b # <<>> /\ b[1] - s < Window => Pruned(b, s) = b
           /\ b # <<>> /\ b[1] - s >= Window => Len(Pruned(b, s)) < Len(b)
           /\ \E d \in 0..Len(b) :
                 /\ Len(Pruned(b, s)) = Len(b) - d
                 /\ \A j \in 1..(Len(b) - d) : Pruned(b, s)[j] = b[j + d]
                 /\ \A j \in 1..d : ~(b[j] - s < Window)
<1> DEFINE live == {n \in DOMAIN b : b[n] - s < Window}
           first == CHOOSE n \in live : \A m \in live : n <= m
<1>1. Len(b) \in Nat /\ DOMAIN b = 1..Len(b) /\ (b # <<>> => Len(b) > 0)
      /\ \A n \in 1..Len(b) : b[n] \in 0..OldestAge
    BY BucketIsList
<1>2. CASE live = {}
    <2>1. Pruned(b, s) = <<>>
        BY <1>2 DEF Pruned
    <2>2. <<>> \in Buckets /\ Len(<<>>) = 0
        BY EmptySeq DEF Buckets
    <2>3. b # <<>> => ~(b[1] - s < Window)
        BY <1>1, <1>2
    <2>4. \A j \in 1..Len(b) : ~(b[j] - s < Window)
        BY <1>1, <1>2
    <2>5. \E d \in 0..Len(b) :
             /\ Len(Pruned(b, s)) = Len(b) - d
             /\ \A j \in 1..(Len(b) - d) : Pruned(b, s)[j] = b[j + d]
             /\ \A j \in 1..d : ~(b[j] - s < Window)
        <3>1. Len(b) \in 0..Len(b) /\ Len(b) - Len(b) = 0
            BY <1>1
        <3> QED
            BY <2>1, <2>2, <2>4, <3>1
    <2> HIDE DEF live
    <2>6. Pruned(b, s) \in Buckets /\ Len(Pruned(b, s)) <= Len(b)
        BY <1>1, <2>1, <2>2
    <2>7. b # <<>> => Len(Pruned(b, s)) < Len(b)
        BY <1>1, <2>1, <2>2
    <2> QED
        BY <2>3, <2>5, <2>6, <2>7
<1>3. CASE live # {}
    <2>1. live \in SUBSET Nat
        BY <1>1
    <2>2. \E n \in live : \A m \in live : n <= m
        <3> HIDE DEF live
        <3> QED
            BY <1>3, <2>1, LeastNatural
    <2>3. first \in live /\ \A m \in live : first <= m
        BY <2>2
    <2>4. Pruned(b, s) = SubSeq(b, first, Len(b))
        BY <1>3 DEF Pruned
    <2>5. first \in 1..Len(b)
        BY <1>1, <2>3
    <2> HIDE DEF first
    <2>6. /\ Pruned(b, s) \in Buckets /\ Len(Pruned(b, s)) = Len(b) - first + 1
          /\ \A j \in 1..(Len(b) - first + 1) : Pruned(b, s)[j] = b[first + j - 1]
        <3>1. \A i \in first..Len(b) : b[i] \in 0..OldestAge
            BY <1>1, <2>5
        <3> QED
            BY <1>1, <2>4, <2>5, <3>1, SubSeqProperties DEF Buckets
    <2>7. ASSUME b # <<>>, b[1] - s < Window PROVE Pruned(b, s) = b
        <3>1. 1 \in live
            BY <1>1, <2>7
        <3>2. first = 1
            BY <2>3, <2>5, <3>1
        <3> QED
            BY <2>4, <3>2, SubSeqFull DEF Buckets
    <2>8. b # <<>> /\ b[1] - s >= Window => first # 1
        <3>1. 1 \in live => b[1] - s < Window
            OBVIOUS
        <3>2. b # <<>> => b[1] - s \in Int
            BY <1>1
        <3> QED
            BY <2>3, <3>1, <3>2, LimiterNumbers
    <2>9. \E d \in 0..Len(b) :
             /\ Len(Pruned(b, s)) = Len(b) - d
             /\ \A j \in 1..(Len(b) - d) : Pruned(b, s)[j] = b[j + d]
             /\ \A j \in 1..d : ~(b[j] - s < Window)
        <3> DEFINE d == first - 1
        <3>1. d \in 0..Len(b) /\ Len(b) - d = Len(b) - first + 1
            BY <1>1, <2>5
        <3>2. \A j \in 1..(Len(b) - d) : Pruned(b, s)[j] = b[j + d]
            BY <1>1, <2>5, <2>6
        <3>3. ASSUME NEW j \in 1..d PROVE ~(b[j] - s < Window)
            <4>1. j \in DOMAIN b /\ ~(first <= j)
                BY <1>1, <2>5
            <4>2. j \notin live
                BY <2>3, <4>1
            <4> QED
                BY <4>1, <4>2
        <3> HIDE DEF d
        <3> QED
            BY <2>6, <3>1, <3>2, <3>3
    <2> HIDE DEF live
    <2>10. Len(Pruned(b, s)) <= Len(b)
        BY <1>1, <2>5, <2>6
    <2>11. b # <<>> /\ b[1] - s >= Window => Len(Pruned(b, s)) < Len(b)
        BY <1>1, <2>5, <2>6, <2>8
    <2> QED
        BY <2>6, <2>7, <2>9, <2>10, <2>11
<1> QED
    BY <1>2, <1>3

\* The loop drops nothing that was let through a short time ago.
LEMMA PrunedKeepsListing ==
    ASSUME NEW b \in Buckets, NEW s \in 0..MaxLag, NEW n \in Nat,
           NEW a \in Ages, a + MaxLag < Window, Listing(b, n, a)
    PROVE  Listing(Pruned(b, s), n, a)
<1> DEFINE c == Pruned(b, s)
<1>1. /\ Len(b) \in Nat /\ n <= Len(b) /\ a \in Nat
      /\ \A j \in 1..Len(b) : b[j] \in Nat
    BY BucketIsList, LimiterNumbers DEF Listing, Ages
<1>2. PICK d \in 0..Len(b) :
         /\ Len(c) = Len(b) - d
         /\ \A j \in 1..(Len(b) - d) : c[j] = b[j + d]
         /\ \A j \in 1..d : ~(b[j] - s < Window)
    BY PrunedIsSuffix
<1> HIDE DEF c
<1>3. d <= Len(b) - n
    <2> SUFFICES ASSUME d > Len(b) - n PROVE FALSE
        BY <1>1
    <2> DEFINE j == Len(b) - n + 1
    <2>1. j \in 1..Len(b) /\ j \in 1..d /\ j > Len(b) - n
        BY <1>1
    <2>2. b[j] <= a + MaxLag /\ b[j] \in Nat
        BY <1>1, <2>1 DEF Listing
    <2>3. ~(b[j] - s < Window)
        BY <1>2, <2>1
    <2> HIDE DEF j
    <2> QED
        BY <1>1, <2>2, <2>3, LimiterNumbers
<1>4. ASSUME NEW j \in 1..Len(c), j > Len(c) - n PROVE c[j] <= a + MaxLag
    <2>1. j + d \in 1..Len(b) /\ j + d > Len(b) - n /\ c[j] = b[j + d]
        BY <1>1, <1>2, <1>4
    <2> QED
        BY <2>1 DEF Listing
<1> QED
    BY <1>1, <1>2, <1>3, <1>4 DEF Listing, c

\* A request that is let through is the newest entry.
LEMMA AppendListed ==
    ASSUME NEW b \in Buckets, NEW s \in 0..MaxLag, NEW n \in Nat,
           NEW a \in Ages, Listing(b, n, a)
    PROVE  Listing(Append(b, s), n + 1, a)
<1>1. /\ Len(b) \in Nat /\ n <= Len(b) /\ a \in Nat
    BY BucketIsList DEF Listing, Ages
<1>2. s \in 0..OldestAge
    BY LimiterNumbers
<1>3. /\ Len(Append(b, s)) = Len(b) + 1
      /\ \A j \in 1..Len(b) : Append(b, s)[j] = b[j]
      /\ Append(b, s)[Len(b) + 1] = s
    BY <1>2, AppendProperties DEF Buckets
<1>4. ASSUME NEW j \in 1..(Len(b) + 1), j > Len(b) - n
      PROVE  Append(b, s)[j] <= a + MaxLag
    <2>1. CASE j = Len(b) + 1
        BY <1>1, <1>3, <2>1, LimiterNumbers
    <2>2. CASE j \in 1..Len(b)
        BY <1>3, <1>4, <2>2 DEF Listing
    <2> QED
        BY <1>1, <2>1, <2>2
<1>5. Len(b) + 1 - (n + 1) = Len(b) - n /\ n + 1 <= Len(b) + 1
    BY <1>1
<1> QED
    BY <1>3, <1>4, <1>5 DEF Listing

\* The seconds that a refused client is told are enough ticks.
LEMMA RetryIsEnough ==
    ASSUME NEW b \in Buckets, b # <<>>, NEW s \in 0..MaxLag
    PROVE  /\ RetryAfterSec(b, s) * PerSec \in Nat
           /\ b[1] - s + RetryAfterSec(b, s) * PerSec >= Window
<1> DEFINE left == Window - (b[1] - s)
<1>1. b[1] \in 0..OldestAge
    BY BucketIsList
<1>2. left \in Int
    BY <1>1, LimiterNumbers
<1> HIDE DEF left
<1>3. left \div PerSec \in Int /\ (left \div PerSec + 1) * PerSec > left
    BY <1>2
<1>4. RetryAfterSec(b, s) = IF left \div PerSec + 1 < 1 THEN 1 ELSE left \div PerSec + 1
    BY DEF RetryAfterSec, left
<1>5. RetryAfterSec(b, s) \in Nat /\ RetryAfterSec(b, s) >= left \div PerSec + 1
    BY <1>3, <1>4
<1>6. \A m, n \in Int : \A p \in Nat \ {0} : m >= n => m * p \in Int /\ m * p >= n * p
    OBVIOUS
<1>7. RetryAfterSec(b, s) * PerSec >= (left \div PerSec + 1) * PerSec
    BY <1>3, <1>5, <1>6
<1>8. RetryAfterSec(b, s) * PerSec \in Nat
    BY <1>5
<1>9. (left \div PerSec + 1) * PerSec \in Int
    BY <1>3
<1>10. RetryAfterSec(b, s) * PerSec > left
    BY <1>2, <1>3, <1>7, <1>8, <1>9
<1> QED
    BY <1>1, <1>2, <1>8, <1>10, LimiterNumbers DEF left

-----------------------------------------------------------------------------
(* the invariant *)

\* What an accepted request leaves: no key has lost its entries, and the dict
\* has one more key at most.
LEMMA NothingEmpty ==
    ASSUME TypeOK, HasEntry, NEW k \in Keys, NEW b \in Buckets, b # <<>>
    PROVE  Evicted(known \cup {k}, [bucket EXCEPT ![k] = b]) = known \cup {k}
<1>1. \A q \in known \cup {k} : [bucket EXCEPT ![k] = b][q] # <<>>
    BY DEF TypeOK, HasEntry
<1> QED
    BY <1>1 DEF Evicted

\* A refusal finds the bucket as it was: one that has lost an entry has room.
LEMMA RefusedIsFull ==
    ASSUME TypeOK, NEW k \in Keys, NEW s \in 0..MaxLag,
           Len(Pruned(bucket[k], s)) >= MaxRequests
    PROVE  Pruned(bucket[k], s) = bucket[k] /\ bucket[k] # <<>>
<1>1. bucket[k] \in Buckets /\ Len(bucket[k]) <= MaxRequests
    BY DEF TypeOK, Buckets
<1>2. Len(Pruned(bucket[k], s)) \in Nat /\ Len(bucket[k]) \in Nat
      /\ Len(Pruned(bucket[k], s)) <= Len(bucket[k])
    BY <1>1, PrunedIsSuffix, BucketIsList
<1>3. bucket[k] # <<>>
    BY <1>1, <1>2, EmptySeq
<1>4. ~(bucket[k][1] - s >= Window)
    BY <1>1, <1>2, <1>3, PrunedIsSuffix
<1> QED
    BY <1>1, <1>3, <1>4, PrunedIsSuffix, BucketIsList, LimiterNumbers

LEMMA RefuseKeeps ==
    ASSUME LimiterInv, NEW r \in Requests, stamp[r] \in 0..MaxLag,
           Refuse(r, Pruned(bucket[KeyOf[r]], stamp[r])),
           stamp' = [stamp EXCEPT ![r] = NoRequest]
    PROVE  LimiterInv'
<1> DEFINE k == KeyOf[r]
           b == bucket[k]
           ticks == RetryAfterSec(b, stamp[r]) * PerSec
<1>1. k \in Keys /\ b \in Buckets
    BY DEF LimiterInv, TypeOK, Buckets
<1>2. Pruned(b, stamp[r]) = b /\ b # <<>>
    BY <1>1, RefusedIsFull DEF LimiterInv, Refuse
<1>3. bucket' = bucket
    BY <1>1, <1>2 DEF Refuse, LimiterInv, TypeOK
<1>4. promise' = [promise EXCEPT ![k] = IF @ = NoPromise THEN ticks ELSE @]
    BY <1>2 DEF Refuse
<1>5. ticks \in Nat /\ b[1] - stamp[r] + ticks >= Window /\ b[1] \in Nat
    BY SMTT(30), <1>1, <1>2, RetryIsEnough, BucketIsList, LimiterNumbers
<1>6. known' = known \cup {k} /\ accepted' = accepted
    BY DEF Refuse
<1> HIDE DEF ticks
<1>7. TypeOK'
    BY <1>1, <1>3, <1>4, <1>5, <1>6 DEF LimiterInv, TypeOK
<1>8. Promised'
    <2>1. b[1] + ticks >= Window
        BY <1>5, LimiterNumbers
    <2> QED
        BY <1>1, <1>3, <1>4, <2>1 DEF LimiterInv, Promised, TypeOK
<1>9. HasEntry' /\ NoBucket' /\ LetThroughIsListed'
    BY <1>2, <1>3, <1>6 DEF LimiterInv, HasEntry, NoBucket, LetThroughIsListed
<1> QED
    BY <1>7, <1>8, <1>9 DEF LimiterInv

LEMMA AcceptKeeps ==
    ASSUME LimiterInv, NEW r \in Requests, stamp[r] \in 0..MaxLag,
           Accept(r, Pruned(bucket[KeyOf[r]], stamp[r])),
           stamp' = [stamp EXCEPT ![r] = NoRequest]
    PROVE  LimiterInv' /\ known' = known \cup {KeyOf[r]}
<1> DEFINE k == KeyOf[r]
           b == Pruned(bucket[k], stamp[r])
           c == Append(b, stamp[r])
<1>1. k \in Keys /\ b \in Buckets /\ Len(b) \in Nat /\ Len(b) < MaxRequests
    BY PrunedIsSuffix, BucketIsList DEF LimiterInv, TypeOK, Buckets, Accept
<1>2. stamp[r] \in 0..OldestAge
    BY LimiterNumbers
<1>3. c \in Buckets /\ c # <<>> /\ Len(c) <= MaxRequests
    BY <1>1, <1>2, AppendProperties DEF Buckets
<1>4. known' = known \cup {k}
    BY <1>1, <1>3, NothingEmpty DEF Accept, LimiterInv
<1>5. \A q \in Keys : bucket'[q] = IF q = k THEN c
                                   ELSE IF q \in known THEN bucket[q] ELSE <<>>
    BY <1>1, <1>4 DEF Accept, LimiterInv, TypeOK
<1>6. bucket' \in [Keys -> Buckets] /\ \A q \in Keys : Len(bucket'[q]) <= MaxRequests
    <2>1. bucket' = [q \in Keys |-> bucket'[q]]
        BY DEF Accept
    <2>2. <<>> \in Buckets /\ Len(<<>>) = 0
        BY EmptySeq DEF Buckets
    <2>3. \A q \in Keys : bucket[q] \in Buckets /\ Len(bucket[q]) <= MaxRequests
        BY DEF LimiterInv, TypeOK, Buckets
    <2> HIDE DEF b, c
    <2>4. \A q \in Keys : bucket'[q] \in Buckets /\ Len(bucket'[q]) <= MaxRequests
        BY <1>3, <1>5, <2>2, <2>3
    <2> QED
        BY <2>1, <2>4
<1>7. promise' = [promise EXCEPT ![k] = NoPromise]
      /\ accepted' = [accepted EXCEPT ![k] = [a \in Ages |-> @[a] + 1]]
    BY DEF Accept
<1>8. TypeOK'
    <2> HIDE DEF b, c
    <2>1. [a \in Ages |-> accepted[k][a] + 1] \in [Ages -> Nat]
        BY <1>1 DEF LimiterInv, TypeOK
    <2>2. accepted' \in [Keys -> [Ages -> Nat]]
        BY <1>1, <1>7, <2>1 DEF LimiterInv, TypeOK
    <2> QED
        BY <1>1, <1>4, <1>6, <1>7, <2>2 DEF LimiterInv, TypeOK, Buckets
<1>9. Promised'
    BY <1>1, <1>5, <1>7 DEF LimiterInv, Promised, TypeOK
<1>10. HasEntry' /\ NoBucket'
    BY <1>1, <1>3, <1>4, <1>5 DEF LimiterInv, HasEntry, NoBucket, TypeOK
<1>11. LetThroughIsListed'
    <2> SUFFICES ASSUME NEW q \in Keys, NEW a \in Ages, a + MaxLag < Window
                 PROVE  Listing(bucket'[q], accepted'[q][a], a)
        BY DEF LetThroughIsListed, Listing
    <2>1. /\ Listing(bucket[q], accepted[q][a], a) /\ accepted[q][a] \in Nat
          /\ bucket[q] \in Buckets
        BY DEF LimiterInv, LetThroughIsListed, TypeOK, Buckets
    <2>2. CASE q = k
        <3>1. accepted'[q][a] = accepted[q][a] + 1 /\ bucket'[q] = c
            BY <1>1, <1>5, <1>7, <2>2 DEF LimiterInv, TypeOK
        <3>2. Listing(b, accepted[q][a], a)
            BY <2>1, <2>2, PrunedKeepsListing
        <3> QED
            BY <1>1, <2>1, <3>1, <3>2, AppendListed
    <2>3. CASE q # k
        <3>1. accepted'[q] = accepted[q] /\ bucket'[q] = bucket[q]
            BY <1>5, <1>7, <2>3 DEF LimiterInv, NoBucket, TypeOK
        <3> QED
            BY <2>1, <3>1
    <2> QED
        BY <2>2, <2>3
<1> QED
    BY <1>4, <1>8, <1>9, <1>10, <1>11 DEF LimiterInv

\* As time passes an entry grows as old as the promise grows short.
LEMMA TickKeeps == LimiterInv /\ Tick => LimiterInv'
<1> SUFFICES ASSUME LimiterInv, Tick PROVE LimiterInv'
    OBVIOUS
<1>1. ASSUME NEW k \in Keys
      PROVE  /\ bucket'[k] \in Buckets /\ Len(bucket'[k]) = Len(bucket[k])
             /\ bucket[k] # <<>> => bucket'[k] # <<>>
             /\ bucket[k] # <<>> => bucket'[k][1] = Older(bucket[k][1], OldestAge)
             /\ bucket[k] = <<>> => bucket'[k] = <<>>
             /\ \A n \in 1..Len(bucket[k]) :
                   bucket'[k][n] = Older(bucket[k][n], OldestAge)
    <2> DEFINE b == bucket[k]
    <2>1. b \in Buckets
        BY DEF LimiterInv, TypeOK, Buckets
    <2>2. bucket'[k] = [n \in 1..Len(b) |-> Older(b[n], OldestAge)]
        BY <2>1, BucketIsList DEF Tick
    <2>3. Len(b) \in Nat /\ \A n \in 1..Len(b) : Older(b[n], OldestAge) \in 0..OldestAge
        BY <2>1, BucketIsList, LimiterNumbers DEF Older
    <2> HIDE DEF b
    <2>4. bucket'[k] \in [1..Len(b) -> 0..OldestAge]
        BY <2>2, <2>3
    <2>5. bucket'[k] \in Buckets
        BY <2>3, <2>4, SeqDef DEF Buckets
    <2>6. Len(bucket'[k]) = Len(b)
        <3>1. DOMAIN bucket'[k] = 1..Len(bucket'[k]) /\ Len(bucket'[k]) \in Nat
            BY <2>5, BucketIsList
        <3>2. 1..Len(bucket'[k]) = 1..Len(b)
            BY <2>4, <3>1
        <3> QED
            BY <2>3, <3>1, <3>2
    <2>7. b # <<>> => Len(b) > 0
        BY <2>1, BucketIsList
    <2>8. bucket'[k] # <<>> <=> b # <<>>
        BY <2>1, <2>5, <2>6, BucketIsList, EmptySeq
    <2> QED
        BY <2>2, <2>3, <2>5, <2>6, <2>7, <2>8 DEF b
<1>2. TypeOK'
    <2>1. bucket' \in [Keys -> Buckets]
        BY <1>1 DEF Tick
    <2>2. stamp' \in [Requests -> {NoRequest} \cup 0..MaxLag]
        BY DEF Tick, LimiterInv, TypeOK, NoRequest
    <2>3. accepted' \in [Keys -> [Ages -> Nat]]
        <3>1. \A k \in Keys : \A a \in Ages : a # 0 => accepted[k][a - 1] \in Nat
            BY LimiterNumbers DEF LimiterInv, TypeOK, Ages
        <3> QED
            BY <3>1 DEF Tick
    <2>4. promise' \in [Keys -> {NoPromise} \cup Nat]
        BY DEF Tick, LimiterInv, TypeOK, NoPromise
    <2>5. known' \subseteq Keys /\ \A k \in Keys : Len(bucket'[k]) <= MaxRequests
        BY <1>1 DEF Tick, LimiterInv, TypeOK
    <2> QED
        BY <2>1, <2>2, <2>3, <2>4, <2>5 DEF TypeOK, Buckets
<1>3. Promised'
    <2> SUFFICES ASSUME NEW k \in Keys, promise'[k] # NoPromise, bucket'[k] # <<>>
                 PROVE  bucket'[k][1] + promise'[k] >= Window
        BY DEF Promised
    <2>1. promise[k] \in Nat /\ promise'[k] = IF promise[k] > 0 THEN promise[k] - 1 ELSE 0
        BY DEF Tick, LimiterInv, TypeOK, NoPromise
    <2>2. bucket[k] # <<>> /\ bucket'[k][1] = Older(bucket[k][1], OldestAge)
        BY <1>1
    <2>3. bucket[k][1] \in 0..OldestAge
        BY <2>2, BucketIsList DEF LimiterInv, TypeOK, Buckets
    <2>4. bucket[k][1] + promise[k] >= Window
        BY <2>1, <2>2 DEF LimiterInv, Promised, NoPromise
    <2>5. bucket'[k][1] >= Window \/ bucket'[k][1] = bucket[k][1] + 1
        BY <2>2, <2>3, LimiterNumbers DEF Older
    <2>6. bucket'[k][1] \in Nat
        BY <2>2, <2>3, LimiterNumbers DEF Older
    <2>7. promise'[k] \in Nat /\ promise'[k] >= promise[k] - 1
        BY <2>1
    <2>8. CASE bucket'[k][1] >= Window
        BY <2>6, <2>7, <2>8, LimiterNumbers
    <2>9. CASE bucket'[k][1] = bucket[k][1] + 1
        <3> DEFINE old == bucket[k][1]  new == bucket'[k][1]
        <3>1. old \in Nat /\ new = old + 1 /\ old + promise[k] >= Window
            BY <2>3, <2>4, <2>9, LimiterNumbers
        <3> HIDE DEF old, new
        <3>2. new + promise'[k] >= Window
            BY <2>1, <2>7, <3>1, LimiterNumbers
        <3> QED
            BY <3>2 DEF new
    <2> QED
        BY <2>5, <2>8, <2>9
<1>4. HasEntry' /\ NoBucket'
    BY <1>1 DEF Tick, LimiterInv, TypeOK, HasEntry, NoBucket
<1>5. LetThroughIsListed'
    <2> SUFFICES ASSUME NEW k \in Keys, NEW a \in Ages, a + MaxLag < Window
                 PROVE  Listing(bucket'[k], accepted'[k][a], a)
        BY DEF LetThroughIsListed, Listing
    <2>1. /\ bucket[k] \in Buckets /\ Len(bucket[k]) \in Nat
          /\ \A j \in 1..Len(bucket[k]) : bucket[k][j] \in 0..OldestAge
        BY BucketIsList DEF LimiterInv, TypeOK, Buckets
    <2>2. accepted'[k][a] = IF a = 0 THEN 0 ELSE accepted[k][a - 1]
        BY DEF Tick
    <2>3. CASE a = 0
        BY <1>1, <2>1, <2>2, <2>3 DEF Listing
    <2>4. CASE a # 0
        <3>1. a - 1 \in Ages /\ (a - 1) + MaxLag < Window /\ a \in Nat
            BY <2>4, LimiterNumbers DEF Ages
        <3>2. Listing(bucket[k], accepted[k][a - 1], a - 1)
            BY <3>1 DEF LimiterInv, LetThroughIsListed
        <3>3. ASSUME NEW j \in 1..Len(bucket[k]), bucket[k][j] <= (a - 1) + MaxLag
              PROVE  bucket'[k][j] <= a + MaxLag
            <4>1. bucket[k][j] \in Nat /\ bucket[k][j] # OldestAge
                BY <2>1, <3>1, <3>3, LimiterNumbers
            <4>2. bucket'[k][j] = bucket[k][j] + 1
                BY <1>1, <4>1 DEF Older
            <4> QED
                BY <3>1, <3>3, <4>1, <4>2, LimiterNumbers
        <3> QED
            BY <1>1, <2>2, <2>4, <3>2, <3>3 DEF Listing
    <2> QED
        BY <2>3, <2>4
<1> QED
    BY <1>2, <1>3, <1>4, <1>5 DEF LimiterInv

LEMMA JudgeKeeps ==
    ASSUME LimiterInv, NEW r \in Requests, Judge(r)
    PROVE  LimiterInv' /\ known \subseteq known'
<1>1. stamp[r] \in 0..MaxLag
    BY DEF Judge, LimiterInv, TypeOK
<1>2. CASE Refuse(r, Pruned(bucket[KeyOf[r]], stamp[r]))
    BY <1>1, <1>2, RefuseKeeps DEF Judge, Refuse
<1>3. CASE Accept(r, Pruned(bucket[KeyOf[r]], stamp[r]))
    BY <1>1, <1>3, AcceptKeeps DEF Judge
<1> QED
    BY <1>2, <1>3 DEF Judge

LEMMA LimiterSteps == LimiterInv /\ [Next]_vars => LimiterInv' /\ known \subseteq known'
<1> SUFFICES ASSUME LimiterInv, [Next]_vars PROVE LimiterInv' /\ known \subseteq known'
    OBVIOUS
<1>1. ASSUME NEW r \in Requests, Arrive(r) PROVE LimiterInv' /\ known \subseteq known'
    BY <1>1, LimiterNumbers
    DEF Arrive, LimiterInv, TypeOK, Promised, HasEntry, NoBucket, LetThroughIsListed
<1>2. CASE Tick
    BY <1>2, TickKeeps DEF Tick
<1>3. CASE UNCHANGED vars
    BY <1>3
    DEF vars, LimiterInv, TypeOK, Promised, HasEntry, NoBucket, LetThroughIsListed
<1> QED
    BY <1>1, <1>2, <1>3, JudgeKeeps DEF Next

LEMMA LimiterStarts == Init => LimiterInv
<1> SUFFICES ASSUME Init PROVE LimiterInv
    OBVIOUS
<1>1. \A k \in Keys : bucket[k] = <<>> /\ promise[k] = NoPromise
    BY DEF Init
<1>2. <<>> \in Buckets /\ Len(<<>>) = 0
    BY EmptySeq DEF Buckets
<1>3. bucket \in [Keys -> Buckets]
    BY <1>2 DEF Init
<1>4. TypeOK
    BY <1>1, <1>2, <1>3 DEF Init, TypeOK, Buckets
<1>5. LetThroughIsListed
    BY <1>1, <1>2 DEF Init, LetThroughIsListed, Listing
<1> QED
    BY <1>1, <1>4, <1>5 DEF Init, LimiterInv, Promised, HasEntry, NoBucket

\* The invariant holds in every reachable state.
LEMMA LimiterInvariance == Spec => []LimiterInv
BY LimiterStarts, LimiterSteps, PTL DEF Spec


\* Buckets, time stamps and the dict keep their types; no bucket grows beyond
\* the limit of its endpoint.
THEOREM LimiterTypes == Spec => []TypeOK
BY LimiterInvariance, PTL DEF LimiterInv

\* _enforce_rate_limit: a client that waits for its Retry-After finds room, for
\* any limit, window and resolution of the clock, if nobody used its key.
THEOREM RetryAfterIsHonest == Spec => []RetryAfterHonest
<1>1. LimiterInv => RetryAfterHonest
    <2> SUFFICES ASSUME LimiterInv, NEW k \in Keys, promise[k] = 0
                 PROVE  Len(Pruned(bucket[k], 0)) < MaxRequests
        BY DEF RetryAfterHonest
    <2>1. bucket[k] \in Buckets /\ Len(bucket[k]) \in Nat /\ Len(bucket[k]) <= MaxRequests
        BY BucketIsList DEF LimiterInv, TypeOK, Buckets
    <2>2. 0 \in 0..MaxLag
        BY LimiterNumbers
    <2>3. Len(Pruned(bucket[k], 0)) \in Nat
          /\ Len(Pruned(bucket[k], 0)) <= Len(bucket[k])
        BY <2>1, <2>2, PrunedIsSuffix, BucketIsList
    <2>4. CASE bucket[k] = <<>>
        BY <2>3, <2>4, EmptySeq
    <2>5. CASE bucket[k] # <<>>
        <3>1. bucket[k][1] \in Nat /\ bucket[k][1] >= Window
            BY <2>1, <2>5, BucketIsList, LimiterNumbers DEF LimiterInv, Promised, NoPromise
        <3> QED
            BY <2>1, <2>2, <2>3, <2>5, <3>1, PrunedIsSuffix
    <2> QED
        BY <2>4, <2>5
<1> QED
    BY <1>1, LimiterInvariance, PTL

\* _enforce_rate_limit: no key is let through more than MaxRequests times in a
\* stretch of the window less the time a request may wait for the lock, in
\* whatever order requests get it.
THEOREM LimitIsKept == Spec => []WindowBound
<1>1. LimiterInv => WindowBound
    <2> SUFFICES ASSUME LimiterInv, NEW k \in Keys
                 PROVE  accepted[k][Window - MaxLag - 1] <= MaxRequests
        BY DEF WindowBound
    <2> DEFINE a == Window - MaxLag - 1
    <2>1. a \in Ages /\ a + MaxLag < Window
        BY LimiterNumbers DEF Ages
    <2> HIDE DEF a
    <2>2. /\ accepted[k][a] \in Nat /\ accepted[k][a] <= Len(bucket[k])
          /\ Len(bucket[k]) <= MaxRequests /\ Len(bucket[k]) \in Nat
        BY <2>1, BucketIsList
        DEF LimiterInv, LetThroughIsListed, Listing, TypeOK, Buckets
    <2>3. accepted[k][a] <= MaxRequests
        BY <2>2
    <2> QED
        BY <2>3 DEF a
<1> QED
    BY <1>1, LimiterInvariance, PTL

\* The eviction above MaxBuckets keys drops none, whatever MaxBuckets is.
THEOREM EvictionIsVoid == Spec => NothingIsEvicted
BY LimiterInvariance, LimiterSteps, PTL DEF Spec, NothingIsEvicted

-----------------------------------------------------------------------------
(* the composition *)

\* Every step of the composition is one of its limiter or leaves it alone, and
\* so for the rankers, the statistics and the retention: what is proved of each
\* holds of the composition that is model-checked.
LEMMA ServicesAreTheirs ==
    /\ ServicesInit => Init /\ RankerInit /\ UsageInit /\ RetentionInit
    /\ [ServicesNext]_serviceVars =>
          /\ [Next]_vars
          /\ [RankerNext]_rankerVars
          /\ [UsageNext]_usageVars
          /\ [RetentionNext]_retentionVars
BY DEF ServicesInit, ServicesNext, serviceVars

\* Whichever of the services moves, its variables keep their types.
THEOREM ServicesTypes == ServicesSpec => []ServicesTypeOK
<1> DEFINE Choice == which \in {"limiter", "rankers", "usage", "retention"}
<1>1. ServicesInit => Choice
    BY DEF ServicesInit
<1>2. Choice /\ [ServicesNext]_serviceVars => Choice'
    BY DEF ServicesNext, serviceVars
<1>3. Choice /\ TypeOK /\ RankerTypeOK /\ UsageTypeOK /\ RetentionTypeOK => ServicesTypeOK
    BY DEF ServicesTypeOK
<1> HIDE DEF Choice
<1>4. ServicesSpec => []Choice
    BY <1>1, <1>2, PTL DEF ServicesSpec
<1>5. ServicesSpec => Spec /\ RankerSpec /\ UsageSpec /\ RetentionSpec
    BY ServicesAreTheirs, PTL DEF ServicesSpec, Spec, RankerSpec, UsageSpec, RetentionSpec
<1> QED
    BY <1>3, <1>4, <1>5, LimiterTypes, TypeCorrect, UsageTypes, RetentionTypes, PTL
=============================================================================
