--------------------------- MODULE UsageAnalytics ---------------------------
(***************************************************************************)
(* The usage statistics of fcoach: events_track and events_summary of      *)
(* apps/api/app/main.py, services/analytics_store.py and the SQLite table  *)
(* analytics_events of apps/api/app/db.py.                                 *)
(*                                                                         *)
(* A tracked event is sent to Redis as a pipeline without a transaction:   *)
(* its commands run one by one, other clients' between them, and a         *)
(* connection that is lost leaves the first of them done.  Then the event  *)
(* is also inserted in the SQLite table of its server.  A summary reads    *)
(* Redis hour by hour, again command by command, or the table if its       *)
(* server has lost Redis, which it does for good.                          *)
(*                                                                         *)
(* Visitors, paths and screens are left out: they are counted in the same  *)
(* way as hosts are.  An event is tracked only from a production origin,   *)
(* so every page view has a host.  Forwarding to PostHog keeps nothing.    *)
(***************************************************************************)
EXTENDS Integers, Sequences, FiniteSets, TLC

CONSTANTS
    Servers,        \* processes of the service
    Trackers,       \* threads that serve POST /events/track
    ServerOf,       \* ServerOf[t]: the server of thread t
    PerHour,        \* ticks of the clock in an hour
    LastTick,       \* bound: the clock stops here
    MaxEvents,      \* bound: events tracked
    SummaryHours,   \* hours of the summary
    SummaryLimit,   \* limit of the summary
    KeptFailures    \* 100: failures kept for an hour

ASSUME ServersAssumption == Servers # {}
ASSUME TrackersAssumption == IsFiniteSet(Trackers) /\ ServerOf \in [Trackers -> Servers]
ASSUME PerHourAssumption == PerHour \in Nat \ {0}
ASSUME UsageBoundsAssumption == LastTick \in Nat /\ MaxEvents \in Nat
ASSUME SummaryAssumption ==
    /\ SummaryHours \in 1..720
    /\ SummaryLimit \in 1..100
    /\ KeptFailures \in Nat

Kinds == {"page_view", "search_user_failed"}
HoursOfClock == 0..(LastTick \div PerHour)
Stores == {"redis", "sqlite"}
Done == 99       \* no command of the pipeline is left

VARIABLES
    clock,     \* datetime.now
    connected, \* connected[s]: _redis of server s is not None
    redis,     \* redis[h]: the keys of hour h
    rows,      \* rows[s]: analytics_events at s, as places in log
    log,       \* log[n]: the n-th event tracked, and where it was stored
    sending,   \* sending[t]: the event thread t sends and its next command
    summary    \* the summary that is being made

usageVars == <<clock, connected, redis, rows, log, sending, summary>>

EmptyHour ==
    [events |-> [k \in Kinds |-> 0], hosts |-> 0, failures |-> <<>>]

NoSummary ==
    [server |-> CHOOSE s \in Servers : TRUE, source |-> "none", since |-> 0, left |-> <<>>,
     floor |-> {}, got |-> EmptyHour]

Resting == [event |-> 0, next |-> Done]

HourType(hour) ==
    /\ hour.events \in [Kinds -> 0..MaxEvents]
    /\ hour.hosts \in 0..MaxEvents
    /\ Len(hour.failures) <= MaxEvents

UsageTypeOK ==
    /\ clock \in 0..LastTick
    /\ connected \in [Servers -> BOOLEAN]
    /\ DOMAIN redis = HoursOfClock
    /\ \A h \in HoursOfClock : HourType(redis[h])
    /\ rows \in [Servers -> SUBSET (1..Len(log))]
    /\ Len(log) <= MaxEvents
    /\ \A n \in DOMAIN log :
          log[n] \in [kind : Kinds, at : 0..clock, server : Servers,
                      stored : SUBSET Stores]
    /\ sending \in [Trackers -> [event : 0..Len(log), next : 1..4 \cup {Done}]]
    /\ summary.server \in Servers
    /\ summary.source \in Stores \cup {"none"}
    /\ summary.floor \subseteq DOMAIN log
    /\ HourType(summary.got)

UsageInit ==
    /\ clock = 0
    /\ connected = [s \in Servers |-> TRUE]
    /\ redis = [h \in HoursOfClock |-> EmptyHour]
    /\ rows = [s \in Servers |-> {}]
    /\ log = <<>>
    /\ sending = [t \in Trackers |-> Resting]
    /\ summary = NoSummary

-----------------------------------------------------------------------------
(* tracking an event *)

HourOf(time) == time \div PerHour
Lesser(m, n) == IF m < n THEN m ELSE n

\* The commands of RedisAnalyticsStore.record, without the expiry that follows
\* each: a key lives longer than the widest summary looks back.
Commands(e) ==
    IF e.kind = "page_view" THEN <<"events", "hosts">>
                            ELSE <<"events", "failures", "trim">>

\* What a command does to the keys of its hour.
Executed(hour, command, e) ==
    CASE command = "events" -> [hour EXCEPT !.events[e.kind] = @ + 1]
      [] command = "hosts" -> [hour EXCEPT !.hosts = @ + 1]
      [] command = "failures" -> [hour EXCEPT !.failures = <<e.at>> \o @]
      [] command = "trim" ->
            [hour EXCEPT !.failures =
                SubSeq(@, 1, Lesser(KeptFailures, Len(@)))]

Sent(t) == sending[t].event
EventOf(t) == log[Sent(t)]
SendNext(t, next) == sending' = [sending EXCEPT ![t].next = next]
StoredIn(n, store) == log' = [log EXCEPT ![n].stored = @ \cup {store}]

\* POST /events/track from a production origin.
Track(t) ==
    /\ sending[t] = Resting
    /\ Len(log) < MaxEvents
    /\ \E k \in Kinds :
          log' = Append(log, [kind |-> k, at |-> clock, server |-> ServerOf[t],
                              stored |-> {}])
    /\ sending' = [sending EXCEPT ![t] =
                     [event |-> Len(log) + 1,
                      next |-> IF connected[ServerOf[t]] THEN 1 ELSE Done]]
    /\ UNCHANGED <<clock, connected, redis, rows, summary>>

\* Redis runs the next command of the pipeline.
RunCommand(t) ==
    /\ sending[t].next # Done
    /\ sending[t].next <= Len(Commands(EventOf(t)))
    /\ redis' = [redis EXCEPT ![HourOf(EventOf(t).at)] =
                   Executed(@, Commands(EventOf(t))[sending[t].next], EventOf(t))]
    /\ SendNext(t, sending[t].next + 1)
    /\ UNCHANGED <<clock, connected, rows, log, summary>>

\* pipe.execute() returns.
Executes(t) ==
    /\ sending[t].next # Done
    /\ sending[t].next = Len(Commands(EventOf(t))) + 1
    /\ SendNext(t, Done)
    /\ StoredIn(Sent(t), "redis")
    /\ UNCHANGED <<clock, connected, redis, rows, summary>>

\* A failed pipeline that is sent once more.
ExecuteFailsRetry(t) ==
    /\ sending[t].next # Done
    /\ UNCHANGED connected
    /\ SendNext(t, 1)
    /\ UNCHANGED <<clock, redis, rows, log, summary>>

\* pipe.execute() raises, be it that commands were run or a reply was lost.
ExecuteFails(t) ==
    /\ sending[t].next # Done
    /\ connected' = [connected EXCEPT ![ServerOf[t]] = FALSE]
    /\ SendNext(t, Done)
    /\ UNCHANGED <<clock, redis, rows, log, summary>>

\* insert_analytics_event, whose failure record_analytics_event ignores.
InsertEvent(t) ==
    /\ Sent(t) # 0 /\ sending[t].next = Done
    /\ \/ /\ rows' = [rows EXCEPT ![ServerOf[t]] = @ \cup {Sent(t)}]
          /\ StoredIn(Sent(t), "sqlite")
       \/ UNCHANGED <<rows, log>>
    /\ sending' = [sending EXCEPT ![t] = Resting]
    /\ UNCHANGED <<clock, connected, redis, summary>>

-----------------------------------------------------------------------------
(* the summary *)

Fields == <<"events", "hosts", "failures">>

Since == clock - SummaryHours * PerHour
FirstHour == IF Since < 0 THEN 0 ELSE HourOf(Since)

\* A loop over the hours that stops before the current one.
RedisReadsFinished ==
    LET n == 3 * (HourOf(clock) - FirstHour)
    IN  [i \in 1..n |-> <<FirstHour + (i - 1) \div 3, Fields[((i - 1) % 3) + 1]>>]

\* _hour_buckets and the reads of each, in the order of the pipelines.
RedisReads ==
    LET n == 3 * (HourOf(clock) - FirstHour + 1)
    IN  [i \in 1..n |-> <<FirstHour + (i - 1) \div 3, Fields[((i - 1) % 3) + 1]>>]

\* The events a summary begun now cannot miss: those of its hours that Redis
\* has acknowledged, or those of its time that are in the table.
InRedis == {n \in DOMAIN log : "redis" \in log[n].stored
                               /\ HourOf(log[n].at) >= HourOf(Since)}
InTable(s) == {n \in rows[s] : log[n].at >= Since}

FromTable(s) ==
    [server |-> s, source |-> "sqlite", since |-> Since,
     left |-> [i \in 1..3 |-> <<0, Fields[i]>>],
     floor |-> InTable(s), got |-> EmptyHour]

FromRedis(s) ==
    [server |-> s, source |-> "redis", since |-> Since, left |-> RedisReads,
     floor |-> InRedis, got |-> EmptyHour]

\* GET /events/summary with the admin key.
AskSummary(s) ==
    /\ summary = NoSummary
    /\ summary' = IF connected[s] THEN FromRedis(s) ELSE FromTable(s)
    /\ UNCHANGED <<clock, connected, redis, rows, log, sending>>

\* The members of S as a list, n after those that come before it.
InOrder(S, Before(_, _)) ==
    [i \in 1..Cardinality(S) |->
       CHOOSE n \in S : Cardinality({m \in S : Before(m, n)}) = i - 1]

\* The newest rows of an hour's list, 0 to 2 * limit, inside the time asked for.
FailuresRead(list, since) ==
    LET places == {i \in 1..Lesser(2 * SummaryLimit + 1, Len(list)) : list[i] >= since}
        read == InOrder(places, LAMBDA i, j : i < j)
    IN  [i \in 1..Cardinality(places) |-> list[read[i]]]

\* What one read of an hour adds to the totals.
Added(got, hour, field, since) ==
    CASE field = "events" ->
            [got EXCEPT !.events = [k \in Kinds |-> @[k] + hour.events[k]]]
      [] field = "hosts" -> [got EXCEPT !.hosts = @ + hour.hosts]
      [] field = "failures" ->
            [got EXCEPT !.failures = @ \o FailuresRead(hour.failures, since)]

ReadRedis ==
    /\ summary.source = "redis" /\ summary.left # <<>>
    /\ LET read == Head(summary.left)
       IN  summary' = [summary EXCEPT
                         !.left = Tail(@),
                         !.got = Added(@, redis[read[1]], read[2], summary.since)]
    /\ UNCHANGED <<clock, connected, redis, rows, log, sending>>

\* A pipeline raises: Redis is given up and the table is read from the start.
ReadRedisFails ==
    /\ summary.source = "redis" /\ summary.left # <<>>
    /\ connected' = [connected EXCEPT ![summary.server] = FALSE]
    /\ summary' = FromTable(summary.server)
    /\ UNCHANGED <<clock, redis, rows, log, sending>>

\* The rows of a kind that a query of the summary selects.
Selected(k) ==
    {n \in rows[summary.server] : log[n].kind = k /\ log[n].at >= summary.since}

\* The events of S, newest first.
NewestFirst(S) ==
    InOrder(S, LAMBDA m, n : log[m].at > log[n].at \/ (log[m].at = log[n].at /\ m < n))

\* One query of get_analytics_summary in db.py.
Queried(got, field) ==
    CASE field = "events" ->
            [got EXCEPT !.events = [k \in Kinds |-> Cardinality(Selected(k))]]
      [] field = "hosts" -> [got EXCEPT !.hosts = Cardinality(Selected("page_view"))]
      [] field = "failures" ->
            LET found == NewestFirst(Selected("search_user_failed"))
            IN  [got EXCEPT !.failures =
                   [i \in 1..Lesser(SummaryLimit, Len(found)) |-> log[found[i]].at]]

ReadTable ==
    /\ summary.source = "sqlite" /\ summary.left # <<>>
    /\ summary' = [summary EXCEPT !.left = Tail(@),
                                  !.got = Queried(@, Head(summary.left)[2])]
    /\ UNCHANGED <<clock, connected, redis, rows, log, sending>>

\* recent_failures, as places of the failures found: a stable sort, then the cut.
Recent ==
    LET found == summary.got.failures
        ahead == [i \in DOMAIN found |->
                    {j \in DOMAIN found :
                       found[j] > found[i] \/ (found[j] = found[i] /\ j < i)}]
    IN  {i \in DOMAIN found : Cardinality(ahead[i]) < SummaryLimit}

\* page_view_hosts with the views of unknown host: those counted as events only.
HostViews ==
    LET unclassified == summary.got.events["page_view"] - summary.got.hosts
    IN  summary.got.hosts
        + (IF summary.source = "redis" /\ unclassified > 0 THEN unclassified ELSE 0)

Answered == summary.source # "none" /\ summary.left = <<>>

AnswerSummary ==
    /\ Answered
    /\ summary' = NoSummary
    /\ UNCHANGED <<clock, connected, redis, rows, log, sending>>

-----------------------------------------------------------------------------
(* time and replacement *)

ClockTicks ==
    /\ clock < LastTick
    /\ clock' = clock + 1
    /\ UNCHANGED <<connected, redis, rows, log, sending, summary>>

\* A server is replaced: its table is empty, its requests are gone, and it has
\* Redis if the ping at the start is answered.
ReplaceServer(s) ==
    /\ \E up \in BOOLEAN : connected' = [connected EXCEPT ![s] = up]
    /\ rows' = [rows EXCEPT ![s] = {}]
    /\ log' = [n \in DOMAIN log |-> IF log[n].server = s
                 THEN [log[n] EXCEPT !.stored = @ \ {"sqlite"}] ELSE log[n]]
    /\ sending' = [t \in Trackers |-> IF ServerOf[t] = s THEN Resting ELSE sending[t]]
    /\ summary' = IF summary.server = s THEN NoSummary ELSE summary
    /\ UNCHANGED <<clock, redis>>

UsageNext ==
    \/ \E t \in Trackers : \/ Track(t) \/ RunCommand(t) \/ Executes(t)
                           \/ ExecuteFails(t) \/ InsertEvent(t)
    \/ \E s \in Servers : AskSummary(s) \/ ReplaceServer(s)
    \/ ReadRedis \/ ReadRedisFails \/ ReadTable \/ AnswerSummary
    \/ ClockTicks

UsageSpec == UsageInit /\ [][UsageNext]_usageVars

-----------------------------------------------------------------------------
(* properties *)

OfKind(S, k) == {n \in S : log[n].kind = k}
Possible == {n \in DOMAIN log :
               summary.source = "sqlite" => log[n].server = summary.server}

\* Whatever is lost or runs in between, a summary counts every event that was
\* stored before it began, and none twice: not one whose pipeline was cut, not
\* one that is in Redis and in the table, and not a view as its host's and as
\* one of unknown host.
CountsOfEvents ==
    Answered =>
        /\ \A k \in Kinds :
              /\ summary.got.events[k] >= Cardinality(OfKind(summary.floor, k))
              /\ summary.got.events[k] <= Cardinality(OfKind(Possible, k))
        /\ HostViews >= Cardinality(OfKind(summary.floor, "page_view"))
        /\ HostViews <= Cardinality(OfKind(Possible, "page_view"))

\* What a summary has room for: an hour keeps and shows so many, and the pipeline
\* of each other thread may have put one failure before newer ones.
SureToShow ==
    Lesser(SummaryLimit,
           Lesser(KeptFailures, 2 * SummaryLimit + 1) - (Cardinality(Trackers) - 1))

\* A failure stored before the summary began is among the recent failures, or
\* as many as there is room for are not older.
RecentAreNewest ==
    Answered =>
        \A n \in OfKind(summary.floor, "search_user_failed") :
            log[n].at >= summary.since =>
                \/ \E i \in Recent : summary.got.failures[i] = log[n].at
                \/ Cardinality({i \in Recent : summary.got.failures[i] >= log[n].at})
                      >= SureToShow

\* A summary counts every event it should once, and shows the newest failures.
SummaryMatchesEvents == CountsOfEvents /\ RecentAreNewest
=============================================================================
