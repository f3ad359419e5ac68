# fcoach: a verification development

TLA+ models of fcoach, a coaching service for FC Online: `apps/api` is a
FastAPI service that reads matches from the Nexon Open API, stores them and
analyses them; `apps/web` is a Next.js client. The service runs as one process
per instance (Vercel starts as many as it likes), each with a SQLite file of
its own under `/tmp`; Redis (Upstash), where it is configured, is the only
thing the instances share. That is where the hard behaviour is: threads of one
process, processes that share nothing but a cache with time to live, an API
that limits and fails, and a host that replaces instances.

Paths below are relative to the repository. `PROJECT.json` lists every
definition with the lines it models, the runs, the mutants, the hazards and the
theorems.

## 1. Inventory

| Component | State | Operations | Hard behaviour | What makes it correct |
|---|---|---|---|---|
| Cache and lock, `services/cache.py` | Redis keys or a memory dict, the client's `_redis` | `get_json`, `set_json`, `acquire_lock`, `release_lock` | leases that run out, lost replies, the silent change from Redis to the dict | no two grants within a lease; a lease always ends; a split only in an outage |
| Request gate, `services/nexon_requests.py`, `openapi_client._get` | semaphore, pacer, cooldown of the process and in the cache | `acquire`, `_get`, `_set_rate_limit_window`, `cooldown_remaining_sec` | sleeping in the slot, check then send, exceptions out of the block, last writer wins | slots conserved, rate bounded, a cooldown obeyed but for a bounded leak |
| Detail batches, `openapi_client._fetch_match_details` | a shared pool with its queue, sessions of a client | batches of four | all or nothing, cancelled futures, sessions closed under running ones | no work outlives its request; every request gets out |
| Rate limiter, `main._enforce_rate_limit` | a deque of times per scope and address | one call per request | the clock is read before the lock | no more than N in a window; an honest Retry-After; bounded memory |
| Match synchronisation, `services/analysis.py` 1746-2057, `openapi_client.py` 225-272, `db.upsert_matches` | `matches_raw` per instance, match cache and head probe | load, probe, refresh, save | no lock anywhere; read-modify-write of the cache; partial knowledge of ids | an answer has enough matches, the newest one, no gap |
| Analysis request, `main._analysis_run`, `analysis_latest`, `analysis.run_analysis` | run lock, result cache, snapshots, action cards | run, read the latest | a lease shorter than the run, write-back of what was read earlier, two names for one thing | runs exclude each other, a result shown was saved and is the newest |
| Analysis progress, `services/analysis_progress.py`, `web/lib/analysisRequest.ts` | one entry per request, the client's timer | stages, polls | polls that answer late, on another instance; the client's deadline before the server's | stages go forward and stop with the request |
| User search, `main.users_search`, `db.*_user_lookup` | registry of locks, lookup cache, lookup table | search | two locks, double-checked caches | one API call per name; nothing older than the retention period |
| Retention, `db.purge_stale_nexon_api_data` and every reader | every table with API data | purge on start-up and before an analysis | rows stay until then, caches of other instances | no answer depends on the purge; nothing past its period |
| Ranker sync, `main._ensure_daily_rankers`, `services/ranker_*.py` | ranker table, benchmark cache and last valid copy, two locks, time of the last attempt | background sync, refresh, reads | an attempt that fails, a thread that does not start, an empty database | one sync a day; a good benchmark is never lost to a bad one |
| Match selection and comparison, `match_selection.py`, `recent_analysis.py`, `match_trends.py`, `comparison_evidence.py`, `before_after.py` | none | pure | limits, forfeits, running sums | equal to a definition over all matches |
| Coaching and metrics, `ranker_coaching.py`, `team_history_coaching.py`, `score_*.py`, `domain_scores.py` and others | none | pure | what is weighed with what, what a limit cuts off | weights are one whole; advice is on the worst |
| Squad feed, names, tiers, profiles | a cache per kind | reads of external pages | failures cached as success, stale parts put together, names that change hands | what is shown was true when it was asked for |
| Experiments | two tables | create, latest, evaluate | the latest changes while an evaluation loads | a result compares the matches around its own start |
| Usage analytics | Redis counters, a table | record, summary | a pipeline cut off, reads between its commands | every event counted once |
| Web client | React state | user actions, late answers | answers for a question no longer asked | only the request of an analysis is modelled |
| Scripts, configuration | none | - | none | - |

A request to `/analysis/run` passes the rate limiter, takes the lock of its
window, synchronises the matches (each HTTP request going through the gate,
details through the pool), reads the feed, names and rankers beside them,
computes views, scores and advice, saves a snapshot with its action cards,
caches the result and releases the lock, reporting its stages meanwhile.

## 2. Modules

| Module | Models | Checked with | Proved in |
|---|---|---|---|
| `LeaseLock` | abstract: what one lock promises | `CacheLock` | `Primitives_proofs` |
| `CacheLock` | `acquire_lock`, `release_lock` over Redis and the memory dicts | `MCCacheLock`, `MCPrimitives` | `Primitives_proofs` |
| `DetailPool` | `_fetch_match_details` on the shared pool | `MCPrimitives` | `Primitives_proofs` |
| `RequestGate` | slots, pacer, cooldown and retry loop | `MCPrimitives`, `MCRequestGate` | `RequestGate_proofs` |
| `RateLimiter` | `_enforce_rate_limit` | `MCServices` | `Services_proofs` |
| `RankerSync` | the daily sync and the shared benchmark | `MCServices`, `MCRankerSync` | `RankerSync_proofs` |
| `UsageAnalytics` | recording and summing usage events | `MCServices` | `Services_proofs` |
| `DataRetention` | matches and analyses growing old, the purge, the readers | `MCServices`, `MCDataRetention` | `Services_proofs` |
| `MatchSync` | which matches an answer contains | `MCMatchSync`, `MCSync` | `MatchSync_proofs` |
| `AnalysisRun` | `/analysis/run` and `/analysis/latest` | `MCAnalysisRun`, `MCAnalysis` | `Analysis_proofs` |
| `AnalysisProgress` | the stages of a run and the client that polls | `MCAnalysis` | `Analysis_proofs` |
| `AnalysisInputs` | the feed and the names an analysis reads | `MCAnalysis` | `Analysis_proofs` |
| `MatchViews` | sample, histories, trends, comparison of groups | `MCAnalysis` | `Analysis_proofs` |
| `CoachingAdvice` | which differences become advice | `MCAnalysis` | `Analysis_proofs` |
| `DomainScores` | weights, scores and advice of areas | `MCAnalysis` | `Analysis_proofs` |
| `Experiments` | experiments and their evaluation | `MCAnalysis` | `Analysis_proofs` |
| `UserDivisions` | the tiers of a manager | `MCAnalysis` | `Analysis_proofs` |
| `OpponentProfile` | rank and division beside a match | `MCAnalysis` | `Analysis_proofs` |
| `UserSearch` | `/users/search`, the lookup table and its purge | `MCUserSearch` | `UserSearch_proofs` |

`MCPrimitives`, `MCServices` and `MCAnalysis` compose modules that share no
state: a variable `which` says whose step it is in a behaviour, the others stand
still. This checks the same states as a run for each, without their product.

**CacheLock.** A *store* is Redis or the memory dict of one client;
`entry[s]` is the value of the lock key there with its remaining time to live.
`online[c]` says whether client `c` still has its `_redis`. A worker asks with
a fresh token (`uuid4`), holds, and releases. Any Redis call may raise before
or after it took effect (`AskRedisRaises`, `ReleaseRedisRaises`), which makes
the client use its dict from then on, as `self._redis = None` does;
`OtherCallRaises` stands for the failing `get_json` or `set_json` of another
request. `Restart` empties a process. `StoresAreLeaseLocks` is the refinement:
each store is a `LeaseLock` whose owner is the token in the entry.

**DetailPool.** `queue` is the queue of `DETAIL_POOL`; `future[c][n]` is the
state of one fetch of client `c`. The generator passed to `extend` waits for one
future after the other (`CollectResult`), the first that raised cancels what no
worker has begun (`CollectFails`), and `Leave` is the `finally`, which waits for
all. A cancelled future ends when a worker takes it off the queue.

**RequestGate.** `phase[t]` is the place of thread `t` in `_get`; `InSlot` are the
places inside `with REQUEST_SLOTS`. Times are countdowns: `nextIn` is
`_next_request - now`, `local` and `shared` are the rest of the two cooldown
windows. `CheckLocal` and `CheckShared` are the two reads of
`cooldown_remaining_sec`: both are made, and what the first has found is kept in
the place (`barred`) until the second decides. `SetLocal` and `SetShared` the two writes of
`_set_rate_limit_window`. `sent`, `told` and `leaked` are history; `sent[i][a]` is how
many requests of instance `i` went out in the last `a` ticks, `told[i]` what is
left of the longest wait a 429 has told it, and `leaked[i]` what went out in it. `PaceKept` is both
the distance of reservations and the bound of requests in any window.

**RateLimiter.** `stamp[r]` is the age of the time the request read before the
lock, so requests are judged in any order of their stamps. Seconds are
`PerSec` ticks so that the rounding of `retry_after` shows. `accepted[k][a]` is
history: how many requests of key `k` were let through in the last `a` ticks.

**RankerSync.** A worker thread of an instance goes from `_ensure_daily_rankers`
to `Finish`, a request thread from `Ask` to `Answer`; both go through the same
steps of a refresh: fetch, save, look at the shared snapshots, aggregate, store
it twice. A snapshot is the age of its youngest row and of its oldest, because
its date is the former and its retention depends on the latter. `stuck[i]` says
that a thread of `i` could not be started, which leaves its lock taken.

**UsageAnalytics.** `Commands` is the pipeline of an event; its commands run
one by one. A summary is its own list of reads, hour by hour. `log` is history:
which events were tracked, with what stores they reached, to count against.

**DataRetention.** Ages of rows, of the payloads in the cached list and of the
newest snapshot. The readers (`ListMatchStats`, `Reviewed`, `AnalysisShown`,
`ActionsShown`) take the table they read as a parameter, so that `PurgeIsSilent`
can ask what they would answer after a purge. The cached list is written as a
whole, with its full time to live, whenever newer matches are fetched
(`SaveMatches`), with the payloads it held before, whatever their age. That is
why a match can be reviewed beyond its period: `ReviewedInTime` says that it
cannot, and `matches_kept` finds it violated.

**MatchSync.** Matches are numbered by date; `played` is how many exist
upstream. A worker goes through `_load_rows_for_analysis` with one step per
read or write of shared data: database, cache, probe (the question and the
writing down of its answer are two steps, `AskHead` and `RememberHead`), known ids, page of ids,
save, cache read, cache write, final read. `Wanted` is the choice between
`collect_incremental_match_rows` and the two modes of `collect_match_rows`.
Stores lose content by expiry, by a newer instance and by the lost update of the
cache; `kept` remembers which of them did while a worker ran, so that the
properties can say what they need. `listed` is the page of ids a refresh was
given. `shortFill` remembers that some refresh had too little to go by
(`TooShort`): a stock smaller than its window, or a page that neither covers the
window nor reaches a known match.

**AnalysisRun.** The lock and the cached result are named by the window asked
for, the snapshot and the cards by the number of matches analysed. The model
keeps both names: `Keys` are windows asked for, and all runs here analyse
equally many matches. `Analyse`, `Save`, `Put` and `Release` may each be
followed by the end of the lease, and the first two may fail. The lock here is
the one store that `CacheLock` shows a lock to be while Redis answers.

**AnalysisProgress.** One run and its client. The entry is in Redis or, once a
call has failed, in the memory of an instance; a poll reaches any instance.
`shown` is the last stage `onProgress` was called with. A request that is
answered from the result cache of a busy run completes straight from the first
stage.

**AnalysisInputs.** A feed is the number of its edition, and `open` whether
its author shows it now; the cached detail may be older than either. The
catalogue of names is `PlayerNameCatalog` with its lock, `_refresh_at` and list.
`load_analysis_inputs` runs both in threads: `feedAt` and `namesAt` move freely
between `BeginRun` and `EndRun`.

**MatchViews.** One variable: the sequence of matches played. Operators are the
functions of the code on it (the selection with a window and without one,
`Cuts`; the trend with its running sums as the code keeps
them), `ViewsMatchReference` compares them with definitions over all matches.
Lists are sets in the order of how many members come before each, and sums are
recursive functions on places; both can be reasoned about.

**CoachingAdvice, DomainScores.** The inputs of the lists are built up one
metric at a time; lists and scores are operators. A list of advice is the set of
the places of its entries, in the order of `Ahead`. Weights are exact fractions
over a common whole (`Weigh`), a volume times the wholes of the other sections,
so that equality means equality. What the code rounds before it sorts is rounded
(`Nearest`): the impact of a metric to hundredths, the score of an area to
tenths. Shares are naturals.

**Experiments.** A match is its place by date, the start of an experiment the
first match after it. An evaluation reads its run in one step and stores in
another, with any rows a load may have returned; an instance can be replaced.

**UserDivisions, OpponentProfile.** One step for each question to the API, to
the stored rows, or to the cache; each question may fail, and the manager plays
on or is renamed between any two. Stored rows have two copies, the table and the
cached list, which are lost one at a time (`LoseOfficial`) and joined by a reader
(`Row`), the table first. A purge of rows is a loss of the table's.

**UserSearch.** One name. A search looks into the cache and the table of its
process up to three times (`round`); `pc` has a place for each read, write and
lock between the looks. `newest[i]` numbers the locks that process `i` makes for
the name: when the registry overflows (`Evict`) a held lock is forgotten and the
next search gets a new one. A lookup is only its age in days, in the cache
(`cacheAge`, `cacheLeft`), the table and the worker's hand. `Answer` is every
way out of the handler: it leaves the `with` block. `calls` and `late` are
history.

## 3. Runs

| Run | Shows |
|---|---|
| `lock` | lock: exclusion, splits only in an outage, refinement of `LeaseLock`, every grant runs out: 3 workers, 2 clients; pool: nothing of a detail batch outlives its request and every request leaves: 2 requests, 2 workers; gate: conservation, spacing and pace, leak, slots come back: 3 threads, 1 slot, 2 attempts |
| `gate_shared` | finding: the shared cooldown can shrink |
| `services` | limiter: window bound, honest Retry-After, dead eviction; rankers: one sync a day, a lock its worker gives back, a valid benchmark stays; analytics: every event once, the newest failures; retention: no answer depends on the purge |
| `matches_kept` | finding: a match is reviewed after its period |
| `rankers_kept` | finding: a benchmark is served after its records left the period |
| `sync` | enough rows, the head, what was fetched, no gap without a short fill or a page too short |
| `sync_gap`, `sync_head` | findings about gaps and a missed head |
| `analysis` | runs: exclusion past leases, busy answers, only saved results, cards of the latest; stages go forward; feeds, names, tiers and ranks are true; views, advice and scores agree with their definitions; experiments compare around their own start |
| `analysis_latest` | finding about an older result over a newer one |
| `search` | one caller, one call per process, both locks given back: 3 workers, 2 instances, 2 locks |
| `search_retention` | finding: a lookup is served after its 30 days |

### Bounds

* `lock`: three workers, two in one process, are the least with both kinds of
  contention, within and between stores. A worker asks once, since three workers
  already give a late release something to hit; a lease of two ticks tells "just
  granted" from "about to end". The proofs are for any number of tokens. The
  pool: batches of two, one request of two batches and one of one, so that work
  of both is in the queue and a failure in the second batch loses the first.
* `lock`, gate: three threads for one slot, so that threads queue for it while others
  sleep outside or record a 429; two attempts, so that a back-off and a last
  attempt both occur; an interval of two ticks and a window of three let
  reservations queue up. `leaked` reaches `Slots`, the bound of
  `CooldownLeakBound`, in this run. `gate_shared` has two slots per process,
  and the theorems hold for any number.
* `services`, limiter: two requests in two seconds of two ticks, lag of one
  tick: each boundary of the window and of the rounding is met. Over the whole
  window the bound does *not* hold, because stamps may be as old as the lag;
  `WindowBound` is the tight form. Rankers: two ranks and a retention of two
  days, the least with rows of different age in one benchmark. Analytics: three
  events of one kind, two threads, hours of two ticks (`UsageBound`); at most
  one event misses a store, and a summary is asked for once all are tracked,
  though some may still be on their way. Retention: two matches, a period of
  three ticks and a cache of two; two versions. `matches_kept`: three matches, of
  which the later two renew the list, a period and a cache of two ticks.
* `sync`: windows of one and two matches, pages of 2 to 4 ids and a cache of
  two stand for 30, 12 to 100 and 120: every page is shorter than what can be
  played, and the cap is reached. One forfeit is enough for the difference
  between all and completed matches. Three matches when two requests run at
  once; five when one runs time and again (`alone`), which a stock, a gap and a
  page need. A page that is too short for its window does not occur here when the
  analysis runs alone, since its page covers its window; the theorem has it.
* `analysis`: three workers, one with other options and one on a second
  instance; two results for each lock are enough for an order to be wrong; a run
  of the other instance meets one run of the first, which may have asked before
  and ask again, and not the reader of the latest result (`RunBound`). Two editions of a feed and one more list of names; the second
  run overlaps in the first edition only (`InputsBound`). Up to four matches,
  windows of two, so that a window fills and moves twice. Up to three
  differences for lists of two. Three matches and two experiments with
  evaluations that overlap. Two tiers and two official matches
  (`DivisionsBound`: both requests at once before the second match only), three
  nicknames for two managers, of whom one is ranked (`ProfileBound`: both threads
  at once before any rename only). Six metrics in two areas, scores on both
  sides of the rankers' and shares 0 and 2 or unknown, so that sections without
  use, equal impacts and full lists occur.
* `search`: two searches meet in one process and a third comes from another,
  the least with both locks in contention; two locks for the name, so that one
  can be forgotten while it is held. Only "kept in time" and "too old" matter
  for the purge: retention 0 and ages 0 and 1. `search_retention` has the real
  30 days and one thread.

`analysis` does not check for deadlock: a run, a list or a sequence of matches
that has reached its bound is done.

### Fairness

Four properties need it. `GrantsRunOut` (run `lock`) assumes `WF(Tick)`: time
passes, nothing else is promised, not even that holders go on.
`EveryRequestLeaves` (run `lock`) assumes weak fairness of each request's and
each pool worker's own steps: threads are scheduled and a fetch has a time
limit; the queue is first come, first served, so nothing is assumed of other
requests. `SlotsComeBack` (run `lock`) assumes `WF(Tick)` and weak fairness of
each thread's own next step: a runnable thread is scheduled at last,
`Session.get` has a timeout so an answer or an error comes, `Lock` sections are
short. Nothing is assumed of who wins a slot, so the property speaks of threads
in their slots, not of those that wait. `LockComesBack` (run `search`) assumes
weak fairness of each search's own next step, for the same reasons, and says as
little of those that wait for the lock of the name; leases need not run out,
since no search waits for one.

## 4. Proofs

Each theorem holds for every value of the constants that the named assumptions
of the module allow; TLC evaluates the assumptions in the runs.

`Primitives_proofs`, lock: `IInv` is `TypeOK`, `Asked` (a worker that is doing
something has drawn a token) and `Backed`. `MutualExclusion` alone is not
inductive: it says nothing of what the store holds. `Backed` does: a running
lease is backed by an entry with the worker's token that lives at least as
long, so a second grant in that store is impossible, and releases compare
tokens. From it follow `TypeCorrect`, `Exclusion`, `SplitOnlyInOutage` and
`Refinement`.

`Primitives_proofs`, pool: `PoolInv` is `PoolShape`, `Collected` (what a request
has is its first details, and nothing past the batch was submitted), `OnceInPool`
(a fetch is with one worker or once in the queue, and a worker's fetch runs in a
session that is open) and `BeforeAndAfter` (a request that has left has no work
to come). `OnceInPool` is why the wait in `finally` is enough: a future that is
over is with nobody. From it follows `NoFetchOutlives`.

`RequestGate_proofs`: `IInv` is the types with `AttemptLeft` (a thread that
backs off has an attempt left), `SlotsConserved`, `Spaced`, `LeakBacked` and
`PaceBacked`. Conservation needs set cardinalities: every handler stays on its
side of the block's border, enters it or leaves it (`SlotMoves`), and each of the
three keeps the sum (`SlotsKept`). The upper bound of the semaphore then follows
from the sum rather than from the code. `CooldownLeakBound` is not inductive,
since threads past the check are still to send: `LeakBacked` counts them in, and
`CheckedBound` bounds them by the slots when a window opens. For the pace,
`PaceBacked` counts beside the requests of every window those that are due, and
lets the window reach up to the next reservation; that some distance to it
exists for which the count is right is what a tick, a reservation and a send
each keep. The cooldown covers the longest wait told (`LeakBacked` again), which is where the
maximum of `openapi_client.py:92` is needed. From it follow `TypeCorrect`,
`SlotsAreConserved`, `PaceIsKept` and `CooldownLeaks`.

`Services_proofs`, analytics: `UsageInv` is `UsageShape` and `SummaryShape` (what
every list of commands and of reads looks like), `RedisCounts` and
`SummaryCounts`. For each counter there is a set of events it stands for: those
whose pipeline has come to it. A summary has in its totals exactly the events of
the hours it has read, and in the reads that are left those that were stored
when it began and are not in the totals. From it follow `UsageTypes` and
`EventsCountedOnce`.

Which failures a summary shows needs more, since Redis keeps them in the order
they were pushed in, not in that of their times. `NewestInv` adds `NewestKept`:
a failure that was pushed is in the list of its hour or was cut from its end,
and the older ones before it, with those still to be pushed there, are no more
than the other threads, for each thread sends one event at a time
(`HoldsPlace`). `NewestRead` carries that to what a summary has found: a failure
is there, is still to be read, or as many as there is room for (`SureToShow`)
are not older. The room is the limit of the summary or what an hour keeps and
hands out less the other threads, whichever is less: by default 20 are shown and
an hour hands out 41, so up to 22 threads change nothing and each further one
may cost one failure. Exactly the newest ones are not shown for every number of
threads. From it follows `SummaryIsRight`.

`Services_proofs`, retention: the types are inductive as they stand, and
`PurgeIsSilent` and `AdviceIsCurrent` need no more: a reader filters by the very
cut-off that the purge deletes by, and what it takes from the cached list no
purge touches. From it follow `RetentionTypes` and `RetentionIsKept`.

`Services_proofs`, limiter: `LimiterInv` is `TypeOK`, `Promised` (the age of the
first entry and the wait promised for it make a window), `HasEntry`, `NoBucket`
and `LetThroughIsListed`. A refusal finds a bucket that is full of recent
entries, hence one the pruning left as it was, so what was promised of its first
entry still holds. What was let through in a stretch shorter than the window is
at the end of its bucket (`Listing`), and pruning takes from the front, although
the stamps are in no order; so a full bucket bounds it. From it follow
`LimiterTypes`, `RetryAfterIsHonest`, `LimitIsKept` and the action property
`EvictionIsVoid`. `ServicesTypes` puts the services together: a step of one
leaves the variables of the others alone.

`RankerSync_proofs`: `IInv` is `RankerTypeOK`, `WorkerInv` (jobs of threads,
`StuckIsIdle`, `LockedByWorker`, `EndedWasTried`, `OneSyncADay`), `StoresValid`
(what is about to be shared is valid) and `KeptIsFound` (a request that asked
while a valid benchmark was shared finds it, or has one in hand). What is
aggregated is valid because its date is the age of its youngest row, and ages of
a set of rows have a least and a greatest. From it follow `TypeCorrect`,
`LockIsOfWorker`, `SyncsOnceADay` and `SnapshotIsServed`.

`MatchSync_proofs`: `IInv` is `TypeOK`, `SavedFirst` (what a worker has fetched
was saved before it is cached), `FetchedServed`, `LoadedIsFound` (what it loaded
is still stored), `HeadOnItsWay`, `HeadServed`, `KnownOnPage`, `EnoughOnItsWay`
and `EnoughRows`. `FetchedServed` alone does not say where a match is between the
save and the last read; `HeadOnItsWay` follows the newest match a request has
seen through the page of ids to the answer, for which `PageAssumption` says that
a page is never empty by its limit. `EnoughRows` needs that what is fetched adds
to the rows that were counted before (`KnownOnPage`: those of the page are among
the known ids), and then that rows, fetched and stored matches together are
enough (`EnoughOnItsWay`). From it follow `TypeCorrect`, `FetchedIsServed`,
`HeadIsServed` and `EnoughIsServed`.

`AloneIsGapless`, in the same module, is about the specification of `MCSync`,
where one worker runs alone. Its invariant `LoneInv` says, until a fill was too
short, that database and cache are parts of one history (`Fits`: each lacks of
the other only what is older than all it has, which is how a new instance and an
expired or capped cache lose matches), that neither the cache nor both together
have a gap, that a run which has rows knows the newest match that is stored
(`Knows`), and that what the answer will hold has a full window above every match it
lacks (`LoneAnswer`). Every loss and every write keeps that; a topped-up stock
would not.

`Analysis_proofs`, the run: `IInv` is `TypeOK` with `MadeBefore` (a result in use
was made, so a later one has another number), `PrintedFor` (a fingerprint stands
beside the result that was made for it), `SavedBefore` (what is about to be
shown was saved) and `InOrder` (as long as no run has outlived its lease, the
result about to be saved is the newest, and cards and snapshot agree). That runs
overlap only past a lease is a consequence of the conjunct on `leased` in
`TypeOK`. From it follow `TypeCorrect`, `RunsOverlapPastLease`, `BusyGetsOwn`,
`ShownIsSaved` and `CardsFollowSnapshot`.

`Analysis_proofs`, the parts beside the run:

* `ProgressInv`: `NothingAhead` (no stage stored or on its way is ahead of the
  run) and `RedisIsCurrent` (before an outage every instance uses Redis and an
  answer on its way is no older than what is shown). From it follows the action
  property `StagesOnward`.
* `InputsInv`: an edition held was public while the analysis asked
  (`HeldWasPublic`), names that were known are kept until they are handed out
  (`KnownStays`).
* `DivisionsInv`: each copy of the rows holds the newest match that is stored,
  unless it has lost all (`CopiesHoldNewest`), tiers found agree with the matches and are no older than those
  stored when they were asked for (`FoundTiersAgree`), rows are of matches that
  were played (`StoredWerePlayed`), and what was not found is asked for again.
* `ProfileInv`: nicknames differ at any time (`NamesDiffer`), a lookup searches
  for the nickname of now or knows that it was changed (`NameIsOfNow`).
* `ExperimentsInv`: an evaluation keeps to the start and the window of the
  experiment it is stored with (`EvaluationsKeepTo`), which does not depend on
  which experiment is the latest when it is stored.

`OutsideIsTrue` joins the second to fourth, `ShownIsOwn` is the last, and
`AnalysisTypes` has the types of every part under the composed specification.
`ListsOfWorst` needs
no more than the types: `Ahead` orders the entries (`AheadOrders`), so some
entries have a first and a last one; a cut then keeps exactly `Limit` entries
where it drops any (`CutIsFull`), and the cut of one mode is among what is ahead
in the cut of both.

`Analysis_proofs`, views: `ViewsAreRight` says of any sequence of matches what
`ViewsMatchReference` does. A list of matches is falling, and a falling list is
known by the set it holds (`NewestFirstIs`, `NewestFirstByRank`), so taking the
first of a list is taking the members with few above them (`Newest`), and what a
mode's load leaves out has so many newer matches of its own mode that it cannot
be in the sample (`SamplesAre`). A range is a stretch of a falling list
(`RangesAre`), a history what is below its sample (`PreviousAre`,
`HistoriesAre`). For the trend the running sums are the sums of the queue at
every step (`QueueMoves`, by `UpTo`), although the first ordered match is
not the first played; `RecursionExists` says that the sums, and the reference
sums over a set (`SumsOfSets`), are the functions their recursive definitions
ask for.

`Analysis_proofs`, scores: `ScoresAreRight` says of any judgements what
`ScoresAreFair` does. Sums over the six metrics are monotone, linear and made of
the sums of the sections (`SumAtMost`, `SumTimes`, `SumBySection`). The volumes
of a section add up to its whole, so each section has the same part of the area
(`WeightsAre`); from that the weights are one whole, and a score that is equal
in a section counts the same whatever the volumes. Raising one score leaves
active metrics and weights alone, so the mean cannot fall. Advice is a list by
rank of impacts, as in `ListsOfWorst`. `Shares` are assumed to be naturals
(the code's `usage` is a share of attempts, never negative), and with two areas
the order over all areas is one comparison.

`AnswersAreRight` puts views, scores and advice together under the composed
specification: it is the invariant `AnswersMatchReference` of the run.

`UserSearch_proofs`: `LockInv` is `TypeOK`, `Rounds` and `InHand` (which places
belong to which look, and where a lookup is in hand), `Ownership` (the lease is
its owner's) and `HeldByOne` (a lock of a process is held by the search that was
given it and has entered it, whatever the registry makes meanwhile). `IInv` adds
`Counted`: until a lookup is lost each answered call has served a process, so
calls are no more than processes that have the lookup or are about to. From them
follow `TypeCorrect`, `SearchReleasesLocks` and `SearchAsksOnce`.

`NaturalLemmas`: sets of naturals have a least element and bounded or finite ones
a greatest, by the well-foundedness of strict inclusion of finite sets; the
newest `n` of a set are at most `n`; members of a finite set in an order are
numbered by how many come before them, and listed by that number; what holds of
0 and of each successor holds up to `n` (`UpTo`, of a set of numbers rather than
of an operator), and a function defined by recursion up to `n` exists. The
proofs of the services, of `RankerSync`, of `MatchSync` and of the parts of an
analysis cite them.

Model-checked only are the four liveness properties and everything that speaks
of `ENABLED`, which are out of the prover's reach, and the runs that find a
disagreement. Every invariant and every action property that a passing run
checks is a theorem under its own name.

## 5. Findings

1. `gate_shared`: a later 429 with a shorter wait overwrites the shared
   cooldown (`openapi_client.py:93`), while the process's own takes the maximum.
2. `sync_gap`: filling a short stock by number leaves a gap in the newest
   matches that no later request closes (`openapi_client.py:242`).
3. `sync_head`: rows are loaded before the probe (`analysis.py:1980`), so a
   match saved in between is judged known and is missing from the answer.
4. `analysis_latest`: the write-back of `/analysis/latest` replaces a newer
   cached result (`main.py:532`).
5. `search_retention`: a looked-up name is read without a cut-off and cached
   again for the full period (`db.py:335`, `main.py:313`), so it outlives the 30
   days that `README.md:148` promises unless a purge comes first.
6. `rankers_kept`: a benchmark is dated by its youngest row
   (`ranker_benchmark.py:124`), so one that also holds an older row of a longer
   list is shared after that row has left its period.
7. `matches_kept`: every write of the cached list keeps the payloads it held and
   gives all of them the full time to live (`analysis.py:1836-1853`), and the
   review reads them without a cut-off (`match_review.py:94-96`), so a match can
   be reviewed after the 30 days of `README.md:148-149`, although
   `docs/APISpec.md:193` says that an expired record answers 404. It takes a
   user whose new matches are fetched again within each time to live of the list
   (30 minutes by default, a day at most) and who has no more than 120 of them
   in the period.

With two requests of different windows at once gaps also arise without a short
fill, which is why `GapNeedsShortFillAlone` speaks of requests in sequence. And
one request after the other also gets a gap from a page that is too short: with
a window of one and forfeits on a whole page, the page neither has a completed
match nor reaches a known one, and what lies below it is never asked for.
`TooShort` names both causes.

Two things the models showed that no document decides, and which therefore
are conditions of properties and not findings: a weakness by quartile may have a score above the
mean of the rankers, so it may be advised on although it costs no points
(`Judge`); a manager renamed between the two questions of a lookup may be shown
with the rank of another (`RankIsOwn`).

## 6. Plan

What is left that would add most:

1. `DomainScores` over any catalogue of metrics and areas; the order over more
   than two areas is then a list by rank.
2. `AnalysisRun` over `CacheLock` instead of one store, so that a lost Redis is
   part of a run.
3. The links from a player's record to the settings of a feed
   (`feed_coaching.py`) as operators, and the sums of `passing_coaching.py`.
4. Guards of the web client's panels against late answers.

## 7. Not modelled, and why

* Sums over payload fields, confidence intervals, quantiles and the texts made
  of them: floating-point formulas without state; TLC has no reals, and the
  repository's tests compare their values. What is chosen by them is modelled.
* Parsing of pages and payloads: input and output, no interleaving. Rows that
  cannot be parsed are left out of `MatchSync`.
* Matches of one user have different dates (the code orders equal ones by id),
  and a `Retry-After` is a number of seconds, neither infinite nor NaN.
* In `OpponentProfile` nicknames are what `normalize_nickname` makes of them, the
  form in which the code compares them. In `UserDivisions` a refresh writes the
  table and the cached list in one step; `MatchSync` has the steps between.
* A sync of rankers whose thread cannot be started leaves the lock taken
  (`stuck`): no document says that a sync must come back, so this is a step of
  `RankerSync` and no property excludes it.
* The purge of old data does not occur in `MatchSync`: it removes what is 30
  days old, far behind any window; `DataRetention` has it.
* In `UserSearch`, `RankerSync` and `AnalysisInputs` Redis answers throughout
  (`CacheLock` has the rest), the rate limit in front is `RateLimiter`'s, and a
  name has one spelling.
* In `AnalysisRun` the lock does not split (that is `CacheLock`'s subject), a
  cache hit of `/analysis/latest` changes nothing, and what a run computes is
  its number.
* `score_sampling.py` samples the matches of rankers by the rules `MatchViews`
  has for users. PostHog is sent events and asked nothing.
* `scripts/watch_analytics.py` and the API's scripts print or call what is
  modelled; `env.py`, `models.py` and `analytics_schema.py` declare.
* Layout, drawing, sharing of images, static pages of the client.
