----------------------------- MODULE MatchSync -----------------------------
(***************************************************************************)
(* How a request gets the matches it analyses: _load_rows_for_analysis and *)
(* _refresh_match_rows of apps/api/app/services/analysis.py with the       *)
(* collectors of services/openapi_client.py.                               *)
(*                                                                         *)
(* One owner and one match type.  Matches are numbered by date.  Every     *)
(* server instance has a database of its own; the match cache and the      *)
(* cached head probe are shared.  Nothing serialises the requests of one   *)
(* owner: the list of recent matches and the before/after comparison take  *)
(* no lock, and another instance may run at any time.                      *)
(***************************************************************************)
EXTENDS Integers, FiniteSets

CONSTANTS
    Workers,      \* request threads
    Instances,    \* server processes, each with its database
    InstanceOf,   \* InstanceOf[w]: the process worker w runs in
    WindowOf,     \* WindowOf[w]: window_size that w asks for
    ForfeitsOf,   \* ForfeitsOf[w]: include_forfeits of w
    MaxMatches,   \* bound: matches the owner ever plays
    Forfeits,     \* the matches that end by forfeit
    PageMin,      \* 12: fewest ids asked for, and known ids of a probe
    PageMax,      \* 100: most ids the API returns
    CacheCap      \* 120: most matches in the match cache

ASSUME InstanceOfAssumption == InstanceOf \in [Workers -> Instances]
ASSUME WindowOfAssumption == WindowOf \in [Workers -> Nat \ {0}]
ASSUME ForfeitsOfAssumption == ForfeitsOf \in [Workers -> BOOLEAN]
ASSUME MaxMatchesAssumption == MaxMatches \in Nat
ASSUME ForfeitsAssumption == Forfeits \subseteq 1..MaxMatches
ASSUME PageAssumption == PageMin \in Nat /\ PageMax \in Nat \ {0}
ASSUME CacheCapAssumption == CacheCap \in Nat

Match == 1..MaxMatches
NoHead == 0

VARIABLES
    played,    \* the matches 1..played exist upstream
    db,        \* db[i]: matches stored in the database of instance i
    cache,     \* matches in the shared match cache, {} when it has expired
    probe,     \* the cached head, or NoHead
    pc,        \* pc[w]: the next step of w
    rows,      \* rows[w]: the matches w has loaded, and at the end returns
    ids,       \* ids[w]: known_match_ids of w
    fetched,   \* fetched[w]: matches whose details w fetches
    copy,      \* copy[w]: the cache content that w extends
    seen,      \* seen[w]: the newest match when w asked upstream, then history
    listed,    \* history: the ids that w was given then
    kept,      \* history: stores that lost nothing while w ran
    shortFill  \* history: some run had too little to go by

vars == <<played, db, cache, probe, pc, rows, ids, fetched, copy,
          seen, listed, kept, shortFill>>
data == <<played, db, cache, probe>>
history == <<seen, listed, kept, shortFill>>

Steps == {"idle", "cache", "probe", "head", "remember", "known", "page", "save",
          "copy", "write", "read", "fresh", "current", "unchecked", "stored", "warned"}
Answered == {"idle", "fresh", "current", "unchecked", "stored", "warned"}
Stores == {"db", "cache"}

TypeOK ==
    /\ played \in 0..MaxMatches
    /\ db \in [Instances -> SUBSET (1..played)]
    /\ cache \subseteq 1..played /\ Cardinality(cache) <= CacheCap
    /\ probe \in 0..played
    /\ pc \in [Workers -> Steps]
    /\ rows \in [Workers -> SUBSET (1..played)]
    /\ ids \in [Workers -> SUBSET (1..played)]
    /\ fetched \in [Workers -> SUBSET (1..played)]
    /\ copy \in [Workers -> SUBSET (1..played)]
    /\ seen \in [Workers -> 0..played]
    /\ listed \in [Workers -> SUBSET (1..played)]
    /\ kept \in [Workers -> SUBSET Stores]
    /\ shortFill \in BOOLEAN

Init ==
    /\ played = 0
    /\ db = [i \in Instances |-> {}]
    /\ cache = {}
    /\ probe = NoHead
    /\ pc = [w \in Workers |-> "idle"]
    /\ rows = [w \in Workers |-> {}]
    /\ ids = [w \in Workers |-> {}]
    /\ fetched = [w \in Workers |-> {}]
    /\ copy = [w \in Workers |-> {}]
    /\ seen = [w \in Workers |-> 0]
    /\ listed = [w \in Workers |-> {}]
    /\ kept = [w \in Workers |-> Stores]
    /\ shortFill = FALSE

-----------------------------------------------------------------------------
(* helpers *)

AtLeast(a, b) == IF a < b THEN b ELSE a
AtMost(a, b) == IF a < b THEN a ELSE b

\* The n newest matches of S.
Newest(S, n) == {m \in S : Cardinality({k \in S : k > m}) < n}

\* The matches that count towards the window of w.
Counting(w, S) == IF ForfeitsOf[w] THEN S ELSE S \ Forfeits
Count(w, S) == Cardinality(Counting(w, S))
HasEnough(w, S) == Count(w, S) >= WindowOf[w]

\* _available_match_stats
Available(w) == db[InstanceOf[w]] \cup cache

SyncFetchLimit(window) == AtMost(PageMax, AtLeast(PageMin, window * 3))

CandidateLimit(w) ==
    LET window == WindowOf[w]
        base == IF ForfeitsOf[w] THEN AtMost(PageMax, window)
                                 ELSE SyncFetchLimit(window)
    IN  IF HasEnough(w, rows[w]) \/ ForfeitsOf[w]
        THEN base
        ELSE AtMost(PageMax, AtLeast(base, Cardinality(rows[w]) + window * 3))

\* A scan that takes the ids oldest first.
IncrementalOldest(page, known) ==
    {m \in page : \A k \in page : k <= m => k \notin known}

\* collect_incremental_match_rows: the unknown ids before the first known one.
Incremental(page, known) ==
    {m \in page : \A k \in page : k >= m => k \notin known}

\* A collector that cuts the page before it drops the known ids.
FillTotalCutFirst(w, page, known) ==
    Newest(page, AtLeast(0, WindowOf[w] - Cardinality(rows[w]))) \ known

\* A collector that counts the known ids instead of the rows at hand.
FillTotalByKnown(w, page, known) ==
    Newest(page \ known, AtLeast(0, WindowOf[w] - Cardinality(known)))

\* collect_match_rows with a total target: as many unknown ids as are missing.
FillTotal(w, page, known) ==
    Newest(page \ known, AtLeast(0, WindowOf[w] - Cardinality(rows[w])))

\* collect_match_rows with a completed target: unknown ids, newest first, until
\* the completed ones reach it.  The test comes after the fetch.
FillCompleted(w, page, known) ==
    LET unknown == page \ known
        newer(m) == {k \in unknown : k > m}
    IN  {m \in unknown :
            \/ newer(m) = {}
            \/ Count(w, rows[w]) + Count(w, newer(m)) < WindowOf[w]}

\* The details that _refresh_match_rows fetches for a page of ids.
Wanted(w, page, known) ==
    IF known # {} /\ HasEnough(w, rows[w]) THEN Incremental(page, known)
    ELSE IF ForfeitsOf[w] THEN FillTotal(w, page, known)
    ELSE FillCompleted(w, page, known)

\* Too little to go by: a stock that is smaller than the window but not empty, or
\* a page that ends before it covers the window or reaches a known match.
TooShort(w, page, known) ==
    \/ rows[w] # {} /\ ~HasEnough(w, rows[w])
    \/ page \cap known = {} /\ ~HasEnough(w, page) /\ page # 1..played

\* What is lost from a store is remembered against every worker.
Losing(lost) == kept' = [w \in Workers |-> kept[w] \ lost]

-----------------------------------------------------------------------------
(* the owner and the stores *)

Play ==
    /\ played < MaxMatches
    /\ played' = played + 1
    /\ UNCHANGED <<db, cache, probe, pc, rows, ids, fetched, copy, history>>

ExpireCache ==
    /\ cache # {}
    /\ cache' = {}
    /\ Losing({"cache"})
    /\ UNCHANGED <<played, db, probe, pc, rows, ids, fetched, copy, seen, listed, shortFill>>

ExpireProbe ==
    /\ probe # NoHead
    /\ probe' = NoHead
    /\ UNCHANGED <<played, db, cache, pc, rows, ids, fetched, copy, history>>

\* An instance that starts anew has an empty database under /tmp; the requests
\* it was running are gone with it.
Replace(i) ==
    /\ db[i] # {}
    /\ db' = [db EXCEPT ![i] = {}]
    /\ pc' = [w \in Workers |-> IF InstanceOf[w] = i THEN "idle" ELSE pc[w]]
    /\ UNCHANGED <<played, cache, probe, rows, ids, fetched, copy, history>>

-----------------------------------------------------------------------------
(* _load_rows_for_analysis *)

LoadDb(w) ==
    /\ pc[w] \in Answered
    /\ rows' = [rows EXCEPT ![w] = db[InstanceOf[w]]]
    /\ pc' = [pc EXCEPT ![w] = "cache"]
    /\ ids' = [ids EXCEPT ![w] = {}]
    /\ fetched' = [fetched EXCEPT ![w] = {}]
    /\ copy' = [copy EXCEPT ![w] = {}]
    /\ seen' = [seen EXCEPT ![w] = 0]
    /\ listed' = [listed EXCEPT ![w] = {}]
    /\ kept' = [kept EXCEPT ![w] = Stores]
    /\ UNCHANGED <<data, shortFill>>

\* Read the cache and decide.  live: live_sync_enabled; manual:
\* manual_refresh_probe; old: the newest row is past MATCH_REFRESH_THRESHOLD.
LoadCache(w) ==
    /\ pc[w] = "cache"
    /\ rows' = [rows EXCEPT ![w] = @ \cup cache]
    /\ \E live, manual, old \in BOOLEAN :
         LET cacheOnly == rows[w] = {} /\ cache # {}
             refresh == \/ rows'[w] = {}
                        \/ cacheOnly
                        \/ old
                        \/ ~HasEnough(w, rows'[w])
         IN  pc' = [pc EXCEPT ![w] = IF ~live THEN "stored"
                                     ELSE IF refresh THEN "known"
                                     ELSE IF manual THEN "probe"
                                     ELSE "stored"]
    /\ UNCHANGED <<data, ids, fetched, copy, history>>

\* _detect_new_match_head, as far as it needs no request.
ProbeCached(w) ==
    /\ pc[w] = "probe"
    /\ LET known == Newest(db[InstanceOf[w]], AtLeast(WindowOf[w], PageMin))
       IN  /\ ids' = [ids EXCEPT ![w] = known]
           /\ pc' = [pc EXCEPT ![w] =
                       IF known = {} THEN "known"
                       ELSE IF probe = NoHead THEN "head"
                       ELSE IF probe \in known THEN "current"
                       ELSE "known"]
           /\ seen' = [seen EXCEPT ![w] = probe]
    /\ UNCHANGED <<data, rows, fetched, copy, listed, kept, shortFill>>

\* Ask upstream for the newest id ...
AskHead(w) ==
    /\ pc[w] = "head"
    /\ seen' = [seen EXCEPT ![w] = played]
    /\ pc' = [pc EXCEPT ![w] = "remember"]
    /\ UNCHANGED <<data, rows, ids, fetched, copy, listed, kept, shortFill>>

\* ... and remember it for MATCH_HEAD_PROBE_TTL_SEC, whatever others have asked since.
RememberHead(w) ==
    /\ pc[w] = "remember"
    /\ probe' = seen[w]
    /\ pc' = [pc EXCEPT ![w] = IF seen[w] # NoHead /\ seen[w] \notin ids[w]
                               THEN "known" ELSE "current"]
    /\ UNCHANGED <<played, db, cache, rows, ids, fetched, copy, history>>

ProbeHead(w) == AskHead(w) \/ RememberHead(w)

\* Whatever the probe raises, the stored rows are served.
ProbeFails(w) ==
    /\ pc[w] = "head"
    /\ pc' = [pc EXCEPT ![w] = "unchecked"]
    /\ UNCHANGED <<data, rows, ids, fetched, copy, history>>

-----------------------------------------------------------------------------
(* _refresh_match_rows *)

ReadKnown(w) ==
    /\ pc[w] = "known"
    /\ LET stored == IF rows[w] = {} THEN {}
                     ELSE Newest(db[InstanceOf[w]], CandidateLimit(w))
       IN  ids' = [ids EXCEPT ![w] = stored \cup cache]
    /\ pc' = [pc EXCEPT ![w] = "page"]
    /\ UNCHANGED <<data, rows, fetched, copy, history>>

\* One page of ids, newest first; then the details, all of them or an error.
Collect(w) ==
    /\ pc[w] = "page"
    /\ LET candidates == Newest(1..played, CandidateLimit(w))
           want == Wanted(w, candidates, ids[w])
       IN  /\ fetched' = [fetched EXCEPT ![w] = want]
           /\ pc' = [pc EXCEPT ![w] = IF want = {} THEN "read" ELSE "save"]
           /\ listed' = [listed EXCEPT ![w] = candidates]
           /\ shortFill' = (shortFill \/ TooShort(w, candidates, ids[w]))
    /\ seen' = [seen EXCEPT ![w] = played]
    /\ ids' = [ids EXCEPT ![w] = {}]
    /\ UNCHANGED <<data, rows, copy, kept>>

\* A refresh that leaves the rows to the cache alone.
SaveDbSkipped(w) ==
    /\ pc[w] = "save"
    /\ pc' = [pc EXCEPT ![w] = "copy"]
    /\ UNCHANGED <<data, rows, ids, fetched, copy, history>>

\* upsert_matches, one transaction.
SaveDb(w) ==
    /\ pc[w] = "save"
    /\ db' = [db EXCEPT ![InstanceOf[w]] = @ \cup fetched[w]]
    /\ pc' = [pc EXCEPT ![w] = "copy"]
    /\ UNCHANGED <<played, cache, probe, rows, ids, fetched, copy, history>>

\* _save_match_rows_to_cache reads the cache ...
CopyCache(w) ==
    /\ pc[w] = "copy"
    /\ copy' = [copy EXCEPT ![w] = cache]
    /\ pc' = [pc EXCEPT ![w] = "write"]
    /\ UNCHANGED <<data, rows, ids, fetched, history>>

\* A write that keeps every match.
WriteCacheUncapped(w) ==
    /\ pc[w] = "write"
    /\ cache' = fetched[w] \cup copy[w]
    /\ pc' = [pc EXCEPT ![w] = "read"]
    /\ copy' = [copy EXCEPT ![w] = {}]
    /\ UNCHANGED <<played, db, probe, rows, ids, fetched, history>>

\* ... and replaces it by its own rows and what it has read.
WriteCache(w) ==
    /\ pc[w] = "write"
    /\ cache' = Newest(fetched[w] \cup copy[w], CacheCap)
    /\ pc' = [pc EXCEPT ![w] = "read"]
    /\ copy' = [copy EXCEPT ![w] = {}]
    /\ Losing(IF cache \subseteq cache' THEN {} ELSE {"cache"})
    /\ UNCHANGED <<played, db, probe, rows, ids, fetched, seen, listed, shortFill>>

Return(w) ==
    /\ pc[w] = "read"
    /\ rows' = [rows EXCEPT ![w] = Available(w) \cup @]
    /\ pc' = [pc EXCEPT ![w] = "fresh"]
    /\ UNCHANGED <<data, ids, fetched, copy, history>>

\* An error of the API or of the database: warn, and return what is stored.
RefreshFails(w) ==
    /\ pc[w] \in {"page", "save"}
    /\ rows' = [rows EXCEPT ![w] = Available(w)]
    /\ pc' = [pc EXCEPT ![w] = "warned"]
    /\ UNCHANGED <<data, ids, fetched, copy, history>>

Next ==
    \/ Play
    \/ ExpireCache
    \/ ExpireProbe
    \/ \E i \in Instances : Replace(i)
    \/ \E w \in Workers :
         \/ LoadDb(w) \/ LoadCache(w)
         \/ ProbeCached(w) \/ ProbeHead(w) \/ ProbeFails(w)
         \/ ReadKnown(w) \/ Collect(w)
         \/ SaveDb(w) \/ CopyCache(w) \/ WriteCache(w)
         \/ Return(w) \/ RefreshFails(w)

Spec == Init /\ [][Next]_vars

-----------------------------------------------------------------------------
(* properties *)

Fresh(w) == pc[w] = "fresh"
Undisturbed(w) == kept[w] = Stores

\* The rows of S that a window of w covers.
InWindow(w, S) == {m \in S : Count(w, {k \in S : k > m}) < WindowOf[w]}

\* A refresh returns as many matches as the window asks for, or as upstream
\* has on the page it gave, however many other requests save at the same time.  It
\* takes that no cached match is lost meanwhile (the cache expires, or another
\* request overwrites it with an older copy): the refresh counts the matches it
\* loaded, and fetches them again in place of missing ones when they are gone.
EnoughRows ==
    \A w \in Workers : Fresh(w) /\ Undisturbed(w)
        => Count(w, rows[w]) >= AtMost(WindowOf[w], Count(w, listed[w]))

\* The match that was the newest one upstream is in the answer of a refresh.
HeadServed ==
    \A w \in Workers : Fresh(w) /\ Undisturbed(w) /\ seen[w] # 0
        => seen[w] \in rows[w]

\* What a refresh has fetched is in its answer, even when another request has
\* overwritten the cache in between.
FetchedServed ==
    \A w \in Workers : Fresh(w) => fetched[w] \subseteq rows[w]

\* Requests that run one after the other return the newest matches without a
\* gap until some run tops up a stock smaller than its window, or gets a page
\* that ends before the window is covered and above every match it knows: the
\* two ways a single user opens a gap, whatever the stores lose.
GapNeedsShortFill ==
    \A w \in Workers : Fresh(w) /\ Undisturbed(w) /\ ~shortFill
        => InWindow(w, rows[w] \cap 1..seen[w]) = InWindow(w, 1..seen[w])

\* A refresh returns the newest matches without a gap.
NewestWindow ==
    \A w \in Workers : Fresh(w) /\ Undisturbed(w)
        => InWindow(w, rows[w] \cap 1..seen[w]) = InWindow(w, 1..seen[w])

\* A request that skips the refresh because the newest match is already known
\* returns that match.
CurrentHasHead ==
    \A w \in Workers : pc[w] = "current" /\ seen[w] # 0 => seen[w] \in rows[w]
=============================================================================
