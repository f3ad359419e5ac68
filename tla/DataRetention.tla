--------------------------- MODULE DataRetention ---------------------------
(***************************************************************************)
(* How long the matches of one user and mode are read after they came from *)
(* the API, and the newest analysis made of them: the table of matches and *)
(* the snapshots of an instance (apps/api/app/db.py), the cache of matches *)
(* that instances share (services/analysis.py), and the endpoints that     *)
(* read them.                                                              *)
(*                                                                         *)
(* Time is counted in ticks.  Rows and snapshots stay where they are until *)
(* a purge, which comes with a start of the process or an analysis; every  *)
(* reader has to leave out what is too old by then.  The cap of the cache  *)
(* is in MatchSync, the order of the steps of an analysis in AnalysisRun.  *)
(***************************************************************************)
EXTENDS Integers

CONSTANTS
    MatchIds,    \* matches of the user in the API
    Period,      \* ticks that raw data may be kept, 1 to 30 days in the code
    CacheLasts,  \* ticks until a cached list expires, at most a day
    MaxVersion   \* bound: versions of the coaching deployed

ASSUME PeriodAssumption == Period \in Nat /\ CacheLasts \in 1..Period
ASSUME VersionAssumption == MaxVersion \in Nat \ {0}

VARIABLES
    stored,    \* stored[m]: age of the row of m in matches_raw
    cached,    \* cached[m]: age of the payload of m in the cached list
    cacheLeft, \* ticks until the cached list expires
    newest,    \* the newest row of user_metrics_snapshot
    version    \* VERSION of team_history_coaching

retentionVars == <<stored, cached, cacheLeft, newest, version>>

TooOld == Period + 1    \* an age beyond the period
NoMatch == Period + 2   \* there is no row
NoNewest == [age |-> NoMatch, text |-> FALSE, version |-> 0]

RetentionTypeOK ==
    /\ stored \in [MatchIds -> 0..NoMatch]
    /\ cached \in [MatchIds -> 0..NoMatch]
    /\ cacheLeft \in 0..CacheLasts
    /\ newest \in [age : 0..NoMatch, text : BOOLEAN, version : 0..MaxVersion]
    /\ version \in 1..MaxVersion

RetentionInit ==
    /\ stored = [m \in MatchIds |-> NoMatch]
    /\ cached = [m \in MatchIds |-> NoMatch]
    /\ cacheLeft = 0
    /\ newest = NoNewest
    /\ version = 1

-----------------------------------------------------------------------------
(* readers, for a table of matches and a newest snapshot *)

\* created_at >= nexon_api_data_cutoff_iso()
InPeriod(age) == age <= Period

ListMatchStats(table) == {m \in MatchIds : InPeriod(table[m])}
ListFromCache == {m \in MatchIds : cached[m] # NoMatch}
Available(table) == ListMatchStats(table) \cup ListFromCache

\* A review of whatever row there is.
ReviewedAnyRow(table, m) ==
    IF table[m] # NoMatch THEN [from |-> "table", age |-> table[m]]
    ELSE IF m \in ListFromCache THEN [from |-> "cache", age |-> cached[m]]
    ELSE [from |-> "nowhere", age |-> NoMatch]

\* GET /matches/{match_id}/review: the payload that is compared, with its age.
Reviewed(table, m) ==
    IF InPeriod(table[m]) THEN [from |-> "table", age |-> table[m]]
    ELSE IF m \in ListFromCache THEN [from |-> "cache", age |-> cached[m]]
    ELSE [from |-> "nowhere", age |-> NoMatch]

\* GET /analysis/latest: the saved analysis, or figures beside what is stored.
AnalysisShown(table, s) ==
    IF s.age = NoMatch THEN [kind |-> "none", matches |-> {}]
    ELSE IF s.text /\ InPeriod(s.age)
    THEN [kind |-> IF s.version = version THEN "saved" ELSE "without coaching",
          matches |-> {}]
    ELSE [kind |-> "figures",
          matches |-> IF ListMatchStats(table) # {} THEN ListMatchStats(table)
                                                    ELSE ListFromCache]

\* Cards that are shown whether their analysis still is or not.
ActionsOfAnyAge(table, s) == s.age # NoMatch /\ s.version = version

\* GET /actions/latest shows the cards of an analysis that it finds up to date.
ActionsShown(table, s) == AnalysisShown(table, s).kind = "saved"

-----------------------------------------------------------------------------
(* writers *)

\* purge_stale_nexon_api_data
Purged(table) == [m \in MatchIds |-> IF InPeriod(table[m]) THEN table[m] ELSE NoMatch]
PurgedSnapshot(s) == [s EXCEPT !.text = s.text /\ InPeriod(s.age)]

\* _latest_known_match_ids and _cached_match_ids
Known == ListMatchStats(stored) \cup ListFromCache

\* A refresh has fetched matches it does not know: upsert_matches, then
\* _save_match_rows_to_cache, which writes the payloads of the list again beside
\* them, whatever their age, and gives the list its full time to live.
SaveMatches(new) ==
    /\ new # {} /\ new \cap Known = {}
    /\ stored' = [m \in MatchIds |-> IF m \in new THEN 0 ELSE stored[m]]
    /\ cached' = [m \in MatchIds |-> IF m \in new THEN 0 ELSE cached[m]]
    /\ cacheLeft' = CacheLasts
    /\ UNCHANGED <<newest, version>>

\* run_analysis purges first and saves its result, if there is any match.
SaveAnalysis ==
    /\ stored' = Purged(stored)
    /\ newest' = IF Available(stored') # {}
                 THEN [age |-> 0, text |-> TRUE, version |-> version]
                 ELSE PurgedSnapshot(newest)
    /\ UNCHANGED <<cached, cacheLeft, version>>

\* The process starts, perhaps with a new version; init_db purges.
StartServer(next) ==
    /\ version' = next
    /\ stored' = Purged(stored)
    /\ newest' = PurgedSnapshot(newest)
    /\ UNCHANGED <<cached, cacheLeft>>

-----------------------------------------------------------------------------
(* the environment *)

\* The instance is replaced by one with an empty database.
EmptyDatabase ==
    /\ stored' = [m \in MatchIds |-> NoMatch]
    /\ newest' = NoNewest
    /\ UNCHANGED <<cached, cacheLeft, version>>

TickOlder(age) == IF age < TooOld THEN age + 1 ELSE age

\* Time passes, and the cached list may expire.
TimePasses ==
    /\ stored' = [m \in MatchIds |-> TickOlder(stored[m])]
    /\ newest' = [newest EXCEPT !.age = TickOlder(@)]
    /\ IF cacheLeft <= 1
       THEN /\ cacheLeft' = 0
            /\ cached' = [m \in MatchIds |-> NoMatch]
       ELSE /\ cacheLeft' = cacheLeft - 1
            /\ cached' = [m \in MatchIds |-> TickOlder(cached[m])]
    /\ UNCHANGED version

RetentionNext ==
    \/ \E new \in SUBSET MatchIds : SaveMatches(new)
    \/ \E next \in version..MaxVersion : StartServer(next)
    \/ SaveAnalysis \/ EmptyDatabase \/ TimePasses

RetentionSpec == RetentionInit /\ [][RetentionNext]_retentionVars

-----------------------------------------------------------------------------
(* properties *)

\* Whether a purge has come or not makes no difference to any answer: no reader
\* shows what the next purge will remove, and no purge removes what may be shown.
PurgeIsSilent ==
    LET table == Purged(stored)
        s == PurgedSnapshot(newest)
    IN  /\ ListMatchStats(table) = ListMatchStats(stored)
        /\ \A m \in MatchIds : Reviewed(table, m) = Reviewed(stored, m)
        /\ AnalysisShown(table, s) = AnalysisShown(stored, newest)
        /\ ActionsShown(table, s) = ActionsShown(stored, newest)

\* Advice is shown only while the analysis it belongs to is in its period and
\* was made by the version that is running.
AdviceIsCurrent ==
    ActionsShown(stored, newest) =>
        newest.age <= Period /\ newest.text /\ newest.version = version

RetentionKept == PurgeIsSilent /\ AdviceIsCurrent

\* No match is reviewed beyond its period, as README.md:148-149 and APISpec.md:193
\* say.  Not so: a list that is written again before it expires keeps its old
\* payloads, and the review of a match reads them without a cut-off.
ReviewedInTime == \A m \in MatchIds : Reviewed(stored, m).age # TooOld
=============================================================================
