--------------------------- MODULE AnalysisInputs ---------------------------
(***************************************************************************)
(* What an analysis reads beside its matches (load_analysis_inputs of      *)
(* apps/api/app/services/analysis_inputs.py): the public squad feed that   *)
(* its user has linked (services/squad_feed.py) and the catalogue of       *)
(* player names (services/player_names.py), each in a thread of its own.   *)
(*                                                                         *)
(* One feed, whose author may edit, hide and show it at any time, and one  *)
(* process.  Other requests show the feed from the cache or list the feeds *)
(* of its author.  A feed is the number of its edition, a catalogue the    *)
(* number of the list it was made from.  Redis answers throughout.         *)
(***************************************************************************)
EXTENDS Integers

CONSTANTS
    Runs,        \* requests to analyse with the feed linked
    Viewers,     \* requests that show the feed or list it
    MaxEditions, \* bound: editions of the feed
    MaxLists     \* bound: lists of players published

ASSUME UsersAssumption == Runs \cap Viewers = {}
ASSUME EditionsAssumption == MaxEditions \in Nat \ {0} /\ MaxLists \in Nat

Users == Runs \cup Viewers
NoFeed == 0
NoNames == 0
Nobody == [holds |-> "nothing"]
Loads(r) == [holds |-> r]

VARIABLES
    edition,   \* the edition of the feed
    open,      \* the feed is public
    detail,    \* the cached edition, or NoFeed
    list,      \* the cached list of the author's feeds: "none", "with", "without"
    feedAt,    \* feedAt[u]: where u is in get_public_feed or search_public_feeds
    held,      \* held[u]: the edition that u has read
    names,     \* PlayerNameCatalog._names
    fresh,     \* _refresh_at has not come
    nameLock,  \* who loads the names under the lock
    namesAt,   \* namesAt[r]: where r is in PlayerNameCatalog.get
    got,       \* got[r]: the names that r was given
    publicSince, \* history: editions that were public since u began
    knownBefore  \* history: there were names when r began

feedVars == <<edition, open, detail, list, feedAt, held, publicSince>>
nameVars == <<names, fresh, nameLock, namesAt, got, knownBefore>>
inputVars == <<feedVars, nameVars>>

Editions == 1..MaxEditions

InputsTypeOK ==
    /\ edition \in Editions /\ open \in BOOLEAN
    /\ detail \in {NoFeed} \cup Editions
    /\ list \in {"none", "with", "without"}
    /\ feedAt \in [Users -> {"idle", "ask", "store", "drop", "search", "done"}]
    /\ held \in [Users -> {NoFeed} \cup Editions]
    /\ names \in NoNames..MaxLists /\ fresh \in BOOLEAN
    /\ nameLock \in {Nobody} \cup {Loads(r) : r \in Runs}
    /\ namesAt \in [Runs -> {"idle", "want", "load", "done"}]
    /\ got \in [Runs -> NoNames..MaxLists]
    /\ publicSince \in [Users -> SUBSET Editions]
    /\ knownBefore \in [Runs -> BOOLEAN]

InputsInit ==
    /\ edition = 1 /\ open \in BOOLEAN
    /\ detail = NoFeed /\ list = "none"
    /\ feedAt = [u \in Users |-> "idle"]
    /\ held = [u \in Users |-> NoFeed]
    /\ names = NoNames /\ fresh = FALSE
    /\ nameLock = Nobody
    /\ namesAt = [r \in Runs |-> "idle"]
    /\ got = [r \in Runs |-> NoNames]
    /\ publicSince = [u \in Users |-> {}]
    /\ knownBefore = [r \in Runs |-> FALSE]

-----------------------------------------------------------------------------
(* the feed *)

PublicNow == IF open THEN {edition} ELSE {}
FeedGoto(u, place) == feedAt' = [feedAt EXCEPT ![u] = place]
Hold(u, e) == held' = [held EXCEPT ![u] = e]

\* A linked feed that is read like any other: from the cache if it is there.
ReadLinkedCached(r) ==
    IF detail # NoFeed THEN Hold(r, detail) /\ FeedGoto(r, "done")
                       ELSE Hold(r, NoFeed) /\ FeedGoto(r, "ask")

\* get_public_feed(refresh=True): an analysis always asks.
ReadLinked(r) == Hold(r, NoFeed) /\ FeedGoto(r, "ask")

\* load_analysis_inputs submits the loaders of names and feed.
BeginRun(r) ==
    /\ feedAt[r] = "idle" /\ namesAt[r] = "idle"
    /\ ReadLinked(r)
    /\ namesAt' = [namesAt EXCEPT ![r] = "want"]
    /\ publicSince' = [publicSince EXCEPT ![r] = PublicNow]
    /\ knownBefore' = [knownBefore EXCEPT ![r] = names # NoNames]
    /\ UNCHANGED <<edition, open, detail, list, names, fresh, nameLock, got>>

\* GET /squad-feeds/{feed_id}: the cached edition, or the page of the feed.
View(v) ==
    /\ feedAt[v] = "idle"
    /\ IF detail # NoFeed THEN Hold(v, detail) /\ FeedGoto(v, "done")
                          ELSE Hold(v, NoFeed) /\ FeedGoto(v, "ask")
    /\ publicSince' = [publicSince EXCEPT ![v] = PublicNow]
    /\ UNCHANGED <<edition, open, detail, list, nameVars>>

\* _request: the feed's page, or an error, which a hidden feed always is.
FeedAnswers(u) ==
    /\ feedAt[u] = "ask"
    /\ \/ open /\ Hold(u, edition) /\ FeedGoto(u, "store")
       \/ Hold(u, NoFeed) /\ FeedGoto(u, "drop")
    /\ UNCHANGED <<edition, open, detail, list, publicSince, nameVars>>

StoreDetail(u) ==
    /\ feedAt[u] = "store"
    /\ detail' = held[u]
    /\ FeedGoto(u, "done")
    /\ UNCHANGED <<edition, open, list, held, publicSince, nameVars>>

\* After an error the entry is overwritten with null, and the error raised: an
\* analysis goes on without the feed.
DropDetail(u) ==
    /\ feedAt[u] = "drop"
    /\ detail' = NoFeed
    /\ FeedGoto(u, "done")
    /\ UNCHANGED <<edition, open, list, held, publicSince, nameVars>>

\* GET /squad-feeds: nothing to read while the list is cached.
Search(v) ==
    /\ feedAt[v] = "idle" /\ list = "none"
    /\ FeedGoto(v, "search")
    /\ UNCHANGED <<edition, open, detail, list, held, publicSince, nameVars>>

ListAnswers(v) ==
    /\ feedAt[v] = "search"
    /\ list' \in {list, IF open THEN "with" ELSE "without"}
    /\ FeedGoto(v, "idle")
    /\ UNCHANGED <<edition, open, detail, held, publicSince, nameVars>>

EndView(v) ==
    /\ feedAt[v] = "done"
    /\ FeedGoto(v, "idle") /\ Hold(v, NoFeed)
    /\ publicSince' = [publicSince EXCEPT ![v] = {}]
    /\ UNCHANGED <<edition, open, detail, list, nameVars>>

\* The author edits the feed, hides it or shows it again.
ChangeFeed ==
    /\ \/ edition < MaxEditions /\ edition' = edition + 1 /\ UNCHANGED open
       \/ open' = ~open /\ UNCHANGED edition
    /\ publicSince' = [u \in Users |->
          IF feedAt[u] \in {"ask", "store", "drop", "done"} /\ open'
          THEN publicSince[u] \cup {edition'} ELSE publicSince[u]]
    /\ UNCHANGED <<detail, list, feedAt, held, nameVars>>

\* 300 seconds after a detail, 60 seconds after a list was stored.
ExpireFeed ==
    /\ \/ detail # NoFeed /\ detail' = NoFeed /\ UNCHANGED list
       \/ list # "none" /\ list' = "none" /\ UNCHANGED detail
    /\ UNCHANGED <<edition, open, feedAt, held, publicSince, nameVars>>

-----------------------------------------------------------------------------
(* the catalogue of names *)

NamesGoto(r, place) == namesAt' = [namesAt EXCEPT ![r] = place]
Give(r, n) == got' = [got EXCEPT ![r] = n]

\* get takes the lock; before _refresh_at it is done at once.
GetNames(r) ==
    /\ namesAt[r] = "want" /\ nameLock = Nobody
    /\ IF fresh THEN /\ Give(r, names) /\ NamesGoto(r, "done")
                     /\ UNCHANGED nameLock
                ELSE /\ nameLock' = Loads(r) /\ NamesGoto(r, "load")
                     /\ UNCHANGED got
    /\ UNCHANGED <<feedVars, names, fresh, knownBefore>>

\* A catalogue that takes over whatever was loaded.
LoadedAny(n) == n

\* A load that failed or found no name leaves the names that were there.
Loaded(n) == IF n = NoNames THEN names ELSE n

LoadNames(r) ==
    /\ namesAt[r] = "load"
    /\ \E n \in {NoNames} \cup {m \in 1..MaxLists : m >= names} :
          names' = Loaded(n)
    /\ fresh' = TRUE
    /\ nameLock' = Nobody
    /\ Give(r, names') /\ NamesGoto(r, "done")
    /\ UNCHANGED <<feedVars, knownBefore>>

\* The next load is due, an hour after a good one or a minute after a bad one.
NamesAreDue ==
    /\ fresh /\ nameLock = Nobody
    /\ fresh' = FALSE
    /\ UNCHANGED <<feedVars, names, nameLock, namesAt, got, knownBefore>>

\* Names and feed are there; the analysis goes on with them and ends.
EndRun(r) ==
    /\ feedAt[r] = "done" /\ namesAt[r] = "done"
    /\ FeedGoto(r, "idle") /\ Hold(r, NoFeed)
    /\ NamesGoto(r, "idle") /\ Give(r, NoNames)
    /\ publicSince' = [publicSince EXCEPT ![r] = {}]
    /\ knownBefore' = [knownBefore EXCEPT ![r] = FALSE]
    /\ UNCHANGED <<edition, open, detail, list, names, fresh, nameLock>>

InputsNext ==
    \/ \E r \in Runs : BeginRun(r) \/ GetNames(r) \/ LoadNames(r) \/ EndRun(r)
    \/ \E v \in Viewers : View(v) \/ Search(v) \/ ListAnswers(v) \/ EndView(v)
    \/ \E u \in Users : FeedAnswers(u) \/ StoreDetail(u) \/ DropDetail(u)
    \/ ChangeFeed \/ ExpireFeed \/ NamesAreDue

InputsSpec == InputsInit /\ [][InputsNext]_inputVars

-----------------------------------------------------------------------------
(* properties *)

\* A feed linked to an analysis was public, in this edition, at some time since
\* the request began, whatever others have read and cached before or between.
LinkedWasPublic ==
    \A r \in Runs :
        feedAt[r] = "done" /\ held[r] # NoFeed => held[r] \in publicSince[r]

\* An analysis that began when names were known is given names, whoever failed
\* to load them again in between.
NamesAreKept ==
    \A r \in Runs :
        namesAt[r] = "done" /\ knownBefore[r] => got[r] # NoNames

\* What an analysis is told beside its matches is true of the time it ran.
InputsAreTrue == LinkedWasPublic /\ NamesAreKept
=============================================================================
