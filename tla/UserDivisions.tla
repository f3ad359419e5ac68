--------------------------- MODULE UserDivisions ---------------------------
(***************************************************************************)
(* The tiers of one manager: the one of the newest official match known    *)
(* and the highest ever (get_user_divisions of                             *)
(* apps/api/app/services/user_divisions.py).  Several requests ask, while  *)
(* the manager plays, matches are stored and lost, and any question to     *)
(* the API may fail.                                                       *)
(*                                                                         *)
(* Matches are numbered in the order they were played, tiers are numbers   *)
(* that grow with the tier.  A stored match may lack its tier.             *)
(***************************************************************************)
EXTENDS Integers, Sequences, FiniteSetsExt

CONSTANTS
    Askers,      \* requests to GET /users/divisions
    Tiers,       \* tiers of the official mode
    WholeLasts,  \* ticks that an answer with both tiers is cached, 300 s
    PartLasts,   \* ticks that an answer with a part missing is cached, 30 s
    MaxOfficial  \* bound: official matches

ASSUME TiersAssumption == Tiers \subseteq Nat \ {0}
ASSUME LastsAssumption == PartLasts \in Nat \ {0} /\ WholeLasts \in Nat \ {0}
ASSUME OfficialAssumption == MaxOfficial \in Nat

VARIABLES
    official,  \* the tier in which each official match was played
    copies,    \* copies[c][m]: m is not in the copy c, or "bare" or "coded" there
    divisionNames, \* division.json is cached
    tiersKept, \* the cached answer
    tiersLeft, \* ticks until that expires
    tiersAt,   \* tiersAt[q]: where q is in get_user_divisions
    tiers,     \* tiers[q]: its result so far
    storedOf   \* history: the newest stored match when the result was begun

divisionVars == <<official, copies, divisionNames, tiersKept, tiersLeft, tiersAt,
                  tiers, storedOf>>

Numbers == 1..MaxOfficial
NoOfficial == 0
NoTier == 0
OfficialNow == 1..Len(official)

\* A tier without a name is not shown; one match is named by its date.
Unknown == [tier |-> NoTier, match |-> NoOfficial]
NoTiers == [current |-> Unknown, highest |-> NoTier]
NothingKept == [tiers |-> NoTiers, stored |-> NoOfficial]

Largest(numbers) == IF numbers = {} THEN 0 ELSE Max(numbers)

\* _merge_match_stats: the table matches_raw comes before the cached list.
Copies == {"table", "list"}
Row(m) == IF copies["table"][m] # "none" THEN copies["table"][m] ELSE copies["list"][m]
Stored == {m \in Numbers : Row(m) # "none"}

TierTypeOK(t) ==
    /\ t.current.tier \in {NoTier} \cup Tiers
    /\ t.current.match \in {NoOfficial} \cup Numbers
    /\ t.highest \in {NoTier} \cup Tiers

DivisionsTypeOK ==
    /\ official \in Seq(Tiers) /\ Len(official) <= MaxOfficial
    /\ copies \in [Copies -> [Numbers -> {"none", "bare", "coded"}]]
    /\ divisionNames \in BOOLEAN
    /\ TierTypeOK(tiersKept.tiers) /\ tiersKept.stored \in {NoOfficial} \cup Numbers
    /\ tiersLeft \in 0..(WholeLasts + PartLasts)
    /\ tiersAt \in [Askers -> {"idle", "names", "rows", "list", "detail",
                               "highest", "store", "done"}]
    /\ \A q \in Askers : TierTypeOK(tiers[q])
    /\ storedOf \in [Askers -> {NoOfficial} \cup Numbers]

DivisionsInit ==
    /\ official = <<>>
    /\ copies = [c \in Copies |-> [m \in Numbers |-> "none"]]
    /\ divisionNames = FALSE
    /\ tiersKept = NothingKept /\ tiersLeft = 0
    /\ tiersAt = [q \in Askers |-> "idle"]
    /\ tiers = [q \in Askers |-> NoTiers]
    /\ storedOf = [q \in Askers |-> NoOfficial]

-----------------------------------------------------------------------------
(* a request *)

TiersGoto(q, place) == tiersAt' = [tiersAt EXCEPT ![q] = place]
SetCurrent(q, tier, m) ==
    tiers' = [tiers EXCEPT ![q].current = [tier |-> tier, match |-> m]]

AskTiers(q) ==
    /\ tiersAt[q] = "idle"
    /\ IF tiersLeft > 0
       THEN /\ tiers' = [tiers EXCEPT ![q] = tiersKept.tiers]
            /\ storedOf' = [storedOf EXCEPT ![q] = tiersKept.stored]
            /\ TiersGoto(q, "done")
       ELSE /\ storedOf' = [storedOf EXCEPT ![q] = Largest(Stored)]
            /\ TiersGoto(q, "names") /\ UNCHANGED tiers
    /\ UNCHANGED <<official, copies, divisionNames, tiersKept, tiersLeft>>

\* _names: without the names of the tiers the empty answer is given, uncached.
ReadDivisionNames(q) ==
    /\ tiersAt[q] = "names"
    /\ \/ divisionNames' = TRUE /\ TiersGoto(q, "rows")
       \/ ~divisionNames /\ UNCHANGED divisionNames /\ TiersGoto(q, "done")
    /\ UNCHANGED <<official, copies, tiersKept, tiersLeft, tiers, storedOf>>

\* The newest of the stored matches that have their tiers.
ReadCodedRows(q) ==
    /\ tiersAt[q] = "rows"
    /\ LET m == Largest({n \in Stored : Row(n) = "coded"})
       IN  IF m # NoOfficial
           THEN SetCurrent(q, official[m], m) /\ TiersGoto(q, "highest")
           ELSE SetCurrent(q, NoTier, m) /\ TiersGoto(q, "list")
    /\ UNCHANGED <<official, copies, divisionNames, tiersKept, tiersLeft, storedOf>>

\* The newest stored match, if it has its tier.
ReadRows(q) ==
    /\ tiersAt[q] = "rows"
    /\ LET m == Largest(Stored)
       IN  IF m # NoOfficial /\ Row(m) = "coded"
           THEN SetCurrent(q, official[m], m) /\ TiersGoto(q, "highest")
           ELSE SetCurrent(q, NoTier, m) /\ TiersGoto(q, "list")
    /\ UNCHANGED <<official, copies, divisionNames, tiersKept, tiersLeft, storedOf>>

\* An error leaves the current tier as unknown as it was at first.
Forget(q) ==
    tiers' = [tiers EXCEPT ![q].current = Unknown] /\ TiersGoto(q, "highest")

\* fetch_match_ids(ouid, 50, limit=1)
ListOfficial(q) ==
    /\ tiersAt[q] = "list"
    /\ \/ OfficialNow = {} /\ TiersGoto(q, "highest") /\ UNCHANGED tiers
       \/ /\ OfficialNow # {} /\ TiersGoto(q, "detail")
          /\ SetCurrent(q, NoTier, Largest(OfficialNow))
       \/ Forget(q)
    /\ UNCHANGED <<official, copies, divisionNames, tiersKept, tiersLeft, storedOf>>

\* fetch_match_detail of the match listed; its record may lack the tier, too.
ReadDetail(q) ==
    /\ tiersAt[q] = "detail"
    /\ LET m == tiers[q].current.match
       IN  \/ \E tier \in {NoTier, official[m]} :
                SetCurrent(q, tier, m) /\ TiersGoto(q, "highest")
           \/ Forget(q)
    /\ UNCHANGED <<official, copies, divisionNames, tiersKept, tiersLeft, storedOf>>

\* /user/maxdivision, asked after the current tier was found.
ReadHighest(q) ==
    /\ tiersAt[q] = "highest"
    /\ \E best \in {NoTier} \cup {Largest({official[m] : m \in OfficialNow})} :
          tiers' = [tiers EXCEPT ![q].highest = best]
    /\ TiersGoto(q, "store")
    /\ UNCHANGED <<official, copies, divisionNames, tiersKept, tiersLeft, storedOf>>

Whole(t) == t.current.tier # NoTier /\ t.highest # NoTier

StoreTiers(q) ==
    /\ tiersAt[q] = "store"
    /\ tiersKept' = [tiers |-> tiers[q], stored |-> storedOf[q]]
    /\ tiersLeft' = IF Whole(tiers[q]) THEN WholeLasts ELSE PartLasts
    /\ TiersGoto(q, "done")
    /\ UNCHANGED <<official, copies, divisionNames, tiers, storedOf>>

AnswerTiers(q) ==
    /\ tiersAt[q] = "done"
    /\ TiersGoto(q, "idle")
    /\ tiers' = [tiers EXCEPT ![q] = NoTiers]
    /\ storedOf' = [storedOf EXCEPT ![q] = NoOfficial]
    /\ UNCHANGED <<official, copies, divisionNames, tiersKept, tiersLeft>>

-----------------------------------------------------------------------------
(* the rest of the system *)

PlayOfficial(tier) ==
    /\ Len(official) < MaxOfficial
    /\ official' = Append(official, tier)
    /\ UNCHANGED <<copies, divisionNames, tiersKept, tiersLeft, tiersAt, tiers, storedOf>>

\* A refresh stores the newest match, and older ones that are not read here.
StoreOfficial(form) ==
    /\ OfficialNow # {} /\ Row(Len(official)) = "none"
    /\ copies' = [c \in Copies |-> [copies[c] EXCEPT ![Len(official)] = form]]
    /\ UNCHANGED <<official, divisionNames, tiersKept, tiersLeft, tiersAt, tiers, storedOf>>

\* The instance is replaced by one with an empty database, or the list expires.
LoseOfficial(c) ==
    /\ \E m \in Numbers : copies[c][m] # "none"
    /\ copies' = [copies EXCEPT ![c] = [m \in Numbers |-> "none"]]
    /\ UNCHANGED <<official, divisionNames, tiersKept, tiersLeft, tiersAt, tiers, storedOf>>

TiersAge ==
    /\ tiersLeft > 0
    /\ tiersLeft' = tiersLeft - 1
    /\ tiersKept' = IF tiersLeft = 1 THEN NothingKept ELSE tiersKept
    /\ UNCHANGED <<official, copies, divisionNames, tiersAt, tiers, storedOf>>

NamesExpire ==
    /\ divisionNames /\ divisionNames' = FALSE
    /\ UNCHANGED <<official, copies, tiersKept, tiersLeft, tiersAt, tiers, storedOf>>

DivisionsNext ==
    \/ \E q \in Askers :
          \/ AskTiers(q) \/ ReadDivisionNames(q) \/ ReadRows(q) \/ ListOfficial(q)
          \/ ReadDetail(q) \/ ReadHighest(q) \/ StoreTiers(q) \/ AnswerTiers(q)
    \/ \E tier \in Tiers : PlayOfficial(tier)
    \/ \E form \in {"bare", "coded"} : StoreOfficial(form)
    \/ \E c \in Copies : LoseOfficial(c)
    \/ TiersAge \/ NamesExpire

DivisionsSpec == DivisionsInit /\ [][DivisionsNext]_divisionVars

-----------------------------------------------------------------------------
(* properties *)

\* The tier that is shown is the one of the match whose date stands beside it,
\* that match is no older than any that was stored when the answer was begun,
\* and it is never above the highest tier shown with it.
ShownTiersAgree ==
    \A q \in Askers :
        LET t == tiers[q]
        IN  tiersAt[q] = "done" /\ t.current.tier # NoTier =>
                /\ t.current.tier = official[t.current.match]
                /\ t.current.match >= storedOf[q]
                /\ t.highest # NoTier => t.current.tier <= t.highest

\* An answer with a part missing is not repeated for as long as a whole one.
PartsAreAskedAgain ==
    tiersLeft > PartLasts => Whole(tiersKept.tiers)

TiersAreTrue == ShownTiersAgree /\ PartsAreAskedAgain
=============================================================================
