-------------------------- MODULE OpponentProfile --------------------------
(***************************************************************************)
(* What a match review says of its two managers beside the match: the rank *)
(* on the public page, which is found by nickname, and whether there is a  *)
(* highest division (get_competitive_profile of                            *)
(* apps/api/app/services/opponent_profile.py, asked for both by            *)
(* get_match_review, services/match_review.py, in two threads).            *)
(*                                                                         *)
(* Managers may take a new nickname, also one that was another's, and any  *)
(* question may fail.  A rank is named by the manager who has it.          *)
(***************************************************************************)
EXTENDS Integers

CONSTANTS
    Managers,     \* managers, by ouid
    Ranked,       \* those within the public range of the page
    Nicknames,    \* nicknames, as normalize_nickname leaves them to be compared
    FirstName,    \* FirstName[m]: the nickname of m in the match reviewed
    Lookups,      \* threads of reviews
    About,        \* About[l]: the manager whose profile l asks for
    ProfileLasts, \* ticks that a profile with its division is cached, 600 s
    MissLasts     \* ticks that one without it is cached, 60 s

ASSUME RankedAssumption == Ranked \subseteq Managers
ASSUME FirstNameAssumption ==
    /\ FirstName \in [Managers -> Nicknames]
    /\ \A m, n \in Managers : FirstName[m] = FirstName[n] => m = n
ASSUME AboutAssumption == About \in [Lookups -> Managers]
ASSUME ProfileLastsAssumption ==
    ProfileLasts \in Nat \ {0} /\ MissLasts \in Nat \ {0}

VARIABLES
    nickname,    \* nickname[m]: the nickname that m has now
    metadata,    \* the names of divisions are cached
    profileKept, \* profileKept[m]: the cached profile of m
    profileLeft, \* profileLeft[m]: ticks until that expires
    lookupAt,    \* lookupAt[l]: where l is in get_competitive_profile
    profile      \* profile[l]: its result so far

profileVars == <<nickname, metadata, profileKept, profileLeft, lookupAt, profile>>

\* `renamed' is history: somebody took a new nickname while the profile was made.
Unavailable == [status |-> "unavailable"]
Outside == [status |-> "outside_public_range"]
RankOf(m) == [status |-> "available", of |-> m]
Ranks == {Unavailable, Outside} \cup {RankOf(m) : m \in Managers}
Unnamed == [none |-> "nickname"]
Called(n) == [is |-> n]
NoProfile ==
    [name |-> Unnamed, rank |-> Unavailable, division |-> FALSE, renamed |-> FALSE]
Profiles ==
    [name : {Unnamed} \cup {Called(n) : n \in Nicknames}, rank : Ranks,
     division : BOOLEAN, renamed : BOOLEAN]

ProfileTypeOK ==
    /\ nickname \in [Managers -> Nicknames]
    /\ metadata \in BOOLEAN
    /\ profileKept \in [Managers -> Profiles]
    /\ profileLeft \in [Managers -> 0..(ProfileLasts + MissLasts)]
    /\ lookupAt \in [Lookups -> {"idle", "basic", "page", "division", "names",
                                 "store", "done"}]
    /\ profile \in [Lookups -> Profiles]

ProfileInit ==
    /\ nickname = FirstName
    /\ metadata = FALSE
    /\ profileKept = [m \in Managers |-> NoProfile]
    /\ profileLeft = [m \in Managers |-> 0]
    /\ lookupAt = [l \in Lookups |-> "idle"]
    /\ profile = [l \in Lookups |-> NoProfile]

-----------------------------------------------------------------------------
(* get_competitive_profile *)

LookupGoto(l, place) == lookupAt' = [lookupAt EXCEPT ![l] = place]

Lookup(l) ==
    /\ lookupAt[l] = "idle"
    /\ IF profileLeft[About[l]] > 0
       THEN /\ profile' = [profile EXCEPT ![l] = profileKept[About[l]]]
            /\ LookupGoto(l, "done")
       ELSE LookupGoto(l, "basic") /\ UNCHANGED profile
    /\ UNCHANGED <<nickname, metadata, profileKept, profileLeft>>

\* A search for the nickname that stands in the match.
ReadFirstName(l) ==
    /\ lookupAt[l] = "basic"
    /\ profile' = [profile EXCEPT ![l].name = Called(FirstName[About[l]])]
    /\ LookupGoto(l, "page")
    /\ UNCHANGED <<nickname, metadata, profileKept, profileLeft>>

\* /user/basic: the nickname of now; without it there is nothing to search for.
ReadNickname(l) ==
    /\ lookupAt[l] = "basic"
    /\ \/ /\ profile' = [profile EXCEPT ![l].name = Called(nickname[About[l]])]
          /\ LookupGoto(l, "page")
       \/ LookupGoto(l, "division") /\ UNCHANGED profile
    /\ UNCHANGED <<nickname, metadata, profileKept, profileLeft>>

\* parse_current_rank of the page for the nickname: the row with this name, or
\* the sentence that nobody in the range has it, or neither.
RankShown(name) ==
    IF \E m \in Ranked : Called(nickname[m]) = name
    THEN {RankOf(m) : m \in {n \in Ranked : Called(nickname[n]) = name}}
    ELSE {Outside}

\* current_nickname is kept only beside a page that was read.
ReadRank(l) ==
    /\ lookupAt[l] = "page"
    /\ \/ \E rank \in RankShown(profile[l].name) \cup {Unavailable} :
            profile' = [profile EXCEPT ![l].rank = rank]
       \/ profile' = [profile EXCEPT ![l].name = Unnamed]
    /\ LookupGoto(l, "division")
    /\ UNCHANGED <<nickname, metadata, profileKept, profileLeft>>

\* /user/maxdivision: a division of the 1:1 mode, or none, or an error.
ReadMaxDivision(l) ==
    /\ lookupAt[l] = "division"
    /\ LookupGoto(l, "names") \/ LookupGoto(l, "store")
    /\ UNCHANGED <<nickname, metadata, profileKept, profileLeft, profile>>

\* The name of the division, from the cache or asked for; after an error the
\* division is left out.
NameDivision(l) ==
    /\ lookupAt[l] = "names"
    /\ \/ metadata' = TRUE /\ profile' = [profile EXCEPT ![l].division = TRUE]
       \/ ~metadata /\ UNCHANGED <<metadata, profile>>
    /\ LookupGoto(l, "store")
    /\ UNCHANGED <<nickname, profileKept, profileLeft>>

\* A profile that is cached in full as soon as there is a rank.
StoreRankedProfile(l) ==
    /\ lookupAt[l] = "store"
    /\ profileKept' = [profileKept EXCEPT ![About[l]] = profile[l]]
    /\ profileLeft' = [profileLeft EXCEPT ![About[l]] =
          IF profile[l].rank # Unavailable THEN ProfileLasts ELSE MissLasts]
    /\ LookupGoto(l, "done")
    /\ UNCHANGED <<nickname, metadata, profile>>

StoreProfile(l) ==
    /\ lookupAt[l] = "store"
    /\ profileKept' = [profileKept EXCEPT ![About[l]] = profile[l]]
    /\ profileLeft' = [profileLeft EXCEPT ![About[l]] =
          IF profile[l].division THEN ProfileLasts ELSE MissLasts]
    /\ LookupGoto(l, "done")
    /\ UNCHANGED <<nickname, metadata, profile>>

\* get_match_review puts the profile beside its manager.
EndLookup(l) ==
    /\ lookupAt[l] = "done"
    /\ LookupGoto(l, "idle")
    /\ profile' = [profile EXCEPT ![l] = NoProfile]
    /\ UNCHANGED <<nickname, metadata, profileKept, profileLeft>>

-----------------------------------------------------------------------------
(* the rest of the world *)

\* A manager takes a nickname that nobody has.
Rename(m, name) ==
    /\ \A n \in Managers : nickname[n] # name
    /\ nickname' = [nickname EXCEPT ![m] = name]
    /\ profile' = [l \in Lookups |->
          IF lookupAt[l] \in {"idle", "done"} THEN profile[l]
          ELSE [profile[l] EXCEPT !.renamed = TRUE]]
    /\ UNCHANGED <<metadata, profileKept, profileLeft, lookupAt>>

ProfilesAge ==
    /\ \E m \in Managers : profileLeft[m] > 0
    /\ profileLeft' = [m \in Managers |->
          IF profileLeft[m] = 0 THEN 0 ELSE profileLeft[m] - 1]
    /\ profileKept' = [m \in Managers |->
          IF profileLeft[m] <= 1 THEN NoProfile ELSE profileKept[m]]
    /\ UNCHANGED <<nickname, metadata, lookupAt, profile>>

MetadataExpires ==
    /\ metadata /\ metadata' = FALSE
    /\ UNCHANGED <<nickname, profileKept, profileLeft, lookupAt, profile>>

ProfileNext ==
    \/ \E l \in Lookups :
          \/ Lookup(l) \/ ReadNickname(l) \/ ReadRank(l) \/ ReadMaxDivision(l) \/ NameDivision(l)
          \/ StoreProfile(l) \/ EndLookup(l)
    \/ \E m \in Managers, name \in Nicknames : Rename(m, name)
    \/ ProfilesAge \/ MetadataExpires

ProfileSpec == ProfileInit /\ [][ProfileNext]_profileVars

-----------------------------------------------------------------------------
(* properties *)

\* A manager is shown with his own rank, or as outside the range when he is,
\* unless somebody took a new nickname just while the profile was made: names
\* taken before that, also since the match, do no harm.
RankIsOwn ==
    \A l \in Lookups :
        LET p == profile[l]
        IN  lookupAt[l] = "done" /\ ~p.renamed =>
                /\ p.rank = Outside => About[l] \notin Ranked
                /\ \A m \in Managers : p.rank = RankOf(m) => m = About[l]

\* A profile without a division is asked for again after the short time.
MissesAreAskedAgain ==
    \A m \in Managers : profileLeft[m] > MissLasts => profileKept[m].division

ProfilesAreTrue == RankIsOwn /\ MissesAreAskedAgain
=============================================================================
