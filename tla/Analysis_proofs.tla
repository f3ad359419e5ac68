--------------------------- MODULE Analysis_proofs ---------------------------
(***************************************************************************)
(* Theorems about the parts of an analysis, for any requests, instances,   *)
(* fingerprints, feeds, managers, tiers and experiments: what is shown     *)
(* beside the matches is true of the time it was asked for, the stages     *)
(* shown go forward, an experiment is compared with its own start, what is *)
(* computed from matches, scores and findings agrees with its definition,  *)
(* and runs overlap only past a lease, with results that were saved.       *)
(***************************************************************************)
EXTENDS MCAnalysis, NaturalLemmas, SequenceTheorems, TLAPS

-----------------------------------------------------------------------------
(* OpponentProfile: what a match review says of its two managers *)

\* What a profile p says of the rank of m.
RankIsOf(m, p) ==
    ~p.renamed =>
        /\ p.rank = Outside => m \notin Ranked
        /\ \A n \in Managers : p.rank = RankOf(n) => n = m

\* No two managers have the same nickname; a profile under way looks for the
\* nickname of now; and every profile, cached or under way, has no other rank
\* than its manager's.
NamesDiffer == \A m, n \in Managers : nickname[m] = nickname[n] => m = n
NameIsOfNow ==
    \A l \in Lookups : lookupAt[l] = "page" /\ ~profile[l].renamed =>
        profile[l].name = Called(nickname[About[l]])
RanksAreOwn ==
    /\ \A l \in Lookups : RankIsOf(About[l], profile[l])
    /\ \A m \in Managers : RankIsOf(m, profileKept[m])

ProfileInv ==
    ProfileTypeOK /\ NamesDiffer /\ NameIsOfNow /\ RanksAreOwn /\ MissesAreAskedAgain

\* The statuses of a rank are told apart, and so are the managers who have one.
LEMMA RanksDiffer ==
    /\ Unavailable # Outside
    /\ \A m \in Managers : RankOf(m) # Unavailable /\ RankOf(m) # Outside
    /\ \A m, n \in Managers : RankOf(m) = RankOf(n) => m = n
<1>1. Unavailable # Outside
  <2> SUFFICES Unavailable.status # Outside.status  OBVIOUS
  <2> QED  BY DEF Unavailable, Outside
<1>2. ASSUME NEW m \in Managers PROVE RankOf(m) # Unavailable /\ RankOf(m) # Outside
  <2> SUFFICES RankOf(m).status # Unavailable.status /\ RankOf(m).status # Outside.status
    OBVIOUS
  <2> QED  BY DEF RankOf, Unavailable, Outside
<1>3. ASSUME NEW m \in Managers, NEW n \in Managers, RankOf(m) = RankOf(n) PROVE m = n
  <2>1. RankOf(m).of = m /\ RankOf(n).of = n  BY DEF RankOf
  <2> QED  BY <2>1, <1>3
<1> QED  BY <1>1, <1>2, <1>3

LEMMA NamesAreToldApart == \A x, y : Called(x) = Called(y) => x = y
<1> SUFFICES ASSUME NEW x, NEW y, Called(x) = Called(y) PROVE x = y  OBVIOUS
<1>1. Called(x).is = x /\ Called(y).is = y  BY DEF Called
<1> QED  BY <1>1

\* A search for the nickname that m has finds his own rank, or nobody when he
\* is outside the range.
LEMMA SearchFindsOwn ==
    ASSUME NamesDiffer, NEW m \in Managers,
           NEW rank \in RankShown(Called(nickname[m])) \cup {Unavailable}
    PROVE  /\ rank \in Ranks
           /\ rank = Outside => m \notin Ranked
           /\ \A n \in Managers : rank = RankOf(n) => n = m
<1> DEFINE name == Called(nickname[m])
<1> USE RankedAssumption
<1>1. CASE rank = Unavailable
  BY <1>1, RanksDiffer DEF Ranks
<1>2. CASE rank \in RankShown(name) /\ \E n \in Ranked : Called(nickname[n]) = name
  <2>1. PICK k \in Ranked : Called(nickname[k]) = name /\ rank = RankOf(k)
    BY <1>2 DEF RankShown
  <2>2. k = m
    BY <2>1, NamesAreToldApart DEF NamesDiffer
  <2> QED  BY <2>1, <2>2, RanksDiffer DEF Ranks
<1>3. CASE rank \in RankShown(name) /\ ~\E n \in Ranked : Called(nickname[n]) = name
  <2>1. rank = Outside  BY <1>3 DEF RankShown
  <2>2. m \notin Ranked  BY <1>3
  <2> QED  BY <2>1, <2>2, RanksDiffer DEF Ranks
<1> QED  BY <1>1, <1>2, <1>3

LEMMA RankWhateverTheName ==
    ASSUME NEW name, NEW rank \in RankShown(name) \cup {Unavailable}
    PROVE  rank \in Ranks
BY RankedAssumption DEF RankShown, Ranks

LEMMA NothingSaid ==
    NoProfile \in Profiles /\ \A m : RankIsOf(m, NoProfile)
<1>1. NoProfile.rank = Unavailable  BY DEF NoProfile
<1>2. NoProfile \in Profiles
  BY DEF NoProfile, Profiles, Ranks
<1> QED  BY <1>1, <1>2, RanksDiffer DEF RankIsOf

LEMMA ProfileStarts == ProfileInit => ProfileInv
<1> SUFFICES ASSUME ProfileInit PROVE ProfileInv  OBVIOUS
<1> USE FirstNameAssumption, ProfileLastsAssumption, NothingSaid DEF ProfileInit
<1>1. ProfileTypeOK
  <2>1. 0 \in 0..(ProfileLasts + MissLasts)  OBVIOUS
  <2>2. profileKept \in [Managers -> Profiles] /\ profile \in [Lookups -> Profiles]
    OBVIOUS
  <2> QED  BY <2>1, <2>2 DEF ProfileTypeOK
<1>2. NamesDiffer /\ NameIsOfNow  BY DEF NamesDiffer, NameIsOfNow
<1>3. RanksAreOwn  BY AboutAssumption DEF RanksAreOwn
<1>4. MissesAreAskedAgain  BY DEF MissesAreAskedAgain
<1> QED  BY <1>1, <1>2, <1>3, <1>4 DEF ProfileInv

\* The steps of a lookup that change its own profile and place only.
LEMMA LookupKeeps ==
    ASSUME ProfileInv, NEW l \in Lookups, NEW p \in Profiles, NEW place,
           place \in {"idle", "basic", "page", "division", "names", "store", "done"},
           RankIsOf(About[l], p),
           place = "page" /\ ~p.renamed => p.name = Called(nickname[About[l]]),
           profile' = [profile EXCEPT ![l] = p], LookupGoto(l, place),
           metadata' \in BOOLEAN, UNCHANGED <<nickname, profileKept, profileLeft>>
    PROVE  ProfileInv'
<1> USE DEF ProfileInv, LookupGoto
<1>0. \A k \in Lookups : /\ profile'[k] = IF k = l THEN p ELSE profile[k]
                         /\ lookupAt'[k] = IF k = l THEN place ELSE lookupAt[k]
  BY DEF ProfileTypeOK
<1>1. ProfileTypeOK'  BY DEF ProfileTypeOK
<1>2. NamesDiffer'  BY DEF NamesDiffer
<1>3. NameIsOfNow'  BY <1>0 DEF NameIsOfNow
<1>4. RanksAreOwn'  BY <1>0 DEF RanksAreOwn, RankIsOf
<1>5. MissesAreAskedAgain'  BY DEF MissesAreAskedAgain
<1> QED  BY <1>1, <1>2, <1>3, <1>4, <1>5

LEMMA ProfileKeeps == ProfileInv /\ [ProfileNext]_profileVars => ProfileInv'
<1> SUFFICES ASSUME ProfileInv, [ProfileNext]_profileVars PROVE ProfileInv'
  OBVIOUS
<1> USE RankedAssumption, AboutAssumption, ProfileLastsAssumption
<1>1. ASSUME UNCHANGED profileVars PROVE ProfileInv'
  BY <1>1 DEF profileVars, ProfileInv, ProfileTypeOK, NamesDiffer, NameIsOfNow,
              RanksAreOwn, RankIsOf, MissesAreAskedAgain
<1>2. ASSUME NEW l \in Lookups,
             Lookup(l) \/ ReadNickname(l) \/ ReadRank(l) \/ ReadMaxDivision(l)
                \/ NameDivision(l) \/ EndLookup(l)
      PROVE  ProfileInv'
  <2> DEFINE p == profile[l]
             a == About[l]
  <2>0. /\ p \in Profiles /\ a \in Managers /\ RankIsOf(a, p)
        /\ profileKept[a] \in Profiles /\ RankIsOf(a, profileKept[a])
        /\ profile = [profile EXCEPT ![l] = p]
        /\ metadata \in BOOLEAN
        /\ nickname[a] \in Nicknames
    BY DEF ProfileInv, ProfileTypeOK, RanksAreOwn
  <2>1. CASE Lookup(l) /\ profileLeft[a] > 0
    BY <2>0, <2>1, LookupKeeps DEF Lookup
  <2>2. CASE Lookup(l) /\ ~(profileLeft[a] > 0)
    BY <2>0, <2>2, LookupKeeps DEF Lookup
  <2>3. CASE ReadNickname(l)
    <3> DEFINE q == [p EXCEPT !.name = Called(nickname[a])]
    <3>1. q \in Profiles /\ q.name = Called(nickname[a]) /\ RankIsOf(a, q)
      BY <2>0 DEF Profiles, RankIsOf
    <3>2. CASE profile' = [profile EXCEPT ![l] = q] /\ LookupGoto(l, "page")
      BY <2>0, <2>3, <3>1, <3>2, LookupKeeps DEF ReadNickname
    <3>3. CASE LookupGoto(l, "division") /\ UNCHANGED profile
      BY <2>0, <2>3, <3>3, LookupKeeps DEF ReadNickname
    <3>4. profile' = [profile EXCEPT ![l].name = Called(nickname[About[l]])]
            => profile' = [profile EXCEPT ![l] = q]
      OBVIOUS
    <3> QED  BY <2>3, <3>2, <3>3, <3>4 DEF ReadNickname
  <2>4. CASE ReadRank(l)
    <3>1. ASSUME NEW rank \in RankShown(p.name) \cup {Unavailable},
                 profile' = [profile EXCEPT ![l].rank = rank]
          PROVE  ProfileInv'
      <4> DEFINE q == [p EXCEPT !.rank = rank]
      <4>1. q \in Profiles
        BY <2>0, <3>1, RankWhateverTheName DEF Profiles
      <4>2. q.rank = rank /\ q.renamed = p.renamed
        BY <2>0 DEF Profiles
      <4>3. ~p.renamed => p.name = Called(nickname[a])
        BY <2>4 DEF ReadRank, ProfileInv, NameIsOfNow
      <4>4. RankIsOf(a, q)
        BY <2>0, <4>2, <4>3, <3>1, SearchFindsOwn DEF RankIsOf, ProfileInv
      <4>5. profile' = [profile EXCEPT ![l] = q]  BY <3>1
      <4> HIDE DEF q
      <4> QED  BY <2>0, <2>4, <4>1, <4>4, <4>5, LookupKeeps DEF ReadRank
    <3>2. ASSUME profile' = [profile EXCEPT ![l].name = Unnamed] PROVE ProfileInv'
      <4> DEFINE q == [p EXCEPT !.name = Unnamed]
      <4>1. q \in Profiles /\ RankIsOf(a, q)
        BY <2>0 DEF Profiles, RankIsOf
      <4>2. profile' = [profile EXCEPT ![l] = q]  BY <3>2
      <4> HIDE DEF q
      <4> QED  BY <2>0, <2>4, <4>1, <4>2, LookupKeeps DEF ReadRank
    <3> QED  BY <2>4, <3>1, <3>2 DEF ReadRank
  <2>5. CASE ReadMaxDivision(l)
    <3>1. CASE LookupGoto(l, "names")
      BY <2>0, <2>5, <3>1, LookupKeeps DEF ReadMaxDivision
    <3>2. CASE LookupGoto(l, "store")
      BY <2>0, <2>5, <3>2, LookupKeeps DEF ReadMaxDivision
    <3> QED  BY <2>5, <3>1, <3>2 DEF ReadMaxDivision
  <2>6. CASE NameDivision(l)
    <3>1. ASSUME metadata' = TRUE, profile' = [profile EXCEPT ![l].division = TRUE]
          PROVE  ProfileInv'
      <4> DEFINE q == [p EXCEPT !.division = TRUE]
      <4>1. q \in Profiles /\ RankIsOf(a, q)
        BY <2>0 DEF Profiles, RankIsOf
      <4>2. profile' = [profile EXCEPT ![l] = q]  BY <3>1
      <4> HIDE DEF q
      <4> QED  BY <2>0, <2>6, <3>1, <4>1, <4>2, LookupKeeps DEF NameDivision
    <3>2. CASE UNCHANGED <<metadata, profile>>
      BY <2>0, <2>6, <3>2, LookupKeeps DEF NameDivision
    <3> QED  BY <2>6, <3>1, <3>2 DEF NameDivision
  <2>7. CASE EndLookup(l)
    BY <2>0, <2>7, NothingSaid, LookupKeeps DEF EndLookup
  <2> QED  BY <1>2, <2>1, <2>2, <2>3, <2>4, <2>5, <2>6, <2>7
<1>3. ASSUME NEW l \in Lookups, StoreProfile(l) PROVE ProfileInv'
  <2> DEFINE p == profile[l]
             a == About[l]
             lasts == IF p.division THEN ProfileLasts ELSE MissLasts
  <2> USE <1>3 DEF StoreProfile, LookupGoto, ProfileInv
  <2>0. p \in Profiles /\ a \in Managers /\ p.division \in BOOLEAN
    BY DEF ProfileTypeOK, Profiles
  <2>1. \A m \in Managers :
            /\ profileKept'[m] = IF m = a THEN p ELSE profileKept[m]
            /\ profileLeft'[m] = IF m = a THEN lasts ELSE profileLeft[m]
    BY DEF ProfileTypeOK
  <2>2. \A k \in Lookups : lookupAt'[k] = IF k = l THEN "done" ELSE lookupAt[k]
    BY DEF ProfileTypeOK
  <2>3. ProfileTypeOK'
    <3>1. lasts \in 0..(ProfileLasts + MissLasts)  OBVIOUS
    <3> QED  BY <2>0, <3>1 DEF ProfileTypeOK
  <2>4. NamesDiffer'  BY DEF NamesDiffer
  <2>5. NameIsOfNow'  BY <2>2 DEF NameIsOfNow
  <2>6. RanksAreOwn'
    BY <2>1 DEF RanksAreOwn, RankIsOf
  <2>7. MissesAreAskedAgain'
    BY <2>0, <2>1 DEF MissesAreAskedAgain
  <2> QED  BY <2>3, <2>4, <2>5, <2>6, <2>7
<1>4. ASSUME NEW m \in Managers, NEW name \in Nicknames, Rename(m, name) PROVE ProfileInv'
  <2> USE <1>4 DEF Rename, ProfileInv
  <2>0. \A l \in Lookups :
            /\ profile[l] \in Profiles
            /\ profile'[l].rank = profile[l].rank
            /\ ~profile'[l].renamed => ~profile[l].renamed /\ lookupAt[l] # "page"
            /\ profile'[l] \in Profiles
    BY DEF ProfileTypeOK, Profiles
  <2>1. ProfileTypeOK'
    BY <2>0 DEF ProfileTypeOK
  <2>2. NamesDiffer'
    BY DEF NamesDiffer, ProfileTypeOK
  <2>3. NameIsOfNow'  BY <2>0 DEF NameIsOfNow
  <2>4. RanksAreOwn'
    BY <2>0 DEF RanksAreOwn, RankIsOf
  <2>5. MissesAreAskedAgain'  BY DEF MissesAreAskedAgain
  <2> QED  BY <2>1, <2>2, <2>3, <2>4, <2>5
<1>5. ASSUME ProfilesAge PROVE ProfileInv'
  <2> USE <1>5 DEF ProfilesAge, ProfileInv
  <2>0. \A m \in Managers :
            /\ profileLeft[m] \in 0..(ProfileLasts + MissLasts)
            /\ profileLeft'[m] = IF profileLeft[m] = 0 THEN 0 ELSE profileLeft[m] - 1
            /\ profileKept'[m] = IF profileLeft[m] <= 1 THEN NoProfile ELSE profileKept[m]
    BY DEF ProfileTypeOK
  <2>1. ProfileTypeOK'
    <3>1. \A m \in Managers : profileLeft'[m] \in 0..(ProfileLasts + MissLasts)  BY <2>0
    <3>2. \A m \in Managers : profileKept'[m] \in Profiles
      BY <2>0, NothingSaid DEF ProfileTypeOK
    <3> QED  BY <3>1, <3>2 DEF ProfileTypeOK
  <2>2. NamesDiffer' /\ NameIsOfNow'  BY DEF NamesDiffer, NameIsOfNow
  <2>3. RanksAreOwn'
    <3>1. \A m \in Managers : RankIsOf(m, profileKept'[m])
      BY <2>0, NothingSaid DEF RanksAreOwn
    <3> QED  BY <3>1 DEF RanksAreOwn, RankIsOf
  <2>4. MissesAreAskedAgain'
    BY <2>0 DEF MissesAreAskedAgain
  <2> QED  BY <2>1, <2>2, <2>3, <2>4
<1>6. ASSUME MetadataExpires PROVE ProfileInv'
  BY <1>6 DEF MetadataExpires, ProfileInv, ProfileTypeOK, NamesDiffer, NameIsOfNow,
              RanksAreOwn, RankIsOf, MissesAreAskedAgain
<1> QED  BY <1>1, <1>2, <1>3, <1>4, <1>5, <1>6 DEF ProfileNext

LEMMA ProfileHolds == ProfileInv => ProfilesAreTrue
BY DEF ProfileInv, ProfilesAreTrue, RankIsOwn, RanksAreOwn, RankIsOf

-----------------------------------------------------------------------------
(* AnalysisInputs: the linked feed and the names of players *)

\* Whoever asks for the feed has seen every edition that is public while he
\* does, and an analysis holds nothing else: it never took one from the cache.
SinceIsComplete ==
    \A u \in Users : feedAt[u] \in {"ask", "store", "drop", "done"} =>
        PublicNow \subseteq publicSince[u]
HeldWasPublic ==
    \A r \in Runs : feedAt[r] \in {"store", "drop", "done"} /\ held[r] # NoFeed =>
        held[r] \in publicSince[r]

\* Names that were known stay known until they are handed out.
KnownStays ==
    \A r \in Runs : knownBefore[r] =>
        /\ namesAt[r] \in {"want", "load"} => names # NoNames
        /\ namesAt[r] = "done" => got[r] # NoNames

InputsInv == InputsTypeOK /\ SinceIsComplete /\ HeldWasPublic /\ KnownStays

LEMMA InputsStart == InputsInit => InputsInv
<1> SUFFICES ASSUME InputsInit PROVE InputsInv  OBVIOUS
<1> USE EditionsAssumption DEF InputsInit
<1>1. InputsTypeOK
  <2>1. edition \in Editions /\ names \in NoNames..MaxLists  BY DEF Editions, NoNames
  <2>2. got \in [Runs -> NoNames..MaxLists]  BY DEF NoNames
  <2>3. held \in [Users -> {NoFeed} \cup Editions] /\ publicSince \in [Users -> SUBSET Editions]
    OBVIOUS
  <2> QED  BY <2>1, <2>2, <2>3 DEF InputsTypeOK
<1>2. SinceIsComplete /\ HeldWasPublic /\ KnownStays
  BY DEF SinceIsComplete, HeldWasPublic, KnownStays, Users
<1> QED  BY <1>1, <1>2 DEF InputsInv

LEMMA InputsKeep == InputsInv /\ [InputsNext]_inputVars => InputsInv'
<1> SUFFICES ASSUME InputsInv, [InputsNext]_inputVars PROVE InputsInv'
  OBVIOUS
<1> USE EditionsAssumption DEF InputsInv, FeedGoto, Hold, NamesGoto, Give, feedVars, nameVars
<1>0. PublicNow \subseteq Editions
  BY DEF InputsTypeOK, PublicNow
<1>1. ASSUME UNCHANGED inputVars PROVE InputsInv'
  BY <1>1 DEF inputVars, InputsTypeOK, SinceIsComplete, HeldWasPublic, KnownStays, PublicNow
<1>2. ASSUME NEW r \in Runs, BeginRun(r) PROVE InputsInv'
  <2> USE <1>2 DEF BeginRun, ReadLinked
  <2>1. InputsTypeOK'  BY <1>0 DEF InputsTypeOK, Users
  <2>2. SinceIsComplete'  BY <1>0 DEF InputsTypeOK, SinceIsComplete, PublicNow, Users
  <2>3. HeldWasPublic'  BY DEF InputsTypeOK, HeldWasPublic, Users
  <2>4. KnownStays'  BY DEF InputsTypeOK, KnownStays
  <2> QED  BY <2>1, <2>2, <2>3, <2>4
<1>3. ASSUME NEW r \in Runs, GetNames(r) PROVE InputsInv'
  <2> USE <1>3 DEF GetNames
  <2>1. InputsTypeOK'  BY DEF InputsTypeOK
  <2>2. SinceIsComplete' /\ HeldWasPublic'
    BY DEF SinceIsComplete, HeldWasPublic, PublicNow
  <2>3. KnownStays'  BY DEF InputsTypeOK, KnownStays
  <2> QED  BY <2>1, <2>2, <2>3
<1>4. ASSUME NEW r \in Runs, LoadNames(r) PROVE InputsInv'
  <2> USE <1>4 DEF LoadNames
  <2>1. names' \in NoNames..MaxLists /\ (names # NoNames => names' # NoNames)
    BY DEF Loaded, InputsTypeOK, NoNames
  <2>2. InputsTypeOK'  BY <2>1 DEF InputsTypeOK
  <2>3. SinceIsComplete' /\ HeldWasPublic'
    BY DEF SinceIsComplete, HeldWasPublic, PublicNow
  <2>4. KnownStays'  BY <2>1 DEF InputsTypeOK, KnownStays
  <2> QED  BY <2>2, <2>3, <2>4
<1>5. ASSUME NEW r \in Runs, EndRun(r) PROVE InputsInv'
  <2> USE <1>5 DEF EndRun
  <2>1. InputsTypeOK'  BY DEF InputsTypeOK, Users, NoNames
  <2>2. SinceIsComplete' /\ HeldWasPublic'
    BY DEF InputsTypeOK, SinceIsComplete, HeldWasPublic, PublicNow, Users
  <2>3. KnownStays'  BY DEF InputsTypeOK, KnownStays
  <2> QED  BY <2>1, <2>2, <2>3
<1>6. ASSUME NEW v \in Viewers, View(v) \/ Search(v) \/ ListAnswers(v) \/ EndView(v)
      PROVE  InputsInv'
  <2> USE <1>6, UsersAssumption DEF View, Search, ListAnswers, EndView
  <2>1. InputsTypeOK'  BY <1>0 DEF InputsTypeOK, Users
  <2>2. SinceIsComplete'  BY DEF InputsTypeOK, SinceIsComplete, PublicNow, Users
  <2>3. HeldWasPublic'  BY DEF InputsTypeOK, HeldWasPublic, Users
  <2>4. KnownStays'  BY DEF KnownStays
  <2> QED  BY <2>1, <2>2, <2>3, <2>4
<1>7. ASSUME NEW u \in Users, FeedAnswers(u) \/ StoreDetail(u) \/ DropDetail(u)
      PROVE  InputsInv'
  <2> USE <1>7 DEF FeedAnswers, StoreDetail, DropDetail
  <2>1. InputsTypeOK'  BY DEF InputsTypeOK
  <2>2. SinceIsComplete'  BY DEF InputsTypeOK, SinceIsComplete, PublicNow
  <2>3. HeldWasPublic'
    BY DEF InputsTypeOK, HeldWasPublic, SinceIsComplete, PublicNow, Users
  <2>4. KnownStays'  BY DEF KnownStays
  <2> QED  BY <2>1, <2>2, <2>3, <2>4
<1>8. ASSUME ChangeFeed PROVE InputsInv'
  <2> USE <1>8 DEF ChangeFeed
  <2>1. edition' \in Editions /\ open' \in BOOLEAN
    <3>1. edition' \in Editions  BY DEF InputsTypeOK, Editions
    <3>2. open' \in BOOLEAN  BY Zenon DEF InputsTypeOK
    <3> QED  BY <3>1, <3>2
  <2>2. \A u \in Users : publicSince[u] \subseteq publicSince'[u]
    OBVIOUS
  <2>3. InputsTypeOK'  BY <2>1 DEF InputsTypeOK
  <2>4. SinceIsComplete'  BY DEF SinceIsComplete, PublicNow
  <2>5. HeldWasPublic'  BY <2>2 DEF HeldWasPublic, Users
  <2>6. KnownStays'  BY DEF KnownStays
  <2> QED  BY <2>3, <2>4, <2>5, <2>6
<1>9. ASSUME ExpireFeed PROVE InputsInv'
  <2> USE <1>9 DEF ExpireFeed
  <2>1. InputsTypeOK'  BY DEF InputsTypeOK
  <2>2. SinceIsComplete' /\ HeldWasPublic' /\ KnownStays'
    BY DEF SinceIsComplete, HeldWasPublic, KnownStays, PublicNow
  <2> QED  BY <2>1, <2>2
<1>10. ASSUME NamesAreDue PROVE InputsInv'
  <2> USE <1>10 DEF NamesAreDue
  <2>1. InputsTypeOK'  BY DEF InputsTypeOK
  <2>2. SinceIsComplete' /\ HeldWasPublic' /\ KnownStays'
    BY DEF SinceIsComplete, HeldWasPublic, KnownStays, PublicNow
  <2> QED  BY <2>1, <2>2
<1> QED
  BY <1>1, <1>2, <1>3, <1>4, <1>5, <1>6, <1>7, <1>8, <1>9, <1>10 DEF InputsNext

LEMMA InputsHold == InputsInv => InputsAreTrue
BY DEF InputsInv, InputsAreTrue, LinkedWasPublic, HeldWasPublic, NamesAreKept, KnownStays

-----------------------------------------------------------------------------
(* AnalysisProgress: the stages that a user is shown *)

\* Nothing that is stored or on its way is ahead of the run.
NothingAhead ==
    /\ \A v \in {inRedis, poll.value} \cup {inMemory[i] : i \in Nodes} :
          IsRunning(v) => PlaceOf(v) <= runStage
    /\ shown <= runStage \/ shown <= 1

\* Before the first failure all instances use Redis, which has the stage of
\* the run or nothing of it; answers on their way are no older than what is shown.
RedisIsCurrent ==
    ~outage =>
        /\ \A i \in Nodes : reaches[i]
        /\ IsRunning(inRedis) => PlaceOf(inRedis) = runStage
        /\ IsRunning(poll.value) => shown <= PlaceOf(poll.value)

ProgressInv == ProgressTypeOK /\ NothingAhead /\ RedisIsCurrent

\* Every stage has its place, and only stages are running.
LEMMA StagesHavePlaces ==
    /\ DOMAIN Stages = 1..5 /\ Len(Stages) = 5
    /\ \A n \in 1..5 : /\ Stages[n] \in Values
                       /\ IsRunning(Stages[n]) /\ PlaceOf(Stages[n]) = n
    /\ \A v \in Values : IsRunning(v) => PlaceOf(v) \in 1..5
    /\ ~IsRunning(NoEntry) /\ ~IsRunning("failed") /\ ~IsRunning("completed")
    /\ NoEntry \in Values /\ "failed" \in Values /\ "completed" \in Values
<1>1. DOMAIN Stages = 1..5 /\ Len(Stages) = 5  BY DEF Stages
<1>2. \A m, n \in 1..5 : Stages[m] = Stages[n] => m = n  BY DEF Stages
<1>3. \A n \in 1..5 : PlaceOf(Stages[n]) = n
  <2> SUFFICES ASSUME NEW n \in 1..5 PROVE PlaceOf(Stages[n]) = n  OBVIOUS
  <2>1. PlaceOf(Stages[n]) \in DOMAIN Stages /\ Stages[PlaceOf(Stages[n])] = Stages[n]
    BY <1>1 DEF PlaceOf
  <2> QED  BY <1>1, <1>2, <2>1
<1>4. \A n \in 1..5 : IsRunning(Stages[n])
  BY DEF Stages, IsRunning, Final, NoEntry
<1>5. \A v \in Values : IsRunning(v) => \E n \in 1..5 : v = Stages[n]
  BY <1>1 DEF Values, IsRunning
<1>6. \A n \in 1..5 : Stages[n] \in Values  BY <1>1 DEF Values
<1> QED
  BY <1>1, <1>3, <1>4, <1>5, <1>6 DEF IsRunning, Values, Final

LEMMA ProgressStarts == ProgressInit => ProgressInv
<1> SUFFICES ASSUME ProgressInit PROVE ProgressInv  OBVIOUS
<1> USE StagesHavePlaces DEF ProgressInit, NoPoll
<1>1. ProgressTypeOK
  <2>1. NoPoll \in [at : {"none", "waiting", "asked", "answered"}, value : Values]
    OBVIOUS
  <2>2. inMemory \in [Nodes -> Values] /\ reaches \in [Nodes -> BOOLEAN]
    OBVIOUS
  <2>3. runStage \in 0..Ended /\ shown \in 0..Len(Stages)  BY DEF Ended
  <2> QED  BY <2>1, <2>2, <2>3 DEF ProgressTypeOK
<1>2. NothingAhead /\ RedisIsCurrent  BY DEF NothingAhead, RedisIsCurrent
<1> QED  BY <1>1, <1>2 DEF ProgressInv

\* A report of the stage that comes next, or of the end.
LEMMA ReportKeeps ==
    ASSUME ProgressInv, NEW value \in Values, SetEntry(RunNode, value),
           runStage < runStage', runStage' \in 0..Ended,
           IsRunning(value) => PlaceOf(value) = runStage',
           UNCHANGED <<active, poll, shown>>
    PROVE  ProgressInv'
<1> USE StagesHavePlaces, RunNodeAssumption DEF ProgressInv
<1>1. ProgressTypeOK'  BY DEF ProgressTypeOK, SetEntry
<1>2. inRedis' \in {inRedis, value} /\ \A i \in Nodes : inMemory'[i] \in {inMemory[i], value}
  BY DEF SetEntry, ProgressTypeOK
<1>3. /\ inRedis \in Values /\ \A i \in Nodes : inMemory[i] \in Values
      /\ poll.value \in Values /\ runStage \in Nat /\ runStage' \in Nat /\ shown \in Nat
  BY DEF ProgressTypeOK, Ended
<1>4. NothingAhead'
  <2>1. ASSUME NEW v \in Values, IsRunning(v), PlaceOf(v) <= runStage
        PROVE  PlaceOf(v) <= runStage'
    BY <2>1, <1>3
  <2>2. IsRunning(inRedis') => PlaceOf(inRedis') <= runStage'
    BY <1>2, <1>3, <2>1 DEF NothingAhead
  <2>3. \A i \in Nodes : IsRunning(inMemory'[i]) => PlaceOf(inMemory'[i]) <= runStage'
    BY <1>2, <1>3, <2>1 DEF NothingAhead
  <2>4. IsRunning(poll.value) => PlaceOf(poll.value) <= runStage'
    BY <1>3, <2>1 DEF NothingAhead
  <2>5. shown <= runStage' \/ shown <= 1  BY <1>3 DEF NothingAhead
  <2> QED  BY <2>2, <2>3, <2>4, <2>5 DEF NothingAhead
<1>5. RedisIsCurrent'
  BY <1>3 DEF RedisIsCurrent, SetEntry
<1> QED  BY <1>1, <1>4, <1>5

\* Only the first stage is shown before the run has reached it.
OnwardStep ==
    shown' # shown =>
        \/ RequestAnalysis
        \/ /\ active
           /\ shown' <= runStage
           /\ shown' > shown \/ outage

LEMMA ProgressKeeps ==
    ProgressInv /\ [ProgressNext]_progressVars => ProgressInv' /\ OnwardStep
<1> SUFFICES ASSUME ProgressInv, [ProgressNext]_progressVars
             PROVE  ProgressInv' /\ OnwardStep
  OBVIOUS
<1> USE StagesHavePlaces DEF ProgressInv, OnwardStep
<1>0. /\ inRedis \in Values /\ \A i \in Nodes : inMemory[i] \in Values
      /\ poll.value \in Values /\ runStage \in 0..6 /\ shown \in 0..5
  BY DEF ProgressTypeOK, Ended
<1>1. CASE UNCHANGED progressVars
  BY <1>1 DEF progressVars, ProgressTypeOK, NothingAhead, RedisIsCurrent
<1>2. CASE RequestAnalysis
  BY <1>2 DEF RequestAnalysis, ProgressTypeOK, NothingAhead, RedisIsCurrent
<1>3. CASE UpdateProgress
  <2>1. /\ runStage' = runStage + 1 /\ runStage' \in 1..5
        /\ SetEntry(RunNode, Stages[runStage'])
    BY <1>0, <1>3 DEF UpdateProgress
  <2>2. ProgressInv'
    BY <1>0, <1>3, <2>1, ReportKeeps DEF UpdateProgress, Ended
  <2> QED  BY <1>3, <2>2 DEF UpdateProgress
<1>4. CASE EndTracking
  <2>1. ASSUME NEW value \in {"failed", "completed"}, SetEntry(RunNode, value)
        PROVE  ProgressInv'
    BY <1>0, <1>4, <2>1, ReportKeeps DEF EndTracking, Ended
  <2>2. ProgressInv'  BY <1>4, <2>1 DEF EndTracking
  <2> QED  BY <1>4, <2>2 DEF EndTracking
<1>5. CASE StopWaiting
  <2> USE <1>5 DEF StopWaiting, NoPoll
  <2>1. poll' \in [at : {"none", "waiting", "asked", "answered"}, value : Values]
        /\ poll'.value \in {poll.value, NoEntry}
    BY DEF ProgressTypeOK
  <2>2. ProgressTypeOK'  BY <2>1 DEF ProgressTypeOK
  <2>3. NothingAhead' /\ RedisIsCurrent'  BY <2>1 DEF NothingAhead, RedisIsCurrent
  <2> QED  BY <2>2, <2>3
<1>6. CASE Poll
  <2>1. poll' \in [at : {"none", "waiting", "asked", "answered"}, value : Values]
        /\ poll'.value = poll.value
    BY <1>6 DEF Poll, ProgressTypeOK
  <2> QED  BY <1>6, <2>1 DEF Poll, ProgressTypeOK, NothingAhead, RedisIsCurrent
<1>7. ASSUME NEW i \in Nodes, GetProgress(i) PROVE ProgressInv' /\ OnwardStep
  <2> USE <1>7 DEF GetProgress
  <2>1. /\ poll'.value \in {inRedis, inMemory[i]}
        /\ ~outage' => ~outage /\ poll'.value = inRedis
        /\ ~outage' => reaches' = reaches
    <3>1. CASE /\ reaches[i] /\ UNCHANGED <<reaches, outage>>
               /\ poll' = [at |-> "answered", value |-> inRedis]
      BY <3>1
    <3>2. CASE /\ poll' = [at |-> "answered", value |-> inMemory[i]]
               /\ outage' = (outage \/ reaches[i])
      <4>1. outage'  BY <3>2, Zenon DEF RedisIsCurrent
      <4> QED  BY <3>2, <4>1
    <3> QED  BY <3>1, <3>2
  <2>2. ProgressTypeOK'
    <3>1. outage' \in BOOLEAN  BY Zenon DEF ProgressTypeOK
    <3>2. poll' \in [at : {"none", "waiting", "asked", "answered"}, value : Values]
      BY <1>0
    <3> QED  BY <3>1, <3>2 DEF ProgressTypeOK
  <2>3. NothingAhead'  BY <1>0, <2>1 DEF NothingAhead
  <2>4. RedisIsCurrent'
    <3> SUFFICES ASSUME ~outage' PROVE RedisIsCurrent'  BY DEF RedisIsCurrent
    <3>1. shown <= runStage \/ shown <= 1  BY DEF NothingAhead
    <3>2. IsRunning(inRedis) => PlaceOf(inRedis) = runStage /\ PlaceOf(inRedis) \in 1..5
      BY <1>0, <2>1 DEF RedisIsCurrent
    <3>3. IsRunning(inRedis) => shown <= PlaceOf(inRedis)
      BY <1>0, <3>1, <3>2
    <3> QED  BY <2>1, <3>2, <3>3 DEF RedisIsCurrent
  <2> QED  BY <2>2, <2>3, <2>4
<1>8. CASE TakeAnswer
  <2> USE <1>8 DEF TakeAnswer, NextPoll, NoPoll
  <2>1. CASE active /\ IsRunning(poll.value)
    <3>1. shown' = PlaceOf(poll.value) /\ shown' \in 1..5 /\ shown' <= runStage
      BY <1>0, <2>1 DEF NothingAhead
    <3>2. ~outage => shown <= shown'
      BY <2>1, <3>1 DEF RedisIsCurrent
    <3>3. ProgressTypeOK'  BY <3>1 DEF ProgressTypeOK
    <3>4. poll'.value = NoEntry  OBVIOUS
    <3>5. NothingAhead'  BY <3>1, <3>4 DEF NothingAhead
    <3>6. RedisIsCurrent'  BY <3>4 DEF RedisIsCurrent
    <3> QED  BY <1>0, <2>1, <3>1, <3>2, <3>3, <3>5, <3>6
  <2>2. CASE ~(active /\ IsRunning(poll.value))
    BY <2>2 DEF ProgressTypeOK, NothingAhead, RedisIsCurrent
  <2> QED  BY <2>1, <2>2
<1>9. CASE PollFails
  BY <1>9 DEF PollFails, NextPoll, NoPoll, ProgressTypeOK, NothingAhead, RedisIsCurrent
<1>10. CASE EntryExpires
  <2> USE <1>10 DEF EntryExpires
  <2>1. inRedis' \in {inRedis, NoEntry}
        /\ \A i \in Nodes : inMemory'[i] \in {inMemory[i], NoEntry}
    BY DEF ProgressTypeOK
  <2>2. ProgressTypeOK'  BY DEF ProgressTypeOK
  <2>3. NothingAhead'
    <3>1. IsRunning(inRedis') => PlaceOf(inRedis') <= runStage
      BY <2>1 DEF NothingAhead
    <3>2. \A i \in Nodes : IsRunning(inMemory'[i]) => PlaceOf(inMemory'[i]) <= runStage
      BY <2>1 DEF NothingAhead
    <3> QED  BY <3>1, <3>2 DEF NothingAhead
  <2>4. RedisIsCurrent'  BY <2>1 DEF RedisIsCurrent
  <2> QED  BY <2>2, <2>3, <2>4
<1> QED
  BY <1>1, <1>2, <1>3, <1>4, <1>5, <1>6, <1>7, <1>8, <1>9, <1>10 DEF ProgressNext

\* What a user is shown goes forward, for any number of instances and whichever
\* of them lose Redis; it goes back only after an outage.
THEOREM StagesOnward == ProgressSpec => StagesGoForward
<1>1. ProgressInv /\ [ProgressNext]_progressVars => ProgressInv'
  BY ProgressKeeps
<1>2. ProgressInv /\ [ProgressNext]_progressVars => [shown' # shown =>
          \/ RequestAnalysis
          \/ /\ active
             /\ shown' <= runStage
             /\ shown' > shown \/ outage]_progressVars
  BY ProgressKeeps DEF OnwardStep
<1> QED  BY ProgressStarts, <1>1, <1>2, PTL DEF ProgressSpec, StagesGoForward

-----------------------------------------------------------------------------
(* Experiments: what is shown of the latest one *)

\* A stored evaluation keeps to the start and the window of its experiment.
KeepsTo(v, run) ==
    /\ \A n \in v.pre : n < run.started
    /\ \A n \in v.post : n >= run.started
    /\ Cardinality(v.pre) <= run.window
    /\ Cardinality(v.post) <= run.window

EvaluationsKeepTo ==
    \A k \in DOMAIN evaluations :
        KeepsTo(evaluations[k], experiments[evaluations[k].experiment])

ExperimentsInv == ExperimentsTypeOK /\ EvaluationsKeepTo

LEMMA ExperimentsStart == ExperimentsInit => ExperimentsInv
<1> SUFFICES ASSUME ExperimentsInit PROVE ExperimentsInv  OBVIOUS
<1> USE ExperimentBoundsAssumption DEF ExperimentsInit
<1>1. ExperimentsTypeOK  BY DEF ExperimentsTypeOK, NoExperiment
<1>2. EvaluationsKeepTo  BY DEF EvaluationsKeepTo
<1> QED  BY <1>1, <1>2 DEF ExperimentsInv

\* An evaluation is of completed matches and keeps to its run, whatever the
\* load has returned.
LEMMA EvaluatedKeepsTo ==
    ASSUME ExperimentsTypeOK, NEW x \in DOMAIN experiments, NEW rows \in SUBSET Played
    PROVE  LET v == Evaluated(x, experiments[x], rows)
           IN  /\ v \in [experiment : DOMAIN experiments, pre : SUBSET Played, post : SUBSET Played]
               /\ v.experiment = x
               /\ KeepsTo(v, experiments[x])
<1> DEFINE run == experiments[x]
           v == Evaluated(x, run, rows)
           before == {n \in rows : n < run.started}
           after == {n \in rows : n >= run.started}
<1>1. run.started \in Nat /\ run.window \in Nat
  <2>1. run \in [started : Times, window : Windows]
    BY ElementOfSeq, LenProperties DEF ExperimentsTypeOK
  <2>2. run.started \in Times /\ run.window \in Windows
    BY <2>1
  <2>3. Times \subseteq Nat  BY ExperimentBoundsAssumption DEF Times
  <2> QED
    BY <2>2, <2>3, WindowsAssumption
<1>2. completed \in Nat /\ IsFiniteSet(Played) /\ Played \subseteq Nat
  BY ExperimentBoundsAssumption, FS_Interval DEF ExperimentsTypeOK, Played
<1>3. /\ before \in SUBSET Nat /\ IsFiniteSet(before) /\ before \in SUBSET Played
      /\ after \in SUBSET Nat /\ IsFiniteSet(after) /\ after \in SUBSET Played
  BY <1>2, FS_Subset
<1>4. ASSUME NEW S \in SUBSET Nat, IsFiniteSet(S)
      PROVE  NewestIn(S, run.window) \subseteq S
             /\ Cardinality(NewestIn(S, run.window)) <= run.window
  BY <1>1, <1>4, FewAreNewest DEF NewestIn
<1>5. /\ v.experiment = x
      /\ v.pre = NewestIn(before, run.window)
      /\ v.post = NewestIn(after, run.window)
      /\ v = [experiment |-> x, pre |-> v.pre, post |-> v.post]
  BY DEF Evaluated
<1>6. /\ v.pre \subseteq before /\ Cardinality(v.pre) <= run.window
      /\ v.post \subseteq after /\ Cardinality(v.post) <= run.window
  <2> HIDE DEF before, after, v, run
  <2> QED  BY <1>3, <1>4, <1>5
<1>7. KeepsTo(v, run)
  <2>1. (\A n \in before : n < run.started) /\ \A n \in after : n >= run.started
    OBVIOUS
  <2> HIDE DEF before, after, v, run
  <2> QED  BY <1>6, <2>1 DEF KeepsTo
<1>8. v \in [experiment : DOMAIN experiments, pre : SUBSET Played, post : SUBSET Played]
  <2>1. v.pre \in SUBSET Played /\ v.post \in SUBSET Played
    <3> HIDE DEF before, after, v, run
    <3> QED  BY <1>3, <1>6
  <2> HIDE DEF v
  <2> QED  BY <1>5, <2>1
<1> QED  BY <1>5, <1>7, <1>8

LEMMA ExperimentsKeep ==
    ExperimentsInv /\ [ExperimentsNext]_experimentVars => ExperimentsInv'
<1> SUFFICES ASSUME ExperimentsInv, [ExperimentsNext]_experimentVars
             PROVE  ExperimentsInv'
  OBVIOUS
<1> USE ExperimentBoundsAssumption, WindowsAssumption DEF ExperimentsInv
<1>1. CASE UNCHANGED experimentVars
  BY <1>1 DEF experimentVars, ExperimentsTypeOK, EvaluationsKeepTo, Played
<1>2. ASSUME NEW started \in Times, NEW window \in Windows, CreateExperiment(started, window)
      PROVE  ExperimentsInv'
  <2> USE <1>2 DEF CreateExperiment
  <2> DEFINE run == [started |-> started, window |-> window]
  <2>1. /\ experiments \in Seq([started : Times, window : Windows])
        /\ run \in [started : Times, window : Windows]
        /\ experiments' = Append(experiments, run)
    BY DEF ExperimentsTypeOK
  <2>2. /\ experiments' \in Seq([started : Times, window : Windows])
        /\ DOMAIN experiments \subseteq DOMAIN experiments'
        /\ \A x \in DOMAIN experiments : experiments'[x] = experiments[x]
    <3> HIDE DEF run
    <3> QED  BY <2>1, AppendProperties
  <2>3. \A k \in DOMAIN evaluations :
           /\ evaluations[k] \in [experiment : DOMAIN experiments, pre : SUBSET Played,
                                  post : SUBSET Played]
           /\ evaluations[k].experiment \in DOMAIN experiments
    <3> DEFINE V == [experiment : DOMAIN experiments, pre : SUBSET Played, post : SUBSET Played]
    <3>1. evaluations \in Seq(V)  BY DEF ExperimentsTypeOK
    <3>2. \A k \in DOMAIN evaluations : evaluations[k] \in V
      <4> HIDE DEF V
      <4> QED  BY <3>1, ElementOfSeq, LenProperties
    <3> QED  BY <3>2
  <2>4. ExperimentsTypeOK'
    <3>1. [experiment : DOMAIN experiments, pre : SUBSET Played, post : SUBSET Played]
            \subseteq [experiment : DOMAIN experiments', pre : SUBSET Played,
                       post : SUBSET Played]
      BY <2>2
    <3>2. evaluations' \in Seq([experiment : DOMAIN experiments', pre : SUBSET Played',
                                post : SUBSET Played'])
      <4>1. Played' = Played  BY DEF Played
      <4> DEFINE V == [experiment : DOMAIN experiments, pre : SUBSET Played,
                       post : SUBSET Played]
                 W == [experiment : DOMAIN experiments', pre : SUBSET Played,
                       post : SUBSET Played]
      <4>2. evaluations \in Seq(V) /\ V \subseteq W  BY <3>1 DEF ExperimentsTypeOK
      <4>3. evaluations \in Seq(W)
        <5> HIDE DEF V, W
        <5> QED  BY <4>2, SeqMonotonic
      <4> QED  BY <4>1, <4>3
    <3> QED  BY <2>2, <3>2 DEF ExperimentsTypeOK
  <2>5. EvaluationsKeepTo'
    BY <2>2, <2>3 DEF EvaluationsKeepTo, KeepsTo
  <2> QED  BY <2>4, <2>5
<1>3. ASSUME NEW e \in Evaluators, ReadRun(e) \/ EvaluationFails(e) PROVE ExperimentsInv'
  <2> USE <1>3 DEF ReadRun, EvaluationFails, Latest
  <2>1. ExperimentsTypeOK'  BY DEF ExperimentsTypeOK, Played
  <2>2. EvaluationsKeepTo'  BY DEF EvaluationsKeepTo
  <2> QED  BY <2>1, <2>2
<1>4. ASSUME NEW e \in Evaluators, StoreEvaluation(e) PROVE ExperimentsInv'
  <2> DEFINE x == evaluating[e]
  <2>1. x \in DOMAIN experiments
    BY <1>4 DEF StoreEvaluation, ExperimentsTypeOK
  <2>2. PICK rows \in SUBSET Played :
            evaluations' = Append(evaluations, Evaluated(x, experiments[x], rows))
    BY <1>4 DEF StoreEvaluation
  <2>3. PICK v : v = Evaluated(x, experiments[x], rows)  OBVIOUS
  <2> DEFINE V == [experiment : DOMAIN experiments, pre : SUBSET Played, post : SUBSET Played]
  <2>4. v \in V /\ v.experiment = x /\ KeepsTo(v, experiments[x])
    BY <2>1, <2>3, EvaluatedKeepsTo
  <2>5. evaluations \in Seq(V) /\ evaluations' = Append(evaluations, v)
    BY <2>2, <2>3 DEF ExperimentsTypeOK
  <2>6. /\ evaluations' \in Seq(V)
        /\ \A k \in DOMAIN evaluations' :
              \/ k \in DOMAIN evaluations /\ evaluations'[k] = evaluations[k]
              \/ evaluations'[k] = v
    <3> HIDE DEF V
    <3> QED  BY <2>4, <2>5, AppendProperties
  <2>7. UNCHANGED <<completed, experiments>>
    BY <1>4 DEF StoreEvaluation
  <2>8. ExperimentsTypeOK'
    BY <1>4, <2>6, <2>7 DEF StoreEvaluation, ExperimentsTypeOK, Played
  <2>9. EvaluationsKeepTo'
    BY <2>4, <2>6, <2>7 DEF EvaluationsKeepTo, KeepsTo
  <2> QED  BY <2>8, <2>9
<1>5. CASE CompleteMatch
  <2> USE <1>5 DEF CompleteMatch
  <2>1. Played \subseteq Played'  BY DEF Played, ExperimentsTypeOK
  <2>2. [experiment : DOMAIN experiments, pre : SUBSET Played, post : SUBSET Played]
            \subseteq [experiment : DOMAIN experiments, pre : SUBSET Played',
                       post : SUBSET Played']
    BY <2>1
  <2>3. \A S, T : S \subseteq T => Seq(S) \subseteq Seq(T)  OBVIOUS
  <2>4. evaluations' \in Seq([experiment : DOMAIN experiments', pre : SUBSET Played',
                              post : SUBSET Played'])
    BY <2>2, <2>3 DEF ExperimentsTypeOK
  <2>5. completed' \in 0..MaxPlayed  BY DEF ExperimentsTypeOK
  <2>6. ExperimentsTypeOK'  BY <2>4, <2>5 DEF ExperimentsTypeOK
  <2>7. EvaluationsKeepTo'  BY DEF EvaluationsKeepTo
  <2> QED  BY <2>6, <2>7
<1>6. CASE LoseDatabase
  BY <1>6 DEF LoseDatabase, ExperimentsTypeOK, EvaluationsKeepTo
<1> QED
  BY <1>1, <1>2, <1>3, <1>4, <1>5, <1>6 DEF ExperimentsNext

\* The last evaluation of the latest run is one of its own.
LEMMA ExperimentsHold == ExperimentsInv => ShownComparesOwnStart
<1> SUFFICES ASSUME ExperimentsInv, NEW s \in Shown, NEW v \in s.delta
             PROVE  KeepsTo(v, s.run)
  BY DEF ShownComparesOwnStart, KeepsTo
<1>1. PICK x \in Latest : s = [run |-> experiments[x], delta |-> LatestDelta(x)]
  BY DEF Shown
<1>2. PICK k \in DOMAIN evaluations : v = evaluations[k] /\ evaluations[k].experiment = x
  BY <1>1 DEF LatestDelta
<1> QED  BY <1>1, <1>2 DEF ExperimentsInv, EvaluationsKeepTo

-----------------------------------------------------------------------------
(* UserDivisions: the tiers of a manager *)

TierRecords ==
    [current : [tier : {NoTier} \cup Tiers, match : {NoOfficial} \cup Numbers],
     highest : {NoTier} \cup Tiers]
DivisionsShape ==
    /\ DivisionsTypeOK
    /\ tiers \in [Askers -> TierRecords]
    /\ tiersKept \in [tiers : TierRecords, stored : {NoOfficial} \cup Numbers]

\* A tier t that was found when match s was the newest one stored.
TierIsOf(t, s) ==
    t.current.tier # NoTier =>
        /\ t.current.match \in OfficialNow
        /\ t.current.tier = official[t.current.match]
        /\ t.current.match >= s
        /\ t.highest # NoTier => t.current.tier <= t.highest

\* Whatever is found agrees with the matches, and what a request has not asked
\* for yet is not known to it.
FoundTiersAgree ==
    /\ TierIsOf(tiersKept.tiers, tiersKept.stored)
    /\ \A q \in Askers :
          /\ TierIsOf(tiers[q], storedOf[q])
          /\ tiersAt[q] \in {"idle", "names", "rows"} => tiers[q] = NoTiers
          /\ tiersAt[q] \in {"list", "detail", "highest"} => tiers[q].highest = NoTier
          /\ tiersAt[q] = "detail" => /\ tiers[q].current.match \in OfficialNow
                                      /\ tiers[q].current.match >= storedOf[q]

\* Only matches that were played are stored.  A request finds one no older than
\* the newest one stored when it began, or none if they were lost since.
StoredWerePlayed ==
    /\ Stored \subseteq OfficialNow
    /\ tiersKept.stored <= Len(official)
    /\ \A q \in Askers :
          /\ storedOf[q] <= Len(official)
          /\ tiersAt[q] \in {"names", "rows"} /\ Stored # {} =>
                \E m \in Stored : m >= storedOf[q]

\* The table and the list are written together, so each holds the newest match
\* that is stored, unless it has lost all: losing the other takes no newer one away.
Held(c) == {m \in Numbers : copies[c][m] # "none"}
CopiesHoldNewest ==
    \A c \in Copies : Held(c) # {} =>
        \A n \in Stored : \E m \in Held(c) : m >= n

DivisionsInv ==
    DivisionsShape /\ FoundTiersAgree /\ StoredWerePlayed /\ PartsAreAskedAgain
    /\ CopiesHoldNewest

\* What is read of the two copies together is what either of them holds.
LEMMA StoredIsHeld ==
    /\ Stored = Held("table") \cup Held("list")
    /\ \A c \in Copies : Held(c) \subseteq Stored
BY DEF Stored, Held, Row, Copies

\* The largest of some numbers is one of them, and none is larger.
LEMMA LargestIs ==
    ASSUME NEW S \in SUBSET (Nat \ {0}), IsFiniteSet(S)
    PROVE  /\ S # {} => Largest(S) \in S
           /\ S = {} <=> Largest(S) = 0
           /\ Largest(S) \in Nat
           /\ \A m \in S : m <= Largest(S)
<1>1. CASE S = {}
  BY <1>1 DEF Largest
<1>2. CASE S # {}
  <2>1. \E n \in S : \A m \in S : n >= m
    <3>1. PICK n \in S : \A m \in S : m <= n  BY <1>2, GreatestOfFinite
    <3>2. \A m \in S : n >= m  BY <3>1
    <3> QED  BY <3>2
  <2>2. Max(S) \in S /\ \A m \in S : Max(S) >= m  BY <2>1 DEF Max
  <2>3. Largest(S) = Max(S)  BY <1>2 DEF Largest
  <2>4. Largest(S) \in S /\ \A m \in S : Largest(S) >= m  BY <2>2, <2>3
  <2> QED  BY <1>2, <2>4
<1> QED  BY <1>1, <1>2

\* The matches played are finitely many, and so are those stored.
LEMMA MatchesAreFinite ==
    ASSUME DivisionsShape
    PROVE  /\ Len(official) \in Nat /\ IsFiniteSet(OfficialNow) /\ IsFiniteSet(Numbers)
           /\ OfficialNow \subseteq Numbers /\ Numbers \subseteq Nat \ {0}
           /\ Stored \subseteq Numbers /\ IsFiniteSet(Stored)
           /\ \A m \in OfficialNow : official[m] \in Tiers
<1> USE OfficialAssumption
<1>1. Len(official) \in Nat /\ Len(official) <= MaxOfficial
      /\ \A m \in OfficialNow : official[m] \in Tiers
  BY DEF DivisionsShape, DivisionsTypeOK, OfficialNow
<1>2. IsFiniteSet(OfficialNow) /\ IsFiniteSet(Numbers)
  BY <1>1, FS_Interval DEF OfficialNow, Numbers
<1>3. OfficialNow \subseteq Numbers /\ Numbers \subseteq Nat \ {0}
  BY <1>1 DEF OfficialNow, Numbers
<1>4. Stored \subseteq Numbers  BY DEF Stored
<1> QED  BY <1>1, <1>2, <1>3, <1>4, FS_Subset

\* /user/maxdivision is no lower than the tier of any match played.
LEMMA HighestIs ==
    ASSUME DivisionsShape
    PROVE  LET best == Largest({official[m] : m \in OfficialNow})
           IN  /\ best \in {NoTier} \cup Tiers
               /\ \A m \in OfficialNow : official[m] <= best
<1> DEFINE S == {official[m] : m \in OfficialNow}
<1>1. S \in SUBSET (Nat \ {0}) /\ S \subseteq Tiers
  BY MatchesAreFinite, TiersAssumption
<1>2. IsFiniteSet(S)
  <2> DEFINE f == [m \in OfficialNow |-> official[m]]
  <2>1. f \in Surjection(OfficialNow, S)
    <3>1. f \in [OfficialNow -> S] /\ \A n \in S : \E m \in OfficialNow : f[m] = n
      OBVIOUS
    <3> QED  BY <3>1 DEF Surjection
  <2>2. IsFiniteSet(OfficialNow)  BY MatchesAreFinite
  <2> QED  BY <2>1, <2>2, FS_Surjection
<1>3. \A m \in OfficialNow : official[m] \in S  OBVIOUS
<1> HIDE DEF S
<1>4. /\ S # {} => Largest(S) \in S
      /\ S = {} <=> Largest(S) = 0
      /\ \A n \in S : n <= Largest(S)
  BY <1>1, <1>2, LargestIs
<1>5. Largest(S) \in {NoTier} \cup Tiers  BY <1>1, <1>4 DEF NoTier
<1>6. \A m \in OfficialNow : official[m] <= Largest(S)  BY <1>3, <1>4
<1> QED  BY <1>5, <1>6 DEF S

LEMMA NoTiersKnown ==
    NoTiers \in TierRecords /\ NoTiers.highest = NoTier /\ \A s : TierIsOf(NoTiers, s)
BY DEF NoTiers, Unknown, TierRecords, TierIsOf

LEMMA TierShapes ==
    /\ \A t \in TierRecords : TierTypeOK(t)
    /\ \A t \in TierRecords, c \in [tier : {NoTier} \cup Tiers, match : {NoOfficial} \cup Numbers] :
          /\ [t EXCEPT !.current = c] \in TierRecords
          /\ [t EXCEPT !.current = c].current = c
          /\ [t EXCEPT !.current = c].highest = t.highest
    /\ \A t \in TierRecords, h \in {NoTier} \cup Tiers :
          /\ [t EXCEPT !.highest = h] \in TierRecords
          /\ [t EXCEPT !.highest = h].current = t.current
          /\ [t EXCEPT !.highest = h].highest = h
BY DEF TierRecords, TierTypeOK

LEMMA DivisionsStart == DivisionsInit => DivisionsInv
<1> SUFFICES ASSUME DivisionsInit PROVE DivisionsInv  OBVIOUS
<1> USE NoTiersKnown, OfficialAssumption, LastsAssumption, TiersAssumption DEF DivisionsInit
<1>1. DivisionsShape
  <2>1. tiers \in [Askers -> TierRecords]
        /\ tiersKept \in [tiers : TierRecords, stored : {NoOfficial} \cup Numbers]
    BY DEF NothingKept
  <2>2. tiersKept.stored \in {NoOfficial} \cup Numbers /\ TierTypeOK(tiersKept.tiers)
        /\ \A q \in Askers : TierTypeOK(tiers[q])
    BY TierShapes DEF NothingKept
  <2>3. official \in Seq(Tiers) /\ Len(official) = 0  OBVIOUS
  <2>4. tiersLeft \in 0..(WholeLasts + PartLasts)  OBVIOUS
  <2>5. DivisionsTypeOK
    <3>1. Len(official) <= MaxOfficial  BY <2>3
    <3>2. storedOf \in [Askers -> {NoOfficial} \cup Numbers]  OBVIOUS
    <3>3. copies \in [Copies -> [Numbers -> {"none", "bare", "coded"}]]
          /\ tiersAt \in [Askers -> {"idle", "names", "rows", "list", "detail",
                                   "highest", "store", "done"}]
          /\ divisionNames \in BOOLEAN
      OBVIOUS
    <3> QED  BY <2>2, <2>3, <2>4, <3>1, <3>2, <3>3 DEF DivisionsTypeOK
  <2> QED  BY <2>1, <2>5 DEF DivisionsShape
<1>2. FoundTiersAgree  BY DEF FoundTiersAgree, NothingKept
<1>3. \A c \in Copies : Held(c) = {}  BY DEF Held
<1>4. StoredWerePlayed
  BY <1>3, StoredIsHeld DEF StoredWerePlayed, Copies, NothingKept, NoOfficial
<1>5. PartsAreAskedAgain  BY DEF PartsAreAskedAgain
<1>6. CopiesHoldNewest  BY <1>3 DEF CopiesHoldNewest
<1> QED  BY <1>1, <1>2, <1>4, <1>5, <1>6 DEF DivisionsInv

\* A step of a request that changes its own place and result only.
RequestStep(q, t, s, place) ==
    /\ t \in TierRecords /\ TierIsOf(t, s)
    /\ s \in {NoOfficial} \cup Numbers /\ s <= Len(official)
    /\ place \in {"idle", "names", "rows", "list", "detail", "highest", "store", "done"}
    /\ place \in {"idle", "names", "rows"} => t = NoTiers
    /\ place \in {"list", "detail", "highest"} => t.highest = NoTier
    /\ place = "detail" => t.current.match \in OfficialNow /\ t.current.match >= s
    /\ place \in {"names", "rows"} /\ Stored # {} => \E m \in Stored : m >= s
    /\ tiers' = [tiers EXCEPT ![q] = t] /\ storedOf' = [storedOf EXCEPT ![q] = s]
    /\ TiersGoto(q, place) /\ divisionNames' \in BOOLEAN
    /\ UNCHANGED <<official, copies, tiersKept, tiersLeft>>

LEMMA RequestKeeps ==
    ASSUME DivisionsInv, NEW q \in Askers, NEW t, NEW s, NEW place,
           RequestStep(q, t, s, place)
    PROVE  DivisionsInv'
<1> USE DEF DivisionsInv, TiersGoto, RequestStep
<1>0. /\ \A p \in Askers : /\ tiers'[p] = IF p = q THEN t ELSE tiers[p]
                           /\ storedOf'[p] = IF p = q THEN s ELSE storedOf[p]
                           /\ tiersAt'[p] = IF p = q THEN place ELSE tiersAt[p]
      /\ Stored' = Stored /\ OfficialNow' = OfficialNow
  BY DEF DivisionsShape, DivisionsTypeOK, Stored, Row, OfficialNow
<1>1. DivisionsShape'
  <2>1. tiers' \in [Askers -> TierRecords]  BY DEF DivisionsShape
  <2>2. \A p \in Askers : TierTypeOK(tiers'[p])  BY <2>1, TierShapes
  <2>3. TierTypeOK(tiersKept.tiers)'  BY DEF DivisionsShape, DivisionsTypeOK, TierTypeOK
  <2>4. \A p \in Askers : TierTypeOK(tiers[p])'  BY <2>2 DEF TierTypeOK
  <2> QED  BY <2>1, <2>3, <2>4 DEF DivisionsShape, DivisionsTypeOK
<1>2. FoundTiersAgree'
  BY <1>0 DEF FoundTiersAgree, TierIsOf
<1>3. StoredWerePlayed'
  BY <1>0 DEF StoredWerePlayed
<1>4. PartsAreAskedAgain'  BY DEF PartsAreAskedAgain, Whole
<1>5. CopiesHoldNewest'  BY <1>0 DEF CopiesHoldNewest, Held
<1> QED  BY <1>1, <1>2, <1>3, <1>4, <1>5

\* The steps of a request, each with what it changes of its result.
LEMMA RequestSteps ==
    ASSUME DivisionsInv, NEW q \in Askers,
           AskTiers(q) \/ ReadDivisionNames(q) \/ ReadRows(q) \/ ListOfficial(q)
              \/ ReadDetail(q) \/ ReadHighest(q) \/ AnswerTiers(q)
    PROVE  DivisionsInv'
<1> DEFINE t == tiers[q]
           s == storedOf[q]
           CurrentTypes == [tier : {NoTier} \cup Tiers, match : {NoOfficial} \cup Numbers]
<1>0. /\ DivisionsShape /\ FoundTiersAgree /\ StoredWerePlayed
      /\ t \in TierRecords /\ s \in {NoOfficial} \cup Numbers /\ s <= Len(official)
      /\ TierIsOf(t, s) /\ divisionNames \in BOOLEAN
      /\ tiers = [tiers EXCEPT ![q] = t] /\ storedOf = [storedOf EXCEPT ![q] = s]
  BY DEF DivisionsInv, DivisionsShape, DivisionsTypeOK, FoundTiersAgree, StoredWerePlayed
<1>a. s \in Nat /\ \A m \in Numbers : m \in Nat
  BY <1>0, MatchesAreFinite DEF NoOfficial
<1>1. CASE AskTiers(q)
  <2> USE <1>1 DEF AskTiers
  <2>1. CASE tiersLeft > 0
    <3> DEFINE kt == tiersKept.tiers
               ks == tiersKept.stored
    <3>1. /\ kt \in TierRecords /\ ks \in {NoOfficial} \cup Numbers /\ ks <= Len(official)
          /\ TierIsOf(kt, ks)
      BY <1>0 DEF DivisionsShape, FoundTiersAgree, StoredWerePlayed
    <3>2. /\ tiers' = [tiers EXCEPT ![q] = kt] /\ storedOf' = [storedOf EXCEPT ![q] = ks]
          /\ TiersGoto(q, "done")
      BY <2>1
    <3> HIDE DEF kt, ks
    <3>9. RequestStep(q, kt, ks, "done")
      BY <1>0, <3>1, <3>2 DEF RequestStep
    <3> QED  BY <3>9, RequestKeeps
  <2>2. CASE ~(tiersLeft > 0)
    <3> DEFINE n == Largest(Stored)
    <3>1. /\ n \in {NoOfficial} \cup Numbers /\ n <= Len(official)
          /\ Stored # {} => \E m \in Stored : m >= n
      <4>1. /\ Stored \in SUBSET (Nat \ {0}) /\ IsFiniteSet(Stored)
            /\ Stored \subseteq Numbers /\ Len(official) \in Nat
            /\ \A m \in Stored : m <= Len(official)
        BY <1>0, MatchesAreFinite DEF StoredWerePlayed, OfficialNow
      <4>2. (Stored # {} => n \in Stored) /\ (Stored = {} <=> n = 0) /\ n \in Nat
        BY <4>1, LargestIs
      <4> HIDE DEF n
      <4> QED  BY <4>1, <4>2 DEF NoOfficial
    <3>2. t = NoTiers  BY <1>0 DEF FoundTiersAgree
    <3>3. /\ tiers' = [tiers EXCEPT ![q] = t] /\ storedOf' = [storedOf EXCEPT ![q] = n]
          /\ TiersGoto(q, "names")
      BY <1>0, <2>2
    <3>4. TierIsOf(t, n)  BY <3>2, NoTiersKnown
    <3> HIDE DEF n, t
    <3>9. RequestStep(q, t, n, "names")
      BY <1>0, <3>1, <3>2, <3>3, <3>4 DEF RequestStep
    <3> QED  BY <3>9, RequestKeeps
  <2> QED  BY <2>1, <2>2
<1>2. CASE ReadDivisionNames(q)
  <2> USE <1>2 DEF ReadDivisionNames
  <2>1. t = NoTiers /\ (Stored # {} => \E m \in Stored : m >= s)
    BY <1>0 DEF FoundTiersAgree, StoredWerePlayed
  <2>2. tiers' = [tiers EXCEPT ![q] = t] /\ storedOf' = [storedOf EXCEPT ![q] = s]
    BY <1>0
  <2>3. CASE divisionNames' = TRUE /\ TiersGoto(q, "rows")
    <3>9. RequestStep(q, t, s, "rows")
      BY <1>0, <2>1, <2>2, <2>3 DEF RequestStep
    <3> QED  BY <3>9, RequestKeeps
  <2>4. CASE UNCHANGED divisionNames /\ TiersGoto(q, "done")
    <3>9. RequestStep(q, t, s, "done")
      BY <1>0, <2>1, <2>2, <2>4 DEF RequestStep
    <3> QED  BY <3>9, RequestKeeps
  <2> QED  BY <2>3, <2>4
\* A new current tier c beside an unknown highest one.
<1>3. ASSUME NEW c \in CurrentTypes, NEW place \in {"list", "detail", "highest"},
             t.highest = NoTier, tiers' = [tiers EXCEPT ![q].current = c],
             c.tier # NoTier => /\ c.match \in OfficialNow /\ c.match >= s
                                /\ c.tier = official[c.match],
             place = "detail" => c.match \in OfficialNow /\ c.match >= s,
             TiersGoto(q, place),
             UNCHANGED <<official, copies, divisionNames, tiersKept, tiersLeft, storedOf>>
      PROVE  DivisionsInv'
  <2> DEFINE u == [t EXCEPT !.current = c]
  <2>1. u \in TierRecords /\ u.current = c /\ u.highest = NoTier
    BY <1>0, <1>3, TierShapes
  <2>2. tiers' = [tiers EXCEPT ![q] = u] /\ storedOf' = [storedOf EXCEPT ![q] = s]
    BY <1>0, <1>3
  <2>3. TierIsOf(u, s)  BY <1>3, <2>1 DEF TierIsOf
  <2> HIDE DEF u
  <2>9. RequestStep(q, u, s, place)
    BY <1>0, <1>3, <2>1, <2>2, <2>3 DEF RequestStep
  <2> QED  BY <2>9, RequestKeeps
<1>4. CASE ReadRows(q)
  <2> USE <1>4 DEF ReadRows
  <2> DEFINE m == Largest(Stored)
  <2>1. /\ t.highest = NoTier
        /\ Stored # {} => \E k \in Stored : k >= s
    BY <1>0, NoTiersKnown DEF FoundTiersAgree, StoredWerePlayed
  <2>2. /\ Stored \in SUBSET (Nat \ {0}) /\ IsFiniteSet(Stored) /\ Stored \subseteq OfficialNow
        /\ OfficialNow \subseteq Numbers /\ \A k \in OfficialNow : official[k] \in Tiers
    BY <1>0, MatchesAreFinite DEF StoredWerePlayed
  <2>3. /\ Stored # {} => m \in Stored
        /\ Stored = {} <=> m = 0
        /\ m \in Nat /\ \A k \in Stored : k <= m
    BY <2>2, LargestIs
  <2> HIDE DEF m
  <2>4. CASE m # NoOfficial /\ Row(m) = "coded"
    <3> DEFINE c == [tier |-> official[m], match |-> m]
    <3>1. m \in Stored /\ m \in OfficialNow /\ m \in Numbers /\ official[m] \in Tiers
      BY <2>2, <2>3, <2>4 DEF NoOfficial
    <3>2. m >= s  BY <1>a, <2>1, <2>2, <2>3, <3>1
    <3>3. c \in CurrentTypes /\ c.match = m /\ c.tier = official[m]  BY <3>1
    <3>4. tiers' = [tiers EXCEPT ![q].current = c] /\ TiersGoto(q, "highest")
      BY <2>4 DEF m, SetCurrent
    <3> HIDE DEF c
    <3> QED  BY <1>3, <2>1, <3>1, <3>2, <3>3, <3>4
  <2>5. CASE ~(m # NoOfficial /\ Row(m) = "coded")
    <3> DEFINE c == [tier |-> NoTier, match |-> m]
    <3>1. m \in {NoOfficial} \cup Numbers  BY <2>2, <2>3 DEF NoOfficial
    <3>2. c \in CurrentTypes /\ c.match = m /\ c.tier = NoTier  BY <3>1
    <3>3. tiers' = [tiers EXCEPT ![q].current = c] /\ TiersGoto(q, "list")
      BY <2>5 DEF m, SetCurrent
    <3> HIDE DEF c
    <3> QED  BY <1>3, <2>1, <3>2, <3>3
  <2> QED  BY <2>4, <2>5
<1>5. ASSUME Forget(q), t.highest = NoTier,
             UNCHANGED <<official, copies, divisionNames, tiersKept, tiersLeft, storedOf>>
      PROVE  DivisionsInv'
  <2>1. Unknown \in CurrentTypes /\ Unknown.tier = NoTier  BY DEF Unknown
  <2> QED  BY <1>3, <1>5, <2>1 DEF Forget
<1>6. CASE ListOfficial(q)
  <2> USE <1>6 DEF ListOfficial
  <2>1. t.highest = NoTier  BY <1>0 DEF FoundTiersAgree
  <2>2. CASE TiersGoto(q, "highest") /\ UNCHANGED tiers
    <3>1. tiers' = [tiers EXCEPT ![q] = t] /\ storedOf' = [storedOf EXCEPT ![q] = s]
      BY <1>0, <2>2
    <3>9. RequestStep(q, t, s, "highest")
      BY <1>0, <2>1, <2>2, <3>1 DEF RequestStep
    <3> QED  BY <3>9, RequestKeeps
  <2>3. CASE /\ OfficialNow # {} /\ TiersGoto(q, "detail")
             /\ SetCurrent(q, NoTier, Largest(OfficialNow))
    <3> DEFINE m == Largest(OfficialNow)
               c == [tier |-> NoTier, match |-> m]
    <3>1. /\ OfficialNow \in SUBSET (Nat \ {0}) /\ IsFiniteSet(OfficialNow)
          /\ OfficialNow \subseteq Numbers /\ Len(official) \in Nat
      BY <1>0, MatchesAreFinite
    <3>2. m \in OfficialNow /\ \A k \in OfficialNow : k <= m
      BY <2>3, <3>1, LargestIs
    <3>3. Len(official) \in OfficialNow  BY <2>3, <3>1 DEF OfficialNow
    <3> HIDE DEF m
    <3>4. m >= s  BY <1>0, <1>a, <3>1, <3>2, <3>3
    <3>5. c \in CurrentTypes /\ c.match = m /\ c.tier = NoTier  BY <3>1, <3>2
    <3>6. tiers' = [tiers EXCEPT ![q].current = c]  BY <2>3 DEF m, SetCurrent
    <3> HIDE DEF c
    <3> QED  BY <1>3, <2>1, <2>3, <3>2, <3>4, <3>5, <3>6
  <2>4. CASE Forget(q)
    BY <1>5, <2>1, <2>4
  <2> QED  BY <2>2, <2>3, <2>4
<1>7. CASE ReadDetail(q)
  <2> USE <1>7 DEF ReadDetail
  <2> DEFINE m == t.current.match
  <2>1. t.highest = NoTier /\ m \in OfficialNow /\ m >= s
    BY <1>0 DEF FoundTiersAgree
  <2>2. m \in Numbers /\ official[m] \in Tiers  BY <1>0, <2>1, MatchesAreFinite
  <2>3. ASSUME NEW tier \in {NoTier, official[m]}, SetCurrent(q, tier, m),
               TiersGoto(q, "highest")
        PROVE  DivisionsInv'
    <3> DEFINE c == [tier |-> tier, match |-> m]
    <3>1. c \in CurrentTypes /\ c.match = m /\ c.tier = tier  BY <2>2
    <3>2. tiers' = [tiers EXCEPT ![q].current = c]  BY <2>3 DEF SetCurrent
    <3> HIDE DEF c, m
    <3> QED  BY <1>3, <2>1, <2>3, <3>1, <3>2
  <2>4. CASE Forget(q)
    BY <1>5, <2>1, <2>4
  <2> QED  BY <2>3, <2>4
<1>8. CASE ReadHighest(q)
  <2> USE <1>8 DEF ReadHighest
  <2> DEFINE top == Largest({official[m] : m \in OfficialNow})
  <2>1. PICK best \in {NoTier} \cup {top} : tiers' = [tiers EXCEPT ![q].highest = best]
    OBVIOUS
  <2>2. top \in {NoTier} \cup Tiers /\ \A m \in OfficialNow : official[m] <= top
    BY <1>0, HighestIs
  <2> HIDE DEF top
  <2> DEFINE u == [t EXCEPT !.highest = best]
  <2>3. u \in TierRecords /\ u.current = t.current /\ u.highest = best
    <3>1. best \in {NoTier} \cup Tiers  BY <2>2
    <3> QED  BY <1>0, <3>1, TierShapes
  <2>4. tiers' = [tiers EXCEPT ![q] = u] /\ storedOf' = [storedOf EXCEPT ![q] = s]
    BY <1>0, <2>1
  <2>5. TierIsOf(u, s)  BY <1>0, <2>2, <2>3 DEF TierIsOf
  <2> HIDE DEF u
  <2>9. RequestStep(q, u, s, "store")
    BY <1>0, <2>3, <2>4, <2>5 DEF RequestStep
  <2> QED  BY <2>9, RequestKeeps
<1>9. CASE AnswerTiers(q)
  <2> USE <1>9 DEF AnswerTiers
  <2>1. NoOfficial <= Len(official)  BY <1>0, MatchesAreFinite DEF NoOfficial
  <2>9. RequestStep(q, NoTiers, NoOfficial, "idle")
    BY <1>0, <2>1, NoTiersKnown DEF RequestStep
  <2> QED  BY <2>9, RequestKeeps
<1> QED  BY <1>1, <1>2, <1>4, <1>6, <1>7, <1>8, <1>9

LEMMA DivisionsKeep == DivisionsInv /\ [DivisionsNext]_divisionVars => DivisionsInv'
<1> SUFFICES ASSUME DivisionsInv, [DivisionsNext]_divisionVars PROVE DivisionsInv'
  OBVIOUS
<1> USE OfficialAssumption, LastsAssumption DEF DivisionsInv
<1>0. /\ Len(official) \in Nat /\ OfficialNow \subseteq Numbers
      /\ \A m \in OfficialNow : official[m] \in Tiers
  BY MatchesAreFinite
<1>1. CASE UNCHANGED divisionVars
  BY <1>1 DEF divisionVars, DivisionsShape, DivisionsTypeOK, TierTypeOK, FoundTiersAgree,
              TierIsOf, StoredWerePlayed, Stored, Row, OfficialNow, PartsAreAskedAgain,
              Whole, CopiesHoldNewest, Held
<1>2. ASSUME NEW q \in Askers, StoreTiers(q) PROVE DivisionsInv'
  <2> USE <1>2 DEF StoreTiers, TiersGoto
  <2>1. /\ tiersKept' \in [tiers : TierRecords, stored : {NoOfficial} \cup Numbers]
        /\ tiersKept'.tiers = tiers[q] /\ tiersKept'.stored = storedOf[q]
    BY DEF DivisionsShape, DivisionsTypeOK
  <2>2. tiersLeft' \in 0..(WholeLasts + PartLasts)  OBVIOUS
  <2>3. DivisionsShape'
    <3>1. TierTypeOK(tiersKept.tiers)' /\ \A p \in Askers : TierTypeOK(tiers[p])'
      BY <2>1 DEF DivisionsShape, DivisionsTypeOK, TierTypeOK
    <3>2. tiersKept'.stored \in {NoOfficial} \cup Numbers
      BY <2>1 DEF DivisionsShape, DivisionsTypeOK
    <3> QED  BY <2>1, <2>2, <3>1, <3>2 DEF DivisionsShape, DivisionsTypeOK
  <2>4. \A p \in Askers : tiersAt'[p] = IF p = q THEN "done" ELSE tiersAt[p]
    BY DEF DivisionsShape, DivisionsTypeOK
  <2>5. FoundTiersAgree'
    BY <2>1, <2>4 DEF FoundTiersAgree, TierIsOf, OfficialNow
  <2>6. StoredWerePlayed'
    BY <2>1, <2>4 DEF StoredWerePlayed, Stored, Row, OfficialNow
  <2>7. PartsAreAskedAgain'
    <3>1. tiersLeft' > PartLasts => Whole(tiers[q])  OBVIOUS
    <3> QED  BY <2>1, <3>1 DEF PartsAreAskedAgain, Whole
  <2>8. CopiesHoldNewest'  BY DEF CopiesHoldNewest, Held, Stored, Row
  <2> QED  BY <2>3, <2>5, <2>6, <2>7, <2>8
<1>3. ASSUME NEW tier \in Tiers, PlayOfficial(tier) PROVE DivisionsInv'
  <2> USE <1>3 DEF PlayOfficial
  <2>1. /\ official' \in Seq(Tiers) /\ Len(official') = Len(official) + 1
        /\ \A m \in OfficialNow : official'[m] = official[m]
    <3>1. official \in Seq(Tiers)  BY DEF DivisionsShape, DivisionsTypeOK
    <3> QED  BY <3>1, AppendProperties DEF OfficialNow
  <2>2. OfficialNow \subseteq OfficialNow'  BY <1>0, <2>1 DEF OfficialNow
  <2>3. DivisionsShape'
    BY <1>0, <2>1 DEF DivisionsShape, DivisionsTypeOK, TierTypeOK
  <2>4. FoundTiersAgree'
    BY <2>1, <2>2 DEF FoundTiersAgree, TierIsOf
  <2>5. StoredWerePlayed'
    <3>1. Stored' = Stored  BY DEF Stored, Row
    <3>2. \A q \in Askers : storedOf[q] \in Nat
      BY DEF DivisionsShape, DivisionsTypeOK, Numbers, NoOfficial
    <3>3. tiersKept.stored \in Nat
      BY DEF DivisionsShape, Numbers, NoOfficial
    <3> QED  BY <1>0, <2>1, <2>2, <3>1, <3>2, <3>3 DEF StoredWerePlayed
  <2>6. PartsAreAskedAgain'  BY DEF PartsAreAskedAgain, Whole
  <2>7. CopiesHoldNewest'  BY DEF CopiesHoldNewest, Held, Stored, Row
  <2> QED  BY <2>3, <2>4, <2>5, <2>6, <2>7
<1>4. ASSUME NEW form \in {"bare", "coded"}, StoreOfficial(form) PROVE DivisionsInv'
  <2> USE <1>4 DEF StoreOfficial
  <2>1. Len(official) \in OfficialNow  BY <1>0 DEF OfficialNow
  <2>2. copies \in [Copies -> [Numbers -> {"none", "bare", "coded"}]]
    BY DEF DivisionsShape, DivisionsTypeOK
  <2>3. Stored' = Stored \cup {Len(official)}
        /\ \A c \in Copies : Held(c)' = Held(c) \cup {Len(official)}
    <3>1. \A c \in Copies : Held(c)' = Held(c) \cup {Len(official)}
      BY <1>0, <2>1, <2>2 DEF Held
    <3>2. Stored' = Held("table")' \cup Held("list")'
      BY DEF Stored, Held, Row, Copies
    <3> QED  BY <3>1, <3>2, StoredIsHeld DEF Copies
  <2>4. DivisionsShape'
    BY <2>2 DEF DivisionsShape, DivisionsTypeOK, TierTypeOK
  <2>5. FoundTiersAgree'  BY DEF FoundTiersAgree, TierIsOf, OfficialNow
  <2>6. StoredWerePlayed'
    <3>1. \A q \in Askers : storedOf[q] \in Nat
      BY DEF DivisionsShape, DivisionsTypeOK, Numbers, NoOfficial
    <3>2. \A q \in Askers : Len(official) >= storedOf[q]
      BY <1>0, <3>1 DEF StoredWerePlayed
    <3>3. OfficialNow' = OfficialNow  BY DEF OfficialNow
    <3> QED  BY <2>1, <2>3, <3>2, <3>3 DEF StoredWerePlayed
  <2>7. PartsAreAskedAgain'  BY DEF PartsAreAskedAgain, Whole
  <2>8. CopiesHoldNewest'
    <3>1. \A n \in Stored : n <= Len(official) /\ n \in Nat
      BY <1>0 DEF StoredWerePlayed, OfficialNow
    <3> QED  BY <1>0, <2>3, <3>1 DEF CopiesHoldNewest
  <2> QED  BY <2>4, <2>5, <2>6, <2>7, <2>8
<1>5. ASSUME NEW c \in Copies, LoseOfficial(c) PROVE DivisionsInv'
  <2> USE <1>5 DEF LoseOfficial
  <2>1. PICK d \in Copies : d # c /\ Copies = {c, d}  BY DEF Copies
  <2>2. copies \in [Copies -> [Numbers -> {"none", "bare", "coded"}]]
    BY DEF DivisionsShape, DivisionsTypeOK
  <2>3. Held(c)' = {} /\ Held(d)' = Held(d)  BY <2>1, <2>2 DEF Held
  <2>4. Stored' = Held(d) /\ Held(d) \subseteq Stored
    <3>1. Stored' = Held("table")' \cup Held("list")'
      BY DEF Stored, Held, Row, Copies
    <3> QED  BY <2>1, <2>3, <3>1, StoredIsHeld DEF Copies
  <2>a. /\ \A m \in Held(d) : m \in Stored
        /\ \A m \in Stored : m \in Nat
        /\ \A q \in Askers : storedOf[q] \in Nat
    <3>1. Stored \subseteq Numbers /\ Numbers \subseteq Nat  BY DEF Stored, Numbers
    <3>2. \A q \in Askers : storedOf[q] \in Nat
      BY DEF DivisionsShape, DivisionsTypeOK, Numbers, NoOfficial
    <3> QED  BY <2>4, <3>1, <3>2
  <2>5. DivisionsShape'
    BY <2>2 DEF DivisionsShape, DivisionsTypeOK, TierTypeOK
  <2>6. FoundTiersAgree'  BY DEF FoundTiersAgree, TierIsOf, OfficialNow
  <2>7. StoredWerePlayed'
    <3>1. OfficialNow' = OfficialNow  BY DEF OfficialNow
    <3>2. ASSUME NEW q \in Askers, tiersAt[q] \in {"names", "rows"}, Stored' # {}
          PROVE  \E m \in Stored' : m >= storedOf[q]
      <4>1. PICK n \in Stored : n >= storedOf[q]
        BY <2>4, <3>2 DEF StoredWerePlayed
      <4>2. PICK m \in Held(d) : m >= n  BY <2>4, <3>2 DEF CopiesHoldNewest
      <4>3. m \in Nat /\ n \in Nat /\ storedOf[q] \in Nat
        BY <2>a
      <4> QED  BY <2>4, <4>1, <4>2, <4>3
    <3> QED  BY <2>4, <3>1, <3>2 DEF StoredWerePlayed
  <2>8. PartsAreAskedAgain'  BY DEF PartsAreAskedAgain, Whole
  <2>9. CopiesHoldNewest'
    <3>1. \A n \in Stored' : n \in Held(d) /\ n >= n  BY <2>4, <2>a
    <3> QED  BY <2>1, <2>3, <3>1 DEF CopiesHoldNewest
  <2> QED  BY <2>5, <2>6, <2>7, <2>8, <2>9
<1>6. CASE TiersAge
  <2> USE <1>6 DEF TiersAge
  <2>1. tiersKept' \in {tiersKept, NothingKept}  OBVIOUS
  <2>2. /\ NothingKept \in [tiers : TierRecords, stored : {NoOfficial} \cup Numbers]
        /\ NothingKept.tiers = NoTiers /\ NothingKept.stored = 0
    BY NoTiersKnown DEF NothingKept, NoOfficial
  <2>3. DivisionsShape'
    <3>1. tiersKept' \in [tiers : TierRecords, stored : {NoOfficial} \cup Numbers]
      BY <2>1, <2>2 DEF DivisionsShape
    <3>2. /\ TierTypeOK(tiersKept.tiers)' /\ (tiersKept.stored \in {NoOfficial} \cup Numbers)'
          /\ \A p \in Askers : TierTypeOK(tiers[p])'
      BY <3>1, TierShapes DEF DivisionsShape, DivisionsTypeOK, TierTypeOK
    <3>3. tiersLeft' \in 0..(WholeLasts + PartLasts)
      BY DEF DivisionsShape, DivisionsTypeOK
    <3> QED  BY <3>1, <3>2, <3>3 DEF DivisionsShape, DivisionsTypeOK
  <2>4. FoundTiersAgree'
    <3>1. TierIsOf(tiersKept.tiers, tiersKept.stored)'
      BY <2>1, <2>2, NoTiersKnown DEF FoundTiersAgree, TierIsOf, OfficialNow
    <3> QED  BY <3>1 DEF FoundTiersAgree, TierIsOf, OfficialNow
  <2>5. StoredWerePlayed'
    BY <1>0, <2>1, <2>2 DEF StoredWerePlayed, Stored, Row, OfficialNow
  <2>6. PartsAreAskedAgain'
    BY DEF PartsAreAskedAgain, Whole, DivisionsShape, DivisionsTypeOK
  <2>7. CopiesHoldNewest'  BY DEF CopiesHoldNewest, Held, Stored, Row
  <2> QED  BY <2>3, <2>4, <2>5, <2>6, <2>7
<1>7. CASE NamesExpire
  <2> USE <1>7 DEF NamesExpire
  <2>1. DivisionsShape'  BY DEF DivisionsShape, DivisionsTypeOK, TierTypeOK
  <2>2. FoundTiersAgree'  BY DEF FoundTiersAgree, TierIsOf, OfficialNow
  <2>3. StoredWerePlayed'  BY DEF StoredWerePlayed, Stored, Row, OfficialNow
  <2>4. PartsAreAskedAgain'  BY DEF PartsAreAskedAgain, Whole
  <2>5. CopiesHoldNewest'  BY DEF CopiesHoldNewest, Held, Stored, Row
  <2> QED  BY <2>1, <2>2, <2>3, <2>4, <2>5
<1> QED
  BY <1>1, <1>2, <1>3, <1>4, <1>5, <1>6, <1>7, RequestSteps DEF DivisionsNext

LEMMA DivisionsHold == DivisionsInv => TiersAreTrue
BY DEF DivisionsInv, TiersAreTrue, ShownTiersAgree, FoundTiersAgree, TierIsOf

-----------------------------------------------------------------------------
(* MatchViews, CoachingAdvice, DomainScores: what their lists are made of *)

LEMMA ViewsKeepTypes == ViewsTypeOK /\ [ViewsNext]_played => ViewsTypeOK'
<1> SUFFICES ASSUME ViewsTypeOK, [ViewsNext]_played PROVE ViewsTypeOK'
  OBVIOUS
<1>1. ASSUME NEW kind \in Kinds, Play(kind) PROVE ViewsTypeOK'
  <2>1. played \in Seq(Kinds) /\ played' = Append(played, kind) /\ Len(played) < MaxMatches
    BY <1>1 DEF ViewsTypeOK, Play
  <2>2. played' \in Seq(Kinds) /\ Len(played') = Len(played) + 1
    BY <2>1, AppendProperties
  <2> QED
    BY <2>1, <2>2, LenProperties, MatchesAssumption DEF ViewsTypeOK
<1>2. CASE UNCHANGED played
  BY <1>2 DEF ViewsTypeOK
<1> QED
  BY <1>1, <1>2 DEF ViewsNext

\* A decline has a score of at least twice the margin, so scores are naturals.
LEMMA AdviceKeepsTypes == AdviceTypeOK /\ [AdviceNext]_adviceVars => AdviceTypeOK'
<1> SUFFICES ASSUME AdviceTypeOK, [AdviceNext]_adviceVars PROVE AdviceTypeOK'
  OBVIOUS
<1> USE LevelsAssumption
<1>1. ASSUME NEW family \in Families, NEW direction, NEW v \in Levels,
             FindDifference(family, direction, v)
      PROVE  AdviceTypeOK'
  <2> DEFINE f == [family |-> family,
                   status |-> IF (v > Middle) = (direction = "higher")
                              THEN "strength" ELSE "weakness",
                   score |-> Distance(v, Middle)]
  <2>1. Distance(v, Middle) \in Nat  BY DEF Distance
  <2>2. f \in Findings  BY <2>1 DEF Findings
  <2>3. findings \in Seq(Findings) /\ findings' = Append(findings, f)
    BY <1>1 DEF FindDifference, AdviceTypeOK
  <2>4. findings' \in Seq(Findings)
    <3> HIDE DEF f
    <3> QED  BY <2>2, <2>3, AppendProperties
  <2> QED  BY <1>1, <2>4 DEF FindDifference, AdviceTypeOK
<1>2. ASSUME NEW code \in Families, NEW mode \in {50, 60}, NEW now \in Levels,
             NEW before \in Levels, FindDecline(code, mode, now, before)
      PROVE  AdviceTypeOK'
  <2> DEFINE d == [code |-> code, mode |-> mode, score |-> before - now]
  <2>1. now + Margin < before - Margin  BY <1>2 DEF FindDecline, CompareRates
  <2>2. before - now \in Nat  BY <2>1
  <2>3. d \in Declines  BY <2>2 DEF Declines
  <2>4. declines \in Seq(Declines) /\ declines' = Append(declines, d)
    BY <1>2 DEF FindDecline, AdviceTypeOK
  <2>5. declines' \in Seq(Declines)
    <3> HIDE DEF d
    <3> QED  BY <2>3, <2>4, AppendProperties
  <2> QED  BY <1>2, <2>5 DEF FindDecline, AdviceTypeOK
<1>3. CASE UNCHANGED adviceVars
  BY <1>3 DEF adviceVars, AdviceTypeOK
<1> QED
  BY <1>1, <1>2, <1>3 DEF AdviceNext

\* Entries of a list have scores.
HaveScores(e) == \A k \in DOMAIN e : k \in Nat /\ e[k].score \in Nat

\* Ahead is a strict order, and total.
LEMMA AheadOrders ==
    ASSUME NEW e, HaveScores(e)
    PROVE  \A i, j, k \in DOMAIN e :
              /\ Ahead(e, i, j) /\ Ahead(e, j, k) => Ahead(e, i, k)
              /\ ~ (Ahead(e, i, j) /\ Ahead(e, j, i))
              /\ i = j \/ Ahead(e, i, j) \/ Ahead(e, j, i)
BY DEF HaveScores, Ahead

\* Of some entries one comes first.
LEMMA FirstEntry ==
    ASSUME NEW e, HaveScores(e), NEW S \in SUBSET DOMAIN e, IsFiniteSet(S), S # {}
    PROVE  \E k \in S : \A j \in S : j = k \/ Ahead(e, k, j)
<1> DEFINE V == {e[k].score : k \in S}
<1>1. V \in SUBSET Nat /\ V # {}
  BY DEF HaveScores
<1>2. IsFiniteSet(V)
  <2> DEFINE f == [k \in S |-> e[k].score]
  <2>1. f \in Surjection(S, V)
    BY DEF Surjection
  <2> HIDE DEF f, V
  <2> QED
    BY <2>1, FS_Surjection
<1>3. PICK most \in V : \A v \in V : v <= most
  <2> HIDE DEF V
  <2> QED
    BY <1>1, <1>2, GreatestOfFinite
<1> DEFINE B == {k \in S : e[k].score = most}
<1>4. B \in SUBSET Nat /\ B # {}
  BY DEF HaveScores
<1>5. PICK k \in B : \A j \in B : k <= j
  <2> HIDE DEF B
  <2> QED
    BY <1>4, LeastNatural
<1>6. ASSUME NEW j \in S, j # k PROVE Ahead(e, k, j)
  <2>1. e[j].score <= most /\ e[k].score = most /\ e[j].score \in Nat /\ most \in Nat
    BY <1>3 DEF HaveScores
  <2>2. j \in Nat /\ k \in Nat
    BY DEF HaveScores
  <2>3. e[j].score = most => k <= j
    BY <1>5
  <2> QED
    BY <1>6, <2>1, <2>2, <2>3 DEF Ahead
<1> QED
  BY <1>6

\* And one comes last.
LEMMA LastEntry ==
    ASSUME NEW e, HaveScores(e), NEW S \in SUBSET DOMAIN e, IsFiniteSet(S), S # {}
    PROVE  \E k \in S : \A j \in S : j = k \/ Ahead(e, j, k)
<1> DEFINE V == {e[k].score : k \in S}
<1>1. V \in SUBSET Nat /\ V # {}
  BY DEF HaveScores
<1>2. PICK least \in V : \A v \in V : least <= v
  <2> HIDE DEF V
  <2> QED
    BY <1>1, LeastNatural
<1> DEFINE B == {k \in S : e[k].score = least}
<1>3. B \in SUBSET Nat /\ B # {} /\ IsFiniteSet(B)
  BY FS_Subset DEF HaveScores
<1>4. PICK k \in B : \A j \in B : j <= k
  <2> HIDE DEF B
  <2> QED
    BY <1>3, GreatestOfFinite
<1>5. ASSUME NEW j \in S, j # k PROVE Ahead(e, j, k)
  <2>1. least <= e[j].score /\ e[k].score = least /\ e[j].score \in Nat /\ least \in Nat
    BY <1>2 DEF HaveScores
  <2>2. j \in Nat /\ k \in Nat
    BY DEF HaveScores
  <2>3. e[j].score = least => j <= k
    BY <1>4
  <2> QED
    BY <1>5, <2>1, <2>2, <2>3 DEF Ahead
<1> QED
  BY <1>5

AheadOf(e, S, k) == {j \in S : Ahead(e, j, k)}

\* A cut keeps no more than Limit entries.
LEMMA FewAreKept ==
    ASSUME NEW e, HaveScores(e), NEW S \in SUBSET DOMAIN e, IsFiniteSet(S)
    PROVE  Cardinality(FirstFew(e, S)) <= Limit
<1> USE LimitAssumption
<1> DEFINE F == FirstFew(e, S)
<1>1. F \subseteq S /\ IsFiniteSet(F) /\ Cardinality(F) \in Nat
  <2>1. F \subseteq S
    BY DEF FirstFew
  <2> QED
    BY <2>1, FS_Subset, FS_CardinalityType
<1>2. CASE F = {}
  <2>1. Cardinality(F) = 0
    BY <1>2, FS_EmptySet
  <2> QED
    BY <2>1
<1>3. CASE F # {}
  <2>1. PICK l \in F : \A j \in F : j = l \/ Ahead(e, j, l)
    <3>1. F \in SUBSET DOMAIN e
      BY <1>1
    <3> HIDE DEF F
    <3> QED
      BY <1>1, <1>3, <3>1, LastEntry
  <2>2. Cardinality(AheadOf(e, S, l)) < Limit
    BY DEF FirstFew, AheadOf
  <2>3. F \ {l} \subseteq AheadOf(e, S, l)
    BY <1>1, <2>1 DEF AheadOf
  <2>4. IsFiniteSet(AheadOf(e, S, l))
    BY FS_Subset DEF AheadOf
  <2> HIDE DEF F
  <2>5. Cardinality(F \ {l}) <= Cardinality(AheadOf(e, S, l))
    BY <2>3, <2>4, FS_Subset
  <2>6. Cardinality(F \ {l}) = Cardinality(F) - 1
    BY <1>1, <2>1, FS_RemoveElement
  <2>7. Cardinality(AheadOf(e, S, l)) \in Nat
    BY <2>4, FS_CardinalityType
  <2>8. Cardinality(F) <= Limit
    BY <1>1, <2>2, <2>5, <2>6, <2>7
  <2> QED
    BY <2>8 DEF F
<1> QED
  BY <1>2, <1>3

\* If Limit entries are ahead of k, a cut keeps Limit, and all that it keeps are
\* ahead of k.
LEMMA CutIsFull ==
    ASSUME NEW e, HaveScores(e), NEW S \in SUBSET DOMAIN e, IsFiniteSet(S),
           NEW k \in DOMAIN e, Limit <= Cardinality(AheadOf(e, S, k))
    PROVE  /\ Cardinality(FirstFew(e, S)) = Limit
           /\ \A j \in FirstFew(e, S) : Ahead(e, j, k)
<1> USE LimitAssumption
<1> DEFINE F == FirstFew(e, S)
<1>1. \A j \in S : j \in F <=> Cardinality(AheadOf(e, S, j)) < Limit
  BY DEF FirstFew, AheadOf
<1>2. F \subseteq S /\ IsFiniteSet(F) /\ Cardinality(F) \in Nat
  <2>1. F \subseteq S
    BY DEF FirstFew
  <2> QED
    BY <2>1, FS_Subset, FS_CardinalityType
<1>3. Cardinality(F) <= Limit
  BY FewAreKept
<1>4. \A j \in DOMAIN e : IsFiniteSet(AheadOf(e, S, j)) /\ Cardinality(AheadOf(e, S, j)) \in Nat
  <2>1. \A j \in DOMAIN e : IsFiniteSet(AheadOf(e, S, j))
    BY FS_Subset DEF AheadOf
  <2> QED
    BY <2>1, FS_CardinalityType
<1> HIDE DEF F
<1>5. ASSUME NEW j \in F PROVE Ahead(e, j, k)
  <2>1. SUFFICES ASSUME ~ Ahead(e, j, k) PROVE FALSE
    OBVIOUS
  <2>2. AheadOf(e, S, k) \subseteq AheadOf(e, S, j)
    <3>1. j \in DOMAIN e
      BY <1>2
    <3>2. j = k \/ Ahead(e, k, j)
      BY <2>1, <3>1, AheadOrders
    <3> QED
      BY <3>1, <3>2, AheadOrders DEF AheadOf
  <2>3. j \in S /\ j \in DOMAIN e
    BY <1>2
  <2>4. Cardinality(AheadOf(e, S, k)) <= Cardinality(AheadOf(e, S, j))
    BY <1>4, <2>2, <2>3, FS_Subset
  <2> QED
    BY <1>1, <1>4, <2>3, <2>4
<1>6. ASSUME Cardinality(F) < Limit PROVE FALSE
  <2> DEFINE R == S \ F
  <2>1. R # {}
    <3>1. SUFFICES ASSUME S = F PROVE FALSE
      BY <1>2
    <3>2. AheadOf(e, S, k) \subseteq F
      BY <3>1 DEF AheadOf
    <3>3. Cardinality(AheadOf(e, S, k)) <= Cardinality(F)
      BY <1>2, <3>2, FS_Subset
    <3> QED
      BY <1>2, <1>4, <1>6, <3>3
  <2>2. R \in SUBSET DOMAIN e /\ IsFiniteSet(R)
    BY FS_Subset
  <2>3. PICK i \in R : \A j \in R : j = i \/ Ahead(e, i, j)
    <3> HIDE DEF R
    <3> QED
      BY <2>1, <2>2, FirstEntry
  <2>4. i \in S /\ i \notin F /\ i \in DOMAIN e
    OBVIOUS
  <2>5. AheadOf(e, S, i) \subseteq F
    <3>1. SUFFICES ASSUME NEW j \in S, Ahead(e, j, i), j \notin F PROVE FALSE
      BY DEF AheadOf
    <3>2. j \in R /\ j \in DOMAIN e
      BY <3>1
    <3>3. j = i \/ Ahead(e, i, j)
      BY <2>3, <3>2
    <3> QED
      BY <2>4, <3>1, <3>2, <3>3, AheadOrders
  <2>6. Cardinality(AheadOf(e, S, i)) <= Cardinality(F)
    BY <1>2, <2>5, FS_Subset
  <2> QED
    BY <1>1, <1>2, <1>4, <1>6, <2>4, <2>6
<1>7. Cardinality(F) = Limit
  BY <1>2, <1>3, <1>6
<1> QED
  BY <1>5, <1>7 DEF F

\* What a cut drops is behind Limit entries that it keeps.
LEMMA DroppedIsCovered ==
    ASSUME NEW e, HaveScores(e), NEW S \in SUBSET DOMAIN e, IsFiniteSet(S),
           NEW k \in S, k \notin FirstFew(e, S)
    PROVE  /\ Limit <= Cardinality(AheadOf(e, S, k))
           /\ Cardinality(FirstFew(e, S)) = Limit
           /\ \A j \in FirstFew(e, S) : Ahead(e, j, k)
<1> USE LimitAssumption
<1>1. Cardinality(AheadOf(e, S, k)) \in Nat
  <2>1. IsFiniteSet(AheadOf(e, S, k))
    BY FS_Subset DEF AheadOf
  <2> QED
    BY <2>1, FS_CardinalityType
<1>2. ~ Cardinality(AheadOf(e, S, k)) < Limit
  BY DEF FirstFew, AheadOf
<1>3. Limit <= Cardinality(AheadOf(e, S, k))
  BY <1>1, <1>2
<1>4. k \in DOMAIN e
  OBVIOUS
<1> QED
  BY <1>3, <1>4, CutIsFull

\* The first entry with the key of k is kept for it, and no other one is.
LEMMA FirstOfKey ==
    ASSUME NEW e, HaveScores(e), NEW S \in SUBSET DOMAIN e, IsFiniteSet(S), NEW key
    PROVE  /\ \A k \in S : \E f \in FirstOfEach(e, S, key) :
                 key[f] = key[k] /\ (f = k \/ Ahead(e, f, k))
           /\ \A j, k \in FirstOfEach(e, S, key) : key[j] = key[k] => j = k
<1>1. ASSUME NEW k \in S
      PROVE  \E f \in FirstOfEach(e, S, key) : key[f] = key[k] /\ (f = k \/ Ahead(e, f, k))
  <2> DEFINE T == {j \in S : key[j] = key[k]}
  <2>1. T \in SUBSET DOMAIN e /\ IsFiniteSet(T) /\ k \in T
    BY FS_Subset
  <2>2. PICK f \in T : \A j \in T : j = f \/ Ahead(e, f, j)
    <3> HIDE DEF T
    <3> QED
      BY <2>1, FirstEntry
  <2>3. f \in FirstOfEach(e, S, key)
    BY <2>1, <2>2, AheadOrders DEF FirstOfEach
  <2> QED
    BY <2>1, <2>2, <2>3
<1>2. ASSUME NEW j \in FirstOfEach(e, S, key), NEW k \in FirstOfEach(e, S, key), key[j] = key[k]
      PROVE  j = k
  <2>1. j \in DOMAIN e /\ k \in DOMAIN e /\ j \in S /\ k \in S
    BY DEF FirstOfEach
  <2> QED
    BY <1>2, <2>1, AheadOrders DEF FirstOfEach
<1> QED
  BY <1>1, <1>2

\* The scores of findings and declines, and their places.
LEMMA AdviceEntries ==
    ASSUME AdviceTypeOK
    PROVE  /\ HaveScores(findings) /\ HaveScores(declines)
           /\ \A S \in SUBSET DOMAIN findings : IsFiniteSet(S)
           /\ \A S \in SUBSET DOMAIN declines : IsFiniteSet(S)
<1>1. /\ Len(findings) \in Nat /\ DOMAIN findings = 1..Len(findings)
      /\ Len(declines) \in Nat /\ DOMAIN declines = 1..Len(declines)
      /\ \A k \in 1..Len(findings) : findings[k] \in Findings
      /\ \A k \in 1..Len(declines) : declines[k] \in Declines
  BY DEF AdviceTypeOK
<1>2. IsFiniteSet(DOMAIN findings) /\ IsFiniteSet(DOMAIN declines)
  BY <1>1, FS_Interval
<1>3. HaveScores(findings)
  BY <1>1 DEF HaveScores, Findings
<1>4. HaveScores(declines)
  BY <1>1 DEF HaveScores, Declines
<1> QED
  BY <1>2, <1>3, <1>4, FS_Subset

\* An entry ahead of another is at least as large.
LEMMA AheadIsLarger ==
    ASSUME NEW e, HaveScores(e), NEW j \in DOMAIN e, NEW k \in DOMAIN e, j = k \/ Ahead(e, j, k)
    PROVE  e[j].score >= e[k].score
BY DEF HaveScores, Ahead

LEMMA AdviceIsWorst == AdviceTypeOK => AdviceIsOfWorst
<1> SUFFICES ASSUME AdviceTypeOK PROVE AdviceIsOfWorst
  OBVIOUS
<1> DEFINE P == {k \in ChosenWeaknesses : findings[k].family \in Planned}
<1>1. HaveScores(findings) /\ \A S \in SUBSET DOMAIN findings : IsFiniteSet(S)
  BY AdviceEntries
<1>2. P \subseteq Chosen /\ Chosen \subseteq DOMAIN findings /\ Advice \subseteq P
  BY DEF ChosenWeaknesses, Chosen, FirstOfEach, Advice, FirstFew
<1>3. P \in SUBSET DOMAIN findings /\ IsFiniteSet(P)
  BY <1>1, <1>2
<1>4. ASSUME NEW k \in DOMAIN findings, findings[k].status = "weakness",
             findings[k].family \in Planned
      PROVE  Covers(findings, Advice, SameFamily(k), k)
  <2>1. PICK f \in Chosen : Subject[f] = Subject[k] /\ (f = k \/ Ahead(findings, f, k))
    BY <1>1, FirstOfKey DEF Chosen
  <2>2. f \in DOMAIN findings /\ findings[f].status = findings[k].status
        /\ findings[f].family = findings[k].family
    BY <1>2, <2>1 DEF Subject
  <2>3. f \in P
    BY <1>4, <2>1, <2>2 DEF ChosenWeaknesses
  <2>4. CASE f \in Advice
    <3>1. findings[f].score >= findings[k].score
      BY <1>1, <2>1, <2>2, AheadIsLarger
    <3>2. f \in SameFamily(k)
      BY <2>2 DEF SameFamily
    <3> QED
      BY <2>4, <3>1, <3>2 DEF Covers
  <2>5. CASE f \notin Advice
    <3> HIDE DEF P
    <3>1. Advice = FirstFew(findings, P)
      BY DEF Advice, P
    <3>2. Cardinality(Advice) = Limit /\ \A j \in Advice : Ahead(findings, j, f)
      BY <1>1, <1>3, <2>3, <2>5, <3>1, DroppedIsCovered
    <3>3. ASSUME NEW j \in Advice PROVE findings[j].score >= findings[k].score
      <4>1. j \in DOMAIN findings
        BY <1>2
      <4>2. Ahead(findings, j, k)
        BY <1>1, <2>1, <2>2, <3>2, <4>1, AheadOrders
      <4> QED
        BY <1>1, <4>1, <4>2, AheadIsLarger
    <3> QED
      BY <3>2, <3>3 DEF Covers
  <2> QED
    BY <2>4, <2>5
<1>5. ASSUME NEW j \in Advice, NEW k \in Advice, j \in SameFamily(k) PROVE j = k
  <2>1. j \in Chosen /\ k \in Chosen /\ j \in DOMAIN findings /\ k \in DOMAIN findings
        /\ findings[j].status = "weakness" /\ findings[k].status = "weakness"
    BY <1>2 DEF ChosenWeaknesses
  <2>2. Subject[j] = Subject[k]
    BY <1>5, <2>1 DEF Subject, SameFamily
  <2> QED
    BY <1>1, <2>1, <2>2, FirstOfKey DEF Chosen
<1> QED
  BY <1>4, <1>5 DEF AdviceIsOfWorst

LEMMA ActionsAreWorst == AdviceTypeOK => ActionsAreOfWorst
<1> SUFFICES ASSUME AdviceTypeOK PROVE ActionsAreOfWorst
  OBVIOUS
<1> DEFINE H(m) == HistoryActions(m)
           O(m) == FirstOfEach(declines, DeclinesOf(m), Codes)
           U == HistoryActions(50) \cup HistoryActions(60)
<1>1. HaveScores(declines) /\ \A S \in SUBSET DOMAIN declines : IsFiniteSet(S)
  BY AdviceEntries
<1>2. \A m : H(m) \subseteq O(m) /\ O(m) \subseteq DeclinesOf(m) /\ DeclinesOf(m) \subseteq DOMAIN declines
  BY DEF HistoryActions, FirstFew, FirstOfEach, DeclinesOf
<1>3. U \in SUBSET DOMAIN declines /\ Actions \subseteq U
  BY <1>2 DEF Actions, FirstFew
<1>4. \A k \in DOMAIN declines : declines[k].mode \in {50, 60}
  <2>1. \A k \in 1..Len(declines) : declines[k] \in Declines
    BY DEF AdviceTypeOK
  <2>2. DOMAIN declines = 1..Len(declines)
    BY DEF AdviceTypeOK
  <2> QED
    BY <2>1, <2>2 DEF Declines
<1>5. ASSUME NEW k \in DOMAIN declines PROVE Covers(declines, Actions, SameAction(k), k)
  <2> DEFINE m == declines[k].mode
  <2>1. m \in {50, 60} /\ k \in DeclinesOf(m)
    BY <1>4 DEF DeclinesOf
  <2>2. PICK f \in O(m) : Codes[f] = Codes[k] /\ (f = k \/ Ahead(declines, f, k))
    BY <1>1, <1>2, <2>1, FirstOfKey
  <2>3. f \in DOMAIN declines /\ declines[f].mode = m /\ declines[f].code = declines[k].code
    BY <1>2, <2>2 DEF Codes, DeclinesOf
  <2>4. CASE f \in Actions
    <3>1. declines[f].score >= declines[k].score
      BY <1>1, <2>2, <2>3, AheadIsLarger
    <3>2. f \in SameAction(k)
      BY <2>3 DEF SameAction
    <3> QED
      BY <2>4, <3>1, <3>2 DEF Covers
  <2>5. CASE f \notin Actions
    <3>1. Cardinality(Actions) = Limit /\ \A j \in Actions : Ahead(declines, j, f)
      <4>1. CASE f \in H(m)
        <5>1. f \in U
          BY <2>1, <4>1
        <5> HIDE DEF U
        <5>2. Actions = FirstFew(declines, U)
          BY DEF Actions, U
        <5> QED
          BY <1>1, <1>3, <2>5, <5>1, <5>2, DroppedIsCovered
      <4>2. CASE f \notin H(m)
        <5>1. H(m) = FirstFew(declines, O(m))
          BY DEF HistoryActions
        <5>2. O(m) \in SUBSET DOMAIN declines /\ IsFiniteSet(O(m))
          BY <1>1, <1>2
        <5>3. H(m) \subseteq U
          BY <2>1
        <5> HIDE DEF H, O, U
        <5>4. Cardinality(H(m)) = Limit /\ \A j \in H(m) : Ahead(declines, j, f)
          BY <1>1, <2>2, <4>2, <5>1, <5>2, DroppedIsCovered
        <5>5. H(m) \subseteq AheadOf(declines, U, f)
          BY <5>3, <5>4 DEF AheadOf
        <5>6. IsFiniteSet(U) /\ IsFiniteSet(AheadOf(declines, U, f))
          BY <1>1, <1>3, FS_Subset DEF AheadOf
        <5>7. Limit <= Cardinality(AheadOf(declines, U, f))
          BY <5>4, <5>5, <5>6, FS_Subset
        <5>8. Actions = FirstFew(declines, U)
          BY DEF Actions, U
        <5> QED
          BY <1>1, <1>3, <2>3, <5>6, <5>7, <5>8, CutIsFull
      <4> QED
        BY <4>1, <4>2
    <3>2. ASSUME NEW j \in Actions PROVE declines[j].score >= declines[k].score
      <4>1. j \in DOMAIN declines
        BY <1>3
      <4>2. Ahead(declines, j, k)
        BY <1>1, <2>2, <2>3, <3>1, <4>1, AheadOrders
      <4> QED
        BY <1>1, <4>1, <4>2, AheadIsLarger
    <3> QED
      BY <3>1, <3>2 DEF Covers
  <2> QED
    BY <2>4, <2>5
<1>6. ASSUME NEW j \in Actions, NEW k \in Actions, j \in SameAction(k) PROVE j = k
  <2> DEFINE m == declines[k].mode
  <2>1. /\ j \in DOMAIN declines /\ k \in DOMAIN declines
        /\ declines[j].mode = m /\ declines[j].code = declines[k].code
    BY <1>3, <1>6 DEF SameAction
  <2>2. j \in O(m) /\ k \in O(m)
    <3>1. \A i \in U : i \in O(declines[i].mode)
      BY <1>2 DEF DeclinesOf
    <3> QED
      BY <1>3, <2>1, <3>1
  <2>3. Codes[j] = Codes[k]
    BY <2>1 DEF Codes
  <2>4. DeclinesOf(m) \in SUBSET DOMAIN declines /\ IsFiniteSet(DeclinesOf(m))
    BY <1>1, <1>2
  <2> QED
    BY <1>1, <2>2, <2>3, <2>4, FirstOfKey
<1> QED
  BY <1>5, <1>6 DEF ActionsAreOfWorst

LEMMA ScoresKeepTypes == ScoresTypeOK /\ [ScoresNext]_judged => ScoresTypeOK'
<1> SUFFICES ASSUME ScoresTypeOK, [ScoresNext]_judged PROVE ScoresTypeOK'
  OBVIOUS
<1>1. ASSUME NEW j \in Judgements, Judge(j) PROVE ScoresTypeOK'
  <2>1. judged \in Seq(Judgements) /\ judged' = Append(judged, j)
        /\ Len(judged) < Len(Metric)
    BY <1>1 DEF ScoresTypeOK, Judge
  <2>2. judged' \in Seq(Judgements) /\ Len(judged') = Len(judged) + 1
    BY <2>1, AppendProperties
  <2>3. Len(Metric) = 6  BY DEF Metric
  <2> QED
    BY <2>1, <2>2, <2>3, LenProperties DEF ScoresTypeOK
<1>2. CASE UNCHANGED judged
  BY <1>2 DEF ScoresTypeOK
<1> QED
  BY <1>1, <1>2 DEF ScoresNext

-----------------------------------------------------------------------------
(* MatchViews: samples, histories, trends and comparisons *)

Above(S, n) == {m \in S : m > n}
Below(S, n) == {m \in S : m < n}
Newest(S, w) == {n \in S : Cardinality(Above(S, n)) < w}

\* A list of matches, newest first.
Falling(rows) ==
    /\ rows \in Seq(Nat)
    /\ \A i, j \in 1..Len(rows) : i < j => rows[j] < rows[i]
Rising(rows) ==
    /\ rows \in Seq(Nat)
    /\ \A i, j \in 1..Len(rows) : i < j => rows[i] < rows[j]

\* What is in a list, entry by entry.
LEMMA InIs ==
    ASSUME NEW T, NEW rows \in Seq(T)
    PROVE  /\ Len(rows) \in Nat /\ DOMAIN rows = 1..Len(rows)
           /\ In(rows) = {rows[k] : k \in 1..Len(rows)}
           /\ In(rows) \subseteq T /\ \A k \in 1..Len(rows) : rows[k] \in T /\ rows[k] \in In(rows)
BY DEF In

\* The later matches of each match put a set in order.
LEMMA FallingOrder ==
    ASSUME NEW S \in SUBSET Nat
    PROVE  IsOrder(S, [n \in S |-> Above(S, n)])
<1> DEFINE ahead == [n \in S |-> Above(S, n)]
<1>1. \A k, m \in S : k \in Nat /\ (k \in ahead[m] <=> k > m)
    BY DEF Above
<1>2. \A k \in S : ahead[k] \subseteq S
    BY DEF Above
<1> HIDE DEF ahead
<1>3. \A k \in S : k \notin ahead[k]
    BY <1>1
<1>4. \A k, m \in S : k = m \/ k \in ahead[m] \/ m \in ahead[k]
    BY <1>1
<1>5. \A k, m, j \in S : m \in ahead[k] /\ j \in ahead[m] => j \in ahead[k]
    BY <1>1
<1>6. IsOrder(S, ahead)
    BY <1>2, <1>3, <1>4, <1>5 DEF IsOrder
<1> QED
    BY <1>6 DEF ahead

\* So do the earlier ones.
LEMMA RisingOrder ==
    ASSUME NEW S \in SUBSET Nat
    PROVE  IsOrder(S, [n \in S |-> Below(S, n)])
<1> DEFINE ahead == [n \in S |-> Below(S, n)]
<1>1. \A k, m \in S : k \in Nat /\ (k \in ahead[m] <=> k < m)
    BY DEF Below
<1>2. \A k \in S : ahead[k] \subseteq S
    BY DEF Below
<1> HIDE DEF ahead
<1>3. \A k \in S : k \notin ahead[k]
    BY <1>1
<1>4. \A k, m \in S : k = m \/ k \in ahead[m] \/ m \in ahead[k]
    BY <1>1
<1>5. \A k, m, j \in S : m \in ahead[k] /\ j \in ahead[m] => j \in ahead[k]
    BY <1>1
<1>6. IsOrder(S, ahead)
    BY <1>2, <1>3, <1>4, <1>5 DEF IsOrder
<1> QED
    BY <1>6 DEF ahead

\* NewestFirst lists a set by the number of later matches in it,
LEMMA NewestFirstByRank ==
    ASSUME NEW S \in SUBSET Nat
    PROVE  NewestFirst(S) = ByRank(S, [n \in S |-> Above(S, n)])
<1> DEFINE ahead == [n \in S |-> Above(S, n)]
           listed == [i \in 1..Cardinality(S) |-> CHOOSE n \in S : Cardinality(ahead[n]) = i - 1]
<1>1. \A i \in 1..Cardinality(S) :
          listed[i] = CHOOSE n \in S : Cardinality({m \in S : m > n}) = i - 1
    BY DEF Above
<1>2. listed = ByRank(S, ahead)
    BY DEF ByRank
<1> HIDE DEF ahead
<1>3. NewestFirst(S) = listed
    BY <1>1 DEF NewestFirst
<1> QED
    BY <1>2, <1>3 DEF ahead

\* and OldestFirst by the number of earlier ones.
LEMMA OldestFirstByRank ==
    ASSUME NEW S \in SUBSET Nat
    PROVE  OldestFirst(S) = ByRank(S, [n \in S |-> Below(S, n)])
<1> DEFINE ahead == [n \in S |-> Below(S, n)]
           listed == [i \in 1..Cardinality(S) |-> CHOOSE n \in S : Cardinality(ahead[n]) = i - 1]
<1>1. \A i \in 1..Cardinality(S) :
          listed[i] = CHOOSE n \in S : Cardinality({m \in S : m < n}) = i - 1
    BY DEF Below
<1>2. listed = ByRank(S, ahead)
    BY DEF ByRank
<1> HIDE DEF ahead
<1>3. OldestFirst(S) = listed
    BY <1>1 DEF OldestFirst
<1> QED
    BY <1>2, <1>3 DEF ahead

\* NewestFirst falls, holds the set and nothing else, and the i-th match has
\* i - 1 later ones.
LEMMA NewestFirstIs ==
    ASSUME NEW S \in SUBSET Nat, IsFiniteSet(S)
    PROVE  /\ Falling(NewestFirst(S)) /\ In(NewestFirst(S)) = S
           /\ Len(NewestFirst(S)) = Cardinality(S) /\ NewestFirst(S) \in Seq(S)
           /\ Cardinality(S) \in Nat
           /\ \A i \in 1..Cardinality(S) : Cardinality(Above(S, NewestFirst(S)[i])) = i - 1
<1> DEFINE listed == NewestFirst(S)
           ahead == [n \in S |-> Above(S, n)]
           c == Cardinality(S)
<1>1. IsOrder(S, ahead) /\ listed = ByRank(S, ahead)
    BY FallingOrder, NewestFirstByRank
<1>2. \A k, m \in S : m \in ahead[k] => m > k
    BY DEF Above
<1>3. \A k \in S : k \in Nat /\ ahead[k] = Above(S, k)
    OBVIOUS
<1> HIDE DEF ahead, listed, c
<1>4. /\ listed \in Seq(S) /\ Len(listed) = c
      /\ \A i \in 1..c : listed[i] \in S /\ Cardinality(ahead[listed[i]]) = i - 1
      /\ \A k \in S : /\ Cardinality(ahead[k]) + 1 \in 1..c
                      /\ listed[Cardinality(ahead[k]) + 1] = k
    BY <1>1, ListedByRank DEF c
<1>5. c \in Nat /\ \A k, m \in S : m \in ahead[k] <=> Cardinality(ahead[m]) < Cardinality(ahead[k])
    BY <1>1, RanksAre DEF c
<1>6. \A i, j \in 1..Len(listed) : i < j => listed[j] < listed[i]
    <2> SUFFICES ASSUME NEW i \in 1..c, NEW j \in 1..c, i < j PROVE listed[j] < listed[i]
        BY <1>4
    <2>1. Cardinality(ahead[listed[i]]) < Cardinality(ahead[listed[j]])
        BY <1>4, <1>5
    <2>2. listed[i] \in ahead[listed[j]]
        BY <1>4, <1>5, <2>1
    <2> QED
        BY <1>2, <1>3, <1>4, <2>2
<1>7. Falling(listed)
    <2>1. listed \in Seq(Nat)
        <3>1. \A i \in 1..c : listed[i] \in Nat
            BY <1>4
        <3> QED
            BY <1>4, <1>5, <3>1
    <2> QED
        BY <1>6, <2>1 DEF Falling
<1>8. In(listed) = S
    <2>1. In(listed) = {listed[k] : k \in 1..c} /\ In(listed) \subseteq S
        BY <1>4, InIs
    <2> QED
        BY <1>4, <2>1
<1> QED
    BY <1>3, <1>4, <1>5, <1>7, <1>8 DEF listed, c

\* OldestFirst rises, holds the set and nothing else, and has every match
\* behind the earlier ones.
LEMMA OldestFirstIs ==
    ASSUME NEW S \in SUBSET Nat, IsFiniteSet(S)
    PROVE  /\ Rising(OldestFirst(S)) /\ In(OldestFirst(S)) = S
           /\ Len(OldestFirst(S)) = Cardinality(S) /\ OldestFirst(S) \in Seq(S)
           /\ Cardinality(S) \in Nat
           /\ \A n \in S : OldestFirst(S)[Cardinality(Below(S, n)) + 1] = n
<1> DEFINE listed == OldestFirst(S)
           ahead == [n \in S |-> Below(S, n)]
           c == Cardinality(S)
<1>1. IsOrder(S, ahead) /\ listed = ByRank(S, ahead)
    BY RisingOrder, OldestFirstByRank
<1>2. \A k, m \in S : m \in ahead[k] => m < k
    BY DEF Below
<1>3. \A k \in S : ahead[k] = Below(S, k)
    OBVIOUS
<1> HIDE DEF ahead, listed, c
<1>4. /\ listed \in Seq(S) /\ Len(listed) = c
      /\ \A i \in 1..c : listed[i] \in S /\ Cardinality(ahead[listed[i]]) = i - 1
      /\ \A k \in S : /\ Cardinality(ahead[k]) + 1 \in 1..c
                      /\ listed[Cardinality(ahead[k]) + 1] = k
    BY <1>1, ListedByRank DEF c
<1>5. c \in Nat /\ \A k, m \in S : m \in ahead[k] <=> Cardinality(ahead[m]) < Cardinality(ahead[k])
    BY <1>1, RanksAre DEF c
<1>6. \A i, j \in 1..Len(listed) : i < j => listed[i] < listed[j]
    <2> SUFFICES ASSUME NEW i \in 1..c, NEW j \in 1..c, i < j PROVE listed[i] < listed[j]
        BY <1>4
    <2>1. Cardinality(ahead[listed[i]]) < Cardinality(ahead[listed[j]])
        BY <1>4, <1>5
    <2>2. listed[i] \in ahead[listed[j]]
        BY <1>4, <1>5, <2>1
    <2> QED
        BY <1>2, <1>4, <2>2
<1>7. Rising(listed)
    <2>1. listed \in Seq(Nat)
        <3>1. \A i \in 1..c : listed[i] \in Nat
            BY <1>4
        <3> QED
            BY <1>4, <1>5, <3>1
    <2> QED
        BY <1>6, <2>1 DEF Rising
<1>8. In(listed) = S
    <2>1. In(listed) = {listed[k] : k \in 1..c} /\ In(listed) \subseteq S
        BY <1>4, InIs
    <2> QED
        BY <1>4, <2>1
<1> QED
    BY <1>3, <1>4, <1>5, <1>7, <1>8 DEF listed, c

\* A falling list is the newest-first list of its matches.
LEMMA FallingIs ==
    ASSUME NEW rows, Falling(rows)
    PROVE  /\ In(rows) \in SUBSET Nat /\ IsFiniteSet(In(rows))
           /\ Cardinality(In(rows)) = Len(rows) /\ Len(rows) \in Nat
           /\ rows = NewestFirst(In(rows))
<1> DEFINE S == In(rows)
           ahead == [n \in S |-> Above(S, n)]
<1>1. rows \in Seq(Nat)
    BY DEF Falling
<1>2. /\ S = {rows[k] : k \in 1..Len(rows)} /\ S \in SUBSET Nat /\ Len(rows) \in Nat
      /\ \A k \in 1..Len(rows) : rows[k] \in S
      /\ DOMAIN rows = 1..Len(rows)
    BY <1>1, InIs
<1>3. \A k \in S : \E i \in 1..Len(rows) : rows[i] = k
    BY <1>2
<1>4. rows \in Seq(S)
    BY <1>1, <1>2
<1> HIDE DEF S
<1>5. \A i, j \in 1..Len(rows) : i < j => rows[i] \in ahead[rows[j]]
    <2> SUFFICES ASSUME NEW i \in 1..Len(rows), NEW j \in 1..Len(rows), i < j
                 PROVE  rows[i] \in ahead[rows[j]]
        OBVIOUS
    <2>1. rows[j] < rows[i] /\ rows[i] \in S /\ rows[j] \in S
        BY <1>2 DEF Falling
    <2>2. rows[i] \in Nat /\ rows[j] \in Nat
        BY <1>2, <2>1
    <2> QED
        BY <2>1, <2>2 DEF Above
<1>6. IsOrder(S, ahead)
    BY <1>2, FallingOrder
<1> HIDE DEF ahead
<1>7. IsFiniteSet(S) /\ Cardinality(S) = Len(rows) /\ rows = ByRank(S, ahead)
    BY <1>3, <1>4, <1>5, <1>6, SortedIsByRank
<1> QED
    BY <1>2, <1>7, NewestFirstByRank DEF S, ahead

\* A rising list is the set of its matches, oldest first.
LEMMA RisingIs ==
    ASSUME NEW rows, Rising(rows)
    PROVE  /\ In(rows) \in SUBSET Nat /\ IsFiniteSet(In(rows))
           /\ Cardinality(In(rows)) = Len(rows) /\ Len(rows) \in Nat
           /\ rows = OldestFirst(In(rows))
<1> DEFINE S == In(rows)
           ahead == [n \in S |-> Below(S, n)]
<1>1. rows \in Seq(Nat)
    BY DEF Rising
<1>2. /\ S = {rows[k] : k \in 1..Len(rows)} /\ S \in SUBSET Nat /\ Len(rows) \in Nat
      /\ \A k \in 1..Len(rows) : rows[k] \in S
      /\ DOMAIN rows = 1..Len(rows)
    BY <1>1, InIs
<1>3. \A k \in S : \E i \in 1..Len(rows) : rows[i] = k
    BY <1>2
<1>4. rows \in Seq(S)
    BY <1>1, <1>2
<1> HIDE DEF S
<1>5. \A i, j \in 1..Len(rows) : i < j => rows[i] \in ahead[rows[j]]
    BY <1>2 DEF Rising, Below
<1>6. IsOrder(S, ahead)
    BY <1>2, RisingOrder
<1> HIDE DEF ahead
<1>7. IsFiniteSet(S) /\ Cardinality(S) = Len(rows) /\ rows = ByRank(S, ahead)
    BY <1>3, <1>4, <1>5, <1>6, SortedIsByRank
<1> QED
    BY <1>2, <1>7, OldestFirstByRank DEF S, ahead

\* The lesser of two numbers is one of them and above neither.
LEMMA LesserIs ==
    \A m, n \in Nat : /\ Lesser(m, n) \in Nat /\ Lesser(m, n) <= m /\ Lesser(m, n) <= n
                      /\ Lesser(m, n) = m \/ Lesser(m, n) = n
BY DEF Lesser

\* The first of a falling list are the newest of its matches.
LEMMA FirstOfIs ==
    ASSUME NEW rows, Falling(rows), NEW w \in Nat
    PROVE  /\ Falling(FirstOf(rows, w)) /\ In(FirstOf(rows, w)) = Newest(In(rows), w)
           /\ Len(FirstOf(rows, w)) = Lesser(w, Len(rows))
<1> DEFINE n == Lesser(w, Len(rows))
           listed == FirstOf(rows, w)
           S == In(rows)
<1>1. /\ S \in SUBSET Nat /\ IsFiniteSet(S) /\ rows = NewestFirst(S)
      /\ Len(rows) \in Nat /\ Cardinality(S) = Len(rows) /\ rows \in Seq(Nat)
    BY FallingIs DEF Falling
<1>2. n \in 0..Len(rows) /\ n <= w /\ (n = w \/ n = Len(rows))
    <2>1. Len(rows) \in Nat
        BY <1>1
    <2>2. n \in Nat /\ n <= Len(rows) /\ n <= w /\ (n = w \/ n = Len(rows))
        BY <2>1, LesserIs
    <2> QED
        BY <2>1, <2>2
<1>3. \A i \in 1..n : i \in 1..Len(rows) /\ rows[i] \in Nat
    BY <1>1, <1>2, ElementOfSeq
<1>4. listed = [i \in 1..n |-> rows[i]] /\ listed \in Seq(Nat) /\ Len(listed) = n
    <2>1. listed = SubSeq(rows, 1, n)
        BY DEF FirstOf
    <2>2. \A i \in 1..n : (1 + i) - 1 = i
        BY <1>2
    <2> HIDE DEF n, listed
    <2> QED
        BY <1>1, <1>2, <1>3, <2>1, <2>2
<1> HIDE DEF n, listed
<1>5. Falling(listed)
    BY <1>3, <1>4 DEF Falling
<1>6. \A i \in 1..Len(rows) : rows[i] \in S /\ Cardinality(Above(S, rows[i])) = i - 1
    BY <1>1, NewestFirstIs, InIs
<1>7. In(listed) = {rows[i] : i \in 1..n}
    <2>1. In(listed) = {listed[i] : i \in 1..n}
        <3>1. Len(listed) = n /\ listed \in Seq(Nat)
            BY <1>4
        <3> QED
            BY <3>1, InIs
    <2>2. \A i \in 1..n : listed[i] = rows[i]
        BY <1>4
    <2> QED
        BY <2>1, <2>2
<1>8. S = {rows[i] : i \in 1..Len(rows)}
    BY <1>1, InIs
<1> HIDE DEF S
<1>9. In(listed) = Newest(S, w)
    <2>1. \A i \in 1..Len(rows) : rows[i] \in Newest(S, w) <=> i - 1 < w
        BY <1>6 DEF Newest
    <2>2. \A i \in 1..Len(rows) : i - 1 < w <=> i \in 1..n
        BY <1>1, <1>2
    <2>3. Newest(S, w) \subseteq S
        BY DEF Newest
    <2> QED
        BY <1>3, <1>7, <1>8, <2>1, <2>2, <2>3
<1> QED
    BY <1>4, <1>5, <1>9 DEF listed, n, S

\* What is in T of a falling list is falling.
LEMMA ThoseAre ==
    ASSUME NEW rows, Falling(rows), NEW T
    PROVE  /\ Falling(Those(rows, T)) /\ In(Those(rows, T)) = In(rows) \cap T
<1> DEFINE P == {k \in DOMAIN rows : rows[k] \in T}
           places == OldestFirst(P)
           listed == Those(rows, T)
           c == Cardinality(P)
<1>1. rows \in Seq(Nat) /\ Len(rows) \in Nat /\ DOMAIN rows = 1..Len(rows)
    BY InIs DEF Falling
<1>2. P \in SUBSET Nat /\ IsFiniteSet(P)
    <2>1. IsFiniteSet(1..Len(rows)) /\ P \subseteq 1..Len(rows)
        BY <1>1, FS_Interval
    <2>2. IsFiniteSet(P)
        <3> HIDE DEF P
        <3> QED
            BY <2>1, FS_Subset
    <2> QED
        BY <1>1, <2>2
<1>3. \A k \in P : k \in 1..Len(rows) /\ rows[k] \in T
    BY <1>1
<1>4. listed = [k \in DOMAIN places |-> rows[places[k]]]
    BY DEF Those
<1>9. \A k \in 1..Len(rows) : rows[k] \in T => k \in P
    BY <1>1
<1> HIDE DEF P
<1>5. /\ Rising(places) /\ In(places) = P /\ Len(places) = c /\ places \in Seq(P) /\ c \in Nat
    BY <1>2, OldestFirstIs
<1> HIDE DEF listed, places, c
<1>6. DOMAIN places = 1..c /\ P = {places[k] : k \in 1..c} /\ \A k \in 1..c : places[k] \in P
    BY <1>5, InIs
<1>7. listed = [k \in 1..c |-> rows[places[k]]] /\ listed \in Seq(Nat) /\ Len(listed) = c
    <2>1. \A k \in 1..c : rows[places[k]] \in Nat
        BY <1>1, <1>3, <1>6
    <2> QED
        BY <1>4, <1>5, <1>6, <2>1
<1>8. Falling(listed)
    <2>1. \A i, j \in 1..c : i < j => places[i] < places[j]
        BY <1>5 DEF Rising
    <2>2. \A i, j \in 1..c : i < j => rows[places[j]] < rows[places[i]]
        BY <1>3, <1>6, <2>1 DEF Falling
    <2> QED
        BY <1>7, <2>2 DEF Falling
<1>10. In(listed) = {rows[places[k]] : k \in 1..c}
    <2>1. In(listed) = {listed[i] : i \in 1..c}
        <3>1. Len(listed) = c /\ listed \in Seq(Nat)
            BY <1>7
        <3> QED
            BY <3>1, InIs
    <2>2. \A i \in 1..c : listed[i] = rows[places[i]]
        BY <1>7
    <2> QED
        BY <2>1, <2>2
<1>11. In(rows) = {rows[k] : k \in 1..Len(rows)}
    BY <1>1, InIs
<1>12. In(listed) = In(rows) \cap T
    BY <1>3, <1>6, <1>9, <1>10, <1>11
<1> QED
    BY <1>8, <1>12 DEF listed

\* There are finitely many later matches, and no more in any part of them.
LEMMA AboveAre ==
    ASSUME NEW S \in SUBSET Nat, IsFiniteSet(S), NEW n
    PROVE  /\ IsFiniteSet(Above(S, n)) /\ Cardinality(Above(S, n)) \in Nat
           /\ \A T \in SUBSET Above(S, n) :
                 /\ IsFiniteSet(T) /\ Cardinality(T) \in Nat
                 /\ Cardinality(T) <= Cardinality(Above(S, n))
<1>1. Above(S, n) \in SUBSET S
    BY DEF Above
<1>2. IsFiniteSet(Above(S, n))
    BY <1>1, FS_Subset
<1> QED
    BY <1>2, FS_Subset, FS_CardinalityType

\* The newest matches of a set are as many as asked for, or all, and none is
\* newer than they are.
LEMMA NewestAre ==
    ASSUME NEW S \in SUBSET Nat, IsFiniteSet(S), NEW w \in Nat
    PROVE  /\ Newest(S, w) \in SUBSET S /\ IsFiniteSet(Newest(S, w))
           /\ Cardinality(S) \in Nat
           /\ Cardinality(Newest(S, w)) = Lesser(w, Cardinality(S))
           /\ \A k \in Newest(S, w), m \in S : k < m => m \in Newest(S, w)
           /\ Cardinality(S) <= w => Newest(S, w) = S
<1> DEFINE ahead == [n \in S |-> Above(S, n)]
           first == {k \in S : Cardinality(ahead[k]) < w}
<1>1. Newest(S, w) \in SUBSET S /\ IsFiniteSet(Newest(S, w)) /\ Cardinality(S) \in Nat
    BY FS_Subset, FS_CardinalityType DEF Newest
<1>2. first = Newest(S, w)
    BY DEF Newest
<1>3. IsOrder(S, ahead)
    BY FallingOrder
<1>4. \A k \in S : Cardinality(Above(S, k)) \in 0..(Cardinality(S) - 1)
    <2>1. \A k \in S : ahead[k] = Above(S, k)
        OBVIOUS
    <2> HIDE DEF ahead
    <2> QED
        BY <1>3, <2>1, RanksAre
<1> HIDE DEF ahead
<1>5. Cardinality(first) = IF w <= Cardinality(S) THEN w ELSE Cardinality(S)
    BY <1>3, FirstByRank
<1>6. Cardinality(Newest(S, w)) = Lesser(w, Cardinality(S))
    BY <1>1, <1>2, <1>5 DEF Lesser
<1>7. ASSUME NEW k \in Newest(S, w), NEW m \in S, k < m PROVE m \in Newest(S, w)
    <2>1. k \in S /\ k \in Nat /\ m \in Nat /\ Cardinality(Above(S, k)) < w
        BY DEF Newest
    <2>2. Above(S, m) \in SUBSET Above(S, k)
        <3>1. \A j \in Above(S, m) : j \in S /\ j > m /\ j \in Nat
            BY DEF Above
        <3>2. \A j \in Above(S, m) : j \in S /\ j > k
            BY <1>7, <2>1, <3>1
        <3> QED
            BY <3>2 DEF Above
    <2>3. /\ Cardinality(Above(S, m)) <= Cardinality(Above(S, k))
          /\ Cardinality(Above(S, m)) \in Nat /\ Cardinality(Above(S, k)) \in Nat
        BY <2>2, AboveAre
    <2> QED
        BY <2>1, <2>3 DEF Newest
<1>8. ASSUME Cardinality(S) <= w PROVE Newest(S, w) = S
    <2>1. \A k \in S : Cardinality(Above(S, k)) < w
        BY <1>1, <1>4, <1>8
    <2> QED
        BY <2>1 DEF Newest
<1> QED
    BY <1>1, <1>6, <1>7, <1>8

\* The newest of a set are those of any part that has them all.
LEMMA NewestOfPart ==
    ASSUME NEW S \in SUBSET Nat, IsFiniteSet(S), NEW U \in SUBSET S, NEW w \in Nat,
           Newest(S, w) \subseteq U
    PROVE  Newest(U, w) = Newest(S, w)
<1>1. U \in SUBSET Nat /\ IsFiniteSet(U)
    BY FS_Subset
<1>2. ASSUME NEW k \in Newest(S, w) PROVE k \in Newest(U, w)
    <2>1. Above(U, k) \in SUBSET Above(S, k)
        BY DEF Above
    <2>2. Cardinality(Above(U, k)) <= Cardinality(Above(S, k)) /\ Cardinality(Above(S, k)) < w
          /\ Cardinality(Above(U, k)) \in Nat /\ Cardinality(Above(S, k)) \in Nat
        BY <1>1, <2>1, AboveAre DEF Newest
    <2> QED
        BY <2>2 DEF Newest
<1>3. ASSUME NEW k \in Newest(U, w), k \notin Newest(S, w) PROVE FALSE
    <2>1. k \in U /\ k \in S /\ k \in Nat /\ Cardinality(Above(U, k)) < w
        BY DEF Newest
    <2>2. /\ Newest(S, w) \in SUBSET S /\ Cardinality(S) \in Nat
          /\ Cardinality(Newest(S, w)) = Lesser(w, Cardinality(S))
          /\ \A j \in Newest(S, w), m \in S : j < m => m \in Newest(S, w)
          /\ Cardinality(S) <= w => Newest(S, w) = S
        BY NewestAre
    <2>3. Cardinality(Newest(S, w)) = w
        BY <1>3, <2>1, <2>2 DEF Lesser
    <2>4. Newest(S, w) \in SUBSET Above(U, k)
        <3>1. \A j \in Newest(S, w) : j \in Nat /\ j \in U /\ ~(j < k) /\ j # k
            BY <1>3, <2>1, <2>2
        <3>2. \A j \in Newest(S, w) : j \in U /\ j > k
            BY <2>1, <3>1
        <3> QED
            BY <3>2 DEF Above
    <2>5. w <= Cardinality(Above(U, k)) /\ Cardinality(Above(U, k)) \in Nat
        BY <1>1, <2>3, <2>4, AboveAre
    <2> QED
        BY <2>1, <2>5
<1> QED
    BY <1>2, <1>3

\* A part above which nothing is left out are the newest.
LEMMA UpperAreNewest ==
    ASSUME NEW S \in SUBSET Nat, IsFiniteSet(S), NEW T \in SUBSET S,
           \A k \in T, m \in S : k < m => m \in T
    PROVE  T = Newest(S, Cardinality(T)) /\ Cardinality(T) \in Nat /\ IsFiniteSet(T)
<1>1. IsFiniteSet(T) /\ Cardinality(T) \in Nat
    BY FS_Subset, FS_CardinalityType
<1>2. ASSUME NEW k \in T PROVE Cardinality(Above(S, k)) < Cardinality(T)
    <2>1. Above(S, k) \in SUBSET (T \ {k})
        <3>1. \A m \in Above(S, k) : m \in S /\ m > k /\ m \in Nat /\ k \in Nat
            BY DEF Above
        <3> QED
            BY <3>1
    <2>2. IsFiniteSet(T \ {k}) /\ Cardinality(T \ {k}) = Cardinality(T) - 1
        BY <1>1, FS_RemoveElement
    <2>3. Cardinality(Above(S, k)) <= Cardinality(T \ {k}) /\ Cardinality(Above(S, k)) \in Nat
        BY <2>1, <2>2, FS_Subset, AboveAre
    <2> QED
        BY <1>1, <2>2, <2>3
<1>3. ASSUME NEW k \in S \ T PROVE ~(Cardinality(Above(S, k)) < Cardinality(T))
    <2>1. T \in SUBSET Above(S, k)
        <3>1. \A m \in T : m \in S /\ m \in Nat /\ k \in Nat /\ m # k /\ ~(m < k)
            BY <1>3
        <3> QED
            BY <3>1 DEF Above
    <2>2. Cardinality(T) <= Cardinality(Above(S, k)) /\ Cardinality(Above(S, k)) \in Nat
        BY <2>1, AboveAre
    <2> QED
        BY <1>1, <2>2
<1> QED
    BY <1>1, <1>2, <1>3 DEF Newest

\* Falling lists of the same matches are the same.
LEMMA FallingSame ==
    ASSUME NEW rows, NEW listed, Falling(rows), Falling(listed), In(rows) = In(listed)
    PROVE  rows = listed
BY FallingIs

\* The rows from one match to a newer one.
LEMMA RowsBetween ==
    ASSUME NEW rows, Falling(rows), NEW f \in 1..Len(rows), NEW l \in 1..Len(rows), f <= l
    PROVE  /\ Falling(SubSeq(rows, f, l))
           /\ In(SubSeq(rows, f, l)) = {n \in In(rows) : rows[l] <= n /\ n <= rows[f]}
<1> DEFINE listed == SubSeq(rows, f, l)
           c == l - f + 1
<1>1. /\ rows \in Seq(Nat) /\ Len(rows) \in Nat /\ In(rows) = {rows[k] : k \in 1..Len(rows)}
      /\ \A k \in 1..Len(rows) : rows[k] \in Nat
    BY InIs DEF Falling
<1>2. c \in Nat /\ f \in Nat /\ l \in Nat
    BY <1>1
<1>3. \A i \in 1..c : f + i - 1 \in 1..Len(rows) /\ f + i - 1 \in f..l
    BY <1>1, <1>2
<1>4. listed = [i \in 1..c |-> rows[f + i - 1]] /\ listed \in Seq(Nat) /\ Len(listed) = c
    <2> HIDE DEF listed
    <2>1. listed = SubSeq(rows, f, l)
        BY DEF listed
    <2> QED
        BY <1>1, <1>2, <1>3, <2>1, SubSeqProperties
<1> HIDE DEF listed, c
<1>5. Falling(listed)
    <2>1. \A i, j \in 1..c : i < j => f + i - 1 < f + j - 1
        BY <1>2
    <2>2. \A i, j \in 1..c : i < j => rows[f + j - 1] < rows[f + i - 1]
        BY <1>3, <2>1 DEF Falling
    <2> QED
        BY <1>4, <2>2 DEF Falling
<1>6. In(listed) = {rows[f + i - 1] : i \in 1..c}
    <2>1. In(listed) = {listed[i] : i \in 1..c}
        <3>1. Len(listed) = c /\ listed \in Seq(Nat)
            BY <1>4
        <3> QED
            BY <3>1, InIs
    <2>2. \A i \in 1..c : listed[i] = rows[f + i - 1]
        BY <1>4
    <2> QED
        BY <2>1, <2>2
<1>7. \A k \in 1..Len(rows) : rows[l] <= rows[k] /\ rows[k] <= rows[f] <=> k \in f..l
    <2> SUFFICES ASSUME NEW k \in 1..Len(rows)
                 PROVE  rows[l] <= rows[k] /\ rows[k] <= rows[f] <=> k \in f..l
        OBVIOUS
    <2>1. rows[l] \in Nat /\ rows[k] \in Nat /\ rows[f] \in Nat
        BY <1>1
    <2>2. /\ k < l => rows[l] < rows[k]
          /\ l < k => rows[k] < rows[l]
          /\ k < f => rows[f] < rows[k]
          /\ f < k => rows[k] < rows[f]
        BY DEF Falling
    <2>3. k = l \/ k < l \/ l < k
        BY <1>1, <1>2
    <2>4. k = f \/ k < f \/ f < k
        BY <1>1, <1>2
    <2>5. rows[l] <= rows[k] <=> k <= l
        BY <1>1, <1>2, <2>1, <2>2, <2>3
    <2>6. rows[k] <= rows[f] <=> f <= k
        BY <1>1, <1>2, <2>1, <2>2, <2>4
    <2> QED
        BY <1>1, <1>2, <2>5, <2>6
<1>8. \A k \in f..l : (k - f + 1) \in 1..c /\ f + (k - f + 1) - 1 = k
    BY <1>2 DEF c
<1>9. ASSUME NEW n \in In(rows), rows[l] <= n, n <= rows[f] PROVE n \in In(listed)
    <2>1. PICK k \in 1..Len(rows) : n = rows[k]
        BY <1>1
    <2>2. k \in f..l
        BY <1>7, <1>9, <2>1
    <2> QED
        BY <1>6, <1>8, <2>1, <2>2
<1>10. ASSUME NEW n \in In(listed) PROVE n \in In(rows) /\ rows[l] <= n /\ n <= rows[f]
    <2>1. PICK i \in 1..c : n = rows[f + i - 1]
        BY <1>6
    <2> QED
        BY <1>1, <1>3, <1>7, <2>1
<1>11. In(listed) = {n \in In(rows) : rows[l] <= n /\ n <= rows[f]}
    BY <1>9, <1>10
<1> QED
    BY <1>5, <1>11 DEF listed

\* A match has one place in a falling list.
LEMMA PlaceIs ==
    ASSUME NEW rows, Falling(rows), NEW n \in In(rows)
    PROVE  LET k == CHOOSE i \in DOMAIN rows : rows[i] = n
           IN  k \in 1..Len(rows) /\ rows[k] = n
<1>1. rows \in Seq(Nat) /\ DOMAIN rows = 1..Len(rows) /\ In(rows) = {rows[k] : k \in 1..Len(rows)}
    BY InIs DEF Falling
<1>2. \E i \in DOMAIN rows : rows[i] = n
    BY <1>1
<1> QED
    BY <1>1, <1>2

\* A falling list has a match in one place only.
LEMMA OnePlace ==
    ASSUME NEW rows, Falling(rows), NEW i \in 1..Len(rows), NEW j \in 1..Len(rows)
    PROVE  /\ i < j <=> rows[j] < rows[i]
           /\ rows[i] = rows[j] => i = j
           /\ rows[i] \in Nat
<1>1. rows \in Seq(Nat) /\ Len(rows) \in Nat
    BY InIs DEF Falling
<1>2. rows[i] \in Nat /\ rows[j] \in Nat /\ i \in Nat /\ j \in Nat
    BY <1>1, ElementOfSeq
<1>3. (i < j => rows[j] < rows[i]) /\ (j < i => rows[i] < rows[j])
    BY DEF Falling
<1> QED
    BY <1>2, <1>3


\* The matches played are numbered from 1, and each is of a known kind.
LEMMA MatchesAre ==
    ASSUME ViewsTypeOK
    PROVE  /\ Len(played) \in Nat /\ Matches = 1..Len(played) /\ Len(played) <= MaxMatches
           /\ Matches \in SUBSET Nat /\ IsFiniteSet(Matches)
           /\ Cardinality(Matches) = Len(played)
           /\ \A n \in Matches : /\ played[n].mode \in PlayModes /\ played[n].end \in {0, 1, 2}
                                 /\ played[n].seen \in BOOLEAN
<1>1. Len(played) \in Nat /\ Matches = 1..Len(played) /\ Len(played) <= MaxMatches
      /\ \A n \in Matches : played[n] \in Kinds
    BY DEF ViewsTypeOK, Matches
<1>2. \A kind \in Kinds : /\ kind.mode \in PlayModes /\ kind.end \in {0, 1, 2}
                           /\ kind.seen \in BOOLEAN
    BY DEF Kinds
<1>3. IsFiniteSet(1..Len(played)) /\ Cardinality(1..Len(played)) = Len(played)
    <2>1. \A l \in Nat : IsFiniteSet(1..l) /\ Cardinality(1..l) = l
        BY FS_Interval
    <2>2. Len(played) \in Nat
        BY <1>1
    <2> QED
        BY <2>1, <2>2
<1>4. 1..Len(played) \in SUBSET Nat
    BY <1>1
<1> QED
    BY <1>1, <1>2, <1>3, <1>4

\* The newest of a set, as a list.
LEMMA NewestOfIs ==
    ASSUME NEW S \in SUBSET Nat, IsFiniteSet(S), NEW w \in Nat
    PROVE  /\ Falling(NewestOf(S, w)) /\ In(NewestOf(S, w)) = Newest(S, w)
           /\ Len(NewestOf(S, w)) = Lesser(w, Cardinality(S))
<1>1. /\ Falling(NewestFirst(S)) /\ In(NewestFirst(S)) = S
      /\ Len(NewestFirst(S)) = Cardinality(S)
    BY NewestFirstIs
<1> QED
    BY <1>1, FirstOfIs DEF NewestOf

ModeOf(mode) == {n \in Matches : played[n].mode = mode}

\* The rows of a mode are the newest w of its matches, newest first.
LEMMA ModeRowsAre ==
    ASSUME ViewsTypeOK, NEW mode, NEW w \in Nat
    PROVE  /\ Falling(RowsOfMode(mode, w)) /\ In(RowsOfMode(mode, w)) = Newest(ModeOf(mode), w)
           /\ ModeOf(mode) \in SUBSET Matches /\ ModeOf(mode) \in SUBSET Nat
           /\ IsFiniteSet(ModeOf(mode))
           /\ Cardinality(ModeOf(mode)) \in Nat
           /\ Cardinality(ModeOf(mode)) <= MaxMatches
<1>1. ModeOf(mode) \in SUBSET Matches /\ Matches \in SUBSET Nat /\ IsFiniteSet(Matches)
      /\ Cardinality(Matches) = Len(played) /\ Len(played) <= MaxMatches /\ Len(played) \in Nat
    BY MatchesAre DEF ModeOf
<1>2. /\ IsFiniteSet(ModeOf(mode)) /\ Cardinality(ModeOf(mode)) <= Cardinality(Matches)
      /\ Cardinality(ModeOf(mode)) \in Nat /\ ModeOf(mode) \in SUBSET Nat
    BY <1>1, FS_Subset, FS_CardinalityType
<1>3. RowsOfMode(mode, w) = NewestOf(ModeOf(mode), w)
    BY DEF RowsOfMode, NewestOf, ModeOf
<1>4. Cardinality(ModeOf(mode)) <= MaxMatches
    BY <1>1, <1>2, MatchesAssumption
<1> QED
    BY <1>1, <1>2, <1>3, <1>4, NewestOfIs

\* A load has the newest matches, and no gap in a mode.
LEMMA LoadedAre ==
    ASSUME ViewsTypeOK, NEW rows \in LoadedRows
    PROVE  /\ Falling(rows) /\ In(rows) \in SUBSET Matches
           /\ Newest(Matches, LoadSize) \subseteq In(rows)
           /\ \A n \in In(rows), m \in Matches :
                 n < m /\ played[m].mode = played[n].mode => m \in In(rows)
<1>1. LoadSize \in Nat /\ MaxMatches \in Nat
    BY WindowAssumption, MatchesAssumption DEF LoadSize
<1>2. PICK w \in {LoadSize, MaxMatches} : rows = LoadRecentModes(w)
    BY DEF LoadedRows
<1>3. w \in Nat
    BY <1>1
<1> DEFINE U == UNION {In(RowsOfMode(mode, w)) : mode \in PlayModes}
<1>4. \A n : n \in U <=> \E mode \in PlayModes : n \in Newest(ModeOf(mode), w)
    BY <1>3, ModeRowsAre
<1>5. \A mode : Newest(ModeOf(mode), w) \subseteq ModeOf(mode)
    BY DEF Newest
<1>6. \A n \in Matches : n \in ModeOf(played[n].mode) /\ played[n].mode \in PlayModes
    BY MatchesAre DEF ModeOf
<1>7. \A n : n \in U <=> n \in Matches /\ n \in Newest(ModeOf(played[n].mode), w)
    <2>1. \A n, mode : n \in ModeOf(mode) <=> n \in Matches /\ played[n].mode = mode
        BY DEF ModeOf
    <2>2. ASSUME NEW n, n \in U
          PROVE  n \in Matches /\ n \in Newest(ModeOf(played[n].mode), w)
        <3>1. PICK mode \in PlayModes : n \in Newest(ModeOf(mode), w)
            BY <1>4, <2>2
        <3>2. n \in ModeOf(mode)
            BY <1>5, <3>1
        <3> QED
            BY <2>1, <3>1, <3>2
    <2>3. ASSUME NEW n, n \in Matches, n \in Newest(ModeOf(played[n].mode), w)
          PROVE  n \in U
        BY <1>4, <1>6, <2>3
    <2> QED
        BY <2>2, <2>3
<1>8. rows = NewestFirst(U)
    BY <1>2 DEF LoadRecentModes
<1> HIDE DEF U
<1>9. Matches \in SUBSET Nat /\ IsFiniteSet(Matches)
    BY MatchesAre
<1>10. U \in SUBSET Matches /\ U \in SUBSET Nat /\ IsFiniteSet(U)
    <2>1. U \in SUBSET Matches
        BY <1>7
    <2> QED
        BY <1>9, <2>1, FS_Subset
<1>11. Falling(rows) /\ In(rows) = U
    BY <1>8, <1>10, NewestFirstIs
<1>12. ASSUME NEW n \in Newest(Matches, LoadSize) PROVE n \in U
    <2> DEFINE M == ModeOf(played[n].mode)
    <2>1. n \in Matches /\ Cardinality(Above(Matches, n)) < LoadSize /\ n \in M
        BY <1>6 DEF Newest
    <2>2. M \in SUBSET Matches /\ M \in SUBSET Nat /\ IsFiniteSet(M) /\ Cardinality(M) <= MaxMatches
          /\ Cardinality(M) \in Nat
        BY <1>3, ModeRowsAre
    <2> HIDE DEF M
    <2>3. CASE w = LoadSize
        <3>1. Above(M, n) \in SUBSET Above(Matches, n)
            BY <2>2 DEF Above
        <3>2. /\ Cardinality(Above(M, n)) <= Cardinality(Above(Matches, n))
              /\ Cardinality(Above(M, n)) \in Nat /\ Cardinality(Above(Matches, n)) \in Nat
            BY <1>9, <3>1, AboveAre
        <3>3. n \in Newest(M, w)
            BY <1>1, <2>1, <2>3, <3>2 DEF Newest
        <3> QED
            BY <1>7, <2>1, <3>3 DEF M
    <2>4. CASE w = MaxMatches
        <3>1. n \in Newest(M, w)
            BY <1>3, <2>1, <2>2, <2>4, NewestAre
        <3> QED
            BY <1>7, <2>1, <3>1 DEF M
    <2> QED
        BY <2>3, <2>4
<1>13. ASSUME NEW n \in U, NEW m \in Matches, n < m, played[m].mode = played[n].mode
       PROVE  m \in U
    <2> DEFINE M == ModeOf(played[n].mode)
    <2>1. n \in Newest(M, w) /\ m \in M
        BY <1>7, <1>13 DEF ModeOf
    <2>2. M \in SUBSET Nat /\ IsFiniteSet(M)
        BY <1>3, ModeRowsAre
    <2> HIDE DEF M
    <2>3. m \in Newest(M, w)
        BY <1>3, <1>13, <2>1, <2>2, NewestAre
    <2> QED
        BY <1>7, <1>13, <2>3 DEF M
<1> QED
    BY <1>10, <1>11, <1>12, <1>13

Between(rows, wins, losses, start, end) ==
    {n \in In(rows) : start <= n /\ n <= end /\ played[n].end \in Allowed(wins, losses)}

\* What a selection answers.
LEMMA SelectedAre ==
    ASSUME ViewsTypeOK, NEW rows, Falling(rows), In(rows) \in SUBSET Matches,
           NEW w \in Nat, NEW wins, NEW losses, NEW start, NEW end
    PROVE  LET chosen == SelectSample(rows, w, wins, losses, start, end)
               known == {start, end} \subseteq In(rows)
               part == Between(rows, wins, losses, start, end)
           IN  IF known /\ start <= end
               THEN /\ chosen = Succeeds(chosen.rows) /\ Falling(chosen.rows)
                    /\ In(chosen.rows) = Newest(part, w)
                    /\ chosen.rows = NewestOf(part, w)
                    /\ part \in SUBSET Nat /\ IsFiniteSet(part)
               ELSE chosen = Fails(IF known THEN "invalid_match_range"
                                            ELSE "match_range_expired")
<1> DEFINE first == CHOOSE k \in DOMAIN rows : rows[k] = end
           last == CHOOSE k \in DOMAIN rows : rows[k] = start
           chosen == SelectSample(rows, w, wins, losses, start, end)
           known == {start, end} \subseteq In(rows)
           part == Between(rows, wins, losses, start, end)
           cut == SubSeq(rows, first, last)
           kept == Eligible(cut, wins, losses)
<1>1. chosen = IF ~ known THEN Fails("match_range_expired")
               ELSE IF first > last THEN Fails("invalid_match_range")
               ELSE Succeeds(FirstOf(kept, w))
    BY DEF SelectSample
<1>2. ASSUME known
      PROVE  /\ first \in 1..Len(rows) /\ rows[first] = end /\ last \in 1..Len(rows)
             /\ rows[last] = start /\ (first > last <=> end < start)
             /\ start \in Nat /\ end \in Nat /\ first \in Nat /\ last \in Nat
    <2>1. start \in In(rows) /\ end \in In(rows)
        BY <1>2
    <2>2. /\ first \in 1..Len(rows) /\ rows[first] = end
          /\ last \in 1..Len(rows) /\ rows[last] = start
        BY <2>1, PlaceIs
    <2> HIDE DEF first, last
    <2>3. /\ last < first <=> rows[first] < rows[last]
          /\ rows[first] \in Nat /\ rows[last] \in Nat
        BY <2>2, OnePlace
    <2>4. Len(rows) \in Nat
        BY FallingIs
    <2>5. first \in Nat /\ last \in Nat
        BY <2>2, <2>4
    <2> QED
        BY <2>2, <2>3, <2>5
<1>3. part \in SUBSET Nat /\ IsFiniteSet(part)
    <2>1. part \in SUBSET In(rows) /\ In(rows) \in SUBSET Nat /\ IsFiniteSet(In(rows))
        BY FallingIs DEF Between
    <2> QED
        BY <2>1, FS_Subset
<1>4. ASSUME known, ~(end < start)
      PROVE  Falling(kept) /\ In(kept) = part
    <2>1. /\ first \in 1..Len(rows) /\ rows[first] = end /\ last \in 1..Len(rows)
          /\ rows[last] = start /\ first <= last
        BY <1>2, <1>4
    <2> HIDE DEF first, last
    <2>2. Falling(cut) /\ In(cut) = {n \in In(rows) : start <= n /\ n <= end}
        BY <2>1, RowsBetween
    <2> DEFINE T == {n \in Matches : played[n].end \in Allowed(wins, losses)}
    <2>3. kept = Those(cut, T)
        BY DEF Eligible
    <2> HIDE DEF cut, kept
    <2>4. Falling(kept) /\ In(kept) = In(cut) \cap T
        BY <2>2, <2>3, ThoseAre
    <2>5. In(cut) \cap T = part
        BY <2>2 DEF Between
    <2> QED
        BY <2>4, <2>5
<1>5. ASSUME known, start <= end
      PROVE  /\ chosen = Succeeds(chosen.rows) /\ Falling(chosen.rows)
             /\ In(chosen.rows) = Newest(part, w) /\ chosen.rows = NewestOf(part, w)
    <2>1. ~(end < start) /\ ~(first > last)
        BY <1>2, <1>5
    <2>2. Falling(kept) /\ In(kept) = part
        BY <1>4, <1>5, <2>1
    <2>3. chosen = Succeeds(FirstOf(kept, w))
        BY <1>1, <1>5, <2>1
    <2> HIDE DEF kept, part, chosen, first, last, known
    <2>4. chosen.rows = FirstOf(kept, w) /\ chosen = Succeeds(chosen.rows)
        BY <2>3 DEF Succeeds
    <2>5. Falling(FirstOf(kept, w)) /\ In(FirstOf(kept, w)) = Newest(part, w)
        BY <2>2, FirstOfIs
    <2>6. Falling(NewestOf(part, w)) /\ In(NewestOf(part, w)) = Newest(part, w)
        BY <1>3, NewestOfIs
    <2> QED
        BY <2>4, <2>5, <2>6, FallingSame
<1>6. ASSUME ~(known /\ start <= end)
      PROVE  chosen = Fails(IF known THEN "invalid_match_range" ELSE "match_range_expired")
    <2>1. CASE ~ known
        BY <1>1, <2>1
    <2>2. CASE known
        <3>1. first > last
            BY <1>2, <1>6, <2>2
        <3> QED
            BY <1>1, <2>2, <3>1
    <2> QED
        BY <2>1, <2>2
<1> HIDE DEF chosen, known, part
<1>7. IF known /\ start <= end
      THEN /\ chosen = Succeeds(chosen.rows) /\ Falling(chosen.rows)
           /\ In(chosen.rows) = Newest(part, w)
           /\ chosen.rows = NewestOf(part, w)
           /\ part \in SUBSET Nat /\ IsFiniteSet(part)
      ELSE chosen = Fails(IF known THEN "invalid_match_range" ELSE "match_range_expired")
    BY <1>3, <1>5, <1>6
<1> QED
    BY <1>7 DEF chosen, known, part

\* select_match_sample: a range selects the newest matches between its ends
\* that may count, or is refused for the right reason.
LEMMA RangesAre == ASSUME ViewsTypeOK PROVE RangeIsSelected
<1> SUFFICES ASSUME NEW rows \in LoadedRows, NEW window \in Cuts, NEW wins \in BOOLEAN,
                    NEW losses \in BOOLEAN, NEW start \in Matches, NEW end \in Matches
             PROVE  LET chosen == SelectSample(rows, window, wins, losses, start, end)
                        known == {start, end} \subseteq In(rows)
                    IN  IF known /\ start <= end
                        THEN chosen = Succeeds(NewestOf(
                                {n \in In(rows) : start <= n /\ n <= end
                                        /\ played[n].end \in Allowed(wins, losses)}, window))
                        ELSE chosen = Fails(IF known THEN "invalid_match_range"
                                                     ELSE "match_range_expired")
    BY DEF RangeIsSelected
<1>1. Falling(rows) /\ In(rows) \in SUBSET Matches /\ window \in Nat
    BY LoadedAre, WindowAssumption, MatchesAssumption DEF Cuts
<1> DEFINE chosen == SelectSample(rows, window, wins, losses, start, end)
           known == {start, end} \subseteq In(rows)
           part == Between(rows, wins, losses, start, end)
<1> HIDE DEF chosen, known, part
<1>2. IF known /\ start <= end
      THEN chosen = Succeeds(chosen.rows) /\ chosen.rows = NewestOf(part, window)
      ELSE chosen = Fails(IF known THEN "invalid_match_range" ELSE "match_range_expired")
    BY <1>1, SelectedAre DEF chosen, known, part
<1>3. IF known /\ start <= end
      THEN chosen = Succeeds(NewestOf(part, window))
      ELSE chosen = Fails(IF known THEN "invalid_match_range" ELSE "match_range_expired")
    BY <1>2
<1> QED
    BY <1>3 DEF chosen, known, part, Between

\* The sample of the combined analysis.
LEMMA RecentAre ==
    ASSUME ViewsTypeOK, NEW rows \in LoadedRows, rows # <<>>
    PROVE  /\ Falling(RecentSample(rows)) /\ In(RecentSample(rows)) = Newest(Matches, Window)
           /\ Newest(Matches, Window) \in SUBSET In(rows)
<1>1. /\ Falling(rows) /\ In(rows) \in SUBSET Matches /\ Window \in Nat
      /\ Newest(Matches, LoadSize) \subseteq In(rows)
    BY LoadedAre, WindowAssumption
<1>2. rows \in Seq(Nat) /\ Len(rows) \in Nat /\ Len(rows) # 0
    <2>1. rows \in Seq(Nat)
        BY <1>1 DEF Falling
    <2> QED
        BY <2>1, EmptySeq
<1> DEFINE l == Len(rows)
           start == rows[Len(rows)]
           end == rows[1]
           part == Between(rows, TRUE, TRUE, start, end)
<1>3. l \in 1..Len(rows) /\ 1 \in 1..Len(rows)
    BY <1>2
<1>4. start \in In(rows) /\ end \in In(rows)
    BY <1>2, <1>3, InIs
<1>5. \A n \in In(rows) : start <= n /\ n <= end
    <2> SUFFICES ASSUME NEW n \in In(rows) PROVE start <= n /\ n <= end
        OBVIOUS
    <2>1. PICK k \in 1..Len(rows) : n = rows[k]
        BY <1>2, InIs
    <2>2. k \in Nat /\ (1 < k <=> n < end) /\ (1 = k \/ 1 < k)
        BY <1>1, <1>2, <1>3, <2>1, OnePlace
    <2>3. (k < l <=> start < n) /\ (k = l \/ k < l)
        BY <1>1, <1>2, <1>3, <2>1, OnePlace
    <2>4. start \in Nat /\ end \in Nat /\ n \in Nat
        BY <1>1, <1>3, <2>1, OnePlace
    <2> QED
        BY <2>1, <2>2, <2>3, <2>4
<1>6. \A n \in Matches : played[n].end \in Allowed(TRUE, TRUE)
    BY MatchesAre DEF Allowed
<1>7. part = In(rows)
    BY <1>1, <1>5, <1>6 DEF Between
<1>8. Matches \in SUBSET Nat /\ IsFiniteSet(Matches)
    BY MatchesAre
<1>9. start <= end /\ {start, end} \subseteq In(rows)
    BY <1>4, <1>5
<1> HIDE DEF start, end, part
<1>10. RecentSample(rows) = SelectSample(rows, Window, TRUE, TRUE, start, end).rows
    BY DEF RecentSample, start, end
<1>11. /\ Falling(RecentSample(rows)) /\ In(RecentSample(rows)) = Newest(In(rows), Window)
    <2> DEFINE chosen == SelectSample(rows, Window, TRUE, TRUE, start, end)
    <2> HIDE DEF chosen
    <2>1. Falling(chosen.rows) /\ In(chosen.rows) = Newest(part, Window)
        BY <1>1, <1>9, SelectedAre DEF part, chosen
    <2> QED
        BY <1>7, <1>10, <2>1 DEF chosen
<1>12. Newest(Matches, Window) \in SUBSET In(rows)
    <2>1. \A n \in Matches : Cardinality(Above(Matches, n)) \in Nat
        BY <1>8, AboveAre
    <2>2. \A c \in Nat : c < Window => c < LoadSize
        BY WindowAssumption DEF LoadSize
    <2>3. Newest(Matches, Window) \subseteq Newest(Matches, LoadSize)
        BY <2>1, <2>2 DEF Newest
    <2> QED
        BY <1>1, <2>3
<1>13. Newest(In(rows), Window) = Newest(Matches, Window)
    BY <1>1, <1>8, <1>12, NewestOfPart
<1> QED
    BY <1>11, <1>12, <1>13

\* load_recent_modes: the newest matches of both modes are loaded.
LEMMA SamplesAre == ASSUME ViewsTypeOK PROVE SampleIsNewest
<1> SUFFICES ASSUME NEW rows \in LoadedRows, rows # <<>>
             PROVE  RecentSample(rows) = NewestOf(Matches, Window)
    BY DEF SampleIsNewest
<1>1. Matches \in SUBSET Nat /\ IsFiniteSet(Matches) /\ Window \in Nat
    BY MatchesAre, WindowAssumption
<1>2. Falling(RecentSample(rows)) /\ In(RecentSample(rows)) = Newest(Matches, Window)
    BY RecentAre
<1>3. Falling(NewestOf(Matches, Window)) /\ In(NewestOf(Matches, Window)) = Newest(Matches, Window)
    BY <1>1, NewestOfIs
<1> QED
    BY <1>2, <1>3, FallingSame

Earlier(sample, forfeits) ==
    {n \in Matches : /\ played[n].end \in IF forfeits THEN {0, 1, 2} ELSE {0}
                     /\ sample # <<>> /\ \A m \in In(sample) : n < m}

\* previous_matches: the newest of the earlier matches, newest first.
LEMMA PreviousAre ==
    ASSUME NEW rows, Falling(rows), NEW sample, NEW forfeits
    PROVE  LET history == PreviousMatches(rows, sample, forfeits)
               part == In(rows) \cap Earlier(sample, forfeits)
           IN  /\ Falling(history) /\ In(history) = Newest(part, HistoryLimit)
               /\ part \in SUBSET Nat /\ IsFiniteSet(part)
               /\ Len(history) = Lesser(HistoryLimit, Cardinality(part))
<1> DEFINE history == PreviousMatches(rows, sample, forfeits)
           T == Earlier(sample, forfeits)
           part == In(rows) \cap T
           kept == Those(rows, T)
<1>1. history = FirstOf(kept, HistoryLimit)
    BY DEF PreviousMatches, Earlier
<1> HIDE DEF T, history
<1>2. Falling(kept) /\ In(kept) = part
    BY ThoseAre
<1> HIDE DEF kept, part
<1>3. HistoryLimit \in Nat
    BY WindowAssumption
<1>4. Cardinality(part) = Len(kept) /\ part \in SUBSET Nat /\ IsFiniteSet(part)
    BY <1>2, FallingIs
<1>5. /\ Falling(history) /\ In(history) = Newest(part, HistoryLimit)
      /\ Len(history) = Lesser(HistoryLimit, Cardinality(part))
    BY <1>1, <1>2, <1>3, <1>4, FirstOfIs
<1> QED
    BY <1>4, <1>5 DEF history, part, T

\* previous_matches: every match of a comparison is older than the sample.
LEMMA HistoriesAreApart == ASSUME ViewsTypeOK PROVE HistoryIsNotSelected
<1> SUFFICES ASSUME NEW rows \in LoadedRows, NEW window \in Cuts, NEW wins \in BOOLEAN,
                    NEW losses \in BOOLEAN, NEW start \in Matches, NEW end \in Matches
             PROVE  LET sample == SelectSample(rows, window, wins, losses, start, end).rows
                        history == PreviousMatches(rows, sample, wins \/ losses)
                    IN  \A n \in In(history), m \in In(sample) : n < m
    BY DEF HistoryIsNotSelected
<1> DEFINE sample == SelectSample(rows, window, wins, losses, start, end).rows
           history == PreviousMatches(rows, sample, wins \/ losses)
<1>1. Falling(rows)
    BY LoadedAre
<1> HIDE DEF sample
<1>2. In(history) \subseteq Earlier(sample, wins \/ losses)
    <2>1. In(history) = Newest(In(rows) \cap Earlier(sample, wins \/ losses), HistoryLimit)
        BY <1>1, PreviousAre
    <2>2. \A S, w : Newest(S, w) \subseteq S
        BY DEF Newest
    <2> QED
        BY <2>1, <2>2
<1>3. \A n \in In(history), m \in In(sample) : n < m
    BY <1>2 DEF Earlier
<1> QED
    BY <1>3 DEF sample

\* A falling list followed by one of older matches.
LEMMA FallingOn ==
    ASSUME NEW r, NEW s, Falling(r), Falling(s), \A n \in In(s), m \in In(r) : n < m
    PROVE  Falling(r \o s) /\ In(r \o s) = In(r) \cup In(s)
<1> DEFINE listed == r \o s
           c == Len(r)
           d == Len(s)
<1>1. r \in Seq(Nat) /\ s \in Seq(Nat) /\ c \in Nat /\ d \in Nat
    BY InIs DEF Falling
<1>2. /\ listed \in Seq(Nat) /\ Len(listed) = c + d
      /\ \A i \in 1..(c + d) : listed[i] = IF i <= c THEN r[i] ELSE s[i - c]
    BY <1>1
<1>3. /\ In(r) = {r[k] : k \in 1..c} /\ \A k \in 1..c : r[k] \in In(r)
    BY <1>1, InIs
<1>4. /\ In(s) = {s[k] : k \in 1..d} /\ \A k \in 1..d : s[k] \in In(s)
    BY <1>1, InIs
<1> HIDE DEF listed, c, d
<1>5. \A i \in 1..(c + d) : /\ i <= c => i \in 1..c /\ listed[i] = r[i]
                            /\ ~(i <= c) => i - c \in 1..d /\ listed[i] = s[i - c]
    BY <1>1, <1>2
<1>6. \A i, j \in 1..(c + d) : i < j => listed[j] < listed[i]
    <2> SUFFICES ASSUME NEW i \in 1..(c + d), NEW j \in 1..(c + d), i < j
                 PROVE  listed[j] < listed[i]
        OBVIOUS
    <2>1. i \in Nat /\ j \in Nat
        BY <1>1
    <2>2. CASE j <= c
        <3>1. i <= c
            BY <1>1, <2>1, <2>2
        <3>2. i \in 1..c /\ j \in 1..c /\ listed[i] = r[i] /\ listed[j] = r[j]
            BY <1>5, <2>2, <3>1
        <3> QED
            BY <3>2 DEF Falling, c
    <2>3. CASE ~(j <= c) /\ i <= c
        BY <1>3, <1>4, <1>5, <2>3
    <2>4. CASE ~(i <= c) /\ ~(j <= c)
        <3>1. i - c < j - c
            BY <1>1, <2>1
        <3>2. i - c \in 1..d /\ j - c \in 1..d /\ listed[i] = s[i - c] /\ listed[j] = s[j - c]
            BY <1>5, <2>4
        <3> QED
            BY <3>1, <3>2 DEF Falling, d
    <2>5. ~(i <= c) => ~(j <= c)
        BY <1>1, <2>1
    <2> QED
        BY <2>2, <2>3, <2>4, <2>5
<1>7. Falling(listed)
    BY <1>2, <1>6 DEF Falling
<1>8. In(listed) = {listed[k] : k \in 1..(c + d)}
    <2>1. Len(listed) = c + d /\ listed \in Seq(Nat)
        BY <1>2
    <2> QED
        BY <2>1, InIs
<1>9. ASSUME NEW n \in In(listed) PROVE n \in In(r) \cup In(s)
    BY <1>3, <1>4, <1>5, <1>8
<1>10. ASSUME NEW n \in In(r) PROVE n \in In(listed)
    <2>1. PICK k \in 1..c : n = r[k]
        BY <1>3
    <2>2. k \in 1..(c + d) /\ k <= c
        BY <1>1
    <2> QED
        BY <1>5, <1>8, <2>1, <2>2
<1>11. ASSUME NEW n \in In(s) PROVE n \in In(listed)
    <2>1. PICK k \in 1..d : n = s[k]
        BY <1>4
    <2>2. k + c \in 1..(c + d) /\ ~(k + c <= c) /\ (k + c) - c = k
        BY <1>1
    <2>3. listed[k + c] = s[k]
        BY <1>5, <2>2
    <2> QED
        BY <1>8, <2>1, <2>2, <2>3
<1>12. In(listed) = In(r) \cup In(s)
    BY <1>9, <1>10, <1>11
<1> QED
    BY <1>7, <1>12 DEF listed

\* A finite set has as many elements as a part and the rest of it.
LEMMA SplitSet ==
    ASSUME NEW S, IsFiniteSet(S), NEW A \in SUBSET S
    PROVE  /\ Cardinality(S) = Cardinality(A) + Cardinality(S \ A)
           /\ Cardinality(A) \in Nat /\ Cardinality(S \ A) \in Nat /\ Cardinality(S) \in Nat
           /\ IsFiniteSet(A) /\ IsFiniteSet(S \ A)
<1>1. /\ IsFiniteSet(A) /\ IsFiniteSet(S \ A)
    BY FS_Subset
<1>2. A \cup (S \ A) = S /\ A \cap (S \ A) = {}
    OBVIOUS
<1>3. /\ Cardinality(A \cup (S \ A))
           = Cardinality(A) + Cardinality(S \ A) - Cardinality(A \cap (S \ A))
    BY <1>1, FS_Union
<1>4. /\ Cardinality(A) \in Nat /\ Cardinality(S \ A) \in Nat /\ Cardinality(S) \in Nat
      /\ Cardinality({}) = 0
    BY <1>1, FS_EmptySet, FS_CardinalityType
<1>5. Cardinality(S) = Cardinality(A) + Cardinality(S \ A) - Cardinality({})
    BY <1>2, <1>3
<1> QED
    BY <1>1, <1>4, <1>5

\* mode_history: the history of a mode follows its sample without a gap.
LEMMA HistoriesAre == ASSUME ViewsTypeOK PROVE HistoryIsEarlier
<1> SUFFICES ASSUME NEW rows \in LoadedRows, NEW mode \in PlayModes, rows # <<>>
             PROVE  LET sample == OfMode(RecentSample(rows), mode)
                        history == ModeHistory(rows, mode)
                    IN  /\ sample = <<>> => history = <<>>
                        /\ sample # <<>> =>
                             /\ sample \o history = RowsOfMode(mode, Len(sample) + Len(history))
                             /\ Len(history) = Lesser(HistoryLimit,
                                                 Len(OfMode(rows, mode)) - Len(sample))
    BY DEF HistoryIsEarlier
<1> DEFINE whole == OfMode(rows, mode)
           sample == OfMode(RecentSample(rows), mode)
           history == ModeHistory(rows, mode)
           M == In(rows) \cap ModeOf(mode)
           Q == Newest(Matches, Window) \cap ModeOf(mode)
           part == M \cap Earlier(sample, TRUE)
           H == Newest(part, HistoryLimit)
<1>1. /\ Falling(rows) /\ In(rows) \in SUBSET Matches
      /\ \A n \in In(rows), m \in Matches :
            n < m /\ played[m].mode = played[n].mode => m \in In(rows)
    BY LoadedAre
<1>2. \A listed : OfMode(listed, mode) = Those(listed, ModeOf(mode))
    BY DEF OfMode, ModeOf
<1>3. Falling(whole) /\ In(whole) = M
    BY <1>1, <1>2, ThoseAre
<1>4. Falling(sample) /\ In(sample) = Q /\ Q \in SUBSET M
    BY <1>2, RecentAre, ThoseAre
<1>5. history = PreviousMatches(whole, sample, TRUE)
    BY DEF ModeHistory
<1>6. /\ HistoryLimit \in Nat /\ Window \in Nat /\ ModeOf(mode) \in SUBSET Matches
      /\ Matches \in SUBSET Nat /\ IsFiniteSet(Matches) /\ IsFiniteSet(ModeOf(mode))
      /\ ModeOf(mode) \in SUBSET Nat
    <2>1. Window \in Nat /\ HistoryLimit \in Nat
        BY WindowAssumption
    <2> QED
        BY <2>1, MatchesAre, ModeRowsAre
<1>20. \A n \in ModeOf(mode) : n \in Matches /\ played[n].mode = mode
    BY DEF ModeOf
<1>21. \A n \in Matches : played[n].end \in {0, 1, 2}
    BY MatchesAre
<1> HIDE DEF whole, sample, history
<1>7. /\ Falling(history) /\ In(history) = H /\ part \in SUBSET Nat /\ IsFiniteSet(part)
      /\ Len(history) = Lesser(HistoryLimit, Cardinality(part))
    BY <1>3, <1>5, PreviousAre
<1>8. ASSUME sample = <<>> PROVE history = <<>>
    <2>1. part = {}
        BY <1>8 DEF Earlier
    <2>2. Cardinality(part) = 0
        BY <2>1, FS_EmptySet
    <2>3. Len(history) = 0
        BY <1>6, <1>7, <2>2, LesserIs
    <2>4. history \in Seq(Nat)
        BY <1>7 DEF Falling
    <2> QED
        BY <2>3, <2>4, EmptySeq
<1>9. ASSUME sample # <<>>
      PROVE  /\ sample \o history = RowsOfMode(mode, Len(sample) + Len(history))
             /\ Len(history) = Lesser(HistoryLimit, Len(whole) - Len(sample))
    <2>1. \A n \in Newest(Matches, Window), m \in Matches : n < m => m \in Newest(Matches, Window)
        BY <1>6, NewestAre
    <2>2. \A n \in Q, m \in ModeOf(mode) : n < m => m \in Q
        BY <1>6, <2>1
    <2>3. \A n \in M, m \in ModeOf(mode) : n < m => m \in M
        BY <1>1, <1>20
    <2>4. M \in SUBSET ModeOf(mode) /\ M \in SUBSET Nat /\ IsFiniteSet(M)
        <3>1. M \in SUBSET ModeOf(mode)
            OBVIOUS
        <3> QED
            BY <1>6, <3>1, FS_Subset
    <2>5. part = M \ Q
        <3>1. ASSUME NEW n \in M, n \notin Q PROVE n \in Earlier(sample, TRUE)
            <4>1. \A m \in Q : n < m
                <5> SUFFICES ASSUME NEW m \in Q PROVE n < m
                    OBVIOUS
                <5>1. n \in Nat /\ m \in Nat /\ n # m /\ n \in ModeOf(mode)
                    BY <1>4, <2>4, <3>1
                <5>2. ~(m < n)
                    BY <2>2, <3>1, <5>1
                <5> QED
                    BY <5>1, <5>2
            <4>2. n \in Matches
                BY <1>20, <2>4
            <4> QED
                BY <1>4, <1>9, <1>21, <4>1, <4>2 DEF Earlier
        <3>2. ASSUME NEW n \in part, n \in Q PROVE FALSE
            <4>1. n < n
                BY <1>4, <3>2 DEF Earlier
            <4>2. n \in Nat
                BY <2>4, <3>2
            <4> QED
                BY <4>1, <4>2
        <3> QED
            BY <3>1, <3>2
    <2> HIDE DEF part, M, Q
    <2>6. /\ H \in SUBSET part /\ IsFiniteSet(H) /\ Cardinality(H) \in Nat
          /\ \A n \in H, m \in part : n < m => m \in H
        BY <1>6, <1>7, NewestAre, FS_CardinalityType
    <2> HIDE DEF H
    <2> DEFINE T == Q \cup H
    <2>7. \A n \in T, m \in ModeOf(mode) : n < m => m \in T
        <3> SUFFICES ASSUME NEW n \in T, NEW m \in ModeOf(mode), n < m, m \notin Q PROVE m \in H
            OBVIOUS
        <3>1. n \in H
            BY <2>2
        <3>2. m \in M \ Q
            BY <1>4, <2>3, <2>5, <2>6, <3>1
        <3> QED
            BY <2>5, <2>6, <3>1, <3>2
    <2>8. T \in SUBSET ModeOf(mode) /\ T \in SUBSET M
        BY <1>4, <2>4, <2>5, <2>6
    <2>9. Q \in SUBSET T /\ T \ Q = H
        BY <2>5, <2>6
    <2> HIDE DEF T
    <2>10. T = Newest(ModeOf(mode), Cardinality(T)) /\ IsFiniteSet(T)
        BY <1>6, <2>7, <2>8, UpperAreNewest
    <2>11. Cardinality(T) = Cardinality(Q) + Cardinality(H) /\ Cardinality(T) \in Nat
        BY <2>9, <2>10, SplitSet
    <2>12. /\ Cardinality(M) = Cardinality(Q) + Cardinality(part)
           /\ Cardinality(Q) \in Nat /\ Cardinality(part) \in Nat
        BY <1>4, <2>4, <2>5, SplitSet
    <2>13. /\ Len(sample) = Cardinality(Q) /\ Len(history) = Cardinality(H)
           /\ Len(whole) = Cardinality(M)
        BY <1>3, <1>4, <1>7, FallingIs
    <2>14. Falling(sample \o history) /\ In(sample \o history) = T
        <3>1. \A n \in H, m \in Q : n < m
            BY <1>4, <2>6 DEF Earlier, part
        <3> QED
            BY <1>4, <1>7, <3>1, FallingOn DEF T
    <2>15. /\ Falling(RowsOfMode(mode, Cardinality(T)))
           /\ In(RowsOfMode(mode, Cardinality(T))) = T
        BY <2>10, <2>11, ModeRowsAre
    <2>16. sample \o history = RowsOfMode(mode, Len(sample) + Len(history))
        BY <2>11, <2>13, <2>14, <2>15, FallingSame
    <2>17. Len(whole) - Len(sample) = Cardinality(part)
        BY <2>12, <2>13
    <2> QED
        BY <1>7, <2>16, <2>17
<1>10. (sample = <<>> => history = <<>>)
       /\ (sample # <<>> => /\ sample \o history = RowsOfMode(mode, Len(sample) + Len(history))
                            /\ Len(history) = Lesser(HistoryLimit, Len(whole) - Len(sample)))
    BY <1>8, <1>9
<1> QED
    BY <1>10 DEF whole, sample, history

Sums == [total : Int, observed : Int]

\* Sums of matches are closed under adding and taking away, in any order.
LEMMA SumsAre ==
    /\ Zero \in Sums
    /\ \A a, b \in Sums : /\ Plus(a, b) \in Sums /\ Minus(a, b) \in Sums
                          /\ Minus(Plus(a, b), b) = a
    /\ \A a, b, c \in Sums : Plus(Plus(a, b), c) = Plus(Plus(a, c), b)
<1>1. Zero \in Sums
    BY DEF Zero, Sums
<1>2. ASSUME NEW a \in Sums, NEW b \in Sums
      PROVE  Plus(a, b) \in Sums /\ Minus(a, b) \in Sums /\ Minus(Plus(a, b), b) = a
    <2>1. /\ a.total \in Int /\ a.observed \in Int /\ b.total \in Int /\ b.observed \in Int
          /\ a = [total |-> a.total, observed |-> a.observed]
        BY DEF Sums
    <2>2. Plus(a, b) \in Sums /\ Minus(a, b) \in Sums
        BY <2>1 DEF Plus, Minus, Sums
    <2>3. Minus(Plus(a, b), b) = [total |-> (a.total + b.total) - b.total,
                                  observed |-> (a.observed + b.observed) - b.observed]
        BY DEF Plus, Minus
    <2>4. (a.total + b.total) - b.total = a.total
          /\ (a.observed + b.observed) - b.observed = a.observed
        BY <2>1
    <2> QED
        BY <2>1, <2>2, <2>3, <2>4
<1>3. ASSUME NEW a \in Sums, NEW b \in Sums, NEW c \in Sums
      PROVE  Plus(Plus(a, b), c) = Plus(Plus(a, c), b)
    BY DEF Plus, Sums
<1> QED
    BY <1>1, <1>2, <1>3

\* What one match counts is a sum.
LEMMA CountIs ==
    ASSUME ViewsTypeOK, NEW n \in Matches
    PROVE  Count(n) \in Sums
<1>1. n \in Nat /\ Seen(n) \in {0, 1}
    BY MatchesAre DEF Seen
<1>2. n * Seen(n) \in Int /\ Seen(n) \in Int
    BY <1>1
<1> QED
    BY <1>2 DEF Count, Sums

\* The sum of a set, match by match.
LEMMA SumUpToIs ==
    ASSUME ViewsTypeOK, NEW S \in SUBSET Matches
    PROVE  LET sum == SumUpTo(S)
           IN  /\ sum[0] = Zero
               /\ \A k \in 1..MaxMatches :
                     sum[k] = IF k \in S THEN Plus(sum[k - 1], Count(k)) ELSE sum[k - 1]
               /\ \A k \in 0..MaxMatches : sum[k] \in Sums
<1> DEFINE body(g) == [n \in 0..MaxMatches |->
                          IF n = 0 THEN Zero
                          ELSE IF n \in S THEN Plus(g[n - 1], Count(n)) ELSE g[n - 1]]
           sum == CHOOSE g : g = body(g)
           step == [k \in 1..MaxMatches |->
                       [d \in Sums |-> IF k \in S THEN Plus(d, Count(k)) ELSE d]]
<1>1. MaxMatches \in Nat
    BY MatchesAssumption
<1>2. SumUpTo(S) = sum
    BY DEF SumUpTo
<1>3. \A k \in S : Count(k) \in Sums
    BY CountIs
<1>4. step \in [1..MaxMatches -> [Sums -> Sums]]
    BY <1>3, SumsAre
<1>5. Zero \in Sums
    BY SumsAre
<1>6. PICK f \in [0..MaxMatches -> Sums] :
          f[0] = Zero /\ \A k \in 1..MaxMatches : f[k] = step[k][f[k - 1]]
    <2> HIDE DEF step
    <2>1. step \in NextValues(MaxMatches, Sums)
        BY <1>4 DEF NextValues
    <2>2. HasRecursion(MaxMatches, Sums, Zero, step)
        BY <1>1, <1>5, <2>1, RecursionExists
    <2> QED
        BY <2>2 DEF HasRecursion
<1>7. \A k \in 1..MaxMatches :
          f[k] = IF k \in S THEN Plus(f[k - 1], Count(k)) ELSE f[k - 1]
    <2>1. \A k \in 1..MaxMatches : k - 1 \in 0..MaxMatches
        BY <1>1
    <2> QED
        BY <1>6, <2>1
<1>8. f = body(f)
    <2>1. \A k \in 0..MaxMatches : k = 0 \/ k \in 1..MaxMatches
        BY <1>1
    <2>2. \A k \in 0..MaxMatches : f[k] = body(f)[k]
        BY <1>6, <1>7, <2>1
    <2> QED
        BY <2>2
<1>9. sum = body(sum)
    BY <1>8
<1> HIDE DEF sum
<1>10. /\ sum[0] = Zero
       /\ \A k \in 1..MaxMatches :
              sum[k] = IF k \in S THEN Plus(sum[k - 1], Count(k)) ELSE sum[k - 1]
    <2>1. 0 \in 0..MaxMatches /\ \A k \in 1..MaxMatches : k \in 0..MaxMatches /\ k # 0
        BY <1>1
    <2>2. \A k \in 0..MaxMatches : sum[k] = body(sum)[k]
        BY <1>9
    <2> QED
        BY <2>1, <2>2
<1> DEFINE P == {k \in 0..MaxMatches : sum[k] \in Sums}
<1>11. 0..MaxMatches \subseteq P
    <2>1. 0 \in P
        BY <1>1, <1>5, <1>10
    <2>2. ASSUME NEW k \in 1..MaxMatches, k - 1 \in P PROVE k \in P
        <3>1. sum[k - 1] \in Sums /\ k \in 0..MaxMatches
            BY <1>1, <2>2
        <3>2. k \in S => Plus(sum[k - 1], Count(k)) \in Sums
            BY <1>3, <3>1, SumsAre
        <3>3. sum[k] = Plus(sum[k - 1], Count(k)) \/ sum[k] = sum[k - 1]
            BY <1>10
        <3>4. sum[k] = Plus(sum[k - 1], Count(k)) => k \in S \/ sum[k] = sum[k - 1]
            BY <1>10
        <3>5. sum[k] \in Sums
            BY <3>1, <3>2, <3>3, <3>4
        <3> QED
            BY <3>1, <3>5
    <2> HIDE DEF P
    <2> QED
        BY <1>1, <2>1, <2>2, UpTo
<1> QED
    BY <1>2, <1>10, <1>11

\* The sum over a set of matches, one match at a time.
LEMMA SumsOfSets ==
    ASSUME ViewsTypeOK
    PROVE  /\ SumOf({}) = Zero
           /\ \A S \in SUBSET Matches : SumOf(S) \in Sums
           /\ \A S \in SUBSET Matches : \A n \in Matches \ S :
                 SumOf(S \cup {n}) = Plus(SumOf(S), Count(n))
<1>1. MaxMatches \in Nat /\ MaxMatches \in 0..MaxMatches
      /\ \A n \in Matches : n \in 1..MaxMatches
    BY MatchesAre, MatchesAssumption
<1>2. \A S \in SUBSET Matches : SumOf(S) \in Sums
    BY <1>1, SumUpToIs DEF SumOf
<1>3. SumOf({}) = Zero
    <2> DEFINE sum == SumUpTo({})
               P == {k \in 0..MaxMatches : sum[k] = Zero}
    <2>1. sum[0] = Zero /\ \A k \in 1..MaxMatches : sum[k] = sum[k - 1]
        BY SumUpToIs
    <2> HIDE DEF sum
    <2>2. 0 \in P /\ \A k \in 1..MaxMatches : k - 1 \in P => k \in P
        BY <1>1, <2>1
    <2> HIDE DEF P
    <2>3. 0..MaxMatches \subseteq P
        BY <1>1, <2>2, UpTo
    <2> QED
        BY <1>1, <2>3 DEF P, SumOf, sum
<1>4. ASSUME NEW S \in SUBSET Matches, NEW n \in Matches \ S
      PROVE  SumOf(S \cup {n}) = Plus(SumOf(S), Count(n))
    <2> DEFINE T == S \cup {n}
               old == SumUpTo(S)
               new == SumUpTo(T)
               P == {k \in 0..MaxMatches :
                        new[k] = IF n <= k THEN Plus(old[k], Count(n)) ELSE old[k]}
    <2>1. n \in 1..MaxMatches /\ Count(n) \in Sums /\ n \in Nat
        BY <1>1, CountIs
    <2>2. T \in SUBSET Matches
        OBVIOUS
    <2>3. /\ old[0] = Zero
          /\ \A k \in 1..MaxMatches :
                old[k] = IF k \in S THEN Plus(old[k - 1], Count(k)) ELSE old[k - 1]
          /\ \A k \in 0..MaxMatches : old[k] \in Sums
        BY SumUpToIs
    <2>4. /\ new[0] = Zero
          /\ \A k \in 1..MaxMatches :
                new[k] = IF k \in T THEN Plus(new[k - 1], Count(k)) ELSE new[k - 1]
        BY <2>2, SumUpToIs
    <2> HIDE DEF old, new
    <2>5. 0 \in P
        BY <1>1, <2>1, <2>3, <2>4
    <2>6. ASSUME NEW k \in 1..MaxMatches, k - 1 \in P PROVE k \in P
        <3>1. /\ k \in Nat /\ k \in 0..MaxMatches /\ k - 1 \in 0..MaxMatches
              /\ (k = n => n <= k /\ ~(n <= k - 1))
              /\ (k # n => (n <= k <=> n <= k - 1))
            BY <1>1, <2>1
        <3>2. new[k - 1] = IF n <= k - 1 THEN Plus(old[k - 1], Count(n)) ELSE old[k - 1]
            BY <2>6
        <3>3. old[k - 1] \in Sums
            BY <2>3, <3>1
        <3>4. CASE k = n
            BY <2>3, <2>4, <3>1, <3>2, <3>4
        <3>5. CASE k # n /\ k \notin S
            BY <2>3, <2>4, <3>1, <3>2, <3>5
        <3>6. CASE k # n /\ k \in S
            <4>1. Count(k) \in Sums
                BY CountIs, <3>6
            <4>2. Plus(Plus(old[k - 1], Count(n)), Count(k))
                     = Plus(Plus(old[k - 1], Count(k)), Count(n))
                BY <2>1, <3>3, <4>1, SumsAre
            <4> QED
                BY <2>3, <2>4, <3>1, <3>2, <3>6, <4>2
        <3> QED
            BY <3>4, <3>5, <3>6
    <2> HIDE DEF P
    <2>7. 0..MaxMatches \subseteq P
        BY <1>1, <2>5, <2>6, UpTo
    <2>8. new[MaxMatches] = Plus(old[MaxMatches], Count(n))
        <3>1. n <= MaxMatches
            BY <1>1, <2>1
        <3> QED
            BY <1>1, <2>7, <3>1 DEF P
    <2> QED
        BY <2>8 DEF SumOf, old, new
<1> QED
    BY <1>2, <1>3, <1>4

\* The matches that the queue holds after the k-th, behind the first b.
Queued(b, k) == (b + 1 + (IF k > Window THEN k - Window ELSE 0))..(b + k)

\* The queue of build_match_trends takes the next match and, once it is full,
\* drops the oldest one.
LEMMA QueueMoves ==
    ASSUME NEW b \in Nat, NEW k \in Nat \ {0}
    PROVE  /\ Queued(b, 0) = {}
           /\ b + k \notin Queued(b, k - 1)
           /\ ~(k > Window) => Queued(b, k) = Queued(b, k - 1) \cup {b + k}
           /\ k > Window => /\ b + (k - Window) \notin Queued(b, k)
                            /\ Queued(b, k) \cup {b + (k - Window)}
                                  = Queued(b, k - 1) \cup {b + k}
<1>1. Window \in Nat /\ Window # 0
    BY WindowAssumption
<1>2. Queued(b, 0) = {}
    BY <1>1 DEF Queued
<1>3. b + k \notin Queued(b, k - 1)
    BY <1>1 DEF Queued
<1>4. ASSUME ~(k > Window) PROVE Queued(b, k) = Queued(b, k - 1) \cup {b + k}
    <2>1. Queued(b, k) = (b + 1)..(b + k) /\ Queued(b, k - 1) = (b + 1)..(b + (k - 1))
        BY <1>1, <1>4 DEF Queued
    <2> QED
        BY <2>1
<1>5. ASSUME k > Window
      PROVE  /\ b + (k - Window) \notin Queued(b, k)
             /\ Queued(b, k) \cup {b + (k - Window)} = Queued(b, k - 1) \cup {b + k}
    <2>1. Queued(b, k) = (b + 1 + (k - Window))..(b + k)
        BY <1>1, <1>5 DEF Queued
    <2>2. Queued(b, k - 1) = (b + (k - Window))..(b + k - 1)
        BY <1>1, <1>5 DEF Queued
    <2> QED
        BY <1>1, <1>5, <2>1, <2>2
<1> QED
    BY <1>2, <1>3, <1>4, <1>5

\* q matches, one after the other, behind the first b.
Run(b, q) == [i \in 1..q |-> b + i]

\* The running sums are those of the matches in the queue.
LEMMA RunningSumsAre ==
    ASSUME ViewsTypeOK, NEW b \in Nat, NEW q \in Nat, b + q <= Len(played)
    PROVE  \A k \in 0..q : RunningSums(Run(b, q))[k] = SumOf(Queued(b, k))
<1> DEFINE ordered == Run(b, q)
<1> DEFINE body(g) == [k \in 0..Len(ordered) |->
                IF k = 0 THEN Zero
                ELSE LET added == Plus(g[k - 1], Count(ordered[k]))
                     IN  IF k > Window THEN Minus(added, Count(ordered[k - Window]))
                                       ELSE added]
           sums == CHOOSE g : g = body(g)
           step == [k \in 1..q |-> [d \in Sums |->
                      IF k > Window THEN Minus(Plus(d, Count(b + k)), Count(b + (k - Window)))
                                    ELSE Plus(d, Count(b + k))]]
<1>1. /\ Len(ordered) = q /\ Window \in Nat /\ Window # 0
      /\ \A i \in 1..q : ordered[i] = b + i
    BY WindowAssumption DEF Run
<1> HIDE DEF ordered
<1>2. RunningSums(ordered) = sums
    BY DEF RunningSums, ordered
<1>3. \A i \in 1..q : b + i \in Matches /\ Count(b + i) \in Sums
    <2>1. Matches = 1..Len(played) /\ Len(played) \in Nat
        BY MatchesAre
    <2>2. \A i \in 1..q : b + i \in 1..Len(played)
        BY <2>1
    <2> QED
        BY <2>1, <2>2, CountIs
<1>4. \A k \in 1..q : /\ k \in Nat \ {0} /\ k - 1 \in 0..q /\ k \in 0..q
                      /\ k > Window => k - Window \in 1..q
    BY <1>1
<1>5. step \in NextValues(q, Sums)
    <2>1. ASSUME NEW k \in 1..q, NEW d \in Sums
          PROVE  /\ Plus(d, Count(b + k)) \in Sums
                 /\ k > Window => Minus(Plus(d, Count(b + k)), Count(b + (k - Window))) \in Sums
        <3>1. Count(b + k) \in Sums /\ Plus(d, Count(b + k)) \in Sums
            BY <1>3, SumsAre
        <3>2. k > Window => Count(b + (k - Window)) \in Sums
            BY <1>3, <1>4
        <3> QED
            BY <3>1, <3>2, SumsAre
    <2> QED
        BY <2>1 DEF NextValues
<1>6. HasRecursion(q, Sums, Zero, step)
    <2> HIDE DEF step
    <2> QED
        BY <1>5, SumsAre, RecursionExists
<1>7. PICK f \in [0..q -> Sums] : /\ f[0] = Zero
                                 /\ \A k \in 1..q : f[k] = step[k][f[k - 1]]
    BY <1>6 DEF HasRecursion
<1>8. f = body(f)
    <2>1. \A k \in 1..q : f[k] = body(f)[k]
        BY <1>1, <1>4, <1>7
    <2>2. \A k \in 0..q : k = 0 \/ k \in 1..q
        OBVIOUS
    <2>3. \A k \in 0..q : f[k] = body(f)[k]
        BY <1>1, <1>7, <2>1, <2>2
    <2>4. body(f) = [k \in 0..q |-> body(f)[k]]
        BY <1>1
    <2> HIDE DEF body
    <2> QED
        BY <2>3, <2>4
<1>9. sums = body(sums)
    BY <1>8
<1> HIDE DEF sums
<1>10. /\ sums[0] = Zero
       /\ \A k \in 1..q :
             LET added == Plus(sums[k - 1], Count(b + k))
             IN  sums[k] = IF k > Window THEN Minus(added, Count(b + (k - Window))) ELSE added
    <2>1. \A k \in 0..q : sums[k] = body(sums)[k]
        BY <1>1, <1>9
    <2>2. 0 \in 0..q /\ \A k \in 1..q : k # 0
        OBVIOUS
    <2> QED
        BY <1>1, <1>4, <2>1, <2>2
<1> DEFINE P == {k \in 0..q : sums[k] = SumOf(Queued(b, k))}
<1>11. 0 \in P
    <2>1. Queued(b, 0) = {}
        BY <1>1 DEF Queued
    <2>2. SumOf({}) = Zero
        BY SumsOfSets
    <2>3. sums[0] = SumOf(Queued(b, 0))
        BY <1>10, <2>1, <2>2
    <2> QED
        BY <2>3
<1>12. ASSUME NEW k \in 1..q, k - 1 \in P PROVE k \in P
    <2> DEFINE old == Queued(b, k - 1)
               new == Queued(b, k)
    <2>1. old \in SUBSET Matches /\ new \in SUBSET Matches
        <3>1. Matches = 1..Len(played) /\ Len(played) \in Nat
            BY MatchesAre
        <3>2. \A n \in old \cup new : n \in 1..Len(played)
            BY <1>1, <3>1 DEF Queued
        <3> QED
            BY <3>1, <3>2
    <2>2. b + k \in Matches \ old
        BY <1>3, <1>4, QueueMoves
    <2>3. sums[k - 1] = SumOf(old)
        BY <1>12
    <2>8. /\ ~(k > Window) => new = old \cup {b + k}
          /\ k > Window => /\ b + (k - Window) \notin new
                           /\ new \cup {b + (k - Window)} = old \cup {b + k}
        BY <1>4, QueueMoves
    <2> HIDE DEF old, new
    <2>4. SumOf(old \cup {b + k}) = Plus(SumOf(old), Count(b + k))
        BY <2>1, <2>2, SumsOfSets
    <2>5. CASE ~(k > Window)
        BY <1>4, <1>10, <2>3, <2>4, <2>5, <2>8 DEF new
    <2>6. CASE k > Window
        <3> DEFINE m == b + (k - Window)
        <3>1. m \in Matches \ new /\ new \cup {m} = old \cup {b + k} /\ Count(m) \in Sums
            BY <1>3, <1>4, <2>6, <2>8
        <3>2. sums[k] = Minus(Plus(SumOf(old), Count(b + k)), Count(m))
            BY <1>10, <2>3, <2>6
        <3> HIDE DEF m
        <3>3. SumOf(new \cup {m}) = Plus(SumOf(new), Count(m))
            BY <2>1, <3>1, SumsOfSets
        <3>4. SumOf(new) \in Sums
            BY <2>1, SumsOfSets
        <3>5. sums[k] = Minus(Plus(SumOf(new), Count(m)), Count(m))
            BY <2>4, <3>1, <3>2, <3>3
        <3>6. sums[k] = SumOf(new)
            BY <3>1, <3>4, <3>5, SumsAre
        <3> QED
            BY <1>4, <3>6 DEF new
    <2> QED
        BY <2>5, <2>6
<1> HIDE DEF P
<1>13. 0..q \subseteq P
    BY <1>11, <1>12, UpTo
<1> QED
    BY <1>2, <1>13 DEF P, ordered

\* The newest w of the first l matches.
LEMMA NewestUpTo ==
    ASSUME NEW l \in Nat, NEW w \in Nat
    PROVE  Newest(1..l, w) = {n \in 1..l : l - n < w}
<1>1. ASSUME NEW n \in 1..l PROVE Cardinality(Above(1..l, n)) = l - n
    <2>1. Above(1..l, n) = (n + 1)..l
        BY DEF Above
    <2>2. Cardinality((n + 1)..l) = IF n + 1 <= l THEN l - (n + 1) + 1 ELSE 0
        BY FS_Interval
    <2> QED
        BY <2>1, <2>2
<1> QED
    BY <1>1 DEF Newest

\* The matches that a trend is made from: the last of all that were played.
LEMMA OrderedAre ==
    ASSUME ViewsTypeOK, NEW rows \in LoadedRows
    PROVE  LET all == OldestFirst(In(Eligible(rows, TRUE, TRUE)))
               cut == Len(all) - Lesser(Len(all), Points + Window - 1)
               q == Lesser(Len(played), Points + Window - 1)
           IN  SubSeq(all, cut + 1, Len(all)) = Run(Len(played) - q, q)
<1> DEFINE S == In(rows)
           all == OldestFirst(In(Eligible(rows, TRUE, TRUE)))
           c == Cardinality(S)
           l == Len(played)
           q == Lesser(l, Points + Window - 1)
           cut == c - Lesser(c, Points + Window - 1)
<1>1. /\ Falling(rows) /\ S \in SUBSET Matches /\ Newest(Matches, LoadSize) \subseteq S
    BY LoadedAre
<1>2. l \in Nat /\ Matches = 1..l
    BY MatchesAre
<1>3. Matches \in SUBSET Nat /\ IsFiniteSet(Matches) /\ Cardinality(Matches) = l
    BY MatchesAre
<1>4. In(Eligible(rows, TRUE, TRUE)) = S
    <2>1. \A n \in Matches : played[n].end \in Allowed(TRUE, TRUE)
        BY MatchesAre DEF Allowed
    <2>2. {n \in Matches : played[n].end \in Allowed(TRUE, TRUE)} = Matches
        BY <2>1
    <2>3. In(Eligible(rows, TRUE, TRUE)) = S \cap Matches
        BY <1>1, <2>2, ThoseAre DEF Eligible
    <2> QED
        BY <1>1, <2>3
<1>5. LoadSize \in Nat /\ LoadSize = Points + Window - 1
    BY WindowAssumption DEF LoadSize
<1>20. q \in Nat /\ q <= l /\ (q = l \/ q = LoadSize) /\ q <= LoadSize
    BY <1>2, <1>5, LesserIs
<1>6. all = OldestFirst(S)
    BY <1>4
<1> HIDE DEF S, all, l
<1>7. S \in SUBSET Nat /\ IsFiniteSet(S)
    BY <1>1, <1>3, FS_Subset
<1>8. /\ Len(all) = c /\ c \in Nat /\ all \in Seq(S)
      /\ \A n \in S : all[Cardinality(Below(S, n)) + 1] = n
    BY <1>6, <1>7, OldestFirstIs
<1> HIDE DEF c, q
<1>9. \A n \in 1..l : l - n < q => n \in S
    <2>1. Newest(1..l, LoadSize) = {n \in 1..l : l - n < LoadSize}
        BY <1>2, <1>5, NewestUpTo
    <2>2. \A n \in 1..l : l - n < q => l - n < LoadSize
        BY <1>2, <1>5, <1>20
    <2> QED
        BY <1>1, <1>2, <2>1, <2>2
<1>10. Lesser(c, Points + Window - 1) = q
    <2>1. c <= l
        BY <1>1, <1>3, FS_Subset DEF c
    <2>2. Newest(Matches, LoadSize) \in SUBSET S
        BY <1>1
    <2>3. Cardinality(Newest(Matches, LoadSize)) = Lesser(LoadSize, l)
        BY <1>3, <1>5, NewestAre
    <2>4. Lesser(LoadSize, l) <= c
        BY <1>7, <2>2, <2>3, FS_Subset DEF c
    <2> QED
        BY <1>2, <1>5, <1>8, <2>1, <2>4 DEF Lesser, q
<1>11. q <= c
    BY <1>5, <1>8, <1>10, LesserIs
<1>12. cut = c - q /\ cut \in Nat
    BY <1>8, <1>10, <1>11, <1>20
<1>13. ASSUME NEW i \in 1..q PROVE all[cut + i] = (l - q) + i
    <2> DEFINE n == (l - q) + i
    <2>1. n \in 1..l /\ n \in Nat /\ l - n < q /\ l - n = q - i
        BY <1>2, <1>20
    <2>2. n \in S
        BY <1>9, <2>1
    <2> HIDE DEF n
    <2>3. S \ Below(S, n) = n..l
        <3>1. \A m \in n..l : m \in 1..l /\ l - m < q /\ ~(m < n)
            BY <1>2, <1>20, <2>1
        <3>2. \A m \in n..l : m \in S
            BY <1>9, <3>1
        <3>3. \A m \in S : m \in Nat /\ m <= l
            BY <1>1, <1>2
        <3>4. \A m \in S : ~(m < n) => m \in n..l
            BY <1>2, <2>1, <3>3
        <3> QED
            BY <3>1, <3>2, <3>4 DEF Below
    <2>4. Cardinality(n..l) = l - n + 1
        BY <1>2, <2>1, FS_Interval
    <2>5. Below(S, n) \in SUBSET S
        BY DEF Below
    <2>6. c = Cardinality(Below(S, n)) + (l - n + 1) /\ Cardinality(Below(S, n)) \in Nat
        <3>1. /\ Cardinality(S) = Cardinality(Below(S, n)) + Cardinality(S \ Below(S, n))
              /\ Cardinality(Below(S, n)) \in Nat
            BY <1>7, <2>5, SplitSet
        <3> QED
            BY <2>3, <2>4, <3>1 DEF c
    <2>7. Cardinality(Below(S, n)) + 1 = cut + i
        BY <1>2, <1>8, <1>12, <1>20, <2>1, <2>6
    <2> QED
        BY <1>8, <2>2, <2>7 DEF n
<1> HIDE DEF cut
<1>14. SubSeq(all, cut + 1, c) = [i \in 1..q |-> (l - q) + i]
    <2>1. 1 \in Nat /\ cut + 1 \in 1..(c + 1) /\ c - (cut + 1) + 1 = q
        BY <1>8, <1>11, <1>12, <1>20
    <2>2. \A i \in 1..q : (cut + 1) + i - 1 = cut + i
        BY <1>12
    <2>3. SubSeq(all, cut + 1, c) = [i \in 1..(c - (cut + 1) + 1) |-> all[(cut + 1) + i - 1]]
        BY <2>1, <1>8, SubSeqProperties
    <2>4. SubSeq(all, cut + 1, c) = [i \in 1..q |-> all[cut + i]]
        BY <2>1, <2>2, <2>3
    <2> QED
        BY <1>13, <2>4
<1>15. SubSeq(all, (Len(all) - Lesser(Len(all), Points + Window - 1)) + 1, Len(all))
         = Run(l - q, q)
    BY <1>8, <1>14 DEF cut, Run
<1> QED
    BY <1>15 DEF all, q, l

\* build_match_trends: every point covers the last Window matches up to it.
LEMMA TrendsAre == ASSUME ViewsTypeOK PROVE TrendsAreWindows
<1> SUFFICES ASSUME NEW rows \in LoadedRows
             PROVE  LET trend == MatchTrends(rows)
                        upTo(n) == {m \in Matches : m <= n}
                    IN  /\ Len(trend) = Lesser(Points, Len(played))
                        /\ \A k \in DOMAIN trend :
                              /\ trend[k].match = Len(played) - Len(trend) + k
                              /\ trend[k].sums = SumOf(In(NewestOf(upTo(trend[k].match), Window)))
                              /\ trend[k].matches = Lesser(Window, trend[k].match)
    BY DEF TrendsAreWindows
<1> DEFINE l == Len(played)
           q == Lesser(l, Points + Window - 1)
           b == l - q
           ordered == Run(b, q)
           sums == RunningSums(ordered)
           skipped == q - Lesser(q, Points)
           p == Lesser(Points, l)
           trend == MatchTrends(rows)
           upTo(n) == {m \in Matches : m <= n}
<1>1. /\ l \in Nat /\ Matches = 1..l
    BY MatchesAre
<1>2. Points \in Nat /\ Points # 0 /\ Window \in Nat /\ Window # 0
    BY WindowAssumption
<1> HIDE DEF l
<1>20. l = Len(played)
    BY DEF l
<1>3. Len(ordered) = q
    <2>1. q \in Nat
        BY <1>1, <1>2 DEF Lesser
    <2> HIDE DEF q
    <2> QED
        BY <2>1 DEF Run
<1>4. trend = [k \in 1..(q - skipped) |->
                  [match |-> ordered[skipped + k],
                   sums |-> sums[skipped + k],
                   matches |-> Lesser(skipped + k, Window)]]
    <2>1. LET all == OldestFirst(In(Eligible(rows, TRUE, TRUE)))
              cut == Len(all) - Lesser(Len(all), Points + Window - 1)
          IN  SubSeq(all, cut + 1, Len(all)) = ordered
        BY OrderedAre DEF l
    <2> HIDE DEF ordered, q
    <2> QED
        BY <1>3, <2>1 DEF MatchTrends
<1>5. /\ q \in Nat /\ b \in Nat /\ b + q = l /\ p \in Nat /\ skipped \in Nat /\ q - skipped = p
      /\ b = 0 \/ skipped + 1 >= Window
      /\ skipped + p = q
    <2>1. q = IF l < Points + Window - 1 THEN l ELSE Points + Window - 1
        BY DEF Lesser
    <2>2. p = IF Points < l THEN Points ELSE l
        BY DEF Lesser
    <2>3. skipped = q - (IF q < Points THEN q ELSE Points)
        BY DEF Lesser
    <2>4. b = l - q
        OBVIOUS
    <2> HIDE DEF q, p, skipped, b
    <2>5. q \in Nat /\ q <= l /\ (q = l \/ q >= Points + Window - 1) /\ q <= Points + Window - 1
        BY <1>1, <1>2, <2>1
    <2>6. CASE q < Points
        BY <1>1, <1>2, <2>2, <2>3, <2>4, <2>5, <2>6
    <2>7. CASE ~(q < Points)
        BY <1>1, <1>2, <2>2, <2>3, <2>4, <2>5, <2>7
    <2> QED
        BY <2>6, <2>7
<1> HIDE DEF q, skipped, p, b
<1>6. \A k \in 0..q : sums[k] = SumOf(Queued(b, k))
    <2>1. b + q <= Len(played)
        BY <1>1, <1>5, <1>20
    <2> QED
        BY <1>5, <2>1, RunningSumsAre
<1>7. \A k \in 1..p : skipped + k \in 1..q /\ skipped + k \in 0..q
    BY <1>5
<1> HIDE DEF sums
<1>8. /\ Len(trend) = p /\ DOMAIN trend = 1..p
      /\ \A k \in 1..p : trend[k] = [match |-> b + (skipped + k), sums |-> sums[skipped + k],
                                      matches |-> Lesser(skipped + k, Window)]
    <2>1. trend = [k \in 1..p |-> [match |-> b + (skipped + k), sums |-> sums[skipped + k],
                                   matches |-> Lesser(skipped + k, Window)]]
        BY <1>4, <1>5, <1>7 DEF Run
    <2> HIDE DEF trend
    <2>2. \A r : r = [k \in 1..p |-> [match |-> b + (skipped + k), sums |-> sums[skipped + k],
                                   matches |-> Lesser(skipped + k, Window)]]
                => Len(r) = p
        BY <1>5
    <2>3. Len(trend) = p
        BY <2>1, <2>2
    <2> QED
        BY <2>1, <2>3
<1> HIDE DEF trend
<1>9. ASSUME NEW k \in 1..p
      PROVE  /\ trend[k].match = l - p + k
             /\ trend[k].sums = SumOf(In(NewestOf(upTo(trend[k].match), Window)))
             /\ trend[k].matches = Lesser(Window, trend[k].match)
    <2> DEFINE n == b + (skipped + k)
               j == skipped + k
    <2>1. trend[k].match = n /\ trend[k].sums = SumOf(Queued(b, j))
          /\ trend[k].matches = Lesser(j, Window)
        BY <1>6, <1>7, <1>8
    <2>2. n \in 1..l /\ n \in Nat /\ j \in Nat /\ n = l - p + k /\ n = b + j
        BY <1>1, <1>5
    <2>3. b = 0 \/ j >= Window
        BY <1>2, <1>5
    <2> HIDE DEF n, j
    <2>4. upTo(n) = 1..n
        BY <1>1, <2>2
    <2>5. Newest(1..n, Window) = {m \in 1..n : n - m < Window}
        BY <1>2, <2>2, NewestUpTo
    <2>6. {m \in 1..n : n - m < Window} = Queued(b, j)
        BY <1>2, <1>5, <2>2, <2>3 DEF Queued
    <2>7. In(NewestOf(1..n, Window)) = Newest(1..n, Window)
        <3>1. 1..n \in SUBSET Nat /\ IsFiniteSet(1..n)
            BY <2>2, FS_Interval
        <3> QED
            BY <1>2, <3>1, NewestOfIs
    <2>8. Lesser(j, Window) = Lesser(Window, n)
        BY <1>2, <1>5, <2>2, <2>3 DEF Lesser
    <2> HIDE DEF upTo
    <2> QED
        BY <2>1, <2>2, <2>4, <2>5, <2>6, <2>7, <2>8
<1>10. /\ Len(trend) = Lesser(Points, l)
       /\ \A k \in DOMAIN trend :
              /\ trend[k].match = l - Len(trend) + k
              /\ trend[k].sums = SumOf(In(NewestOf(upTo(trend[k].match), Window)))
              /\ trend[k].matches = Lesser(Window, trend[k].match)
    BY <1>8, <1>9 DEF p
<1> QED
    BY <1>10 DEF trend, l

\* compare_match_groups: improvement one way is decline the other way.
LEMMA StatusMirrors ==
    ASSUME ViewsTypeOK, NEW S \in SUBSET Matches, NEW T \in SUBSET Matches,
           NEW d \in {"higher", "lower", "context"}
    PROVE  /\ Status(S, T, d) \in {"unavailable", "same", "context", "improved", "declined"}
           /\ Status(S, T, d) = IF Status(T, S, d) = "improved" THEN "declined"
                                ELSE IF Status(T, S, d) = "declined" THEN "improved"
                                ELSE Status(T, S, d)
<1> DEFINE s == SumOf(S)
           t == SumOf(T)
           x == t.total * s.observed
           y == s.total * t.observed
<1>1. s \in Sums /\ t \in Sums
    BY SumsOfSets
<1>2. /\ s.total \in Int /\ s.observed \in Int /\ t.total \in Int /\ t.observed \in Int
    BY <1>1 DEF Sums
<1>3. x \in Int /\ y \in Int
    BY <1>2
<1>4. Status(S, T, d) = IF t.observed = 0 \/ s.observed = 0 THEN "unavailable"
                        ELSE IF x - y = 0 THEN "same"
                        ELSE IF d = "context" THEN "context"
                        ELSE IF (x - y > 0) = (d = "higher") THEN "improved"
                        ELSE "declined"
    BY DEF Status
<1>5. Status(T, S, d) = IF s.observed = 0 \/ t.observed = 0 THEN "unavailable"
                        ELSE IF y - x = 0 THEN "same"
                        ELSE IF d = "context" THEN "context"
                        ELSE IF (y - x > 0) = (d = "higher") THEN "improved"
                        ELSE "declined"
    BY DEF Status
<1> HIDE DEF s, t, x, y
<1>6. (x - y = 0 <=> y - x = 0) /\ (x - y # 0 => (x - y > 0 <=> ~(y - x > 0)))
    BY <1>3
<1>7. CASE t.observed = 0 \/ s.observed = 0 \/ x - y = 0 \/ d = "context"
    BY <1>4, <1>5, <1>6, <1>7
<1>8. CASE /\ ~(t.observed = 0 \/ s.observed = 0) /\ x - y # 0 /\ d # "context"
           /\ x - y > 0
    <2>1. x - y > 0 /\ ~(y - x > 0) /\ y - x # 0
        BY <1>6, <1>8
    <2>2. Status(S, T, d) = IF d = "higher" THEN "improved" ELSE "declined"
        BY <1>4, <1>8, <2>1
    <2>3. Status(T, S, d) = IF d = "higher" THEN "declined" ELSE "improved"
        BY <1>5, <1>8, <2>1
    <2> QED
        BY <2>2, <2>3
<1>9. CASE /\ ~(t.observed = 0 \/ s.observed = 0) /\ x - y # 0 /\ d # "context"
           /\ ~(x - y > 0)
    <2>1. ~(x - y > 0) /\ y - x > 0 /\ y - x # 0
        BY <1>6, <1>9
    <2>2. Status(S, T, d) = IF d = "higher" THEN "declined" ELSE "improved"
        BY <1>4, <1>9, <2>1
    <2>3. Status(T, S, d) = IF d = "higher" THEN "improved" ELSE "declined"
        BY <1>5, <1>9, <2>1
    <2> QED
        BY <2>2, <2>3
<1> QED
    BY <1>7, <1>8, <1>9

\* compare_match_groups: so is the whole result, errors included.
LEMMA ComparisonsMirror == ASSUME ViewsTypeOK PROVE ComparisonMirrors
<1> DEFINE rows == LoadRecentModes(MaxMatches)
<1> SUFFICES ASSUME NEW before \in SUBSET Matches, NEW after \in SUBSET Matches,
                    NEW d \in {"higher", "lower", "context"}
             PROVE  CompareGroups(rows, before, after, TRUE, FALSE, d)
                       = Mirrored(CompareGroups(rows, after, before, TRUE, FALSE, d))
    BY DEF ComparisonMirrors
<1> HIDE DEF rows
<1> DEFINE kept(S) == {n \in S : played[n].end \in Allowed(TRUE, FALSE)}
           forth == CompareGroups(rows, before, after, TRUE, FALSE, d)
           back == CompareGroups(rows, after, before, TRUE, FALSE, d)
           known == before \cup after \subseteq In(rows)
<1>1. forth = IF before = {} \/ after = {} THEN Fails("empty")
              ELSE IF before \cap after # {} THEN Fails("overlap")
              ELSE IF ~ known THEN Fails("unknown")
              ELSE IF kept(before) = {} \/ kept(after) = {} THEN Fails("no_match_left")
              ELSE Succeeds(<<Status(kept(before), kept(after), d)>>)
    BY DEF CompareGroups
<1>2. back = IF before = {} \/ after = {} THEN Fails("empty")
             ELSE IF before \cap after # {} THEN Fails("overlap")
             ELSE IF ~ known THEN Fails("unknown")
             ELSE IF kept(before) = {} \/ kept(after) = {} THEN Fails("no_match_left")
             ELSE Succeeds(<<Status(kept(after), kept(before), d)>>)
    <2>1. before \cup after = after \cup before /\ before \cap after = after \cap before
        OBVIOUS
    <2> QED
        BY <2>1 DEF CompareGroups
<1>3. kept(before) \in SUBSET Matches /\ kept(after) \in SUBSET Matches
    OBVIOUS
<1> DEFINE there == Status(kept(before), kept(after), d)
           here == Status(kept(after), kept(before), d)
<1> HIDE DEF kept
<1>4. /\ here \in {"unavailable", "same", "context", "improved", "declined"}
      /\ there = IF here = "improved" THEN "declined"
                 ELSE IF here = "declined" THEN "improved" ELSE here
    BY <1>3, StatusMirrors
<1> HIDE DEF there, here, known, forth, back
<1>5. ASSUME NEW error \in {"empty", "overlap", "unknown", "no_match_left"}
      PROVE  Mirrored(Fails(error)) = Fails(error)
    BY DEF Mirrored, Fails, Succeeds
<1>6. \A a, b : Succeeds(<<a>>) = Succeeds(<<b>>) <=> a = b
    <2>1. \A a, b : <<a>> = <<b>> <=> a = b
        OBVIOUS
    <2>2. \A r, s : Succeeds(r) = Succeeds(s) <=> r = s
        BY DEF Succeeds
    <2> QED
        BY <2>1, <2>2
<1>7. Mirrored(Succeeds(<<here>>)) = Succeeds(<<there>>)
    BY <1>4, <1>6 DEF Mirrored
<1>8. forth = Mirrored(back)
    BY <1>1, <1>2, <1>5, <1>7 DEF there, here
<1> QED
    BY <1>8 DEF forth, back

\* All views of the matches are right whatever was played.
LEMMA ViewsMatch == ViewsTypeOK => ViewsMatchReference
BY SamplesAre, RangesAre, HistoriesAre, HistoriesAreApart, TrendsAre, ComparisonsMirror
   DEF ViewsMatchReference

\* The matches played keep their types.
LEMMA ViewsTypesAreRight == ViewsSpec => []ViewsTypeOK
<1>1. ViewsInit => ViewsTypeOK
    BY MatchesAssumption DEF ViewsInit, ViewsTypeOK
<1> QED
    BY <1>1, ViewsKeepTypes, PTL DEF ViewsSpec

\* load_recent_modes, select_match_sample, previous_matches, mode_history,
\* build_match_trends and compare_match_groups: samples, ranges, histories,
\* moving windows and comparisons are those of the matches really played, for
\* any number of matches and points and any window and history limit.
THEOREM ViewsAreRight == ViewsSpec => []ViewsMatchReference
BY ViewsMatch, ViewsTypesAreRight, PTL

-----------------------------------------------------------------------------
(* DomainScores: weights, scores and the advice made of them *)

Places == 1..6
SectionNames == {"total", "zones", "types", "success"}

\* The six metrics, with their sections and areas.
LEMMA MetricsAre ==
    /\ Len(Metric) = 6 /\ DOMAIN Metric = Places
    /\ \A k \in Places : /\ Metric[k].section \in SectionNames
                         /\ Metric[k].area \in ScoreAreaSet
<1>1. Len(Metric) = 6 /\ DOMAIN Metric = Places
    BY DEF Metric, Places
<1>2. \A k \in Places : k = 1 \/ k = 2 \/ k = 3 \/ k = 4 \/ k = 5 \/ k = 6
    BY DEF Places
<1>3. /\ Metric[1].section = "total" /\ Metric[2].section = "zones" /\ Metric[3].section = "zones"
      /\ Metric[4].section = "types" /\ Metric[5].section = "success" /\ Metric[6].section = "success"
    BY DEF Metric
<1>4. /\ Metric[1].area = "shooting" /\ Metric[2].area = "shooting" /\ Metric[3].area = "shooting"
      /\ Metric[4].area = "shooting" /\ Metric[5].area = "defending" /\ Metric[6].area = "defending"
    BY DEF Metric
<1> QED
    BY <1>1, <1>2, <1>3, <1>4 DEF SectionNames, ScoreAreaSet

AreNumbers(f) == DOMAIN f \subseteq Places /\ \A k \in DOMAIN f : f[k] \in Int

\* The sum of numbers, metric by metric.
LEMMA SumUntilIs ==
    ASSUME NEW f, AreNumbers(f)
    PROVE  LET sum == SumUntil(f)
           IN  /\ sum[0] = 0
               /\ \A k \in Places :
                     sum[k] = IF k \in DOMAIN f THEN sum[k - 1] + f[k] ELSE sum[k - 1]
               /\ \A k \in 0..6 : sum[k] \in Int
               /\ SumOver(f) = sum[6]
<1> DEFINE body(g) == [k \in 0..Len(Metric) |->
                          IF k = 0 THEN 0
                          ELSE IF k \in DOMAIN f THEN g[k - 1] + f[k] ELSE g[k - 1]]
           sum == CHOOSE g : g = body(g)
           step == [k \in 1..6 |->
                       [d \in Int |-> IF k \in DOMAIN f THEN d + f[k] ELSE d]]
<1>1. Len(Metric) = 6 /\ DOMAIN f \subseteq Places /\ \A k \in DOMAIN f : f[k] \in Int
    BY MetricsAre DEF AreNumbers
<1>2. SumUntil(f) = sum /\ SumOver(f) = sum[6]
    BY <1>1 DEF SumUntil, SumOver
<1>3. step \in NextValues(6, Int)
    BY <1>1 DEF NextValues
<1>4. HasRecursion(6, Int, 0, step)
    <2> HIDE DEF step
    <2>1. 6 \in Nat /\ 0 \in Int
        OBVIOUS
    <2> QED
        BY <1>3, <2>1, RecursionExists
<1>5. PICK h \in [0..6 -> Int] : h[0] = 0 /\ \A k \in 1..6 : h[k] = step[k][h[k - 1]]
    BY <1>4 DEF HasRecursion
<1>6. \A k \in 1..6 : /\ k \in 0..6 /\ k - 1 \in 0..6 /\ k # 0
                      /\ h[k] = IF k \in DOMAIN f THEN h[k - 1] + f[k] ELSE h[k - 1]
    <2> SUFFICES ASSUME NEW k \in 1..6
                 PROVE  /\ k \in 0..6 /\ k - 1 \in 0..6 /\ k # 0
                        /\ h[k] = IF k \in DOMAIN f THEN h[k - 1] + f[k] ELSE h[k - 1]
        OBVIOUS
    <2>1. k \in 0..6 /\ k - 1 \in 0..6 /\ k # 0
        OBVIOUS
    <2>2. h[k - 1] \in Int
        BY <1>5, <2>1
    <2>3. step[k][h[k - 1]] = IF k \in DOMAIN f THEN h[k - 1] + f[k] ELSE h[k - 1]
        BY <2>2
    <2> QED
        BY <1>5, <2>1, <2>3
<1>7. h = body(h)
    <2>1. \A k \in 0..6 : k = 0 \/ k \in 1..6
        OBVIOUS
    <2>2. \A k \in 0..6 : h[k] = body(h)[k]
        BY <1>1, <1>5, <1>6, <2>1
    <2>3. body(h) = [k \in 0..6 |-> body(h)[k]]
        BY <1>1
    <2> HIDE DEF body
    <2> QED
        BY <1>5, <2>2, <2>3
<1>8. sum = body(sum)
    BY <1>7
<1> HIDE DEF sum
<1>9. /\ sum[0] = 0
      /\ \A k \in 1..6 : sum[k] = IF k \in DOMAIN f THEN sum[k - 1] + f[k] ELSE sum[k - 1]
    <2>1. \A k \in 0..6 : sum[k] = body(sum)[k]
        BY <1>1, <1>8
    <2>2. 0 \in 0..6
        OBVIOUS
    <2> QED
        BY <1>1, <1>6, <2>1, <2>2
<1> DEFINE P == {k \in 0..6 : sum[k] \in Int}
<1>10. 0 \in P /\ \A k \in 1..6 : k - 1 \in P => k \in P
    <2>1. 0 \in P
        BY <1>9
    <2>2. ASSUME NEW k \in 1..6, k - 1 \in P PROVE k \in P
        <3>1. sum[k - 1] \in Int /\ (k \in DOMAIN f => f[k] \in Int)
            BY <1>1, <2>2
        <3>2. sum[k] = IF k \in DOMAIN f THEN sum[k - 1] + f[k] ELSE sum[k - 1]
            BY <1>9
        <3>3. sum[k] \in Int
            BY <3>1, <3>2
        <3> QED
            BY <1>6, <3>3
    <2> QED
        BY <2>1, <2>2
<1> HIDE DEF P
<1>11. 0..6 \subseteq P
    BY <1>10, UpTo
<1> QED
    BY <1>2, <1>9, <1>11 DEF P, Places

\* An induction over the metrics.
LEMMA ForAllPlaces ==
    ASSUME NEW P, 0 \in P, \A k \in Places : k - 1 \in P => k \in P
    PROVE  6 \in P
<1>1. 0..6 \subseteq P
    BY UpTo DEF Places
<1> QED
    BY <1>1

\* A sum of multiples is the multiple of the sum.
LEMMA SumTimes ==
    ASSUME NEW f, NEW g, AreNumbers(f), AreNumbers(g), DOMAIN f = DOMAIN g, NEW c \in Int,
           \A k \in DOMAIN f : f[k] = c * g[k]
    PROVE  SumOver(f) = c * SumOver(g)
<1> DEFINE x == SumUntil(f)
           y == SumUntil(g)
           P == {k \in 0..6 : x[k] = c * y[k]}
<1>1. /\ x[0] = 0 /\ SumOver(f) = x[6]
      /\ \A k \in Places : x[k] = IF k \in DOMAIN f THEN x[k - 1] + f[k] ELSE x[k - 1]
    BY SumUntilIs
<1>2. /\ y[0] = 0 /\ SumOver(g) = y[6]
      /\ \A k \in Places : y[k] = IF k \in DOMAIN f THEN y[k - 1] + g[k] ELSE y[k - 1]
      /\ \A k \in 0..6 : y[k] \in Int
    BY SumUntilIs
<1>3. \A k \in DOMAIN f : g[k] \in Int
    BY DEF AreNumbers
<1> HIDE DEF x, y
<1>4. 0 \in P
    BY <1>1, <1>2
<1>5. ASSUME NEW k \in Places, k - 1 \in P PROVE k \in P
    <2>1. k \in 0..6 /\ k - 1 \in 0..6 /\ x[k - 1] = c * y[k - 1] /\ y[k - 1] \in Int
        BY <1>2, <1>5 DEF Places
    <2>2. CASE k \in DOMAIN f
        <3>1. g[k] \in Int /\ f[k] = c * g[k]
            BY <1>3, <2>2
        <3>2. x[k] = c * y[k - 1] + c * g[k] /\ y[k] = y[k - 1] + g[k]
            BY <1>1, <1>2, <2>1, <2>2, <3>1
        <3>3. c * (y[k - 1] + g[k]) = c * y[k - 1] + c * g[k]
            BY <2>1, <3>1
        <3> QED
            BY <2>1, <3>2, <3>3
    <2>3. CASE k \notin DOMAIN f
        BY <1>1, <1>2, <2>1, <2>3
    <2> QED
        BY <2>2, <2>3
<1> HIDE DEF P
<1>6. 6 \in P
    BY <1>4, <1>5, ForAllPlaces
<1> QED
    BY <1>1, <1>2, <1>6 DEF P

\* The sum of greater numbers is no smaller.
LEMMA SumAtMost ==
    ASSUME NEW f, NEW g, AreNumbers(f), AreNumbers(g), DOMAIN f = DOMAIN g,
           \A k \in DOMAIN f : f[k] <= g[k]
    PROVE  SumOver(f) <= SumOver(g)
<1> DEFINE x == SumUntil(f)
           y == SumUntil(g)
           P == {k \in 0..6 : x[k] <= y[k]}
<1>1. /\ x[0] = 0 /\ SumOver(f) = x[6]
      /\ \A k \in Places : x[k] = IF k \in DOMAIN f THEN x[k - 1] + f[k] ELSE x[k - 1]
      /\ \A k \in 0..6 : x[k] \in Int
    BY SumUntilIs
<1>2. /\ y[0] = 0 /\ SumOver(g) = y[6]
      /\ \A k \in Places : y[k] = IF k \in DOMAIN f THEN y[k - 1] + g[k] ELSE y[k - 1]
      /\ \A k \in 0..6 : y[k] \in Int
    BY SumUntilIs
<1>3. \A k \in DOMAIN f : g[k] \in Int /\ f[k] \in Int
    BY DEF AreNumbers
<1> HIDE DEF x, y
<1>4. 0 \in P
    BY <1>1, <1>2
<1>5. ASSUME NEW k \in Places, k - 1 \in P PROVE k \in P
    <2>1. /\ k \in 0..6 /\ k - 1 \in 0..6 /\ x[k - 1] <= y[k - 1]
          /\ y[k - 1] \in Int /\ x[k - 1] \in Int
        BY <1>1, <1>2, <1>5 DEF Places
    <2>2. CASE k \in DOMAIN f
        <3>1. g[k] \in Int /\ f[k] \in Int /\ f[k] <= g[k]
            BY <1>3, <2>2
        <3>2. x[k] = x[k - 1] + f[k] /\ y[k] = y[k - 1] + g[k]
            BY <1>1, <1>2, <2>2
        <3> QED
            BY <2>1, <3>1, <3>2
    <2>3. CASE k \notin DOMAIN f
        BY <1>1, <1>2, <2>1, <2>3
    <2> QED
        BY <2>2, <2>3
<1> HIDE DEF P
<1>6. 6 \in P
    BY <1>4, <1>5, ForAllPlaces
<1> QED
    BY <1>1, <1>2, <1>6 DEF P

\* A sum of naturals is one, and positive if one of them is.
LEMMA SumPositive ==
    ASSUME NEW f, AreNumbers(f), \A k \in DOMAIN f : f[k] >= 0
    PROVE  /\ SumOver(f) \in Nat
           /\ \A n \in DOMAIN f : f[n] > 0 => SumOver(f) > 0
<1> DEFINE x == SumUntil(f)
           P == {k \in 0..6 : /\ x[k] \in Nat
                              /\ \A n \in DOMAIN f : n <= k /\ f[n] > 0 => x[k] > 0}
<1>1. /\ x[0] = 0 /\ SumOver(f) = x[6]
      /\ \A k \in Places : x[k] = IF k \in DOMAIN f THEN x[k - 1] + f[k] ELSE x[k - 1]
      /\ \A k \in 0..6 : x[k] \in Int
    BY SumUntilIs
<1>2. \A n \in DOMAIN f : n \in 1..6 /\ f[n] \in Nat
    BY DEF AreNumbers, Places
<1> HIDE DEF x
<1>4. 0 \in P
    BY <1>1, <1>2
<1>5. ASSUME NEW k \in Places, k - 1 \in P PROVE k \in P
    <2>1. /\ k \in 0..6 /\ k - 1 \in 0..6 /\ x[k - 1] \in Nat
          /\ \A n \in DOMAIN f : n <= k - 1 /\ f[n] > 0 => x[k - 1] > 0
        BY <1>5 DEF Places
    <2>2. \A n \in DOMAIN f : n <= k <=> n <= k - 1 \/ n = k
        BY <1>2, <2>1
    <2>3. CASE k \in DOMAIN f
        <3>1. f[k] \in Nat /\ x[k] = x[k - 1] + f[k]
            BY <1>1, <1>2, <2>3
        <3>2. x[k] \in Nat /\ (x[k - 1] > 0 => x[k] > 0) /\ (f[k] > 0 => x[k] > 0)
            BY <2>1, <3>1
        <3>3. \A n \in DOMAIN f : n <= k /\ f[n] > 0 => x[k] > 0
            BY <2>1, <2>2, <3>2
        <3> QED
            BY <2>1, <3>2, <3>3
    <2>4. CASE k \notin DOMAIN f
        BY <1>1, <2>1, <2>2, <2>4
    <2> QED
        BY <2>3, <2>4
<1> HIDE DEF P
<1>6. 6 \in P
    BY <1>4, <1>5, ForAllPlaces
<1>7. \A n \in DOMAIN f : n <= 6
    BY <1>2
<1> QED
    BY <1>1, <1>6, <1>7 DEF P

\* The numbers of one section.
OfSection(f, s) == [k \in {n \in DOMAIN f : Metric[n].section = s} |-> f[k]]

\* The numbers of one section are numbers of metrics.
LEMMA SectionNumbers ==
    ASSUME NEW f, AreNumbers(f), NEW s
    PROVE  AreNumbers(OfSection(f, s))
BY DEF AreNumbers, OfSection

\* A sum over the metrics is made of those over the sections.
LEMMA SumBySection ==
    ASSUME NEW f, AreNumbers(f)
    PROVE  /\ SumOver(f) = SumOver(OfSection(f, "total")) + SumOver(OfSection(f, "zones"))
                             + SumOver(OfSection(f, "types")) + SumOver(OfSection(f, "success"))
           /\ SumOver(f) \in Int /\ \A s : SumOver(OfSection(f, s)) \in Int
<1> DEFINE x == SumUntil(f)
           y == [s \in SectionNames |-> SumUntil(OfSection(f, s))]
           P == {k \in 0..6 : x[k] = y["total"][k] + y["zones"][k] + y["types"][k] + y["success"][k]}
<1>1. /\ x[0] = 0 /\ SumOver(f) = x[6]
      /\ \A k \in Places : x[k] = IF k \in DOMAIN f THEN x[k - 1] + f[k] ELSE x[k - 1]
      /\ \A k \in 0..6 : x[k] \in Int
    BY SumUntilIs
<1>2. ASSUME NEW s
      PROVE LET z == SumUntil(OfSection(f, s)) IN
            /\ z[0] = 0 /\ SumOver(OfSection(f, s)) = z[6]
            /\ \A k \in Places :
                  z[k] = IF k \in DOMAIN f /\ Metric[k].section = s THEN z[k - 1] + f[k]
                         ELSE z[k - 1]
            /\ \A k \in 0..6 : z[k] \in Int
    <2> DEFINE g == OfSection(f, s)
               z == SumUntil(g)
    <2>1. AreNumbers(g)
        BY SectionNumbers
    <2>2. /\ \A k : k \in DOMAIN g <=> k \in DOMAIN f /\ Metric[k].section = s
          /\ \A k \in DOMAIN g : g[k] = f[k]
        BY DEF OfSection
    <2> HIDE DEF g
    <2>3. /\ z[0] = 0 /\ SumOver(g) = z[6]
          /\ \A k \in Places : z[k] = IF k \in DOMAIN g THEN z[k - 1] + g[k] ELSE z[k - 1]
          /\ \A k \in 0..6 : z[k] \in Int
        BY <2>1, SumUntilIs
    <2> HIDE DEF z
    <2>4. /\ z[0] = 0 /\ SumOver(g) = z[6]
          /\ \A k \in Places :
                z[k] = IF k \in DOMAIN f /\ Metric[k].section = s THEN z[k - 1] + f[k]
                       ELSE z[k - 1]
          /\ \A k \in 0..6 : z[k] \in Int
        BY <2>2, <2>3
    <2> QED
        BY <2>4 DEF z, g
<1>3. \A s \in SectionNames :
          /\ y[s][0] = 0 /\ SumOver(OfSection(f, s)) = y[s][6]
          /\ \A k \in Places :
                  y[s][k] = IF k \in DOMAIN f /\ Metric[k].section = s THEN y[s][k - 1] + f[k]
                            ELSE y[s][k - 1]
          /\ \A k \in 0..6 : y[s][k] \in Int
    BY <1>2
<1>4. \A k \in DOMAIN f : f[k] \in Int
    BY DEF AreNumbers
<1> HIDE DEF x, y
<1>5. "total" \in SectionNames /\ "zones" \in SectionNames /\ "types" \in SectionNames
      /\ "success" \in SectionNames
    BY DEF SectionNames
<1>6. 0 \in P
    BY <1>1, <1>3, <1>5
<1>7. ASSUME NEW k \in Places, k - 1 \in P PROVE k \in P
    <2> DEFINE a == y["total"]
               b == y["zones"]
               c == y["types"]
               d == y["success"]
    <2>1. /\ k \in 0..6 /\ k - 1 \in 0..6
          /\ x[k - 1] = a[k - 1] + b[k - 1] + c[k - 1] + d[k - 1]
        BY <1>7 DEF Places
    <2>2. a[k - 1] \in Int /\ b[k - 1] \in Int /\ c[k - 1] \in Int /\ d[k - 1] \in Int
        BY <1>3, <1>5, <2>1
    <2>3. x[k] = IF k \in DOMAIN f THEN x[k - 1] + f[k] ELSE x[k - 1]
        BY <1>1
    <2>4. /\ a[k] = IF k \in DOMAIN f /\ Metric[k].section = "total" THEN a[k - 1] + f[k] ELSE a[k - 1]
          /\ b[k] = IF k \in DOMAIN f /\ Metric[k].section = "zones" THEN b[k - 1] + f[k] ELSE b[k - 1]
          /\ c[k] = IF k \in DOMAIN f /\ Metric[k].section = "types" THEN c[k - 1] + f[k] ELSE c[k - 1]
          /\ d[k] = IF k \in DOMAIN f /\ Metric[k].section = "success" THEN d[k - 1] + f[k] ELSE d[k - 1]
        BY <1>3, <1>5
    <2> HIDE DEF a, b, c, d
    <2>5. x[k] = a[k] + b[k] + c[k] + d[k]
        <3>1. CASE k \notin DOMAIN f
            BY <2>1, <2>3, <2>4, <3>1
        <3>2. CASE k \in DOMAIN f
            <4>1. f[k] \in Int
                BY <1>4, <3>2
            <4>2. Metric[k].section \in {"total", "zones", "types", "success"}
                BY MetricsAre DEF SectionNames
            <4> DEFINE s == Metric[k].section
            <4> HIDE DEF s
            <4>3. s \in {"total", "zones", "types", "success"}
                BY <4>2 DEF s
            <4>4. /\ x[k] = x[k - 1] + f[k]
                  /\ a[k] = IF s = "total" THEN a[k - 1] + f[k] ELSE a[k - 1]
                  /\ b[k] = IF s = "zones" THEN b[k - 1] + f[k] ELSE b[k - 1]
                  /\ c[k] = IF s = "types" THEN c[k - 1] + f[k] ELSE c[k - 1]
                  /\ d[k] = IF s = "success" THEN d[k - 1] + f[k] ELSE d[k - 1]
                BY <2>3, <2>4, <3>2 DEF s
            <4> QED
                BY <2>1, <2>2, <4>1, <4>3, <4>4
        <3> QED
            BY <3>1, <3>2
    <2> QED
        BY <2>1, <2>5 DEF a, b, c, d
<1> HIDE DEF P
<1>8. 6 \in P
    BY <1>6, <1>7, ForAllPlaces
<1>9. SumOver(f) = SumOver(OfSection(f, "total")) + SumOver(OfSection(f, "zones"))
                    + SumOver(OfSection(f, "types")) + SumOver(OfSection(f, "success"))
    BY <1>1, <1>3, <1>5, <1>8 DEF P
<1>10. SumOver(f) \in Int
    BY <1>1
<1>11. \A s : SumOver(OfSection(f, s)) \in Int
    BY <1>2
<1> QED
    BY <1>9, <1>10, <1>11

Judged(js) ==
    /\ DOMAIN js \subseteq Places
    /\ \A k \in DOMAIN js : js[k].score \in Nat /\ js[k].share \in Nat \cup {NoShare}

\* What was judged has scores and shares of the right kinds.
LEMMA JudgedAre ==
    ASSUME ScoresTypeOK
    PROVE  /\ Judged(judged) /\ \A k \in DOMAIN judged : judged[k].weak \in BOOLEAN
           /\ NoScore \in Nat /\ Scores \in SUBSET (Nat \ {0}) /\ Reference \in Nat
<1>1. \A j \in Judgements : /\ j.score \in Nat /\ j.share \in Nat \cup {NoShare}
                            /\ j.weak \in BOOLEAN
    <2>1. ASSUME NEW j \in [score : Scores, weak : BOOLEAN, share : {NoShare} \cup Shares]
          PROVE  j.score \in Nat /\ j.share \in Nat \cup {NoShare} /\ j.weak \in BOOLEAN
        <3>1. j.score \in Scores /\ j.weak \in BOOLEAN /\ j.share \in {NoShare} \cup Shares
            OBVIOUS
        <3>2. Scores \subseteq Nat /\ Shares \subseteq Nat
            BY ScoresAssumption
        <3> QED
            BY <3>1, <3>2
    <2>2. ASSUME NEW j, j = [score |-> NoScore, weak |-> FALSE, share |-> NoShare]
          PROVE  j.score \in Nat /\ j.share \in Nat \cup {NoShare} /\ j.weak \in BOOLEAN
        BY <2>2 DEF NoScore
    <2> QED
        BY <2>1, <2>2 DEF Judgements
<1>2. /\ Len(judged) \in Nat /\ Len(judged) <= 6 /\ DOMAIN judged = 1..Len(judged)
      /\ \A k \in DOMAIN judged : judged[k] \in Judgements
    BY MetricsAre DEF ScoresTypeOK
<1>3. DOMAIN judged \subseteq Places
    BY <1>2 DEF Places
<1> QED
    BY <1>1, <1>2, <1>3, ScoresAssumption DEF Judged, NoScore

\* A product of all wholes is that of all but one, times the one.
LEMMA ProductsAre ==
    ASSUME NEW whole, DOMAIN whole \subseteq SectionNames,
           \A s \in DOMAIN whole : whole[s] \in Nat \ {0}
    PROVE  /\ \A s : ProductBut(whole, s) \in Nat \ {0}
           /\ \A s \in DOMAIN whole :
                 whole[s] * ProductBut(whole, s) = ProductBut(whole, NoSection)
<1> DEFINE D == DOMAIN whole
           f(t, s) == IF t \in D /\ t # s THEN whole[t] ELSE 1
<1>1. \A s : ProductBut(whole, s)
               = f("total", s) * f("zones", s) * f("types", s) * f("success", s)
    BY DEF ProductBut
<1>2. \A t, s : f(t, s) \in Nat \ {0}
    OBVIOUS
<1>3. \A t, s : t # s /\ s \in D => f(t, s) = f(t, NoSection)
    BY DEF NoSection, SectionNames
<1>4. \A s \in D : f(s, s) = 1 /\ f(s, NoSection) = whole[s]
    BY DEF NoSection, SectionNames
<1> HIDE DEF f
<1>5. \A a, b \in Nat \ {0} : a * b \in Nat \ {0}
    OBVIOUS
<1>6. ASSUME NEW s PROVE ProductBut(whole, s) \in Nat \ {0}
    BY <1>1, <1>2, <1>5
<1>7. ASSUME NEW s \in D PROVE whole[s] * ProductBut(whole, s) = ProductBut(whole, NoSection)
    <2> DEFINE a == f("total", NoSection)
               b == f("zones", NoSection)
               c == f("types", NoSection)
               d == f("success", NoSection)
    <2>1. a \in Nat /\ b \in Nat /\ c \in Nat /\ d \in Nat
        BY <1>2
    <2>2. ProductBut(whole, NoSection) = a * b * c * d
        BY <1>1
    <2>3. CASE s = "total"
        <3>1. ProductBut(whole, s) = 1 * b * c * d /\ whole[s] = a
            BY <1>1, <1>3, <1>4, <2>3
        <3> HIDE DEF a, b, c, d
        <3>2. a * (1 * b * c * d) = a * b * c * d
            BY <2>1
        <3> QED
            BY <2>2, <3>1, <3>2
    <2>4. CASE s = "zones"
        <3>1. ProductBut(whole, s) = a * 1 * c * d /\ whole[s] = b
            BY <1>1, <1>3, <1>4, <2>4
        <3> HIDE DEF a, b, c, d
        <3>2. b * (a * 1 * c * d) = a * b * c * d
            BY <2>1
        <3> QED
            BY <2>2, <3>1, <3>2
    <2>5. CASE s = "types"
        <3>1. ProductBut(whole, s) = a * b * 1 * d /\ whole[s] = c
            BY <1>1, <1>3, <1>4, <2>5
        <3> HIDE DEF a, b, c, d
        <3>2. c * (a * b * 1 * d) = a * b * c * d
            BY <2>1
        <3> QED
            BY <2>2, <3>1, <3>2
    <2>6. CASE s = "success"
        <3>1. ProductBut(whole, s) = a * b * c * 1 /\ whole[s] = d
            BY <1>1, <1>3, <1>4, <2>6
        <3> HIDE DEF a, b, c, d
        <3>2. d * (a * b * c * 1) = a * b * c * d
            BY <2>1
        <3> QED
            BY <2>2, <3>1, <3>2
    <2> QED
        BY <2>3, <2>4, <2>5, <2>6 DEF SectionNames
<1> QED
    BY <1>6, <1>7

\* A sum over the sections that an area has.
SumOfSections(D, r) ==
    (IF "total" \in D THEN r["total"] ELSE 0) + (IF "zones" \in D THEN r["zones"] ELSE 0)
    + (IF "types" \in D THEN r["types"] ELSE 0) + (IF "success" \in D THEN r["success"] ELSE 0)

\* Sections are counted one by one.
LEMMA SectionsAreCounted ==
    ASSUME NEW D \in SUBSET SectionNames
    PROVE  /\ Cardinality(D) = SumOfSections(D, [s \in SectionNames |-> 1])
           /\ Cardinality(D) \in Nat /\ (D # {} => Cardinality(D) # 0)
<1> DEFINE one(S, t) == IF t \in S THEN 1 ELSE 0
           D1 == D \ {"total"}
           D2 == D1 \ {"zones"}
           D3 == D2 \ {"types"}
           D4 == D3 \ {"success"}
<1>1. IsFiniteSet(SectionNames)
    <2>1. IsFiniteSet({}) /\ SectionNames
             = ((({} \cup {"total"}) \cup {"zones"}) \cup {"types"}) \cup {"success"}
        BY FS_EmptySet DEF SectionNames
    <2>2. \A S, x : IsFiniteSet(S) => IsFiniteSet(S \cup {x})
        BY FS_AddElement
    <2>3. IsFiniteSet((({} \cup {"total"}) \cup {"zones"}) \cup {"types"})
        BY <2>1, <2>2
    <2> QED
        BY <2>1, <2>2, <2>3
<1>2. IsFiniteSet(D)
    BY <1>1, FS_Subset
<1>3. \A S, t : IsFiniteSet(S) => /\ IsFiniteSet(S \ {t})
                                 /\ Cardinality(S) = Cardinality(S \ {t}) + one(S, t)
                                 /\ Cardinality(S) \in Nat
    <2> SUFFICES ASSUME NEW S, NEW t, IsFiniteSet(S)
                 PROVE  /\ IsFiniteSet(S \ {t})
                        /\ Cardinality(S) = Cardinality(S \ {t}) + one(S, t)
                        /\ Cardinality(S) \in Nat
        OBVIOUS
    <2>1. /\ IsFiniteSet(S \ {t})
          /\ Cardinality(S \ {t}) = IF t \in S THEN Cardinality(S) - 1 ELSE Cardinality(S)
          /\ Cardinality(S) \in Nat
        BY FS_RemoveElement, FS_CardinalityType
    <2> QED
        BY <2>1
<1>4. D4 = {} /\ Cardinality(D4) = 0
    <2>1. D4 = {}
        BY DEF SectionNames
    <2> QED
        BY <2>1, FS_EmptySet
<1>5. /\ one(D1, "zones") = one(D, "zones") /\ one(D2, "types") = one(D, "types")
      /\ one(D3, "success") = one(D, "success")
    OBVIOUS
<1>6. /\ IsFiniteSet(D1) /\ IsFiniteSet(D2) /\ IsFiniteSet(D3)
    BY <1>2, <1>3
<1>7. SumOfSections(D, [s \in SectionNames |-> 1])
        = one(D, "total") + one(D, "zones") + one(D, "types") + one(D, "success")
    BY DEF SumOfSections, SectionNames
<1>9. /\ one(D, "total") \in Nat /\ one(D, "zones") \in Nat
      /\ one(D, "types") \in Nat /\ one(D, "success") \in Nat
    OBVIOUS
<1> HIDE DEF one, D1, D2, D3, D4
<1>8. /\ Cardinality(D) = Cardinality(D1) + one(D, "total")
      /\ Cardinality(D1) = Cardinality(D2) + one(D, "zones")
      /\ Cardinality(D2) = Cardinality(D3) + one(D, "types")
      /\ Cardinality(D3) = Cardinality(D4) + one(D, "success")
    BY <1>2, <1>3, <1>5, <1>6 DEF D1, D2, D3, D4
<1>10. Cardinality(D) = SumOfSections(D, [s \in SectionNames |-> 1])
    BY <1>4, <1>7, <1>8, <1>9
<1>11. Cardinality(D) \in Nat /\ (D # {} => Cardinality(D) # 0)
    BY <1>2, FS_EmptySet, FS_CardinalityType
<1> QED
    BY <1>10, <1>11

\* Active metrics have a score, and their sections are those counted.
LEMMA ActiveAre ==
    ASSUME NEW js, Judged(js), NEW area
    PROVE  /\ Active(js, area) \subseteq Scored(js, area)
           /\ Active(js, area) \subseteq Places /\ Active(js, area) \subseteq DOMAIN js
           /\ Sections(Active(js, area)) \subseteq SectionNames
           /\ \A k \in Active(js, area) : /\ Metric[k].section \in Sections(Active(js, area))
                                          /\ Metric[k].area = area /\ js[k].score # NoScore
<1>1. Active(js, area) \subseteq Scored(js, area) /\ Scored(js, area) \subseteq DOMAIN js
    BY DEF Active, Scored
<1>2. DOMAIN js \subseteq Places
    BY DEF Judged
<1>3. \A k \in Scored(js, area) : Metric[k].area = area /\ js[k].score # NoScore
    BY DEF Scored
<1>4. Active(js, area) \subseteq Places
    BY <1>1, <1>2
<1>5. Sections(Active(js, area)) = {Metric[k].section : k \in Active(js, area)}
    BY DEF Sections
<1> QED
    BY <1>1, <1>2, <1>3, <1>4, <1>5, MetricsAre

\* Volumes of a section: numbers that are not all zero.
LEMMA VolumeIs ==
    ASSUME NEW used, DOMAIN used \subseteq Places, DOMAIN used # {},
           \A k \in DOMAIN used : used[k] \in Nat
    PROVE  /\ DOMAIN Volume(used) = DOMAIN used /\ AreNumbers(Volume(used))
           /\ \A k \in DOMAIN used : Volume(used)[k] \in Nat
           /\ SumOver(Volume(used)) \in Nat \ {0}
<1> DEFINE vol == Volume(used)
           even == [k \in DOMAIN used |-> 1]
<1>1. CASE \A k \in DOMAIN used : used[k] = 0
    <2>1. vol = even
        BY <1>1 DEF Volume
    <2>2. DOMAIN even = DOMAIN used /\ \A k \in DOMAIN used : even[k] = 1
        OBVIOUS
    <2> HIDE DEF vol, even
    <2>3. AreNumbers(vol) /\ \A k \in DOMAIN vol : vol[k] >= 0 /\ vol[k] > 0
        BY <2>1, <2>2 DEF AreNumbers
    <2>4. SumOver(vol) \in Nat /\ SumOver(vol) > 0
        BY <2>1, <2>2, <2>3, SumPositive
    <2>5. SumOver(vol) \in Nat \ {0}
        BY <2>4
    <2> QED
        BY <2>1, <2>2, <2>3, <2>5 DEF vol
<1>2. CASE ~ \A k \in DOMAIN used : used[k] = 0
    <2>1. vol = used
        BY <1>2 DEF Volume
    <2>2. AreNumbers(used) /\ \A k \in DOMAIN used : used[k] >= 0
        BY DEF AreNumbers
    <2>3. PICK n \in DOMAIN used : used[n] > 0
        BY <1>2
    <2>4. SumOver(used) \in Nat /\ SumOver(used) > 0
        BY <2>2, <2>3, SumPositive
    <2>5. SumOver(used) \in Nat \ {0}
        BY <2>4
    <2> QED
        BY <2>1, <2>2, <2>5 DEF vol
<1> QED
    BY <1>1, <1>2

VolumesOf(js, area) == Volumes(js, Active(js, area))
WholesOf(js, area) == Wholes(VolumesOf(js, area))
Together(js, area) == ProductBut(WholesOf(js, area), NoSection)

\* assign_weights: the weight of a metric is its volume times the wholes of
\* the other sections, and all is as many parts as there are sections.
LEMMA WeightsAre ==
    ASSUME NEW js, Judged(js), NEW area
    PROVE  LET counted == Active(js, area)
               D == Sections(counted)
               volume == VolumesOf(js, area)
               whole == WholesOf(js, area)
               w == Weigh(js, area)
           IN  /\ DOMAIN volume = D /\ DOMAIN whole = D /\ D \subseteq SectionNames
               /\ \A s \in D : /\ DOMAIN volume[s] = {k \in counted : Metric[k].section = s}
                               /\ AreNumbers(volume[s])
                               /\ \A k \in DOMAIN volume[s] : volume[s][k] \in Nat
                               /\ whole[s] = SumOver(volume[s]) /\ whole[s] \in Nat \ {0}
               /\ DOMAIN w.of = counted
               /\ \A k \in counted :
                     /\ w.of[k] = volume[Metric[k].section][k]
                                    * ProductBut(whole, Metric[k].section)
                     /\ w.of[k] \in Nat
               /\ w.whole = Cardinality(D) * Together(js, area)
               /\ Together(js, area) \in Nat \ {0}
<1> DEFINE counted == Active(js, area)
           D == Sections(counted)
           volume == VolumesOf(js, area)
           whole == WholesOf(js, area)
           w == Weigh(js, area)
           part(s) == {k \in counted : Metric[k].section = s}
           used(s) == [k \in part(s) |-> Used(js[k], k)]
<1>1. /\ counted \subseteq Places /\ counted \subseteq DOMAIN js /\ D \subseteq SectionNames
      /\ \A k \in counted : Metric[k].section \in D
    BY ActiveAre
<1>2. \A k \in counted : Used(js[k], k) \in Nat
    <2>1. \A k \in counted : js[k].share \in Nat \cup {NoShare}
        BY <1>1 DEF Judged
    <2> QED
        BY <2>1 DEF Used
<1>3. volume = [s \in D |-> Volume(used(s))]
    BY DEF VolumesOf, Volumes
<1>4. whole = [s \in D |-> AtLeastOne(SumOver(volume[s]))]
    BY <1>3 DEF WholesOf, Wholes
<1>5. ASSUME NEW s \in D
      PROVE  /\ DOMAIN volume[s] = part(s) /\ AreNumbers(volume[s])
             /\ \A k \in DOMAIN volume[s] : volume[s][k] \in Nat
             /\ whole[s] = SumOver(volume[s]) /\ whole[s] \in Nat \ {0}
    <2> DEFINE u == used(s)
    <2>1. /\ DOMAIN u = part(s) /\ \A k \in DOMAIN u : u[k] \in Nat
        BY <1>2
    <2>2. part(s) # {} /\ part(s) \subseteq Places
        BY <1>1 DEF Sections
    <2> HIDE DEF u
    <2>3. /\ DOMAIN Volume(u) = part(s) /\ AreNumbers(Volume(u))
          /\ \A k \in part(s) : Volume(u)[k] \in Nat
          /\ SumOver(Volume(u)) \in Nat \ {0}
        BY <2>1, <2>2, VolumeIs
    <2>4. volume[s] = Volume(u)
        BY <1>3 DEF u
    <2>5. whole[s] = AtLeastOne(SumOver(volume[s]))
        BY <1>4
    <2> HIDE DEF part, volume, whole
    <2> QED
        BY <2>3, <2>4, <2>5 DEF AtLeastOne
<1>6. DOMAIN volume = D /\ DOMAIN whole = D
    BY <1>3, <1>4
<1>7. w = [whole |-> Cardinality(DOMAIN whole) * ProductBut(whole, NoSection),
           of |-> [k \in counted |-> volume[Metric[k].section][k]
                                       * ProductBut(whole, Metric[k].section)]]
    BY DEF Weigh, WeighBy, VolumesOf, WholesOf
<1>8. /\ w.whole = Cardinality(D) * Together(js, area) /\ DOMAIN w.of = counted
      /\ \A k \in counted : w.of[k] = volume[Metric[k].section][k]
                                       * ProductBut(whole, Metric[k].section)
    BY <1>6, <1>7 DEF Together
<1> HIDE DEF volume, whole, w, D
<1>9. \A s : ProductBut(whole, s) \in Nat \ {0}
    BY <1>1, <1>5, <1>6, ProductsAre
<1>10. \A k \in counted : w.of[k] \in Nat
    <2> SUFFICES ASSUME NEW k \in counted PROVE w.of[k] \in Nat
        OBVIOUS
    <2> DEFINE s == Metric[k].section
    <2>1. volume[s][k] \in Nat /\ ProductBut(whole, s) \in Nat
        BY <1>1, <1>5, <1>9
    <2>2. w.of[k] = volume[s][k] * ProductBut(whole, s)
        BY <1>8
    <2> HIDE DEF s
    <2> QED
        BY <2>1, <2>2
<1>11. Together(js, area) \in Nat \ {0}
    BY <1>9 DEF Together, whole
<1>12. /\ DOMAIN volume = D /\ DOMAIN whole = D /\ D \subseteq SectionNames
       /\ \A s \in D : /\ DOMAIN volume[s] = {k \in counted : Metric[k].section = s}
                       /\ AreNumbers(volume[s])
                       /\ \A k \in DOMAIN volume[s] : volume[s][k] \in Nat
                       /\ whole[s] = SumOver(volume[s]) /\ whole[s] \in Nat \ {0}
    BY <1>1, <1>5, <1>6
<1> QED
    BY <1>8, <1>10, <1>11, <1>12 DEF volume, whole, w, D

\* If the values of a section are all equal, the mean does not show how its
\* weights are divided.
LEMMA EvenMeans ==
    ASSUME NEW js, Judged(js), NEW area, NEW r, \A s \in SectionNames : r[s] \in Int,
           NEW v, \A k \in Active(js, area) : v[k] = r[Metric[k].section]
    PROVE  LET w == Weigh(js, area)
           IN  SumOver([k \in DOMAIN w.of |-> v[k] * w.of[k]])
                  = Together(js, area) * SumOfSections(Sections(Active(js, area)), r)
<1> DEFINE counted == Active(js, area)
           D == Sections(counted)
           volume == VolumesOf(js, area)
           whole == WholesOf(js, area)
           w == Weigh(js, area)
           p == Together(js, area)
           f == [k \in DOMAIN w.of |-> v[k] * w.of[k]]
<1>1. /\ DOMAIN volume = D /\ DOMAIN whole = D /\ D \subseteq SectionNames
      /\ \A s \in D : /\ DOMAIN volume[s] = {k \in counted : Metric[k].section = s}
                      /\ AreNumbers(volume[s])
                      /\ \A k \in DOMAIN volume[s] : volume[s][k] \in Nat
                      /\ whole[s] = SumOver(volume[s]) /\ whole[s] \in Nat \ {0}
      /\ DOMAIN w.of = counted
      /\ \A k \in counted :
            /\ w.of[k] = volume[Metric[k].section][k] * ProductBut(whole, Metric[k].section)
            /\ w.of[k] \in Nat
      /\ p \in Nat \ {0}
    BY WeightsAre
<1>2. counted \subseteq Places /\ \A k \in counted : Metric[k].section \in D
    BY ActiveAre
<1>3. /\ \A s : ProductBut(whole, s) \in Nat \ {0}
      /\ \A s \in D : whole[s] * ProductBut(whole, s) = p
    BY <1>1, ProductsAre DEF Together
<1>4. DOMAIN f = counted /\ \A k \in counted : f[k] = v[k] * w.of[k]
    BY <1>1
<1> HIDE DEF volume, whole, w, p, f, counted, D
<1>5. AreNumbers(f)
    <2>1. \A k \in counted : v[k] \in Int /\ w.of[k] \in Int
        BY <1>1, <1>2 DEF counted
    <2>2. \A k \in counted : f[k] \in Int
        BY <1>4, <2>1
    <2> QED
        BY <1>2, <1>4, <2>2 DEF AreNumbers
<1>6. ASSUME NEW s \in D PROVE SumOver(OfSection(f, s)) = p * r[s]
    <2> DEFINE g == OfSection(f, s)
               c == r[s] * ProductBut(whole, s)
    <2>1. r[s] \in Int /\ ProductBut(whole, s) \in Int /\ whole[s] \in Int
        BY <1>1, <1>3
    <2>2. DOMAIN g = DOMAIN volume[s] /\ AreNumbers(g)
        <3>1. AreNumbers(g)
            BY <1>5, SectionNumbers
        <3>2. DOMAIN g = {k \in DOMAIN f : Metric[k].section = s}
            BY DEF OfSection
        <3> HIDE DEF g
        <3> QED
            BY <1>1, <1>4, <3>1, <3>2
    <2>3. \A k \in DOMAIN volume[s] : k \in counted /\ Metric[k].section = s
        BY <1>1
    <2>4. ASSUME NEW k \in DOMAIN g PROVE g[k] = c * volume[s][k]
        <3>1. k \in counted /\ Metric[k].section = s /\ volume[s][k] \in Int
            BY <1>1, <2>2, <2>3
        <3>2. g[k] = f[k]
            BY <1>4, <3>1 DEF OfSection
        <3>3. f[k] = r[s] * (volume[s][k] * ProductBut(whole, s))
            BY <1>1, <1>4, <3>1 DEF counted
        <3>4. \A a, b, d \in Int : a * (d * b) = (a * b) * d
            OBVIOUS
        <3> QED
            BY <2>1, <3>1, <3>2, <3>3, <3>4
    <2>5. c \in Int
        BY <2>1
    <2> HIDE DEF g, c
    <2>6. SumOver(g) = c * SumOver(volume[s])
        BY <1>1, <2>2, <2>4, <2>5, SumTimes
    <2>7. SumOver(g) = (r[s] * ProductBut(whole, s)) * whole[s]
        BY <1>1, <2>6 DEF c
    <2>8. \A a, b, d \in Int : (a * b) * d = (d * b) * a
        OBVIOUS
    <2>9. SumOver(g) = (whole[s] * ProductBut(whole, s)) * r[s]
        BY <2>1, <2>7, <2>8
    <2> QED
        BY <1>3, <2>9 DEF g
<1>7. ASSUME NEW s \in SectionNames, s \notin D PROVE SumOver(OfSection(f, s)) = 0
    <2> DEFINE g == OfSection(f, s)
    <2>1. AreNumbers(g) /\ DOMAIN g = {}
        <3>1. AreNumbers(g)
            BY <1>5, SectionNumbers
        <3>2. DOMAIN g = {k \in DOMAIN f : Metric[k].section = s}
            BY DEF OfSection
        <3> HIDE DEF g
        <3> QED
            BY <1>2, <1>4, <1>7, <3>1, <3>2
    <2> HIDE DEF g
    <2>2. SumOver(g) = 0 * SumOver(g)
        BY <2>1, SumTimes
    <2>3. SumOver(g) \in Int
        BY <2>1, SumUntilIs
    <2> QED
        BY <2>2, <2>3 DEF g
<1>8. /\ SumOver(f) = SumOver(OfSection(f, "total")) + SumOver(OfSection(f, "zones"))
                        + SumOver(OfSection(f, "types")) + SumOver(OfSection(f, "success"))
    BY <1>5, SumBySection
<1> DEFINE part(s) == IF s \in D THEN r[s] ELSE 0
<1>9. \A s \in SectionNames : SumOver(OfSection(f, s)) = p * part(s) /\ part(s) \in Int
    <2>1. p \in Int
        BY <1>1
    <2>2. p * 0 = 0
        BY <2>1
    <2> QED
        BY <1>6, <1>7, <2>2
<1>10. SumOfSections(D, r) = part("total") + part("zones") + part("types") + part("success")
    BY DEF SumOfSections
<1> HIDE DEF part
<1>11. SumOver(f) = p * part("total") + p * part("zones") + p * part("types") + p * part("success")
       /\ part("total") \in Int /\ part("zones") \in Int
       /\ part("types") \in Int /\ part("success") \in Int
    BY <1>8, <1>9 DEF SectionNames
<1>12. SumOver(f) = p * SumOfSections(D, r)
    <2>1. p \in Int
        BY <1>1
    <2>2. \A x, a, b, c, d \in Int : x * a + x * b + x * c + x * d = x * (a + b + c + d)
        OBVIOUS
    <2> QED
        BY <1>10, <1>11, <2>1, <2>2
<1> QED
    BY <1>12 DEF f, w, p, counted, D

\* The whole of an area with scores is not empty.
LEMMA WholeIs ==
    ASSUME NEW js, Judged(js), NEW area, Active(js, area) # {}
    PROVE  LET n == Cardinality(Sections(Active(js, area)))
               w == Weigh(js, area)
           IN  /\ n \in Nat /\ w.whole = n * Together(js, area) /\ w.whole # 0 /\ w.whole \in Nat
               /\ AtLeastOne(w.whole) = n * Together(js, area)
<1> DEFINE D == Sections(Active(js, area))
           n == Cardinality(D)
           p == Together(js, area)
<1>1. D \in SUBSET SectionNames /\ Weigh(js, area).whole = n * p /\ p \in Nat \ {0}
    BY WeightsAre
<1>2. D # {}
    BY DEF Sections
<1> HIDE DEF D, p
<1>3. n \in Nat \ {0}
    BY <1>1, <1>2, SectionsAreCounted
<1> HIDE DEF n
<1>4. n * p # 0 /\ n * p \in Nat
    BY <1>1, <1>3
<1> QED
    BY <1>1, <1>3, <1>4 DEF AtLeastOne, n, D, p

\* assign_weights: the weights of an area are one whole.
LEMMA WeightsWhole == ASSUME ScoresTypeOK PROVE WeightsAreWhole
<1> SUFFICES ASSUME NEW area \in ScoreAreaSet, WithScores(area)
             PROVE  LET w == Weigh(judged, area) IN SumOver(w.of) = w.whole
    BY DEF WeightsAreWhole
<1> DEFINE w == Weigh(judged, area)
           D == Sections(Active(judged, area))
           r == [s \in SectionNames |-> 1]
           v == [k \in Active(judged, area) |-> 1]
           p == Together(judged, area)
           f == [k \in DOMAIN w.of |-> v[k] * w.of[k]]
<1>1. Judged(judged)
    BY JudgedAre
<1>2. /\ DOMAIN w.of = Active(judged, area) /\ \A k \in DOMAIN w.of : w.of[k] \in Nat
      /\ D \in SUBSET SectionNames /\ p \in Nat /\ w.whole = Cardinality(D) * p
    BY <1>1, WeightsAre
<1>3. Active(judged, area) \subseteq Places /\ \A k \in Active(judged, area) : Metric[k].section \in SectionNames
    BY <1>1, ActiveAre
<1>4. SumOver(f) = p * SumOfSections(D, r)
    <2>1. \A s \in SectionNames : r[s] \in Int
        OBVIOUS
    <2>2. \A k \in Active(judged, area) : v[k] = r[Metric[k].section]
        BY <1>3
    <2> HIDE DEF r, v
    <2> QED
        BY <1>1, <2>1, <2>2, EvenMeans
<1>5. DOMAIN f = DOMAIN w.of /\ \A k \in DOMAIN f : f[k] = 1 * w.of[k] /\ f[k] \in Nat
    BY <1>2
<1>6. SumOfSections(D, r) = Cardinality(D) /\ Cardinality(D) \in Nat
    BY <1>2, SectionsAreCounted
<1> HIDE DEF w, f, p, D, r
<1>7. AreNumbers(f) /\ AreNumbers(w.of)
    BY <1>2, <1>3, <1>5 DEF AreNumbers
<1>8. SumOver(f) = 1 * SumOver(w.of) /\ SumOver(w.of) \in Int
    <2>1. 1 \in Int
        OBVIOUS
    <2> QED
        BY <1>5, <1>7, <2>1, SumTimes, SumUntilIs
<1>9. SumOver(w.of) = w.whole
    BY <1>2, <1>4, <1>6, <1>8
<1> QED
    BY <1>9 DEF w

\* domain score: with equal scores in a section, use makes no difference.
LEMMA UseNoMerit == ASSUME ScoresTypeOK PROVE UseIsNoMerit
<1> DEFINE evenly == [k \in DOMAIN judged |-> [judged[k] EXCEPT !.share = NoShare]]
<1> SUFFICES ASSUME NEW area \in ScoreAreaSet, WithScores(area),
                    \A j, k \in Active(judged, area) :
                        Metric[j].section = Metric[k].section => judged[j].score = judged[k].score
             PROVE  EqualFraction(AreaScore(judged, area), AreaScore(evenly, area))
    BY DEF UseIsNoMerit
<1> DEFINE A == Active(judged, area)
           D == Sections(A)
           n == Cardinality(D)
           r == [s \in SectionNames |->
                   IF s \in D THEN judged[CHOOSE k \in A : Metric[k].section = s].score ELSE 0]
           p == Together(judged, area)
           q == Together(evenly, area)
           t == SumOfSections(D, r)
           v == [k \in DOMAIN judged |-> judged[k].score]
           u == [k \in DOMAIN evenly |-> evenly[k].score]
<1>1. Judged(judged)
    BY JudgedAre
<1>2. DOMAIN evenly = DOMAIN judged
      /\ \A k \in DOMAIN judged : evenly[k].score = judged[k].score /\ evenly[k].share = NoShare
    <2>1. \A k \in DOMAIN judged : judged[k] \in Judgements
        BY DEF ScoresTypeOK
    <2>2. ASSUME NEW j \in Judgements
          PROVE  LET e == [j EXCEPT !.share = NoShare] IN e.score = j.score /\ e.share = NoShare
        BY DEF Judgements
    <2> QED
        BY <2>1, <2>2
<1>3. Judged(evenly)
    BY <1>1, <1>2 DEF Judged
<1>4. Active(evenly, area) = A
    <2> HIDE DEF evenly
    <2>1. Scored(evenly, area) = Scored(judged, area)
        BY <1>2 DEF Scored
    <2> QED
        BY <2>1 DEF Active
<1>5. A # {}
    BY DEF WithScores
<1> HIDE DEF evenly
<1>6. A \subseteq DOMAIN judged /\ D \in SUBSET SectionNames /\ \A k \in A : Metric[k].section \in D
    BY <1>1, ActiveAre
<1>7. \A k \in A : r[Metric[k].section] = judged[k].score
    <2> SUFFICES ASSUME NEW k \in A PROVE r[Metric[k].section] = judged[k].score
        OBVIOUS
    <2> DEFINE m == CHOOSE j \in A : Metric[j].section = Metric[k].section
    <2>1. m \in A /\ Metric[m].section = Metric[k].section
        OBVIOUS
    <2>2. r[Metric[k].section] = judged[m].score
        BY <1>6
    <2> HIDE DEF m
    <2> QED
        BY <2>1, <2>2
<1>8. \A s \in SectionNames : r[s] \in Int
    <2>1. \A k \in A : judged[k].score \in Int
        BY <1>1, <1>6 DEF Judged
    <2>2. ASSUME NEW s \in D PROVE \E k \in A : Metric[k].section = s
        BY DEF Sections
    <2> QED
        BY <2>1, <2>2
<1> HIDE DEF r, A, D
<1>9. \A k \in A : v[k] = r[Metric[k].section] /\ u[k] = r[Metric[k].section]
    BY <1>2, <1>6, <1>7
<1> HIDE DEF u, v
<1>10. AreaScore(judged, area).num = p * t
    <2> DEFINE w == Weigh(judged, area)
    <2>1. \A k \in Active(judged, area) : v[k] = r[Metric[k].section]
        BY <1>9 DEF A
    <2>2. SumOver([k \in DOMAIN w.of |-> v[k] * w.of[k]]) = p * t
        BY <1>1, <1>8, <2>1, EvenMeans DEF A, D
    <2>3. AreaScore(judged, area) = Mean(w, v)
        BY DEF AreaScore, v
    <2> HIDE DEF w
    <2> QED
        BY <2>2, <2>3 DEF Mean
<1>11. AreaScore(evenly, area).num = q * t
    <2>1. \A k \in Active(evenly, area) : u[k] = r[Metric[k].section]
        BY <1>4, <1>9
    <2> DEFINE w == Weigh(evenly, area)
    <2>2. SumOver([k \in DOMAIN w.of |-> u[k] * w.of[k]]) = q * t
        <3>1. SumOver([k \in DOMAIN w.of |-> u[k] * w.of[k]])
                = Together(evenly, area) * SumOfSections(Sections(Active(evenly, area)), r)
            BY <1>3, <1>8, <2>1, EvenMeans
        <3> QED
            BY <1>4, <3>1 DEF D
    <2>3. AreaScore(evenly, area) = Mean(w, u)
        BY DEF AreaScore, u
    <2> HIDE DEF w
    <2> QED
        BY <2>2, <2>3 DEF Mean
<1>12. AreaScore(judged, area).den = n * p /\ n \in Nat /\ p \in Nat
    BY <1>1, <1>5, WholeIs, WeightsAre DEF AreaScore, Mean, A, D
<1>13. AreaScore(evenly, area).den = n * q /\ q \in Nat
    BY <1>3, <1>4, <1>5, WholeIs, WeightsAre DEF AreaScore, Mean, D
<1>14. t \in Int
    BY <1>8 DEF SumOfSections, SectionNames
<1> HIDE DEF n, p, q, t
<1>15. (p * t) * (n * q) = (q * t) * (n * p)
    <2>1. \A a, b, c, d \in Int : (a * b) * (c * d) = (d * b) * (c * a)
        OBVIOUS
    <2> QED
        BY <1>12, <1>13, <1>14, <2>1
<1> QED
    BY <1>10, <1>11, <1>12, <1>13, <1>15 DEF EqualFraction

\* Weights depend on what has a score and on use, not on the scores.
LEMMA SameWeights ==
    ASSUME NEW js, NEW is, NEW area, Active(js, area) = Active(is, area),
           \A n \in Active(js, area) : js[n].share = is[n].share
    PROVE  Weigh(js, area) = Weigh(is, area)
<1> DEFINE A == Active(js, area)
           part(s) == {n \in A : Metric[n].section = s}
<1>1. \A n \in A : Used(js[n], n) = Used(is[n], n)
    BY DEF Used
<1>2. ASSUME NEW s
      PROVE  [n \in part(s) |-> Used(js[n], n)] = [n \in part(s) |-> Used(is[n], n)]
    BY <1>1
<1>3. Volumes(js, A) = Volumes(is, A)
    BY <1>2 DEF Volumes
<1> QED
    BY <1>3 DEF Weigh

\* domain score: a better metric never makes its area worse, and a total
\* beside its parts makes no difference.
LEMMA ScoresMonotone == ASSUME ScoresTypeOK PROVE ScoresAreMonotone
<1> SUFFICES ASSUME NEW area \in ScoreAreaSet, NEW k \in DOMAIN judged,
                    NEW better \in {NoScore} \cup Scores,
                    WithScores(area), judged[k].score # NoScore
             PROVE  LET js == [judged EXCEPT ![k].score = better]
                    IN  /\ better > judged[k].score =>
                              ~ LessFraction(AreaScore(js, area), AreaScore(judged, area))
                        /\ /\ Metric[k].section = "total"
                           /\ \E n \in Scored(judged, Metric[k].area) : Metric[n].section \in Detailed
                           => EqualFraction(AreaScore(js, area), AreaScore(judged, area))
    BY DEF ScoresAreMonotone
<1> DEFINE js == [judged EXCEPT ![k].score = better]
           A == Active(judged, area)
           w == Weigh(judged, area)
           old == [n \in DOMAIN w.of |-> judged[n].score * w.of[n]]
           new == [n \in DOMAIN w.of |-> js[n].score * w.of[n]]
           den == AtLeastOne(w.whole)
<1>1. Judged(judged) /\ better \in Nat /\ NoScore = 0
    BY JudgedAre DEF NoScore
<1>2. /\ DOMAIN js = DOMAIN judged
      /\ \A n \in DOMAIN judged : /\ js[n].share = judged[n].share
                                  /\ js[n].score = IF n = k THEN better ELSE judged[n].score
    <2>1. \A n \in DOMAIN judged : judged[n] \in Judgements
        BY DEF ScoresTypeOK
    <2>2. ASSUME NEW j \in Judgements
          PROVE  LET e == [j EXCEPT !.score = better] IN e.score = better /\ e.share = j.share
        BY DEF Judgements
    <2>3. \A n \in DOMAIN judged :
             js[n] = IF n = k THEN [judged[n] EXCEPT !.score = better] ELSE judged[n]
        OBVIOUS
    <2>4. DOMAIN js = DOMAIN judged
        OBVIOUS
    <2> HIDE DEF js
    <2> QED
        BY <2>1, <2>2, <2>3, <2>4
<1> HIDE DEF js
<1>3. Judged(js)
    BY <1>1, <1>2 DEF Judged
<1>4. A \subseteq DOMAIN judged /\ A \subseteq Places /\ A # {}
    BY <1>1, ActiveAre DEF WithScores
<1>5. DOMAIN w.of = A /\ \A n \in A : w.of[n] \in Nat
    BY <1>1, WeightsAre
<1>6. den \in Nat
    BY <1>1, <1>4, WholeIs DEF AtLeastOne
<1>7. AreaScore(judged, area).num = SumOver(old) /\ AreaScore(judged, area).den = den
    <2> DEFINE v == [n \in DOMAIN judged |-> judged[n].score]
    <2>1. AreaScore(judged, area) = Mean(w, v)
        BY DEF AreaScore
    <2>2. \A n \in DOMAIN w.of : v[n] = judged[n].score
        BY <1>4, <1>5
    <2> HIDE DEF v, w
    <2>3. [n \in DOMAIN w.of |-> v[n] * w.of[n]] = old
        BY <2>2
    <2> QED
        BY <2>1, <2>3 DEF Mean
<1>8. ASSUME Active(js, area) = A
      PROVE  AreaScore(js, area).num = SumOver(new) /\ AreaScore(js, area).den = den
    <2> DEFINE v == [n \in DOMAIN js |-> js[n].score]
    <2>1. Weigh(js, area) = w
        BY <1>2, <1>4, <1>8, SameWeights
    <2>2. AreaScore(js, area) = Mean(w, v)
        BY <2>1 DEF AreaScore
    <2>3. \A n \in DOMAIN w.of : v[n] = js[n].score
        BY <1>2, <1>4, <1>5
    <2> HIDE DEF v, w
    <2>4. [n \in DOMAIN w.of |-> v[n] * w.of[n]] = new
        BY <2>3
    <2> QED
        BY <2>2, <2>4 DEF Mean
<1>9. \A n \in A : judged[n].score \in Nat /\ js[n].score \in Nat /\ w.of[n] \in Nat
    BY <1>1, <1>3, <1>2, <1>4, <1>5 DEF Judged
<1>10. /\ DOMAIN old = A /\ DOMAIN new = A
       /\ \A n \in A : old[n] = judged[n].score * w.of[n] /\ new[n] = js[n].score * w.of[n]
    BY <1>5
<1> HIDE DEF old, new, den, w
<1>11. AreNumbers(old) /\ AreNumbers(new)
    <2>1. \A n \in A : old[n] \in Int /\ new[n] \in Int
        BY <1>9, <1>10
    <2> QED
        BY <1>4, <1>10, <2>1 DEF AreNumbers
<1>12. SumOver(old) \in Int /\ SumOver(new) \in Int
    BY <1>11, SumUntilIs
<1>13. ASSUME better > judged[k].score
       PROVE  ~ LessFraction(AreaScore(js, area), AreaScore(judged, area))
    <2>1. judged[k].score \in Nat /\ better # NoScore
        BY <1>1, <1>13 DEF Judged
    <2>2. Scored(js, area) = Scored(judged, area)
        BY <1>2, <2>1 DEF Scored
    <2>3. Active(js, area) = A
        BY <2>2 DEF Active
    <2>4. ASSUME NEW n \in A PROVE old[n] <= new[n]
        <3>1. judged[n].score <= js[n].score
            BY <1>1, <1>2, <1>4, <1>9, <1>13
        <3>2. \A a, b, c \in Nat : a <= b => a * c <= b * c
            OBVIOUS
        <3> QED
            BY <1>9, <1>10, <3>1, <3>2
    <2>5. SumOver(old) <= SumOver(new)
        BY <1>10, <1>11, <2>4, SumAtMost
    <2>6. ~(SumOver(new) * den < SumOver(old) * den)
        <3>1. \A a, b \in Int : \A c \in Nat : a <= b => ~(b * c < a * c)
            OBVIOUS
        <3> QED
            BY <1>6, <1>12, <2>5, <3>1
    <2> QED
        BY <1>7, <1>8, <2>3, <2>6 DEF LessFraction
<1>14. ASSUME Metric[k].section = "total",
              NEW n \in Scored(judged, Metric[k].area), Metric[n].section \in Detailed
       PROVE  EqualFraction(AreaScore(js, area), AreaScore(judged, area))
    <2>1. n # k /\ n \in DOMAIN judged /\ judged[n].score # NoScore
          /\ Metric[n].area = Metric[k].area
        BY <1>14 DEF Detailed, Scored
    <2>2. \A m \in DOMAIN judged : m # k => (m \in Scored(js, area) <=> m \in Scored(judged, area))
        BY <1>2 DEF Scored
    <2>3. Scored(js, area) \subseteq DOMAIN judged /\ Scored(judged, area) \subseteq DOMAIN judged
        BY <1>2 DEF Scored
    <2>4. Active(js, area) = A /\ k \notin A
        <3>1. CASE Metric[k].area # area
            <4>1. k \notin Scored(js, area) /\ k \notin Scored(judged, area)
                BY <3>1 DEF Scored
            <4>2. Scored(js, area) = Scored(judged, area)
                BY <2>2, <2>3, <4>1
            <4> QED
                BY <4>1, <4>2 DEF Active
        <3>2. CASE Metric[k].area = area
            <4>1. n \in Scored(judged, area) /\ n \in Scored(js, area)
                BY <1>2, <2>1, <3>2 DEF Scored
            <4>2. /\ A = {m \in Scored(judged, area) : Metric[m].section # "total"}
                  /\ Active(js, area) = {m \in Scored(js, area) : Metric[m].section # "total"}
                BY <1>14, <4>1 DEF Active
            <4> HIDE DEF A
            <4> QED
                BY <1>14, <2>2, <2>3, <4>2
        <3> QED
            BY <3>1, <3>2
    <2>5. old = new
        <3>1. \A m \in A : js[m].score = judged[m].score
            BY <1>2, <1>4, <2>4
        <3>2. \A m \in A : old[m] = new[m]
            BY <1>10, <3>1
        <3>3. old = [m \in A |-> old[m]] /\ new = [m \in A |-> new[m]]
            BY <1>5 DEF old, new
        <3> HIDE DEF A
        <3> QED
            BY <3>2, <3>3
    <2> QED
        BY <1>7, <1>8, <2>4, <2>5 DEF EqualFraction
<1>15. /\ better > judged[k].score =>
             ~ LessFraction(AreaScore(js, area), AreaScore(judged, area))
       /\ /\ Metric[k].section = "total"
          /\ \E n \in Scored(judged, Metric[k].area) : Metric[n].section \in Detailed
          => EqualFraction(AreaScore(js, area), AreaScore(judged, area))
    BY <1>13, <1>14
<1> QED
    BY <1>15 DEF js

\* Impacts order the metrics that have one.
AheadIn(S, impact) == [k \in S |-> {j \in S : ByImpact(impact, j, k)}]

\* Impacts, and places where they are equal, put the metrics in order.
LEMMA ImpactOrder ==
    ASSUME NEW impact, AreNumbers(impact), NEW S \in SUBSET DOMAIN impact
    PROVE  /\ IsOrder(S, AheadIn(S, impact)) /\ IsFiniteSet(S)
           /\ \A k \in S : impact[k] \in Int
<1> DEFINE ahead == AheadIn(S, impact)
<1>1. \A k \in S : k \in Nat /\ impact[k] \in Int /\ k \in 1..6
    BY DEF AreNumbers, Places
<1>2. \A k \in S : ahead[k] \subseteq S
    BY DEF AheadIn
<1>3. \A j, k \in S : j \in ahead[k] <=> ByImpact(impact, j, k)
    BY DEF AheadIn
<1> HIDE DEF ahead
<1>4. \A k \in S : k \notin ahead[k]
    BY <1>1, <1>3 DEF ByImpact
<1>5. \A k, m \in S : k = m \/ k \in ahead[m] \/ m \in ahead[k]
    <2> SUFFICES ASSUME NEW k \in S, NEW m \in S, k # m
                 PROVE  ByImpact(impact, k, m) \/ ByImpact(impact, m, k)
        BY <1>3
    <2> QED
        BY <1>1 DEF ByImpact
<1>6. \A k, m, j \in S : m \in ahead[k] /\ j \in ahead[m] => j \in ahead[k]
    <2> SUFFICES ASSUME NEW k \in S, NEW m \in S, NEW j \in S,
                        ByImpact(impact, m, k), ByImpact(impact, j, m)
                 PROVE  ByImpact(impact, j, k)
        BY <1>3
    <2> QED
        BY <1>1 DEF ByImpact
<1>7. IsOrder(S, ahead)
    BY <1>2, <1>4, <1>5, <1>6 DEF IsOrder
<1>8. IsFiniteSet(S)
    <2>1. 1 \in Int /\ 6 \in Int /\ S \subseteq 1..6
        BY <1>1
    <2>2. IsFiniteSet(1..6)
        BY <2>1, FS_Interval
    <2> QED
        BY <2>1, <2>2, FS_Subset
<1> QED
    BY <1>1, <1>7, <1>8 DEF ahead

\* FirstAdvice is the beginning of a list.
LEMMA FirstAdviceIs ==
    ASSUME NEW T, NEW listed \in Seq(T), NEW n \in Nat
    PROVE  /\ FirstAdvice(listed, n) \in Seq(T)
           /\ Len(FirstAdvice(listed, n)) = IF Len(listed) < n THEN Len(listed) ELSE n
           /\ \A i \in 1..Len(FirstAdvice(listed, n)) :
                 i \in 1..Len(listed) /\ FirstAdvice(listed, n)[i] = listed[i]
<1> DEFINE l == IF Len(listed) < n THEN Len(listed) ELSE n
<1>1. l \in Nat /\ l <= Len(listed) /\ Len(listed) \in Nat
    OBVIOUS
<1>2. FirstAdvice(listed, n) = SubSeq(listed, 1, l)
    BY DEF FirstAdvice
<1> HIDE DEF l
<1>3. \A i \in 1..l : i \in 1..Len(listed)
    BY <1>1
<1>4. \A i \in 1..l : listed[i] \in T
    BY <1>3, ElementOfSeq
<1>5. /\ SubSeq(listed, 1, l) \in Seq(T)
      /\ Len(SubSeq(listed, 1, l)) = IF 1 <= l THEN l - 1 + 1 ELSE 0
      /\ \A i \in 1..(l - 1 + 1) : SubSeq(listed, 1, l)[i] = listed[1 + i - 1]
    BY <1>1, <1>4, SubSeqProperties
<1>6. (IF 1 <= l THEN l - 1 + 1 ELSE 0) = l /\ l - 1 + 1 = l /\ \A i \in 1..l : 1 + i - 1 = i
    BY <1>1
<1>7. FirstAdvice(listed, n) \in Seq(T) /\ Len(FirstAdvice(listed, n)) = l
      /\ \A i \in 1..l : FirstAdvice(listed, n)[i] = listed[i]
    BY <1>2, <1>5, <1>6
<1> QED
    BY <1>3, <1>7 DEF l

\* Every weakness is advised on, or the list is full of costlier ones.
LEMMA ImprovementsAre ==
    ASSUME NEW impact, AreNumbers(impact), NEW weak \in SUBSET DOMAIN impact
    PROVE  LET listed == ImprovementsBy(impact, weak)
           IN  /\ listed \in Seq(weak)
               /\ \A k \in weak :
                     \/ \E n \in DOMAIN listed :
                           Metric[listed[n]].play = Metric[k].play /\ impact[listed[n]] <= impact[k]
                     \/ /\ Len(listed) = AreaAdvice
                        /\ \A n \in DOMAIN listed : impact[listed[n]] <= impact[k]
<1> DEFINE C == CostliestOfPlay(impact, weak)
           before == AheadIn(weak, impact)
           ahead == AheadIn(C, impact)
           whole == CostliestFirst(impact, C)
           listed == ImprovementsBy(impact, weak)
           c == Cardinality(C)
<1>1. C \in SUBSET weak
    BY DEF CostliestOfPlay
<1>2. /\ IsOrder(weak, before) /\ IsFiniteSet(weak) /\ \A k \in weak : impact[k] \in Int
    BY ImpactOrder
<1>3. IsOrder(C, ahead) /\ IsFiniteSet(C)
    BY <1>1, ImpactOrder
<1>4. /\ \A j, k \in weak : j \in before[k] <=> ByImpact(impact, j, k)
      /\ \A j, k \in C : j \in ahead[k] <=> ByImpact(impact, j, k)
    BY DEF AheadIn
<1>5. whole = ByRank(C, ahead)
    <2>1. \A k \in C : ahead[k] = {j \in C : ByImpact(impact, j, k)}
        BY DEF AheadIn
    <2> HIDE DEF C, ahead
    <2>2. \A i \in 1..Cardinality(C) :
             (CHOOSE k \in C : Cardinality(ahead[k]) = i - 1)
                = CHOOSE k \in C : Cardinality({j \in C : ByImpact(impact, j, k)}) = i - 1
        BY <2>1
    <2> QED
        BY <2>2 DEF CostliestFirst, ByRank
<1>6. listed = FirstAdvice(whole, AreaAdvice)
    BY DEF ImprovementsBy
<1>7. \A j, k \in weak : ByImpact(impact, j, k) => impact[j] <= impact[k]
    BY <1>2 DEF ByImpact
<1>8. \A k \in C, j \in weak : Metric[j].play = Metric[k].play => ~ ByImpact(impact, j, k)
    BY DEF CostliestOfPlay
<1>9. \A k \in weak : (\A j \in weak : Metric[j].play = Metric[k].play => ~ ByImpact(impact, j, k))
                       => k \in C
    BY DEF CostliestOfPlay
<1> HIDE DEF C, before, ahead, whole, listed, c
<1>10. /\ whole \in Seq(C) /\ Len(whole) = c
       /\ \A i \in 1..c : whole[i] \in C /\ Cardinality(ahead[whole[i]]) = i - 1
       /\ \A k \in C : /\ Cardinality(ahead[k]) + 1 \in 1..c
                       /\ whole[Cardinality(ahead[k]) + 1] = k
    BY <1>3, <1>5, ListedByRank DEF c
<1>11. /\ c \in Nat
       /\ \A j, k \in C : j \in ahead[k] <=> Cardinality(ahead[j]) < Cardinality(ahead[k])
    BY <1>3, RanksAre DEF c
<1>12. AreaAdvice \in Nat
    BY ScoresAssumption
<1>13. /\ listed \in Seq(C) /\ Len(listed) = IF c < AreaAdvice THEN c ELSE AreaAdvice
       /\ \A i \in 1..Len(listed) : i \in 1..c /\ listed[i] = whole[i]
    BY <1>6, <1>10, <1>12, FirstAdviceIs
<1>14. DOMAIN listed = 1..Len(listed)
    BY <1>13
<1>15. listed \in Seq(weak)
    <2>1. \A i \in 1..Len(listed) : listed[i] \in weak
        BY <1>1, <1>10, <1>13
    <2> QED
        BY <1>13, <2>1, SeqDef
<1>16. ASSUME NEW k \in weak
       PROVE  \/ \E n \in DOMAIN listed :
                    Metric[listed[n]].play = Metric[k].play /\ impact[listed[n]] <= impact[k]
              \/ /\ Len(listed) = AreaAdvice
                 /\ \A n \in DOMAIN listed : impact[listed[n]] <= impact[k]
    <2> DEFINE Q == {j \in weak : Metric[j].play = Metric[k].play}
               R == {Cardinality(before[j]) : j \in Q}
    <2>1. /\ \A j \in weak : Cardinality(before[j]) \in Nat
          /\ \A i, j \in weak : i \in before[j] <=> Cardinality(before[i]) < Cardinality(before[j])
        <3>1. /\ Cardinality(weak) \in Nat
              /\ \A j \in weak : Cardinality(before[j]) \in 0..(Cardinality(weak) - 1)
              /\ \A i, j \in weak :
                    i \in before[j] <=> Cardinality(before[i]) < Cardinality(before[j])
            BY <1>2, RanksAre
        <3> QED
            BY <3>1
    <2>2. R \in SUBSET Nat /\ R # {}
        BY <2>1
    <2>3. PICK r \in R : \A i \in R : r <= i
        BY <2>2, LeastNatural
    <2>4. PICK m \in Q : r = Cardinality(before[m])
        BY <2>3
    <2>5. m \in weak /\ Metric[m].play = Metric[k].play
        BY <2>4
    <2>6. \A j \in weak : Metric[j].play = Metric[m].play => ~ ByImpact(impact, j, m)
        <3> SUFFICES ASSUME NEW j \in weak, Metric[j].play = Metric[m].play, ByImpact(impact, j, m)
                     PROVE  FALSE
            OBVIOUS
        <3>1. j \in Q /\ Cardinality(before[j]) \in R
            BY <2>5
        <3>2. r <= Cardinality(before[j]) /\ Cardinality(before[j]) < r
            BY <1>4, <2>1, <2>3, <2>4, <2>5, <3>1
        <3> QED
            BY <2>1, <2>4, <2>5, <3>2
    <2>7. m \in C
        BY <1>9, <2>5, <2>6
    <2>8. impact[m] <= impact[k]
        <3>1. ~ ByImpact(impact, k, m)
            BY <2>5, <2>6
        <3>2. k \notin before[m]
            BY <1>4, <2>5, <3>1
        <3>3. m = k \/ m \in before[k]
            BY <1>2, <2>5, <3>2 DEF IsOrder
        <3> QED
            BY <1>2, <1>4, <1>7, <2>5, <3>3
    <2> DEFINE n == Cardinality(ahead[m]) + 1
    <2>9. n \in 1..c /\ whole[n] = m
        BY <1>10, <2>7
    <2> HIDE DEF n
    <2>10. CASE n \in DOMAIN listed
        <3>1. listed[n] = m
            BY <1>13, <1>14, <2>9, <2>10
        <3> QED
            BY <2>5, <2>8, <2>10, <3>1
    <2>11. CASE n \notin DOMAIN listed
        <3>1. Len(listed) = AreaAdvice /\ AreaAdvice < n /\ n \in Nat
            BY <1>11, <1>12, <1>13, <1>14, <2>9, <2>11
        <3>2. ASSUME NEW i \in DOMAIN listed PROVE impact[listed[i]] <= impact[k]
            <4>1. i \in 1..c /\ i < n /\ listed[i] = whole[i] /\ i \in Nat
                BY <1>13, <1>14, <3>1
            <4>2. whole[i] \in C /\ Cardinality(ahead[whole[i]]) = i - 1
                BY <1>10, <4>1
            <4>3. Cardinality(ahead[m]) = n - 1
                BY <1>10, <2>7, <2>9, <3>1
            <4>4. i - 1 < n - 1
                BY <3>1, <4>1
            <4>5. whole[i] \in ahead[m]
                BY <1>11, <2>7, <4>2, <4>3, <4>4
            <4>6. ByImpact(impact, whole[i], m) /\ whole[i] \in weak
                BY <1>1, <1>4, <2>7, <4>2, <4>5
            <4>7. impact[whole[i]] <= impact[m]
                BY <1>7, <2>5, <4>6
            <4> QED
                BY <1>2, <2>5, <2>8, <4>1, <4>6, <4>7
        <3> QED
            BY <3>1, <3>2
    <2> QED
        BY <2>10, <2>11
<1>17. /\ listed \in Seq(weak)
       /\ \A k \in weak :
             \/ \E n \in DOMAIN listed :
                   Metric[listed[n]].play = Metric[k].play /\ impact[listed[n]] <= impact[k]
             \/ /\ Len(listed) = AreaAdvice
                /\ \A n \in DOMAIN listed : impact[listed[n]] <= impact[k]
    BY <1>15, <1>16
<1> QED
    BY <1>17 DEF listed

\* A cut of two lists keeps all of the first, or nothing of the second.
LEMMA CutOfTwo ==
    ASSUME NEW S, NEW T, NEW r \in Seq(S), NEW s \in Seq(T), S \cap T = {}, NEW n \in Nat
    PROVE  \/ ToSet(r) \subseteq ToSet(FirstAdvice(r \o s, n))
           \/ ToSet(s) \cap ToSet(FirstAdvice(r \o s, n)) = {}
<1> DEFINE both == r \o s
           listed == FirstAdvice(both, n)
           c == Len(r)
           d == Len(s)
<1>1. c \in Nat /\ d \in Nat
    OBVIOUS
<1>2. /\ both \in Seq(S \cup T) /\ Len(both) = c + d
      /\ \A i \in 1..c : both[i] = r[i] /\ r[i] \in S
    <2>1. r \in Seq(S \cup T) /\ s \in Seq(S \cup T)
        <3>1. \A i \in 1..Len(r) : r[i] \in S \cup T
            BY ElementOfSeq
        <3>2. \A i \in 1..Len(s) : s[i] \in S \cup T
            BY ElementOfSeq
        <3> QED
            BY <3>1, <3>2, SeqDef
    <2>2. \A i \in 1..c : i \in 1..(c + d)
        BY <1>1
    <2>3. \A i \in 1..c : r[i] \in S
        BY ElementOfSeq
    <2>4. Len(both) = c + d /\ \A i \in 1..(c + d) : both[i] = IF i <= c THEN r[i] ELSE s[i - c]
        BY ConcatProperties
    <2>5. both \in Seq(S \cup T)
        BY <2>1, ConcatProperties
    <2> QED
        BY <1>1, <2>2, <2>3, <2>4, <2>5
<1> HIDE DEF both, listed
<1>3. /\ listed \in Seq(S \cup T) /\ Len(listed) = IF Len(both) < n THEN Len(both) ELSE n
      /\ \A i \in 1..Len(listed) : listed[i] = both[i]
    BY <1>2, FirstAdviceIs DEF listed
<1>4. DOMAIN listed = 1..Len(listed) /\ DOMAIN r = 1..c /\ DOMAIN s = 1..d
    BY <1>3
<1>5. /\ ToSet(r) = {r[i] : i \in 1..c} /\ ToSet(s) = {s[i] : i \in 1..d}
      /\ ToSet(listed) = {listed[i] : i \in 1..Len(listed)}
    BY <1>4 DEF ToSet
<1>6. \A i \in 1..d : s[i] \in T
    BY ElementOfSeq
<1> HIDE DEF c, d
<1>7. CASE c <= n
    <2>1. \A i \in 1..c : i \in 1..Len(listed)
        BY <1>1, <1>2, <1>3, <1>7
    <2>2. \A i \in 1..c : listed[i] = r[i]
        BY <1>2, <1>3, <2>1
    <2>3. ToSet(r) \subseteq ToSet(listed)
        BY <1>5, <2>1, <2>2
    <2> QED
        BY <2>3 DEF listed, both
<1>8. CASE ~(c <= n)
    <2>1. Len(listed) = n
        BY <1>1, <1>2, <1>3, <1>8
    <2>2. \A i \in 1..Len(listed) : i \in 1..c
        BY <1>1, <1>8, <2>1
    <2>3. \A i \in 1..Len(listed) : listed[i] \in S
        BY <1>2, <1>3, <2>2
    <2>4. ToSet(s) \cap ToSet(listed) = {}
        BY <1>5, <1>6, <2>3
    <2> QED
        BY <2>4 DEF listed, both
<1> QED
    BY <1>7, <1>8

\* A fraction of whole numbers is rounded to a whole number.
LEMMA NearestIs ==
    ASSUME NEW num \in Int, NEW den \in Nat, den > 0, NEW parts \in Nat
    PROVE  Nearest([num |-> num, den |-> den], parts) \in Int
<1>1. /\ 2 * parts * num + den \in Int
      /\ 2 * den \in Int /\ 2 * den > 0
    <2>1. 2 * parts * num \in Int
        <3>1. \A x, y \in Int : x * y \in Int
            OBVIOUS
        <3> QED
            BY <3>1
    <2> QED
        BY <2>1
<1>2. \A x, y \in Int : y > 0 => x \div y \in Int
    OBVIOUS
<1>3. (2 * parts * num + den) \div (2 * den) \in Int
    BY <1>1, <1>2
<1> QED
    BY <1>3 DEF Nearest

\* Impacts are numbers of metrics of the area, and gaps are numbers.
LEMMA ImpactsAre ==
    ASSUME ScoresTypeOK, NEW area
    PROVE  LET impact == Impacts(judged, area)
           IN  /\ AreNumbers(impact) /\ \A k \in DOMAIN impact : Metric[k].area = area
               /\ AreaGap(judged, area) \in Int
<1> DEFINE A == Active(judged, area)
           w == Weigh(judged, area)
           v == [k \in DOMAIN judged |-> judged[k].score]
           f == [k \in DOMAIN w.of |-> v[k] * w.of[k]]
           den == AtLeastOne(w.whole)
           impact == Impacts(judged, area)
<1>1. Judged(judged) /\ Reference \in Int
    BY JudgedAre
<1>2. /\ A \subseteq Places /\ A \subseteq DOMAIN judged /\ \A k \in A : Metric[k].area = area
      /\ Sections(A) \in SUBSET SectionNames
    BY <1>1, ActiveAre
<1>3. /\ DOMAIN w.of = A /\ \A k \in A : w.of[k] \in Int
      /\ w.whole = Cardinality(Sections(A)) * Together(judged, area)
      /\ Together(judged, area) \in Nat
    BY <1>1, WeightsAre
<1>4. \A k \in A : judged[k].score \in Int /\ judged[k].score - Reference \in Int
    BY <1>1, <1>2 DEF Judged
<1>5. \A k \in A : v[k] = judged[k].score
    BY <1>2
<1>6. \A x, y \in Int : x * y \in Int
    OBVIOUS
<1>7. impact = [k \in {n \in A : w.of[n] > 0} |-> PointImpact(w, k, judged[k].score)]
    BY <1>3 DEF Impacts, ImpactsBy
<1> HIDE DEF v, A
<1>8. AreNumbers(f)
    <2>1. DOMAIN f = A /\ \A k \in A : f[k] = v[k] * w.of[k]
        BY <1>3
    <2>2. \A k \in A : f[k] \in Int
        BY <1>3, <1>4, <1>5, <1>6, <2>1
    <2> HIDE DEF f
    <2> QED
        BY <1>2, <2>1, <2>2 DEF AreNumbers
<1>9. den \in Nat /\ den > 0
    <2>1. Cardinality(Sections(A)) \in Nat
        BY <1>2, SectionsAreCounted
    <2>2. \A x, y \in Nat : x * y \in Nat
        OBVIOUS
    <2>3. w.whole \in Nat
        BY <1>3, <2>1, <2>2
    <2> HIDE DEF w
    <2> QED
        BY <2>3 DEF AtLeastOne
<1>10. AreNumbers(impact) /\ \A k \in DOMAIN impact : Metric[k].area = area
    <2>1. /\ DOMAIN impact \subseteq A
          /\ \A k \in DOMAIN impact : impact[k] = PointImpact(w, k, judged[k].score)
        BY <1>7
    <2> HIDE DEF impact, w, den
    <2>2. ASSUME NEW k \in A
          PROVE  PointImpact(w, k, judged[k].score) \in Int
        <3>1. (judged[k].score - Reference) * w.of[k] \in Int
            BY <1>3, <1>4, <1>6
        <3>2. Nearest([num |-> (judged[k].score - Reference) * w.of[k], den |-> den], 100) \in Int
            BY <1>9, <3>1, NearestIs
        <3> QED
            BY <3>2 DEF PointImpact, den
    <2> QED
        BY <1>2, <2>1, <2>2 DEF AreNumbers
<1>11. AreaScore(judged, area) = [num |-> SumOver(f), den |-> den]
    <2>1. AreaScore(judged, area) = Mean(w, v)
        BY DEF AreaScore, v
    <2> HIDE DEF w
    <2> QED
        BY <2>1 DEF Mean
<1>12. SumOver(f) \in Int
    BY <1>8, SumUntilIs
<1> HIDE DEF impact, f, w, den
<1>13. Nearest(AreaScore(judged, area), 10) \in Int
    BY <1>9, <1>11, <1>12, NearestIs
<1>14. AreaGap(judged, area) \in Int
    BY <1>1, <1>13 DEF AreaGap
<1> QED
    BY <1>10, <1>14 DEF impact

\* coaching_for_metrics: the costliest weakness of each play is advised on,
\* and over all areas that of the area furthest behind first.
LEMMA AdviceCostliest == ASSUME ScoresTypeOK PROVE AdviceIsOfCostliest
<1> DEFINE impacts == [n \in DOMAIN ScoreAreas |-> Impacts(judged, ScoreAreas[n])]
           gaps == [n \in DOMAIN ScoreAreas |-> AreaGap(judged, ScoreAreas[n])]
           lists == [n \in DOMAIN ScoreAreas |-> Improvements(judged, impacts[n])]
           overall == OverallAdvice(gaps, lists)
           plays(n) == {k \in Places : Metric[k].area = ScoreAreas[n]}
<1>1. DOMAIN ScoreAreas = {1, 2} /\ ScoreAreas[1] # ScoreAreas[2]
    BY DEF ScoreAreas
<1>2. /\ DOMAIN impacts = {1, 2} /\ DOMAIN gaps = {1, 2} /\ DOMAIN lists = {1, 2}
      /\ \A n \in {1, 2} : /\ impacts[n] = Impacts(judged, ScoreAreas[n])
                            /\ gaps[n] = AreaGap(judged, ScoreAreas[n])
                            /\ lists[n] = ImprovementsBy(impacts[n], Weak(judged, impacts[n]))
    BY <1>1 DEF Improvements
<1> HIDE DEF impacts, gaps, lists
<1>3. \A n \in {1, 2} : /\ AreNumbers(impacts[n])
                        /\ \A k \in DOMAIN impacts[n] : Metric[k].area = ScoreAreas[n]
                        /\ gaps[n] \in Int
    BY <1>2, ImpactsAre
<1>4. \A n \in {1, 2} : Weak(judged, impacts[n]) \in SUBSET DOMAIN impacts[n]
    BY DEF Weak
<1>5. ASSUME NEW n \in {1, 2}
      PROVE  /\ WeakAreAdvised(impacts[n], lists[n]) /\ lists[n] \in Seq(plays(n))
    <2> DEFINE weak == Weak(judged, impacts[n])
               impact == impacts[n]
               listed == lists[n]
    <2>1. AreNumbers(impact) /\ weak \in SUBSET DOMAIN impact /\ listed = ImprovementsBy(impact, weak)
        BY <1>2, <1>3, <1>4
    <2> HIDE DEF weak, impact, listed
    <2>2. /\ listed \in Seq(weak)
          /\ \A k \in weak :
                \/ \E i \in DOMAIN listed :
                      Metric[listed[i]].play = Metric[k].play /\ impact[listed[i]] <= impact[k]
                \/ /\ Len(listed) = AreaAdvice
                   /\ \A i \in DOMAIN listed : impact[listed[i]] <= impact[k]
        BY <2>1, ImprovementsAre
    <2>3. WeakAreAdvised(impact, listed)
        BY <2>2 DEF WeakAreAdvised, weak, impact
    <2>4. \A k \in weak : k \in plays(n)
        <3>1. \A k \in DOMAIN impact : Metric[k].area = ScoreAreas[n]
            BY <1>3 DEF impact
        <3>2. DOMAIN impact \subseteq Places
            BY <2>1 DEF AreNumbers
        <3> QED
            BY <2>1, <3>1, <3>2
    <2>5. listed \in Seq(plays(n))
        <3>1. \A i \in 1..Len(listed) : listed[i] \in plays(n)
            BY <2>2, <2>4, ElementOfSeq
        <3> HIDE DEF plays
        <3> QED
            BY <2>2, <3>1, SeqDef
    <2> QED
        BY <2>3, <2>5 DEF impact, listed
<1>6. plays(1) \cap plays(2) = {} /\ plays(2) \cap plays(1) = {}
    BY <1>1
<1> HIDE DEF plays
<1>7. ASSUME NEW m \in {1, 2}, NEW n \in {1, 2}, gaps[m] < gaps[n]
      PROVE  ToSet(lists[m]) \subseteq ToSet(overall) \/ ToSet(lists[n]) \cap ToSet(overall) = {}
    <2>1. gaps[m] \in Int /\ gaps[n] \in Int
        BY <1>3
    <2>3. ~ (gaps[n] < gaps[m]) /\ gaps[n] # gaps[m]
        BY <1>7, <2>1
    <2>4. m # n
        BY <1>7, <2>3
    <2>5. AllAdvice \in Nat
        BY ScoresAssumption
    <2>6. CASE m = 1 /\ n = 2
        <3>1. ~ Behind(gaps, 2, 1)
            BY <2>3, <2>6 DEF Behind
        <3>2. overall = FirstAdvice(lists[1] \o lists[2], AllAdvice)
            BY <3>1 DEF OverallAdvice
        <3>3. lists[1] \in Seq(plays(1)) /\ lists[2] \in Seq(plays(2))
            BY <1>5
        <3> HIDE DEF overall
        <3> QED
            BY <1>6, <2>5, <2>6, <3>2, <3>3, CutOfTwo
    <2>7. CASE m = 2 /\ n = 1
        <3>1. Behind(gaps, 2, 1)
            BY <1>7, <2>7 DEF Behind
        <3>2. overall = FirstAdvice(lists[2] \o lists[1], AllAdvice)
            BY <3>1 DEF OverallAdvice
        <3>3. lists[1] \in Seq(plays(1)) /\ lists[2] \in Seq(plays(2))
            BY <1>5
        <3> HIDE DEF overall
        <3> QED
            BY <1>6, <2>5, <2>7, <3>2, <3>3, CutOfTwo
    <2> QED
        BY <2>4, <2>6, <2>7
<1>8. FurthestFirst(gaps, lists, overall)
    BY <1>2, <1>7 DEF FurthestFirst
<1>9. \A n \in DOMAIN lists : WeakAreAdvised(impacts[n], lists[n])
    BY <1>2, <1>5
<1> QED
    BY <1>8, <1>9 DEF AdviceIsOfCostliest, impacts, gaps, lists

\* Scores and advice are fair whatever was judged.
LEMMA FairScores == ScoresTypeOK => ScoresAreFair
BY WeightsWhole, UseNoMerit, ScoresMonotone, AdviceCostliest DEF ScoresAreFair

\* What was judged keeps its types.
LEMMA ScoresTypesAreRight == ScoresSpec => []ScoresTypeOK
<1>1. ScoresInit => ScoresTypeOK
    BY MetricsAre DEF ScoresInit, ScoresTypeOK
<1> QED
    BY <1>1, ScoresKeepTypes, PTL DEF ScoresSpec

\* assign_weights, build_domain_scores and coaching_for_metrics: weights are
\* one whole, use is no merit, better is never worse, and the costliest
\* weaknesses are advised on, for any scores, shares, reference and limits.
THEOREM ScoresAreRight == ScoresSpec => []ScoresAreFair
BY FairScores, ScoresTypesAreRight, PTL

-----------------------------------------------------------------------------
(* AnalysisRun: runs and readers of the latest result *)

USE KeyOfAssumption, InstanceOfAssumption, PrintOfAssumption,
    NoPrintAssumption, NoOneAssumption, MaxRunsAssumption

\* Results are numbered as they are made: nobody holds one that is still to be.
MadeBefore ==
    /\ \A p \in Workers \cup Readers : made[p] <= runs
    /\ \A k \in Keys : cached[k].at <= runs
    /\ \A i \in Instances : latest[i] <= runs
    /\ \A w \in Workers : answer[w] <= runs

\* A fingerprint stands beside the result that was made for it: in the cache,
\* with the run that is about to put it there, and in an answer.
PrintedFor ==
    /\ \A k \in Keys : cached[k].print # NoPrint =>
          cached[k].at # NoResult /\ printed[cached[k].at] = cached[k].print
    /\ \A w \in Workers : pc[w] \in {"save", "put"} =>
          made[w] # NoResult /\ printed[made[w]] = PrintOf[w]
    /\ BusyAnswersOwn

\* What is saved is saved before it is shown: in the newest snapshot, with the
\* run that puts it into the cache, and with the reader that writes it back.
SavedBefore ==
    /\ \A i \in Instances : latest[i] # NoResult => latest[i] \in saved
    /\ \A w \in Workers : pc[w] = "put" => made[w] \in saved
    /\ \A r \in Readers : pc[r] = "store" => made[r] \in saved
    /\ ShownWasSaved

OneWindow == \A v, w \in Workers : KeyOf[v] = KeyOf[w]

\* Within their leases one run at a time is between its result and its
\* snapshot, and its result is the newest.
InOrder ==
    ~overran =>
        /\ \A w \in Workers : pc[w] \in Running => w \in leased
        /\ OneWindow => \A w \in Workers : pc[w] = "save" => made[w] = runs
        /\ OneWindow => \A i \in Instances : cards[i] = latest[i]

IInv == TypeOK /\ MadeBefore /\ PrintedFor /\ SavedBefore /\ InOrder

-----------------------------------------------------------------------------
(* the invariant holds at the start *)

\* No request is under way, nothing is stored.
LEMMA InitInv == Init => IInv
<1> SUFFICES ASSUME Init PROVE IInv
    OBVIOUS
<1> USE DEF Init, Nothing, NoResult
<1>1. TypeOK
    <2>1. cached \in [Keys -> Entries]
        BY DEF Entries
    <2>2. printed \in [Results -> Prints \cup {NoPrint}] /\ runs \in 0..MaxRuns
        OBVIOUS
    <2> QED
        BY <2>1, <2>2 DEF TypeOK
<1>2. MadeBefore /\ PrintedFor /\ SavedBefore
    BY DEF MadeBefore, PrintedFor, BusyAnswersOwn, SavedBefore, ShownWasSaved
<1>3. InOrder
    BY DEF InOrder, Running
<1> QED
    BY <1>1, <1>2, <1>3 DEF IInv

-----------------------------------------------------------------------------
(* types *)

\* A worker in leased holds the token of its window, so two of one window are
\* the same.
LEMMA OneLease ==
    ASSUME TypeOK, NEW v \in leased, NEW w \in leased, KeyOf[v] = KeyOf[w]
    PROVE  v = w
BY DEF TypeOK

\* No handler changes a type; that only a result that was made is saved needs
\* the numbering of results.
LEMMA TypeInv == TypeOK /\ MadeBefore /\ PrintedFor /\ [Next]_vars => TypeOK'
<1> SUFFICES ASSUME TypeOK, MadeBefore, PrintedFor, [Next]_vars PROVE TypeOK'
    OBVIOUS
<1> USE DEF TypeOK, Goto, NoResult, Running
<1>1. ASSUME NEW w \in Workers, Ask(w) PROVE TypeOK'
    BY <1>1 DEF Ask
<1>2. ASSUME NEW w \in Workers, AnswerBusy(w) PROVE TypeOK'
    BY <1>2 DEF AnswerBusy, Entries
<1>3. ASSUME NEW w \in Workers, Analyse(w) PROVE TypeOK'
    <2>1. CASE /\ runs < MaxRuns /\ runs' = runs + 1
               /\ made' = [made EXCEPT ![w] = runs']
               /\ printed' = [printed EXCEPT ![runs'] = PrintOf[w]]
               /\ Goto(w, "save")
        <3>1. runs' \in Results /\ runs' \in 0..MaxRuns /\ saved \subseteq 1..runs'
            BY <2>1 DEF Results
        <3>2. made' \in [Workers \cup Readers -> {NoResult} \cup Results]
              /\ printed' \in [Results -> Prints \cup {NoPrint}]
            BY <2>1, <3>1
        <3> QED
            BY <1>3, <2>1, <3>1, <3>2 DEF Analyse
    <2>2. CASE Goto(w, "release") /\ UNCHANGED <<runs, made, printed>>
        BY <1>3, <2>2 DEF Analyse
    <2> QED
        BY <1>3, <2>1, <2>2 DEF Analyse
<1>4. ASSUME NEW w \in Workers, Save(w) PROVE TypeOK'
    <2>1. CASE /\ latest' = [latest EXCEPT ![InstanceOf[w]] =
                                IF @ < made[w] THEN made[w] ELSE @]
               /\ cards' = [cards EXCEPT ![InstanceOf[w]] = made[w]]
               /\ saved' = saved \cup {made[w]}
               /\ Goto(w, "put")
        <3>1. made[w] \in 1..runs
            BY <1>4 DEF Save, MadeBefore, PrintedFor, Results
        <3>2. /\ latest' \in [Instances -> {NoResult} \cup Results]
              /\ cards' \in [Instances -> {NoResult} \cup Results]
            BY <2>1
        <3> QED
            BY <1>4, <2>1, <3>1, <3>2 DEF Save
    <2>2. CASE Goto(w, "release") /\ UNCHANGED <<latest, cards, saved>>
        BY <1>4, <2>2 DEF Save
    <2> QED
        BY <1>4, <2>1, <2>2 DEF Save
<1>5. ASSUME NEW w \in Workers, Put(w) PROVE TypeOK'
    BY <1>5 DEF Put, Entries
<1>6. ASSUME NEW w \in Workers, Release(w) PROVE TypeOK'
    BY <1>6 DEF Release
<1>7. ASSUME NEW r \in Readers, ReaderStep(r) PROVE TypeOK'
    <2>1. CASE Look(r)
        BY <2>1 DEF Look
    <2>2. CASE ReadSnapshot(r)
        BY <2>2 DEF ReadSnapshot
    <2>3. CASE WriteBack(r)
        BY <2>3 DEF WriteBack, Entries
    <2> QED
        BY <1>7, <2>1, <2>2, <2>3 DEF ReaderStep
<1>8. ASSUME NEW k \in Keys, ExpireResult(k) PROVE TypeOK'
    BY <1>8 DEF ExpireResult, Entries, Nothing
<1>9. ASSUME NEW k \in Keys, LeaseEnds(k) PROVE TypeOK'
    BY <1>9 DEF LeaseEnds
<1>10. ASSUME NEW i \in Instances, Replace(i) PROVE TypeOK'
    BY <1>10 DEF Replace
<1>11. CASE UNCHANGED vars
    BY <1>11 DEF vars
<1> QED
    BY <1>1, <1>2, <1>3, <1>4, <1>5, <1>6, <1>7, <1>8, <1>9, <1>10, <1>11
    DEF Next, WorkerStep

-----------------------------------------------------------------------------
(* the numbers of results *)

\* Only run_analysis makes a result, and everybody else passes on what is there.
LEMMA NumbersInv == TypeOK /\ MadeBefore /\ [Next]_vars => MadeBefore'
<1> SUFFICES ASSUME TypeOK, MadeBefore, [Next]_vars PROVE MadeBefore'
    OBVIOUS
<1> USE DEF TypeOK, MadeBefore, Entries, Results, NoResult
<1>1. ASSUME NEW w \in Workers, Ask(w) PROVE MadeBefore'
    BY <1>1 DEF Ask
<1>2. ASSUME NEW w \in Workers, AnswerBusy(w) PROVE MadeBefore'
    BY <1>2 DEF AnswerBusy
<1>3. ASSUME NEW w \in Workers, Analyse(w) PROVE MadeBefore'
    <2>1. runs' \in 0..MaxRuns /\ runs' >= runs
        BY <1>3 DEF Analyse
    <2>2. \A p \in Workers \cup Readers : made'[p] <= runs'
        BY <1>3, <2>1 DEF Analyse
    <2> QED
        BY <1>3, <2>1, <2>2 DEF Analyse
<1>4. ASSUME NEW w \in Workers, Save(w) PROVE MadeBefore'
    BY <1>4 DEF Save
<1>5. ASSUME NEW w \in Workers, Put(w) PROVE MadeBefore'
    BY <1>5 DEF Put
<1>6. ASSUME NEW w \in Workers, Release(w) PROVE MadeBefore'
    BY <1>6 DEF Release
<1>7. ASSUME NEW r \in Readers, ReaderStep(r) PROVE MadeBefore'
    <2>1. CASE Look(r)
        BY <2>1 DEF Look
    <2>2. CASE ReadSnapshot(r)
        BY <2>2 DEF ReadSnapshot
    <2>3. CASE WriteBack(r)
        BY <2>3 DEF WriteBack
    <2> QED
        BY <1>7, <2>1, <2>2, <2>3 DEF ReaderStep
<1>8. ASSUME NEW k \in Keys, ExpireResult(k) PROVE MadeBefore'
    BY <1>8 DEF ExpireResult, Nothing
<1>9. ASSUME NEW k \in Keys, LeaseEnds(k) PROVE MadeBefore'
    BY <1>9 DEF LeaseEnds
<1>10. ASSUME NEW i \in Instances, Replace(i) PROVE MadeBefore'
    BY <1>10 DEF Replace
<1>11. CASE UNCHANGED vars
    BY <1>11 DEF vars
<1> QED
    BY <1>1, <1>2, <1>3, <1>4, <1>5, <1>6, <1>7, <1>8, <1>9, <1>10, <1>11
    DEF Next, WorkerStep

-----------------------------------------------------------------------------
(* fingerprints *)

\* The fingerprint in the cache is that of the request whose run put it there,
\* and the write-back of a reader leaves none.
LEMMA PrintsInv == TypeOK /\ MadeBefore /\ PrintedFor /\ [Next]_vars => PrintedFor'
<1> SUFFICES ASSUME TypeOK, MadeBefore, PrintedFor, [Next]_vars PROVE PrintedFor'
    OBVIOUS
<1> USE DEF TypeOK, PrintedFor, BusyAnswersOwn, Goto, NoResult
<1>1. ASSUME NEW w \in Workers, Ask(w) PROVE PrintedFor'
    BY <1>1 DEF Ask
<1>2. ASSUME NEW w \in Workers, AnswerBusy(w) PROVE PrintedFor'
    <2>1. PrintOf[w] # NoPrint /\ KeyOf[w] \in Keys
        OBVIOUS
    <2>2. BusyAnswersOwn'
        BY <1>2, <2>1 DEF AnswerBusy
    <2> QED
        BY <1>2, <2>2 DEF AnswerBusy
<1>3. ASSUME NEW w \in Workers, Analyse(w) PROVE PrintedFor'
    <2>1. CASE /\ runs < MaxRuns /\ runs' = runs + 1
               /\ made' = [made EXCEPT ![w] = runs']
               /\ printed' = [printed EXCEPT ![runs'] = PrintOf[w]]
               /\ Goto(w, "save")
        <3>1. runs' \in Results /\ runs' # 0
            BY <2>1 DEF Results
        <3>2. \A n \in Results : n <= runs => printed'[n] = printed[n]
            BY <2>1, <3>1 DEF Results
        <3>3. /\ printed'[runs'] = PrintOf[w] /\ made'[w] = runs'
              /\ \A v \in Workers : v # w => made'[v] = made[v] /\ pc'[v] = pc[v]
            BY <2>1, <3>1
        <3>4. \A k \in Keys : cached'[k].print # NoPrint =>
                 cached'[k].at # NoResult /\ printed'[cached'[k].at] = cached'[k].print
            BY <1>3, <3>2 DEF Analyse, MadeBefore, Entries
        <3>5. \A v \in Workers : pc'[v] \in {"save", "put"} =>
                 made'[v] # NoResult /\ printed'[made'[v]] = PrintOf[v]
            BY <3>1, <3>2, <3>3 DEF MadeBefore
        <3>6. BusyAnswersOwn'
            BY <1>3, <3>2 DEF Analyse, MadeBefore
        <3> QED
            BY <3>4, <3>5, <3>6
    <2>2. CASE Goto(w, "release") /\ UNCHANGED <<runs, made, printed>>
        BY <1>3, <2>2 DEF Analyse
    <2> QED
        BY <1>3, <2>1, <2>2 DEF Analyse
<1>4. ASSUME NEW w \in Workers, Save(w) PROVE PrintedFor'
    BY <1>4 DEF Save
<1>5. ASSUME NEW w \in Workers, Put(w) PROVE PrintedFor'
    BY <1>5 DEF Put
<1>6. ASSUME NEW w \in Workers, Release(w) PROVE PrintedFor'
    BY <1>6 DEF Release
<1>7. ASSUME NEW r \in Readers, ReaderStep(r) PROVE PrintedFor'
    <2>1. CASE Look(r)
        BY <2>1 DEF Look
    <2>2. CASE ReadSnapshot(r)
        BY <2>2 DEF ReadSnapshot
    <2>3. CASE WriteBack(r)
        BY <2>3 DEF WriteBack
    <2> QED
        BY <1>7, <2>1, <2>2, <2>3 DEF ReaderStep
<1>8. ASSUME NEW k \in Keys, ExpireResult(k) PROVE PrintedFor'
    BY <1>8 DEF ExpireResult, Nothing
<1>9. ASSUME NEW k \in Keys, LeaseEnds(k) PROVE PrintedFor'
    BY <1>9 DEF LeaseEnds
<1>10. ASSUME NEW i \in Instances, Replace(i) PROVE PrintedFor'
    BY <1>10 DEF Replace
<1>11. CASE UNCHANGED vars
    BY <1>11 DEF vars
<1> QED
    BY <1>1, <1>2, <1>3, <1>4, <1>5, <1>6, <1>7, <1>8, <1>9, <1>10, <1>11
    DEF Next, WorkerStep

-----------------------------------------------------------------------------
(* saved before shown *)

\* A result gets into the cache from a run whose transaction is done or from a
\* snapshot that is stored, and into an answer from the cache.
LEMMA SavedInv == TypeOK /\ PrintedFor /\ SavedBefore /\ [Next]_vars => SavedBefore'
<1> SUFFICES ASSUME TypeOK, PrintedFor, SavedBefore, [Next]_vars PROVE SavedBefore'
    OBVIOUS
<1> USE DEF TypeOK, SavedBefore, ShownWasSaved, Goto, NoResult
<1>1. ASSUME NEW w \in Workers, Ask(w) PROVE SavedBefore'
    BY <1>1 DEF Ask
<1>2. ASSUME NEW w \in Workers, AnswerBusy(w) PROVE SavedBefore'
    BY <1>2 DEF AnswerBusy
<1>3. ASSUME NEW w \in Workers, Analyse(w) PROVE SavedBefore'
    BY <1>3 DEF Analyse
<1>4. ASSUME NEW w \in Workers, Save(w) PROVE SavedBefore'
    BY <1>4 DEF Save
<1>5. ASSUME NEW w \in Workers, Put(w) PROVE SavedBefore'
    BY <1>5 DEF Put
<1>6. ASSUME NEW w \in Workers, Release(w) PROVE SavedBefore'
    BY <1>6 DEF Release
<1>7. ASSUME NEW r \in Readers, ReaderStep(r) PROVE SavedBefore'
    <2>1. CASE Look(r)
        BY <2>1 DEF Look
    <2>2. CASE ReadSnapshot(r)
        BY <2>2 DEF ReadSnapshot
    <2>3. CASE WriteBack(r)
        BY <2>3 DEF WriteBack
    <2> QED
        BY <1>7, <2>1, <2>2, <2>3 DEF ReaderStep
<1>8. ASSUME NEW k \in Keys, ExpireResult(k) PROVE SavedBefore'
    BY <1>8 DEF ExpireResult, Nothing
<1>9. ASSUME NEW k \in Keys, LeaseEnds(k) PROVE SavedBefore'
    BY <1>9 DEF LeaseEnds
<1>10. ASSUME NEW i \in Instances, Replace(i) PROVE SavedBefore'
    BY <1>10 DEF Replace
<1>11. CASE UNCHANGED vars
    BY <1>11 DEF vars
<1> QED
    BY <1>1, <1>2, <1>3, <1>4, <1>5, <1>6, <1>7, <1>8, <1>9, <1>10, <1>11
    DEF Next, WorkerStep

-----------------------------------------------------------------------------
(* order under the lock *)

\* While no run has outlived its lease: whoever is running has its lease, so
\* with one window nobody else is between a result and its snapshot.
LEMMA OneRun ==
    ASSUME TypeOK, InOrder, ~overran, OneWindow,
           NEW v \in Workers, NEW w \in Workers, pc[v] \in Running, pc[w] \in Running
    PROVE  v = w
BY OneLease DEF InOrder, OneWindow

LEMMA OrderInv ==
    TypeOK /\ MadeBefore /\ PrintedFor /\ InOrder /\ [Next]_vars => InOrder'
<1> SUFFICES ASSUME TypeOK, MadeBefore, PrintedFor, InOrder, [Next]_vars, ~overran'
             PROVE  InOrder'
    BY DEF InOrder
<1>0. ~overran
    BY DEF Next, WorkerStep, ReaderStep, Ask, AnswerBusy, Analyse, Save, Put, Release,
           Look, ReadSnapshot, WriteBack, ExpireResult, LeaseEnds, Replace, vars
<1> USE <1>0 DEF TypeOK, InOrder, OneWindow, Goto, Running
<1>1. ASSUME NEW w \in Workers, Ask(w) PROVE InOrder'
    BY <1>1 DEF Ask
<1>2. ASSUME NEW w \in Workers, AnswerBusy(w) PROVE InOrder'
    BY <1>2 DEF AnswerBusy
<1>3. ASSUME NEW w \in Workers, Analyse(w) PROVE InOrder'
    <2>1. \A v \in Workers : OneWindow /\ pc'[v] = "save" => v = w
        BY <1>3, OneRun DEF Analyse
    <2> QED
        BY <1>3, <2>1 DEF Analyse
<1>4. ASSUME NEW w \in Workers, Save(w) PROVE InOrder'
    <2>1. \A i \in Instances : latest[i] <= runs
        BY DEF MadeBefore
    <2>2. OneWindow => made[w] = runs
        BY <1>4 DEF Save
    <2>3. ASSUME OneWindow, NEW i \in Instances PROVE cards'[i] = latest'[i]
        <3>1. latest[i] \in Nat /\ made[w] \in Nat /\ latest[i] <= made[w]
              /\ cards[i] = latest[i] /\ InstanceOf[w] \in Instances
            BY <2>1, <2>2, <2>3 DEF Results, NoResult
        <3>2. CASE UNCHANGED <<latest, cards>>
            BY <3>1, <3>2
        <3>3. CASE /\ latest' = [latest EXCEPT ![InstanceOf[w]] =
                                IF @ < made[w] THEN made[w] ELSE @]
                   /\ cards' = [cards EXCEPT ![InstanceOf[w]] = made[w]]
            <4>1. cards'[i] = IF i = InstanceOf[w] THEN made[w] ELSE cards[i]
                BY <3>1, <3>3
            <4>2. latest'[i] = IF i = InstanceOf[w] /\ latest[i] < made[w]
                               THEN made[w] ELSE latest[i]
                BY <3>1, <3>3
            <4> HIDE DEF TypeOK, InOrder
            <4> QED
                BY <4>1, <4>2, <3>1
        <3> QED
            BY <1>4, <3>2, <3>3 DEF Save
    <2> QED
        BY <1>4, <2>3 DEF Save
<1>5. ASSUME NEW w \in Workers, Put(w) PROVE InOrder'
    BY <1>5 DEF Put
<1>6. ASSUME NEW w \in Workers, Release(w) PROVE InOrder'
    BY <1>6 DEF Release
<1>7. ASSUME NEW r \in Readers, ReaderStep(r) PROVE InOrder'
    <2>1. CASE Look(r)
        BY <2>1 DEF Look
    <2>2. CASE ReadSnapshot(r)
        BY <2>2 DEF ReadSnapshot
    <2>3. CASE WriteBack(r)
        BY <2>3 DEF WriteBack
    <2> QED
        BY <1>7, <2>1, <2>2, <2>3 DEF ReaderStep
<1>8. ASSUME NEW k \in Keys, ExpireResult(k) PROVE InOrder'
    BY <1>8 DEF ExpireResult
<1>9. ASSUME NEW k \in Keys, LeaseEnds(k) PROVE InOrder'
    BY <1>9 DEF LeaseEnds
<1>10. ASSUME NEW i \in Instances, Replace(i) PROVE InOrder'
    BY <1>10 DEF Replace
<1>11. CASE UNCHANGED vars
    BY <1>11 DEF vars
<1> QED
    BY <1>1, <1>2, <1>3, <1>4, <1>5, <1>6, <1>7, <1>8, <1>9, <1>10, <1>11
    DEF Next, WorkerStep

-----------------------------------------------------------------------------
(* theorems *)

LEMMA Invariance == Spec => []IInv
<1>1. IInv /\ [Next]_vars => IInv'
    BY TypeInv, NumbersInv, PrintsInv, SavedInv, OrderInv DEF IInv
<1> QED
    BY <1>1, InitInv, PTL DEF Spec

\* The lock, the cache, the database of every instance and the results keep
\* their types: in particular only a worker whose token the lock holds is leased.
THEOREM TypeCorrect == Spec => []TypeOK
BY Invariance, PTL DEF IInv

\* _analysis_run: two runs of one window go on at once only when the lease of
\* one has run out, for any number of requests, windows and instances.
THEOREM RunsOverlapPastLease == Spec => []OverlapPastLease
<1>1. IInv => OverlapPastLease
    BY OneLease DEF IInv, OverlapPastLease
<1> QED
    BY <1>1, Invariance, PTL

\* A request that finds the lock taken gets the result of its own fingerprint
\* or none.
THEOREM BusyGetsOwn == Spec => []BusyAnswersOwn
BY Invariance, PTL DEF IInv, PrintedFor

\* What the cache or an answer holds has been saved by some instance, although
\* transactions fail and readers write snapshots back.
THEOREM ShownIsSaved == Spec => []ShownWasSaved
BY Invariance, PTL DEF IInv, SavedBefore

\* While all requests ask for one window and no run outlives its lease, each
\* instance holds the cards of its newest snapshot.
THEOREM CardsFollowSnapshot == Spec => []CardsOfLatestUnderLock
<1>1. IInv => CardsOfLatestUnderLock
    BY DEF IInv, InOrder, OneWindow, CardsOfLatestUnderLock
<1> QED
    BY <1>1, Invariance, PTL

-----------------------------------------------------------------------------
(* the parts together: one of them moves, and all keep what they promise *)

AnalysisInv ==
    /\ which \in {"run", "progress", "inputs", "views", "advice", "experiments",
                "divisions", "profiles", "scores"}
    /\ IInv /\ ProgressInv /\ InputsInv /\ ExperimentsInv /\ DivisionsInv /\ ProfileInv
    /\ ViewsTypeOK /\ AdviceTypeOK /\ ScoresTypeOK

LEMMA AnalysisStarts == AnalysisInit => AnalysisInv
<1> SUFFICES ASSUME AnalysisInit PROVE AnalysisInv
  OBVIOUS
<1>1. ViewsTypeOK
  BY MatchesAssumption DEF AnalysisInit, ViewsInit, ViewsTypeOK
<1>2. AdviceTypeOK
  BY DEF AnalysisInit, AdviceInit, AdviceTypeOK
<1>3. ScoresTypeOK
  BY DEF AnalysisInit, ScoresInit, ScoresTypeOK, Metric
<1> QED
  BY <1>1, <1>2, <1>3, InitInv, ProgressStarts, InputsStart, ExperimentsStart,
     DivisionsStart, ProfileStarts DEF AnalysisInit, AnalysisInv

\* Every step of the composition is a step of each part or leaves it alone.
LEMMA PartsAreTheirs ==
    [AnalysisNext]_analysisVars =>
        /\ UNCHANGED which
        /\ [Next]_vars /\ [ProgressNext]_progressVars /\ [InputsNext]_inputVars
        /\ [ViewsNext]_played /\ [AdviceNext]_adviceVars
        /\ [ExperimentsNext]_experimentVars /\ [DivisionsNext]_divisionVars
        /\ [ProfileNext]_profileVars /\ [ScoresNext]_judged
BY DEF AnalysisNext, analysisVars, innerVars, outerVars

LEMMA AnalysisKeeps == AnalysisInv /\ [AnalysisNext]_analysisVars => AnalysisInv'
<1> SUFFICES ASSUME AnalysisInv, [AnalysisNext]_analysisVars PROVE AnalysisInv'
  OBVIOUS
<1>1. IInv'
  BY PartsAreTheirs, TypeInv, NumbersInv, PrintsInv, SavedInv, OrderInv DEF AnalysisInv, IInv
<1>2. ProgressInv' /\ InputsInv' /\ ExperimentsInv' /\ DivisionsInv' /\ ProfileInv'
  BY PartsAreTheirs, ProgressKeeps, InputsKeep, ExperimentsKeep, DivisionsKeep, ProfileKeeps
  DEF AnalysisInv
<1>3. ViewsTypeOK' /\ AdviceTypeOK' /\ ScoresTypeOK'
  BY PartsAreTheirs, ViewsKeepTypes, AdviceKeepsTypes, ScoresKeepTypes DEF AnalysisInv
<1>4. which' = which
  BY PartsAreTheirs
<1> QED
  BY <1>1, <1>2, <1>3, <1>4 DEF AnalysisInv

LEMMA AnalysisInvariance == AnalysisSpec => []AnalysisInv
BY AnalysisStarts, AnalysisKeeps, PTL DEF AnalysisSpec

\* The variables of every part of an analysis keep their types.
THEOREM AnalysisTypes == AnalysisSpec => []AnalysisTypeOK
<1>1. AnalysisInv => AnalysisTypeOK
  BY DEF AnalysisInv, AnalysisTypeOK, IInv, ProgressInv, InputsInv, ExperimentsInv,
         DivisionsInv, DivisionsShape, ProfileInv
<1> QED
  BY <1>1, AnalysisInvariance, PTL

\* load_analysis_inputs, get_user_divisions and get_competitive_profile: a
\* linked feed was public since the analysis began, names that were known are
\* given, tiers shown together are of one match and of no match older than
\* those stored, and a rank shown is the manager's own, for any requests,
\* editions, catalogues, tiers, managers and nicknames.
THEOREM OutsideIsTrue == AnalysisSpec => []OutsideDataIsTrue
<1>1. AnalysisInv => OutsideDataIsTrue
  BY InputsHold, DivisionsHold, ProfileHolds DEF AnalysisInv, OutsideDataIsTrue
<1> QED
  BY <1>1, AnalysisInvariance, PTL

\* get_latest_experiment: the difference shown compares matches on both sides
\* of the experiment's own start, no more than its window on either, however
\* many experiments are created and evaluated at once.
THEOREM ShownIsOwn == AnalysisSpec => []ShownComparesOwnStart
<1>1. AnalysisInv => ShownComparesOwnStart
  BY ExperimentsHold DEF AnalysisInv
<1> QED
  BY <1>1, AnalysisInvariance, PTL

\* build_ranker_coaching, build_team_history_coaching and mode_history: the
\* worst differences are advised on, each subject once, and what the cut of one
\* mode drops could not have passed that of both, for any limit and any findings.
THEOREM ListsOfWorst == AnalysisSpec => []ListsAreOfWorst
<1>1. AnalysisInv => ListsAreOfWorst
  BY AdviceIsWorst, ActionsAreWorst DEF AnalysisInv, ListsAreOfWorst
<1> QED
  BY <1>1, AnalysisInvariance, PTL

\* The views, the scores and the advice as parts of an analysis: each answer is
\* the one its definition gives over all matches, all metrics and all findings,
\* for any number of matches, windows, limits, scores and shares.
THEOREM AnswersAreRight == AnalysisSpec => []AnswersMatchReference
<1>1. AnalysisInv => AnswersMatchReference
  BY ViewsMatch, FairScores, AdviceIsWorst, ActionsAreWorst
  DEF AnalysisInv, AnswersMatchReference, ListsAreOfWorst
<1> QED
  BY <1>1, AnalysisInvariance, PTL
=============================================================================
