-------------------------- MODULE MatchSync_proofs --------------------------
(***************************************************************************)
(* Theorems about MatchSync, for any requests, instances, windows, pages   *)
(* and matches: what a refresh has fetched is in its answer, and so are    *)
(* the match that was the newest one and as many matches as the window     *)
(* asks for; and one request after the other leaves no gap.                *)
(***************************************************************************)
EXTENDS MCSync, NaturalLemmas, TLAPS

USE InstanceOfAssumption, WindowOfAssumption, ForfeitsOfAssumption,
    MaxMatchesAssumption, ForfeitsAssumption, PageAssumption, CacheCapAssumption

\* What a request finds in the stores at this moment.
Found(w) == db[InstanceOf[w]] \cup cache

\* What w has fetched is in the database of its instance before it is cached.
SavedFirst ==
    \A w \in Workers : pc[w] \in {"copy", "write", "read"} =>
        fetched[w] \subseteq db[InstanceOf[w]]

\* While nothing is lost, what a request has loaded or knows is still stored,
\* and one that has loaded anything knows a match.
LoadedIsFound ==
    \A w \in Workers : Undisturbed(w) =>
        /\ pc[w] \in {"cache", "probe", "head", "remember", "known", "page"} => rows[w] \subseteq Found(w)
        /\ pc[w] = "page" => ids[w] \subseteq Found(w) /\ (rows[w] # {} => ids[w] # {})

\* While nothing is lost, the newest match that w has seen is on its way.
HeadOnItsWay ==
    \A w \in Workers : Undisturbed(w) /\ seen[w] # 0 =>
        /\ pc[w] = "save" => seen[w] \in fetched[w] \cup Found(w)
        /\ pc[w] \in {"copy", "write", "read"} => seen[w] \in Found(w)

\* While nothing is lost, a request that is about to ask for a page knows every
\* match of that page that it has loaded: what it fetches adds to its rows.
KnownOnPage ==
    \A w \in Workers : Undisturbed(w) /\ pc[w] = "page" =>
        rows[w] \cap Newest(1..played, CandidateLimit(w)) \subseteq ids[w]

\* All that the answer of w will hold: its rows, what it fetches, what is stored.
OnItsWay(w) == rows[w] \cup fetched[w] \cup Found(w)

\* Enough matches for the window, or as many as the page has.
EnoughIn(w, S) == Count(w, S) >= AtMost(WindowOf[w], Count(w, listed[w]))

\* While nothing is lost, a request that has its page has enough on its way.
EnoughOnItsWay ==
    \A w \in Workers : Undisturbed(w) /\ pc[w] \in {"save", "copy", "write", "read"} =>
        EnoughIn(w, OnItsWay(w))

IInv ==
    /\ TypeOK
    /\ SavedFirst /\ FetchedServed
    /\ LoadedIsFound /\ HeadOnItsWay /\ HeadServed
    /\ KnownOnPage /\ EnoughOnItsWay /\ EnoughRows

-----------------------------------------------------------------------------
(* the newest matches *)

\* Matches are finitely many numbers.
LEMMA PartOfInterval ==
    ASSUME NEW p \in Nat, NEW S \in SUBSET (1..p)
    PROVE  IsFiniteSet(S) /\ Cardinality(S) \in Nat /\ \A m \in S : m \in Nat /\ 1 <= m /\ m <= p
<1>1. IsFiniteSet(1..p)
    BY FS_Interval
<1>2. IsFiniteSet(S)
    BY <1>1, FS_Subset
<1> QED
    BY <1>2, FS_CardinalityType

\* Of the n newest matches there are n at most.
LEMMA NewestCount ==
    ASSUME NEW p \in Nat, NEW S \in SUBSET (1..p), NEW n \in Nat
    PROVE  Newest(S, n) \subseteq S /\ Cardinality(Newest(S, n)) <= n
<1>1. IsFiniteSet(S) /\ S \in SUBSET Nat
    BY PartOfInterval
<1> QED
    BY <1>1, FewAreNewest DEF Newest

\* The newest match of all is among the n newest ones, unless n is 0.
LEMMA HeadIsNewest ==
    ASSUME NEW p \in Nat, NEW S \in SUBSET (1..p), NEW n \in Nat \ {0},
           NEW m \in S, \A k \in S : k <= m
    PROVE  m \in Newest(S, n)
<1>1. \A k \in S : k \in Nat
    BY PartOfInterval
<1>2. {k \in S : k > m} = {}
    <2>1. ASSUME NEW k \in S, k > m PROVE FALSE
        <3>1. k \in Nat /\ m \in Nat /\ k <= m
            BY <1>1
        <3> QED
            BY <2>1, <3>1
    <2> QED
        BY <2>1
<1> QED
    BY SMTT(30), <1>2, FS_EmptySet DEF Newest

LEMMA NewestIsSome ==
    ASSUME NEW p \in Nat, NEW S \in SUBSET (1..p), NEW n \in Nat \ {0}, S # {}
    PROVE  Newest(S, n) # {}
<1>1. PICK m \in S : \A k \in S : k <= m
    <2>1. S \in SUBSET (0..p)
        OBVIOUS
    <2> QED
        BY <2>1, GreatestNatural
<1> QED
    BY <1>1, HeadIsNewest

LEMMA LimitIsPositive ==
    ASSUME TypeOK, NEW w \in Workers
    PROVE  CandidateLimit(w) \in Nat \ {0}
<1>1. Cardinality(rows[w]) \in Nat
    <2>1. played \in Nat /\ rows[w] \in SUBSET (1..played)
        BY DEF TypeOK
    <2> QED
        BY <2>1, PartOfInterval
<1>2. WindowOf[w] \in Nat \ {0}
    OBVIOUS
<1>3. \A a, b \in Nat : AtMost(a, b) \in {a, b} /\ AtLeast(a, b) \in {a, b}
    BY DEF AtMost, AtLeast
<1>4. AtLeast(PageMin, WindowOf[w] * 3) \in Nat \ {0}
    BY <1>2 DEF AtLeast
<1>5. SyncFetchLimit(WindowOf[w]) \in Nat \ {0}
    BY <1>4 DEF SyncFetchLimit, AtMost
<1>6. AtMost(PageMax, WindowOf[w]) \in Nat \ {0}
    BY <1>2 DEF AtMost
<1>7. \A base \in Nat \ {0} :
        AtMost(PageMax, AtLeast(base, Cardinality(rows[w]) + WindowOf[w] * 3)) \in Nat \ {0}
    BY <1>1, <1>2 DEF AtMost, AtLeast
<1> QED
    BY <1>5, <1>6, <1>7 DEF CandidateLimit

-----------------------------------------------------------------------------
(* what a refresh fetches *)

LEMMA WantedIsOnPage ==
    ASSUME NEW w \in Workers, NEW page, NEW known
    PROVE  Wanted(w, page, known) \subseteq page
BY DEF Wanted, Incremental, FillTotal, FillCompleted, Newest

\* The newest match of a page is fetched unless it is known; what it takes is
\* that a request with enough rows knows a match.
LEMMA HeadIsWanted ==
    ASSUME TypeOK, NEW w \in Workers, NEW p \in Nat, NEW page \in SUBSET (1..p),
           NEW known, p \in page, p \notin known, rows[w] # {} => known # {}
    PROVE  p \in Wanted(w, page, known)
<1>1. CASE known # {} /\ HasEnough(w, rows[w])
    BY <1>1 DEF Wanted, Incremental
<1>2. CASE ~(known # {} /\ HasEnough(w, rows[w])) /\ ForfeitsOf[w]
    <2>1. Cardinality(rows[w]) \in Nat /\ Count(w, rows[w]) = Cardinality(rows[w])
        <3>1. played \in Nat /\ rows[w] \in SUBSET (1..played)
            BY DEF TypeOK
        <3>2. Count(w, rows[w]) = Cardinality(rows[w])
            BY <1>2 DEF Count, Counting
        <3> QED
            BY <3>1, <3>2, PartOfInterval
    <2>2. ~HasEnough(w, rows[w])
        BY SMTT(30), <1>2, <2>1, FS_EmptySet DEF HasEnough
    <2>3. AtLeast(0, WindowOf[w] - Cardinality(rows[w])) \in Nat \ {0}
        BY <2>1, <2>2 DEF HasEnough, AtLeast
    <2>4. p \in Newest(page \ known, AtLeast(0, WindowOf[w] - Cardinality(rows[w])))
        <3>1. \A k \in page \ known : k <= p
            BY PartOfInterval
        <3> QED
            BY <2>3, <3>1, HeadIsNewest
    <2> QED
        BY <1>2, <2>4 DEF Wanted, FillTotal
<1>3. CASE ~(known # {} /\ HasEnough(w, rows[w])) /\ ~ForfeitsOf[w]
    <2>1. \A k \in page : k \in Nat /\ k <= p
        BY PartOfInterval
    <2>2. {k \in page \ known : k > p} = {}
        <3>1. ASSUME NEW k \in page, k > p PROVE FALSE
            BY <2>1, <3>1
        <3> QED
            BY <3>1
    <2> QED
        BY <1>3, <2>2 DEF Wanted, FillCompleted
<1> QED
    BY <1>1, <1>2, <1>3

-----------------------------------------------------------------------------
(* types *)

LEMMA TypeInv == TypeOK /\ [Next]_vars => TypeOK'
<1> SUFFICES ASSUME TypeOK, [Next]_vars PROVE TypeOK'
    OBVIOUS
<1> USE DEF TypeOK, data, history, Steps
<1>1. CASE Play
    <2>1. \A m \in 0..played : m \in 0..played'
        BY <1>1 DEF Play
    <2>2. played' \in 0..MaxMatches /\ 1..played \subseteq 1..played'
        BY <1>1 DEF Play
    <2> QED
        BY <1>1, <2>1, <2>2 DEF Play
<1>2. CASE ExpireCache
    BY <1>2, FS_EmptySet DEF ExpireCache, Losing
<1>3. CASE ExpireProbe
    BY <1>3 DEF ExpireProbe, NoHead
<1>4. ASSUME NEW i \in Instances, Replace(i) PROVE TypeOK'
    BY <1>4 DEF Replace
<1>5. ASSUME NEW w \in Workers,
             LoadDb(w) \/ LoadCache(w) \/ ProbeCached(w) \/ ProbeHead(w) \/ ProbeFails(w)
      PROVE  TypeOK'
    <2>1. CASE LoadDb(w)
        BY <2>1 DEF LoadDb, Stores
    <2>2. CASE LoadCache(w)
        <3>1. \E p \in {"stored", "known", "probe"} : pc' = [pc EXCEPT ![w] = p]
            BY <2>2 DEF LoadCache
        <3> QED
            BY <2>2, <3>1 DEF LoadCache
    <2>3. CASE ProbeCached(w)
        <3>1. Newest(db[InstanceOf[w]], AtLeast(WindowOf[w], PageMin)) \subseteq 1..played
            BY DEF Newest
        <3>2. \E p \in {"known", "head", "current"} : pc' = [pc EXCEPT ![w] = p]
            BY <2>3 DEF ProbeCached
        <3>3. ids' \in [Workers -> SUBSET (1..played)]
            BY <2>3, <3>1 DEF ProbeCached
        <3> QED
            BY <2>3, <3>2, <3>3 DEF ProbeCached
    <2>4. CASE ProbeHead(w)
        <3>1. CASE AskHead(w)
            <4>1. played \in 0..played
                OBVIOUS
            <4> QED
                BY <3>1, <4>1 DEF AskHead
        <3>2. CASE RememberHead(w)
            <4>1. \E p \in {"known", "current"} : pc' = [pc EXCEPT ![w] = p]
                BY <3>2 DEF RememberHead
            <4> QED
                BY <3>2, <4>1 DEF RememberHead
        <3> QED
            BY <2>4, <3>1, <3>2 DEF ProbeHead
    <2>5. CASE ProbeFails(w)
        BY <2>5 DEF ProbeFails
    <2> QED
        BY <1>5, <2>1, <2>2, <2>3, <2>4, <2>5
<1>6. ASSUME NEW w \in Workers, ReadKnown(w) \/ Collect(w) PROVE TypeOK'
    <2>1. CASE ReadKnown(w)
        <3>1. ids' \in [Workers -> SUBSET (1..played)]
            BY <2>1 DEF ReadKnown, Newest
        <3> QED
            BY <2>1, <3>1 DEF ReadKnown
    <2>2. CASE Collect(w)
        <3> DEFINE want == Wanted(w, Newest(1..played, CandidateLimit(w)), ids[w])
        <3>1. want \subseteq 1..played
            BY WantedIsOnPage DEF Newest
        <3>2. fetched' = [fetched EXCEPT ![w] = want]
              /\ \E p \in {"read", "save"} : pc' = [pc EXCEPT ![w] = p]
            BY <2>2 DEF Collect
        <3>3. shortFill' \in BOOLEAN
            BY <2>2 DEF Collect, HasEnough, TooShort
        <3> HIDE DEF want
        <3>4. fetched' \in [Workers -> SUBSET (1..played)] /\ pc' \in [Workers -> Steps]
            BY <3>1, <3>2
        <3>5. seen' \in [Workers -> 0..played] /\ ids' \in [Workers -> SUBSET (1..played)]
            <4>1. played \in 0..played
                OBVIOUS
            <4> QED
                BY <2>2, <4>1 DEF Collect
        <3>6. listed' \in [Workers -> SUBSET (1..played)]
            BY <2>2 DEF Collect, Newest
        <3> QED
            BY <2>2, <3>3, <3>4, <3>5, <3>6 DEF Collect
    <2> QED
        BY <1>6, <2>1, <2>2
<1>7. ASSUME NEW w \in Workers,
             SaveDb(w) \/ CopyCache(w) \/ WriteCache(w) \/ Return(w) \/ RefreshFails(w)
      PROVE  TypeOK'
    <2>1. CASE SaveDb(w)
        BY <2>1 DEF SaveDb
    <2>2. CASE CopyCache(w)
        BY <2>2 DEF CopyCache
    <2>3. CASE WriteCache(w)
        <3>1. fetched[w] \cup copy[w] \in SUBSET (1..played)
            OBVIOUS
        <3>2. cache' \subseteq 1..played /\ Cardinality(cache') <= CacheCap
            <4>1. cache' = Newest(fetched[w] \cup copy[w], CacheCap)
                BY <2>3 DEF WriteCache
            <4>2. played \in Nat
                OBVIOUS
            <4> HIDE DEF TypeOK
            <4> QED
                BY ZenonT(30), <3>1, <4>1, <4>2, NewestCount
        <3>3. kept' \in [Workers -> SUBSET Stores]
            BY <2>3 DEF WriteCache, Losing
        <3> QED
            BY <2>3, <3>2, <3>3 DEF WriteCache
    <2>4. CASE Return(w) \/ RefreshFails(w)
        <3>1. Available(w) \subseteq 1..played
            BY DEF Available
        <3>2. rows' \in [Workers -> SUBSET (1..played)]
            <4>1. CASE Return(w)
                BY <3>1, <4>1 DEF Return
            <4>2. CASE RefreshFails(w)
                BY <3>1, <4>2 DEF RefreshFails
            <4> QED
                BY <2>4, <4>1, <4>2
        <3>3. pc' \in [Workers -> Steps]
            BY <2>4 DEF Return, RefreshFails
        <3> QED
            BY <2>4, <3>2, <3>3 DEF Return, RefreshFails
    <2> QED
        BY <1>7, <2>1, <2>2, <2>3, <2>4
<1>8. CASE UNCHANGED vars
    BY <1>8 DEF vars
<1> QED
    BY <1>1, <1>2, <1>3, <1>4, <1>5, <1>6, <1>7, <1>8 DEF Next

-----------------------------------------------------------------------------
(* what was fetched *)

LEMMA FetchedInv ==
    TypeOK /\ SavedFirst /\ FetchedServed /\ [Next]_vars => (SavedFirst /\ FetchedServed)'
<1> SUFFICES ASSUME TypeOK, SavedFirst, FetchedServed, [Next]_vars
             PROVE  SavedFirst' /\ FetchedServed'
    OBVIOUS
<1> USE DEF TypeOK, SavedFirst, FetchedServed, Fresh, data, history
<1>1. CASE Play \/ ExpireCache \/ ExpireProbe \/ UNCHANGED vars
    BY <1>1 DEF Play, ExpireCache, ExpireProbe, vars
<1>2. ASSUME NEW i \in Instances, Replace(i) PROVE SavedFirst' /\ FetchedServed'
    BY <1>2 DEF Replace
<1>3. ASSUME NEW w \in Workers,
             LoadDb(w) \/ LoadCache(w) \/ ProbeCached(w) \/ ProbeHead(w) \/ ProbeFails(w)
      PROVE  SavedFirst' /\ FetchedServed'
    <2>1. CASE LoadDb(w)
        BY <2>1 DEF LoadDb
    <2>2. CASE LoadCache(w)
        BY <2>2 DEF LoadCache
    <2>3. CASE ProbeCached(w)
        BY <2>3 DEF ProbeCached
    <2>4. CASE ProbeHead(w) \/ ProbeFails(w)
        BY <2>4 DEF ProbeHead, AskHead, RememberHead, ProbeFails
    <2> QED
        BY <1>3, <2>1, <2>2, <2>3, <2>4
<1>4. ASSUME NEW w \in Workers, ReadKnown(w) \/ Collect(w)
      PROVE  SavedFirst' /\ FetchedServed'
    <2>1. CASE ReadKnown(w)
        BY <2>1 DEF ReadKnown
    <2>2. CASE Collect(w)
        <3> DEFINE want == Wanted(w, Newest(1..played, CandidateLimit(w)), ids[w])
        <3>1. /\ fetched' = [fetched EXCEPT ![w] = want]
              /\ pc' = [pc EXCEPT ![w] = IF want = {} THEN "read" ELSE "save"]
              /\ UNCHANGED <<db, rows>>
            BY <2>2 DEF Collect
        <3> HIDE DEF want
        <3> QED
            BY <3>1
    <2> QED
        BY <1>4, <2>1, <2>2
<1>5. ASSUME NEW w \in Workers,
             SaveDb(w) \/ CopyCache(w) \/ WriteCache(w) \/ Return(w) \/ RefreshFails(w)
      PROVE  SavedFirst' /\ FetchedServed'
    <2>1. CASE SaveDb(w)
        BY <2>1 DEF SaveDb
    <2>2. CASE CopyCache(w) \/ WriteCache(w)
        BY <2>2 DEF CopyCache, WriteCache
    <2>3. CASE Return(w) \/ RefreshFails(w)
        BY <2>3 DEF Return, RefreshFails, Available
    <2> QED
        BY <1>5, <2>1, <2>2, <2>3
<1> QED
    BY <1>1, <1>2, <1>3, <1>4, <1>5 DEF Next

-----------------------------------------------------------------------------
(* what was loaded *)

\* Nothing that a request could have found is gone while nothing counts as lost.
LEMMA FoundStays ==
    ASSUME TypeOK, [Next]_vars, NEW w \in Workers, Undisturbed(w)',
           pc'[w] # "idle", ~LoadDb(w)
    PROVE  Undisturbed(w) /\ Found(w) \subseteq Found(w)'
<1> USE DEF TypeOK, Undisturbed, Found, Stores, Losing, data, history
<1>1. CASE Play \/ ExpireProbe \/ UNCHANGED vars
    BY <1>1 DEF Play, ExpireProbe, vars
<1>2. CASE ExpireCache
    BY <1>2 DEF ExpireCache
<1>3. ASSUME NEW i \in Instances, Replace(i)
      PROVE  Undisturbed(w) /\ Found(w) \subseteq Found(w)'
    BY <1>3 DEF Replace
<1>4. ASSUME NEW v \in Workers,
             LoadDb(v) \/ LoadCache(v) \/ ProbeCached(v) \/ ProbeHead(v) \/ ProbeFails(v)
             \/ ReadKnown(v) \/ Collect(v)
      PROVE  Undisturbed(w) /\ Found(w) \subseteq Found(w)'
    <2>1. CASE LoadDb(v)
        BY <2>1 DEF LoadDb
    <2>2. CASE ~LoadDb(v)
        <3>1. UNCHANGED <<db, cache, kept>>
            BY <1>4, <2>2 DEF LoadCache, ProbeCached, ProbeHead, AskHead, RememberHead, ProbeFails, ReadKnown, Collect
        <3> QED
            BY <3>1
    <2> QED
        BY <2>1, <2>2
<1>5. ASSUME NEW v \in Workers,
             SaveDb(v) \/ CopyCache(v) \/ WriteCache(v) \/ Return(v) \/ RefreshFails(v)
      PROVE  Undisturbed(w) /\ Found(w) \subseteq Found(w)'
    <2>1. CASE SaveDb(v)
        BY <2>1 DEF SaveDb
    <2>2. CASE WriteCache(v)
        <3>1. kept' = [u \in Workers |-> kept[u] \ IF cache \subseteq cache' THEN {} ELSE {"cache"}]
              /\ db' = db
            BY <2>2 DEF WriteCache
        <3>2. cache \subseteq cache'
            BY <3>1
        <3> QED
            BY <3>1, <3>2
    <2>3. CASE CopyCache(v) \/ Return(v) \/ RefreshFails(v)
        BY <2>3 DEF CopyCache, Return, RefreshFails
    <2> QED
        BY <1>5, <2>1, <2>2, <2>3
<1> QED
    BY <1>1, <1>2, <1>3, <1>4, <1>5 DEF Next

\* A step of another request, or of a store, does not touch what w has at hand.
Rests(w) == UNCHANGED <<pc[w], rows[w], ids[w], fetched[w], seen[w], listed[w]>>
Moves(w) ==
    \/ LoadDb(w) \/ LoadCache(w) \/ ProbeCached(w) \/ ProbeHead(w) \/ ProbeFails(w)
    \/ ReadKnown(w) \/ Collect(w) \/ SaveDb(w) \/ CopyCache(w) \/ WriteCache(w)
    \/ Return(w) \/ RefreshFails(w)

LEMMA RestOrMove ==
    ASSUME TypeOK, [Next]_vars, NEW w \in Workers, pc'[w] # "idle"
    PROVE  Rests(w) \/ Moves(w)
<1> USE DEF TypeOK, Rests, data, history
<1>1. CASE Play \/ ExpireCache \/ ExpireProbe \/ UNCHANGED vars
    BY <1>1 DEF Play, ExpireCache, ExpireProbe, vars
<1>2. ASSUME NEW i \in Instances, Replace(i) PROVE Rests(w)
    BY <1>2 DEF Replace
<1>3. ASSUME NEW v \in Workers, v # w,
             LoadDb(v) \/ LoadCache(v) \/ ProbeCached(v) \/ ProbeHead(v) \/ ProbeFails(v)
             \/ ReadKnown(v)
      PROVE  Rests(w)
    BY <1>3 DEF LoadDb, LoadCache, ProbeCached, ProbeHead, AskHead, RememberHead, ProbeFails, ReadKnown
<1>4. ASSUME NEW v \in Workers, v # w,
             Collect(v) \/ SaveDb(v) \/ CopyCache(v) \/ WriteCache(v) \/ Return(v)
             \/ RefreshFails(v)
      PROVE  Rests(w)
    BY <1>4 DEF Collect, SaveDb, CopyCache, WriteCache, Return, RefreshFails
<1> QED
    BY <1>1, <1>2, <1>3, <1>4 DEF Next, Moves

LEMMA LoadedInv == TypeOK /\ LoadedIsFound /\ [Next]_vars => LoadedIsFound'
<1> SUFFICES ASSUME TypeOK, LoadedIsFound, [Next]_vars, NEW w \in Workers, Undisturbed(w)',
                    pc'[w] \in {"cache", "probe", "head", "remember", "known", "page"}
             PROVE  /\ rows'[w] \subseteq Found(w)'
                    /\ pc'[w] = "page" => ids'[w] \subseteq Found(w)'
                                          /\ (rows'[w] # {} => ids'[w] # {})
    BY DEF LoadedIsFound
<1> USE DEF TypeOK, data, history
<1>1. CASE LoadDb(w)
    BY <1>1 DEF LoadDb, Found
<1>2. ~LoadDb(w) => Undisturbed(w) /\ Found(w) \subseteq Found(w)'
    BY FoundStays
<1>3. CASE ~LoadDb(w) /\ Rests(w)
    BY <1>2, <1>3 DEF Rests, LoadedIsFound
<1>4. CASE LoadCache(w)
    <2>1. ~LoadDb(w) /\ pc[w] = "cache" /\ rows' = [rows EXCEPT ![w] = @ \cup cache]
          /\ pc'[w] # "page" /\ cache \subseteq Found(w)
        BY <1>4 DEF LoadCache, LoadDb, Answered, Found
    <2> QED
        BY <1>2, <2>1 DEF LoadedIsFound
<1>5. CASE ProbeCached(w) \/ ProbeHead(w)
    <2>1. ~LoadDb(w) /\ pc[w] \in {"probe", "head", "remember"} /\ rows' = rows /\ pc'[w] # "page"
        BY <1>5 DEF ProbeCached, ProbeHead, AskHead, RememberHead, LoadDb, Answered
    <2> QED
        BY <1>2, <2>1 DEF LoadedIsFound
<1>6. CASE ReadKnown(w)
    <2> DEFINE mine == db[InstanceOf[w]]
               stored == IF rows[w] = {} THEN {} ELSE Newest(mine, CandidateLimit(w))
    <2>1. /\ ~LoadDb(w) /\ pc[w] = "known" /\ UNCHANGED <<rows, db, cache>>
          /\ ids' = [ids EXCEPT ![w] = stored \cup cache]
        BY <1>6 DEF ReadKnown, LoadDb, Answered
    <2>2. rows[w] \subseteq Found(w) /\ Found(w)' = Found(w)
        BY <1>2, <2>1 DEF LoadedIsFound, Found
    <2>3. stored \subseteq mine
        BY DEF Newest
    <2>4. rows[w] # {} /\ cache = {} => stored # {}
        <3>1. rows[w] # {} /\ cache = {} => mine # {}
            BY <2>2 DEF Found
        <3>2. mine \in SUBSET (1..played) /\ played \in Nat
            OBVIOUS
        <3> HIDE DEF mine, TypeOK
        <3>3. mine # {} => Newest(mine, CandidateLimit(w)) # {}
            BY <3>2, LimitIsPositive, NewestIsSome
        <3> QED
            BY <3>1, <3>3
    <2> HIDE DEF stored
    <2> QED
        BY <2>1, <2>2, <2>3, <2>4 DEF Found
<1> QED
    <2>1. Moves(w) => LoadDb(w) \/ LoadCache(w) \/ ProbeCached(w) \/ ProbeHead(w) \/ ReadKnown(w)
        BY DEF Moves, ProbeFails, Collect, SaveDb, CopyCache, WriteCache, Return, RefreshFails
    <2> QED
        BY <2>1, <1>1, <1>3, <1>4, <1>5, <1>6, RestOrMove

-----------------------------------------------------------------------------
(* the newest match *)

\* Collect: what was newest upstream is fetched or stored.
LEMMA HeadCollected ==
    ASSUME TypeOK, LoadedIsFound, NEW w \in Workers, pc[w] = "page", Undisturbed(w),
           played # 0
    PROVE  played \in Wanted(w, Newest(1..played, CandidateLimit(w)), ids[w]) \cup Found(w)
<1> DEFINE page == Newest(1..played, CandidateLimit(w))
<1>1. played \in Nat \ {0}
    BY DEF TypeOK
<1>2. page \in SUBSET (1..played)
    BY DEF Newest
<1>3. played \in page
    <2>1. \A k \in 1..played : k <= played
        BY <1>1
    <2>2. played \in 1..played
        BY <1>1
    <2> QED
        BY <1>1, <2>1, <2>2, LimitIsPositive, HeadIsNewest
<1>4. ids[w] \subseteq Found(w) /\ (rows[w] # {} => ids[w] # {})
    BY DEF LoadedIsFound
<1> HIDE DEF page
<1>5. played \notin ids[w] => played \in Wanted(w, page, ids[w])
    BY <1>1, <1>2, <1>3, <1>4, HeadIsWanted
<1> QED
    BY <1>4, <1>5 DEF page

LEMMA HeadInv ==
    TypeOK /\ SavedFirst /\ LoadedIsFound /\ HeadOnItsWay /\ HeadServed /\ [Next]_vars
        => (HeadOnItsWay /\ HeadServed)'
<1> SUFFICES ASSUME TypeOK, SavedFirst, LoadedIsFound, HeadOnItsWay, HeadServed, [Next]_vars,
                    NEW w \in Workers, Undisturbed(w)', seen'[w] # 0,
                    pc'[w] \in {"save", "copy", "write", "read", "fresh"}
             PROVE  /\ pc'[w] = "save" => seen'[w] \in fetched'[w] \cup Found(w)'
                    /\ pc'[w] \in {"copy", "write", "read"} => seen'[w] \in Found(w)'
                    /\ pc'[w] = "fresh" => seen'[w] \in rows'[w]
    BY DEF HeadOnItsWay, HeadServed, Fresh
<1> USE DEF TypeOK, data, history
<1>1. ~LoadDb(w)
    BY DEF LoadDb
<1>2. Undisturbed(w) /\ Found(w) \subseteq Found(w)'
    BY <1>1, FoundStays
<1>3. CASE Rests(w)
    BY <1>2, <1>3 DEF Rests, HeadOnItsWay, HeadServed, Fresh
<1>4. CASE Collect(w)
    <2> DEFINE want == Wanted(w, Newest(1..played, CandidateLimit(w)), ids[w])
    <2>1. /\ pc[w] = "page" /\ seen'[w] = played /\ fetched'[w] = want
          /\ pc'[w] = IF want = {} THEN "read" ELSE "save"
        BY <1>4 DEF Collect
    <2>2. played \in want \cup Found(w)
        BY <1>2, <2>1, HeadCollected
    <2> HIDE DEF want
    <2> QED
        BY <1>2, <2>1, <2>2
<1>5. CASE SaveDb(w)
    <2>1. /\ pc[w] = "save" /\ pc'[w] = "copy" /\ seen'[w] = seen[w]
          /\ fetched[w] \subseteq Found(w)'
        BY <1>5 DEF SaveDb, Found
    <2> QED
        BY <1>2, <2>1 DEF HeadOnItsWay
<1>6. CASE CopyCache(w) \/ WriteCache(w)
    <2>1. /\ pc[w] \in {"copy", "write"} /\ pc'[w] \in {"write", "read"}
          /\ seen'[w] = seen[w]
        BY <1>6 DEF CopyCache, WriteCache
    <2> QED
        BY <1>2, <2>1 DEF HeadOnItsWay
<1>7. CASE Return(w)
    <2>1. /\ pc[w] = "read" /\ pc'[w] = "fresh" /\ seen'[w] = seen[w]
          /\ Found(w) \subseteq rows'[w]
        BY <1>7 DEF Return, Available, Found
    <2> QED
        BY <1>2, <2>1 DEF HeadOnItsWay
<1> QED
    <2>1. Moves(w) => Collect(w) \/ SaveDb(w) \/ CopyCache(w) \/ WriteCache(w) \/ Return(w)
        BY DEF Moves, LoadDb, LoadCache, ProbeCached, ProbeHead, AskHead, RememberHead, ProbeFails, ReadKnown,
           RefreshFails
    <2> QED
        BY <2>1, <1>3, <1>4, <1>5, <1>6, <1>7, RestOrMove

-----------------------------------------------------------------------------
(* enough matches *)

\* A larger stock counts at least as much.
LEMMA CountGrows ==
    ASSUME NEW w \in Workers, NEW p \in Nat, NEW T \in SUBSET (1..p), NEW S \in SUBSET T
    PROVE  Count(w, S) \in Nat /\ Count(w, T) \in Nat /\ Count(w, S) <= Count(w, T)
<1>1. Counting(w, S) \subseteq Counting(w, T) /\ Counting(w, T) \in SUBSET (1..p)
    BY DEF Counting
<1>2. IsFiniteSet(Counting(w, T))
    BY <1>1, PartOfInterval
<1>3. /\ IsFiniteSet(Counting(w, S))
      /\ Cardinality(Counting(w, S)) <= Cardinality(Counting(w, T))
    BY <1>1, <1>2, FS_Subset
<1> QED
    BY <1>2, <1>3, FS_CardinalityType DEF Count

\* Matches that are not yet in a stock add to its count.
LEMMA CountAdds ==
    ASSUME NEW w \in Workers, NEW p \in Nat, NEW S \in SUBSET (1..p), NEW T \in SUBSET (1..p),
           S \cap T = {}
    PROVE  Count(w, S \cup T) = Count(w, S) + Count(w, T)
<1> DEFINE A == Counting(w, S)
           B == Counting(w, T)
<1>1. A \in SUBSET (1..p) /\ B \in SUBSET (1..p) /\ A \cap B = {}
      /\ Counting(w, S \cup T) = A \cup B
    BY DEF Counting
<1>2. IsFiniteSet(A) /\ IsFiniteSet(B)
    BY <1>1, PartOfInterval
<1> HIDE DEF A, B
<1>3. Cardinality(A \cup B) = Cardinality(A) + Cardinality(B) - Cardinality(A \cap B)
    BY <1>2, FS_Union
<1>4. Cardinality(A) \in Nat /\ Cardinality(B) \in Nat /\ Cardinality(A \cap B) = 0
    BY <1>1, <1>2, FS_CardinalityType, FS_EmptySet
<1>5. Cardinality(A \cup B) = Cardinality(A) + Cardinality(B)
    BY <1>3, <1>4
<1> QED
    BY <1>1, <1>5 DEF Count, A, B

\* The greatest match that a condition leaves out: all the newer ones are in.
LEMMA NewerAreIn ==
    ASSUME NEW p \in Nat, NEW U \in SUBSET (1..p), NEW W \in SUBSET U, U # W
    PROVE  \E m \in U \ W : {k \in U : k > m} \subseteq W
<1>1. U \ W # {} /\ U \ W \in SUBSET (0..p)
    <2>1. 1..p \subseteq 0..p
        OBVIOUS
    <2> QED
        BY <2>1
<1>2. PICK m \in U \ W : \A k \in U \ W : k <= m
    BY <1>1, GreatestNatural
<1>3. ASSUME NEW k \in U, k > m, k \notin W PROVE FALSE
    <2>1. k \in Nat /\ m \in Nat /\ k <= m
        BY <1>2, <1>3
    <2> QED
        BY <1>3, <2>1
<1> QED
    BY <1>2, <1>3

\* A collector takes all the unknown ids of the page, or enough of them.
LEMMA WantedIsEnough ==
    ASSUME TypeOK, NEW w \in Workers, NEW p \in Nat, NEW page \in SUBSET (1..p),
           NEW known \in SUBSET (1..p), rows[w] \in SUBSET (1..p),
           rows[w] \cap page \subseteq known
    PROVE  \/ HasEnough(w, rows[w])
           \/ page \subseteq Wanted(w, page, known) \cup known
           \/ Count(w, rows[w] \cup Wanted(w, page, known)) >= WindowOf[w]
<1> DEFINE want == Wanted(w, page, known)
           U == page \ known
<1> SUFFICES ASSUME ~HasEnough(w, rows[w]), ~(page \subseteq want \cup known)
             PROVE  Count(w, rows[w] \cup want) >= WindowOf[w]
    OBVIOUS
<1>1. want = IF ForfeitsOf[w] THEN FillTotal(w, page, known) ELSE FillCompleted(w, page, known)
    BY DEF Wanted
<1>2. U \in SUBSET (1..p) /\ want \subseteq U /\ want # U /\ rows[w] \cap U = {}
    <2>1. want \subseteq U
        BY <1>1 DEF FillTotal, FillCompleted, Newest
    <2> QED
        BY <2>1
<1> HIDE DEF want
<1>3. PICK m \in U \ want : {k \in U : k > m} \subseteq want
    <2> HIDE DEF U
    <2> QED
        BY <1>2, NewerAreIn
<1> DEFINE newer == {k \in U : k > m}
<1>4. newer \in SUBSET (1..p) /\ newer \subseteq want /\ rows[w] \cap newer = {}
    BY <1>2, <1>3
<1>5. Count(w, rows[w] \cup newer) = Count(w, rows[w]) + Count(w, newer)
    <2>1. \A S, T \in SUBSET (1..p) : S \cap T = {} => Count(w, S \cup T) = Count(w, S) + Count(w, T)
        BY CountAdds
    <2> HIDE DEF newer
    <2> QED
        BY <1>4, <2>1
<1>6. Count(w, rows[w]) + Count(w, newer) >= WindowOf[w]
    <2>1. CASE ForfeitsOf[w]
        <3>1. Cardinality(rows[w]) \in Nat /\ Cardinality(newer) \in Nat
            <4> HIDE DEF newer
            <4> QED
                BY <1>4, PartOfInterval
        <3>2. Count(w, rows[w]) = Cardinality(rows[w]) /\ Count(w, newer) = Cardinality(newer)
            BY <2>1 DEF Count, Counting
        <3>3. want = Newest(U, AtLeast(0, WindowOf[w] - Cardinality(rows[w])))
            BY <1>1, <2>1 DEF FillTotal
        <3>4. ~(Cardinality(newer) < AtLeast(0, WindowOf[w] - Cardinality(rows[w])))
            BY <1>3, <3>3 DEF Newest
        <3> HIDE DEF newer
        <3> QED
            BY <3>1, <3>2, <3>4 DEF AtLeast
    <2>2. CASE ~ForfeitsOf[w]
        <3>1. Count(w, rows[w]) \in Nat /\ Count(w, newer) \in Nat
            <4> HIDE DEF newer
            <4> QED
                BY <1>4, CountGrows
        <3>2. ~(Count(w, rows[w]) + Count(w, newer) < WindowOf[w])
            BY <1>1, <1>3, <2>2 DEF FillCompleted
        <3> HIDE DEF newer
        <3> QED
            BY <3>1, <3>2
    <2> QED
        BY <2>1, <2>2
<1>7. rows[w] \cup want \in SUBSET (1..p) /\ rows[w] \cup newer \in SUBSET (rows[w] \cup want)
    BY <1>2, <1>4
<1>8. /\ Count(w, rows[w] \cup newer) \in Nat /\ Count(w, rows[w] \cup want) \in Nat
      /\ Count(w, rows[w] \cup newer) <= Count(w, rows[w] \cup want)
    <2> HIDE DEF newer
    <2> QED
        BY <1>7, CountGrows
<1>9. Count(w, rows[w] \cup want) >= WindowOf[w]
    <2> HIDE DEF newer, U
    <2> QED
        BY <1>5, <1>6, <1>8
<1> QED
    BY <1>9

\* What is enough stays enough.
LEMMA EnoughGrows ==
    ASSUME NEW w \in Workers, NEW p \in Nat, NEW T \in SUBSET (1..p), NEW S \in SUBSET T,
           listed[w] \in SUBSET (1..p), EnoughIn(w, S)
    PROVE  EnoughIn(w, T)
<1>1. Count(w, S) \in Nat /\ Count(w, T) \in Nat /\ Count(w, S) <= Count(w, T)
    BY CountGrows
<1>2. Count(w, listed[w]) \in Nat
    BY CountGrows
<1> QED
    BY <1>1, <1>2 DEF EnoughIn, AtMost

\* One of the newest matches is one of the newest in any part that has it.
LEMMA NewestInPart ==
    ASSUME NEW p \in Nat, NEW T \in SUBSET (1..p), NEW S \in SUBSET T, NEW n \in Nat,
           NEW m \in S, m \in Newest(T, n)
    PROVE  m \in Newest(S, n)
<1> DEFINE newer(R) == {k \in R : k > m}
<1>1. newer(S) \subseteq newer(T) /\ newer(T) \in SUBSET (1..p) /\ Cardinality(newer(T)) < n
    BY DEF Newest
<1>2. m \in Newest(S, n) <=> Cardinality(newer(S)) < n
    BY DEF Newest
<1> HIDE DEF newer
<1>3. IsFiniteSet(newer(T))
    BY <1>1, PartOfInterval
<1>4. /\ Cardinality(newer(S)) <= Cardinality(newer(T))
      /\ Cardinality(newer(S)) \in Nat /\ Cardinality(newer(T)) \in Nat
    BY <1>1, <1>3, FS_Subset, FS_CardinalityType
<1> QED
    BY <1>1, <1>2, <1>4

LEMMA KnownInv ==
    TypeOK /\ LoadedIsFound /\ KnownOnPage /\ [Next]_vars => KnownOnPage'
<1> SUFFICES ASSUME TypeOK, LoadedIsFound, KnownOnPage, [Next]_vars, TypeOK',
                    NEW w \in Workers, Undisturbed(w)', pc'[w] = "page",
                    NEW m \in rows'[w], m \in Newest(1..played', CandidateLimit(w)')
             PROVE  m \in ids'[w]
    BY TypeInv DEF KnownOnPage
<1> USE DEF data, history
<1>1. ~LoadDb(w) /\ Undisturbed(w)
    <2>1. ~LoadDb(w)
        BY DEF LoadDb, TypeOK
    <2> QED
        BY <2>1, FoundStays
<1>2. CASE Rests(w)
    <2>1. pc[w] = "page" /\ rows'[w] = rows[w] /\ ids'[w] = ids[w]
        BY <1>2 DEF Rests
    <2>2. CandidateLimit(w)' = CandidateLimit(w)
        BY <2>1 DEF CandidateLimit, HasEnough, Count, Counting
    <2>3. played \in Nat /\ played' \in Nat /\ played <= played' /\ m \in 1..played
        <3>1. played' = played \/ played' = played + 1
            BY DEF Next, vars, Play, ExpireCache, ExpireProbe, Replace, LoadDb, LoadCache,
               ProbeCached, ProbeHead, AskHead, RememberHead, ProbeFails, ReadKnown, Collect, SaveDb, CopyCache,
               WriteCache, Return, RefreshFails
        <3>2. played \in Nat /\ m \in 1..played
            BY <2>1 DEF TypeOK
        <3> QED
            BY <3>1, <3>2
    <2>4. m \in Newest(1..played, CandidateLimit(w))
        <3>1. 1..played \in SUBSET (1..played') /\ m \in Newest(1..played', CandidateLimit(w))
            BY <2>2, <2>3
        <3> QED
            BY <2>3, <3>1, LimitIsPositive, NewestInPart
    <2> QED
        BY <1>1, <2>1, <2>4 DEF KnownOnPage
<1>3. CASE ReadKnown(w)
    <2> DEFINE mine == db[InstanceOf[w]]
    <2>1. /\ pc[w] = "known" /\ UNCHANGED <<played, rows, db, cache>>
          /\ ids'[w] = (IF rows[w] = {} THEN {} ELSE Newest(mine, CandidateLimit(w))) \cup cache
        BY <1>3 DEF ReadKnown, TypeOK
    <2>2. m \in rows[w] /\ m \in mine \cup cache
        BY <1>1, <2>1 DEF LoadedIsFound, Found
    <2>3. CandidateLimit(w)' = CandidateLimit(w)
        BY <2>1 DEF CandidateLimit, HasEnough, Count, Counting
    <2>4. CASE m \in mine
        <3>1. mine \in SUBSET (1..played) /\ played \in Nat
            BY DEF TypeOK
        <3>2. m \in Newest(1..played, CandidateLimit(w))
            BY <2>1, <2>3
        <3> HIDE DEF mine
        <3>3. m \in Newest(mine, CandidateLimit(w))
            BY <2>4, <3>1, <3>2, LimitIsPositive, NewestInPart
        <3> QED
            BY <2>1, <2>2, <3>3
    <2>5. CASE m \in cache
        BY <2>1, <2>5
    <2> QED
        BY <2>2, <2>4, <2>5
<1> QED
    <2>1. Moves(w) => LoadDb(w) \/ ReadKnown(w)
        BY DEF Moves, LoadCache, ProbeCached, ProbeHead, AskHead, RememberHead, ProbeFails, Collect, SaveDb,
           CopyCache, WriteCache, Return, RefreshFails, TypeOK
    <2> QED
        BY <2>1, <1>1, <1>2, <1>3, RestOrMove

\* Collect: what is on its way now is enough.
LEMMA CollectedIsEnough ==
    ASSUME TypeOK, TypeOK', LoadedIsFound, KnownOnPage, NEW w \in Workers, Undisturbed(w),
           Collect(w)
    PROVE  EnoughIn(w, OnItsWay(w))'
<1> DEFINE page == Newest(1..played, CandidateLimit(w))
           want == Wanted(w, page, ids[w])
           coming == rows[w] \cup want \cup Found(w)
<1>1. /\ pc[w] = "page" /\ UNCHANGED <<played, db, cache, rows>>
      /\ fetched'[w] = want /\ listed'[w] = page
    BY DEF Collect, data, TypeOK
<1>2. EnoughIn(w, OnItsWay(w))' <=> Count(w, coming) >= AtMost(WindowOf[w], Count(w, page))
    BY <1>1 DEF EnoughIn, OnItsWay, Found, Count, Counting
<1>3. ids[w] \subseteq Found(w) /\ rows[w] \subseteq Found(w) /\ rows[w] \cap page \subseteq ids[w]
    BY <1>1 DEF LoadedIsFound, KnownOnPage
<1>4. /\ played \in Nat /\ page \in SUBSET (1..played) /\ ids[w] \in SUBSET (1..played)
      /\ rows[w] \in SUBSET (1..played) /\ Found(w) \in SUBSET (1..played)
    <2>1. page \subseteq 1..played
        BY DEF Newest
    <2>2. played \in Nat /\ ids[w] \in SUBSET (1..played) /\ rows[w] \in SUBSET (1..played)
        BY DEF TypeOK
    <2>3. Found(w) \in SUBSET (1..played)
        BY DEF TypeOK, Found
    <2> QED
        BY <2>1, <2>2, <2>3
<1> HIDE DEF page
<1>5. \/ HasEnough(w, rows[w])
      \/ page \subseteq want \cup ids[w]
      \/ Count(w, rows[w] \cup want) >= WindowOf[w]
    BY <1>3, <1>4, WantedIsEnough
<1>6. want \subseteq page
    BY WantedIsOnPage
<1> HIDE DEF want
<1>7. coming \in SUBSET (1..played)
    BY <1>4, <1>6
<1>8. \A S \in SUBSET coming :
        Count(w, S) \in Nat /\ Count(w, coming) \in Nat /\ Count(w, S) <= Count(w, coming)
    <2> HIDE DEF coming
    <2> QED
        BY <1>4, <1>7, CountGrows
<1>9. Count(w, page) \in Nat
    BY <1>4, CountGrows
<1>10. CASE HasEnough(w, rows[w])
    <2>1. rows[w] \in SUBSET coming
        OBVIOUS
    <2> HIDE DEF coming
    <2> QED
        BY <1>2, <1>8, <1>9, <1>10, <2>1 DEF HasEnough, AtMost
<1>11. CASE page \subseteq want \cup ids[w]
    <2>1. page \in SUBSET coming
        BY <1>3, <1>11
    <2> HIDE DEF coming
    <2> QED
        BY <1>2, <1>8, <1>9, <2>1 DEF AtMost
<1>12. CASE Count(w, rows[w] \cup want) >= WindowOf[w]
    <2>1. rows[w] \cup want \in SUBSET coming
        OBVIOUS
    <2> HIDE DEF coming
    <2> QED
        BY <1>2, <1>8, <1>9, <1>12, <2>1 DEF AtMost
<1> QED
    BY <1>5, <1>10, <1>11, <1>12

LEMMA EnoughInv ==
    TypeOK /\ SavedFirst /\ LoadedIsFound /\ KnownOnPage /\ EnoughOnItsWay /\ EnoughRows
        /\ [Next]_vars
    => (EnoughOnItsWay /\ EnoughRows)'
<1> SUFFICES ASSUME TypeOK, TypeOK', SavedFirst, LoadedIsFound, KnownOnPage, EnoughOnItsWay,
                    EnoughRows, [Next]_vars, NEW w \in Workers, Undisturbed(w)',
                    pc'[w] \in {"save", "copy", "write", "read", "fresh"}
             PROVE  /\ pc'[w] # "fresh" => EnoughIn(w, OnItsWay(w))'
                    /\ pc'[w] = "fresh" => EnoughIn(w, rows[w])'
    BY TypeInv DEF EnoughOnItsWay, EnoughRows, EnoughIn, Fresh
<1>1. ~LoadDb(w)
    BY DEF LoadDb, TypeOK
<1>2. Undisturbed(w) /\ Found(w) \subseteq Found(w)'
    BY <1>1, FoundStays
\* What was enough stays enough when the page is the same.
<1>3. ASSUME NEW S, NEW T, S \subseteq T, T \subseteq 1..played', EnoughIn(w, S),
             listed'[w] = listed[w]
      PROVE  Count(w, T) >= AtMost(WindowOf[w], Count(w, listed'[w]))
    <2>1. played' \in Nat /\ listed[w] \in SUBSET (1..played')
        BY <1>3 DEF TypeOK
    <2>2. EnoughIn(w, T)
        BY <1>3, <2>1, EnoughGrows
    <2> QED
        BY <1>3, <2>2 DEF EnoughIn
<1>4. ASSUME NEW T, T \subseteq 1..played', EnoughIn(w, OnItsWay(w)), listed'[w] = listed[w],
             OnItsWay(w) \subseteq T
      PROVE  Count(w, T) >= AtMost(WindowOf[w], Count(w, listed'[w]))
    BY <1>3, <1>4
<1>5. OnItsWay(w)' \subseteq 1..played' /\ rows'[w] \subseteq 1..played'
    BY DEF TypeOK, OnItsWay, Found
<1>6. /\ EnoughIn(w, OnItsWay(w))' <=>
           Count(w, OnItsWay(w)') >= AtMost(WindowOf[w], Count(w, listed'[w]))
      /\ EnoughIn(w, rows[w])' <=>
           Count(w, rows'[w]) >= AtMost(WindowOf[w], Count(w, listed'[w]))
    BY DEF EnoughIn, Count, Counting
<1>7. CASE Rests(w)
    <2>1. /\ pc'[w] = pc[w] /\ rows'[w] = rows[w] /\ listed'[w] = listed[w]
          /\ OnItsWay(w) \subseteq OnItsWay(w)'
        BY <1>2, <1>7 DEF Rests, OnItsWay
    <2>2. pc[w] # "fresh" => EnoughIn(w, OnItsWay(w))
        BY <1>2, <2>1 DEF EnoughOnItsWay
    <2>3. pc[w] = "fresh" => EnoughIn(w, rows[w])
        BY <1>2 DEF EnoughRows, EnoughIn, Fresh
    <2> QED
        BY <1>4, <1>5, <1>6, <2>1, <2>2, <2>3 DEF EnoughIn
<1>8. CASE Collect(w)
    <2>1. pc'[w] # "fresh"
        BY <1>8 DEF Collect, TypeOK
    <2> QED
        BY <1>2, <1>8, <2>1, CollectedIsEnough
<1>9. CASE SaveDb(w) \/ CopyCache(w) \/ WriteCache(w)
    <2>1. /\ pc[w] \in {"save", "copy", "write"} /\ pc'[w] # "fresh"
          /\ UNCHANGED <<rows, fetched, listed>>
        BY <1>9 DEF SaveDb, CopyCache, WriteCache, history, TypeOK
    <2>2. OnItsWay(w) \subseteq OnItsWay(w)' /\ EnoughIn(w, OnItsWay(w))
        BY <1>2, <2>1 DEF OnItsWay, EnoughOnItsWay
    <2> QED
        BY <1>4, <1>5, <1>6, <2>1, <2>2
<1>10. CASE Return(w)
    <2>1. /\ pc[w] = "read" /\ pc'[w] = "fresh" /\ listed' = listed
          /\ rows'[w] = Found(w) \cup rows[w]
        BY <1>10 DEF Return, Available, Found, history, TypeOK
    <2>2. OnItsWay(w) \subseteq rows'[w] /\ EnoughIn(w, OnItsWay(w))
        BY <1>2, <2>1 DEF OnItsWay, EnoughOnItsWay, SavedFirst, Found
    <2> QED
        BY <1>4, <1>5, <1>6, <2>1, <2>2
<1> QED
    <2>1. Moves(w) => Collect(w) \/ SaveDb(w) \/ CopyCache(w) \/ WriteCache(w) \/ Return(w)
        BY DEF Moves, LoadDb, LoadCache, ProbeCached, ProbeHead, AskHead, RememberHead, ProbeFails, ReadKnown,
           RefreshFails, TypeOK
    <2> QED
        BY <2>1, <1>7, <1>8, <1>9, <1>10, RestOrMove

-----------------------------------------------------------------------------
(* the theorems *)

LEMMA InitInv == Init => IInv
<1> SUFFICES ASSUME Init PROVE IInv
    OBVIOUS
<1>1. TypeOK
    <2>1. Cardinality({}) = 0 /\ 0 \in 0..0 /\ 0 \in 0..MaxMatches /\ 0 <= CacheCap
        BY FS_EmptySet
    <2>2. played = 0 /\ probe = 0 /\ cache = {}
        BY DEF Init, NoHead
    <2>3. /\ db \in [Instances -> SUBSET (1..played)]
          /\ rows \in [Workers -> SUBSET (1..played)]
          /\ ids \in [Workers -> SUBSET (1..played)]
          /\ fetched \in [Workers -> SUBSET (1..played)]
          /\ copy \in [Workers -> SUBSET (1..played)]
          /\ listed \in [Workers -> SUBSET (1..played)]
        BY DEF Init
    <2>4. /\ pc \in [Workers -> Steps] /\ kept \in [Workers -> SUBSET Stores]
          /\ shortFill \in BOOLEAN
        BY DEF Init, Steps, Stores
    <2>5. seen \in [Workers -> 0..played]
        BY <2>1, <2>2 DEF Init
    <2> QED
        BY <2>1, <2>2, <2>3, <2>4, <2>5 DEF TypeOK
<1>2. SavedFirst /\ FetchedServed /\ LoadedIsFound /\ HeadOnItsWay /\ HeadServed
    BY DEF Init, SavedFirst, FetchedServed, LoadedIsFound, HeadOnItsWay, HeadServed, Fresh
<1>3. KnownOnPage /\ EnoughOnItsWay /\ EnoughRows
    BY DEF Init, KnownOnPage, EnoughOnItsWay, EnoughRows, Fresh
<1> QED
    BY <1>1, <1>2, <1>3 DEF IInv

LEMMA NextInv == IInv /\ [Next]_vars => IInv'
BY TypeInv, FetchedInv, LoadedInv, HeadInv, KnownInv, EnoughInv DEF IInv

\* The invariant holds in every reachable state.
LEMMA Invariance == Spec => []IInv
BY InitInv, NextInv, PTL DEF Spec

\* Databases, cache, probe and what requests carry are matches that exist, and
\* the cache holds no more than its cap.
THEOREM TypeCorrect == Spec => []TypeOK
BY Invariance, PTL DEF IInv

\* _refresh_match_rows: what a refresh has fetched is in its answer, whatever
\* other requests write to the cache and whichever instances are replaced.
THEOREM FetchedIsServed == Spec => []FetchedServed
BY Invariance, PTL DEF IInv

\* The newest match upstream is in the answer of a refresh that ran while the
\* cache lost nothing, for every window, page and number of requests.
THEOREM HeadIsServed == Spec => []HeadServed
BY Invariance, PTL DEF IInv

\* A refresh that ran while the cache lost nothing returns as many matches as the
\* window asks for, or as its page of ids has, whatever other requests save or
\* fetch at the same time and however many matches are played meanwhile.
THEOREM EnoughIsServed == Spec => []EnoughRows
BY Invariance, PTL DEF IInv

-----------------------------------------------------------------------------
(* one request after the other: what the stores have in common *)

Own(w) == db[InstanceOf[w]]
Above(S, m) == {k \in S : k > m}
Below(S, T) == \A s \in S, t \in T : s < t

\* A match that is missing between others has a full window above it.
NoGap(w, S) ==
    \A j, k \in S, m \in Nat :
        j < m /\ m < k /\ m \notin S => Count(w, Above(S, m)) >= WindowOf[w]

\* So has any of the matches 1..p that is missing.
Full(w, S, p) ==
    \A m \in 1..p : m \notin S => Count(w, Above(S, m)) >= WindowOf[w]

\* What a database and a cache hold of one history, new being the matches that
\* are in the database already and not yet in the cache: the cache alone has only
\* matches that are older than the database, and lacks only matches of it that
\* are older than the cache.
Fits(w, own, cached, new) ==
    /\ new \subseteq own
    /\ Below(cached \ own, own)
    /\ Below(own \ (cached \cup new), cached)
    /\ Below(own \ new, new)
    /\ Below(cached, new)
    /\ NoGap(w, own \cup cached)
    /\ NoGap(w, cached)

\* Of two sets with the same top, the smaller one has no gap that the larger one
\* has not.
LEMMA ShedLower ==
    ASSUME NEW w \in Workers, NEW p \in Nat, NEW B \in SUBSET (1..p), NEW A \in SUBSET B,
           Below(B \ A, A), NoGap(w, B)
    PROVE  NoGap(w, A)
<1> SUFFICES ASSUME NEW j \in A, NEW k \in A, NEW m \in Nat, j < m, m < k, m \notin A
             PROVE  Count(w, Above(A, m)) >= WindowOf[w]
    BY DEF NoGap
<1>1. \A x \in B : x \in Nat
    BY PartOfInterval
<1>2. m \notin B
    <2>1. ASSUME m \in B PROVE FALSE
        <3>1. m < j
            BY <2>1 DEF Below
        <3> QED
            BY <1>1, <3>1
    <2> QED
        BY <2>1
<1>3. Above(A, m) = Above(B, m)
    <2>1. ASSUME NEW x \in B \ A, x > m PROVE FALSE
        <3>1. x < j
            BY DEF Below
        <3> QED
            BY <1>1, <2>1, <3>1
    <2> QED
        BY <2>1 DEF Above
<1>4. Count(w, Above(B, m)) >= WindowOf[w]
    BY <1>2 DEF NoGap
<1> QED
    BY <1>3, <1>4

LEMMA NothingHasNoGap ==
    ASSUME NEW w \in Workers PROVE NoGap(w, {})
BY DEF NoGap

\* What the newest n leave out is older than all of them.
LEMMA EvictedIsOlder ==
    ASSUME NEW p \in Nat, NEW S \in SUBSET (1..p), NEW n \in Nat,
           NEW e \in S, e \notin Newest(S, n), NEW c \in Newest(S, n)
    PROVE  e < c
<1>1. c \in S /\ c \in Nat /\ e \in Nat /\ e # c /\ \A k \in S : k \in Nat
    BY PartOfInterval DEF Newest
<1> SUFFICES ASSUME c < e PROVE FALSE
    BY <1>1
<1>2. Above(S, e) \subseteq Above(S, c) /\ Above(S, c) \in SUBSET (1..p)
    <2>1. \A k \in S : k > e => k > c
        BY <1>1
    <2> QED
        BY <2>1 DEF Above
<1>3. Cardinality(Above(S, c)) < n /\ ~(Cardinality(Above(S, e)) < n)
    BY DEF Newest, Above
<1>4. IsFiniteSet(Above(S, c))
    BY <1>2, PartOfInterval
<1>5. /\ Cardinality(Above(S, e)) <= Cardinality(Above(S, c))
      /\ Cardinality(Above(S, e)) \in Nat /\ Cardinality(Above(S, c)) \in Nat
    BY <1>2, <1>4, FS_Subset, FS_CardinalityType
<1> QED
    BY <1>3, <1>5

\* A page has every match that is newer than one of its own.
LEMMA PageIsTop ==
    ASSUME NEW p \in Nat, NEW n \in Nat, NEW k \in Newest(1..p, n), NEW m \in 1..p, m > k
    PROVE  m \in Newest(1..p, n)
<1>1. k \in Nat /\ m \in Nat
    BY DEF Newest
<1> SUFFICES ASSUME m \notin Newest(1..p, n) PROVE FALSE
    OBVIOUS
<1>2. 1..p \in SUBSET (1..p)
    OBVIOUS
<1>3. m < k
    BY <1>2, EvictedIsOlder
<1> QED
    BY <1>1, <1>3

LEMMA FullGrows ==
    ASSUME NEW w \in Workers, NEW p \in Nat, NEW T \in SUBSET (1..p), NEW S \in SUBSET T,
           Full(w, S, p)
    PROVE  Full(w, T, p)
<1> SUFFICES ASSUME NEW m \in 1..p, m \notin T
             PROVE  Count(w, Above(T, m)) >= WindowOf[w]
    BY DEF Full
<1>1. Count(w, Above(S, m)) >= WindowOf[w]
    BY DEF Full
<1>2. Above(T, m) \in SUBSET (1..p) /\ Above(S, m) \in SUBSET Above(T, m)
    BY DEF Above
<1>3. /\ Count(w, Above(S, m)) \in Nat /\ Count(w, Above(T, m)) \in Nat
      /\ Count(w, Above(S, m)) <= Count(w, Above(T, m))
    BY <1>2, CountGrows
<1> QED
    BY <1>1, <1>3

LEMMA FullHasNoGap ==
    ASSUME NEW w \in Workers, NEW p \in Nat, NEW S \in SUBSET (1..p), Full(w, S, p)
    PROVE  NoGap(w, S)
<1> SUFFICES ASSUME NEW j \in S, NEW k \in S, NEW m \in Nat, j < m, m < k, m \notin S
             PROVE  Count(w, Above(S, m)) >= WindowOf[w]
    BY DEF NoGap
<1>1. m \in 1..p
    BY PartOfInterval
<1> QED
    BY <1>1 DEF Full

\* A full set has the window of all the matches.
LEMMA FullIsWindow ==
    ASSUME NEW w \in Workers, NEW p \in Nat, NEW S \in SUBSET (1..p), Full(w, S, p)
    PROVE  InWindow(w, S) = InWindow(w, 1..p)
<1> DEFINE all == 1..p
<1>1. \A x \in all : x \in Nat
    OBVIOUS
<1>2. \A m \in Nat : /\ Count(w, Above(S, m)) \in Nat /\ Count(w, Above(all, m)) \in Nat
                     /\ Count(w, Above(S, m)) <= Count(w, Above(all, m))
    <2> TAKE m \in Nat
    <2>1. Above(all, m) \in SUBSET (1..p) /\ Above(S, m) \in SUBSET Above(all, m)
        BY DEF Above
    <2> QED
        BY <2>1, CountGrows
<1>3. ASSUME NEW m \in S, Count(w, Above(S, m)) < WindowOf[w]
      PROVE  Count(w, Above(all, m)) < WindowOf[w]
    <2>1. ASSUME NEW k \in all, k > m, k \notin S PROVE FALSE
        <3>1. Count(w, Above(S, k)) >= WindowOf[w]
            BY <2>1 DEF Full
        <3>2. Above(S, m) \in SUBSET (1..p) /\ Above(S, k) \in SUBSET Above(S, m)
            <4>1. k \in Nat /\ m \in Nat /\ \A x \in S : x \in Nat
                BY <1>1
            <4>2. \A x \in S : x > k => x > m
                BY <2>1, <4>1
            <4> QED
                BY <4>2 DEF Above
        <3>3. /\ Count(w, Above(S, k)) \in Nat /\ Count(w, Above(S, m)) \in Nat
              /\ Count(w, Above(S, k)) <= Count(w, Above(S, m))
            BY <3>2, CountGrows
        <3> QED
            BY <1>3, <3>1, <3>3
    <2>2. Above(all, m) = Above(S, m)
        BY <2>1 DEF Above
    <2> QED
        BY <1>3, <2>2
<1>4. ASSUME NEW m \in all, Count(w, Above(all, m)) < WindowOf[w]
      PROVE  m \in S /\ Count(w, Above(S, m)) < WindowOf[w]
    <2>1. /\ Count(w, Above(S, m)) \in Nat /\ Count(w, Above(all, m)) \in Nat
          /\ Count(w, Above(S, m)) <= Count(w, Above(all, m))
        BY <1>1, <1>2
    <2>2. Count(w, Above(S, m)) < WindowOf[w]
        BY <1>4, <2>1
    <2>3. m \notin S => Count(w, Above(S, m)) >= WindowOf[w]
        BY DEF Full
    <2> QED
        BY <2>1, <2>2, <2>3
<1>5. InWindow(w, S) = {m \in S : Count(w, Above(S, m)) < WindowOf[w]}
    BY DEF InWindow, Above
<1>6. InWindow(w, all) = {m \in all : Count(w, Above(all, m)) < WindowOf[w]}
    BY DEF InWindow, Above
<1> QED
    BY <1>3, <1>4, <1>5, <1>6

\* The cache expires.
LEMMA FitsExpired ==
    ASSUME NEW w \in Workers, NEW p \in Nat, NEW own \in SUBSET (1..p),
           NEW cached \in SUBSET (1..p), NEW new, Fits(w, own, cached, new)
    PROVE  Fits(w, own, {}, new)
<1>1. NoGap(w, own)
    <2>1. own \cup cached \in SUBSET (1..p) /\ own \in SUBSET (own \cup cached)
        OBVIOUS
    <2>2. Below((own \cup cached) \ own, own) /\ NoGap(w, own \cup cached)
        BY DEF Fits, Below
    <2> QED
        BY <2>1, <2>2, ShedLower
<1>2. own \cup {} = own
    OBVIOUS
<1> QED
    BY <1>1, <1>2, NothingHasNoGap DEF Fits, Below

\* The database is lost.
LEMMA FitsReplaced ==
    ASSUME NEW w \in Workers, NEW own, NEW cached, NEW new, Fits(w, own, cached, new)
    PROVE  Fits(w, {}, cached, {})
<1>1. {} \cup cached = cached
    OBVIOUS
<1> QED
    BY <1>1 DEF Fits, Below

\* What is newer than both stores is saved to the database.
LEMMA FitsSaved ==
    ASSUME NEW w \in Workers, NEW own, NEW cached, NEW new, Fits(w, own, cached, {}),
           Below(own \cup cached, new), NoGap(w, (own \cup cached) \cup new)
    PROVE  Fits(w, own \cup new, cached, new)
<1>1. (own \cup cached) \cup new = (own \cup new) \cup cached
    OBVIOUS
<1> QED
    BY <1>1 DEF Fits, Below

\* And then the newest of it, and of what the cache held, to the cache.
LEMMA FitsWritten ==
    ASSUME NEW w \in Workers, NEW p \in Nat, NEW own \in SUBSET (1..p),
           NEW copied \in SUBSET (1..p), NEW new \in SUBSET (1..p), NEW n \in Nat,
           Fits(w, own, copied, new)
    PROVE  Fits(w, own, Newest(new \cup copied, n), {})
<1> DEFINE both == new \cup copied
           top == Newest(both, n)
<1>1. both \in SUBSET (1..p) /\ top \subseteq both
    BY DEF Newest
<1>2. Below(both \ top, top)
    <2> HIDE DEF both
    <2> QED
        BY <1>1, EvictedIsOlder DEF Below
<1> HIDE DEF top
<1>3. /\ new \subseteq own /\ Below(copied \ own, own) /\ Below(own \ both, copied)
      /\ Below(own \ new, new) /\ NoGap(w, own \cup copied)
    <2>1. own \ (copied \cup new) = own \ both
        OBVIOUS
    <2> QED
        BY <2>1 DEF Fits
<1>4. Below(top \ own, own)
    BY <1>1, <1>3 DEF Below
<1>5. Below(own \ top, top)
    <2> SUFFICES ASSUME NEW d \in own \ top, NEW c \in top PROVE d < c
        BY DEF Below
    <2>1. CASE d \in both
        BY <1>2, <2>1 DEF Below
    <2>2. CASE d \notin both
        BY <1>1, <1>3, <2>2 DEF Below
    <2> QED
        BY <2>1, <2>2
<1>6. NoGap(w, own \cup top)
    <2>1. own \cup copied \in SUBSET (1..p) /\ own \cup top \in SUBSET (own \cup copied)
        BY <1>1, <1>3
    <2>2. Below((own \cup copied) \ (own \cup top), own \cup top)
        BY <1>1, <1>2, <1>3 DEF Below
    <2> QED
        BY <1>3, <2>1, <2>2, ShedLower
<1>7. NoGap(w, top)
    <2>1. own \cup copied \in SUBSET (1..p) /\ top \in SUBSET (own \cup copied)
        BY <1>1, <1>3
    <2>2. Below((own \cup copied) \ top, top)
        BY <1>2, <1>3, <1>5 DEF Below
    <2> QED
        BY <1>3, <2>1, <2>2, ShedLower
<1>8. own \ (top \cup {}) = own \ top /\ own \ {} = own
    OBVIOUS
<1> QED
    BY <1>4, <1>5, <1>6, <1>7, <1>8 DEF Fits, Below, top
-----------------------------------------------------------------------------
(* one request after the other: the steps *)

\* What a lone request with rows knows: the newest match of those in the stores.
\* One without rows knows none.
Knows(w) ==
    IF rows[w] = {} THEN ids[w] = {}
    ELSE \/ Found(w) = {}
         \/ \E i \in ids[w] \cap Found(w) : \A s \in ids[w] \cup Found(w) : s <= i

Stocking == {"save", "copy", "write", "read"}
Unwritten(w) == IF pc[w] \in {"copy", "write"} THEN fetched[w] ELSE {}

LoneStores(w) ==
    /\ Fits(w, Own(w), cache, Unwritten(w))
    /\ pc[w] = "save" =>
         Below(Found(w), fetched[w]) /\ NoGap(w, Found(w) \cup fetched[w])
    /\ pc[w] = "write" => Fits(w, Own(w), copy[w], fetched[w]) /\ cache \subseteq copy[w]

LoneRows(w) ==
    /\ pc[w] = "cache" => Own(w) \subseteq rows[w]
    /\ pc[w] \in {"probe", "head", "remember", "known", "page"} => Found(w) \subseteq rows[w]
    /\ pc[w] = "page" => Knows(w)

\* What the answer will hold, and holds.
LoneAnswer(w) ==
    /\ pc[w] \in Stocking =>
         /\ OnItsWay(w) \subseteq 1..seen[w]
         /\ Undisturbed(w) => Full(w, OnItsWay(w), seen[w])
    /\ pc[w] = "write" => copy[w] \subseteq 1..seen[w]
    /\ pc[w] = "fresh" =>
         /\ rows[w] \subseteq 1..seen[w]
         /\ Undisturbed(w) => Full(w, rows[w], seen[w])

LoneInv(w) == ~shortFill => LoneStores(w) /\ LoneRows(w) /\ LoneAnswer(w)

\* Nobody but w makes requests.
Lone(w) == \A v \in Workers \ {w} : pc[v] = "idle"

LEMMA LoneMoves ==
    ASSUME TypeOK, NEW w \in Workers, Lone(w), Lone(w)', [Next]_vars
    PROVE  \/ Play \/ ExpireCache \/ ExpireProbe \/ UNCHANGED vars
           \/ \E i \in Instances : Replace(i)
           \/ Moves(w)
<1>1. ASSUME NEW v \in Workers, v # w,
             \/ LoadDb(v) \/ LoadCache(v) \/ ProbeCached(v) \/ ProbeHead(v) \/ ProbeFails(v)
             \/ ReadKnown(v) \/ Collect(v)
      PROVE  FALSE
    <2>1. pc'[v] # "idle"
        BY <1>1 DEF LoadDb, LoadCache, ProbeCached, ProbeHead, AskHead, RememberHead, ProbeFails, ReadKnown,
           Collect, TypeOK
    <2> QED
        BY <1>1, <2>1 DEF Lone
<1>2. ASSUME NEW v \in Workers, v # w,
             SaveDb(v) \/ CopyCache(v) \/ WriteCache(v) \/ Return(v) \/ RefreshFails(v)
      PROVE  FALSE
    <2>1. pc'[v] # "idle"
        BY <1>2 DEF SaveDb, CopyCache, WriteCache, Return, RefreshFails, TypeOK
    <2> QED
        BY <1>2, <2>1 DEF Lone
<1> QED
    BY <1>1, <1>2 DEF Next, Moves

\* A run that has failed to go by enough stays remembered.
LEMMA ShortStays ==
    ASSUME [Next]_vars, shortFill PROVE shortFill'
BY DEF Next, vars, history, Play, ExpireCache, ExpireProbe, Replace, LoadDb, LoadCache,
   ProbeCached, ProbeHead, AskHead, RememberHead, ProbeFails, ReadKnown, Collect, SaveDb, CopyCache, WriteCache,
   Return, RefreshFails

\* The stores and rows of a request are matches that exist.
LEMMA LoneTypes ==
    ASSUME TypeOK, NEW w \in Workers
    PROVE  /\ played \in Nat /\ Own(w) \in SUBSET (1..played) /\ cache \in SUBSET (1..played)
           /\ Found(w) = Own(w) \cup cache
           /\ rows[w] \in SUBSET (1..played) /\ ids[w] \in SUBSET (1..played)
           /\ fetched[w] \in SUBSET (1..played) /\ copy[w] \in SUBSET (1..played)
BY DEF TypeOK, Own, Found

-----------------------------------------------------------------------------
(* one request after the other: what a refresh fetches *)

\* The first refresh fills the window, if the page is long enough.
LEMMA FirstFill ==
    ASSUME TypeOK, NEW w \in Workers, NEW p \in Nat, NEW n \in Nat, rows[w] = {},
           HasEnough(w, Newest(1..p, n)) \/ Newest(1..p, n) = 1..p
    PROVE  Full(w, Wanted(w, Newest(1..p, n), {}), p)
<1> DEFINE page == Newest(1..p, n)
           want == Wanted(w, page, {})
<1>1. page \in SUBSET (1..p) /\ want \subseteq page /\ page \ {} = page
    BY WantedIsOnPage DEF Newest
<1>2. want = IF ForfeitsOf[w] THEN FillTotal(w, page, {}) ELSE FillCompleted(w, page, {})
    BY DEF Wanted
<1> SUFFICES ASSUME NEW m \in 1..p, m \notin want
             PROVE  Count(w, Above(want, m)) >= WindowOf[w]
    BY DEF Full
<1>a. /\ HasEnough(w, page) \/ page = 1..p
      /\ \A k \in page, x \in 1..p : x > k => x \in page
    BY PageIsTop
<1> HIDE DEF page, want
<1>3. CASE page = want
    <2>1. \A k \in page : k > m
        <3>1. \A k \in page : k \in Nat /\ m \in Nat /\ m # k /\ ~(m > k)
            BY <1>1, <1>3, <1>a
        <3> QED
            BY <3>1
    <2>2. Above(want, m) = page
        BY <1>3, <2>1 DEF Above
    <2>3. page # 1..p
        BY <1>3
    <2> QED
        BY <1>a, <2>2, <2>3 DEF HasEnough
<1>4. CASE page # want
    <2>1. PICK last \in page \ want : \A k \in page \ want : k <= last
        <3>1. page \ want # {} /\ page \ want \in SUBSET (0..p)
            <4>1. 1..p \subseteq 0..p
                OBVIOUS
            <4> QED
                BY <1>1, <1>4, <4>1
        <3> QED
            BY <3>1, GreatestNatural
    <2> DEFINE newer == {k \in page : k > last}
    <2>2. \A k \in page : k \in Nat
        BY <1>1
    <2>3. newer \subseteq want /\ newer \in SUBSET (1..p)
        <3>1. ASSUME NEW k \in page, k > last, k \notin want PROVE FALSE
            <4>1. k <= last /\ k \in Nat /\ last \in Nat
                BY <2>1, <2>2, <3>1
            <4> QED
                BY <3>1, <4>1
        <3> QED
            BY <1>1, <3>1
    <2>4. Count(w, newer) >= WindowOf[w]
        <3>1. Cardinality(rows[w]) = 0 /\ Count(w, rows[w]) = 0
            BY FS_EmptySet DEF Count, Counting
        <3>2. Count(w, newer) \in Nat
            <4> HIDE DEF newer
            <4> QED
                BY <2>3, CountGrows
        <3>3. CASE ForfeitsOf[w]
            <4>1. Count(w, newer) = Cardinality(newer)
                BY <3>3 DEF Count, Counting
            <4>2. want = Newest(page, AtLeast(0, WindowOf[w] - Cardinality(rows[w])))
                BY <1>1, <1>2, <3>3 DEF FillTotal
            <4>3. ~(Cardinality(newer) < AtLeast(0, WindowOf[w] - Cardinality(rows[w])))
                BY <2>1, <4>2 DEF Newest
            <4> HIDE DEF newer
            <4> QED
                BY <3>1, <3>2, <4>1, <4>3 DEF AtLeast
        <3>4. CASE ~ForfeitsOf[w]
            <4>1. ~(Count(w, rows[w]) + Count(w, newer) < WindowOf[w])
                BY <1>1, <1>2, <2>1, <3>4 DEF FillCompleted
            <4> HIDE DEF newer
            <4> QED
                BY <3>1, <3>2, <4>1
        <3> QED
            BY <3>3, <3>4
    <2>5. m <= last
        <3>1. last \in Nat /\ m \in Nat /\ (m > last => m \in page)
            BY <1>a, <2>1, <2>2
        <3>2. m \in page => m <= last
            BY <2>1
        <3> QED
            BY <3>1, <3>2
    <2>6. newer \in SUBSET Above(want, m) /\ Above(want, m) \in SUBSET (1..p)
        <3>1. \A k \in page : k > last => k > m
            BY <2>1, <2>2, <2>5
        <3> QED
            BY <1>1, <2>3, <3>1 DEF Above
    <2>7. /\ Count(w, newer) \in Nat /\ Count(w, Above(want, m)) \in Nat
          /\ Count(w, newer) <= Count(w, Above(want, m))
        <3> HIDE DEF newer
        <3> QED
            BY <2>6, CountGrows
    <2> HIDE DEF newer
    <2> QED
        BY <2>4, <2>7
<1> QED
    BY <1>3, <1>4

\* A refresh that has enough rows and knows nothing fetches one match at most.
LEMMA SingleFill ==
    ASSUME TypeOK, NEW w \in Workers, NEW p \in Nat, NEW page \in SUBSET (1..p),
           HasEnough(w, rows[w]), NEW x \in Wanted(w, page, {}), NEW y \in Wanted(w, page, {})
    PROVE  x = y
<1>1. rows[w] \in SUBSET (1..played) /\ played \in Nat
    BY LoneTypes
<1>2. Cardinality(rows[w]) \in Nat /\ Count(w, rows[w]) \in Nat
    BY <1>1, PartOfInterval, CountGrows
<1>3. Count(w, rows[w]) >= WindowOf[w]
    BY DEF HasEnough
<1>4. page \ {} = page
    OBVIOUS
<1>5. x \in Nat /\ y \in Nat /\ x \in page /\ y \in page
    BY WantedIsOnPage, PartOfInterval
<1>6. CASE ForfeitsOf[w]
    <2>1. Count(w, rows[w]) = Cardinality(rows[w])
        BY <1>6 DEF Count, Counting
    <2>2. AtLeast(0, WindowOf[w] - Cardinality(rows[w])) = 0
        BY <1>2, <1>3, <2>1 DEF AtLeast
    <2>3. x \in Newest(page, 0)
        BY <1>4, <1>6, <2>2 DEF Wanted, FillTotal
    <2>4. Cardinality(Above(page, x)) < 0
        BY <2>3 DEF Newest, Above
    <2>5. Above(page, x) \in SUBSET (1..p)
        BY DEF Above
    <2> QED
        BY <2>4, <2>5, PartOfInterval
<1>7. CASE ~ForfeitsOf[w]
    <2>1. ASSUME NEW z \in Wanted(w, page, {}) PROVE Above(page, z) = {}
        <3>1. \/ Above(page, z) = {}
              \/ Count(w, rows[w]) + Count(w, Above(page, z)) < WindowOf[w]
            BY <1>4, <1>7 DEF Wanted, FillCompleted, Above
        <3>2. Above(page, z) \in SUBSET (1..p)
            BY DEF Above
        <3>3. Count(w, Above(page, z)) \in Nat
            BY <3>2, CountGrows
        <3> QED
            BY <1>2, <1>3, <3>1, <3>3
    <2>2. Above(page, x) = {} /\ Above(page, y) = {}
        BY <2>1
    <2>3. ~(x > y) /\ ~(y > x)
        BY <1>5, <2>2 DEF Above
    <2> QED
        BY <1>5, <2>3
<1> QED
    BY <1>6, <1>7

\* What a lone refresh fetches is newer than all that is stored, and leaves no gap;
\* what it has then is full, if the cache has lost nothing.
LEMMA LoneFetch ==
    ASSUME TypeOK, LoadedIsFound, NEW w \in Workers, LoneStores(w), LoneRows(w),
           pc[w] = "page", NEW page, page = Newest(1..played, CandidateLimit(w)),
           ~TooShort(w, page, ids[w]), NEW want, want = Wanted(w, page, ids[w])
    PROVE  /\ Below(Found(w), want) /\ NoGap(w, Found(w) \cup want)
           /\ Undisturbed(w) => Full(w, rows[w] \cup want \cup Found(w), played)
<1> DEFINE stock == Found(w)
           all == rows[w] \cup want \cup stock
<1>1. /\ played \in Nat /\ stock \in SUBSET (1..played) /\ rows[w] \in SUBSET (1..played)
      /\ ids[w] \in SUBSET (1..played)
    BY LoneTypes
<1>2. page \in SUBSET (1..played) /\ want \subseteq page
    BY WantedIsOnPage DEF Newest
<1>3. \A k \in page, x \in 1..played : x > k => x \in page
    BY <1>1, LimitIsPositive, PageIsTop
<1>4. /\ rows[w] # {} => HasEnough(w, rows[w])
      /\ page \cap ids[w] = {} => HasEnough(w, page) \/ page = 1..played
    BY DEF TooShort
<1>5. stock \subseteq rows[w] /\ Knows(w) /\ NoGap(w, stock)
    BY DEF LoneRows, LoneStores, Fits, Found, Own
<1>6. Undisturbed(w) => rows[w] \subseteq stock
    BY DEF LoadedIsFound
<1>7. \A x \in 1..played : x \in Nat
    OBVIOUS
<1>8. all \in SUBSET (1..played) /\ WindowOf[w] \in Nat \ {0}
    BY <1>1, <1>2
\* Without rows: everything that is missing.
<1>9. CASE rows[w] = {}
    <2>1. stock = {} /\ ids[w] = {}
        BY <1>5, <1>9 DEF Knows
    <2>2. Full(w, want, played)
        BY <1>1, <1>4, <1>9, <2>1, LimitIsPositive, FirstFill
    <2>3. NoGap(w, want)
        BY <1>1, <1>2, <2>2, FullHasNoGap
    <2>4. stock \cup want = want /\ all = want
        BY <1>9, <2>1
    <2> QED
        BY <2>1, <2>2, <2>3, <2>4 DEF Below
\* With rows, but nothing known: one match at most.
<1>10. CASE rows[w] # {} /\ ids[w] = {}
    <2>1. stock = {}
        BY <1>5, <1>10 DEF Knows
    <2>2. \A x, y \in want : x = y
        <3>1. want = Wanted(w, page, {}) /\ HasEnough(w, rows[w])
            BY <1>4, <1>10
        <3> SUFFICES ASSUME NEW x \in want, NEW y \in want PROVE x = y
            OBVIOUS
        <3>2. x \in Wanted(w, page, {}) /\ y \in Wanted(w, page, {})
            BY <3>1
        <3> QED
            BY <1>1, <1>2, <3>1, <3>2, SingleFill
    <2>3. NoGap(w, want)
        <3> SUFFICES ASSUME NEW j \in want, NEW k \in want, NEW m \in Nat, j < m, m < k
                     PROVE  FALSE
            BY DEF NoGap
        <3>1. j = k /\ j \in Nat
            BY <1>2, <1>7, <2>2
        <3> QED
            BY <3>1
    <2>4. stock \cup want = want /\ (Undisturbed(w) => FALSE)
        BY <1>6, <1>10, <2>1
    <2> QED
        BY <2>1, <2>3, <2>4 DEF Below
\* Otherwise: the ids before the first known one.
<1>11. CASE rows[w] # {} /\ ids[w] # {}
    <2>1. want = {m \in page : \A k \in page : k >= m => k \notin ids[w]}
        BY <1>4, <1>11 DEF Wanted, Incremental
    <2>2. stock = {} \/ \E i \in ids[w] \cap stock : \A s \in ids[w] \cup stock : s <= i
        BY <1>5, <1>11 DEF Knows
    <2>3. Count(w, rows[w]) >= WindowOf[w]
        BY <1>4, <1>11 DEF HasEnough
    <2>4. CASE page \cap ids[w] = {}
        <3>1. want = page
            BY <2>1, <2>4
        <3>2. Below(stock, want)
            <4> SUFFICES ASSUME NEW s \in stock, NEW t \in page, ~(s < t) PROVE FALSE
                BY <3>1 DEF Below
            <4>1. PICK i \in ids[w] \cap stock : s <= i
                BY <2>2
            <4>2. i \in 1..played /\ i \in Nat /\ t \in Nat /\ s \in Nat
                BY <1>1, <1>2
            <4>3. i > t \/ i = t
                BY <4>1, <4>2
            <4>4. i \in page
                BY <1>3, <4>2, <4>3
            <4> QED
                BY <2>4, <4>4
        <3>3. Full(w, stock \cup want, played)
            <4> SUFFICES ASSUME NEW m \in 1..played, m \notin stock \cup page
                         PROVE  Count(w, Above(stock \cup page, m)) >= WindowOf[w]
                BY <3>1 DEF Full
            <4>1. Count(w, page) >= WindowOf[w]
                BY <1>4, <2>4 DEF HasEnough
            <4>2. \A t \in page : t > m
                <5>1. \A t \in page : t \in Nat /\ m \in Nat /\ t # m /\ ~(m > t)
                    BY <1>2, <1>3
                <5> QED
                    BY <5>1
            <4>3. /\ page \in SUBSET Above(stock \cup page, m)
                  /\ Above(stock \cup page, m) \in SUBSET (1..played)
                BY <1>1, <1>2, <4>2 DEF Above
            <4>4. /\ Count(w, page) \in Nat /\ Count(w, Above(stock \cup page, m)) \in Nat
                  /\ Count(w, page) <= Count(w, Above(stock \cup page, m))
                BY <1>1, <4>3, CountGrows
            <4> QED
                BY <4>1, <4>4
        <3>4. NoGap(w, stock \cup want) /\ Full(w, all, played)
            <4>1. stock \cup want \in SUBSET (1..played) /\ stock \cup want \in SUBSET all
                BY <1>1, <1>2
            <4> HIDE DEF all, stock
            <4> QED
                BY <1>1, <1>8, <3>3, <4>1, FullHasNoGap, FullGrows
        <3> QED
            BY <3>2, <3>4
    <2>5. CASE page \cap ids[w] # {} /\ stock = {}
        <3>1. \A j \in want, m \in 1..played : m > j => m \in want
            <4> SUFFICES ASSUME NEW j \in want, NEW m \in 1..played, m > j,
                                NEW k \in page, k >= m, k \in ids[w]
                         PROVE  FALSE
                BY <1>2, <1>3, <2>1
            <4>1. k >= j
                BY <1>2, <1>7
            <4> QED
                BY <2>1, <4>1
        <3>2. NoGap(w, want)
            <4> SUFFICES ASSUME NEW j \in want, NEW k \in want, NEW m \in Nat, j < m, m < k,
                                m \notin want
                         PROVE  FALSE
                BY DEF NoGap
            <4>1. m \in 1..played
                BY <1>1, <1>2
            <4> QED
                BY <3>1, <4>1
        <3>3. stock \cup want = want /\ (Undisturbed(w) => FALSE)
            BY <1>6, <1>11, <2>5
        <3> QED
            BY <2>5, <3>2, <3>3 DEF Below
    <2>6. CASE page \cap ids[w] # {} /\ stock # {}
        <3>1. PICK i \in ids[w] \cap stock : \A s \in ids[w] \cup stock : s <= i
            BY <2>2, <2>6
        <3>2. PICK k \in page : k \in ids[w]
            BY <2>6
        <3>3. i \in Nat /\ k \in Nat /\ k <= i /\ i \in 1..played
            BY <1>1, <1>2, <3>1, <3>2
        <3>4. i \in page
            <4>1. i = k \/ i > k
                BY <3>3
            <4> QED
                BY <1>3, <3>2, <3>3, <4>1
        <3>5. \A t \in want : t > i
            <4> SUFFICES ASSUME NEW t \in want, ~(t > i) PROVE FALSE
                OBVIOUS
            <4>1. t \in Nat /\ i >= t
                BY <1>2, <1>7, <3>3
            <4> QED
                BY <2>1, <3>1, <3>4, <4>1
        <3>6. \A m \in 1..played : m > i => m \in want
            <4> SUFFICES ASSUME NEW m \in 1..played, m > i, NEW x \in page, x >= m,
                                x \in ids[w]
                         PROVE  FALSE
                BY <1>3, <2>1, <3>4
            <4>1. x <= i /\ x \in Nat
                BY <1>2, <1>7, <3>1
            <4> QED
                BY <3>3, <4>1
        <3>7. Below(stock, want)
            <4> SUFFICES ASSUME NEW s \in stock, NEW t \in want PROVE s < t
                BY DEF Below
            <4>1. s <= i /\ i < t /\ s \in Nat /\ t \in Nat
                BY <1>1, <1>2, <1>7, <3>1, <3>5
            <4> QED
                BY <3>3, <4>1
        \* A match that neither the stock nor the page brings is older than i.
        <3>8. ASSUME NEW m \in 1..played, m \notin stock \cup want PROVE m < i
            <4>1. m \in Nat /\ m # i /\ ~(m > i)
                BY <3>1, <3>6, <3>8
            <4> QED
                BY <3>3, <4>1
        <3>9. ASSUME NEW T \in SUBSET (1..played), stock \subseteq T, NEW m \in 1..played,
                     m \notin stock \cup want, NEW j \in stock, j < m
              PROVE  Count(w, Above(T, m)) >= WindowOf[w]
            <4>1. Count(w, Above(stock, m)) >= WindowOf[w]
                <5>1. m < i /\ m \in Nat /\ i \in stock /\ m \notin stock
                    BY <3>1, <3>8, <3>9
                <5> QED
                    BY <1>5, <3>9, <5>1 DEF NoGap
            <4>2. Above(stock, m) \in SUBSET Above(T, m) /\ Above(T, m) \in SUBSET (1..played)
                BY <3>9 DEF Above
            <4>3. /\ Count(w, Above(stock, m)) \in Nat /\ Count(w, Above(T, m)) \in Nat
                  /\ Count(w, Above(stock, m)) <= Count(w, Above(T, m))
                BY <1>1, <4>2, CountGrows
            <4> QED
                BY <4>1, <4>3
        <3>10. NoGap(w, stock \cup want)
            <4> SUFFICES ASSUME NEW j \in stock \cup want, NEW l \in stock \cup want,
                                NEW m \in Nat, j < m, m < l, m \notin stock \cup want
                         PROVE  Count(w, Above(stock \cup want, m)) >= WindowOf[w]
                BY DEF NoGap
            <4>1. j \in 1..played /\ l \in 1..played
                BY <1>1, <1>2
            <4>2. m \in 1..played
                BY <1>1, <4>1
            <4>3. j \notin want
                <5>1. j \in want => j > i
                    BY <3>5
                <5>2. m < i /\ j \in Nat
                    BY <3>8, <4>1, <4>2
                <5> QED
                    BY <3>3, <5>1, <5>2
            <4>4. stock \cup want \in SUBSET (1..played) /\ stock \subseteq stock \cup want
                BY <1>1, <1>2
            <4> QED
                BY <3>9, <4>2, <4>3, <4>4
        <3>11. Undisturbed(w) => Full(w, all, played)
            <4> SUFFICES ASSUME Undisturbed(w), NEW m \in 1..played, m \notin all
                         PROVE  Count(w, Above(all, m)) >= WindowOf[w]
                BY DEF Full
            <4>1. m \notin stock \cup want /\ stock \subseteq all
                OBVIOUS
            <4>2. CASE \E j \in stock : j < m
                BY <1>8, <3>9, <4>1, <4>2
            <4>3. CASE ~\E j \in stock : j < m
                <5>1. \A s \in stock : s > m
                    <6>1. \A s \in stock : s \in Nat /\ m \in Nat /\ s # m /\ ~(s < m)
                        BY <1>1, <1>7, <4>1, <4>3
                    <6> QED
                        BY <6>1
                <5>2. rows[w] \in SUBSET Above(all, m) /\ Above(all, m) \in SUBSET (1..played)
                    BY <1>6, <1>8, <4>1, <5>1 DEF Above
                <5> HIDE DEF all
                <5>3. /\ Count(w, rows[w]) \in Nat /\ Count(w, Above(all, m)) \in Nat
                      /\ Count(w, rows[w]) <= Count(w, Above(all, m))
                    BY <1>1, <5>2, CountGrows
                <5> QED
                    BY <2>3, <5>3
            <4> QED
                BY <4>2, <4>3
        <3> QED
            BY <3>7, <3>10, <3>11
    <2> QED
        BY <2>4, <2>5, <2>6
<1> QED
    BY <1>9, <1>10, <1>11

-----------------------------------------------------------------------------
(* one request after the other: the invariant *)

\* A step of the stores, or of the request, that leaves what it has at hand alone.
Resting(w) == UNCHANGED <<pc[w], rows[w], ids[w], fetched[w], copy[w], seen[w]>>

LEMMA LoneRests ==
    ASSUME TypeOK, NEW w \in Workers, LoneInv(w), Resting(w), UNCHANGED <<db, cache, kept>>,
           shortFill' = shortFill
    PROVE  LoneInv(w)'
BY DEF LoneInv, LoneStores, LoneRows, LoneAnswer, Resting, Unwritten, Own, Found, OnItsWay,
       Undisturbed, Knows

LEMMA LoneExpires ==
    ASSUME TypeOK, NEW w \in Workers, LoneInv(w), ExpireCache
    PROVE  LoneInv(w)'
<1> SUFFICES ASSUME ~shortFill PROVE (LoneStores(w) /\ LoneRows(w) /\ LoneAnswer(w))'
    BY DEF LoneInv, ExpireCache
<1>1. /\ cache' = {} /\ UNCHANGED <<db, pc, rows, ids, fetched, copy, seen>>
      /\ ~Undisturbed(w)'
    BY DEF ExpireCache, Losing, Undisturbed, Stores, TypeOK
<1>2. LoneStores(w) /\ LoneRows(w) /\ LoneAnswer(w)
    BY DEF LoneInv
<1>3. /\ played \in Nat /\ Own(w) \in SUBSET (1..played) /\ cache \in SUBSET (1..played)
      /\ fetched[w] \in SUBSET (1..played)
      /\ Own(w)' = Own(w) /\ Found(w) = Own(w) \cup cache /\ Found(w)' = Own(w)
    BY <1>1, LoneTypes DEF Own, Found
<1>4. Fits(w, Own(w), {}, Unwritten(w))
    BY <1>2, <1>3, FitsExpired DEF LoneStores
<1>5. pc[w] = "save" => Below(Own(w), fetched[w]) /\ NoGap(w, Own(w) \cup fetched[w])
    <2> SUFFICES ASSUME pc[w] = "save" PROVE NoGap(w, Own(w) \cup fetched[w])
        BY <1>2, <1>3 DEF LoneStores, Below
    <2> DEFINE A == Own(w) \cup fetched[w]
               B == Found(w) \cup fetched[w]
    <2>1. A \in SUBSET B /\ B \in SUBSET (1..played)
        BY <1>3
    <2>2. Below(B \ A, A) /\ NoGap(w, B)
        BY <1>2, <1>3 DEF LoneStores, Fits, Below
    <2> HIDE DEF A, B
    <2>3. NoGap(w, A)
        BY <1>3, <2>1, <2>2, ShedLower
    <2> QED
        BY <2>3 DEF A
<1>6. LoneStores(w)'
    <2>1. pc[w] = "write" => Fits(w, Own(w), copy[w], fetched[w])
        BY <1>2 DEF LoneStores
    <2> QED
        BY <1>1, <1>3, <1>4, <1>5, <2>1
           DEF LoneStores, Unwritten
<1>7. pc[w] = "page" => Knows(w)'
    <2> SUFFICES ASSUME pc[w] = "page", rows[w] # {}, Own(w) # {}
                 PROVE  \E i \in ids[w] \cap Own(w) : \A s \in ids[w] \cup Own(w) : s <= i
        BY <1>1, <1>2, <1>3 DEF Knows, LoneRows
    <2>1. PICK i \in ids[w] \cap Found(w) : \A s \in ids[w] \cup Found(w) : s <= i
        BY <1>2, <1>3 DEF LoneRows, Knows
    <2>2. i \in Own(w)
        <3>1. ASSUME i \notin Own(w) PROVE FALSE
            <4>1. PICK d \in Own(w) : TRUE
                OBVIOUS
            <4>2. i < d /\ d <= i
                BY <1>2, <1>3, <2>1, <3>1 DEF LoneStores, Fits, Below
            <4>3. i \in Nat /\ d \in Nat
                BY <1>3, <2>1
            <4> QED
                BY <4>2, <4>3
        <3> QED
            BY <3>1
    <2> QED
        BY <1>3, <2>1, <2>2
<1>8. LoneRows(w)'
    BY <1>1, <1>2, <1>3, <1>7 DEF LoneRows
<1>9. LoneAnswer(w)'
    BY <1>1, <1>2, <1>3 DEF LoneAnswer, OnItsWay
<1> QED
    BY <1>6, <1>8, <1>9

LEMMA LoneReplaced ==
    ASSUME TypeOK, NEW w \in Workers, LoneInv(w), NEW i \in Instances, Replace(i)
    PROVE  LoneInv(w)'
<1>1. CASE InstanceOf[w] # i
    <2>1. Own(w)' = Own(w) /\ Found(w)' = Found(w) /\ OnItsWay(w)' = OnItsWay(w)
          /\ Resting(w) /\ UNCHANGED <<cache, kept, shortFill>>
        BY <1>1 DEF Replace, Own, Found, OnItsWay, Resting, history, TypeOK
    <2> QED
        BY <2>1 DEF LoneInv, LoneStores, LoneRows, LoneAnswer, Resting, Unwritten,
           Undisturbed, Knows
<1>2. CASE InstanceOf[w] = i
    <2>1. Own(w)' = {} /\ pc'[w] = "idle" /\ UNCHANGED <<cache, shortFill>>
        BY <1>2 DEF Replace, Own, history, TypeOK
    <2>2. ~shortFill => Fits(w, {}, cache, {})
        BY FitsReplaced DEF LoneInv, LoneStores
    <2> QED
        BY <2>1, <2>2 DEF LoneInv, LoneStores, LoneRows, LoneAnswer, Unwritten, Stocking
<1> QED
    BY <1>1, <1>2

\* Loading and probing.
LEMMA LoneLoads ==
    ASSUME TypeOK, NEW w \in Workers, LoneInv(w),
           LoadDb(w) \/ LoadCache(w) \/ ProbeCached(w) \/ ProbeHead(w) \/ ProbeFails(w)
    PROVE  LoneInv(w)'
<1> SUFFICES ASSUME ~shortFill PROVE (LoneStores(w) /\ LoneRows(w) /\ LoneAnswer(w))'
    BY DEF LoneInv, LoadDb, LoadCache, ProbeCached, ProbeHead, AskHead, RememberHead, ProbeFails, history
<1>1. UNCHANGED <<db, cache>> /\ Own(w)' = Own(w) /\ Found(w)' = Found(w)
      /\ Found(w) = Own(w) \cup cache
    BY DEF LoadDb, LoadCache, ProbeCached, ProbeHead, AskHead, RememberHead, ProbeFails, data, Own, Found
<1>2. LoneStores(w) /\ LoneRows(w)
    BY DEF LoneInv
<1>3. /\ pc[w] \notin Stocking
      /\ pc'[w] \in {"cache", "probe", "head", "remember", "known", "current", "unchecked",
                  "stored"}
    BY DEF LoadDb, LoadCache, ProbeCached, ProbeHead, AskHead, RememberHead, ProbeFails, Answered, Stocking, TypeOK
<1>4. LoneStores(w)' /\ LoneAnswer(w)'
    BY <1>1, <1>2, <1>3 DEF LoneStores, LoneAnswer, Unwritten, Stocking
<1>5. LoneRows(w)'
    <2>1. CASE LoadDb(w)
        <3>1. rows'[w] = Own(w) /\ pc'[w] = "cache"
            BY <2>1 DEF LoadDb, Own, TypeOK
        <3> QED
            BY <1>1, <3>1 DEF LoneRows
    <2>2. CASE LoadCache(w)
        <3>1. pc[w] = "cache" /\ rows'[w] = rows[w] \cup cache /\ pc'[w] # "cache"
            BY <2>2 DEF LoadCache, TypeOK
        <3> QED
            BY <1>1, <1>2, <1>3, <3>1 DEF LoneRows
    <2>3. CASE ProbeCached(w) \/ ProbeHead(w) \/ ProbeFails(w)
        <3>1. pc[w] \in {"probe", "head", "remember"} /\ rows' = rows /\ pc'[w] # "cache"
            BY <2>3 DEF ProbeCached, ProbeHead, AskHead, RememberHead, ProbeFails, TypeOK
        <3> QED
            BY <1>1, <1>2, <1>3, <3>1 DEF LoneRows
    <2> QED
        BY <2>1, <2>2, <2>3
<1> QED
    BY <1>4, <1>5

LEMMA LoneReads ==
    ASSUME TypeOK, NEW w \in Workers, LoneInv(w), ReadKnown(w)
    PROVE  LoneInv(w)'
<1> SUFFICES ASSUME ~shortFill PROVE (LoneStores(w) /\ LoneRows(w) /\ LoneAnswer(w))'
    BY DEF LoneInv, ReadKnown, history
<1> DEFINE stored == IF rows[w] = {} THEN {} ELSE Newest(Own(w), CandidateLimit(w))
<1>1. /\ UNCHANGED <<db, cache, rows>> /\ pc[w] = "known" /\ pc'[w] = "page"
      /\ ids'[w] = stored \cup cache
    BY DEF ReadKnown, data, Own, TypeOK
<1>2. Own(w)' = Own(w) /\ Found(w)' = Found(w)
    BY <1>1 DEF Own, Found
<1>3. LoneStores(w) /\ Found(w) \subseteq rows[w]
    BY <1>1 DEF LoneInv, LoneRows
<1>4. /\ played \in Nat /\ Own(w) \in SUBSET (1..played) /\ cache \in SUBSET (1..played)
      /\ Found(w) = Own(w) \cup cache
    BY LoneTypes
<1>5. stored \subseteq Own(w)
    BY DEF Newest
<1>6. Knows(w)'
    <2>1. CASE rows[w] = {}
        BY <1>1, <1>3, <1>4, <2>1 DEF Knows
    <2>2. CASE rows[w] # {} /\ Found(w) # {}
        <3>1. PICK i \in Found(w) : \A s \in Found(w) : s <= i
            <4>1. Found(w) \in SUBSET (0..played)
                <5>1. 1..played \subseteq 0..played
                    OBVIOUS
                <5> QED
                    BY <1>4, <5>1
            <4> QED
                BY <1>4, <2>2, <4>1, GreatestNatural
        <3>2. i \in Own(w) => i \in Newest(Own(w), CandidateLimit(w))
            BY <1>4, <3>1, LimitIsPositive, HeadIsNewest
        <3>3. i \in ids'[w] /\ ids'[w] \subseteq Found(w)
            BY <1>1, <1>4, <1>5, <2>2, <3>1, <3>2
        <3> QED
            BY <1>1, <1>2, <2>2, <3>1, <3>3 DEF Knows
    <2>3. CASE Found(w) = {}
        <3>1. stored = {} /\ cache = {}
            BY <1>4, <1>5, <2>3
        <3> HIDE DEF stored
        <3> QED
            BY <1>1, <1>2, <2>3, <3>1 DEF Knows
    <2> QED
        BY <2>1, <2>2, <2>3
<1>7. LoneStores(w)' /\ LoneAnswer(w)'
    BY <1>1, <1>2, <1>3 DEF LoneStores, LoneAnswer, Unwritten, Stocking
<1>8. LoneRows(w)'
    BY <1>1, <1>2, <1>3, <1>6 DEF LoneRows
<1> QED
    BY <1>7, <1>8

LEMMA LoneCollects ==
    ASSUME TypeOK, LoadedIsFound, NEW w \in Workers, LoneInv(w), Collect(w)
    PROVE  LoneInv(w)'
<1> SUFFICES ASSUME ~shortFill' PROVE (LoneStores(w) /\ LoneRows(w) /\ LoneAnswer(w))'
    BY DEF LoneInv
<1>1. PICK page, want :
        /\ page = Newest(1..played, CandidateLimit(w)) /\ want = Wanted(w, page, ids[w])
        /\ pc[w] = "page" /\ fetched'[w] = want
        /\ pc'[w] = IF want = {} THEN "read" ELSE "save"
        /\ shortFill' = (shortFill \/ TooShort(w, page, ids[w]))
        /\ seen'[w] = played /\ UNCHANGED <<db, cache, rows, kept>>
    BY DEF Collect, data, TypeOK
<1>2. LoneStores(w) /\ LoneRows(w) /\ ~TooShort(w, page, ids[w])
    BY <1>1 DEF LoneInv
<1>3. /\ Below(Found(w), want) /\ NoGap(w, Found(w) \cup want)
      /\ Undisturbed(w) => Full(w, rows[w] \cup want \cup Found(w), played)
    BY <1>1, <1>2, LoneFetch
<1>4. Own(w)' = Own(w) /\ Found(w)' = Found(w) /\ Undisturbed(w)' = Undisturbed(w)
    BY <1>1 DEF Own, Found, Undisturbed
<1>5. OnItsWay(w)' = rows[w] \cup want \cup Found(w) /\ OnItsWay(w)' \subseteq 1..played
    <2>1. want \subseteq 1..played
        BY <1>1, WantedIsOnPage DEF Newest
    <2>2. rows[w] \subseteq 1..played /\ Found(w) \subseteq 1..played
        BY LoneTypes
    <2> QED
        BY <1>1, <1>4, <2>1, <2>2 DEF OnItsWay
<1>6. Fits(w, Own(w), cache, {})
    BY <1>1, <1>2 DEF LoneStores, Unwritten
<1>7. LoneStores(w)'
    BY <1>1, <1>3, <1>4, <1>6 DEF LoneStores, Unwritten
<1>8. LoneAnswer(w)'
    BY <1>1, <1>3, <1>4, <1>5 DEF LoneAnswer, Stocking
<1>9. LoneRows(w)'
    BY <1>1 DEF LoneRows
<1> QED
    BY <1>7, <1>8, <1>9

LEMMA LoneSaves ==
    ASSUME TypeOK, NEW w \in Workers, LoneInv(w), SaveDb(w)
    PROVE  LoneInv(w)'
<1> SUFFICES ASSUME ~shortFill PROVE (LoneStores(w) /\ LoneRows(w) /\ LoneAnswer(w))'
    BY DEF LoneInv, SaveDb, history
<1>1. /\ pc[w] = "save" /\ pc'[w] = "copy" /\ Own(w)' = Own(w) \cup fetched[w]
      /\ UNCHANGED <<cache, rows, fetched, seen, kept>>
    BY DEF SaveDb, Own, history, TypeOK
<1>2. /\ Fits(w, Own(w), cache, {}) /\ Found(w) = Own(w) \cup cache
      /\ Below(Found(w), fetched[w]) /\ NoGap(w, Found(w) \cup fetched[w])
    BY <1>1, LoneTypes DEF LoneInv, LoneStores, Unwritten
<1>3. Fits(w, Own(w) \cup fetched[w], cache, fetched[w])
    BY <1>2, FitsSaved
<1>4. LoneStores(w)'
    BY <1>1, <1>3 DEF LoneStores, Unwritten
<1>5. OnItsWay(w)' = OnItsWay(w)
    BY <1>1 DEF OnItsWay, Found, Own
<1>6. LoneAnswer(w)'
    BY <1>1, <1>5 DEF LoneInv, LoneAnswer, Stocking, Undisturbed
<1>7. LoneRows(w)'
    BY <1>1 DEF LoneRows
<1> QED
    BY <1>4, <1>6, <1>7

LEMMA LoneCopies ==
    ASSUME TypeOK, NEW w \in Workers, LoneInv(w), CopyCache(w)
    PROVE  LoneInv(w)'
<1> SUFFICES ASSUME ~shortFill PROVE (LoneStores(w) /\ LoneRows(w) /\ LoneAnswer(w))'
    BY DEF LoneInv, CopyCache, history
<1>1. /\ pc[w] = "copy" /\ pc'[w] = "write" /\ copy'[w] = cache
      /\ UNCHANGED <<db, cache, rows, fetched, seen, kept>>
    BY DEF CopyCache, data, history, TypeOK
<1>2. Own(w)' = Own(w) /\ OnItsWay(w)' = OnItsWay(w)
    BY <1>1 DEF OnItsWay, Found, Own
<1>3. LoneStores(w)'
    BY <1>1, <1>2 DEF LoneInv, LoneStores, Unwritten
<1>4. LoneAnswer(w)'
    <2>1. cache \subseteq 1..seen[w]
        BY <1>1 DEF LoneInv, LoneAnswer, Stocking, OnItsWay, Found
    <2> QED
        BY <1>1, <1>2, <2>1 DEF LoneInv, LoneAnswer, Stocking, Undisturbed
<1>5. LoneRows(w)'
    BY <1>1 DEF LoneRows
<1> QED
    BY <1>3, <1>4, <1>5

LEMMA LoneWrites ==
    ASSUME TypeOK, NEW w \in Workers, LoneInv(w), WriteCache(w)
    PROVE  LoneInv(w)'
<1> SUFFICES ASSUME ~shortFill PROVE (LoneStores(w) /\ LoneRows(w) /\ LoneAnswer(w))'
    BY DEF LoneInv, WriteCache
<1> DEFINE written == Newest(fetched[w] \cup copy[w], CacheCap)
<1>1. /\ pc[w] = "write" /\ pc'[w] = "read" /\ cache' = written
      /\ UNCHANGED <<db, rows, fetched, seen>>
    BY DEF WriteCache, TypeOK
<1>2. /\ Fits(w, Own(w), copy[w], fetched[w]) /\ copy[w] \subseteq 1..seen[w]
      /\ OnItsWay(w) \subseteq 1..seen[w]
      /\ Undisturbed(w) => Full(w, OnItsWay(w), seen[w])
    BY <1>1 DEF LoneInv, LoneStores, LoneAnswer, Stocking
<1>3. /\ played \in Nat /\ Own(w) \in SUBSET (1..played)
      /\ fetched[w] \in SUBSET (1..played) /\ copy[w] \in SUBSET (1..played)
    BY LoneTypes
<1>4. Fits(w, Own(w), written, {})
    BY <1>2, <1>3, FitsWritten
<1>5. written \subseteq fetched[w] \cup copy[w]
    BY DEF Newest
<1> HIDE DEF written
<1>6. LoneStores(w)'
    BY <1>1, <1>4 DEF LoneStores, Unwritten, Own
<1>7. OnItsWay(w)' = rows[w] \cup fetched[w] \cup (Own(w) \cup written)
    BY <1>1 DEF OnItsWay, Found, Own
<1>8. OnItsWay(w)' \subseteq 1..seen[w]
    BY <1>2, <1>5, <1>7 DEF OnItsWay, Found, Own
<1>9. Undisturbed(w)' => Full(w, OnItsWay(w)', seen[w])
    <2> SUFFICES ASSUME Undisturbed(w)' PROVE Full(w, OnItsWay(w)', seen[w])
        OBVIOUS
    <2>1. Undisturbed(w) /\ cache \subseteq cache'
        <3>1. kept'[w] = kept[w] \ (IF cache \subseteq cache' THEN {} ELSE {"cache"})
            BY DEF WriteCache, Losing
        <3> QED
            BY <3>1 DEF Undisturbed, Stores, TypeOK
    <2>2. OnItsWay(w) \in SUBSET OnItsWay(w)'
        BY <1>1, <1>7, <2>1 DEF OnItsWay, Found, Own
    <2>3. seen[w] \in Nat
        BY DEF TypeOK
    <2> QED
        BY <1>2, <1>8, <2>1, <2>2, <2>3, FullGrows
<1>10. LoneAnswer(w)'
    BY <1>1, <1>8, <1>9 DEF LoneAnswer, Stocking
<1>11. LoneRows(w)'
    BY <1>1 DEF LoneRows
<1> QED
    BY <1>6, <1>10, <1>11

LEMMA LoneReturns ==
    ASSUME TypeOK, SavedFirst, NEW w \in Workers, LoneInv(w), Return(w) \/ RefreshFails(w)
    PROVE  LoneInv(w)'
<1> SUFFICES ASSUME ~shortFill PROVE (LoneStores(w) /\ LoneRows(w) /\ LoneAnswer(w))'
    BY DEF LoneInv, Return, RefreshFails, history
<1>1. /\ pc[w] \in {"page", "save", "read"} /\ pc'[w] \in {"fresh", "warned"}
      /\ UNCHANGED <<db, cache, fetched, seen, kept>>
    BY DEF Return, RefreshFails, data, history, TypeOK
<1>2. LoneStores(w)'
    BY <1>1 DEF LoneInv, LoneStores, Unwritten, Own
<1>3. LoneAnswer(w)'
    <2>1. CASE Return(w)
        <3>1. /\ pc[w] = "read" /\ pc'[w] = "fresh"
              /\ rows'[w] = Found(w) \cup rows[w] /\ fetched[w] \subseteq Found(w)
            BY <2>1 DEF Return, Available, Found, SavedFirst, TypeOK
        <3>2. rows'[w] = OnItsWay(w)
            BY <3>1 DEF OnItsWay
        <3> QED
            BY <1>1, <3>1, <3>2 DEF LoneInv, LoneAnswer, Stocking, Undisturbed
    <2>2. CASE RefreshFails(w)
        <3>1. pc'[w] = "warned"
            BY <2>2 DEF RefreshFails, TypeOK
        <3> QED
            BY <3>1 DEF LoneAnswer, Stocking
    <2> QED
        BY <2>1, <2>2
<1>4. LoneRows(w)'
    BY <1>1 DEF LoneRows
<1> QED
    BY <1>2, <1>3, <1>4

LEMMA LoneStep ==
    ASSUME TypeOK, SavedFirst, LoadedIsFound, NEW w \in Workers, LoneInv(w),
           Lone(w), Lone(w)', [Next]_vars
    PROVE  LoneInv(w)'
<1>1. CASE Play \/ ExpireProbe \/ UNCHANGED vars
    <2>1. Resting(w) /\ UNCHANGED <<db, cache, kept>> /\ shortFill' = shortFill
        BY <1>1 DEF Play, ExpireProbe, vars, history, Resting
    <2> QED
        BY <2>1, LoneRests
<1>2. CASE ExpireCache
    BY <1>2, LoneExpires
<1>3. CASE \E i \in Instances : Replace(i)
    BY <1>3, LoneReplaced
<1>4. CASE Moves(w)
    BY <1>4, LoneLoads, LoneReads, LoneCollects, LoneSaves, LoneCopies, LoneWrites,
       LoneReturns DEF Moves
<1> QED
    BY <1>1, <1>2, <1>3, <1>4, LoneMoves

LEMMA LoneStarts == ASSUME NEW w \in Workers, Init PROVE LoneInv(w)
<1>1. Own(w) = {} /\ cache = {} /\ pc[w] = "idle"
    BY DEF Init, Own
<1>2. Fits(w, {}, {}, {})
    BY NothingHasNoGap DEF Fits, Below
<1> QED
    BY <1>1, <1>2 DEF LoneInv, LoneStores, LoneRows, LoneAnswer, Unwritten, Stocking

\* The invariant of both ways to use the service: together, and alone.
SyncInv == IInv /\ alone \in BOOLEAN /\ (alone => Lone(w1) /\ LoneInv(w1))

LEMMA SyncInvariance == SyncSpec => []SyncInv
<1> USE AnalysisAssumption
<1>1. SyncInit => SyncInv
    <2> SUFFICES ASSUME SyncInit PROVE SyncInv
        OBVIOUS
    <2>1. Init /\ alone \in BOOLEAN
        BY DEF SyncInit
    <2>2. Lone(w1)
        BY <2>1 DEF Init, Lone
    <2> QED
        BY <2>1, <2>2, InitInv, LoneStarts DEF SyncInv
<1>2. SyncInv /\ [SyncNext]_<<vars, alone>> => SyncInv'
    <2> SUFFICES ASSUME SyncInv, [SyncNext]_<<vars, alone>> PROVE SyncInv'
        OBVIOUS
    <2>1. [Next]_vars /\ alone' = alone
        BY DEF SyncNext
    <2>2. IInv'
        BY <2>1, NextInv DEF SyncInv
    <2>3. alone => Lone(w1)'
        <3>1. CASE SyncNext
            BY <3>1 DEF SyncNext, Lone
        <3>2. CASE UNCHANGED <<vars, alone>>
            BY <3>2 DEF SyncInv, Lone, vars
        <3> QED
            BY <3>1, <3>2
    <2>4. alone => LoneInv(w1)'
        BY <2>1, <2>3, LoneStep DEF SyncInv, IInv
    <2>5. alone' \in BOOLEAN
        BY Zenon, <2>1 DEF SyncInv
    <2>6. alone' => Lone(w1)' /\ LoneInv(w1)'
        BY Zenon, <2>1, <2>3, <2>4
    <2> QED
        BY Zenon, <2>2, <2>5, <2>6 DEF SyncInv
<1> QED
    BY <1>1, <1>2, PTL DEF SyncSpec

\* A user who sends one request after the other gets the newest matches without a
\* gap, whatever the stores lose in between and however many matches are played,
\* until a run tops up a stock smaller than its window or gets a page too short.
THEOREM AloneIsGapless == SyncSpec => []GapNeedsShortFillAlone
<1>1. SyncInv => GapNeedsShortFillAlone
    <2> SUFFICES ASSUME SyncInv, alone, NEW w \in Workers, Fresh(w), Undisturbed(w), ~shortFill
                 PROVE  InWindow(w, rows[w] \cap 1..seen[w]) = InWindow(w, 1..seen[w])
        BY DEF GapNeedsShortFillAlone, GapNeedsShortFill
    <2>1. w = w1
        BY DEF SyncInv, Lone, Fresh
    <2>2. rows[w] \subseteq 1..seen[w] /\ Full(w, rows[w], seen[w])
        BY <2>1 DEF SyncInv, LoneInv, LoneAnswer, Fresh
    <2>3. seen[w] \in Nat
        BY DEF SyncInv, IInv, TypeOK
    <2>4. InWindow(w, rows[w]) = InWindow(w, 1..seen[w])
        BY <2>2, <2>3, FullIsWindow
    <2>5. rows[w] \cap 1..seen[w] = rows[w]
        BY <2>2
    <2> QED
        BY <2>4, <2>5
<1> QED
    BY <1>1, SyncInvariance, PTL
=============================================================================
