---------------------------- MODULE MatchViews ----------------------------
(***************************************************************************)
(* What an analysis makes of the matches of one user: the merged list of   *)
(* both modes (services/recent_analysis.py), the sample                    *)
(* (match_selection.py), the earlier matches it is compared with           *)
(* (comparison_evidence.py), the moving windows (match_trends.py) and the  *)
(* comparison of two groups (before_after.py).                             *)
(*                                                                         *)
(* A match is its place in the order of match_date.  One metric stands for *)
(* the catalogue: a match counts its own number, if the record has the     *)
(* metric at all, so every window has a sum of its own.                    *)
(***************************************************************************)
EXTENDS Integers, Sequences, FiniteSets

CONSTANTS
    Points,       \* points of a trend, 30 in the code
    Window,       \* matches of a sample and of a point, 30 in the code
    HistoryLimit, \* earlier matches in a comparison, 30 in the code
    MaxMatches    \* bound: matches played

ASSUME WindowAssumption ==
    /\ Points \in Nat \ {0} /\ Window \in Nat \ {0} /\ HistoryLimit \in Nat \ {0}
ASSUME MatchesAssumption == MaxMatches \in Nat

VARIABLE played   \* played[n]: mode, way of ending and record of the n-th match

PlayModes == {50, 60}
Kinds == [mode : PlayModes, end : {0}, seen : BOOLEAN]
            \cup [mode : PlayModes, end : {1, 2}, seen : {TRUE}]

ViewsTypeOK == played \in Seq(Kinds) /\ Len(played) <= MaxMatches
ViewsInit == played = <<>>
Play(kind) == Len(played) < MaxMatches /\ played' = Append(played, kind)
ViewsNext == \E kind \in Kinds : Play(kind)
ViewsSpec == ViewsInit /\ [][ViewsNext]_played

Matches == DOMAIN played
In(rows) == {rows[k] : k \in DOMAIN rows}
Lesser(m, n) == IF m < n THEN m ELSE n
FirstOf(rows, n) == SubSeq(rows, 1, Lesser(n, Len(rows)))

\* A set of matches as a list, and what is in S of a list, in its order.
NewestFirst(S) ==
    [k \in 1..Cardinality(S) |->
        CHOOSE n \in S : Cardinality({m \in S : m > n}) = k - 1]
OldestFirst(S) ==
    [k \in 1..Cardinality(S) |->
        CHOOSE n \in S : Cardinality({m \in S : m < n}) = k - 1]
Those(rows, S) ==
    LET places == OldestFirst({k \in DOMAIN rows : rows[k] \in S})
    IN  [k \in DOMAIN places |-> rows[places[k]]]

-----------------------------------------------------------------------------
(* loading and selecting *)

\* One match too few for the window of the oldest point.
LoadSizeShort == Points + Window - 2

\* Matches asked for of each mode.
LoadSize == Points + Window - 1

\* The rows of a mode, of which at least the newest `size` are there.
RowsOfMode(mode, size) == FirstOf(NewestFirst({n \in Matches : played[n].mode = mode}), size)

LoadRecentModes(size) == NewestFirst(UNION {In(RowsOfMode(mode, size)) : mode \in PlayModes})

\* What a load may return: the newest of each mode, or older ones as well.
LoadedRows == {LoadRecentModes(LoadSize), LoadRecentModes(MaxMatches)}

Allowed(wins, losses) ==
    {0} \cup (IF wins THEN {1} ELSE {}) \cup (IF losses THEN {2} ELSE {})
Eligible(rows, wins, losses) ==
    Those(rows, {n \in Matches : played[n].end \in Allowed(wins, losses)})

Fails(error) == [error |-> error, rows |-> <<>>]
Succeeds(rows) == [error |-> "none", rows |-> rows]

\* A selection that takes its window before it drops the forfeits.
SelectCutFirst(rows, window, wins, losses, start, end) ==
    LET first == CHOOSE k \in DOMAIN rows : rows[k] = end
        last == CHOOSE k \in DOMAIN rows : rows[k] = start
    IN  IF ~ {start, end} \subseteq In(rows) THEN Fails("match_range_expired")
        ELSE IF first > last THEN Fails("invalid_match_range")
        ELSE Succeeds(Eligible(FirstOf(SubSeq(rows, first, last), window), wins, losses))

\* What a selection may be cut to: the window, or nothing is cut.
Cuts == {Window, MaxMatches}

\* select_match_sample, from the row `start` to the newer row `end`.
SelectSample(rows, window, wins, losses, start, end) ==
    LET first == CHOOSE k \in DOMAIN rows : rows[k] = end
        last == CHOOSE k \in DOMAIN rows : rows[k] = start
    IN  IF ~ {start, end} \subseteq In(rows) THEN Fails("match_range_expired")
        ELSE IF first > last THEN Fails("invalid_match_range")
        ELSE Succeeds(FirstOf(Eligible(SubSeq(rows, first, last), wins, losses), window))

\* The sample of the combined analysis: no range, forfeits included.
RecentSample(rows) ==
    SelectSample(rows, Window, TRUE, TRUE, rows[Len(rows)], rows[1]).rows

\* Earlier matches that are only kept out if they are in the sample.
PreviousUncut(rows, sample, forfeits) ==
    LET ends == IF forfeits THEN {0, 1, 2} ELSE {0}
        others == {n \in Matches : played[n].end \in ends /\ n \notin In(sample)}
    IN  FirstOf(Those(rows, others), HistoryLimit)

\* previous_matches: older than every match of the sample.
PreviousMatches(rows, sample, forfeits) ==
    LET ends == IF forfeits THEN {0, 1, 2} ELSE {0}
        earlier == {n \in Matches : /\ played[n].end \in ends
                                    /\ sample # <<>> /\ \A m \in In(sample) : n < m}
    IN  FirstOf(Those(rows, earlier), HistoryLimit)

\* The sample and the history of one mode in mode_history.
OfMode(rows, mode) == Those(rows, {n \in Matches : played[n].mode = mode})
ModeHistory(rows, mode) ==
    PreviousMatches(OfMode(rows, mode), OfMode(RecentSample(rows), mode), TRUE)

-----------------------------------------------------------------------------
(* moving windows *)

Seen(n) == IF played[n].seen THEN 1 ELSE 0
Count(n) == [total |-> n * Seen(n), observed |-> Seen(n)]
Plus(a, b) == [total |-> a.total + b.total, observed |-> a.observed + b.observed]
Minus(a, b) == [total |-> a.total - b.total, observed |-> a.observed - b.observed]
Zero == [total |-> 0, observed |-> 0]

\* The queue loses its oldest match to every match after the first Window ones,
\* and the sums with it.
RunningSums(ordered) ==
    LET sums[k \in 0..Len(ordered)] ==
            IF k = 0 THEN Zero
            ELSE LET added == Plus(sums[k - 1], Count(ordered[k]))
                 IN  IF k > Window THEN Minus(added, Count(ordered[k - Window]))
                                   ELSE added
    IN  sums

\* build_match_trends
MatchTrends(rows) ==
    LET all == OldestFirst(In(Eligible(rows, TRUE, TRUE)))
        cut == Len(all) - Lesser(Len(all), Points + Window - 1)
        ordered == SubSeq(all, cut + 1, Len(all))
        sums == RunningSums(ordered)
        skipped == Len(ordered) - Lesser(Len(ordered), Points)
    IN  [k \in 1..(Len(ordered) - skipped) |->
            [match |-> ordered[skipped + k],
             sums |-> sums[skipped + k],
             matches |-> Lesser(skipped + k, Window)]]

-----------------------------------------------------------------------------
(* comparing two groups of matches *)

SumUpTo(S) ==
    LET sum[n \in 0..MaxMatches] ==
            IF n = 0 THEN Zero
            ELSE IF n \in S THEN Plus(sum[n - 1], Count(n)) ELSE sum[n - 1]
    IN  sum
SumOf(S) == SumUpTo(S)[MaxMatches]

\* The status of the metric in compare_match_groups, from the means.
Status(before, after, direction) ==
    LET b == SumOf(before)
        a == SumOf(after)
        delta == a.total * b.observed - b.total * a.observed
    IN  IF a.observed = 0 \/ b.observed = 0 THEN "unavailable"
        ELSE IF delta = 0 THEN "same"
        ELSE IF direction = "context" THEN "context"
        ELSE IF (delta > 0) = (direction = "higher") THEN "improved"
        ELSE "declined"

\* compare_match_groups, for groups without a match twice.
CompareGroups(rows, before, after, wins, losses, direction) ==
    IF before = {} \/ after = {} THEN Fails("empty")
    ELSE IF before \cap after # {} THEN Fails("overlap")
    ELSE IF ~ (before \cup after) \subseteq In(rows) THEN Fails("unknown")
    ELSE LET kept(S) == {n \in S : played[n].end \in Allowed(wins, losses)}
         IN  IF kept(before) = {} \/ kept(after) = {} THEN Fails("no_match_left")
             ELSE Succeeds(<<Status(kept(before), kept(after), direction)>>)

-----------------------------------------------------------------------------
(* properties: each view against the matches that were really played *)

NewestOf(S, size) == FirstOf(NewestFirst(S), size)

\* The combined analysis takes the newest matches of both modes, although no
\* mode was loaded as a whole.
SampleIsNewest ==
    \A rows \in LoadedRows :
        rows # <<>> => RecentSample(rows) = NewestOf(Matches, Window)

\* A range selects the newest matches between its ends that may count, or all of
\* them if the user sets no window, and is refused exactly if an end is unknown or
\* the ends are the wrong way round.
RangeIsSelected ==
    \A rows \in LoadedRows, window \in Cuts, wins, losses \in BOOLEAN,
       start, end \in Matches :
        LET chosen == SelectSample(rows, window, wins, losses, start, end)
            known == {start, end} \subseteq In(rows)
        IN  IF known /\ start <= end
            THEN chosen = Succeeds(NewestOf(
                    {n \in In(rows) : start <= n /\ n <= end
                                        /\ played[n].end \in Allowed(wins, losses)}, window))
            ELSE chosen = Fails(IF known THEN "invalid_match_range"
                                         ELSE "match_range_expired")

\* The history of a mode follows its sample without a gap and without mixing
\* in another mode: together they are the newest matches of the mode.
HistoryIsEarlier ==
    \A rows \in LoadedRows, mode \in PlayModes :
        rows # <<>> =>
            LET sample == OfMode(RecentSample(rows), mode)
                history == ModeHistory(rows, mode)
            IN  /\ sample = <<>> => history = <<>>
                /\ sample # <<>> =>
                     /\ sample \o history = RowsOfMode(mode, Len(sample) + Len(history))
                     /\ Len(history) = Lesser(HistoryLimit,
                                         Len(OfMode(rows, mode)) - Len(sample))

\* Whatever range was selected, its comparison reads no match of the range and
\* none after its oldest one.
HistoryIsNotSelected ==
    \A rows \in LoadedRows, window \in Cuts, wins, losses \in BOOLEAN,
       start, end \in Matches :
        LET sample == SelectSample(rows, window, wins, losses, start, end).rows
            history == PreviousMatches(rows, sample, wins \/ losses)
        IN  \A n \in In(history), m \in In(sample) : n < m

\* Every point of the trend covers the last Window matches up to its own, of
\* all that were played, and the points are the last ones.
TrendsAreWindows ==
    \A rows \in LoadedRows :
        LET trend == MatchTrends(rows)
            upTo(n) == {m \in Matches : m <= n}
        IN  /\ Len(trend) = Lesser(Points, Len(played))
            /\ \A k \in DOMAIN trend :
                  /\ trend[k].match = Len(played) - Len(trend) + k
                  /\ trend[k].sums = SumOf(In(NewestOf(upTo(trend[k].match), Window)))
                  /\ trend[k].matches = Lesser(Window, trend[k].match)

\* What a result becomes when its two groups are exchanged.
Mirrored(result) ==
    IF result = Succeeds(<<"improved">>) THEN Succeeds(<<"declined">>)
    ELSE IF result = Succeeds(<<"declined">>) THEN Succeeds(<<"improved">>)
    ELSE result

\* Exchanging the two groups exchanges improvement and decline, for metrics
\* where less is better too.
ComparisonMirrors ==
    \A before, after \in SUBSET Matches, d \in {"higher", "lower", "context"} :
        LET rows == LoadRecentModes(MaxMatches)
        IN  CompareGroups(rows, before, after, TRUE, FALSE, d)
               = Mirrored(CompareGroups(rows, after, before, TRUE, FALSE, d))

ViewsMatchReference ==
    /\ SampleIsNewest
    /\ RangeIsSelected
    /\ HistoryIsEarlier
    /\ HistoryIsNotSelected
    /\ TrendsAreWindows
    /\ ComparisonMirrors
=============================================================================
