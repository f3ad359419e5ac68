---------------------------- MODULE DomainScores ----------------------------
(***************************************************************************)
(* The score of an area and the advice made of it                          *)
(* (services/domain_scores.py, score_specs.py, score_recommendations.py):  *)
(* how the scores of its metrics are weighed, and which of its weaknesses  *)
(* are advised on, in the area and over all areas.                         *)
(*                                                                         *)
(* Two areas stand for the catalogue: shooting, with a total, two zones    *)
(* and a type of shot, and defending with two metrics of one section.  The *)
(* score of a metric against the rankers is an input; shares of use are    *)
(* small integers, and weights are exact fractions; what the code rounds   *)
(* is rounded here.                                                        *)
(***************************************************************************)
EXTENDS Integers, SequencesExt

CONSTANTS
    Reference,  \* mean score of the rankers, the same for all metrics
    Scores,     \* scores of a metric
    Shares,     \* shares that a kind of shot may have, or NoShare
    AreaAdvice, \* advice of one area, 2 in the code
    AllAdvice   \* advice over all areas, 3 in the code

ASSUME ScoresAssumption ==
    /\ Reference \in Nat /\ Scores \subseteq Nat \ {0} /\ Shares \subseteq Nat
    /\ AreaAdvice \in Nat /\ AllAdvice \in Nat

VARIABLE judged   \* judged[k]: what is found of the k-th metric

NoScore == 0
NoShare == -1

Metric == <<
    [area |-> "shooting", section |-> "total", play |-> "finishing"],
    [area |-> "shooting", section |-> "zones", play |-> "finishing"],
    [area |-> "shooting", section |-> "zones", play |-> "outside"],
    [area |-> "shooting", section |-> "types", play |-> "finishing"],
    [area |-> "defending", section |-> "success", play |-> "tackle"],
    [area |-> "defending", section |-> "success", play |-> "block"] >>

ScoreAreas == <<"shooting", "defending">>
Detailed == {"zones", "types"}

\* A metric without enough matches or rankers has no score; a weakness lies
\* outside the middle half of the rankers, which its score does not tell alone.
Judgements ==
    [score : Scores, weak : BOOLEAN, share : {NoShare} \cup Shares]
        \cup {[score |-> NoScore, weak |-> FALSE, share |-> NoShare]}

ScoresTypeOK == judged \in Seq(Judgements) /\ Len(judged) <= Len(Metric)
ScoresInit == judged = <<>>

\* The shares of the zones are known together or not at all, those of types
\* always, and other metrics have none.
ShareIsPossible(k, j) ==
    CASE Metric[k].section \notin Detailed -> j.share = NoShare
      [] Metric[k].section = "types" -> j.share # NoShare
      [] OTHER -> \A n \in DOMAIN judged :
             judged[n].score # NoScore /\ Metric[n].section = "zones"
                => (judged[n].share = NoShare) = (j.share = NoShare)

\* Bound: a score below the reference is a weakness, one above it only in the
\* last metric.
Judge(j) ==
    /\ Len(judged) < Len(Metric)
    /\ LET k == Len(judged) + 1
       IN  j.score # NoScore =>
              /\ ShareIsPossible(k, j)
              /\ j.weak = (j.score < Reference) \/ (j.weak /\ Metric[k].play = "block")
    /\ judged' = Append(judged, j)

ScoresNext == \E j \in Judgements : Judge(j)
ScoresSpec == ScoresInit /\ [][ScoresNext]_judged

-----------------------------------------------------------------------------
(* weights, for a list of judgements *)

Scored(js, area) ==
    {k \in DOMAIN js : Metric[k].area = area /\ js[k].score # NoScore}

\* Every metric with a score counts, the total beside its parts.
EveryScored(js, area) == Scored(js, area)

\* assign_weights: the total counts only where nothing more detailed does.
Active(js, area) ==
    IF \E k \in Scored(js, area) : Metric[k].section \in Detailed
    THEN {k \in Scored(js, area) : Metric[k].section # "total"}
    ELSE Scored(js, area)

\* A metric of a detailed section weighs as much as it is used.
Used(j, k) ==
    IF Metric[k].section \in Detailed /\ j.share # NoShare THEN j.share ELSE 1

\* Volumes that are taken as they are, also when none of them is used.
VolumeAsUsed(used) == used

\* If nothing of a section is used, all of it weighs the same.
Volume(used) == IF \A k \in DOMAIN used : used[k] = 0 THEN [k \in DOMAIN used |-> 1] ELSE used

Sections(active) == {Metric[k].section : k \in active}

\* The volumes of the active metrics, section by section.
Volumes(js, active) ==
    [s \in Sections(active) |->
        Volume([k \in {n \in active : Metric[n].section = s} |-> Used(js[k], k)])]

\* The sum of numbers that some of the metrics have.
SumUntil(number) ==
    LET sum[k \in 0..Len(Metric)] ==
            IF k = 0 THEN 0
            ELSE IF k \in DOMAIN number THEN sum[k - 1] + number[k] ELSE sum[k - 1]
    IN  sum
SumOver(number) == SumUntil(number)[Len(Metric)]

AtLeastOne(n) == IF n = 0 THEN 1 ELSE n
Wholes(volume) == [s \in DOMAIN volume |-> AtLeastOne(SumOver(volume[s]))]

\* The product of the wholes of all sections but one, or of all.
NoSection == "none"
ProductBut(whole, s) ==
    LET factor(t) == IF t \in DOMAIN whole /\ t # s THEN whole[t] ELSE 1
    IN  factor("total") * factor("zones") * factor("types") * factor("success")

\* The weights of the active metrics and the whole they are parts of: every
\* section is an equal part of the area, divided by volume.
WeighBy(active, volume, whole) ==
    [whole |-> Cardinality(DOMAIN whole) * ProductBut(whole, NoSection),
     of |-> [k \in active |->
                volume[Metric[k].section][k] * ProductBut(whole, Metric[k].section)]]
Weigh(js, area) ==
    LET active == Active(js, area)
        volume == Volumes(js, active)
    IN  WeighBy(active, volume, Wholes(volume))

\* A mean of the active metrics, as a fraction; nothing where there are none.
Mean(w, value) ==
    [num |-> SumOver([k \in DOMAIN w.of |-> value[k] * w.of[k]]),
     den |-> AtLeastOne(w.whole)]
AreaScore(js, area) == Mean(Weigh(js, area), [k \in DOMAIN js |-> js[k].score])

LessFraction(a, b) == a.num * b.den < b.num * a.den
EqualFraction(a, b) == a.num * b.den = b.num * a.den

\* A fraction in hundredths or tenths, the nearest.  (Half of one, which a
\* float may put on either side, is put above.)
Nearest(f, parts) == (2 * parts * f.num + f.den) \div (2 * f.den)

\* How far the score that is shown of an area is from that of the rankers, in
\* tenths: 0 where it has none.
AreaGap(js, area) ==
    IF Active(js, area) = {} THEN 0 ELSE Nearest(AreaScore(js, area), 10) - 10 * Reference

-----------------------------------------------------------------------------
(* advice *)

\* What each active metric that counts adds to the gap of its area, in
\* hundredths.
PointImpact(w, k, score) ==
    Nearest([num |-> (score - Reference) * w.of[k], den |-> AtLeastOne(w.whole)], 100)
ImpactsBy(js, w) ==
    [k \in {n \in DOMAIN w.of : w.of[n] > 0} |-> PointImpact(w, k, js[k].score)]
Impacts(js, area) == ImpactsBy(js, Weigh(js, area))

Weak(js, impact) == {k \in DOMAIN impact : js[k].weak}

\* Weaknesses in the order of the catalogue.
ByPlace(impact, j, k) == j < k

ByImpact(impact, j, k) ==
    \/ impact[j] < impact[k]
    \/ impact[j] = impact[k] /\ j < k

FirstAdvice(list, n) == SubSeq(list, 1, IF Len(list) < n THEN Len(list) ELSE n)

\* coaching_for_metrics: one entry for each play, the costliest first.  (What
\* it says where there is no weakness is not to improve anything.)
CostliestOfPlay(impact, weak) ==
    {k \in weak : ~ \E j \in weak : Metric[j].play = Metric[k].play /\ ByImpact(impact, j, k)}
CostliestFirst(impact, S) ==
    [n \in 1..Cardinality(S) |->
        CHOOSE k \in S : Cardinality({j \in S : ByImpact(impact, j, k)}) = n - 1]
ImprovementsBy(impact, weak) ==
    FirstAdvice(CostliestFirst(impact, CostliestOfPlay(impact, weak)), AreaAdvice)
Improvements(js, impact) == ImprovementsBy(impact, Weak(js, impact))

\* Over all areas, the one that is furthest behind first; no two areas share a
\* play.
Behind(gap, m, n) ==
    \/ gap[m] < gap[n]
    \/ gap[m] = gap[n] /\ m < n
OverallAdvice(gap, list) ==
    FirstAdvice(IF Behind(gap, 2, 1) THEN list[2] \o list[1] ELSE list[1] \o list[2], AllAdvice)

-----------------------------------------------------------------------------
(* properties *)

ScoreAreaSet == {"shooting", "defending"}
WithScores(area) == Active(judged, area) # {}

\* The weights of an area are one whole, however its metrics are used.
WeightsAreWhole ==
    \A area \in ScoreAreaSet : WithScores(area) =>
        LET w == Weigh(judged, area) IN SumOver(w.of) = w.whole

\* Use is no merit: with the scores of a section all equal, the area has the
\* same score whatever the shares of use are.
UseIsNoMerit ==
    \A area \in ScoreAreaSet : WithScores(area) =>
        LET evenly == [k \in DOMAIN judged |-> [judged[k] EXCEPT !.share = NoShare]]
        IN  (\A j, k \in Active(judged, area) :
                Metric[j].section = Metric[k].section => judged[j].score = judged[k].score)
            => EqualFraction(AreaScore(judged, area), AreaScore(evenly, area))

\* A better score of one metric never makes an area worse, and the total makes
\* no difference where a part of it has a score.
ScoresAreMonotone ==
    \A area \in ScoreAreaSet, k \in DOMAIN judged, better \in {NoScore} \cup Scores :
        LET js == [judged EXCEPT ![k].score = better]
        IN  WithScores(area) /\ judged[k].score # NoScore =>
                /\ better > judged[k].score =>
                      ~ LessFraction(AreaScore(js, area), AreaScore(judged, area))
                /\ /\ Metric[k].section = "total"
                   /\ \E n \in Scored(judged, Metric[k].area) : Metric[n].section \in Detailed
                   => EqualFraction(AreaScore(js, area), AreaScore(judged, area))

\* A weakness that counts is advised on, by itself or by a costlier one of its
\* play, unless the list of its area is full of costlier ones.
WeakAreAdvised(impact, list) ==
    \A k \in Weak(judged, impact) :
        \/ \E n \in DOMAIN list :
              Metric[list[n]].play = Metric[k].play /\ impact[list[n]] <= impact[k]
        \/ /\ Len(list) = AreaAdvice
           /\ \A n \in DOMAIN list : impact[list[n]] <= impact[k]

\* Over all areas no advice is dropped for an area that is less far behind.
FurthestFirst(gap, list, overall) ==
    \A m, n \in DOMAIN gap : gap[m] < gap[n] =>
        \/ ToSet(list[m]) \subseteq ToSet(overall)
        \/ ToSet(list[n]) \cap ToSet(overall) = {}

AdviceIsOfCostliest ==
    LET impacts == [n \in DOMAIN ScoreAreas |-> Impacts(judged, ScoreAreas[n])]
        gaps == [n \in DOMAIN ScoreAreas |-> AreaGap(judged, ScoreAreas[n])]
        fair(gap, list) ==
            /\ \A n \in DOMAIN list : WeakAreAdvised(impacts[n], list[n])
            /\ FurthestFirst(gap, list, OverallAdvice(gap, list))
    IN  fair(gaps, [n \in DOMAIN ScoreAreas |-> Improvements(judged, impacts[n])])

ScoresAreFair ==
    WeightsAreWhole /\ UseIsNoMerit /\ ScoresAreMonotone /\ AdviceIsOfCostliest
=============================================================================
