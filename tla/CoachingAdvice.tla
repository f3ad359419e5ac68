--------------------------- MODULE CoachingAdvice ---------------------------
(***************************************************************************)
(* Which of the differences found become advice: against the rankers       *)
(* (services/ranker_coaching.py) and against the user's own earlier        *)
(* matches of each mode (team_history_coaching.py, recent_analysis.py).    *)
(*                                                                         *)
(* The metrics are compared one after the other, in the order of the       *)
(* catalogue.  A value is a small integer; the middle half of the rankers  *)
(* and the uncertainty of a rate are the same for all metrics.             *)
(***************************************************************************)
EXTENDS Integers, Sequences, FiniteSets

CONSTANTS
    Families,     \* families of metrics and action codes
    Planned,      \* families for which PLANS has advice
    Limit,        \* entries of one list, 3 in the code
    Levels,       \* values of a metric
    Middle,       \* what the rankers have on average
    Quartile,     \* distance of q1 and q3 from it
    Margin,       \* half of the interval of a rate
    MaxFound      \* bound: differences found

ASSUME PlannedAssumption == Planned \subseteq Families
ASSUME LimitAssumption == Limit \in Nat \ {0}
ASSUME LevelsAssumption ==
    Levels \subseteq Int /\ Middle \in Int /\ Quartile \in Nat /\ Margin \in Nat

VARIABLES
    findings,  \* differences from the rankers
    declines   \* rates below those of earlier matches

adviceVars == <<findings, declines>>

Findings == [family : Families, status : {"strength", "weakness"}, score : Nat]
Declines == [code : Families, mode : {50, 60}, score : Nat]

AdviceTypeOK == findings \in Seq(Findings) /\ declines \in Seq(Declines)
AdviceInit == findings = <<>> /\ declines = <<>>
MoreToCome == Len(findings) + Len(declines) < MaxFound

Distance(a, b) == IF a < b THEN b - a ELSE a - b

\* A metric of build_ranker_coaching outside the middle half of the rankers.
FindDifference(family, direction, value) ==
    /\ MoreToCome
    /\ direction # "neutral" /\ Distance(value, Middle) > Quartile
    /\ findings' = Append(findings,
          [family |-> family,
           status |-> IF (value > Middle) = (direction = "higher")
                      THEN "strength" ELSE "weakness",
           score |-> Distance(value, Middle)])
    /\ UNCHANGED declines

\* compare_rates: what the intervals of two rates say of them.
CompareRates(now, before) ==
    IF now + Margin < before - Margin THEN "lower"
    ELSE IF now - Margin > before + Margin THEN "higher"
    ELSE "no_clear_change"

\* A rate of build_team_history_coaching whose interval lies below the earlier.
\* mode_history asks for one mode after the other.
FindDecline(code, mode, now, before) ==
    /\ MoreToCome
    /\ \A k \in DOMAIN declines : declines[k].mode <= mode
    /\ CompareRates(now, before) = "lower"
    /\ declines' = Append(declines,
          [code |-> code, mode |-> mode, score |-> before - now])
    /\ UNCHANGED findings

AdviceNext ==
    \/ \E family \in Families, direction \in {"higher", "lower", "neutral"}, v \in Levels :
          FindDifference(family, direction, v)
    \/ \E code \in Families, mode \in {50, 60}, now, before \in Levels :
          FindDecline(code, mode, now, before)

AdviceSpec == AdviceInit /\ [][AdviceNext]_adviceVars

-----------------------------------------------------------------------------
(* lists, as the sets of the places of their entries: a list is in the order *)
(* of Ahead *)

\* Sorted by falling score; equals keep their order.
Ahead(entries, j, k) ==
    \/ entries[j].score > entries[k].score
    \/ entries[j].score = entries[k].score /\ j < k

FirstFew(entries, S) ==
    {k \in S : Cardinality({j \in S : Ahead(entries, j, k)}) < Limit}

\* The first entry of every key.
FirstOfEach(entries, S, key) ==
    {k \in S : ~ \E j \in S : key[j] = key[k] /\ Ahead(entries, j, k)}

Subject == [k \in DOMAIN findings |-> <<findings[k].status, findings[k].family>>]
Codes == [k \in DOMAIN declines |-> declines[k].code]
DeclinesOf(mode) == {k \in DOMAIN declines : declines[k].mode = mode}

\* The worst difference of every family, and the best one.
Chosen == FirstOfEach(findings, DOMAIN findings, Subject)
ChosenWeaknesses == {k \in Chosen : findings[k].status = "weakness"}

Weaknesses == FirstFew(findings, ChosenWeaknesses)

\* Advice only for the weaknesses that are listed.
AdviceOfListed == {k \in Weaknesses : findings[k].family \in Planned}

\* Advice for the worst families that have a plan, listed or not.
Advice ==
    FirstFew(findings, {k \in ChosenWeaknesses : findings[k].family \in Planned})

\* The actions of one mode, then those of both.
HistoryActions(mode) == FirstFew(declines, FirstOfEach(declines, DeclinesOf(mode), Codes))
Actions == FirstFew(declines, HistoryActions(50) \cup HistoryActions(60))

-----------------------------------------------------------------------------
(* properties *)

\* Nothing worse is passed over: an entry is covered by a listed one that is like
\* it and as large, or the list is full of entries at least as large.
Covers(entries, listed, like, k) ==
    \/ \E j \in listed \cap like : entries[j].score >= entries[k].score
    \/ /\ Cardinality(listed) = Limit
       /\ \A j \in listed : entries[j].score >= entries[k].score

SameFamily(k) == {j \in DOMAIN findings : findings[j].family = findings[k].family}
SameAction(k) ==
    {j \in DOMAIN declines :
        declines[j].code = declines[k].code /\ declines[j].mode = declines[k].mode}

\* A weakness for which there is advice is advised on unless Limit others are
\* as bad, and no subject is advised on twice.
AdviceIsOfWorst ==
    /\ \A k \in DOMAIN findings :
          findings[k].status = "weakness" /\ findings[k].family \in Planned =>
              Covers(findings, Advice, SameFamily(k), k)
    /\ \A j, k \in Advice : j \in SameFamily(k) => j = k

\* The same for the declines of both modes, where each mode first keeps a few
\* of its own: what the first cut drops could not have passed the second.
ActionsAreOfWorst ==
    /\ \A k \in DOMAIN declines : Covers(declines, Actions, SameAction(k), k)
    /\ \A j, k \in Actions : j \in SameAction(k) => j = k

ListsAreOfWorst == AdviceIsOfWorst /\ ActionsAreOfWorst
=============================================================================
