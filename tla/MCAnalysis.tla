----------------------------- MODULE MCAnalysis -----------------------------
(* The parts of an analysis that share no state, so one of them moves: the   *)
(* runs themselves with three requests and two instances; the stages shown;  *)
(* the inputs beside the matches, with two analyses and one viewer; what the *)
(* matches are made into; the scores and the advice; the experiments with    *)
(* two evaluations; the tiers of a manager with two requests; the profiles   *)
(* of two managers, of whom one is ranked, with two threads.                 *)
EXTENDS AnalysisRun, AnalysisProgress, AnalysisInputs, MatchViews, CoachingAdvice,
        Experiments, UserDivisions, OpponentProfile, DomainScores

CONSTANTS w1, w2, w3, r1, k1, k2, i1, i2, f1, f2, a1, a2, v1, e1, e2, q1, q2, g1, g2, n1, n2, n3, l1, l2

MCOneKey == [p \in Workers \cup Readers |-> k1]
MCInstanceOf == [p \in Workers \cup Readers |-> IF p = w3 THEN i2 ELSE i1]
MCFirstName == [m \in Managers |-> IF m = g1 THEN n1 ELSE n2]
MCAbout == [l \in Lookups |-> IF l = l1 THEN g1 ELSE g2]
MCPrintOf == [w \in Workers |-> IF w = w2 THEN f2 ELSE f1]

VARIABLE which

\* Bound: a run on the other instance meets one run of this one, and not the
\* reader of the latest result.
RunBound == pc[w3] = "idle" \/ (pc[w2] = "idle" /\ pc[r1] = "idle")

\* Bound: the second analysis is under way in the first edition only, and not
\* at the same time as the viewer.
InputsBound ==
    \/ namesAt[a2] = "idle"
    \/ edition = 1 /\ feedAt[v1] = "idle"

\* Bounds: two requests for the tiers overlap before the second match only, two
\* threads of a review before anybody has a new nickname only.
DivisionsBound == tiersAt[q1] = "idle" \/ tiersAt[q2] = "idle" \/ Len(official) <= 1
ProfileBound == lookupAt[l1] = "idle" \/ lookupAt[l2] = "idle" \/ nickname = FirstName

innerVars == <<progressVars, inputVars, played, adviceVars, experimentVars>>
outerVars == <<divisionVars, profileVars, judged>>

AnalysisInit ==
    /\ which \in {"run", "progress", "inputs", "views", "advice", "experiments",
                "divisions", "profiles", "scores"}
    /\ Init /\ ProgressInit /\ InputsInit /\ ViewsInit /\ AdviceInit /\ ExperimentsInit
    /\ DivisionsInit /\ ProfileInit /\ ScoresInit
    /\ which # "inputs" => open   \* the feeds of the other parts do not matter

AnalysisNext ==
    /\ UNCHANGED which
    /\ \/ which = "run" /\ Next /\ RunBound'
          /\ UNCHANGED <<progressVars, inputVars, played, adviceVars, experimentVars, outerVars>>
       \/ which = "progress" /\ ProgressNext
          /\ UNCHANGED <<vars, inputVars, played, adviceVars, experimentVars, outerVars>>
       \/ which = "inputs" /\ InputsNext /\ InputsBound'
          /\ UNCHANGED <<vars, progressVars, played, adviceVars, experimentVars, outerVars>>
       \/ which = "views" /\ ViewsNext
          /\ UNCHANGED <<vars, progressVars, inputVars, adviceVars, experimentVars, outerVars>>
       \/ which = "advice" /\ AdviceNext
          /\ UNCHANGED <<vars, progressVars, inputVars, played, experimentVars, outerVars>>
       \/ which = "experiments" /\ ExperimentsNext
          /\ UNCHANGED <<vars, progressVars, inputVars, played, adviceVars, outerVars>>
       \/ which = "divisions" /\ DivisionsNext /\ DivisionsBound'
          /\ UNCHANGED <<vars, innerVars, profileVars, judged>>
       \/ which = "profiles" /\ ProfileNext /\ ProfileBound'
          /\ UNCHANGED <<vars, innerVars, divisionVars, judged>>
       \/ which = "scores" /\ ScoresNext
          /\ UNCHANGED <<vars, innerVars, divisionVars, profileVars>>

analysisVars == <<vars, innerVars, outerVars, which>>
AnalysisSpec == AnalysisInit /\ [][AnalysisNext]_analysisVars

\* The variables of the part that moves keep their types.
AnalysisTypeOK ==
    CASE which = "run" -> TypeOK
      [] which = "progress" -> ProgressTypeOK
      [] which = "inputs" -> InputsTypeOK
      [] which = "views" -> ViewsTypeOK
      [] which = "advice" -> AdviceTypeOK
      [] which = "experiments" -> ExperimentsTypeOK
      [] which = "divisions" -> DivisionsTypeOK
      [] which = "profiles" -> ProfileTypeOK
      [] which = "scores" -> ScoresTypeOK

\* What is computed from the matches agrees with its definition over all of
\* them, and scores and advice with theirs over all differences.
AnswersMatchReference ==
    CASE which = "views" -> ViewsMatchReference
      [] which = "advice" -> ListsAreOfWorst
      [] which = "scores" -> ScoresAreFair
      [] OTHER -> TRUE

\* What is shown of managers and feeds beside the matches is true of the time
\* it was asked for.
OutsideDataIsTrue ==
    CASE which = "inputs" -> InputsAreTrue
      [] which = "divisions" -> TiersAreTrue
      [] which = "profiles" -> ProfilesAreTrue
      [] OTHER -> TRUE
=============================================================================
