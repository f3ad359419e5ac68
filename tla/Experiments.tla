---------------------------- MODULE Experiments ----------------------------
(***************************************************************************)
(* The experiments of one user and mode (create_experiment,                *)
(* get_latest_experiment and evaluate_latest_experiment of                 *)
(* services/analysis.py) in the database of one instance.                  *)
(*                                                                         *)
(* A match is the number of its place in the order of match_date; the time *)
(* at which an experiment starts, which the client may choose, is the      *)
(* number of the first match that counts as played after it.               *)
(***************************************************************************)
EXTENDS Integers, Sequences, FiniteSets

CONSTANTS
    Evaluators,     \* requests to GET /experiments/evaluation
    Windows,        \* window sizes a client may ask for
    MaxPlayed,      \* bound: completed matches
    MaxExperiments, \* bound: experiments created
    MaxEvaluations  \* bound: evaluations stored

ASSUME WindowsAssumption == Windows \subseteq Nat \ {0}
ASSUME ExperimentBoundsAssumption ==
    MaxPlayed \in Nat /\ MaxExperiments \in Nat /\ MaxEvaluations \in Nat

VARIABLES
    completed,    \* completed matches so far
    experiments,  \* experiment_runs, in the order they were created
    evaluations,  \* experiment_eval, in the order of evaluated_at
    evaluating    \* evaluating[e]: the run e has read, or NoExperiment

experimentVars == <<completed, experiments, evaluations, evaluating>>

NoExperiment == 0
Played == 1..completed
Times == 1..(MaxPlayed + 1)

ExperimentsTypeOK ==
    /\ completed \in 0..MaxPlayed
    /\ experiments \in Seq([started : Times, window : Windows])
    /\ evaluations \in Seq([experiment : DOMAIN experiments,
                            pre : SUBSET Played, post : SUBSET Played])
    /\ evaluating \in [Evaluators -> {NoExperiment} \cup DOMAIN experiments]

ExperimentsInit ==
    /\ completed = 0
    /\ experiments = <<>>
    /\ evaluations = <<>>
    /\ evaluating = [e \in Evaluators |-> NoExperiment]

\* ORDER BY started_at DESC LIMIT 1: any of them when several start together.
Latest ==
    {x \in DOMAIN experiments :
        \A y \in DOMAIN experiments : experiments[y].started <= experiments[x].started}

\* POST /experiments: from now on, or from the time that the client names.
CreateExperiment(started, window) ==
    /\ Len(experiments) < MaxExperiments
    /\ experiments' = Append(experiments, [started |-> started, window |-> window])
    /\ UNCHANGED <<completed, evaluations, evaluating>>

\* evaluate_latest_experiment reads its run before it loads the matches.
ReadRun(e) ==
    /\ evaluating[e] = NoExperiment
    /\ \E x \in Latest : evaluating' = [evaluating EXCEPT ![e] = x]
    /\ UNCHANGED <<completed, experiments, evaluations>>

\* rows[:window_size] of rows that are sorted newest first.
NewestIn(S, window) == {n \in S : Cardinality({m \in S : m > n}) < window}

\* The matches of both windows, out of what a load has returned.
Evaluated(x, run, rows) ==
    [experiment |-> x,
     pre |-> NewestIn({n \in rows : n < run.started}, run.window),
     post |-> NewestIn({n \in rows : n >= run.started}, run.window)]

\* An evaluation that asks again for the latest run when it stores its result.
StoreForLatest(e) ==
    /\ evaluating[e] # NoExperiment /\ Len(evaluations) < MaxEvaluations
    /\ \E rows \in SUBSET Played, x \in Latest :
          evaluations' = Append(evaluations,
                            Evaluated(x, experiments[evaluating[e]], rows))
    /\ evaluating' = [evaluating EXCEPT ![e] = NoExperiment]
    /\ UNCHANGED <<completed, experiments>>

\* The load may miss any matches; whatever it has returned is evaluated.
StoreEvaluation(e) ==
    /\ evaluating[e] # NoExperiment /\ Len(evaluations) < MaxEvaluations
    /\ \E rows \in SUBSET Played :
          evaluations' = Append(evaluations,
                            Evaluated(evaluating[e], experiments[evaluating[e]], rows))
    /\ evaluating' = [evaluating EXCEPT ![e] = NoExperiment]
    /\ UNCHANGED <<completed, experiments>>

\* The load has raised: nothing is stored.
EvaluationFails(e) ==
    /\ evaluating[e] # NoExperiment
    /\ evaluating' = [evaluating EXCEPT ![e] = NoExperiment]
    /\ UNCHANGED <<completed, experiments, evaluations>>

\* The user plays on.
CompleteMatch ==
    /\ completed < MaxPlayed
    /\ completed' = completed + 1
    /\ UNCHANGED <<experiments, evaluations, evaluating>>

\* The instance is replaced, and its database with it.
LoseDatabase ==
    /\ experiments # <<>>
    /\ experiments' = <<>> /\ evaluations' = <<>>
    /\ evaluating' = [e \in Evaluators |-> NoExperiment]
    /\ UNCHANGED completed

ExperimentsNext ==
    \/ \E started \in Times, window \in Windows : CreateExperiment(started, window)
    \/ \E e \in Evaluators : ReadRun(e) \/ StoreEvaluation(e) \/ EvaluationFails(e)
    \/ CompleteMatch \/ LoseDatabase

ExperimentsSpec == ExperimentsInit /\ [][ExperimentsNext]_experimentVars

\* get_latest_experiment: the latest run and the last evaluation of its own.
LatestDelta(x) ==
    LET own == {n \in DOMAIN evaluations : evaluations[n].experiment = x}
    IN  {evaluations[n] : n \in {k \in own : \A m \in own : m <= k}}
Shown == {[run |-> experiments[x], delta |-> LatestDelta(x)] : x \in Latest}

-----------------------------------------------------------------------------
(* properties *)

\* The difference shown for an experiment compares matches before its own start
\* with matches after it, no more than its own window on either side, although
\* others are created while the matches of an evaluation are being loaded.
ShownComparesOwnStart ==
    \A s \in Shown : \A v \in s.delta :
        /\ \A n \in v.pre : n < s.run.started
        /\ \A n \in v.post : n >= s.run.started
        /\ Cardinality(v.pre) <= s.run.window
        /\ Cardinality(v.post) <= s.run.window
=============================================================================
