-------------------------- MODULE AnalysisProgress --------------------------
(***************************************************************************)
(* The stages of an analysis as its user sees them: the run reports them   *)
(* to the cache (apps/api/app/services/analysis_progress.py), and          *)
(* requestAnalysis of apps/web/lib/analysisRequest.ts polls them while it  *)
(* waits for the run.                                                      *)
(*                                                                         *)
(* One run with its progress_id.  The client of the cache in each instance *)
(* turns to the memory of its process for good once a call to Redis fails, *)
(* and a poll may reach any instance.                                      *)
(***************************************************************************)
EXTENDS Integers, Sequences

CONSTANTS
    Nodes,     \* processes of the service
    RunNode    \* the one that serves POST /analysis/run

ASSUME RunNodeAssumption == RunNode \in Nodes

\* The stages run_analysis reports, in its order.
Stages == <<"accepted", "matches", "metrics", "rankers", "saving">>
Final == {"completed", "failed"}
NoEntry == "none"
Values == {Stages[n] : n \in DOMAIN Stages} \cup Final \cup {NoEntry}
NoPoll == [at |-> "none", value |-> NoEntry]

VARIABLES
    runStage,   \* how far the run is: 0 before it starts, 6 when it has ended
    inRedis,    \* the entry of the run in Redis
    inMemory,   \* inMemory[i]: the entry in the memory of instance i
    reaches,    \* reaches[i]: the cache client of instance i still uses Redis
    active,     \* the client waits for the answer of the run
    poll,       \* the poll under way: waiting, asked or answered
    shown,      \* places in Stages of what onProgress was called with
    outage      \* history: a call to Redis has failed

progressVars == <<runStage, inRedis, inMemory, reaches, active, poll, shown, outage>>
Ended == Len(Stages) + 1

ProgressTypeOK ==
    /\ runStage \in 0..Ended
    /\ inRedis \in Values /\ inMemory \in [Nodes -> Values]
    /\ reaches \in [Nodes -> BOOLEAN]
    /\ active \in BOOLEAN
    /\ poll \in [at : {"none", "waiting", "asked", "answered"}, value : Values]
    /\ shown \in 0..Len(Stages)
    /\ outage \in BOOLEAN

ProgressInit ==
    /\ runStage = 0
    /\ inRedis = NoEntry
    /\ inMemory = [i \in Nodes |-> NoEntry]
    /\ reaches = [i \in Nodes |-> TRUE]
    /\ active = FALSE
    /\ poll = NoPoll
    /\ shown = 0
    /\ outage = FALSE

\* CacheClient.set_json.  A call that fails may have been carried out.
SetEntry(i, value) ==
    \/ /\ reaches[i]
       /\ inRedis' = value
       /\ UNCHANGED <<inMemory, reaches, outage>>
    \/ /\ reaches[i]
       /\ inRedis' \in {inRedis, value}
       /\ inMemory' = [inMemory EXCEPT ![i] = value]
       /\ reaches' = [reaches EXCEPT ![i] = FALSE]
       /\ outage' = TRUE
    \/ /\ ~reaches[i]
       /\ inMemory' = [inMemory EXCEPT ![i] = value]
       /\ UNCHANGED <<inRedis, reaches, outage>>

\* The call of requestAnalysis, and the request it sends.
RequestAnalysis ==
    /\ ~active /\ runStage = 0 /\ shown = 0
    /\ active' = TRUE
    /\ shown' = 1
    /\ poll' = [at |-> "waiting", value |-> NoEntry]
    /\ UNCHANGED <<runStage, inRedis, inMemory, reaches, outage>>

\* update_progress with the next stage of run_analysis.
UpdateProgress ==
    /\ shown > 0 /\ runStage < Len(Stages)
    /\ runStage' = runStage + 1
    /\ SetEntry(RunNode, Stages[runStage'])
    /\ UNCHANGED <<active, poll, shown>>

\* The finally of track_analysis_progress: a run may fail at any stage, and is
\* complete after its last one, or at once when a busy lock is answered from the
\* cached result.
EndTracking ==
    /\ runStage \in 1..Len(Stages)
    /\ runStage' = Ended
    /\ \/ SetEntry(RunNode, "failed")
       \/ runStage \in {1, Len(Stages)} /\ SetEntry(RunNode, "completed")
    /\ UNCHANGED <<active, poll, shown>>

\* requestApi of the run returns, or gives up after 120 s while the run goes on.
StopWaiting ==
    /\ active
    /\ active' = FALSE
    /\ poll' = IF poll.at = "waiting" THEN NoPoll ELSE poll
    /\ UNCHANGED <<runStage, inRedis, inMemory, reaches, shown, outage>>

\* The timer of the next poll.
Poll ==
    /\ poll.at = "waiting"
    /\ poll' = [poll EXCEPT !.at = "asked"]
    /\ UNCHANGED <<runStage, inRedis, inMemory, reaches, active, shown, outage>>

\* GET /analysis/progress at instance i.
GetProgress(i) ==
    /\ poll.at = "asked"
    /\ \/ /\ reaches[i]
          /\ poll' = [at |-> "answered", value |-> inRedis]
          /\ UNCHANGED <<reaches, outage>>
       \/ /\ poll' = [at |-> "answered", value |-> inMemory[i]]
          /\ reaches' = [reaches EXCEPT ![i] = FALSE]
          /\ outage' = (outage \/ reaches[i])
    /\ UNCHANGED <<runStage, inRedis, inMemory, active, shown>>

IsRunning(value) == value \notin Final \cup {NoEntry}
PlaceOf(value) == CHOOSE n \in DOMAIN Stages : Stages[n] = value
NextPoll == IF active THEN [at |-> "waiting", value |-> NoEntry] ELSE NoPoll

\* A poll that forgets to ask whether the request is still under way.
TakeAnswerAnyTime ==
    /\ poll.at = "answered"
    /\ shown' = IF IsRunning(poll.value) THEN PlaceOf(poll.value) ELSE shown
    /\ poll' = NextPoll
    /\ UNCHANGED <<runStage, inRedis, inMemory, reaches, active, outage>>

\* What poll does after its await; the next one follows if the request goes on.
TakeAnswer ==
    /\ poll.at = "answered"
    /\ shown' = IF active /\ IsRunning(poll.value) THEN PlaceOf(poll.value) ELSE shown
    /\ poll' = NextPoll
    /\ UNCHANGED <<runStage, inRedis, inMemory, reaches, active, outage>>

\* A poll that fails or takes longer than four seconds shows nothing.
PollFails ==
    /\ poll.at \in {"asked", "answered"}
    /\ poll' = NextPoll
    /\ UNCHANGED <<runStage, inRedis, inMemory, reaches, active, shown, outage>>

\* The 600 seconds of the entry are over.
EntryExpires ==
    /\ \/ inRedis' = NoEntry /\ inRedis # NoEntry /\ UNCHANGED inMemory
       \/ \E i \in Nodes : /\ inMemory[i] # NoEntry
                           /\ inMemory' = [inMemory EXCEPT ![i] = NoEntry]
                           /\ UNCHANGED inRedis
    /\ UNCHANGED <<runStage, reaches, active, poll, shown, outage>>

ProgressNext ==
    \/ RequestAnalysis \/ UpdateProgress \/ EndTracking \/ StopWaiting
    \/ Poll \/ TakeAnswer \/ PollFails \/ EntryExpires
    \/ \E i \in Nodes : GetProgress(i)

ProgressSpec == ProgressInit /\ [][ProgressNext]_progressVars

-----------------------------------------------------------------------------
(* properties *)

\* What a user is shown of a run goes forward, stops with the request although
\* a poll may be under way, and never runs ahead of the run.  It goes back only
\* where an instance has lost Redis and another one still answers from it.
StagesGoForward ==
    [][shown' # shown =>
          \/ RequestAnalysis
          \/ /\ active
             /\ shown' <= runStage
             /\ shown' > shown \/ outage]_progressVars
=============================================================================
