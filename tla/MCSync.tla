------------------------------- MODULE MCSync -------------------------------
(* An analysis of every match and a list of completed matches, either both   *)
(* at any time while few matches are played, or the analysis alone, time and *)
(* again, while more are played.                                             *)
EXTENDS MCMatchSync

VARIABLE alone

ASSUME AnalysisAssumption == w1 \in Workers

MatchesTogether == 3   \* bound: matches played when both requests run

SyncInit == Init /\ alone \in BOOLEAN

SyncNext ==
    /\ Next /\ UNCHANGED alone
    /\ alone => \A w \in Workers \ {w1} : pc'[w] = "idle"
    /\ ~alone => played' <= MatchesTogether

SyncSpec == SyncInit /\ [][SyncNext]_<<vars, alone>>

\* An analysis whose user sends nothing else returns the newest matches without
\* a gap until some run tops up a stock smaller than its window or gets a page too
\* short for it, whatever the stores lose: _refresh_match_rows and the collectors
\* it calls.
GapNeedsShortFillAlone == alone => GapNeedsShortFill
=============================================================================
