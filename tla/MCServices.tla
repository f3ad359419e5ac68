----------------------------- MODULE MCServices -----------------------------
(* Four services of the API that share no state, so one of them moves: the   *)
(* rate limiter with two threads for one address and one for another; the    *)
(* ranker benchmark of one instance with one request thread; the usage       *)
(* statistics of one server with two tracking threads; the retention of two  *)
(* matches.                                                                  *)
EXTENDS RateLimiter, RankerSync, UsageAnalytics, DataRetention

CONSTANTS r1, r2, r3, k1, k2, i1, c1, s1, t1, t2, m1, m2

MCKeyOf == [r \in Requests |-> IF r = r3 THEN k2 ELSE k1]
MCHomeOf == [c \in Callers |-> i1]
MCServerOf == [t \in Trackers |-> s1]
MCSymmetry == Permutations(Trackers)

VARIABLE which

serviceVars == <<vars, rankerVars, usageVars, retentionVars, which>>

\* Bounds of the statistics: one kind of event in a behaviour, at most one
\* event that misses a store, and summaries of a full log only.
OnItsWay(n) == \E t \in Trackers : Sent(t) = n
UsageBound ==
    /\ \A n \in DOMAIN log : log[n].kind = log[1].kind
    /\ Cardinality({n \in DOMAIN log : ~OnItsWay(n) /\ log[n].stored # Stores}) <= 1
    /\ summary # NoSummary => Len(log) = MaxEvents /\ clock = LastTick

ServicesInit ==
    /\ which \in {"limiter", "rankers", "usage", "retention"}
    /\ Init /\ RankerInit /\ UsageInit /\ RetentionInit

ServicesNext ==
    \/ which = "limiter" /\ Next /\ UNCHANGED <<rankerVars, usageVars, retentionVars, which>>
    \/ which = "rankers" /\ RankerNext /\ UNCHANGED <<vars, usageVars, retentionVars, which>>
    \/ /\ which = "usage" /\ UsageNext /\ UsageBound'
       /\ UNCHANGED <<vars, rankerVars, retentionVars, which>>
    \/ which = "retention" /\ RetentionNext /\ UNCHANGED <<vars, rankerVars, usageVars, which>>

ServicesSpec == ServicesInit /\ [][ServicesNext]_serviceVars

\* The variables of the service that moves keep their types.
ServicesTypeOK ==
    CASE which = "limiter" -> TypeOK
      [] which = "rankers" -> RankerTypeOK
      [] which = "usage" -> UsageTypeOK
      [] which = "retention" -> RetentionTypeOK
=============================================================================
