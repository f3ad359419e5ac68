---------------------------- MODULE MCPrimitives ----------------------------
(* What the requests of a process share: the lock of the cache, the pool of  *)
(* detail batches, and the gate to the API with its slots, pacer and         *)
(* cooldown.  They share no state, so one of them moves.                     *)
EXTENDS MCCacheLock, DetailPool, MCRequestGate

CONSTANTS d1, d2, p1, p2

MCSizeOf == [d \in Fetchers |-> IF d = d1 THEN 3 ELSE 2]

VARIABLE which

primitiveVars == <<vars, poolVars, gateVars, which>>

TheLock(A) == which = "lock" /\ A /\ UNCHANGED <<poolVars, gateVars, which>>
ThePool(A) == which = "pool" /\ A /\ UNCHANGED <<vars, gateVars, which>>
TheGate(A) == which = "gate" /\ A /\ UNCHANGED <<vars, poolVars, which>>

PrimitivesInit ==
    /\ Init /\ PoolInit /\ GateInit
    /\ which \in {"lock", "pool", "gate"}
    /\ which # "lock" => \A c \in Clients : online[c]

PrimitivesNext == TheLock(Next) \/ ThePool(PoolNext) \/ TheGate(GateNext)

\* Spec, PoolSpec or GateSpec, each with its fairness.
PrimitivesSpec ==
    /\ PrimitivesInit /\ [][PrimitivesNext]_primitiveVars
    /\ WF_primitiveVars(TheLock(Tick))
    /\ \A d \in Fetchers : WF_primitiveVars(ThePool(Proceed(d)))
    /\ \A p \in PoolWorkers : WF_primitiveVars(ThePool(Serve(p)))
    /\ WF_primitiveVars(TheGate(GateTick))
    /\ \A t \in Threads : WF_primitiveVars(TheGate(Advance(t)))

\* The variables of all three keep their types.
PrimitivesTypeOK == TypeOK /\ PoolTypeOK /\ GateTypeOK
=============================================================================
