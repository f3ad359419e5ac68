--------------------------- MODULE MCRequestGate ---------------------------
(* Threads of one or two instances, for model checking RequestGate. *)
EXTENDS RequestGate

CONSTANTS t1, t2, t3, i1, i2, redis

OneInstance == [t \in Threads |-> i1]
TwoInstances == [t \in Threads |-> IF t = t3 THEN i2 ELSE i1]
OneStore == [i \in Instances |-> redis]
=============================================================================
