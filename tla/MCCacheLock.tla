---------------------------- MODULE MCCacheLock ----------------------------
(* Workers of two instances: w3 runs in c2, the others in c1. *)
EXTENDS CacheLock

CONSTANTS w1, w2, w3, c1, c2

MCClientOf == [w \in Workers |-> IF w = w3 THEN c2 ELSE c1]
=============================================================================
