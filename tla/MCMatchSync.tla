---------------------------- MODULE MCMatchSync ----------------------------
(* An analysis of every match and a list of completed matches. *)
EXTENDS MatchSync

CONSTANTS w1, w2, i1, i2

MCTogether == [w \in Workers |-> i1]
MCWindowOf == [w \in Workers |-> IF w = w1 THEN 2 ELSE 1]
MCForfeitsOf == [w \in Workers |-> w = w1]
MCAllForfeits == [w \in Workers |-> TRUE]
MCForfeits == {2}
=============================================================================
