---------------------------- MODULE MCRankerSync ----------------------------
(* One instance with its worker and one request thread. *)
EXTENDS RankerSync

CONSTANTS i1, c1

MCHomeOf == [c \in Callers |-> i1]
=============================================================================
