---------------------------- MODULE MCUserSearch ----------------------------
(* Three searches for one name: two in one process, one in another. *)
EXTENDS UserSearch, TLC

CONSTANTS w1, w2, w3, i1, i2

MCInstanceOf == (w1 :> i1) @@ (w2 :> i1) @@ (w3 :> i2)
MCAlone == (w1 :> i1)

=============================================================================
