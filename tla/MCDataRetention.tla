--------------------------- MODULE MCDataRetention ---------------------------
(* The retention alone, for the matches that outlive their period. *)
EXTENDS DataRetention

CONSTANTS m1, m2, m3
=============================================================================
