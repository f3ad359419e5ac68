--------------------------- MODULE MCAnalysisRun ---------------------------
(* Three requests to analyse and one for the latest result. *)
EXTENDS AnalysisRun

CONSTANTS w1, w2, w3, r1, k1, k2, i1, i2, f1, f2

MCOneKey == [p \in Workers \cup Readers |-> k1]
MCInstanceOf == [p \in Workers \cup Readers |-> IF p = w3 THEN i2 ELSE i1]
MCPrintOf == [w \in Workers |-> IF w = w2 THEN f2 ELSE f1]
=============================================================================
