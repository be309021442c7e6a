--------------------------- MODULE MCInferenceProxy ---------------------------
(* Instances of InferenceProxy for TLC.                                       *)
EXTENDS InferenceProxy

CONSTANTS k1, k2, m1, m2
=============================================================================
