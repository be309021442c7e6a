-------------------------- MODULE MCPoolRefinement --------------------------
(* An instance of PoolRefinement for TLC.                                    *)
EXTENDS PoolRefinement

CONSTANTS a1, m1, m2

OneModelNeeds == [m \in {m1} |-> 2]
TwoModelsNeed == [m \in {m1, m2} |-> IF m = m1 THEN 2 ELSE 1]
=============================================================================
