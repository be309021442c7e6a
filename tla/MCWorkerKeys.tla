----------------------------- MODULE MCWorkerKeys -----------------------------
(* Instances of WorkerKeys for TLC: two devices of one account, one of another. *)
EXTENDS WorkerKeys

CONSTANTS a1, a2, d1, d2, d3, k1, k2, k3

TwoAccounts == [d \in {d1, d2, d3} |-> IF d = d3 THEN a2 ELSE a1]
OwnKeys == [d \in {d1, d2, d3} |-> IF d = d1 THEN k1 ELSE IF d = d2 THEN k2 ELSE k3]
=============================================================================
