----------------------------- MODULE MCMigration -----------------------------
(* Instances of Migration for TLC.                                         *)
EXTENDS Migration

CONSTANTS a1, a2, w1, w2, c1, c2

OneWindow == [w \in {w2} |-> 2]
ZeroWindow == [w \in {w1, w2} |-> IF w = w1 THEN 0 ELSE 2]

Stored(status, ring, ready, windows) ==
  [status |-> status, ring |-> ring, ready |-> ready, windows |-> windows]

\* Clusters in every state the gate allows, and a terminated one beside them.
Pasts ==
  LET distributions == {Null, <<>>, OneWindow, ZeroWindow}
      live == {Stored("live", ring, {w1, w2}, d) : ring \in {<<w1, w2>>, <<w2, w1>>}, d \in distributions}
      rest == {Stored(s, <<w2, w1>>, ready, d) :
                 s \in {"assembling", "terminated"}, ready \in {{}, {w1}}, d \in distributions}
      waiting == {Stored("assembling", <<w2, w1>>, {w1, w2}, Null)}
      old == {NoCluster, Stored("terminated", <<w1>>, {w1}, Null)} IN
  {[accounts |-> {a1}, clusters |-> [c \in {c1, c2} |-> IF c = c1 THEN new ELSE past]] :
     new \in live \cup rest \cup waiting, past \in old}
=============================================================================
