---------------------------- MODULE MCAttribution ----------------------------
(* Instances of Attribution for TLC.                                       *)
EXTENDS Attribution

CONSTANTS a1, a2, w1, w2, w3, k1, k2

\* Two of the three workers have one owner, who may have all of a ring or half of it.
OwnerOfTwo == [w \in {w1, w2, w3} |-> IF w = w2 THEN a2 ELSE a1]
KeysOfTwo == [k \in {k1, k2} |-> IF k = k1 THEN a1 ELSE a2]

RingsOfTwo == {<<w1, w2>>, <<w3, w1>>}

\* Nothing; one rank of two; equal counts; a forwarder, and a rank that no ring
\* has.
RankReports ==
  {<<>>, [r \in {1} |-> 2], [r \in 0..1 |-> 0], [r \in 0..1 |-> 1],
   [r \in 0..2 |-> IF r = 0 THEN 0 ELSE 2]}

\* Every member a forwarder, as far as the report says.
ZeroReports == {<<>>, [r \in 0..1 |-> 0]}
=============================================================================
