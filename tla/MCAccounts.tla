------------------------------ MODULE MCAccounts ------------------------------
(* Instances of Accounts for TLC.                                             *)
EXTENDS Accounts

CONSTANTS a1, a2, a3

NoChange == [is_admin |-> "absent", banned |-> "absent",
             can |-> [s \in Capability |-> "absent"]]

Standings == {[NoChange EXCEPT !.is_admin = x, !.banned = y] : x, y \in Field} \ {NoChange}
Grants == {[NoChange EXCEPT !.can[s] = x] : s \in Capability, x \in {"on", "off"}}

\* The two flags that matter for administration, together or one of them; and
\* one capability of an account that makes use of it.
FewFlags == [a \in Account |-> Standings \cup IF a \in Provider THEN Grants ELSE {}]

\* Both capabilities are open to all, or neither.
OpenOrNot == {{}, Capability}
=============================================================================
