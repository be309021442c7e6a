---------------------------- MODULE PoolContract ----------------------------
(***************************************************************************)
(* What the pool promises about membership, with every handler one atomic   *)
(* step: workers come up and go down; workers that are up and belong to no   *)
(* cluster are taken into one together; a cluster goes live when all its     *)
(* members are ready and its layers are known; and it ends, for all its      *)
(* members at once, when one of them goes down or leaves.  Ended clusters    *)
(* never come back and never change.                                        *)
(***************************************************************************)
EXTENDS Integers

CONSTANTS
  Worker,   \* worker ids
  Cluster   \* cluster ids

\* Cluster ids are positive numbers: 0 stands for no cluster.
Numbered == Cluster \subseteq Nat \ {0}

VARIABLES
  up,       \* up[w]: the server believes w online
  place,    \* place[w]: the cluster w serves in, 0 for none
  phase,    \* phase[c]: none, assembling, live or terminated
  ring,     \* ring[c]: its members
  reports   \* reports[c]: the members that are ready, and whether the layers are known

vars == <<up, place, phase, ring, reports>>

Active(c) == phase[c] \in {"assembling", "live"}

Init ==
  /\ up = [w \in Worker |-> FALSE]
  /\ place = [w \in Worker |-> 0]
  /\ phase = [c \in Cluster |-> "none"]
  /\ ring = [c \in Cluster |-> {}]
  /\ reports = [c \in Cluster |-> [ready |-> {}, layers |-> FALSE]]

\* A worker is heard of.
ComesUp(w) ==
  /\ up' = [up EXCEPT ![w] = TRUE]
  /\ UNCHANGED <<place, phase, ring, reports>>

\* A worker that serves in no cluster falls silent or is revoked.
GoesDown(w) ==
  /\ place[w] = 0
  /\ up' = [up EXCEPT ![w] = FALSE]
  /\ UNCHANGED <<place, phase, ring, reports>>

\* Free workers, all up, become a cluster.
Form(c, S) ==
  /\ phase[c] = "none"
  /\ S # {}
  /\ \A w \in S : up[w] /\ place[w] = 0
  /\ phase' = [phase EXCEPT ![c] = "assembling"]
  /\ ring' = [ring EXCEPT ![c] = S]
  /\ place' = [w \in Worker |-> IF w \in S THEN c ELSE place[w]]
  /\ UNCHANGED <<up, reports>>

\* A member reports; the report that completes the set brings the cluster
\* live, and a live cluster stays live.
Report(w, ready, layers) ==
  LET c == place[w]
      told == [ready |-> reports[c].ready \cup ready,
               layers |-> reports[c].layers \/ layers]
  IN /\ c # 0
     /\ ready \subseteq {w}
     /\ reports' = [reports EXCEPT ![c] = told]
     /\ phase' = [phase EXCEPT ![c] =
                    IF ring[c] \subseteq told.ready /\ told.layers
                    THEN "live" ELSE @]
     /\ UNCHANGED <<up, place, ring>>

\* A member goes down or leaves: the cluster ends for all of them.
Dissolve(w, silent) ==
  LET c == place[w] IN
  /\ c # 0
  /\ phase' = [phase EXCEPT ![c] = "terminated"]
  /\ place' = [v \in Worker |-> IF v \in ring[c] THEN 0 ELSE place[v]]
  /\ up' = [up EXCEPT ![w] = @ /\ ~silent]
  /\ UNCHANGED <<ring, reports>>

Next ==
  \/ \E w \in Worker : ComesUp(w)
  \/ \E w \in Worker : GoesDown(w)
  \/ \E c \in Cluster, S \in SUBSET Worker : Form(c, S)
  \/ \E w \in Worker, ready \in SUBSET Worker, layers \in BOOLEAN :
       Report(w, ready, layers)
  \/ \E w \in Worker, silent \in BOOLEAN : Dissolve(w, silent)

Spec == Init /\ [][Next]_vars

-----------------------------------------------------------------------------

\* The promise: a worker serves in a cluster exactly while it is a member of
\* it and the cluster is active, so never in two, and every member of an
\* active cluster is up.
Wholeness ==
  \A c \in Cluster, w \in Worker :
    /\ (place[w] = c) <=> (Active(c) /\ w \in ring[c])
    /\ place[w] = c => up[w]
=============================================================================
