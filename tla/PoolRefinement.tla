--------------------------- MODULE PoolRefinement ---------------------------
(***************************************************************************)
(* ClusterPool, transaction by transaction, implements PoolContract, where   *)
(* each handler is one step, as long as no fault cuts a handler short and    *)
(* no device registers again.  A handler takes effect at one transaction:    *)
(* a cluster is formed by the create_cluster that precedes the updates of    *)
(* its members, and ended by the step that starts to dissolve it.            *)
(***************************************************************************)
EXTENDS ClusterPool

\* Ended, or being dissolved.
Ending(c) == clusters[c].status = "terminated" \/ (pc = "dissolve" /\ cur = c)

\* The cluster w serves in, counting the members still to be assigned.
Place(w) ==
  LET c == workers[w].cluster_id IN
  IF pc = "assign" /\ w \in todo THEN cur
  ELSE IF c # 0 /\ ~Ending(c) THEN c
  ELSE 0

Contract ==
  INSTANCE PoolContract WITH
    Worker <- Worker,
    Cluster <- Cluster,
    up <- [w \in Worker |-> workers[w].online],
    place <- [w \in Worker |-> Place(w)],
    phase <- [c \in Cluster |->
                IF Ending(c) THEN "terminated" ELSE clusters[c].status],
    ring <- [c \in Cluster |-> Members(c)],
    reports <- [c \in Cluster |-> [ready |-> clusters[c].ready,
                                   layers |-> clusters[c].reported]]

\* The transactions of ClusterPool add up to the atomic handlers of the
\* contract: at no point between two of them is a worker free and a member,
\* or a member of two clusters, or a member of a cluster that has ended.
ImplementsContract == Contract!Spec

\* What the contract promises holds of the pool at every transaction, seen
\* through the mapping: a worker serves in a cluster exactly while it is a
\* member of it and the cluster is active, and members are up.
ServesWhole == Contract!Wholeness
=============================================================================
