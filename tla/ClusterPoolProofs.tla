-------------------------- MODULE ClusterPoolProofs --------------------------
(***************************************************************************)
(* The invariants of ClusterPool for any workers, models, sizes and bounds,  *)
(* with faults and re-registrations.                                        *)
(***************************************************************************)
EXTENDS PoolRefinement, FiniteSetTheorems, WellFoundedInduction, TLAPS

-----------------------------------------------------------------------------
(* Lemmas about the operators.                                              *)

\* Min of a nonempty set of naturals is its least element.
LEMMA MinIsLeast ==
  ASSUME NEW S \in SUBSET Nat, S # {}
  PROVE  Min(S) \in S /\ \A x \in S : Min(S) <= x
<1> DEFINE Less == OpToRel(<, Nat)
<1>1. ASSUME NEW x \in Nat, NEW y \in Nat, ~ (<<y, x>> \in Less)
      PROVE  x <= y
  BY <1>1 DEF OpToRel
<1>2. PICK x \in S : \A y \in S : ~ (<<y, x>> \in Less)
  <2>1. IsWellFoundedOn(Less, Nat)
    BY NatLessThanWellFounded
  <2> HIDE DEF Less
  <2>2. QED  BY <2>1, WFMin
<1> HIDE DEF Less
<1>3. ASSUME NEW y \in S
      PROVE  x <= y
  <2>1. x \in Nat /\ y \in Nat
    OBVIOUS
  <2>2. ~ (<<y, x>> \in Less)
    BY <1>2
  <2>3. QED  BY <1>1, <2>1, <2>2
<1>4. QED
  BY <1>3 DEF Min

\* The workers older than w are fewer than w.
LEMMA OlderAreFewer ==
  ASSUME NEW S \in SUBSET Worker, NEW w \in Worker
  PROVE  /\ IsFiniteSet(Older(w, S))
         /\ Cardinality(Older(w, S)) \in 0..(w - 1)
<1>1. w \in Int /\ w >= 1
  BY BoundAssumption DEF Worker
<1>2. IsFiniteSet(1..(w - 1)) /\ Cardinality(1..(w - 1)) = w - 1
  <2> DEFINE b == w - 1
  <2>1. b \in Int /\ (1 > b => b = 0)
    BY <1>1
  <2> HIDE DEF b
  <2>2. IsFiniteSet(1..b) /\ Cardinality(1..b) = IF 1 > b THEN 0 ELSE b - 1 + 1
    BY <2>1, FS_Interval
  <2>3. QED  BY <2>1, <2>2 DEF b
<1>3. Older(w, S) \in SUBSET (1..(w - 1))
  <2>1. ASSUME NEW v \in Older(w, S)
        PROVE  v \in 1..(w - 1)
    <3>1. v \in Worker /\ v < w
      BY DEF Older
    <3>2. QED  BY <1>1, <3>1, BoundAssumption DEF Worker
  <2>2. QED  BY <2>1
<1>4. IsFiniteSet(Older(w, S)) /\ Cardinality(Older(w, S)) <= w - 1
  BY <1>2, <1>3, FS_Subset
<1>5. Cardinality(Older(w, S)) \in Nat
  BY <1>4, FS_CardinalityType
<1>6. QED
  BY <1>1, <1>4, <1>5

\* The ring of S has a slot for every worker of S, none for others, and no
\* slot twice.
LEMMA RingOfIsRing ==
  ASSUME NEW S \in SUBSET Worker
  PROVE  /\ RingOf(S) \in [Worker -> -1..(MaxWorker - 1)]
         /\ \A w \in Worker : RingOf(S)[w] >= 0 <=> w \in S
         /\ \A v, w \in S : RingOf(S)[v] = RingOf(S)[w] => v = w
<1>1. ASSUME NEW w \in Worker
      PROVE  /\ RingOf(S)[w] \in -1..(MaxWorker - 1)
             /\ RingOf(S)[w] >= 0 <=> w \in S
  <2>1. Cardinality(Older(w, S)) \in 0..(w - 1)
    BY OlderAreFewer
  <2>2. w \in 1..MaxWorker
    BY DEF Worker
  <2>3. QED  BY <2>1, <2>2, BoundAssumption DEF RingOf
<1>2. ASSUME NEW v \in S, NEW w \in S, v < w
      PROVE  Cardinality(Older(v, S)) # Cardinality(Older(w, S))
  <2>1. v \in Int /\ w \in Int
    BY BoundAssumption DEF Worker
  <2>2. Older(v, S) \in SUBSET Older(w, S)
    <3>1. ASSUME NEW u \in Older(v, S)
          PROVE  u \in Older(w, S)
      <4>1. u \in S /\ u < v /\ u \in Int
        BY BoundAssumption DEF Older, Worker
      <4>2. QED  BY <1>2, <2>1, <4>1 DEF Older
    <3>2. QED  BY <3>1
  <2>3. v \in Older(w, S) /\ v \notin Older(v, S)
    BY <1>2, <2>1 DEF Older
  <2>4. IsFiniteSet(Older(w, S))
    BY OlderAreFewer
  <2>5. QED  BY <2>2, <2>3, <2>4, FS_Subset
<1>3. ASSUME NEW v \in S, NEW w \in S, RingOf(S)[v] = RingOf(S)[w]
      PROVE  v = w
  <2>1. Cardinality(Older(v, S)) = Cardinality(Older(w, S))
    BY <1>3 DEF RingOf
  <2>2. v \in Int /\ w \in Int
    BY BoundAssumption DEF Worker
  <2>3. v < w \/ w < v \/ v = w
    BY <2>2
  <2>4. QED  BY <1>2, <2>1, <2>3
<1>4. QED
  BY <1>1, <1>3 DEF RingOf

\* A batch is of the waitlist, has its first worker at least, and brings the
\* memory the model needs.
LEMMA BatchSuffices ==
  ASSUME NEW m, Enough(m) # {}
  PROVE  /\ Batch(m) \in SUBSET Waitlist(m)
         /\ Batch(m) \in SUBSET Worker
         /\ Batch(m) # {}
         /\ Memory(Batch(m)) >= Required[m]
<1>1. Waitlist(m) \in SUBSET Worker /\ Enough(m) \in SUBSET Nat
  BY BoundAssumption DEF Enough, Waitlist, Worker
<1>2. PICK w \in Enough(m) : w = Min(Enough(m))
  BY <1>1, MinIsLeast
<1>3. /\ w \in Waitlist(m) /\ Memory(UpTo(w, Waitlist(m))) >= Required[m]
      /\ Batch(m) = UpTo(w, Waitlist(m))
  BY <1>2 DEF Enough, Batch
<1>4. w \in UpTo(w, Waitlist(m)) /\ UpTo(w, Waitlist(m)) \in SUBSET Waitlist(m)
  BY <1>1, <1>2, <1>3 DEF UpTo
<1>5. QED
  BY <1>1, <1>3, <1>4

\* A new cluster takes an id of its own.
LEMMA NextClusterIsNew ==
  ASSUME \E c \in Cluster : clusters[c].status = "none"
  PROVE  NextCluster \in Cluster /\ clusters[NextCluster].status = "none"
<1> DEFINE new == {c \in Cluster : clusters[c].status = "none"}
<1>1. new \in SUBSET Nat /\ new # {}
  BY BoundAssumption DEF Cluster
<1>2. Min(new) \in new
  BY <1>1, MinIsLeast
<1>3. QED
  BY <1>2 DEF NextCluster

\* A new cluster takes a subnet that is free.
LEMMA NextSubnetIsFree ==
  ASSUME FreeSubnets # {}
  PROVE  Min(FreeSubnets) \in (1..MaxSubnet) \ UsedSubnets
<1>1. FreeSubnets \in SUBSET Nat
  BY BoundAssumption DEF FreeSubnets
<1>2. QED
  BY <1>1, MinIsLeast DEF FreeSubnets

-----------------------------------------------------------------------------
(* Types.                                                                   *)

LEMMA RowTypes ==
  /\ Blank \in WorkerRow
  /\ Unformed \in ClusterRow
<1>1. /\ (CHOOSE a \in Account : TRUE) \in Account
      /\ (CHOOSE m \in Model : TRUE) \in Model
  BY ModelAssumption
<1>2. 0 \in 0..MaxCluster /\ 0 \in 0..MaxSubnet /\ 0 \in 0..MaxWorker
      /\ -1 \in -1..(MaxWorker - 1)
  BY BoundAssumption
<1>3. NoIP \in (0..MaxSubnet) \X (0..MaxWorker)
  BY <1>2 DEF NoIP
<1>4. QED
  BY <1>1, <1>2, <1>3 DEF Blank, Unformed, WorkerRow, ClusterRow

\* What handlers do to a row leaves it a row.
LEMMA RowUpdates ==
  ASSUME NEW row \in WorkerRow
  PROVE  /\ \A b \in BOOLEAN : [row EXCEPT !.online = b] \in WorkerRow
         /\ \A b \in BOOLEAN : [row EXCEPT !.fresh = b] \in WorkerRow
         /\ \A b \in BOOLEAN : [row EXCEPT !.assignable = b] \in WorkerRow
         /\ \A b \in BOOLEAN : [row EXCEPT !.online = TRUE, !.fresh = TRUE,
                                         !.assignable = b] \in WorkerRow
         /\ \A m \in Model, mem \in Nat :
              [row EXCEPT !.model = m, !.memory = mem, !.status = "waitlisted",
                          !.online = FALSE] \in WorkerRow
         /\ Released(row) \in WorkerRow
         /\ \A c \in 0..MaxCluster, ip \in (0..MaxSubnet) \X (0..MaxWorker),
              i \in -1..(MaxWorker - 1) :
              [row EXCEPT !.status = "assigned", !.cluster_id = c,
                          !.assigned_ip = ip, !.ring_position = i] \in WorkerRow
<1>1. /\ 0 \in 0..MaxCluster /\ -1 \in -1..(MaxWorker - 1)
      /\ NoIP \in (0..MaxSubnet) \X (0..MaxWorker)
  BY BoundAssumption DEF NoIP
<1>2. Released(row) \in WorkerRow
  BY <1>1 DEF Released, WorkerRow
<1>3. QED
  BY <1>2 DEF WorkerRow

\* The gate changes a status only.
LEMMA GateTypes ==
  ASSUME NEW row \in ClusterRow, NEW w \in Worker
  PROVE  /\ WithDistribution(row) \in ClusterRow
         /\ WithReady(row, w) \in ClusterRow
<1>1. ASSUME NEW r \in ClusterRow
      PROVE  Gated(r) \in ClusterRow
  BY DEF Gated, ClusterRow
<1>2. [row EXCEPT !.reported = TRUE] \in ClusterRow
  BY DEF ClusterRow
<1>3. [row EXCEPT !.ready = @ \cup {w}] \in ClusterRow
  BY DEF ClusterRow
<1>4. QED
  BY <1>1, <1>2, <1>3 DEF WithDistribution, WithReady

LEMMA TypeInit == Init => TypeOK
  BY RowTypes, BoundAssumption DEF Init, TypeOK

LEMMA RestTypes ==
  ASSUME Rest
  PROVE  /\ pc' = "idle" /\ cur' \in 0..MaxCluster /\ todo' \subseteq Worker
         /\ unchecked' \subseteq Model /\ snapshot' \in [Worker -> WorkerRow]
         /\ leaver' \in 0..MaxWorker
  BY RowTypes, BoundAssumption DEF Rest

\* The address of a member is an address.
LEMMA AddressTypes ==
  ASSUME TypeOK, NEW c \in Cluster, NEW w \in Members(c)
  PROVE  AddressOf(clusters[c], w) \in (0..MaxSubnet) \X (0..MaxWorker)
<1>1. clusters[c] \in ClusterRow /\ w \in Worker /\ clusters[c].ring[w] >= 0
  BY DEF TypeOK, Members
<1>2. clusters[c].subnet \in 0..MaxSubnet
      /\ clusters[c].ring[w] \in -1..(MaxWorker - 1)
  BY <1>1 DEF ClusterRow
<1>3. clusters[c].ring[w] + 1 \in 0..MaxWorker
  BY <1>1, <1>2, BoundAssumption
<1>4. QED
  BY <1>2, <1>3 DEF AddressOf

LEMMA TypeStep == TypeOK /\ HandlerState /\ [Next]_vars => TypeOK'
<1> SUFFICES ASSUME TypeOK, HandlerState, [Next]_vars
             PROVE  TypeOK'
  OBVIOUS
<1> USE BoundAssumption
<1>1. ASSUME NEW a \in Account, NEW m \in Model, NEW mem \in Sizes,
             Register(a, m, mem)
      PROVE  TypeOK'
  <2>1. [Blank EXCEPT !.status = "waitlisted", !.assignable = TRUE,
                      !.account = a, !.model = m, !.memory = mem] \in WorkerRow
    BY RowTypes, ModelAssumption DEF WorkerRow
  <2>2. workers' \in [Worker -> WorkerRow]
    BY <1>1, <2>1 DEF Register, TypeOK
  <2>3. created' \in 0..MaxWorker
    BY <1>1 DEF Register, TypeOK
  <2>4. QED
    BY <1>1, <2>2, <2>3 DEF Register, BeginCheck, TypeOK
<1>2. ASSUME NEW w \in Worker, NEW m \in Model, NEW mem \in Sizes,
             Reregister(w, m, mem)
      PROVE  TypeOK'
  <2>1. [workers[w] EXCEPT !.model = m, !.memory = mem,
                           !.status = "waitlisted", !.online = FALSE] \in WorkerRow
    BY ModelAssumption, RowUpdates DEF TypeOK
  <2>2. workers[w].cluster_id \in 0..MaxCluster
    BY DEF WorkerRow, TypeOK
  <2>3. {workers[w].cluster_id} \ {0} \subseteq Cluster
    BY <2>2 DEF Cluster
  <2>4. workers' \in [Worker -> WorkerRow]
    BY <1>2, <2>1 DEF Reregister, TypeOK
  <2>5. QED
    BY <1>2, <2>3, <2>4 DEF Reregister, BeginCheck, TypeOK
<1>3. ASSUME NEW w \in Worker, Heartbeat(w)
      PROVE  TypeOK'
  <2>1. [workers[w] EXCEPT
           !.online = TRUE, !.fresh = TRUE,
           !.assignable = IF workers[w].online THEN @ ELSE ~Grace] \in WorkerRow
    <3>1. workers[w] \in WorkerRow /\ workers[w].assignable \in BOOLEAN
      BY DEF WorkerRow, TypeOK
    <3>2. (IF workers[w].online THEN workers[w].assignable ELSE ~Grace) \in BOOLEAN
      BY <3>1
    <3>3. QED  BY <3>1, <3>2, RowUpdates
  <2>2. workers' \in [Worker -> WorkerRow]
    BY <1>3, <2>1 DEF Heartbeat, TypeOK
  <2>3. QED
    BY <1>3, <2>2 DEF Heartbeat, BeginCheck, TypeOK
<1>4. ASSUME NEW w \in Worker, LeaveStart(w)
      PROVE  TypeOK'
  <2>1. workers[w].cluster_id \in 0..MaxCluster /\ w \in 0..MaxWorker
    BY DEF WorkerRow, TypeOK, Worker
  <2>2. QED
    BY <1>4, <2>1 DEF LeaveStart, BeginDissolve, Members, TypeOK
<1>5. ASSUME NEW w \in Worker, NEW b \in BOOLEAN, ReportReady(w, b)
      PROVE  TypeOK'
  <2> DEFINE c == workers[w].cluster_id
             told == IF b /\ workers[w].ring_position = 0
                     THEN WithDistribution(clusters[c]) ELSE clusters[c]
  <2>1. c \in Cluster
    BY <1>5 DEF ReportReady, WorkerRow, TypeOK, Cluster
  <2>2. clusters[c] \in ClusterRow
    BY <2>1 DEF TypeOK
  <2>3. told \in ClusterRow
    BY <2>2, GateTypes
  <2>4. WithReady(told, w) \in ClusterRow
    BY <2>3, GateTypes
  <2>5. QED
    BY <1>5, <2>4 DEF ReportReady, handler, TypeOK
<1>6. ASSUME NEW w \in Worker, ReportLayers(w)
      PROVE  TypeOK'
  <2> DEFINE c == workers[w].cluster_id
  <2>1. c \in Cluster
    BY <1>6 DEF ReportLayers, WorkerRow, TypeOK, Cluster
  <2>2. WithDistribution(clusters[c]) \in ClusterRow
    BY <2>1, GateTypes DEF TypeOK
  <2>3. QED
    BY <1>6, <2>2 DEF ReportLayers, handler, TypeOK
<1>7. ASSUME NEW w \in Worker, GraceElapses(w)
      PROVE  TypeOK'
  <2>1. [workers[w] EXCEPT !.assignable = TRUE] \in WorkerRow
    BY RowUpdates DEF TypeOK
  <2>2. QED
    BY <1>7, <2>1 DEF GraceElapses, handler, TypeOK
<1>8. ASSUME NEW w \in Worker, HeartbeatExpires(w)
      PROVE  TypeOK'
  <2>1. [workers[w] EXCEPT !.fresh = FALSE] \in WorkerRow
    BY RowUpdates DEF TypeOK
  <2>2. QED
    BY <1>8, <2>1 DEF HeartbeatExpires, handler, TypeOK
<1>9. CASE SweepStart
  BY <1>9, RowTypes DEF SweepStart, TypeOK
<1>10. ASSUME NEW m \in Model, FormCluster(m)
       PROVE  TypeOK'
  <2>1. NextCluster \in Cluster
    BY <1>10, NextClusterIsNew DEF FormCluster, CanForm
  <2>2. Batch(m) \in SUBSET Worker
    BY <1>10, BatchSuffices DEF FormCluster, CanForm
  <2>3. RingOf(Batch(m)) \in [Worker -> -1..(MaxWorker - 1)]
    BY <2>2, RingOfIsRing
  <2>4. Min(FreeSubnets) \in 0..MaxSubnet
    BY <1>10, NextSubnetIsFree DEF FormCluster
  <2>5. NewCluster(m) \in ClusterRow
    BY <2>3, <2>4 DEF NewCluster, ClusterRow
  <2>6. QED
    BY <1>10, <2>1, <2>2, <2>5 DEF FormCluster, Cluster, TypeOK
<1>11. ASSUME NEW m \in Model, SubnetsExhausted(m)
       PROVE  TypeOK'
  BY <1>11, RestTypes DEF SubnetsExhausted, TypeOK
<1>12. CASE CheckDone
  BY <1>12, RestTypes DEF CheckDone, TypeOK
<1>13. CASE AssignMember
  <2> DEFINE w == Min(todo)
             row == [workers[w] EXCEPT !.status = "assigned",
                                       !.cluster_id = cur,
                                       !.assigned_ip = AddressOf(clusters[cur], w),
                                       !.ring_position = clusters[cur].ring[w]]
  <2>1. cur \in Cluster /\ todo # {} /\ todo \subseteq Members(cur)
    BY <1>13 DEF AssignMember, HandlerState
  <2>2. todo \in SUBSET Nat
    BY DEF TypeOK, Worker
  <2>3. w \in todo
    BY <2>1, <2>2, MinIsLeast
  <2>4. w \in Worker /\ AddressOf(clusters[cur], w) \in (0..MaxSubnet) \X (0..MaxWorker)
    BY <2>1, <2>3, AddressTypes DEF Members
  <2>5. clusters[cur].ring[w] \in -1..(MaxWorker - 1) /\ cur \in 0..MaxCluster
    BY <2>1, <2>4 DEF TypeOK, ClusterRow, Cluster
  <2>6. row \in WorkerRow
    BY <2>4, <2>5, RowUpdates DEF TypeOK
  <2> HIDE DEF w
  <2>7. workers' = [workers EXCEPT ![w] = row]
    BY <1>13 DEF AssignMember, w
  <2>8. workers' \in [Worker -> WorkerRow]
    BY <2>4, <2>6, <2>7 DEF TypeOK
  <2>9. QED
    BY <1>13, <2>8 DEF AssignMember, TypeOK
<1>14. ASSUME NEW w \in Worker, SweepWorker(w)
       PROVE  TypeOK'
  <2>1. [snapshot[w] EXCEPT !.online = FALSE] \in WorkerRow
    BY RowUpdates DEF TypeOK
  <2>2. snapshot[w].cluster_id \in 0..MaxCluster
    BY DEF TypeOK, WorkerRow
  <2>3. workers' \in [Worker -> WorkerRow] /\ snapshot' \in [Worker -> WorkerRow]
    BY <1>14, <2>1, RowTypes DEF SweepWorker, TypeOK
  <2>4. QED
    BY <1>14, <2>2, <2>3
       DEF SweepWorker, BeginDissolve, SweepResumes, Members, TypeOK
<1>15. CASE ReleaseMember
  <2>1. PICK w \in todo :
          /\ workers' = [workers EXCEPT ![w] = Released(workers[w])]
          /\ todo' = todo \ {w}
          /\ broken' = broken \cup ({workers[w].cluster_id} \ {0, cur})
    BY <1>15 DEF ReleaseMember
  <2>2. w \in Worker
    BY DEF TypeOK
  <2>3. workers[w] \in WorkerRow /\ workers[w].cluster_id \in 0..MaxCluster
    BY <2>2 DEF TypeOK, WorkerRow
  <2>5. Released(workers[w]) \in WorkerRow
    BY <2>3, RowUpdates
  <2>6. workers' \in [Worker -> WorkerRow]
    BY <2>1, <2>2, <2>5 DEF TypeOK
  <2>7. {workers[w].cluster_id} \ {0, cur} \subseteq Cluster
    BY <2>3 DEF Cluster
  <2>8. QED
    BY <1>15, <2>1, <2>6, <2>7 DEF ReleaseMember, TypeOK
<1>16. CASE Terminate
  <2>1. \A row \in ClusterRow : [row EXCEPT !.status = "terminated"] \in ClusterRow
    BY DEF ClusterRow
  <2>2. clusters' \in [Cluster -> ClusterRow]
    BY <1>16, <2>1 DEF Terminate, TypeOK
  <2>3. QED
    BY <1>16, <2>2 DEF Terminate, SweepResumes, TypeOK
<1>17. CASE DeleteWorker
  <2>1. workers' \in [Worker -> WorkerRow]
    BY <1>17, RowTypes DEF DeleteWorker, TypeOK
  <2>2. QED
    BY <1>17, <2>1, RestTypes DEF DeleteWorker, TypeOK
<1>18. CASE HandlerDies
  <2>1. Severed \subseteq Cluster
    BY DEF Severed, HandlerState
  <2>2. broken' \subseteq Cluster /\ faults' \in 0..MaxFaults
    <3>1. broken' = broken \cup Severed /\ faults' = faults + 1 /\ faults < MaxFaults
      BY <1>18 DEF HandlerDies
    <3>2. faults \in 0..MaxFaults /\ broken \subseteq Cluster
      BY DEF TypeOK
    <3>3. QED  BY <2>1, <3>1, <3>2
  <2>3. Rest /\ UNCHANGED <<workers, created, clusters>>
    BY <1>18 DEF HandlerDies
  <2>4. QED
    BY <2>2, <2>3, RestTypes DEF TypeOK
<1>19. ASSUME NEW w \in Worker, SweepSkips(w)
       PROVE  TypeOK'
  BY <1>19, RowTypes DEF SweepSkips, SweepResumes, TypeOK
<1>20. CASE TeardownRaises
  BY <1>20 DEF TeardownRaises, Severed, HandlerState, SweepResumes, TypeOK
<1>21. CASE UNCHANGED vars
  BY <1>21 DEF vars, handler, TypeOK
<1>22. QED
  BY <1>1, <1>2, <1>3, <1>4, <1>5, <1>6, <1>7, <1>8, <1>9, <1>10, <1>11,
     <1>12, <1>13, <1>14, <1>15, <1>16, <1>17, <1>18, <1>19, <1>20, <1>21
     DEF Next, Request, Time, Continue, Fault

-----------------------------------------------------------------------------
(* The state of the running handler.                                        *)

LEMMA HandlerInit == Init => HandlerState
  BY DEF Init, HandlerState, Pending

LEMMA HandlerStep == TypeOK /\ HandlerState /\ [Next]_vars => HandlerState'
<1> SUFFICES ASSUME TypeOK, HandlerState, [Next]_vars
             PROVE  HandlerState'
  OBVIOUS
<1>1. ASSUME Idle, BeginCheck
      PROVE  HandlerState'
  BY <1>1 DEF Idle, BeginCheck, HandlerState, Pending
<1>2. ASSUME Idle, UNCHANGED <<pc, handler>>
      PROVE  HandlerState'
  BY <1>2 DEF Idle, handler, HandlerState, Pending
<1>3. ASSUME Rest
      PROVE  HandlerState'
  BY <1>3 DEF Rest, HandlerState, Pending
<1>4. ASSUME NEW c \in Cluster, BeginDissolve(c)
      PROVE  HandlerState'
  BY <1>4 DEF BeginDissolve, HandlerState
<1>5. ASSUME SweepResumes(snapshot')
      PROVE  HandlerState'
  BY <1>5 DEF SweepResumes, HandlerState, Pending
<1>6. ASSUME NEW w \in Worker, LeaveStart(w)
      PROVE  HandlerState'
  <2>1. CASE workers[w].cluster_id # 0
    <3>1. workers[w].cluster_id \in Cluster
      BY <2>1 DEF TypeOK, WorkerRow, Cluster
    <3>2. QED  BY <1>4, <1>6, <2>1, <3>1 DEF LeaveStart
  <2>2. CASE workers[w].cluster_id = 0
    BY <1>6, <2>2 DEF LeaveStart, HandlerState
  <2>3. QED  BY <2>1, <2>2
<1>7. ASSUME NEW m \in Model, FormCluster(m)
      PROVE  HandlerState'
  <2>1. NextCluster \in Cluster
    BY <1>7, NextClusterIsNew DEF FormCluster, CanForm
  <2>2. Batch(m) \in SUBSET Worker /\ Batch(m) # {}
    BY <1>7, BatchSuffices DEF FormCluster, CanForm
  <2>3. PICK c \in Cluster, S \in SUBSET Worker :
          /\ c = NextCluster /\ S = Batch(m) /\ S # {}
          /\ clusters' = [clusters EXCEPT ![c] = NewCluster(m)]
          /\ cur' = c /\ todo' = S /\ pc' = "assign" /\ snapshot' = snapshot
    BY <1>7, <2>1, <2>2 DEF FormCluster
  <2>4. \A w \in S : RingOf(S)[w] >= 0
    BY RingOfIsRing
  <2>5. NewCluster(m).status = "assembling" /\ NewCluster(m).ring = RingOf(S)
    BY <2>3 DEF NewCluster
  <2>6. clusters'[c].status = "assembling" /\ clusters'[c].ring = RingOf(S)
    BY <2>3, <2>5 DEF TypeOK
  <2>7. Pending(snapshot)' = {}
    BY <1>7, <2>3 DEF FormCluster, HandlerState, Pending
  <2>8. Active(cur)' /\ todo' # {} /\ todo' \subseteq Members(cur)'
    BY <2>3, <2>4, <2>6 DEF Active, Members
  <2>9. QED
    BY <2>3, <2>7, <2>8 DEF HandlerState
<1>8. CASE AssignMember
  <2>1. clusters' = clusters /\ snapshot' = snapshot /\ pc' \in {"assign", "check"}
        /\ todo' \subseteq todo /\ (pc' = "assign" => todo' # {} /\ cur' = cur)
        /\ pc = "assign"
    BY <1>8 DEF AssignMember
  <2>2. QED
    BY <2>1 DEF HandlerState, Pending, Active, Members
<1>9. ASSUME NEW w \in Worker, SweepWorker(w)
      PROVE  HandlerState'
  <2>1. CASE snapshot[w].cluster_id # 0
    <3>1. snapshot[w].cluster_id \in Cluster
      BY <2>1 DEF TypeOK, WorkerRow, Cluster
    <3>2. QED  BY <1>4, <1>9, <2>1, <3>1 DEF SweepWorker
  <2>2. CASE snapshot[w].cluster_id = 0
    BY <1>5, <1>9, <2>2 DEF SweepWorker
  <2>3. QED  BY <2>1, <2>2
<1>10. CASE Terminate
  <2>1. CASE leaver # 0
    BY <1>10, <2>1 DEF Terminate, HandlerState
  <2>2. CASE leaver = 0
    <3>1. SweepResumes(snapshot')
      BY <1>10, <2>2 DEF Terminate, SweepResumes
    <3>2. QED  BY <1>5, <3>1
  <2>3. QED  BY <2>1, <2>2
<1>11. CASE ReleaseMember
  BY <1>11 DEF ReleaseMember, HandlerState
<1>12. CASE SweepStart
  BY <1>12 DEF SweepStart, HandlerState
<1>13. CASE TeardownRaises
  <2>1. SweepResumes(snapshot')
    BY <1>13 DEF TeardownRaises, SweepResumes
  <2>2. QED  BY <1>5, <2>1
<1>14. CASE UNCHANGED vars
  BY <1>14 DEF vars, handler, HandlerState, Pending, Active, Members
<1>15. ASSUME NEW w \in Worker, Heartbeat(w)
       PROVE  HandlerState'
  BY <1>1, <1>2, <1>15 DEF Heartbeat
<1>16. CASE Request
  BY <1>1, <1>2, <1>6, <1>15, <1>16
     DEF Request, Register, Reregister, ReportReady, ReportLayers
<1>17. CASE Time
  BY <1>2, <1>12, <1>17 DEF Time, GraceElapses, HeartbeatExpires
<1>18. CASE Continue
  BY <1>3, <1>7, <1>8, <1>9, <1>10, <1>11, <1>18
     DEF Continue, SubnetsExhausted, CheckDone, DeleteWorker
<1>19. CASE Fault
  BY <1>3, <1>5, <1>13, <1>19 DEF Fault, HandlerDies, SweepSkips
<1>20. QED
  BY <1>14, <1>16, <1>17, <1>18, <1>19 DEF Next

-----------------------------------------------------------------------------
(* History.                                                                 *)

\* What a step other than FormCluster may do to a cluster row.
Kept(old, new) ==
  /\ old.status = "terminated" => new = old
  /\ old.status # "none" => new.status # "none"
  /\ new.status \in {"assembling", "live"} => old.status \in {"assembling", "live"}
  /\ new.model = old.model
  /\ new.subnet = old.subnet
  /\ new.ring = old.ring

\* Reports keep a cluster row.
LEMMA ReportsKeep ==
  ASSUME NEW row \in ClusterRow, NEW w \in Worker, row.status # "none"
  PROVE  Kept(row, WithDistribution(row)) /\ Kept(row, WithReady(row, w))
<1>1. ASSUME NEW r \in ClusterRow
      PROVE  /\ r.status # "none" => Gated(r).status # "none"
             /\ Gated(r).model = r.model
             /\ Gated(r).subnet = r.subnet /\ Gated(r).ring = r.ring
  BY DEF Gated, ClusterRow
<1>2. CASE row.status = "terminated"
  BY <1>2 DEF WithDistribution, WithReady, Kept
<1>3. CASE row.status # "terminated"
  <2> DEFINE d == [row EXCEPT !.reported = TRUE]
             r == [row EXCEPT !.ready = @ \cup {w}]
  <2>1. d \in ClusterRow /\ d.status = row.status /\ d.model = row.model
        /\ d.subnet = row.subnet /\ d.ring = row.ring
    BY DEF ClusterRow
  <2>2. r \in ClusterRow /\ r.status = row.status /\ r.model = row.model
        /\ r.subnet = row.subnet /\ r.ring = row.ring
    BY DEF ClusterRow
  <2>3. WithDistribution(row) = Gated(d) /\ WithReady(row, w) = Gated(r)
    BY <1>3 DEF WithDistribution, WithReady
  <2>4. row.status \in {"assembling", "live"}
    BY <1>3 DEF ClusterRow
  <2> HIDE DEF d, r
  <2>5. QED  BY <1>1, <1>3, <2>1, <2>2, <2>3, <2>4 DEF Kept
<1>4. QED  BY <1>2, <1>3

\* A report with a distribution keeps the row twice.
LEMMA KeptTwice ==
  ASSUME NEW x, NEW y, NEW z, Kept(x, y), Kept(y, z)
  PROVE  Kept(x, z)
  BY DEF Kept

\* Every step keeps every cluster row, or forms a cluster.
LEMMA RowsKept ==
  ASSUME TypeOK, Membership, HandlerState, [Next]_vars,
         ~ \E m \in Model : FormCluster(m)
  PROVE  \A c \in Cluster : Kept(clusters[c], clusters'[c])
<1> DEFINE AllKept == \A c \in Cluster : Kept(clusters[c], clusters'[c])
<1>1. ASSUME UNCHANGED clusters
      PROVE  AllKept
  BY <1>1 DEF Kept
<1>2. ASSUME NEW c \in Cluster, NEW new, Kept(clusters[c], new),
             clusters' = [clusters EXCEPT ![c] = new]
      PROVE  AllKept
  <2>1. ASSUME NEW d \in Cluster
        PROVE  Kept(clusters[d], clusters'[d])
    <3>1. CASE d = c
      BY <1>2, <3>1 DEF TypeOK
    <3>2. CASE d # c
      BY <1>2, <3>2 DEF TypeOK, Kept
    <3>3. QED  BY <3>1, <3>2
  <2>2. QED  BY <2>1
<1>3. ASSUME NEW w \in Worker, workers[w].cluster_id # 0
      PROVE  /\ workers[w].cluster_id \in Cluster
             /\ clusters[workers[w].cluster_id] \in ClusterRow
             /\ clusters[workers[w].cluster_id].status # "none"
  <2>1. workers[w].cluster_id \in Cluster
    BY <1>3 DEF TypeOK, WorkerRow, Cluster
  <2>2. QED  BY <1>3, <2>1 DEF Membership, Names, TypeOK
<1>4. ASSUME NEW w \in Worker, NEW b \in BOOLEAN, ReportReady(w, b)
      PROVE  AllKept
  <2> DEFINE c == workers[w].cluster_id
             told == IF b /\ workers[w].ring_position = 0
                     THEN WithDistribution(clusters[c]) ELSE clusters[c]
  <2>1. c \in Cluster /\ clusters[c] \in ClusterRow /\ clusters[c].status # "none"
    BY <1>3, <1>4 DEF ReportReady
  <2>2. clusters' = [clusters EXCEPT ![c] = WithReady(told, w)]
    BY <1>4 DEF ReportReady
  <2>3. Kept(clusters[c], clusters[c])
    BY DEF Kept
  <2>4. told \in ClusterRow /\ Kept(clusters[c], told)
    BY <2>1, <2>3, ReportsKeep, GateTypes
  <2> HIDE DEF told
  <2>5. told.status # "none"
    BY <2>1, <2>4 DEF Kept
  <2>6. Kept(clusters[c], WithReady(told, w))
    BY <2>4, <2>5, ReportsKeep, KeptTwice
  <2> HIDE DEF c
  <2>7. QED  BY <1>2, <2>1, <2>2, <2>6
<1>5. ASSUME NEW w \in Worker, ReportLayers(w)
      PROVE  AllKept
  <2> DEFINE c == workers[w].cluster_id
  <2>1. c \in Cluster /\ clusters[c] \in ClusterRow /\ clusters[c].status # "none"
    BY <1>3, <1>5 DEF ReportLayers
  <2>2. clusters' = [clusters EXCEPT ![c] = WithDistribution(clusters[c])]
    BY <1>5 DEF ReportLayers
  <2>3. Kept(clusters[c], WithDistribution(clusters[c]))
    BY <2>1, ReportsKeep
  <2> HIDE DEF c
  <2>4. QED  BY <1>2, <2>1, <2>2, <2>3
<1>6. ASSUME Terminate
      PROVE  AllKept
  <2>1. PICK c \in Cluster : c = cur
    BY <1>6 DEF Terminate, HandlerState
  <2> DEFINE new == [clusters[c] EXCEPT !.status = "terminated"]
  <2>2. clusters[c] \in ClusterRow
    BY DEF TypeOK
  <2>3. Kept(clusters[c], new)
    BY <2>2 DEF ClusterRow, Kept
  <2>4. clusters' = [clusters EXCEPT ![c] = new]
    BY <1>6, <2>1, <2>2 DEF Terminate, TypeOK, ClusterRow
  <2> HIDE DEF new
  <2>5. QED  BY <1>2, <2>3, <2>4
<1> HIDE DEF AllKept
<1>7. Request => AllKept
  BY <1>1, <1>4, <1>5 DEF Request, Register, Reregister, Heartbeat, LeaveStart
<1>8. Time => AllKept
  BY <1>1 DEF Time, GraceElapses, HeartbeatExpires, SweepStart
<1>9. Continue => AllKept
  BY <1>1, <1>6
     DEF Continue, SubnetsExhausted, CheckDone, AssignMember, SweepWorker,
         ReleaseMember, DeleteWorker
<1>10. Fault => AllKept
  BY <1>1 DEF Fault, HandlerDies, SweepSkips, TeardownRaises
<1>11. UNCHANGED vars => AllKept
  BY <1>1 DEF vars
<1>12. AllKept
  BY <1>7, <1>8, <1>9, <1>10, <1>11 DEF Next
<1>13. QED
  BY <1>12 DEF AllKept

\* FormCluster fills one row that was empty and leaves the others.
LEMMA FormsOne ==
  ASSUME TypeOK, NEW m \in Model, FormCluster(m)
  PROVE  \E c \in Cluster :
           /\ clusters[c].status = "none"
           /\ clusters'[c] = NewCluster(m)
           /\ \A d \in Cluster : d # c => clusters'[d] = clusters[d]
<1>1. NextCluster \in Cluster /\ clusters[NextCluster].status = "none"
  BY NextClusterIsNew DEF FormCluster, CanForm
<1>2. clusters' = [clusters EXCEPT ![NextCluster] = NewCluster(m)]
  BY DEF FormCluster
<1>3. PICK c \in Cluster : c = NextCluster
  BY <1>1
<1>4. QED
  BY <1>1, <1>2, <1>3 DEF TypeOK

LEMMA HistoryStep ==
  TypeOK /\ Membership /\ HandlerState /\ [Next]_vars => KeepsHistory
<1> SUFFICES ASSUME TypeOK, Membership, HandlerState, [Next]_vars
             PROVE  KeepsHistory
  OBVIOUS
<1>1. CASE \E m \in Model : FormCluster(m)
  BY <1>1, FormsOne DEF KeepsHistory
<1>2. CASE ~ \E m \in Model : FormCluster(m)
  BY <1>2, RowsKept DEF KeepsHistory, Kept
<1>3. QED  BY <1>1, <1>2

-----------------------------------------------------------------------------
(* Rows and memberships.                                                    *)

\* A row that fits the clusters fits them after any step that keeps history.
LEMMA NamesKept ==
  ASSUME TypeOK, KeepsHistory, NEW row \in WorkerRow, NEW w \in Worker,
         Names(row, w, clusters)
  PROVE  Names(row, w, clusters')
<1>1. CASE row.cluster_id = 0
  BY <1>1 DEF Names
<1>2. CASE row.cluster_id # 0
  <2>1. PICK c \in Cluster : c = row.cluster_id
    BY <1>2 DEF WorkerRow, Cluster
  <2>2. clusters[c].status # "none"
    BY <1>2, <2>1 DEF Names
  <2>3. clusters'[c].status # "none" /\ clusters'[c].subnet = clusters[c].subnet
        /\ clusters'[c].ring = clusters[c].ring
    BY <2>2 DEF KeepsHistory
  <2>4. QED  BY <1>2, <2>1, <2>3 DEF Names, AddressOf
<1>3. QED  BY <1>1, <1>2

\* A row with the seat of another that fits, fits.
LEMMA SameSeatNames ==
  ASSUME NEW row \in WorkerRow, NEW new \in WorkerRow, NEW w \in Worker,
         NEW table, Names(row, w, table),
         new.cluster_id = row.cluster_id, new.assigned_ip = row.assigned_ip,
         new.ring_position = row.ring_position,
         new.status \in {row.status, "waitlisted"}
  PROVE  Names(new, w, table)
  BY DEF Names

\* A row that names no cluster and holds no seat fits any clusters.
LEMMA FreeRowsName ==
  ASSUME NEW w, NEW table
  PROVE  /\ Names(Blank, w, table)
         /\ \A row \in WorkerRow : Names(Released(row), w, table)
<1>1. Names(Blank, w, table)
  BY DEF Names, Blank
<1>2. ASSUME NEW row \in WorkerRow
      PROVE  Names(Released(row), w, table)
  BY DEF Names, Released, WorkerRow
<1>3. QED  BY <1>1, <1>2

\* A step that writes one row at most, with one that fits, leaves all fitting.
LEMMA OneRowNames ==
  ASSUME TypeOK, KeepsHistory, Membership, NEW v, NEW new,
         workers' = [workers EXCEPT ![v] = new],
         v \in Worker => Names(new, v, clusters')
  PROVE  Membership'
<1>1. ASSUME NEW w \in Worker
      PROVE  Names(workers'[w], w, clusters')
  <2>1. CASE w = v
    BY <2>1 DEF TypeOK
  <2>2. CASE w # v
    <3>1. workers'[w] = workers[w] /\ workers[w] \in WorkerRow
      BY <2>2 DEF TypeOK
    <3>2. QED  BY <3>1, NamesKept DEF Membership
  <2>3. QED  BY <2>1, <2>2
<1>2. QED  BY <1>1 DEF Membership

LEMMA MembershipStep ==
  TypeOK /\ Membership /\ SnapshotNames /\ HandlerState /\ [Next]_vars
    => Membership'
<1> SUFFICES ASSUME TypeOK, Membership, SnapshotNames, HandlerState, [Next]_vars
             PROVE  Membership'
  OBVIOUS
<1>h. KeepsHistory
  BY HistoryStep
<1>1. ASSUME UNCHANGED workers
      PROVE  Membership'
  <2>1. ASSUME NEW w \in Worker
        PROVE  Names(workers'[w], w, clusters')
    BY <1>h, <1>1, NamesKept DEF Membership, TypeOK
  <2>2. QED  BY <2>1 DEF Membership
<1>2. ASSUME NEW w \in Worker, NEW new \in WorkerRow,
             workers' = [workers EXCEPT ![w] = new],
             new.cluster_id = workers[w].cluster_id,
             new.assigned_ip = workers[w].assigned_ip,
             new.ring_position = workers[w].ring_position,
             new.status \in {workers[w].status, "waitlisted"}
      PROVE  Membership'
  <2>1. workers[w] \in WorkerRow /\ Names(workers[w], w, clusters')
    BY <1>h, NamesKept DEF Membership, TypeOK
  <2>2. Names(new, w, clusters')
    BY <1>2, <2>1, SameSeatNames
  <2>3. QED  BY <1>h, <1>2, <2>2, OneRowNames
<1>3. ASSUME NEW a \in Account, NEW m \in Model, NEW mem \in Sizes,
             Register(a, m, mem)
      PROVE  Membership'
  <2> DEFINE new == [Blank EXCEPT !.status = "waitlisted", !.assignable = TRUE,
                                  !.account = a, !.model = m, !.memory = mem]
  <2>1. Names(new, created + 1, clusters')
    BY DEF Names, Blank
  <2>2. workers' = [workers EXCEPT ![created + 1] = new]
    BY <1>3 DEF Register
  <2> HIDE DEF new
  <2>3. QED  BY <1>h, <2>1, <2>2, OneRowNames
<1>4. ASSUME NEW w \in Worker, NEW m \in Model, NEW mem \in Sizes,
             Reregister(w, m, mem)
      PROVE  Membership'
  <2> DEFINE new == [workers[w] EXCEPT !.model = m, !.memory = mem,
                                       !.status = "waitlisted", !.online = FALSE]
  <2>1. workers[w] \in WorkerRow
    BY DEF TypeOK
  <2>2. new \in WorkerRow /\ new.cluster_id = workers[w].cluster_id
        /\ new.assigned_ip = workers[w].assigned_ip
        /\ new.ring_position = workers[w].ring_position /\ new.status = "waitlisted"
    BY <2>1, ModelAssumption DEF WorkerRow
  <2>3. workers' = [workers EXCEPT ![w] = new]
    BY <1>4, <2>1 DEF Reregister, WorkerRow, TypeOK
  <2> HIDE DEF new
  <2>4. QED  BY <1>2, <2>2, <2>3
<1>5. ASSUME NEW w \in Worker, Heartbeat(w)
      PROVE  Membership'
  <2> DEFINE b == IF workers[w].online THEN workers[w].assignable ELSE ~Grace
             new == [workers[w] EXCEPT !.online = TRUE, !.fresh = TRUE,
                                       !.assignable = b]
  <2>1. workers[w] \in WorkerRow
    BY DEF TypeOK
  <2>2. b \in BOOLEAN
    BY <2>1, BoundAssumption DEF WorkerRow
  <2>3. workers' = [workers EXCEPT ![w] = new]
    BY <1>5, <2>1 DEF Heartbeat, WorkerRow, TypeOK
  <2> HIDE DEF b
  <2>4. new \in WorkerRow /\ new.cluster_id = workers[w].cluster_id
        /\ new.assigned_ip = workers[w].assigned_ip
        /\ new.ring_position = workers[w].ring_position
        /\ new.status = workers[w].status
    BY <2>1, <2>2 DEF WorkerRow
  <2> HIDE DEF new
  <2>5. QED  BY <1>2, <2>3, <2>4
<1>6. ASSUME NEW w \in Worker, GraceElapses(w) \/ HeartbeatExpires(w)
      PROVE  Membership'
  <2> DEFINE woken == [workers[w] EXCEPT !.assignable = TRUE]
             stale == [workers[w] EXCEPT !.fresh = FALSE]
  <2>1. workers[w] \in WorkerRow
    BY DEF TypeOK
  <2>2. woken \in WorkerRow /\ woken.cluster_id = workers[w].cluster_id
        /\ woken.assigned_ip = workers[w].assigned_ip
        /\ woken.ring_position = workers[w].ring_position
        /\ woken.status = workers[w].status
    BY <2>1 DEF WorkerRow
  <2>3. stale \in WorkerRow /\ stale.cluster_id = workers[w].cluster_id
        /\ stale.assigned_ip = workers[w].assigned_ip
        /\ stale.ring_position = workers[w].ring_position
        /\ stale.status = workers[w].status
    BY <2>1 DEF WorkerRow
  <2>4. \/ workers' = [workers EXCEPT ![w] = woken]
        \/ workers' = [workers EXCEPT ![w] = stale]
    BY <1>6, <2>1 DEF GraceElapses, HeartbeatExpires, WorkerRow, TypeOK
  <2> HIDE DEF woken, stale
  <2>5. QED  BY <1>2, <2>2, <2>3, <2>4
<1>7. CASE AssignMember
  <2> DEFINE w == Min(todo)
             new == [workers[w] EXCEPT !.status = "assigned", !.cluster_id = cur,
                                       !.assigned_ip = AddressOf(clusters[cur], w),
                                       !.ring_position = clusters[cur].ring[w]]
  <2>1. workers' = [workers EXCEPT ![w] = new] /\ clusters' = clusters
    BY <1>7 DEF AssignMember
  <2>2. cur \in Cluster /\ Active(cur) /\ todo # {} /\ todo \subseteq Members(cur)
    BY <1>7 DEF AssignMember, HandlerState
  <2>3. todo \in SUBSET Nat
    BY DEF TypeOK, Worker
  <2>4. w \in Members(cur)
    BY <2>2, <2>3, MinIsLeast
  <2> HIDE DEF w
  <2>5. w \in Worker /\ clusters[cur].ring[w] >= 0 /\ clusters[cur].status # "none"
        /\ cur # 0 /\ workers[w] \in WorkerRow
    BY <2>2, <2>4, BoundAssumption DEF Members, Active, Cluster, TypeOK
  <2>6. new.cluster_id = cur /\ new.ring_position = clusters[cur].ring[w]
        /\ new.assigned_ip = AddressOf(clusters[cur], w)
    BY <2>5 DEF WorkerRow
  <2> HIDE DEF new
  <2>7. Names(new, w, clusters')
    BY <2>1, <2>5, <2>6 DEF Names
  <2>8. QED  BY <1>h, <2>1, <2>7, OneRowNames
<1>8. ASSUME NEW w \in Worker, SweepWorker(w)
      PROVE  Membership'
  <2> DEFINE new == [snapshot[w] EXCEPT !.online = FALSE]
  <2>1. snapshot[w] \in WorkerRow /\ Names(snapshot[w], w, clusters')
    BY <1>h, NamesKept DEF SnapshotNames, TypeOK
  <2>2. new \in WorkerRow /\ new.cluster_id = snapshot[w].cluster_id
        /\ new.assigned_ip = snapshot[w].assigned_ip
        /\ new.ring_position = snapshot[w].ring_position
        /\ new.status = snapshot[w].status
    BY <2>1 DEF WorkerRow
  <2>3. workers' = [workers EXCEPT ![w] = new]
    BY <1>8 DEF SweepWorker
  <2> HIDE DEF new
  <2>4. Names(new, w, clusters')
    BY <2>1, <2>2, SameSeatNames
  <2>5. QED  BY <1>h, <2>3, <2>4, OneRowNames
<1>9. CASE ReleaseMember
  <2>1. PICK w \in todo : workers' = [workers EXCEPT ![w] = Released(workers[w])]
    BY <1>9 DEF ReleaseMember
  <2>2. w \in Worker /\ workers[w] \in WorkerRow
    BY DEF TypeOK
  <2>3. Names(Released(workers[w]), w, clusters')
    BY <2>2, FreeRowsName
  <2>4. QED  BY <1>h, <2>1, <2>3, OneRowNames
<1>10. CASE DeleteWorker
  <2>1. workers' = [workers EXCEPT ![leaver] = Blank]
    BY <1>10 DEF DeleteWorker
  <2>2. Names(Blank, leaver, clusters')
    BY FreeRowsName
  <2>3. QED  BY <1>h, <2>1, <2>2, OneRowNames
<1>11. CASE Request
  BY <1>1, <1>3, <1>4, <1>5, <1>11 DEF Request, LeaveStart, ReportReady, ReportLayers
<1>12. CASE Time
  BY <1>1, <1>6, <1>12 DEF Time, SweepStart
<1>13. CASE Continue
  BY <1>1, <1>7, <1>8, <1>9, <1>10, <1>13
     DEF Continue, FormCluster, SubnetsExhausted, CheckDone, Terminate
<1>14. CASE Fault
  BY <1>1, <1>14 DEF Fault, HandlerDies, SweepSkips, TeardownRaises
<1>15. CASE UNCHANGED vars
  BY <1>1, <1>15 DEF vars
<1>16. QED
  BY <1>11, <1>12, <1>13, <1>14, <1>15 DEF Next

\* A step keeps, blanks, or reads a row of the snapshot.
LEMMA SnapshotStep ==
  TypeOK /\ Membership /\ SnapshotNames /\ HandlerState /\ [Next]_vars
    => SnapshotNames'
<1> SUFFICES ASSUME TypeOK, Membership, SnapshotNames, HandlerState, [Next]_vars
             PROVE  SnapshotNames'
  OBVIOUS
<1>h. KeepsHistory
  BY HistoryStep
<1>1. ASSUME \A w \in Worker : snapshot'[w] \in {snapshot[w], workers[w], Blank}
      PROVE  SnapshotNames'
  <2>1. ASSUME NEW w \in Worker
        PROVE  Names(snapshot'[w], w, clusters')
    <3>1. Names(snapshot[w], w, clusters') /\ Names(workers[w], w, clusters')
      BY <1>h, NamesKept DEF SnapshotNames, Membership, TypeOK
    <3>2. Names(Blank, w, clusters')
      BY FreeRowsName
    <3>3. QED  BY <1>1, <3>1, <3>2
  <2>2. QED  BY <2>1 DEF SnapshotNames
<1>2. ASSUME UNCHANGED snapshot \/ Rest \/ BeginCheck
      PROVE  SnapshotNames'
  BY <1>1, <1>2 DEF Rest, BeginCheck
<1>3. ASSUME NEW w \in Worker, snapshot' = [snapshot EXCEPT ![w] = Blank]
      PROVE  SnapshotNames'
  <2>1. \A v \in Worker : snapshot'[v] \in {snapshot[v], Blank}
    BY <1>3 DEF TypeOK
  <2>2. QED  BY <1>1, <2>1
<1>4. CASE SweepStart
  BY <1>1, <1>4 DEF SweepStart
<1>5. CASE Request
  BY <1>2, <1>5
     DEF Request, Register, Reregister, Heartbeat, LeaveStart, ReportReady,
         ReportLayers, handler
<1>6. CASE Time
  BY <1>2, <1>4, <1>6 DEF Time, GraceElapses, HeartbeatExpires, handler
<1>7. CASE Continue
  BY <1>2, <1>3, <1>7
     DEF Continue, FormCluster, SubnetsExhausted, CheckDone, AssignMember,
         SweepWorker, ReleaseMember, Terminate, DeleteWorker
<1>8. CASE Fault
  BY <1>2, <1>3, <1>8 DEF Fault, HandlerDies, SweepSkips, TeardownRaises
<1>9. CASE UNCHANGED vars
  BY <1>2, <1>9 DEF vars, handler
<1>10. QED
  BY <1>5, <1>6, <1>7, <1>8, <1>9 DEF Next

-----------------------------------------------------------------------------
(* Rings, gates and subnets.                                                *)

LEMMA SlotsStep ==
  TypeOK /\ Membership /\ HandlerState /\ SlotsDistinct /\ [Next]_vars
    => SlotsDistinct'
<1> SUFFICES ASSUME TypeOK, Membership, HandlerState, SlotsDistinct, [Next]_vars
             PROVE  SlotsDistinct'
  OBVIOUS
<1>1. CASE \E m \in Model : FormCluster(m)
  <2>1. PICK m \in Model : FormCluster(m)
    BY <1>1
  <2>2. PICK c \in Cluster :
          /\ clusters'[c] = NewCluster(m)
          /\ \A d \in Cluster : d # c => clusters'[d] = clusters[d]
    BY <2>1, FormsOne
  <2>3. Batch(m) \in SUBSET Worker
    BY <2>1, BatchSuffices DEF FormCluster, CanForm
  <2>4. NewCluster(m).ring = RingOf(Batch(m))
    BY DEF NewCluster
  <2>5. ASSUME NEW v \in Worker, NEW w \in Worker,
               NewCluster(m).ring[v] = NewCluster(m).ring[w],
               NewCluster(m).ring[v] >= 0
        PROVE  v = w
    BY <2>3, <2>4, <2>5, RingOfIsRing
  <2>6. ASSUME NEW d \in Cluster, NEW v \in Worker, NEW w \in Worker,
               clusters'[d].ring[v] = clusters'[d].ring[w],
               clusters'[d].ring[v] >= 0
        PROVE  v = w
    <3>1. CASE d = c
      BY <2>2, <2>5, <2>6, <3>1
    <3>2. CASE d # c
      BY <2>2, <2>6, <3>2 DEF SlotsDistinct
    <3>3. QED  BY <3>1, <3>2
  <2>7. QED  BY <2>6 DEF SlotsDistinct
<1>2. CASE ~ \E m \in Model : FormCluster(m)
  <2>1. \A c \in Cluster : clusters'[c].ring = clusters[c].ring
    BY <1>2, RowsKept DEF Kept
  <2>2. QED  BY <2>1 DEF SlotsDistinct
<1>3. QED  BY <1>1, <1>2

\* LiveGate, for one row.
Gate(row) ==
  row.status \in {"assembling", "live"} =>
    ((row.status = "live") <=>
       ((\A w \in Worker : row.ring[w] >= 0 => w \in row.ready) /\ row.reported))

LEMMA LiveGateIsGate == LiveGate <=> \A c \in Cluster : Gate(clusters[c])
  BY DEF LiveGate, Gate, Active, Members

\* Reports respect the gate.
LEMMA ReportsGate ==
  ASSUME NEW row \in ClusterRow, NEW w \in Worker, Gate(row)
  PROVE  Gate(WithDistribution(row)) /\ Gate(WithReady(row, w))
<1>1. ASSUME NEW r \in ClusterRow, r.status = row.status, r.ring = row.ring,
             row.ready \subseteq r.ready, row.reported => r.reported
      PROVE  Gate(Gated(r))
  <2> DEFINE open == (\A v \in Worker : r.ring[v] >= 0 => v \in r.ready) /\ r.reported
  <2>1. CASE open
    <3>1. Gated(r) = [r EXCEPT !.status = "live"]
      BY <2>1 DEF Gated
    <3>2. QED  BY <2>1, <3>1 DEF Gate, ClusterRow
  <2>2. CASE ~open
    <3>1. Gated(r) = r
      BY <2>2 DEF Gated
    <3>2. r.status # "live"
      BY <1>1, <2>2 DEF Gate
    <3>3. QED  BY <2>2, <3>1, <3>2 DEF Gate
  <2>3. QED  BY <2>1, <2>2
<1>2. CASE row.status = "terminated"
  BY <1>2 DEF WithDistribution, WithReady
<1>3. CASE row.status # "terminated"
  <2> DEFINE d == [row EXCEPT !.reported = TRUE]
             r == [row EXCEPT !.ready = @ \cup {w}]
  <2>1. d \in ClusterRow /\ d.status = row.status /\ d.ring = row.ring
        /\ row.ready \subseteq d.ready /\ (row.reported => d.reported)
    BY DEF ClusterRow
  <2>2. r \in ClusterRow /\ r.status = row.status /\ r.ring = row.ring
        /\ row.ready \subseteq r.ready /\ (row.reported => r.reported)
    BY DEF ClusterRow
  <2>3. WithDistribution(row) = Gated(d) /\ WithReady(row, w) = Gated(r)
    BY <1>3 DEF WithDistribution, WithReady
  <2> HIDE DEF d, r
  <2>4. Gate(Gated(d))
    BY <1>1, <2>1
  <2>5. Gate(Gated(r))
    BY <1>1, <2>2
  <2>6. QED  BY <2>3, <2>4, <2>5
<1>4. QED  BY <1>2, <1>3

LEMMA GateStep ==
  TypeOK /\ HandlerState /\ LiveGate /\ [Next]_vars => LiveGate'
<1> SUFFICES ASSUME TypeOK, HandlerState, LiveGate, [Next]_vars
             PROVE  LiveGate'
  OBVIOUS
<1>g. \A c \in Cluster : Gate(clusters[c])
  BY LiveGateIsGate
<1>1. ASSUME \A c \in Cluster : Gate(clusters'[c])
      PROVE  LiveGate'
  BY <1>1 DEF LiveGate, Gate, Active, Members
<1>2. ASSUME UNCHANGED clusters
      PROVE  LiveGate'
  BY <1>1, <1>2, <1>g
<1>3. ASSUME NEW c \in Cluster, NEW new, Gate(new),
             clusters' = [clusters EXCEPT ![c] = new]
      PROVE  LiveGate'
  <2>1. ASSUME NEW d \in Cluster
        PROVE  Gate(clusters'[d])
    <3>1. CASE d = c
      BY <1>3, <3>1 DEF TypeOK
    <3>2. CASE d # c
      BY <1>3, <1>g, <3>2 DEF TypeOK
    <3>3. QED  BY <3>1, <3>2
  <2>2. QED  BY <1>1, <2>1
<1>4. ASSUME NEW w \in Worker, NEW b \in BOOLEAN, ReportReady(w, b)
      PROVE  LiveGate'
  <2> DEFINE c == workers[w].cluster_id
             told == IF b /\ workers[w].ring_position = 0
                     THEN WithDistribution(clusters[c]) ELSE clusters[c]
  <2>1. c \in Cluster
    BY <1>4 DEF ReportReady, TypeOK, WorkerRow, Cluster
  <2>2. clusters[c] \in ClusterRow /\ Gate(clusters[c])
    BY <1>g, <2>1 DEF TypeOK
  <2>3. clusters' = [clusters EXCEPT ![c] = WithReady(told, w)]
    BY <1>4 DEF ReportReady
  <2>4. told \in ClusterRow /\ Gate(told)
    BY <2>2, GateTypes, ReportsGate
  <2> HIDE DEF told
  <2>5. Gate(WithReady(told, w))
    BY <2>4, ReportsGate
  <2> HIDE DEF c
  <2>6. QED  BY <1>3, <2>1, <2>3, <2>5
<1>5. ASSUME NEW w \in Worker, ReportLayers(w)
      PROVE  LiveGate'
  <2> DEFINE c == workers[w].cluster_id
  <2>1. c \in Cluster
    BY <1>5 DEF ReportLayers, TypeOK, WorkerRow, Cluster
  <2>2. Gate(WithDistribution(clusters[c]))
    BY <1>g, <2>1, ReportsGate DEF TypeOK
  <2>3. clusters' = [clusters EXCEPT ![c] = WithDistribution(clusters[c])]
    BY <1>5 DEF ReportLayers
  <2> HIDE DEF c
  <2>4. QED  BY <1>3, <2>1, <2>2, <2>3
<1>6. ASSUME Terminate
      PROVE  LiveGate'
  <2>1. PICK c \in Cluster : c = cur
    BY <1>6 DEF Terminate, HandlerState
  <2> DEFINE new == [clusters[c] EXCEPT !.status = "terminated"]
  <2>2. clusters[c] \in ClusterRow
    BY DEF TypeOK
  <2>3. Gate(new)
    BY <2>2 DEF ClusterRow, Gate
  <2>4. clusters' = [clusters EXCEPT ![c] = new]
    BY <1>6, <2>1, <2>2 DEF Terminate, TypeOK, ClusterRow
  <2> HIDE DEF new
  <2>5. QED  BY <1>3, <2>3, <2>4
<1>7. ASSUME NEW m \in Model, FormCluster(m)
      PROVE  LiveGate'
  <2>1. Gate(NewCluster(m))
    BY DEF Gate, NewCluster
  <2>2. PICK c \in Cluster :
          /\ clusters'[c] = NewCluster(m)
          /\ \A d \in Cluster : d # c => clusters'[d] = clusters[d]
    BY <1>7, FormsOne
  <2>3. ASSUME NEW d \in Cluster
        PROVE  Gate(clusters'[d])
    BY <1>g, <2>1, <2>2
  <2>4. QED  BY <1>1, <2>3
<1>8. CASE Request
  BY <1>2, <1>4, <1>5, <1>8 DEF Request, Register, Reregister, Heartbeat, LeaveStart
<1>9. CASE Time
  BY <1>2, <1>9 DEF Time, GraceElapses, HeartbeatExpires, SweepStart
<1>10. CASE Continue
  BY <1>2, <1>6, <1>7, <1>10
     DEF Continue, SubnetsExhausted, CheckDone, AssignMember, SweepWorker,
         ReleaseMember, DeleteWorker
<1>11. CASE Fault
  BY <1>2, <1>11 DEF Fault, HandlerDies, SweepSkips, TeardownRaises
<1>12. CASE UNCHANGED vars
  BY <1>2, <1>12 DEF vars
<1>13. QED
  BY <1>8, <1>9, <1>10, <1>11, <1>12 DEF Next

\* A row names a cluster only if it, or the row the sweep read, did before, or
\* if its handler is assigning it to that cluster, which is active.
LEMMA NamedBefore ==
  ASSUME TypeOK, HandlerState, [Next]_vars,
         NEW c \in Cluster, NEW w \in Worker, workers'[w].cluster_id = c
  PROVE  Held(c)
<1>z. c # 0
  BY BoundAssumption DEF Cluster
<1>1. ASSUME workers'[w].cluster_id \in
               {workers[w].cluster_id, snapshot[w].cluster_id, 0}
      PROVE  Held(c)
  BY <1>1, <1>z DEF Held
<1>2. ASSUME UNCHANGED workers
      PROVE  Held(c)
  BY <1>1, <1>2
<1>3. ASSUME NEW v, NEW new, workers' = [workers EXCEPT ![v] = new],
             v \in Worker =>
               new.cluster_id \in {workers[v].cluster_id, snapshot[v].cluster_id, 0}
      PROVE  Held(c)
  <2>1. CASE v = w
    BY <1>1, <1>3, <2>1 DEF TypeOK
  <2>2. CASE v # w
    BY <1>1, <1>3, <2>2 DEF TypeOK
  <2>3. QED  BY <2>1, <2>2
<1>r. \A v \in Worker : workers[v] \in WorkerRow /\ snapshot[v] \in WorkerRow
  BY DEF TypeOK
<1>4. ASSUME NEW a \in Account, NEW m \in Model, NEW mem \in Sizes,
             Register(a, m, mem)
      PROVE  Held(c)
  <2> DEFINE new == [Blank EXCEPT !.status = "waitlisted", !.assignable = TRUE,
                                  !.account = a, !.model = m, !.memory = mem]
  <2>1. new.cluster_id = 0
    BY DEF Blank
  <2>2. workers' = [workers EXCEPT ![created + 1] = new]
    BY <1>4 DEF Register
  <2> HIDE DEF new
  <2>3. QED  BY <1>3, <2>1, <2>2
<1>5. ASSUME NEW v \in Worker, NEW m \in Model, NEW mem \in Sizes,
             Reregister(v, m, mem)
      PROVE  Held(c)
  <2> DEFINE new == [workers[v] EXCEPT !.model = m, !.memory = mem,
                                       !.status = "waitlisted", !.online = FALSE]
  <2>1. new.cluster_id = workers[v].cluster_id
    BY <1>r DEF WorkerRow
  <2>2. workers' = [workers EXCEPT ![v] = new]
    BY <1>5, <1>r DEF Reregister, WorkerRow, TypeOK
  <2> HIDE DEF new
  <2>3. QED  BY <1>3, <2>1, <2>2
<1>6. ASSUME NEW v \in Worker, Heartbeat(v)
      PROVE  Held(c)
  <2> DEFINE b == IF workers[v].online THEN workers[v].assignable ELSE ~Grace
             new == [workers[v] EXCEPT !.online = TRUE, !.fresh = TRUE,
                                       !.assignable = b]
  <2>1. workers' = [workers EXCEPT ![v] = new]
    BY <1>6, <1>r DEF Heartbeat, WorkerRow, TypeOK
  <2> HIDE DEF b
  <2>2. new.cluster_id = workers[v].cluster_id
    BY <1>r DEF WorkerRow
  <2> HIDE DEF new
  <2>3. QED  BY <1>3, <2>1, <2>2
<1>7. ASSUME NEW v \in Worker, GraceElapses(v) \/ HeartbeatExpires(v)
      PROVE  Held(c)
  <2> DEFINE woken == [workers[v] EXCEPT !.assignable = TRUE]
             stale == [workers[v] EXCEPT !.fresh = FALSE]
  <2>1. woken.cluster_id = workers[v].cluster_id
        /\ stale.cluster_id = workers[v].cluster_id
    BY <1>r DEF WorkerRow
  <2>2. \/ workers' = [workers EXCEPT ![v] = woken]
        \/ workers' = [workers EXCEPT ![v] = stale]
    BY <1>7, <1>r DEF GraceElapses, HeartbeatExpires, WorkerRow, TypeOK
  <2> HIDE DEF woken, stale
  <2>3. QED  BY <1>3, <2>1, <2>2
<1>8. ASSUME AssignMember
      PROVE  Held(c)
  <2> DEFINE v == Min(todo)
             new == [workers[v] EXCEPT !.status = "assigned", !.cluster_id = cur,
                                       !.assigned_ip = AddressOf(clusters[cur], v),
                                       !.ring_position = clusters[cur].ring[v]]
  <2>1. workers' = [workers EXCEPT ![v] = new]
    BY <1>8 DEF AssignMember
  <2>2. cur \in Cluster /\ Active(cur) /\ todo # {}
    BY <1>8 DEF AssignMember, HandlerState
  <2>3. todo \in SUBSET Nat
    BY DEF TypeOK, Worker
  <2>4. v \in Worker
    BY <2>2, <2>3, MinIsLeast DEF TypeOK
  <2> HIDE DEF v
  <2>5. new.cluster_id = cur
    BY <1>r, <2>4 DEF WorkerRow
  <2> HIDE DEF new
  <2>6. CASE v = w
    <3>1. c = cur
      BY <2>1, <2>4, <2>5, <2>6 DEF TypeOK
    <3>2. QED  BY <2>2, <3>1 DEF Held
  <2>7. CASE v # w
    BY <1>1, <2>1, <2>7 DEF TypeOK
  <2>8. QED  BY <2>6, <2>7
<1>9. ASSUME NEW v \in Worker, SweepWorker(v)
      PROVE  Held(c)
  <2> DEFINE new == [snapshot[v] EXCEPT !.online = FALSE]
  <2>1. new.cluster_id = snapshot[v].cluster_id
    BY <1>r DEF WorkerRow
  <2>2. workers' = [workers EXCEPT ![v] = new]
    BY <1>9 DEF SweepWorker
  <2> HIDE DEF new
  <2>3. QED  BY <1>3, <2>1, <2>2
<1>10. ASSUME ReleaseMember
       PROVE  Held(c)
  <2>1. PICK v \in todo : workers' = [workers EXCEPT ![v] = Released(workers[v])]
    BY <1>10 DEF ReleaseMember
  <2>2. v \in Worker
    BY DEF TypeOK
  <2>3. Released(workers[v]).cluster_id = 0
    BY <1>r, <2>2 DEF Released, WorkerRow
  <2>4. QED  BY <1>3, <2>1, <2>3
<1>11. ASSUME DeleteWorker
       PROVE  Held(c)
  <2>1. workers' = [workers EXCEPT ![leaver] = Blank]
    BY <1>11 DEF DeleteWorker
  <2>2. Blank.cluster_id = 0
    BY DEF Blank
  <2>3. QED  BY <1>3, <2>1, <2>2
<1>12. CASE Request
  BY <1>2, <1>4, <1>5, <1>6, <1>12
     DEF Request, LeaveStart, ReportReady, ReportLayers
<1>13. CASE Time
  BY <1>2, <1>7, <1>13 DEF Time, SweepStart
<1>14. CASE Continue
  BY <1>2, <1>8, <1>9, <1>10, <1>11, <1>14
     DEF Continue, FormCluster, SubnetsExhausted, CheckDone, Terminate
<1>15. CASE Fault
  BY <1>2, <1>15 DEF Fault, HandlerDies, SweepSkips, TeardownRaises
<1>16. CASE UNCHANGED vars
  BY <1>2, <1>16 DEF vars
<1>17. QED
  BY <1>12, <1>13, <1>14, <1>15, <1>16 DEF Next

\* The snapshot names what it named before, or what its row names.
LEMMA ReadBefore ==
  ASSUME TypeOK, HandlerState, [Next]_vars,
         NEW c \in Cluster, NEW w \in Worker, snapshot'[w].cluster_id = c
  PROVE  Held(c)
<1>1. ASSUME snapshot'[w] \in {snapshot[w], workers[w], Blank}
      PROVE  Held(c)
  <2>1. Blank.cluster_id # c
    BY BoundAssumption DEF Blank, Cluster
  <2>2. QED  BY <1>1, <2>1 DEF Held
<1>2. ASSUME UNCHANGED snapshot \/ Rest \/ BeginCheck \/ SweepStart
      PROVE  Held(c)
  BY <1>1, <1>2 DEF Rest, BeginCheck, SweepStart
<1>3. ASSUME NEW v \in Worker, snapshot' = [snapshot EXCEPT ![v] = Blank]
      PROVE  Held(c)
  <2>1. snapshot'[w] \in {snapshot[w], Blank}
    BY <1>3 DEF TypeOK
  <2>2. QED  BY <1>1, <2>1
<1>4. CASE Request
  BY <1>2, <1>4
     DEF Request, Register, Reregister, Heartbeat, LeaveStart, ReportReady,
         ReportLayers, handler
<1>5. CASE Time
  BY <1>2, <1>5 DEF Time, GraceElapses, HeartbeatExpires, handler
<1>6. CASE Continue
  BY <1>2, <1>3, <1>6
     DEF Continue, FormCluster, SubnetsExhausted, CheckDone, AssignMember,
         SweepWorker, ReleaseMember, Terminate, DeleteWorker
<1>7. CASE Fault
  BY <1>2, <1>3, <1>7 DEF Fault, HandlerDies, SweepSkips, TeardownRaises
<1>8. CASE UNCHANGED vars
  BY <1>2, <1>8 DEF vars, handler
<1>9. QED
  BY <1>4, <1>5, <1>6, <1>7, <1>8 DEF Next

\* A cluster formed takes a subnet no cluster holds.
LEMMA FormsApart ==
  ASSUME TypeOK, Membership, HandlerState, NEW m \in Model, FormCluster(m),
         NEW d \in Cluster, Held(d)
  PROVE  NewCluster(m).subnet # clusters[d].subnet
<1>1. Min(FreeSubnets) \notin UsedSubnets
  BY NextSubnetIsFree DEF FormCluster
<1>2. NewCluster(m).subnet = Min(FreeSubnets)
  BY DEF NewCluster
<1>3. clusters[d].subnet \in UsedSubnets
  <2>1. CASE Active(d)
    BY <2>1 DEF UsedSubnets
  <2>2. ASSUME NEW w \in Worker, workers[w].cluster_id = d
        PROVE  clusters[d].subnet \in UsedSubnets
    <3>1. d # 0
      BY BoundAssumption DEF Cluster
    <3>2. workers[w].assigned_ip = <<clusters[d].subnet, clusters[d].ring[w] + 1>>
      BY <2>2, <3>1 DEF Membership, Names, AddressOf
    <3>3. workers[w].assigned_ip[1] = clusters[d].subnet
      BY <3>2
    <3>4. QED  BY <3>3 DEF UsedSubnets
  <2>3. ASSUME NEW w \in Worker
        PROVE  snapshot[w].cluster_id # d
    <3>1. Pending(snapshot) = {}
      BY DEF FormCluster, HandlerState
    <3>2. snapshot[w] = Blank
      BY <3>1 DEF Pending
    <3>3. QED  BY <3>2, BoundAssumption DEF Blank, Cluster
  <2>4. QED  BY <2>1, <2>2, <2>3 DEF Held
<1>4. QED  BY <1>1, <1>2, <1>3

LEMMA HeldStep ==
  TypeOK /\ Membership /\ HandlerState /\ HeldApart /\ [Next]_vars => HeldApart'
<1> SUFFICES ASSUME TypeOK, Membership, HandlerState, HeldApart, [Next]_vars
             PROVE  HeldApart'
  OBVIOUS
<1> DEFINE Was(c) == \/ Held(c)
                     \/ \E w \in Worker : \/ workers'[w].cluster_id = c
                                          \/ snapshot'[w].cluster_id = c
<1>1. ASSUME NEW c \in Cluster, Was(c)
      PROVE  Held(c)
  BY <1>1, NamedBefore, ReadBefore
<1>2. CASE \E m \in Model : FormCluster(m)
  <2>1. PICK m \in Model : FormCluster(m)
    BY <1>2
  <2>2. PICK c \in Cluster :
          /\ clusters'[c] = NewCluster(m)
          /\ \A d \in Cluster : d # c => clusters'[d] = clusters[d]
    BY <2>1, FormsOne
  <2>3. ASSUME NEW d \in Cluster, d # c, Held(d)'
        PROVE  Held(d)
    BY <1>1, <2>2, <2>3 DEF Held, Active
  <2>4. ASSUME NEW d \in Cluster, d # c, Held(d)'
        PROVE  clusters'[c].subnet # clusters'[d].subnet
    BY <2>1, <2>2, <2>3, <2>4, FormsApart
  <2>5. ASSUME NEW d \in Cluster, NEW e \in Cluster, Held(d)', Held(e)',
               clusters'[d].subnet = clusters'[e].subnet
        PROVE  d = e
    <3>1. CASE d = c \/ e = c
      BY <2>4, <2>5, <3>1
    <3>2. CASE d # c /\ e # c
      BY <2>2, <2>3, <2>5, <3>2 DEF HeldApart
    <3>3. QED  BY <3>1, <3>2
  <2>6. QED  BY <2>5 DEF HeldApart
<1>3. CASE ~ \E m \in Model : FormCluster(m)
  <2>1. \A c \in Cluster : Kept(clusters[c], clusters'[c])
    BY <1>3, RowsKept
  <2>2. ASSUME NEW c \in Cluster, Held(c)'
        PROVE  Held(c)
    BY <1>1, <2>1, <2>2 DEF Held, Active, Kept
  <2>3. ASSUME NEW d \in Cluster, NEW e \in Cluster, Held(d)', Held(e)',
               clusters'[d].subnet = clusters'[e].subnet
        PROVE  d = e
    BY <2>1, <2>2, <2>3 DEF HeldApart, Kept
  <2>4. QED  BY <2>3 DEF HeldApart
<1>4. QED  BY <1>2, <1>3

-----------------------------------------------------------------------------
(* The inductive invariant and what follows.                                *)

LEMMA IInvInit == Init => IInv
<1> SUFFICES ASSUME Init
             PROVE  IInv
  OBVIOUS
<1>1. TypeOK /\ HandlerState
  BY TypeInit, HandlerInit
<1>2. Membership /\ SnapshotNames
  BY FreeRowsName DEF Init, Membership, SnapshotNames
<1>3. ASSUME NEW c \in Cluster
      PROVE  clusters[c].status = "none" /\ clusters[c].ring = [w \in Worker |-> -1]
  <2>1. clusters[c] = Unformed
    BY DEF Init
  <2>2. Unformed.status = "none" /\ Unformed.ring = [w \in Worker |-> -1]
    BY DEF Unformed
  <2>3. QED  BY <2>1, <2>2
<1>4. SlotsDistinct
  <2>1. ASSUME NEW c \in Cluster, NEW w \in Worker
        PROVE  clusters[c].ring[w] = -1
    BY <1>3
  <2>2. ~ (-1 >= 0)
    OBVIOUS
  <2>3. QED  BY <2>1, <2>2 DEF SlotsDistinct
<1>5. \A c \in Cluster : ~Active(c)
  BY <1>3 DEF Active
<1>6. LiveGate
  BY <1>5 DEF LiveGate
<1>7. HeldApart
  <2>1. ASSUME NEW c \in Cluster, NEW w \in Worker
        PROVE  workers[w].cluster_id # c /\ snapshot[w].cluster_id # c
    BY BoundAssumption DEF Init, Blank, Cluster
  <2>2. QED  BY <1>5, <2>1 DEF HeldApart, Held
<1>8. QED
  BY <1>1, <1>2, <1>4, <1>6, <1>7 DEF IInv

LEMMA IInvStep == IInv /\ [Next]_vars => IInv'
  BY TypeStep, HandlerStep, MembershipStep, SnapshotStep, SlotsStep, HeldStep,
     GateStep DEF IInv

LEMMA AddressesApart == IInv => NoSharedIP
<1> SUFFICES ASSUME IInv, NEW v \in Worker, NEW w \in Worker,
                    workers[v].assigned_ip = workers[w].assigned_ip,
                    workers[v].assigned_ip # NoIP
             PROVE  v = w
  BY DEF NoSharedIP
<1>1. ASSUME NEW u \in Worker, workers[u].assigned_ip # NoIP
      PROVE  \E c \in Cluster :
               /\ Held(c)
               /\ workers[u].assigned_ip = <<clusters[c].subnet, clusters[c].ring[u] + 1>>
               /\ clusters[c].ring[u] >= 0
  <2>1. Names(workers[u], u, clusters) /\ workers[u] \in WorkerRow
    BY DEF IInv, Membership, TypeOK
  <2>2. workers[u].cluster_id # 0
    BY <1>1, <2>1 DEF Names
  <2>3. workers[u].cluster_id \in Cluster
    BY <2>1, <2>2 DEF WorkerRow, Cluster
  <2>4. Held(workers[u].cluster_id)
    BY DEF Held
  <2>5. QED  BY <2>1, <2>2, <2>3, <2>4 DEF Names, AddressOf
<1>2. PICK c \in Cluster :
        /\ Held(c)
        /\ workers[v].assigned_ip = <<clusters[c].subnet, clusters[c].ring[v] + 1>>
        /\ clusters[c].ring[v] >= 0
  BY <1>1
<1>3. PICK d \in Cluster :
        /\ Held(d)
        /\ workers[w].assigned_ip = <<clusters[d].subnet, clusters[d].ring[w] + 1>>
        /\ clusters[d].ring[w] >= 0
  BY <1>1
<1>4. /\ clusters[c].subnet = clusters[d].subnet
      /\ clusters[c].ring[v] + 1 = clusters[d].ring[w] + 1
  <2>1. ASSUME NEW s, NEW t, NEW i, NEW j, <<s, i>> = <<t, j>>
        PROVE  s = t /\ i = j
    BY <2>1
  <2>2. <<clusters[c].subnet, clusters[c].ring[v] + 1>>
          = <<clusters[d].subnet, clusters[d].ring[w] + 1>>
    BY <1>2, <1>3
  <2>3. QED  BY <2>1, <2>2
<1>5. c = d
  BY <1>2, <1>3, <1>4 DEF IInv, HeldApart
<1>6. clusters[c].ring[v] \in Int /\ clusters[d].ring[w] \in Int
  BY BoundAssumption DEF IInv, TypeOK, ClusterRow
<1>7. clusters[c].ring[v] = clusters[c].ring[w]
  BY <1>4, <1>5, <1>6
<1>8. QED
  BY <1>2, <1>7 DEF IInv, SlotsDistinct

LEMMA PoolInvariant == Spec => []IInv
  BY IInvInit, IInvStep, PTL DEF Spec

\* Whatever the requests, the faults and the bounds, every variable stays in
\* its domain.
THEOREM PoolTypes == Spec => []TypeOK
<1>1. IInv => TypeOK
  BY DEF IInv
<1>2. QED
  BY <1>1, PoolInvariant, PTL

\* The workers table and the membership rows agree between any two
\* transactions, through sweeps that write stale rows back, through
\* re-registrations and through crashes.
THEOREM PoolMembership == Spec => []Membership
<1>1. IInv => Membership
  BY DEF IInv
<1>2. QED
  BY <1>1, PoolInvariant, PTL

\* The scheduler never gives two clusters that are active the same subnet.
THEOREM PoolSubnets == Spec => []NoSharedSubnet
<1>1. IInv => NoSharedSubnet
  BY DEF IInv, HeldApart, Held, NoSharedSubnet
<1>2. QED
  BY <1>1, PoolInvariant, PTL

\* No two workers ever hold the same address.
THEOREM PoolAddresses == Spec => []NoSharedIP
  BY AddressesApart, PoolInvariant, PTL

\* A cluster is live exactly when its last report is in.
THEOREM PoolGate == Spec => []LiveGate
<1>1. IInv => LiveGate
  BY DEF IInv
<1>2. QED
  BY <1>1, PoolInvariant, PTL

\* A terminated cluster never changes, and no cluster changes its ring.
THEOREM PoolHistory == Spec => HistoryFrozen
<1>1. IInv /\ [Next]_vars => [KeepsHistory]_vars
  BY HistoryStep DEF IInv
<1>2. QED
  BY <1>1, PoolInvariant, PTL DEF Spec, HistoryFrozen

-----------------------------------------------------------------------------
(* What each step writes.                                                   *)

\* Heartbeats and time leave a row its seat, and put nobody offline.
LEMMA TimeWrites ==
  ASSUME TypeOK, NEW v \in Worker,
         Heartbeat(v) \/ GraceElapses(v) \/ HeartbeatExpires(v)
  PROVE  /\ \A w \in Worker \ {v} : workers'[w] = workers[w]
         /\ workers'[v].status = workers[v].status
         /\ workers'[v].cluster_id = workers[v].cluster_id
         /\ workers'[v].ring_position = workers[v].ring_position
         /\ workers'[v].model = workers[v].model
         /\ workers'[v].memory = workers[v].memory
         /\ workers[v].online => workers'[v].online
         /\ Heartbeat(v) => workers'[v].online
         /\ ~Heartbeat(v) => workers'[v].online = workers[v].online
         /\ Exists(v) \/ workers[v].online
<1>1. workers[v] \in WorkerRow
  BY DEF TypeOK
<1>2. CASE Heartbeat(v)
  <2> DEFINE b == IF workers[v].online THEN workers[v].assignable ELSE ~Grace
             new == [workers[v] EXCEPT !.online = TRUE, !.fresh = TRUE, !.assignable = b]
  <2>1. workers' = [workers EXCEPT ![v] = new]
    BY <1>2 DEF Heartbeat
  <2> HIDE DEF b
  <2>2. /\ new.status = workers[v].status /\ new.cluster_id = workers[v].cluster_id
        /\ new.ring_position = workers[v].ring_position /\ new.model = workers[v].model
        /\ new.memory = workers[v].memory /\ new.online = TRUE
    BY <1>1 DEF WorkerRow
  <2> HIDE DEF new
  <2>3. /\ \A w \in Worker \ {v} : workers'[w] = workers[w]
        /\ workers'[v] = new
    BY <2>1 DEF TypeOK
  <2>4. Exists(v)
    BY <1>2 DEF Heartbeat
  <2>5. QED
    BY <1>2, <2>2, <2>3, <2>4
<1>3. CASE GraceElapses(v) /\ ~Heartbeat(v)
  BY <1>1, <1>3 DEF GraceElapses, WorkerRow, TypeOK
<1>4. CASE HeartbeatExpires(v) /\ ~Heartbeat(v)
  BY <1>1, <1>4 DEF HeartbeatExpires, WorkerRow, TypeOK
<1>5. QED
  BY <1>2, <1>3, <1>4

\* A registration fills the next row.
LEMMA RegisterWrites ==
  ASSUME TypeOK, NEW a \in Account, NEW m \in Model, NEW mem \in Sizes,
         Register(a, m, mem)
  PROVE  /\ created + 1 \in Worker
         /\ \A w \in Worker \ {created + 1} : workers'[w] = workers[w]
         /\ workers'[created + 1].status = "waitlisted"
         /\ workers'[created + 1].cluster_id = 0
         /\ workers'[created + 1].online = FALSE
<1> DEFINE new == [Blank EXCEPT !.status = "waitlisted", !.assignable = TRUE,
                                !.account = a, !.model = m, !.memory = mem]
<1>1. created + 1 \in Worker
  BY BoundAssumption DEF Register, TypeOK, Worker
<1>2. workers' = [workers EXCEPT ![created + 1] = new]
  BY DEF Register
<1>3. new.status = "waitlisted" /\ new.cluster_id = 0 /\ new.online = FALSE
  BY DEF Blank
<1> HIDE DEF new
<1>4. QED
  BY <1>1, <1>2, <1>3 DEF TypeOK

\* A device that registers again keeps its cluster.
LEMMA ReregisterWrites ==
  ASSUME TypeOK, NEW v \in Worker, NEW m \in Model, NEW mem \in Sizes,
         Reregister(v, m, mem)
  PROVE  /\ \A w \in Worker \ {v} : workers'[w] = workers[w]
         /\ workers'[v].status = "waitlisted"
         /\ workers'[v].cluster_id = workers[v].cluster_id
<1>1. workers[v] \in WorkerRow
  BY DEF TypeOK
<1>2. QED
  BY <1>1 DEF Reregister, WorkerRow, TypeOK

\* A member is assigned to the cluster that is being formed.
LEMMA AssignWrites ==
  ASSUME TypeOK, HandlerState, AssignMember
  PROVE  \E v \in todo :
           /\ v \in Members(cur)
           /\ todo' = todo \ {v}
           /\ \A w \in Worker \ {v} : workers'[w] = workers[w]
           /\ workers'[v].status = "assigned"
           /\ workers'[v].cluster_id = cur
           /\ workers'[v].online = workers[v].online
           /\ workers'[v].model = workers[v].model
           /\ workers'[v].memory = workers[v].memory
<1> DEFINE v == Min(todo)
           new == [workers[v] EXCEPT !.status = "assigned", !.cluster_id = cur,
                                     !.assigned_ip = AddressOf(clusters[cur], v),
                                     !.ring_position = clusters[cur].ring[v]]
<1>1. todo # {} /\ todo \subseteq Members(cur) /\ todo \in SUBSET Nat
  BY DEF AssignMember, HandlerState, TypeOK, Worker
<1>2. v \in todo /\ v \in Members(cur) /\ v \in Worker
  BY <1>1, MinIsLeast DEF Members
<1>3. workers' = [workers EXCEPT ![v] = new] /\ todo' = todo \ {v}
  BY DEF AssignMember
<1>4. workers[v] \in WorkerRow
  BY <1>2 DEF TypeOK
<1>5. new.status = "assigned" /\ new.cluster_id = cur
      /\ new.online = workers[v].online /\ new.model = workers[v].model
      /\ new.memory = workers[v].memory
  BY <1>4 DEF WorkerRow
<1> HIDE DEF v, new
<1>6. QED
  BY <1>2, <1>3, <1>5 DEF TypeOK

\* The sweep writes back what it has read, offline.
LEMMA SweepWrites ==
  ASSUME TypeOK, NEW v \in Worker, SweepWorker(v)
  PROVE  /\ \A w \in Worker \ {v} : workers'[w] = workers[w]
         /\ workers'[v].status = snapshot[v].status
         /\ workers'[v].cluster_id = snapshot[v].cluster_id
         /\ workers'[v].online = FALSE
         /\ snapshot[v] # Blank
         /\ snapshot'[v] = Blank
         /\ \A w \in Worker \ {v} : snapshot'[w] = snapshot[w]
<1>1. snapshot[v] \in WorkerRow
  BY DEF TypeOK
<1>2. QED
  BY <1>1 DEF SweepWorker, Pending, WorkerRow, TypeOK

\* A member of the cluster that is torn down is released.
LEMMA ReleaseWrites ==
  ASSUME TypeOK, ReleaseMember
  PROVE  \E v \in todo :
           /\ todo' = todo \ {v}
           /\ \A w \in Worker \ {v} : workers'[w] = workers[w]
           /\ workers'[v].status = "waitlisted"
           /\ workers'[v].cluster_id = 0
           /\ workers'[v].online = workers[v].online
           /\ broken' = broken \cup ({workers[v].cluster_id} \ {0, cur})
<1>1. PICK v \in todo :
        /\ workers' = [workers EXCEPT ![v] = Released(workers[v])]
        /\ todo' = todo \ {v}
        /\ broken' = broken \cup ({workers[v].cluster_id} \ {0, cur})
  BY DEF ReleaseMember
<1>2. v \in Worker /\ workers[v] \in WorkerRow
  BY DEF TypeOK
<1>3. Released(workers[v]).status = "waitlisted" /\ Released(workers[v]).cluster_id = 0
      /\ Released(workers[v]).online = workers[v].online
  BY <1>2 DEF Released, WorkerRow
<1>4. QED
  BY <1>1, <1>2, <1>3 DEF TypeOK

LEMMA BlankRow ==
  /\ Blank.status = "absent" /\ Blank.online = FALSE /\ Blank.cluster_id = 0
  BY DEF Blank

-----------------------------------------------------------------------------
(* Rows in use.                                                             *)

LEMMA RowsInit == Init => RowsInUse
  BY DEF Init, RowsInUse, Exists, Blank

LEMMA RowsStep ==
  ASSUME TypeOK, HandlerState, RowsInUse, HandlerRows, [Next]_vars
  PROVE  RowsInUse'
<1> USE BlankRow
<1>1. ASSUME UNCHANGED <<workers, created>>,
             \A w \in Worker : snapshot'[w] \in {snapshot[w], Blank}
      PROVE  RowsInUse'
  BY <1>1 DEF RowsInUse, Exists
<1>2. ASSUME NEW v \in Worker, Exists(v), workers'[v].status # "absent",
             \A w \in Worker \ {v} : workers'[w] = workers[w],
             UNCHANGED created,
             \/ /\ Pending(snapshot) = {}
                /\ UNCHANGED snapshot
             \/ /\ workers'[v].cluster_id = 0 /\ UNCHANGED snapshot
             \/ /\ snapshot'[v] = Blank
                /\ \A w \in Worker \ {v} : snapshot'[w] = snapshot[w]
      PROVE  RowsInUse'
  BY <1>2 DEF RowsInUse, Exists, Pending
<1>3. Idle => Pending(snapshot) = {}
  BY DEF Idle, HandlerState
<1>4. ASSUME NEW a \in Account, NEW m \in Model, NEW mem \in Sizes, Register(a, m, mem)
      PROVE  RowsInUse'
  <2>1. created' = created + 1 /\ snapshot' = snapshot /\ Pending(snapshot) = {}
    BY <1>3, <1>4 DEF Register, BeginCheck
  <2>2. /\ created + 1 \in Worker /\ workers'[created + 1].status # "absent"
        /\ \A w \in Worker \ {created + 1} : workers'[w] = workers[w]
    BY <1>4, RegisterWrites
  <2>3. \A w \in Worker : snapshot'[w] = Blank
    BY <2>1 DEF Pending
  <2>4. \A w \in Worker : w > created + 1 => w > created /\ w # created + 1
    BY BoundAssumption DEF TypeOK, Worker
  <2>5. QED
    BY <2>1, <2>2, <2>3, <2>4 DEF RowsInUse, Exists
<1>5. ASSUME NEW v \in Worker, NEW m \in Model, NEW mem \in Sizes, Reregister(v, m, mem)
      PROVE  RowsInUse'
  BY <1>2, <1>3, <1>5, ReregisterWrites DEF Reregister, BeginCheck
<1>6. ASSUME NEW v \in Worker, Heartbeat(v) \/ GraceElapses(v) \/ HeartbeatExpires(v)
      PROVE  RowsInUse'
  <2>1. Exists(v)
    BY <1>6, TimeWrites DEF RowsInUse
  <2>2. UNCHANGED <<created, snapshot>> /\ Idle
    BY <1>6 DEF Heartbeat, GraceElapses, HeartbeatExpires, BeginCheck, handler
  <2>3. workers'[v].status # "absent" /\ \A w \in Worker \ {v} : workers'[w] = workers[w]
    BY <1>6, <2>1, TimeWrites DEF Exists
  <2>4. QED
    BY <1>2, <1>3, <2>1, <2>2, <2>3
<1>7. CASE SweepStart
  <2>1. \A w \in Worker :
          \/ snapshot'[w] = Blank
          \/ snapshot'[w] = workers[w] /\ workers[w].online
    BY <1>7 DEF SweepStart, Expired
  <2>2. UNCHANGED <<workers, created>>
    BY <1>7 DEF SweepStart
  <2>3. QED
    BY <2>1, <2>2 DEF RowsInUse, Exists
<1>8. CASE AssignMember
  <2>1. PICK v \in todo :
           /\ \A w \in Worker \ {v} : workers'[w] = workers[w]
           /\ workers'[v].status = "assigned"
    BY <1>8, AssignWrites
  <2>2. v \in Worker /\ workers[v].status = "waitlisted"
    BY <1>8 DEF HandlerRows, AssignMember, TypeOK
  <2>3. UNCHANGED <<created, snapshot>> /\ Pending(snapshot) = {}
    BY <1>8 DEF AssignMember, HandlerState
  <2>4. QED
    BY <1>2, <2>1, <2>2, <2>3 DEF Exists
<1>9. ASSUME NEW v \in Worker, SweepWorker(v)
      PROVE  RowsInUse'
  <2>1. UNCHANGED created
    BY <1>9 DEF SweepWorker
  <2>2. Exists(v) /\ snapshot[v].status # "absent"
    BY <1>9, SweepWrites DEF RowsInUse
  <2>3. QED
    BY <1>2, <1>9, <2>1, <2>2, SweepWrites
<1>10. CASE ReleaseMember
  <2>1. PICK v \in todo :
           /\ \A w \in Worker \ {v} : workers'[w] = workers[w]
           /\ workers'[v].status = "waitlisted"
           /\ workers'[v].cluster_id = 0
    BY <1>10, ReleaseWrites
  <2>2. v \in Worker /\ Exists(v)
    BY <1>10 DEF HandlerRows, ReleaseMember, TypeOK
  <2>3. UNCHANGED <<created, snapshot>>
    BY <1>10 DEF ReleaseMember
  <2>4. QED
    BY <1>2, <2>1, <2>2, <2>3
<1>11. CASE DeleteWorker
  <2>1. /\ \A w \in Worker : workers'[w] \in {workers[w], Blank}
        /\ \A w \in Worker : snapshot'[w] = Blank
        /\ UNCHANGED created
    BY <1>11 DEF DeleteWorker, Rest, TypeOK
  <2>2. QED
    BY <2>1 DEF RowsInUse, Exists
<1>12. ASSUME Rest, UNCHANGED <<workers, created>>
       PROVE  RowsInUse'
  BY <1>1, <1>12 DEF Rest
<1>13. ASSUME NEW v \in Worker, SweepSkips(v)
       PROVE  RowsInUse'
  BY <1>1, <1>13 DEF SweepSkips, TypeOK
<1>14. ASSUME UNCHANGED <<workers, created, snapshot>>
       PROVE  RowsInUse'
  BY <1>1, <1>14
<1>15. CASE Request
  BY <1>4, <1>5, <1>6, <1>14, <1>15
     DEF Request, LeaveStart, BeginDissolve, ReportReady, ReportLayers, handler
<1>16. CASE Time
  BY <1>6, <1>7, <1>16 DEF Time
<1>17. CASE Continue
  BY <1>8, <1>9, <1>10, <1>11, <1>12, <1>14, <1>17
     DEF Continue, FormCluster, SubnetsExhausted, CheckDone, Terminate
<1>18. CASE Fault
  BY <1>12, <1>13, <1>14, <1>18 DEF Fault, HandlerDies, TeardownRaises
<1>19. CASE UNCHANGED vars
  BY <1>14, <1>19 DEF vars, handler
<1>20. QED
  BY <1>15, <1>16, <1>17, <1>18, <1>19 DEF Next

-----------------------------------------------------------------------------
(* What the running handler still has to write.                             *)

LEMMA HandlerRowsInit == Init => HandlerRows
  BY DEF Init, HandlerRows

\* The cluster a row names is one of the clusters.
LEMMA NamedIsCluster ==
  ASSUME NEW row \in WorkerRow, row.cluster_id # 0
  PROVE  row.cluster_id \in Cluster
<1>1. row.cluster_id \in 0..MaxCluster
  BY DEF WorkerRow
<1>2. QED
  BY <1>1 DEF Cluster

\* A row that exists and names a cluster is among the members that a
\* dissolving of that cluster starts with.
LEMMA NamedIsMember ==
  ASSUME TypeOK, Membership, NEW w \in Worker, workers[w].cluster_id # 0
  PROVE  /\ workers[w].cluster_id \in Cluster
         /\ w \in Members(workers[w].cluster_id)
<1>1. workers[w].cluster_id \in Cluster
  BY NamedIsCluster DEF TypeOK
<1>2. QED
  BY <1>1 DEF Membership, Names, Members

LEMMA HandlerRowsStep ==
  ASSUME TypeOK, Membership, HandlerState, RowsInUse, HandlerRows, [Next]_vars
  PROVE  HandlerRows'
<1>1. ASSUME leaver' = 0, pc' \notin {"assign", "dissolve", "revoke"}
      PROVE  HandlerRows'
  BY <1>1 DEF HandlerRows
<1>2. pc \notin {"dissolve", "revoke"} => leaver = 0
  BY DEF HandlerRows
<1>3. ASSUME UNCHANGED <<workers, pc, todo, leaver>>
      PROVE  HandlerRows'
  BY <1>3 DEF HandlerRows, Exists
<1>4. ASSUME Rest
      PROVE  HandlerRows'
  BY <1>1, <1>4 DEF Rest
<1>5. ASSUME NEW w \in Worker, LeaveStart(w)
      PROVE  HandlerRows'
  <2>1. leaver' = w /\ workers' = workers /\ Exists(w)
    BY <1>5 DEF LeaveStart
  <2>2. CASE workers[w].cluster_id = 0
    <3>1. pc' = "revoke"
      BY <1>5, <2>2 DEF LeaveStart
    <3>2. QED
      BY <2>1, <2>2, <3>1, BoundAssumption DEF HandlerRows, Worker
  <2>3. CASE workers[w].cluster_id # 0
    <3>1. pc' = "dissolve" /\ todo' = {v \in Members(workers[w].cluster_id) : Exists(v)}
      BY <1>5, <2>3 DEF LeaveStart, BeginDissolve
    <3>2. w \in todo'
      BY <2>1, <2>3, <3>1, NamedIsMember
    <3>3. QED
      BY <2>1, <3>1, <3>2, BoundAssumption DEF HandlerRows, Worker, Exists
  <2>4. QED
    BY <2>2, <2>3
<1>6. ASSUME NEW m \in Model, FormCluster(m)
      PROVE  HandlerRows'
  <2>1. /\ Enough(m) # {} /\ pc = "check" /\ pc' = "assign" /\ todo' = Batch(m)
        /\ UNCHANGED <<workers, leaver>>
    BY <1>6 DEF FormCluster, CanForm
  <2>2. \A w \in Batch(m) : workers[w].status = "waitlisted"
    BY <2>1, BatchSuffices DEF Waitlist
  <2>3. QED
    BY <1>2, <2>1, <2>2 DEF HandlerRows
<1>7. CASE AssignMember
  <2>1. /\ pc = "assign" /\ leaver' = leaver /\ pc' \in {"assign", "check"}
    BY <1>7 DEF AssignMember
  <2>2. PICK v \in todo : /\ todo' = todo \ {v}
                          /\ \A w \in Worker \ {v} : workers'[w] = workers[w]
    BY <1>7, AssignWrites
  <2>3. \A w \in todo' : w \in Worker /\ workers'[w].status = "waitlisted"
    BY <2>1, <2>2 DEF HandlerRows, TypeOK
  <2>4. QED
    BY <1>2, <2>1, <2>3 DEF HandlerRows
<1>8. ASSUME NEW v \in Worker, SweepWorker(v)
      PROVE  HandlerRows'
  <2>1. pc = "sweep" /\ leaver' = leaver
    BY <1>8 DEF SweepWorker
  <2>2. /\ snapshot[v] # Blank /\ workers'[v].status = snapshot[v].status
        /\ \A w \in Worker \ {v} : workers'[w] = workers[w]
    BY <1>8, SweepWrites
  <2>3. CASE snapshot[v].cluster_id = 0
    <3>1. pc' \in {"idle", "sweep"}
      BY <1>8, <2>3 DEF SweepWorker, SweepResumes
    <3>2. QED
      BY <1>1, <1>2, <2>1, <3>1
  <2>4. CASE snapshot[v].cluster_id # 0
    <3>1. pc' = "dissolve" /\ todo' \subseteq {w \in Worker : Exists(w)}
      BY <1>8, <2>4 DEF SweepWorker, BeginDissolve, Members
    <3>2. \A w \in todo' : workers'[w].status # "absent"
      BY <2>2, <3>1 DEF RowsInUse, Exists
    <3>3. QED
      BY <1>2, <2>1, <3>1, <3>2 DEF HandlerRows, Exists
  <2>5. QED
    BY <2>3, <2>4
<1>9. CASE ReleaseMember
  <2>1. pc = "dissolve" /\ pc' = pc /\ leaver' = leaver
    BY <1>9 DEF ReleaseMember
  <2>2. PICK v \in todo : /\ todo' = todo \ {v}
                          /\ \A w \in Worker \ {v} : workers'[w] = workers[w]
                          /\ workers'[v].status = "waitlisted"
                          /\ workers'[v].cluster_id = 0
    BY <1>9, ReleaseWrites
  <2>3. \A w \in todo' : workers'[w].status # "absent"
    BY <2>1, <2>2 DEF HandlerRows, Exists, TypeOK
  <2>4. leaver # 0 => leaver \in Worker
    BY BoundAssumption DEF TypeOK, Worker
  <2>5. leaver # 0 => workers'[leaver].cluster_id = 0 \/ leaver \in todo'
    BY <2>2, <2>4 DEF HandlerRows
  <2>6. QED
    BY <2>1, <2>3, <2>5 DEF HandlerRows, Exists
<1>10. CASE Terminate
  <2>1. /\ todo = {} /\ UNCHANGED <<workers, leaver>>
        /\ IF leaver # 0 THEN pc' = "revoke" ELSE pc' \in {"idle", "sweep"}
    BY <1>10 DEF Terminate, SweepResumes
  <2>2. QED
    BY <2>1 DEF HandlerRows
<1>11. ASSUME NEW w \in Worker, SweepSkips(w)
       PROVE  HandlerRows'
  BY <1>1, <1>2, <1>11 DEF SweepSkips, SweepResumes
<1>12. CASE TeardownRaises
  BY <1>1, <1>12 DEF TeardownRaises, SweepResumes
<1>13. CASE Request
  <2>1. ASSUME Idle, BeginCheck
        PROVE  HandlerRows'
    BY <1>1, <1>2, <2>1 DEF Idle, BeginCheck
  <2>2. ASSUME UNCHANGED <<workers, pc, handler>>
        PROVE  HandlerRows'
    BY <1>3, <2>2 DEF handler
  <2>3. QED
    BY <1>5, <1>13, <2>1, <2>2
       DEF Request, Register, Reregister, Heartbeat, ReportReady, ReportLayers
<1>14. CASE Time
  BY <1>1, <1>2, <1>14
     DEF Time, GraceElapses, HeartbeatExpires, SweepStart, Idle, handler
<1>15. CASE Continue
  BY <1>4, <1>6, <1>7, <1>8, <1>9, <1>10, <1>15
     DEF Continue, SubnetsExhausted, CheckDone, DeleteWorker
<1>16. CASE Fault
  BY <1>4, <1>11, <1>12, <1>16 DEF Fault, HandlerDies
<1>17. CASE UNCHANGED vars
  BY <1>3, <1>17 DEF vars, handler
<1>18. QED
  BY <1>13, <1>14, <1>15, <1>16, <1>17 DEF Next

-----------------------------------------------------------------------------
(* Cluster ids that are not taken.                                          *)

LEMMA UntakenInit == Init => Untaken
  BY DEF Init, Untaken

LEMMA UntakenStep ==
  ASSUME TypeOK, Membership, HandlerState, Untaken, [Next]_vars
  PROVE  Untaken'
<1>1. ASSUME \A c \in Cluster : clusters'[c] = clusters[c] \/ clusters'[c].status # "none"
      PROVE  Untaken'
  BY <1>1 DEF Untaken
<1>2. ASSUME UNCHANGED clusters
      PROVE  Untaken'
  BY <1>1, <1>2
<1>3. ASSUME NEW w \in Worker, workers[w].cluster_id # 0, NEW new,
             clusters' = [clusters EXCEPT ![workers[w].cluster_id] = new],
             ~ \E m \in Model : FormCluster(m)
      PROVE  Untaken'
  <2>1. PICK d \in Cluster : d = workers[w].cluster_id
    BY <1>3, NamedIsCluster DEF TypeOK
  <2>2. clusters[d].status # "none"
    BY <1>3, <2>1 DEF Membership, Names
  <2>3. clusters'[d].status # "none"
    BY <1>3, <2>2, RowsKept DEF Kept
  <2>4. \A c \in Cluster \ {d} : clusters'[c] = clusters[c]
    BY <1>3, <2>1 DEF TypeOK
  <2>5. QED
    BY <1>1, <2>3, <2>4
<1>4. ASSUME NEW w \in Worker, NEW b \in BOOLEAN, ReportReady(w, b)
      PROVE  Untaken'
  <2>1. ~ \E m \in Model : FormCluster(m)
    BY <1>4 DEF ReportReady, Idle, FormCluster
  <2>2. /\ workers[w].cluster_id # 0
        /\ \E new : clusters' = [clusters EXCEPT ![workers[w].cluster_id] = new]
    BY <1>4 DEF ReportReady
  <2>3. QED
    BY <1>3, <2>1, <2>2
<1>5. ASSUME NEW w \in Worker, ReportLayers(w)
      PROVE  Untaken'
  <2>1. ~ \E m \in Model : FormCluster(m)
    BY <1>5 DEF ReportLayers, Idle, FormCluster
  <2>2. /\ workers[w].cluster_id # 0
        /\ \E new : clusters' = [clusters EXCEPT ![workers[w].cluster_id] = new]
    BY <1>5 DEF ReportLayers
  <2>3. QED
    BY <1>3, <2>1, <2>2
<1>6. ASSUME NEW m \in Model, FormCluster(m)
      PROVE  Untaken'
  <2>1. NewCluster(m).status # "none"
    BY DEF NewCluster
  <2>2. QED
    BY <1>1, <1>6, <2>1, FormsOne
<1>7. CASE Terminate
  <2>1. \A c \in Cluster : clusters'[c] = clusters[c] \/ clusters'[c].status = "terminated"
    BY <1>7 DEF Terminate, TypeOK, ClusterRow
  <2>2. QED
    BY <1>1, <2>1
<1>8. CASE Request
  BY <1>2, <1>4, <1>5, <1>8 DEF Request, Register, Reregister, Heartbeat, LeaveStart
<1>9. CASE Time
  BY <1>2, <1>9 DEF Time, GraceElapses, HeartbeatExpires, SweepStart
<1>10. CASE Continue
  BY <1>2, <1>6, <1>7, <1>10
     DEF Continue, SubnetsExhausted, CheckDone, AssignMember, SweepWorker,
         ReleaseMember, DeleteWorker
<1>11. CASE Fault
  BY <1>2, <1>11 DEF Fault, HandlerDies, SweepSkips, TeardownRaises
<1>12. CASE UNCHANGED vars
  BY <1>2, <1>12 DEF vars
<1>13. QED
  BY <1>8, <1>9, <1>10, <1>11, <1>12 DEF Next

-----------------------------------------------------------------------------
(* Clusters stay whole.                                                     *)

LEMMA StaysWholeInit == Init => StaysWhole
  BY DEF Init, StaysWhole, Active, Unformed

\* A cluster whose members all serve on, with the memory they had, is whole.
LEMMA WholeKept ==
  ASSUME NEW c \in Cluster, Whole(c),
         clusters'[c].ring = clusters[c].ring, clusters'[c].model = clusters[c].model,
         \A w \in Members(c) : Serves(w, c)' /\ workers'[w].memory = workers[w].memory
  PROVE  Whole(c)'
<1>1. Members(c)' = Members(c)
  BY DEF Members
<1>2. [w \in Members(c) |-> workers'[w].memory] = [w \in Members(c) |-> workers[w].memory]
  OBVIOUS
<1>3. Memory(Members(c))' = Memory(Members(c))
  BY <1>1, <1>2 DEF Memory
<1>4. QED
  BY <1>1, <1>3 DEF Whole

\* A new cluster is whole, its members about to be assigned.
LEMMA FormedWhole ==
  ASSUME TypeOK, NEW m \in Model, FormCluster(m), NEW c \in Cluster, c = NextCluster
  PROVE  Whole(c)'
<1>1. /\ Enough(m) # {}
      /\ clusters' = [clusters EXCEPT ![c] = NewCluster(m)]
      /\ pc' = "assign" /\ cur' = c /\ todo' = Batch(m) /\ workers' = workers
  BY DEF FormCluster, CanForm
<1>2. clusters'[c].ring = RingOf(Batch(m)) /\ clusters'[c].model = m
  BY <1>1 DEF NewCluster, TypeOK
<1>3. /\ Batch(m) \in SUBSET Waitlist(m) /\ Batch(m) \in SUBSET Worker /\ Batch(m) # {}
      /\ Memory(Batch(m)) >= Required[m]
  BY <1>1, BatchSuffices
<1>4. Members(c)' = Batch(m)
  BY <1>2, <1>3, RingOfIsRing DEF Members
<1>5. \A w \in Batch(m) : workers[w].online /\ workers[w].model = m
  BY <1>3 DEF Waitlist
<1>6. \A w \in Batch(m) : Serves(w, c)'
  BY <1>1, <1>2, <1>5 DEF Serves, Joining
<1>7. Memory(Members(c))' >= Required[clusters'[c].model]
  BY <1>1, <1>2, <1>3, <1>4 DEF Memory
<1>8. QED
  BY <1>3, <1>4, <1>6, <1>7 DEF Whole

\* A step that forms no cluster leaves the members of a whole cluster serving,
\* unless it tears the cluster down or breaks it.
LEMMA ServesKept ==
  ASSUME TypeOK, HandlerState, RowsInUse, HandlerRows, [Next]_vars,
         ~ \E m \in Model : FormCluster(m),
         NEW c \in Cluster, c \notin broken', ~Tearing(c), ~Tearing(c)', Whole(c),
         clusters'[c].model = clusters[c].model,
         NEW w \in Members(c)
  PROVE  Serves(w, c)' /\ workers'[w].memory = workers[w].memory
<1> DEFINE Stays == Serves(w, c)' /\ workers'[w].memory = workers[w].memory
<1>1. w \in Worker /\ Serves(w, c) /\ c # 0
  BY BoundAssumption DEF Whole, Members, Cluster
<1>2. ASSUME workers'[w] = workers[w], Joining(w, c) => Joining(w, c)'
      PROVE  Stays
  BY <1>1, <1>2 DEF Serves
<1>3. pc # "assign" => ~Joining(w, c)
  BY DEF Joining
<1>4. pc # "assign" => workers[w].cluster_id = c /\ workers[w].status = "assigned"
  BY <1>1, <1>3 DEF Serves
<1>5. ASSUME NEW a \in Account, NEW m \in Model, NEW mem \in Sizes, Register(a, m, mem)
      PROVE  Stays
  <2>1. pc # "assign"
    BY <1>5 DEF Register, Idle
  <2>2. created + 1 > created
    BY BoundAssumption DEF TypeOK
  <2>3. w # created + 1
    BY <1>1, <1>4, <2>1, <2>2 DEF RowsInUse, Exists
  <2>4. workers'[w] = workers[w]
    BY <1>1, <1>5, <2>3, RegisterWrites
  <2>5. QED
    BY <1>2, <1>3, <2>1, <2>4
<1>6. ASSUME NEW v \in Worker, NEW m \in Model, NEW mem \in Sizes, Reregister(v, m, mem)
      PROVE  Stays
  <2>1. pc # "assign" /\ broken' = broken \cup ({workers[v].cluster_id} \ {0})
    BY <1>6 DEF Reregister, Idle
  <2>2. w # v
    BY <1>1, <1>4, <2>1
  <2>3. workers'[w] = workers[w]
    BY <1>1, <1>6, <2>2, ReregisterWrites
  <2>4. QED
    BY <1>2, <1>3, <2>1, <2>3
<1>7. ASSUME NEW v \in Worker, Heartbeat(v) \/ GraceElapses(v) \/ HeartbeatExpires(v)
      PROVE  Stays
  <2>1. pc # "assign"
    BY <1>7 DEF Heartbeat, GraceElapses, HeartbeatExpires, Idle
  <2>2. CASE w = v
    BY <1>1, <1>4, <1>7, <2>1, <2>2, TimeWrites DEF Serves
  <2>3. CASE w # v
    BY <1>1, <1>2, <1>3, <1>7, <2>1, <2>3, TimeWrites
  <2>4. QED
    BY <2>2, <2>3
<1>8. CASE AssignMember
  <2>1. PICK v \in todo :
           /\ todo' = todo \ {v}
           /\ \A u \in Worker \ {v} : workers'[u] = workers[u]
           /\ workers'[v].status = "assigned"
           /\ workers'[v].cluster_id = cur
           /\ workers'[v].online = workers[v].online
           /\ workers'[v].model = workers[v].model
           /\ workers'[v].memory = workers[v].memory
    BY <1>8, AssignWrites
  <2>2. pc = "assign" /\ (todo' = {} \/ UNCHANGED <<pc, cur>>)
    BY <1>8 DEF AssignMember
  <2>3. CASE w = v
    <3>1. workers[w].status = "waitlisted"
      BY <2>1, <2>2, <2>3 DEF HandlerRows
    <3>2. Joining(w, c)
      BY <1>1, <3>1 DEF Serves
    <3>3. cur = c
      BY <3>2 DEF Joining
    <3>4. QED
      BY <1>1, <2>1, <2>3, <3>3 DEF Serves
  <2>4. CASE w # v
    <3>1. workers'[w] = workers[w]
      BY <1>1, <2>1, <2>4
    <3>2. Joining(w, c) => Joining(w, c)'
      BY <2>1, <2>2, <2>4 DEF Joining
    <3>3. QED
      BY <1>2, <3>1, <3>2
  <2>5. QED
    BY <2>3, <2>4
<1>9. ASSUME NEW v \in Worker, SweepWorker(v)
      PROVE  Stays
  <2>1. pc = "sweep" /\ snapshot[v] # Blank
    BY <1>9, SweepWrites DEF SweepWorker
  <2>2. ASSUME w = v
        PROVE  FALSE
    <3>1. snapshot[v].cluster_id = c
      BY <1>1, <1>4, <2>1, <2>2 DEF RowsInUse
    <3>2. pc' = "dissolve" /\ cur' = c
      BY <1>1, <1>9, <3>1 DEF SweepWorker, BeginDissolve
    <3>3. QED
      BY <3>2 DEF Tearing
  <2>3. workers'[w] = workers[w]
    BY <1>1, <1>9, <2>2, SweepWrites
  <2>4. QED
    BY <1>2, <1>3, <2>1, <2>3
<1>10. CASE ReleaseMember
  <2>1. PICK v \in todo :
           /\ \A u \in Worker \ {v} : workers'[u] = workers[u]
           /\ broken' = broken \cup ({workers[v].cluster_id} \ {0, cur})
    BY <1>10, ReleaseWrites
  <2>2. pc = "dissolve" /\ cur # c
    BY <1>10 DEF ReleaseMember, Tearing
  <2>3. w # v
    BY <1>1, <1>4, <2>1, <2>2
  <2>4. QED
    BY <1>1, <1>2, <1>3, <2>1, <2>2, <2>3
<1>11. CASE DeleteWorker
  <2>1. pc = "revoke" /\ workers' = [workers EXCEPT ![leaver] = Blank]
    BY <1>11 DEF DeleteWorker
  <2>2. workers[leaver].cluster_id = 0
    BY <2>1 DEF HandlerRows
  <2>3. workers'[w] = workers[w]
    BY <1>1, <1>4, <2>1, <2>2 DEF TypeOK
  <2>4. QED
    BY <1>2, <1>3, <2>1, <2>3
<1>12. ASSUME workers' = workers,
              \/ pc # "assign"
              \/ UNCHANGED <<pc, cur, todo>>
              \/ cur \in broken'
       PROVE  Stays
  BY <1>2, <1>3, <1>12 DEF Joining
<1> HIDE DEF Stays
<1>13. Request => Stays
  BY <1>5, <1>6, <1>7, <1>12 DEF Request, LeaveStart, ReportReady, ReportLayers, Idle
<1>14. Time => Stays
  BY <1>7, <1>12 DEF Time, SweepStart, Idle
<1>15. Continue => Stays
  <2>1. CheckDone \/ Terminate \/ (\E m \in Model : SubnetsExhausted(m))
          => workers' = workers /\ pc # "assign"
    BY DEF CheckDone, Terminate, SubnetsExhausted
  <2>2. QED
    BY <1>8, <1>9, <1>10, <1>11, <1>12, <2>1 DEF Continue, Stays
<1>16. Fault => Stays
  BY <1>12 DEF Fault, HandlerDies, SweepSkips, TeardownRaises, Severed
<1>17. UNCHANGED vars => Stays
  BY <1>12 DEF vars, handler
<1>18. Stays
  BY <1>13, <1>14, <1>15, <1>16, <1>17 DEF Next
<1>19. QED
  BY <1>18 DEF Stays

LEMMA BrokenGrows ==
  ASSUME [Next]_vars
  PROVE  broken \subseteq broken'
<1>1. Request => broken \subseteq broken'
  BY DEF Request, Register, Reregister, Heartbeat, LeaveStart, ReportReady, ReportLayers
<1>2. Time => broken \subseteq broken'
  BY DEF Time, GraceElapses, HeartbeatExpires, SweepStart
<1>3. Continue => broken \subseteq broken'
  BY DEF Continue, FormCluster, SubnetsExhausted, CheckDone, AssignMember, SweepWorker,
         ReleaseMember, Terminate, DeleteWorker
<1>4. Fault => broken \subseteq broken'
  BY DEF Fault, HandlerDies, SweepSkips, TeardownRaises
<1>5. UNCHANGED vars => broken \subseteq broken'
  BY DEF vars
<1>6. QED
  BY <1>1, <1>2, <1>3, <1>4, <1>5 DEF Next

\* A teardown ends with its cluster terminated, or broken.
LEMMA TeardownEnds ==
  ASSUME TypeOK, HandlerRows, [Next]_vars, NEW c \in Cluster, Tearing(c),
         ~Tearing(c)'
  PROVE  c \in broken' \/ clusters'[c].status = "terminated"
<1>1. pc = "dissolve" /\ cur = c /\ ~(pc' = "dissolve" /\ cur' = c)
  BY DEF Tearing
<1>2. ~Request
  BY <1>1
     DEF Request, Register, Reregister, Heartbeat, LeaveStart, ReportReady,
         ReportLayers, Idle
<1>3. ~Time
  BY <1>1 DEF Time, GraceElapses, HeartbeatExpires, SweepStart, Idle
<1>4. Continue => Terminate
  BY <1>1
     DEF Continue, FormCluster, SubnetsExhausted, CheckDone, AssignMember, SweepWorker,
         ReleaseMember, DeleteWorker
<1>5. Terminate => clusters'[c].status = "terminated"
  BY <1>1 DEF Terminate, TypeOK, ClusterRow
<1>6. Fault => c \in broken'
  BY <1>1 DEF Fault, HandlerDies, SweepSkips, TeardownRaises, Severed
<1>7. ~UNCHANGED vars
  BY <1>1 DEF vars, handler
<1>8. QED
  BY <1>2, <1>3, <1>4, <1>5, <1>6, <1>7 DEF Next

LEMMA StaysWholeStep ==
  ASSUME TypeOK, Membership, HandlerState, RowsInUse, HandlerRows, StaysWhole,
         [Next]_vars
  PROVE  StaysWhole'
<1> SUFFICES ASSUME NEW c \in Cluster, c \notin broken', Active(c)', ~Tearing(c)'
             PROVE  Whole(c)'
  BY DEF StaysWhole
<1>1. c \notin broken
  BY BrokenGrows
<1>2. CASE \E m \in Model : FormCluster(m)
  <2>1. PICK m \in Model : FormCluster(m)
    BY <1>2
  <2>2. CASE c = NextCluster
    BY <2>1, <2>2, FormedWhole
  <2>3. CASE c # NextCluster
    <3>1. /\ clusters'[c] = clusters[c] /\ pc = "check" /\ workers' = workers
      BY <2>1, <2>3 DEF FormCluster, TypeOK
    <3>2. Whole(c)
      BY <1>1, <3>1 DEF StaysWhole, Active, Tearing
    <3>3. \A w \in Members(c) : Serves(w, c)'
      BY <3>1, <3>2 DEF Whole, Serves, Joining
    <3>4. QED
      BY <3>1, <3>2, <3>3, WholeKept
  <2>4. QED
    BY <2>2, <2>3
<1>3. CASE ~ \E m \in Model : FormCluster(m)
  <2>1. /\ clusters'[c].model = clusters[c].model
        /\ clusters'[c].ring = clusters[c].ring
        /\ Active(c)
    BY <1>3, RowsKept DEF Kept, Active
  <2>2. ~Tearing(c)
    BY TeardownEnds DEF Active
  <2>3. Whole(c)
    BY <1>1, <2>1, <2>2 DEF StaysWhole
  <2>4. \A w \in Members(c) : Serves(w, c)' /\ workers'[w].memory = workers[w].memory
    BY <1>3, <2>1, <2>2, <2>3, ServesKept
  <2>5. QED
    BY <2>1, <2>3, <2>4, WholeKept
<1>4. QED
  BY <1>2, <1>3

-----------------------------------------------------------------------------
(* Without faults and re-registrations.                                     *)

\* A report leaves an active cluster active.
LEMMA ReportsLeaveActive ==
  ASSUME NEW row \in ClusterRow, NEW w \in Worker, row.status \in {"assembling", "live"}
  PROVE  /\ WithDistribution(row).status \in {"assembling", "live"}
         /\ WithReady(row, w).status \in {"assembling", "live"}
<1>1. ASSUME NEW r \in ClusterRow, r.status = row.status
      PROVE  Gated(r).status \in {"assembling", "live"}
  BY <1>1 DEF Gated, ClusterRow
<1>2. [row EXCEPT !.reported = TRUE] \in ClusterRow
      /\ [row EXCEPT !.reported = TRUE].status = row.status
  BY DEF ClusterRow
<1>3. [row EXCEPT !.ready = @ \cup {w}] \in ClusterRow
      /\ [row EXCEPT !.ready = @ \cup {w}].status = row.status
  BY DEF ClusterRow
<1>4. QED
  BY <1>1, <1>2, <1>3 DEF WithDistribution, WithReady

\* Only its own teardown ends a cluster.
LEMMA StaysActive ==
  ASSUME TypeOK, Membership, HandlerState, [Next]_vars,
         NEW c \in Cluster, Active(c), ~(Terminate /\ cur = c)
  PROVE  Active(c)'
<1>1. clusters[c] \in ClusterRow
  BY DEF TypeOK
<1>2. ASSUME clusters'[c] = clusters[c]
      PROVE  Active(c)'
  BY <1>2 DEF Active
<1>3. ASSUME NEW w \in Worker, NEW b \in BOOLEAN, ReportReady(w, b)
      PROVE  Active(c)'
  <2> DEFINE d == workers[w].cluster_id
             told == IF b /\ workers[w].ring_position = 0
                     THEN WithDistribution(clusters[d]) ELSE clusters[d]
  <2>1. clusters' = [clusters EXCEPT ![d] = WithReady(told, w)]
    BY <1>3 DEF ReportReady
  <2>2. CASE d = c
    <3>1. told \in ClusterRow /\ told.status \in {"assembling", "live"}
      BY <1>1, <2>2, ReportsLeaveActive, GateTypes DEF Active
    <3> HIDE DEF told
    <3>2. WithReady(told, w).status \in {"assembling", "live"}
      BY <3>1, ReportsLeaveActive
    <3>3. clusters'[c] = WithReady(told, w)
      BY <2>1, <2>2 DEF TypeOK
    <3>4. QED
      BY <3>2, <3>3 DEF Active
  <2>3. CASE d # c
    <3> HIDE DEF told
    <3>1. clusters'[c] = clusters[c]
      BY <2>1, <2>3 DEF TypeOK
    <3>2. QED
      BY <1>2, <3>1
  <2>4. QED
    BY <2>2, <2>3
<1>4. ASSUME NEW w \in Worker, ReportLayers(w)
      PROVE  Active(c)'
  <2> DEFINE d == workers[w].cluster_id
  <2>1. clusters' = [clusters EXCEPT ![d] = WithDistribution(clusters[d])]
    BY <1>4 DEF ReportLayers
  <2>2. CASE d = c
    BY <1>1, <2>1, <2>2, ReportsLeaveActive DEF Active, TypeOK
  <2>3. CASE d # c
    BY <1>2, <2>1, <2>3 DEF TypeOK
  <2>4. QED
    BY <2>2, <2>3
<1>5. ASSUME NEW m \in Model, FormCluster(m)
      PROVE  Active(c)'
  BY <1>2, <1>5, FormsOne DEF Active
<1>6. CASE Terminate
  BY <1>2, <1>6 DEF Terminate, TypeOK
<1>7. ASSUME UNCHANGED clusters
      PROVE  Active(c)'
  BY <1>2, <1>7
<1>8. CASE Request
  BY <1>3, <1>4, <1>7, <1>8 DEF Request, Register, Reregister, Heartbeat, LeaveStart
<1>9. CASE Time
  BY <1>7, <1>9 DEF Time, GraceElapses, HeartbeatExpires, SweepStart
<1>10. CASE Continue
  BY <1>5, <1>6, <1>7, <1>10
     DEF Continue, SubnetsExhausted, CheckDone, AssignMember, SweepWorker,
         ReleaseMember, DeleteWorker
<1>11. CASE Fault
  BY <1>7, <1>11 DEF Fault, HandlerDies, SweepSkips, TeardownRaises
<1>12. CASE UNCHANGED vars
  BY <1>7, <1>12 DEF vars
<1>13. QED
  BY <1>8, <1>9, <1>10, <1>11, <1>12 DEF Next

LEMMA FaultsGrow ==
  ASSUME TypeOK, [Next]_vars, faults' = 0
  PROVE  faults = 0 /\ ~Fault
<1>1. faults \in Nat
  BY BoundAssumption DEF TypeOK
<1>2. ~Fault
  BY <1>1 DEF Fault, HandlerDies, SweepSkips, TeardownRaises
<1>3. Request => faults' = faults
  BY DEF Request, Register, Reregister, Heartbeat, LeaveStart, ReportReady, ReportLayers
<1>4. Time => faults' = faults
  BY DEF Time, GraceElapses, HeartbeatExpires, SweepStart
<1>5. Continue => faults' = faults
  BY DEF Continue, FormCluster, SubnetsExhausted, CheckDone, AssignMember, SweepWorker,
         ReleaseMember, Terminate, DeleteWorker
<1>6. UNCHANGED vars => faults' = faults
  BY DEF vars
<1>7. QED
  BY <1>2, <1>3, <1>4, <1>5, <1>6 DEF Next

LEMMA UndisturbedInit == Init => Undisturbed
  BY BlankRow DEF Init, Undisturbed, NamesActive, ReleasesOwn, ReadWhole

LEMMA BrokenStays ==
  ASSUME TypeOK, Undisturbed, Restless = {}, [Next]_vars, ~Fault
  PROVE  broken' = {}
<1>1. Request => broken' = broken
  BY DEF Request, Register, Reregister, Heartbeat, LeaveStart, ReportReady, ReportLayers
<1>2. Time => broken' = broken
  BY DEF Time, GraceElapses, HeartbeatExpires, SweepStart
<1>3. CASE ReleaseMember
  <2>1. PICK v \in todo : broken' = broken \cup ({workers[v].cluster_id} \ {0, cur})
    BY <1>3, ReleaseWrites
  <2>2. workers[v].cluster_id \in {0, cur}
    BY <1>3, <2>1 DEF ReleaseMember, Undisturbed, ReleasesOwn
  <2>3. QED
    BY <2>1, <2>2 DEF Undisturbed
<1>4. Continue /\ ~ReleaseMember => broken' = broken
  BY DEF Continue, FormCluster, SubnetsExhausted, CheckDone, AssignMember, SweepWorker,
         Terminate, DeleteWorker
<1>5. UNCHANGED vars => broken' = broken
  BY DEF vars
<1>6. QED
  BY <1>1, <1>2, <1>3, <1>4, <1>5 DEF Next, Undisturbed

LEMMA NamesActiveStep ==
  ASSUME TypeOK, Membership, SnapshotNames, HandlerState, RowsInUse, HandlerRows,
         Undisturbed, Restless = {}, [Next]_vars, ~Fault
  PROVE  NamesActive'
<1> DEFINE Goal(w, c) == (Tearing(c)' => w \in todo') /\ (~Tearing(c)' => Active(c)')
<1> SUFFICES ASSUME NEW w \in Worker, NEW c \in Cluster, workers'[w].cluster_id = c
             PROVE  Goal(w, c)
  <2>1. \A w \in Worker : workers'[w] \in WorkerRow
    BY TypeStep DEF TypeOK
  <2>2. \A w \in Worker : workers'[w].cluster_id # 0 => workers'[w].cluster_id \in Cluster
    BY <2>1, NamedIsCluster
  <2>3. QED
    BY <2>2 DEF NamesActive, Tearing, Active
<1>1. ASSUME workers[w].cluster_id = c
      PROVE  /\ Tearing(c) => w \in todo
             /\ ~Tearing(c) => Active(c)
             /\ Exists(w) /\ w \in Members(c)
  <2>1. c # 0
    BY BoundAssumption DEF Cluster
  <2>2. Exists(w)
    BY <1>1, <2>1, BlankRow DEF RowsInUse
  <2>3. QED
    BY <1>1, <2>1, <2>2, NamedIsMember DEF Undisturbed, NamesActive
<1>2. ASSUME workers[w].cluster_id = c, pc # "dissolve", pc' # "dissolve"
      PROVE  Goal(w, c)
  BY <1>1, <1>2, StaysActive DEF Tearing, Terminate
<1>3. ASSUME workers[w].cluster_id = c, pc # "dissolve",
             NEW d \in Cluster, BeginDissolve(d)
      PROVE  Goal(w, c)
  <2>1. Active(c)'
    BY <1>1, <1>3, StaysActive DEF Tearing, Terminate
  <2>2. Tearing(c)' => w \in todo'
    BY <1>1, <1>3 DEF Tearing, BeginDissolve
  <2>3. QED
    BY <2>1, <2>2
<1> HIDE DEF Goal
<1>4. ASSUME NEW a \in Account, NEW m \in Model, NEW mem \in Sizes, Register(a, m, mem)
      PROVE  Goal(w, c)
  <2>1. pc # "dissolve" /\ pc' # "dissolve" /\ c # 0
    BY <1>4, BoundAssumption DEF Register, Idle, BeginCheck, Cluster
  <2>2. workers'[w] = workers[w]
    BY <1>4, <2>1, RegisterWrites
  <2>3. QED
    BY <1>2, <2>1, <2>2
<1>5. ASSUME NEW v \in Worker, Heartbeat(v) \/ GraceElapses(v) \/ HeartbeatExpires(v)
      PROVE  Goal(w, c)
  <2>1. pc # "dissolve" /\ pc' # "dissolve"
    BY <1>5 DEF Heartbeat, GraceElapses, HeartbeatExpires, Idle, BeginCheck
  <2>2. workers'[w].cluster_id = workers[w].cluster_id
    BY <1>5, TimeWrites
  <2>3. QED
    BY <1>2, <2>1, <2>2
<1>6. ASSUME NEW v \in Worker, LeaveStart(v)
      PROVE  Goal(w, c)
  <2>1. pc # "dissolve" /\ workers' = workers
    BY <1>6 DEF LeaveStart, Idle
  <2>2. CASE workers[v].cluster_id = 0
    BY <1>2, <1>6, <2>1, <2>2 DEF LeaveStart
  <2>3. CASE workers[v].cluster_id # 0
    BY <1>3, <1>6, <2>1, <2>3, NamedIsMember DEF LeaveStart
  <2>4. QED
    BY <2>2, <2>3
<1>7. CASE AssignMember
  <2>1. PICK v \in todo :
           /\ \A u \in Worker \ {v} : workers'[u] = workers[u]
           /\ workers'[v].cluster_id = cur
    BY <1>7, AssignWrites
  <2>2. pc = "assign" /\ pc' # "dissolve" /\ Active(cur)
    BY <1>7 DEF AssignMember, HandlerState
  <2>3. CASE w = v
    BY <2>1, <2>2, <2>3, StaysActive DEF Goal, Tearing, Terminate
  <2>4. CASE w # v
    BY <1>2, <2>1, <2>2, <2>4
  <2>5. QED
    BY <2>3, <2>4
<1>8. ASSUME NEW v \in Worker, SweepWorker(v)
      PROVE  Goal(w, c)
  <2>1. pc = "sweep" /\ snapshot[v] # Blank /\ c # 0
    <3>1. c # 0
      BY BoundAssumption DEF Cluster
    <3>2. pc = "sweep"
      BY <1>8 DEF SweepWorker
    <3>3. QED
      BY <1>8, <3>1, <3>2, SweepWrites
  <2>2. CASE w = v
    <3>1. snapshot[v].cluster_id = c
      BY <1>8, <2>2, SweepWrites
    <3>2. /\ pc' = "dissolve" /\ cur' = c
          /\ todo' = {u \in Members(c) : Exists(u)}
      BY <1>8, <2>1, <3>1 DEF SweepWorker, BeginDissolve
    <3>3. v \in Members(c) /\ Exists(v)
      BY <2>1, <3>1 DEF SnapshotNames, Names, Members, RowsInUse
    <3>4. QED
      BY <2>2, <3>2, <3>3 DEF Goal, Tearing
  <2>3. CASE w # v
    <3>1. workers[w].cluster_id = c
      BY <1>8, <2>3, SweepWrites
    <3>2. CASE snapshot[v].cluster_id = 0
      BY <1>2, <1>8, <2>1, <3>1, <3>2 DEF SweepWorker, SweepResumes
    <3>3. CASE snapshot[v].cluster_id # 0
      <4>1. PICK d \in Cluster : d = snapshot[v].cluster_id
        BY <3>3, NamedIsCluster DEF TypeOK
      <4>2. BeginDissolve(d)
        BY <1>8, <3>3, <4>1 DEF SweepWorker, BeginDissolve
      <4>3. QED
        BY <1>3, <2>1, <3>1, <4>2
    <3>4. QED
      BY <3>2, <3>3
  <2>4. QED
    BY <2>2, <2>3
<1>9. CASE ReleaseMember
  <2>1. PICK v \in todo :
           /\ todo' = todo \ {v}
           /\ \A u \in Worker \ {v} : workers'[u] = workers[u]
           /\ workers'[v].cluster_id = 0
    BY <1>9, ReleaseWrites
  <2>2. pc = "dissolve" /\ UNCHANGED <<pc, cur, clusters>> /\ c # 0
    BY <1>9, BoundAssumption DEF ReleaseMember, Cluster
  <2>3. w # v /\ workers[w].cluster_id = c
    BY <2>1, <2>2
  <2>4. QED
    BY <1>1, <2>1, <2>2, <2>3 DEF Goal, Tearing, Active
<1>10. CASE Terminate
  <2>1. pc = "dissolve" /\ todo = {} /\ pc' # "dissolve" /\ workers' = workers
    BY <1>10 DEF Terminate, SweepResumes
  <2>2. ~Tearing(c)
    BY <1>1, <2>1
  <2>3. Active(c) /\ cur # c
    BY <1>1, <2>1, <2>2 DEF Tearing
  <2>4. QED
    BY <2>1, <2>3, StaysActive DEF Goal, Tearing
<1>11. CASE DeleteWorker
  <2>1. /\ pc = "revoke" /\ pc' = "idle" /\ c # 0
        /\ workers' = [workers EXCEPT ![leaver] = Blank]
    BY <1>11, BoundAssumption DEF DeleteWorker, Rest, Cluster
  <2>2. workers'[w] = workers[w]
    BY <2>1, BlankRow DEF TypeOK
  <2>3. QED
    BY <1>2, <2>1, <2>2
<1>12. ASSUME workers' = workers, pc # "dissolve", pc' # "dissolve"
       PROVE  Goal(w, c)
  BY <1>2, <1>12
<1>13. Request => Goal(w, c)
  <2>1. (\E v \in Worker, m \in Model, mem \in Sizes : Reregister(v, m, mem)) => FALSE
    BY DEF Reregister
  <2>2. (\E v \in Worker, b \in BOOLEAN : ReportReady(v, b)) \/ (\E v \in Worker : ReportLayers(v))
          => workers' = workers /\ pc # "dissolve" /\ pc' # "dissolve"
    BY DEF ReportReady, ReportLayers, Idle
  <2>3. QED
    BY <1>4, <1>5, <1>6, <1>12, <2>1, <2>2 DEF Request
<1>14. Time => Goal(w, c)
  BY <1>5, <1>12 DEF Time, SweepStart, Idle
<1>15. Continue => Goal(w, c)
  <2>1. (\E m \in Model : FormCluster(m)) \/ (\E m \in Model : SubnetsExhausted(m)) \/ CheckDone
          => workers' = workers /\ pc # "dissolve" /\ pc' # "dissolve"
    BY DEF FormCluster, SubnetsExhausted, CheckDone, Rest
  <2>2. QED
    BY <1>7, <1>8, <1>9, <1>10, <1>11, <1>12, <2>1 DEF Continue
<1>16. UNCHANGED vars => Goal(w, c)
  BY <1>1 DEF vars, handler, Goal, Tearing, Active
<1>17. QED
  BY <1>13, <1>14, <1>15, <1>16 DEF Next

LEMMA ReleasesOwnStep ==
  ASSUME TypeOK, Membership, HandlerState, RowsInUse, HandlerRows, StaysWhole,
         Undisturbed, Restless = {}, [Next]_vars, ~Fault
  PROVE  ReleasesOwn'
<1>1. ASSUME pc' # "dissolve"
      PROVE  ReleasesOwn'
  BY <1>1 DEF ReleasesOwn
<1>2. ASSUME NEW v \in Worker, LeaveStart(v)
      PROVE  ReleasesOwn'
  <2>1. workers' = workers /\ pc = "idle"
    BY <1>2 DEF LeaveStart, Idle
  <2>2. CASE workers[v].cluster_id = 0
    BY <1>1, <1>2, <2>2 DEF LeaveStart
  <2>3. CASE workers[v].cluster_id # 0
    <3>1. PICK c \in Cluster : c = workers[v].cluster_id
      BY <2>3, NamedIsMember
    <3>2. Active(c) /\ ~Tearing(c)
      BY <2>1, <2>3, <3>1 DEF Undisturbed, NamesActive, Tearing
    <3>3. \A w \in Members(c) : workers[w].cluster_id = c
      BY <2>1, <3>2 DEF Undisturbed, StaysWhole, Whole, Serves, Joining
    <3>4. cur' = c /\ todo' \subseteq Members(c)
      BY <1>2, <2>3, <3>1 DEF LeaveStart, BeginDissolve
    <3>5. QED
      BY <2>1, <3>3, <3>4 DEF ReleasesOwn
  <2>4. QED
    BY <2>2, <2>3
<1>3. ASSUME NEW v \in Worker, SweepWorker(v)
      PROVE  ReleasesOwn'
  <2>1. CASE snapshot[v].cluster_id = 0
    BY <1>1, <1>3, <2>1 DEF SweepWorker, SweepResumes
  <2>2. CASE snapshot[v].cluster_id # 0
    <3>1. PICK c \in Cluster : c = snapshot[v].cluster_id
      BY <2>2, NamedIsCluster DEF TypeOK
    <3>2. \A w \in Members(c) : w \in Worker /\ workers[w].cluster_id \in {0, c}
      BY <2>2, <3>1 DEF Undisturbed, ReadWhole, Members
    <3>3. cur' = c /\ todo' \subseteq Members(c)
      BY <1>3, <2>2, <3>1 DEF SweepWorker, BeginDissolve
    <3>4. \A w \in Members(c) : workers'[w].cluster_id \in {0, c}
      BY <1>3, <3>1, <3>2, SweepWrites
    <3>5. QED
      BY <3>3, <3>4 DEF ReleasesOwn
  <2>3. QED
    BY <2>1, <2>2
<1>4. CASE ReleaseMember
  <2>1. PICK v \in todo :
           /\ todo' = todo \ {v}
           /\ \A u \in Worker \ {v} : workers'[u] = workers[u]
    BY <1>4, ReleaseWrites
  <2>2. pc = "dissolve" /\ UNCHANGED <<pc, cur>>
    BY <1>4 DEF ReleaseMember
  <2>3. \A u \in todo' : u \in Worker /\ workers'[u] = workers[u]
    BY <2>1 DEF TypeOK
  <2>4. QED
    BY <2>1, <2>2, <2>3 DEF Undisturbed, ReleasesOwn
<1>5. Request => ReleasesOwn'
  <2>1. ASSUME BeginCheck
        PROVE  ReleasesOwn'
    BY <1>1, <2>1 DEF BeginCheck
  <2>2. ASSUME Idle, UNCHANGED pc
        PROVE  ReleasesOwn'
    BY <1>1, <2>2 DEF Idle
  <2>3. QED
    BY <1>2, <2>1, <2>2
       DEF Request, Register, Reregister, Heartbeat, ReportReady, ReportLayers
<1>6. Time => ReleasesOwn'
  BY <1>1 DEF Time, GraceElapses, HeartbeatExpires, SweepStart, Idle
<1>7. Continue => ReleasesOwn'
  <2>1. Rest \/ AssignMember \/ Terminate => pc' # "dissolve"
    BY DEF Rest, AssignMember, Terminate, SweepResumes
  <2>2. (\E m \in Model : FormCluster(m)) \/ (\E m \in Model : SubnetsExhausted(m))
          \/ CheckDone \/ DeleteWorker
          => pc' # "dissolve"
    BY <2>1 DEF FormCluster, SubnetsExhausted, CheckDone, DeleteWorker
  <2>3. QED
    BY <1>1, <1>3, <1>4, <2>1, <2>2 DEF Continue
<1>8. UNCHANGED vars => ReleasesOwn'
  BY DEF Undisturbed, ReleasesOwn, vars, handler
<1>9. QED
  BY <1>5, <1>6, <1>7, <1>8 DEF Next

LEMMA ReadWholeStep ==
  ASSUME TypeOK, Membership, HandlerState, RowsInUse, HandlerRows, StaysWhole,
         Undisturbed, Restless = {}, [Next]_vars, ~Fault
  PROVE  ReadWhole'
<1>1. ASSUME \A w \in Worker : snapshot'[w] = Blank
      PROVE  ReadWhole'
  BY <1>1, BlankRow DEF ReadWhole
<1>2. pc \in {"idle", "check", "assign"} => \A w \in Worker : snapshot[w] = Blank
  BY DEF HandlerState, Pending
<1>3. ASSUME ~ \E m \in Model : FormCluster(m),
             \A w \in Worker : snapshot'[w] \in {snapshot[w], Blank},
             \A w \in Worker : workers'[w].cluster_id
                                 \in {0, workers[w].cluster_id, snapshot[w].cluster_id}
      PROVE  ReadWhole'
  <2> SUFFICES ASSUME NEW v \in Worker, NEW w \in Worker,
                      NEW c \in Cluster, snapshot'[v].cluster_id = c, w \in Members(c)'
               PROVE  workers'[w].cluster_id \in {0, c} /\ snapshot'[w].cluster_id \in {0, c}
    <3>1. \A v \in Worker : snapshot'[v] \in WorkerRow
      BY TypeStep DEF TypeOK
    <3>2. \A v \in Worker : snapshot'[v].cluster_id # 0 => snapshot'[v].cluster_id \in Cluster
      BY <3>1, NamedIsCluster
    <3>3. QED
      BY <3>2 DEF ReadWhole, Members
  <2>1. c # 0
    BY BoundAssumption DEF Cluster
  <2>2. w \in Members(c)
    BY <1>3, RowsKept DEF Kept, Members
  <2>3. snapshot[v].cluster_id = c
    BY <1>3, <2>1, BlankRow
  <2>4. workers[w].cluster_id \in {0, c} /\ snapshot[w].cluster_id \in {0, c}
    BY <2>1, <2>2, <2>3 DEF Undisturbed, ReadWhole
  <2>5. QED
    BY <1>3, <2>4, BlankRow
<1>4. CASE SweepStart
  <2>1. /\ pc = "idle" /\ workers' = workers /\ clusters' = clusters
        /\ \A w \in Worker : snapshot'[w] \in {workers[w], Blank}
    BY <1>4 DEF SweepStart, Idle
  <2> SUFFICES ASSUME NEW v \in Worker, NEW w \in Worker,
                      NEW c \in Cluster, snapshot'[v].cluster_id = c, w \in Members(c)'
               PROVE  workers'[w].cluster_id \in {0, c} /\ snapshot'[w].cluster_id \in {0, c}
    <3>1. \A v \in Worker : snapshot'[v] \in WorkerRow
      BY TypeStep DEF TypeOK
    <3>2. \A v \in Worker : snapshot'[v].cluster_id # 0 => snapshot'[v].cluster_id \in Cluster
      BY <3>1, NamedIsCluster
    <3>3. QED
      BY <3>2 DEF ReadWhole, Members
  <2>2. c # 0
    BY BoundAssumption DEF Cluster
  <2>3. workers[v].cluster_id = c /\ w \in Members(c)
    BY <2>1, <2>2, BlankRow DEF Members
  <2>4. Active(c) /\ ~Tearing(c)
    BY <2>1, <2>2, <2>3 DEF Undisturbed, NamesActive, Tearing
  <2>5. workers[w].cluster_id = c
    BY <2>1, <2>3, <2>4 DEF Undisturbed, StaysWhole, Whole, Serves, Joining
  <2>6. QED
    BY <2>1, <2>5, BlankRow
<1>5. ASSUME NEW v \in Worker, SweepWorker(v)
      PROVE  ReadWhole'
  <2>1. pc = "sweep"
    BY <1>5 DEF SweepWorker
  <2>2. ~ \E m \in Model : FormCluster(m)
    BY <2>1 DEF FormCluster
  <2>3. QED
    BY <1>3, <1>5, <2>2, SweepWrites
<1>6. CASE ReleaseMember
  <2>1. ~(\E m \in Model : FormCluster(m)) /\ snapshot' = snapshot
    BY <1>6 DEF ReleaseMember, FormCluster
  <2>2. \A w \in Worker : workers'[w].cluster_id \in {0, workers[w].cluster_id}
    BY <1>6, ReleaseWrites
  <2>3. QED
    BY <1>3, <2>1, <2>2
<1>7. CASE Terminate
  <2>1. ~(\E m \in Model : FormCluster(m)) /\ snapshot' = snapshot /\ workers' = workers
    BY <1>7 DEF Terminate, FormCluster
  <2>2. QED
    BY <1>3, <2>1
<1>8. ASSUME UNCHANGED snapshot, pc \in {"idle", "check", "assign"}
      PROVE  ReadWhole'
  BY <1>1, <1>2, <1>8
<1>9. ASSUME Rest
      PROVE  ReadWhole'
  BY <1>1, <1>9 DEF Rest
<1>10. Request => ReadWhole'
  <2>1. Request => UNCHANGED snapshot /\ pc = "idle"
    BY DEF Request, Register, Reregister, Heartbeat, LeaveStart, ReportReady,
           ReportLayers, BeginCheck, BeginDissolve, Idle, handler
  <2>2. QED
    BY <1>8, <2>1
<1>11. Time => ReadWhole'
  BY <1>4, <1>8 DEF Time, GraceElapses, HeartbeatExpires, Idle, handler
<1>12. Continue => ReadWhole'
  <2>1. (\E m \in Model : FormCluster(m)) \/ AssignMember
          => UNCHANGED snapshot /\ pc \in {"check", "assign"}
    BY DEF FormCluster, AssignMember
  <2>2. (\E m \in Model : SubnetsExhausted(m)) \/ CheckDone \/ DeleteWorker => Rest
    BY DEF SubnetsExhausted, CheckDone, DeleteWorker
  <2>3. QED
    BY <1>5, <1>6, <1>7, <1>8, <1>9, <2>1, <2>2 DEF Continue
<1>13. UNCHANGED vars => ReadWhole'
  BY DEF Undisturbed, ReadWhole, Members, vars, handler
<1>14. QED
  BY <1>10, <1>11, <1>12, <1>13 DEF Next

-----------------------------------------------------------------------------
(* Theorem.                                                                 *)

LEMMA WInvInit == Init => WInv
  BY RowsInit, UntakenInit, HandlerRowsInit, StaysWholeInit, UndisturbedInit DEF WInv

LEMMA WInvStep == IInv /\ WInv /\ [Next]_vars => WInv'
<1> SUFFICES ASSUME IInv, WInv, [Next]_vars
             PROVE  WInv'
  OBVIOUS
<1> USE DEF IInv, WInv
<1>1. RowsInUse' /\ Untaken'
  BY RowsStep, UntakenStep
<1>2. HandlerRows'
  BY HandlerRowsStep
<1>3. StaysWhole'
  BY StaysWholeStep
<1>4. ASSUME faults' = 0, Restless = {}
      PROVE  Undisturbed'
  <2>1. faults = 0 /\ ~Fault
    BY <1>4, FaultsGrow
  <2>2. Undisturbed
    BY <1>4, <2>1
  <2>3. broken' = {}
    BY <1>4, <2>1, <2>2, BrokenStays
  <2>4. NamesActive'
    BY <1>4, <2>1, <2>2, NamesActiveStep
  <2>5. ReleasesOwn'
    BY <1>4, <2>1, <2>2, ReleasesOwnStep
  <2>6. ReadWhole'
    BY <1>4, <2>1, <2>2, ReadWholeStep
  <2>7. QED
    BY <2>3, <2>4, <2>5, <2>6 DEF Undisturbed
<1>5. QED
  BY <1>1, <1>2, <1>3, <1>4

\* Between handlers every cluster that no fault and no re-registration has
\* touched has all its members, online, assigned to it and of its model, and
\* with them the memory the model needs; and without faults and
\* re-registrations that is every cluster.
THEOREM PoolWhole == Spec => []MemberIntact
<1>1. WInv => MemberIntact
  <2> SUFFICES ASSUME WInv PROVE MemberIntact
    OBVIOUS
  <2>1. faults = 0 /\ Restless = {} => broken = {}
    BY DEF WInv, Undisturbed
  <2>2. ASSUME Idle, NEW c \in Cluster \ broken, Active(c)
        PROVE  Whole(c) /\ \A w \in Worker : ~Joining(w, c)
    BY <2>2 DEF WInv, StaysWhole, Tearing, Joining, Idle
  <2>3. QED
    BY <2>1, <2>2 DEF MemberIntact, Whole, Serves, Members
<1>2. IInv /\ WInv /\ [Next]_vars => (IInv /\ WInv)'
  BY IInvStep, WInvStep
<1>3. Init => IInv /\ WInv
  BY IInvInit, WInvInit
<1>4. QED
  BY <1>1, <1>2, <1>3, PTL DEF Spec

-----------------------------------------------------------------------------
(* The refinement.                                                          *)

Serving(c) == Active(c) /\ ~Tearing(c)

\* The place of a worker is the cluster in service that it is a member of, and
\* members are online.
Placed ==
  \A w \in Worker :
    /\ Place(w) \in Cluster \cup {0}
    /\ \A c \in Cluster : Place(w) = c <=> Serving(c) /\ w \in Members(c)
    /\ Place(w) # 0 => workers[w].online

\* Nothing has disturbed the pool.
Calm == IInv /\ WInv /\ Undisturbed

LEMMA CalmIsPlaced == Calm => Placed
<1> SUFFICES ASSUME Calm, NEW w \in Worker
             PROVE  /\ Place(w) \in Cluster \cup {0}
                    /\ \A c \in Cluster : Place(w) = c <=> Serving(c) /\ w \in Members(c)
                    /\ Place(w) # 0 => workers[w].online
  BY DEF Placed
<1> USE DEF Calm, IInv, WInv
<1>1. 0 \notin Cluster
  BY BoundAssumption DEF Cluster
<1>2. ASSUME NEW c \in Cluster, Serving(c), w \in Members(c)
      PROVE  Place(w) = c /\ workers[w].online
  <2>1. Serves(w, c)
    BY <1>2 DEF Undisturbed, StaysWhole, Whole, Serving
  <2>2. CASE Joining(w, c)
    BY <2>1, <2>2 DEF Serves, Joining, Place
  <2>3. CASE ~Joining(w, c)
    <3>1. workers[w].cluster_id = c /\ workers[w].status = "assigned"
      BY <2>1, <2>3 DEF Serves
    <3>2. ~(pc = "assign" /\ w \in todo)
      BY <3>1 DEF HandlerRows
    <3>3. ~Ending(c)
      BY <1>2 DEF Serving, Active, Tearing, Ending
    <3>4. QED
      BY <1>1, <2>1, <3>1, <3>2, <3>3 DEF Place, Serves
  <2>4. QED
    BY <2>2, <2>3
<1>3. ASSUME Place(w) # 0
      PROVE  /\ Place(w) \in Cluster /\ Serving(Place(w)) /\ w \in Members(Place(w))
  <2>1. CASE pc = "assign" /\ w \in todo
    BY <2>1 DEF Place, HandlerState, Serving, Tearing
  <2>2. CASE ~(pc = "assign" /\ w \in todo)
    <3>1. PICK c \in Cluster : /\ c = workers[w].cluster_id /\ c = Place(w)
                               /\ ~Ending(c) /\ w \in Members(c)
      BY <1>3, <2>2, NamedIsMember DEF Place
    <3>2. Active(c)
      BY <1>1, <3>1 DEF Undisturbed, NamesActive, Tearing, Ending
    <3>3. QED
      BY <3>1, <3>2 DEF Serving, Tearing, Ending
  <2>3. QED
    BY <2>1, <2>2
<1>4. QED
  BY <1>1, <1>2, <1>3

\* What the contract calls an active cluster.
LEMMA ContractActive ==
  ASSUME NEW c \in Cluster
  PROVE  Contract!Active(c) <=> Serving(c)
BY DEF Contract!Active, Serving, Active, Tearing, Ending

LEMMA CalmServesWhole == Calm => ServesWhole
<1> SUFFICES ASSUME Calm
             PROVE  ServesWhole
  OBVIOUS
<1>1. \A c \in Cluster, w \in Worker :
        /\ Place(w) = c <=> Contract!Active(c) /\ w \in Members(c)
        /\ Place(w) = c => workers[w].online
  BY CalmIsPlaced, ContractActive, BoundAssumption DEF Placed, Cluster
<1>2. QED
  BY <1>1 DEF ServesWhole, Contract!Wholeness

-----------------------------------------------------------------------------
(* Steps that the contract does not see.                                    *)

\* What the contract sees of a cluster.
ClustersSame ==
  \A c \in Cluster :
    /\ Ending(c)' <=> Ending(c)
    /\ ~Ending(c) => clusters'[c].status = clusters[c].status
    /\ clusters'[c].ring = clusters[c].ring
    /\ clusters'[c].ready = clusters[c].ready
    /\ clusters'[c].reported = clusters[c].reported

LEMMA PlacesSame ==
  ASSUME Placed, Placed', ClustersSame
  PROVE  \A w \in Worker : Place(w)' = Place(w)
<1>1. \A c \in Cluster : /\ Serving(c)' <=> Serving(c)
                         /\ Members(c)' = Members(c)
  BY DEF ClustersSame, Serving, Active, Tearing, Ending, Members
<1>2. ASSUME NEW w \in Worker
      PROVE  Place(w)' = Place(w)
  BY <1>1 DEF Placed
<1>3. QED
  BY <1>2

LEMMA Stutters ==
  ASSUME Placed, Placed', ClustersSame, \A w \in Worker : workers'[w].online = workers[w].online
  PROVE  UNCHANGED Contract!vars
<1>1. \A w \in Worker : Place(w)' = Place(w)
  BY PlacesSame
<1>2. \A c \in Cluster : Members(c)' = Members(c)
  BY DEF ClustersSame, Members
<1>3. QED
  BY <1>1, <1>2 DEF ClustersSame, Contract!vars

LEMMA UpAndDown ==
  ASSUME Placed, Placed', ClustersSame, NEW v \in Worker, NEW b \in BOOLEAN,
         workers'[v].online = b,
         \A w \in Worker \ {v} : workers'[w].online = workers[w].online
  PROVE  /\ b => Contract!ComesUp(v)
         /\ ~b /\ Place(v) = 0 => Contract!GoesDown(v)
<1>1. \A w \in Worker : Place(w)' = Place(w)
  BY PlacesSame
<1>2. \A c \in Cluster : Members(c)' = Members(c)
  BY DEF ClustersSame, Members
<1>3. [w \in Worker |-> workers[w].online]'
        = [[w \in Worker |-> workers[w].online] EXCEPT ![v] = b]
  OBVIOUS
<1>4. QED
  BY <1>1, <1>2, <1>3 DEF ClustersSame, Contract!ComesUp, Contract!GoesDown

\* The teardown of a cluster in service, on account of a member, begins.
LEMMA Dissolves ==
  ASSUME Placed, Placed', NEW v \in Worker, NEW c \in Cluster, Serving(c), v \in Members(c),
         pc # "dissolve", pc' = "dissolve", cur' = c, clusters' = clusters,
         NEW silent \in BOOLEAN, workers[v].online \in BOOLEAN,
         workers'[v].online = (workers[v].online /\ ~silent),
         \A w \in Worker \ {v} : workers'[w].online = workers[w].online
  PROVE  Contract!Dissolve(v, silent)
<1>1. Place(v) = c /\ c # 0
  BY BoundAssumption DEF Placed, Cluster
<1>2. \A d \in Cluster : Members(d)' = Members(d)
  BY DEF Members
<1>3. \A d \in Cluster : Serving(d)' <=> Serving(d) /\ d # c
  BY DEF Serving, Active, Tearing
<1>4. ASSUME NEW w \in Worker
      PROVE  Place(w)' = IF w \in Members(c) THEN 0 ELSE Place(w)
  BY <1>2, <1>3 DEF Placed
<1>5. \A d \in Cluster : Ending(d)' <=> Ending(d) \/ d = c
  BY DEF Ending
<1>6. [w \in Worker |-> workers[w].online]'
        = [[w \in Worker |-> workers[w].online] EXCEPT ![v] = workers[v].online /\ ~silent]
  OBVIOUS
<1>7. QED
  BY <1>1, <1>2, <1>4, <1>5, <1>6 DEF Contract!Dissolve

\* A worker of the batch serves in no cluster; all of them do from then on.
LEMMA Forms ==
  ASSUME Calm, Calm', NEW m \in Model, FormCluster(m)
  PROVE  \E c \in Cluster, S \in SUBSET Worker : Contract!Form(c, S)
<1>1. Placed /\ Placed' /\ TypeOK
  <2>1. Placed'
    BY CalmIsPlaced, PTL
  <2>2. QED
    BY <2>1, CalmIsPlaced DEF Calm, IInv
<1>2. /\ Enough(m) # {} /\ pc = "check" /\ workers' = workers
      /\ NextCluster \in Cluster /\ clusters[NextCluster].status = "none"
  BY NextClusterIsNew DEF FormCluster, CanForm
<1>3. PICK c \in Cluster : c = NextCluster
  BY <1>2
<1>4. PICK S \in SUBSET Worker :
        /\ S = Batch(m) /\ S \subseteq Waitlist(m) /\ S # {}
  BY <1>2, BatchSuffices
<1>5. /\ clusters[c] = Unformed
      /\ clusters' = [clusters EXCEPT ![c] = NewCluster(m)]
      /\ pc' = "assign"
  BY <1>2, <1>3 DEF Calm, WInv, Untaken, FormCluster
<1>6. /\ clusters'[c].status = "assembling" /\ clusters'[c].ready = {}
      /\ clusters'[c].reported = FALSE /\ clusters'[c].ring = RingOf(S)
      /\ clusters[c].ready = {} /\ clusters[c].reported = FALSE
      /\ clusters[c].status = "none"
  BY <1>1, <1>4, <1>5 DEF NewCluster, Unformed, TypeOK
<1>7. \A d \in Cluster \ {c} : clusters'[d] = clusters[d]
  BY <1>1, <1>5 DEF TypeOK
<1>8. Members(c)' = S /\ \A d \in Cluster \ {c} : Members(d)' = Members(d)
  BY <1>6, <1>7, RingOfIsRing DEF Members
<1>9. \A d \in Cluster : ~Ending(d)' /\ Serving(d)' <=> ~Ending(d) /\ (Serving(d) \/ d = c)
  BY <1>2, <1>5, <1>6, <1>7 DEF Ending, Serving, Active, Tearing
<1>10. \A d \in Cluster : Ending(d)' <=> Ending(d)
  BY <1>2, <1>5, <1>6, <1>7 DEF Ending
<1>11. ~Serving(c) /\ \A d \in Cluster : Serving(d)' <=> Serving(d) \/ d = c
  BY <1>2, <1>5, <1>6, <1>7 DEF Serving, Active, Tearing
<1>12. ASSUME NEW w \in S
       PROVE  workers[w].online /\ Place(w) = 0
  <2>1. w \in Worker /\ workers[w].online /\ workers[w].status = "waitlisted"
    BY <1>4 DEF Waitlist
  <2>2. ASSUME NEW d \in Cluster, Serving(d), w \in Members(d)
        PROVE  FALSE
    <3>1. Serves(w, d)
      BY <2>2 DEF Calm, WInv, Undisturbed, StaysWhole, Whole, Serving
    <3>2. QED
      BY <1>2, <2>1, <3>1 DEF Serves, Joining
  <2>3. QED
    BY <1>1, <2>1, <2>2 DEF Placed
<1>13. ASSUME NEW w \in Worker
       PROVE  Place(w)' = IF w \in S THEN c ELSE Place(w)
  <2>1. CASE w \in S
    BY <1>1, <1>8, <1>11, <2>1 DEF Placed
  <2>2. CASE w \notin S
    BY <1>1, <1>8, <1>11, <2>2 DEF Placed
  <2>3. QED
    BY <2>1, <2>2
<1>14. ~Ending(c)
  BY <1>2, <1>6 DEF Ending
<1>15. Contract!Form(c, S)
  BY <1>2, <1>4, <1>6, <1>7, <1>8, <1>10, <1>12, <1>13, <1>14 DEF Contract!Form
<1>16. QED
  BY <1>15

\* What the reports write.
LEMMA DistributionWrites ==
  ASSUME NEW row \in ClusterRow, row.status \in {"assembling", "live"}
  PROVE  LET new == WithDistribution(row) IN
         /\ new.ring = row.ring /\ new.ready = row.ready /\ new.reported
         /\ new.status = IF \A u \in Worker : row.ring[u] >= 0 => u \in row.ready
                         THEN "live" ELSE row.status
<1> DEFINE told == [row EXCEPT !.reported = TRUE]
<1>1. told \in ClusterRow /\ told.reported = TRUE /\ told.ready = row.ready
      /\ told.ring = row.ring /\ told.status = row.status
  BY DEF ClusterRow
<1>2. WithDistribution(row) = Gated(told)
  BY DEF WithDistribution
<1> HIDE DEF told
<1>3. QED
  BY <1>1, <1>2 DEF Gated, ClusterRow

LEMMA ReadyWrites ==
  ASSUME NEW row \in ClusterRow, row.status \in {"assembling", "live"}, NEW w \in Worker
  PROVE  LET new == WithReady(row, w) IN
         /\ new.ring = row.ring /\ new.ready = row.ready \cup {w}
         /\ new.reported = row.reported
         /\ new.status = IF /\ \A u \in Worker : row.ring[u] >= 0 => u \in row.ready \cup {w}
                            /\ row.reported
                         THEN "live" ELSE row.status
<1> DEFINE told == [row EXCEPT !.ready = @ \cup {w}]
<1>1. told \in ClusterRow /\ told.reported = row.reported /\ told.ready = row.ready \cup {w}
      /\ told.ring = row.ring /\ told.status = row.status
  BY DEF ClusterRow
<1>2. WithReady(row, w) = Gated(told)
  BY DEF WithReady
<1> HIDE DEF told
<1>3. QED
  BY <1>1, <1>2 DEF Gated, ClusterRow

\* A report that the code takes is one the contract knows.
LEMMA Reports ==
  ASSUME Calm, Calm', pc = "idle", pc' = "idle", workers' = workers,
         NEW v \in Worker, NEW c \in Cluster, workers[v].cluster_id = c,
         NEW ready \in SUBSET {v}, NEW layers \in BOOLEAN,
         NEW new, clusters' = [clusters EXCEPT ![c] = new],
         new.ring = clusters[c].ring,
         new.ready = clusters[c].ready \cup ready,
         new.reported = (clusters[c].reported \/ layers),
         new.status = IF /\ \A u \in Worker : clusters[c].ring[u] >= 0 => u \in new.ready
                         /\ new.reported
                      THEN "live" ELSE clusters[c].status
  PROVE  Contract!Report(v, ready, layers)
<1>1. Placed /\ Placed' /\ TypeOK
  <2>1. Placed'
    BY CalmIsPlaced, PTL
  <2>2. QED
    BY <2>1, CalmIsPlaced DEF Calm, IInv
<1>2. c # 0
  BY BoundAssumption DEF Cluster
<1>3. Active(c) /\ Serving(c) /\ v \in Members(c)
  BY <1>2, NamedIsMember DEF Calm, IInv, Undisturbed, NamesActive, Serving, Tearing
<1>4. Place(v) = c
  BY <1>1, <1>3 DEF Placed
<1>5. clusters'[c] = new /\ \A d \in Cluster \ {c} : clusters'[d] = clusters[d]
  BY <1>1 DEF TypeOK
<1>6. new.status \in {"assembling", "live"}
  BY <1>3 DEF Active
<1>7. \A d \in Cluster : /\ Members(d)' = Members(d)
                         /\ Serving(d)' <=> Serving(d)
                         /\ Ending(d)' <=> Ending(d)
  BY <1>3, <1>5, <1>6 DEF Members, Serving, Active, Tearing, Ending
<1>8. \A w \in Worker : Place(w)' = Place(w)
  BY <1>1, <1>7 DEF Placed
<1>9. ~Ending(c)
  BY <1>3 DEF Active, Ending
<1>10. (\A u \in Worker : clusters[c].ring[u] >= 0 => u \in new.ready)
          <=> Members(c) \subseteq new.ready
  BY DEF Members
<1> DEFINE full == Members(c) \subseteq clusters[c].ready \cup ready
                     /\ (clusters[c].reported \/ layers)
           phase == [d \in Cluster |-> IF Ending(d) THEN "terminated" ELSE clusters[d].status]
           reports == [d \in Cluster |-> [ready |-> clusters[d].ready,
                                          layers |-> clusters[d].reported]]
           told == [ready |-> clusters[c].ready \cup ready,
                    layers |-> clusters[c].reported \/ layers]
<1>11. reports' = [reports EXCEPT ![c] = told]
  BY <1>5
<1>12. new.status = IF full THEN "live" ELSE clusters[c].status
  BY <1>10
<1>13. phase' = [phase EXCEPT ![c] = IF full THEN "live" ELSE @]
  <2> HIDE DEF full
  <2>1. phase[c] = clusters[c].status /\ clusters'[c].status = new.status
    BY <1>5, <1>9
  <2>2. ASSUME NEW d \in Cluster
        PROVE  (IF Ending(d) THEN "terminated" ELSE clusters[d].status)'
                 = IF d = c THEN new.status
                   ELSE IF Ending(d) THEN "terminated" ELSE clusters[d].status
    BY <1>5, <1>7, <1>9
  <2>3. phase' = [phase EXCEPT ![c] = new.status]
    BY <2>2
  <2>4. QED
    BY <1>12, <2>1, <2>3
<1>14. reports[c].ready = clusters[c].ready /\ reports[c].layers = clusters[c].reported
  OBVIOUS
<1>15. \A w \in Worker : workers'[w].online = workers[w].online
  OBVIOUS
<1>16. QED
  BY <1>2, <1>4, <1>7, <1>8, <1>11, <1>13, <1>14, <1>15 DEF Contract!Report

-----------------------------------------------------------------------------
(* Every step maps to a step of the contract, or to none.                   *)

LEMMA ContractInit == Init => Contract!Init
<1> SUFFICES ASSUME Init
             PROVE  Contract!Init
  OBVIOUS
<1>1. \A w \in Worker : workers[w].online = FALSE /\ Place(w) = 0
  BY BlankRow DEF Init, Place
<1>2. \A c \in Cluster : /\ ~Ending(c) /\ clusters[c].status = "none" /\ Members(c) = {}
                         /\ clusters[c].ready = {} /\ clusters[c].reported = FALSE
  BY DEF Init, Ending, Unformed, Members
<1>3. QED
  BY <1>1, <1>2 DEF Contract!Init

LEMMA StepMaps ==
  ASSUME Calm, Calm', Restless = {}, [Next]_vars, ~Fault
  PROVE  Contract!Next \/ UNCHANGED Contract!vars
<1> DEFINE Goal == Contract!Next \/ UNCHANGED Contract!vars
<1>1. Placed /\ Placed' /\ TypeOK /\ 0 \notin Cluster
  <2>1. Placed'
    BY CalmIsPlaced, PTL
  <2>2. QED
    BY <2>1, CalmIsPlaced, BoundAssumption DEF Calm, IInv, Cluster
<1>2. ASSUME UNCHANGED clusters,
             (pc # "dissolve" /\ pc' # "dissolve") \/ UNCHANGED <<pc, cur>>
      PROVE  ClustersSame
  BY <1>2 DEF ClustersSame, Ending
<1>3. ASSUME ClustersSame, \A w \in Worker : workers'[w].online = workers[w].online
      PROVE  Goal
  BY <1>1, <1>3, Stutters
<1>4. ASSUME ClustersSame, NEW v \in Worker, workers'[v].online = TRUE,
             \A w \in Worker \ {v} : workers'[w].online = workers[w].online
      PROVE  Goal
  <2>1. Contract!ComesUp(v)
    BY <1>1, <1>4, UpAndDown
  <2>2. QED
    BY <2>1 DEF Contract!Next
<1>5. ASSUME ClustersSame, NEW v \in Worker, workers'[v].online = FALSE, Place(v) = 0,
             \A w \in Worker \ {v} : workers'[w].online = workers[w].online
      PROVE  Goal
  <2>1. Contract!GoesDown(v)
    BY <1>1, <1>5, UpAndDown
  <2>2. QED
    BY <2>1 DEF Contract!Next
<1>6. ASSUME NEW v \in Worker, NEW c \in Cluster, Serving(c), v \in Members(c),
             pc # "dissolve", pc' = "dissolve", cur' = c, clusters' = clusters,
             NEW silent \in BOOLEAN,
             workers'[v].online = (workers[v].online /\ ~silent),
             \A w \in Worker \ {v} : workers'[w].online = workers[w].online
      PROVE  Goal
  <2>1. workers[v].online \in BOOLEAN
    BY <1>1 DEF TypeOK, WorkerRow
  <2>2. Contract!Dissolve(v, silent)
    BY <1>1, <1>6, <2>1, Dissolves
  <2>3. QED
    BY <2>2 DEF Contract!Next
<1>7. ASSUME NEW v \in Worker, NEW ready \in SUBSET {v}, NEW layers \in BOOLEAN,
             Contract!Report(v, ready, layers)
      PROVE  Goal
  <2>1. ready \in SUBSET Worker
    OBVIOUS
  <2>2. QED
    BY <1>7, <2>1 DEF Contract!Next
<1> HIDE DEF Goal
<1>8. ASSUME NEW a \in Account, NEW m \in Model, NEW mem \in Sizes, Register(a, m, mem)
      PROVE  Goal
  <2>1. ClustersSame
    BY <1>2, <1>8 DEF Register, Idle, BeginCheck
  <2>2. created + 1 \in Worker /\ created + 1 > created
    <3>1. created + 1 > created
      BY <1>1, BoundAssumption DEF TypeOK
    <3>2. QED
      BY <1>1, <1>8, <3>1, RegisterWrites
  <2>3. workers[created + 1].online = FALSE
    BY <2>2, BlankRow DEF Calm, WInv, RowsInUse
  <2>4. \A w \in Worker : workers'[w].online = workers[w].online
    BY <1>1, <1>8, <2>3, RegisterWrites
  <2>5. QED
    BY <1>3, <2>1, <2>4
<1>9. ASSUME NEW v \in Worker, Heartbeat(v) \/ GraceElapses(v) \/ HeartbeatExpires(v)
      PROVE  Goal
  <2>1. ClustersSame
    BY <1>2, <1>9 DEF Heartbeat, GraceElapses, HeartbeatExpires, Idle, BeginCheck, handler
  <2>2. \A w \in Worker \ {v} : workers'[w] = workers[w]
    BY <1>1, <1>9, TimeWrites
  <2>3. CASE Heartbeat(v)
    <3>1. workers'[v].online
      BY <1>1, <2>3, TimeWrites
    <3>2. workers'[v].online = TRUE
      <4>1. workers'[v] \in WorkerRow
        BY DEF Calm, IInv, TypeOK
      <4>2. QED
        BY <3>1, <4>1 DEF WorkerRow
    <3>3. QED
      BY <1>4, <2>1, <2>2, <3>2
  <2>4. CASE ~Heartbeat(v)
    <3>1. workers'[v].online = workers[v].online
      BY <1>1, <1>9, <2>4, TimeWrites
    <3>2. QED
      BY <1>3, <2>1, <2>2, <3>1
  <2>5. QED
    BY <2>3, <2>4
<1>10. ASSUME NEW v \in Worker, LeaveStart(v)
       PROVE  Goal
  <2>1. pc = "idle" /\ workers' = workers /\ clusters' = clusters
    BY <1>10 DEF LeaveStart, Idle
  <2>2. CASE workers[v].cluster_id = 0
    <3>1. ClustersSame
      BY <1>2, <1>10, <2>1, <2>2 DEF LeaveStart
    <3>2. QED
      BY <1>3, <2>1, <3>1
  <2>3. CASE workers[v].cluster_id # 0
    <3>1. PICK c \in Cluster : c = workers[v].cluster_id /\ v \in Members(c)
      BY <1>1, <2>3, NamedIsMember DEF Calm, IInv
    <3>2. Serving(c)
      BY <2>1, <2>3, <3>1 DEF Calm, Undisturbed, NamesActive, Serving, Tearing
    <3>3. pc' = "dissolve" /\ cur' = c
      BY <1>10, <2>3, <3>1 DEF LeaveStart, BeginDissolve
    <3>4. workers'[v].online = (workers[v].online /\ ~FALSE)
      <4>1. workers[v].online \in BOOLEAN
        BY <1>1 DEF TypeOK, WorkerRow
      <4>2. QED
        BY <2>1, <4>1
    <3>5. QED
      BY <1>6, <2>1, <3>1, <3>2, <3>3, <3>4
  <2>4. QED
    BY <2>2, <2>3
<1>11. ASSUME NEW m \in Model, FormCluster(m)
       PROVE  Goal
  BY <1>11, Forms DEF Goal, Contract!Next
<1>12. AssignMember => Goal
  <2> SUFFICES ASSUME AssignMember
               PROVE  Goal
    OBVIOUS
  <2>1. ClustersSame
    BY <1>2 DEF AssignMember
  <2>2. \A w \in Worker : workers'[w].online = workers[w].online
    <3>1. HandlerState
      BY DEF Calm, IInv
    <3>2. PICK v \in todo : /\ \A w \in Worker \ {v} : workers'[w] = workers[w]
                            /\ workers'[v].online = workers[v].online
      BY <1>1, <3>1, AssignWrites
    <3>3. QED
      BY <3>2
  <2>3. QED
    BY <1>3, <2>1, <2>2
<1>13. ASSUME NEW v \in Worker, SweepWorker(v)
       PROVE  Goal
  <2>1. pc = "sweep" /\ clusters' = clusters
    BY <1>13 DEF SweepWorker
  <2>2. /\ workers'[v].online = FALSE /\ snapshot[v] # Blank
        /\ \A w \in Worker \ {v} : workers'[w] = workers[w]
    BY <1>1, <1>13, SweepWrites
  <2>3. Place(v) # 0 => Place(v) = snapshot[v].cluster_id /\ ~Ending(Place(v))
    BY <2>1, <2>2 DEF Place, Calm, WInv, RowsInUse
  <2>4. CASE snapshot[v].cluster_id = 0
    <3>1. pc' # "dissolve"
      BY <1>13, <2>4 DEF SweepWorker, SweepResumes
    <3>2. ClustersSame
      BY <1>2, <2>1, <3>1
    <3>3. QED
      BY <1>5, <2>2, <2>3, <2>4, <3>2
  <2>5. CASE snapshot[v].cluster_id # 0
    <3>1. PICK c \in Cluster : c = snapshot[v].cluster_id
      BY <1>1, <2>5, NamedIsCluster DEF TypeOK
    <3>2. pc' = "dissolve" /\ cur' = c
      BY <1>13, <2>5, <3>1 DEF SweepWorker, BeginDissolve
    <3>3. clusters[c].status # "none" /\ v \in Members(c)
      BY <2>5, <3>1 DEF Calm, IInv, SnapshotNames, Names, Members
    <3>4. CASE Ending(c)
      <4>1. ClustersSame
        BY <2>1, <3>2, <3>4 DEF ClustersSame, Ending
      <4>2. QED
        BY <1>5, <2>2, <2>3, <3>1, <3>4, <4>1
    <3>5. CASE ~Ending(c)
      <4>1. clusters[c] \in ClusterRow
        BY <1>1 DEF TypeOK
      <4>2. Serving(c)
        BY <3>3, <3>5, <4>1 DEF Serving, Active, Tearing, Ending, ClusterRow
      <4>3. workers'[v].online = (workers[v].online /\ ~TRUE)
        BY <2>2
      <4>4. QED
        BY <1>6, <2>1, <2>2, <3>2, <3>3, <4>2, <4>3
    <3>6. QED
      BY <3>4, <3>5
  <2>6. QED
    BY <2>4, <2>5
<1>14. ReleaseMember => Goal
  <2> SUFFICES ASSUME ReleaseMember
               PROVE  Goal
    OBVIOUS
  <2>1. ClustersSame
    BY <1>2 DEF ReleaseMember
  <2>2. \A w \in Worker : workers'[w].online = workers[w].online
    BY <1>1, ReleaseWrites
  <2>3. QED
    BY <1>3, <2>1, <2>2
<1>15. Terminate => Goal
  <2> SUFFICES ASSUME Terminate
               PROVE  Goal
    OBVIOUS
  <2>1. /\ pc = "dissolve" /\ pc' # "dissolve" /\ workers' = workers
        /\ clusters' = [clusters EXCEPT ![cur].status = "terminated"]
    BY DEF Terminate, SweepResumes
  <2>2. PICK c \in Cluster : c = cur
    BY <2>1 DEF Calm, IInv, HandlerState
  <2>3. clusters[c] \in ClusterRow /\ Ending(c)
    BY <1>1, <2>1, <2>2 DEF TypeOK, Ending
  <2>4. /\ clusters'[c].status = "terminated" /\ clusters'[c].ring = clusters[c].ring
        /\ clusters'[c].ready = clusters[c].ready
        /\ clusters'[c].reported = clusters[c].reported
        /\ \A d \in Cluster \ {c} : clusters'[d] = clusters[d]
    BY <1>1, <2>1, <2>2, <2>3 DEF TypeOK, ClusterRow
  <2>5. ClustersSame
    BY <2>1, <2>2, <2>3, <2>4 DEF ClustersSame, Ending
  <2>6. QED
    BY <1>3, <2>1, <2>5
<1>16. DeleteWorker => Goal
  <2> SUFFICES ASSUME DeleteWorker
               PROVE  Goal
    OBVIOUS
  <2>1. /\ pc = "revoke" /\ pc' = "idle" /\ clusters' = clusters
        /\ workers' = [workers EXCEPT ![leaver] = Blank]
    BY DEF DeleteWorker, Rest
  <2>2. leaver \in Worker
    BY <1>1, <2>1, BoundAssumption DEF Calm, WInv, HandlerRows, TypeOK, Worker
  <2>3. Place(leaver) = 0
    BY <2>1, <2>2 DEF Calm, WInv, HandlerRows, Place
  <2>4. workers'[leaver].online = FALSE /\ \A w \in Worker \ {leaver} : workers'[w] = workers[w]
    BY <1>1, <2>1, <2>2, BlankRow DEF TypeOK
  <2>5. ClustersSame
    BY <1>2, <2>1
  <2>6. PICK v \in Worker : v = leaver
    BY <2>2
  <2>7. QED
    BY <1>5, <2>3, <2>4, <2>5, <2>6
<1>17. ASSUME UNCHANGED <<workers, clusters>>,
              (pc # "dissolve" /\ pc' # "dissolve") \/ UNCHANGED <<pc, cur>>
       PROVE  Goal
  BY <1>2, <1>3, <1>17
<1>18. ASSUME NEW v \in Worker, NEW b \in BOOLEAN, ReportReady(v, b)
       PROVE  Goal
  <2> DEFINE row == clusters[workers[v].cluster_id]
             layers == b /\ workers[v].ring_position = 0
             told == IF layers THEN WithDistribution(row) ELSE row
             new == WithReady(told, v)
  <2>1. /\ workers[v].cluster_id # 0 /\ pc = "idle" /\ pc' = "idle" /\ workers' = workers
        /\ clusters' = [clusters EXCEPT ![workers[v].cluster_id] = new]
    BY <1>18 DEF ReportReady, Idle
  <2>2. PICK c \in Cluster : c = workers[v].cluster_id
    BY <1>1, <2>1, NamedIsCluster DEF TypeOK
  <2>3. row \in ClusterRow /\ row.status \in {"assembling", "live"}
    BY <1>1, <2>1, <2>2 DEF TypeOK, Calm, Undisturbed, NamesActive, Tearing, Active
  <2> HIDE DEF row
  <2>4. layers \in BOOLEAN
    OBVIOUS
  <2> HIDE DEF layers
  <2>5. /\ told \in ClusterRow /\ told.status \in {"assembling", "live"}
        /\ told.ring = row.ring /\ told.ready = row.ready
        /\ told.reported = (row.reported \/ layers)
        /\ told.status = IF layers /\ \A u \in Worker : row.ring[u] >= 0 => u \in row.ready
                         THEN "live" ELSE row.status
    <3>1. row.reported \in BOOLEAN
      BY <2>3 DEF ClusterRow
    <3>2. CASE layers
      <4>1. WithDistribution(row).reported = TRUE
        <5>1. WithDistribution(row) \in ClusterRow
          BY <2>3, GateTypes
        <5>2. QED
          BY <2>3, <5>1, DistributionWrites DEF ClusterRow
      <4>2. QED
        BY <2>3, <3>2, <4>1, DistributionWrites, GateTypes
    <3>3. CASE ~layers
      BY <2>3, <3>1, <3>3
    <3>4. QED
      BY <3>2, <3>3
  <2> HIDE DEF told
  <2>6. /\ new.ring = told.ring /\ new.ready = told.ready \cup {v}
        /\ new.reported = told.reported
        /\ new.status = IF /\ \A u \in Worker : told.ring[u] >= 0 => u \in told.ready \cup {v}
                           /\ told.reported
                        THEN "live" ELSE told.status
    BY <2>5, ReadyWrites
  <2> HIDE DEF new
  <2>7. /\ new.ring = row.ring /\ new.ready = row.ready \cup {v}
        /\ new.reported = (row.reported \/ layers)
        /\ new.status = IF (\A u \in Worker : row.ring[u] >= 0 => u \in new.ready) /\ new.reported
                        THEN "live" ELSE row.status
    <3>1. \A u \in Worker : u \in row.ready => u \in new.ready
      BY <2>5, <2>6
    <3>2. QED
      BY <2>5, <2>6, <3>1
  <2>8. PICK l \in BOOLEAN : l = layers
    BY <2>4
  <2>9. PICK x : x = new
    OBVIOUS
  <2>10. /\ x.ring = clusters[c].ring /\ x.ready = clusters[c].ready \cup {v}
         /\ x.reported = (clusters[c].reported \/ l)
         /\ x.status = IF (\A u \in Worker : clusters[c].ring[u] >= 0 => u \in x.ready) /\ x.reported
                       THEN "live" ELSE clusters[c].status
    BY <2>2, <2>7, <2>8, <2>9 DEF row
  <2>11. clusters' = [clusters EXCEPT ![c] = x]
    BY <2>1, <2>2, <2>9
  <2>12. Contract!Report(v, {v}, l)
    <3>1. workers[v].cluster_id = c
      BY <2>2
    <3>2. {v} \in SUBSET {v}
      OBVIOUS
    <3>3. CASE l = TRUE
      BY <2>1, <2>10, <2>11, <3>1, <3>2, <3>3, Reports
    <3>4. CASE l = FALSE
      BY <2>1, <2>10, <2>11, <3>1, <3>2, <3>4, Reports
    <3>5. QED
      BY <3>3, <3>4
  <2>13. QED
    BY <1>7, <2>12
<1>19. ASSUME NEW v \in Worker, ReportLayers(v)
       PROVE  Goal
  <2> DEFINE row == clusters[workers[v].cluster_id]
             new == WithDistribution(row)
  <2>1. /\ workers[v].cluster_id # 0 /\ pc = "idle" /\ pc' = "idle" /\ workers' = workers
        /\ clusters' = [clusters EXCEPT ![workers[v].cluster_id] = new]
    BY <1>19 DEF ReportLayers, Idle
  <2>2. PICK c \in Cluster : c = workers[v].cluster_id
    BY <1>1, <2>1, NamedIsCluster DEF TypeOK
  <2>3. row \in ClusterRow /\ row.status \in {"assembling", "live"}
    BY <1>1, <2>1, <2>2 DEF TypeOK, Calm, Undisturbed, NamesActive, Tearing, Active
  <2> HIDE DEF row
  <2>4. new.reported = TRUE
    <3>1. new \in ClusterRow
      BY <2>3, GateTypes
    <3>2. QED
      BY <2>3, <3>1, DistributionWrites DEF ClusterRow
  <2>5. row.reported \in BOOLEAN
    BY <2>3 DEF ClusterRow
  <2>6. /\ new.ring = row.ring /\ new.ready = row.ready \cup {}
        /\ new.reported = (row.reported \/ TRUE)
        /\ new.status = IF (\A u \in Worker : row.ring[u] >= 0 => u \in new.ready) /\ new.reported
                        THEN "live" ELSE row.status
    BY <2>3, <2>4, <2>5, DistributionWrites
  <2> HIDE DEF new
  <2>7. PICK x : x = new
    OBVIOUS
  <2>8. /\ x.ring = clusters[c].ring /\ x.ready = clusters[c].ready \cup {}
        /\ x.reported = (clusters[c].reported \/ TRUE)
        /\ x.status = IF (\A u \in Worker : clusters[c].ring[u] >= 0 => u \in x.ready) /\ x.reported
                      THEN "live" ELSE clusters[c].status
    BY <2>2, <2>6, <2>7 DEF row
  <2>9. clusters' = [clusters EXCEPT ![c] = x]
    BY <2>1, <2>2, <2>7
  <2>10. Contract!Report(v, {}, TRUE)
    BY <2>1, <2>2, <2>8, <2>9, Reports
  <2>11. QED
    BY <1>7, <2>10
<1>20. Request => Goal
  <2>1. ~ \E v \in Worker, m \in Model, mem \in Sizes : Reregister(v, m, mem)
    BY DEF Reregister
  <2>2. QED
    BY <1>8, <1>9, <1>10, <1>18, <1>19, <2>1 DEF Request
<1>21. Time => Goal
  BY <1>9, <1>17 DEF Time, SweepStart, Idle
<1>22. Continue => Goal
  <2>1. (\E m \in Model : SubnetsExhausted(m)) \/ CheckDone
          => UNCHANGED <<workers, clusters>> /\ pc # "dissolve" /\ pc' # "dissolve"
    BY DEF SubnetsExhausted, CheckDone, Rest
  <2>2. QED
    BY <1>11, <1>12, <1>13, <1>14, <1>15, <1>16, <1>17, <2>1 DEF Continue
<1>23. UNCHANGED vars => Goal
  BY <1>17 DEF vars, handler
<1>24. Goal
  BY <1>20, <1>21, <1>22, <1>23 DEF Next
<1>25. QED
  BY <1>24 DEF Goal

LEMMA CalmInit == Init => Calm
  BY IInvInit, WInvInit, UndisturbedInit DEF Calm

\* With no fault and no re-registration to come, the pool stays calm.
LEMMA CalmStep ==
  ASSUME MaxFaults = 0, Restless = {}
  PROVE  Calm /\ [Next]_vars => ~Fault /\ Calm'
<1>1. IInv' => faults' = 0
  BY DEF IInv, TypeOK
<1>2. Calm /\ [Next]_vars => IInv' /\ WInv'
  BY IInvStep, WInvStep DEF Calm
<1>3. WInv' /\ faults' = 0 => Undisturbed'
  BY DEF WInv
<1>4. Calm => TypeOK
  BY DEF Calm, IInv
<1>5. TypeOK /\ [Next]_vars /\ faults' = 0 => ~Fault
  BY FaultsGrow
<1>6. QED
  BY <1>1, <1>2, <1>3, <1>4, <1>5 DEF Calm

\* With no fault and no re-registration, a worker serves in a cluster exactly
\* while it is a member of it and the cluster is active, and members are
\* online: at every transaction, not only between handlers.
THEOREM PoolServesWhole ==
  ASSUME MaxFaults = 0, Restless = {}
  PROVE  Spec => []ServesWhole
<1>1. Calm => ServesWhole
  BY CalmServesWhole
<1>2. Calm /\ [Next]_vars => Calm'
  BY CalmStep
<1>3. QED
  BY CalmInit, <1>1, <1>2, PTL DEF Spec

\* With no fault and no re-registration, the transactions of the pool add up to
\* the atomic handlers of the contract.
THEOREM PoolImplementsContract ==
  ASSUME MaxFaults = 0, Restless = {}
  PROVE  Spec => ImplementsContract
<1>1. Calm /\ [Next]_vars => Calm'
  BY CalmStep
<1>2. Calm /\ Calm' /\ [Next]_vars => [Contract!Next]_(Contract!vars)
  BY CalmStep, StepMaps
<1>3. QED
  BY CalmInit, ContractInit, <1>1, <1>2, PTL DEF Spec, ImplementsContract, Contract!Spec

=============================================================================
