----------------------------- MODULE ClusterPool -----------------------------
(***************************************************************************)
(* The life of workers and clusters in the pool server: registration,      *)
(* heartbeats, the FIFO waitlist, the forming of clusters, the readiness    *)
(* gate, the liveness sweep and the dissolving of clusters.                 *)
(*                                                                         *)
(* Handlers run on one event loop and do not await between their store      *)
(* calls, so no handler interleaves with another.  Each store call is an    *)
(* SQLite transaction of its own, though, and the process may die, or a     *)
(* store call raise, between two of them.  One action is therefore one      *)
(* transaction, and `pc` says where the running handler stands; only an     *)
(* idle server takes the next request.                                     *)
(*                                                                         *)
(* Time is two bits per worker: `fresh` (its last heartbeat is younger than *)
(* the timeout) and `assignable` (its grace period is over).  Worker and    *)
(* cluster ids are numbered in the order of created_at and never reused.    *)
(* A worker's GGUF hash is part of its model: registration refuses any      *)
(* other hash than the one registered for the model.                        *)
(***************************************************************************)
EXTENDS Integers, FiniteSets, FiniteSetsExt

CONSTANTS
  Account,              \* the accounts that may provide workers
  Model,                \* the models of the registry
  Required,             \* Required[m]: the memory a cluster of m needs
  Sizes,                \* the memory a worker may offer
  MaxWorkersPerAccount, \* settings.max_workers_per_account
  MaxSubnet,            \* the highest subnet number (255 in the code)
  Grace,                \* TRUE if settings.assignable_grace_s is positive
  Restless,             \* bound: the workers whose device registers again
  MaxWorker,            \* bound: workers ever created
  MaxCluster,           \* bound: clusters ever formed
  MaxFaults             \* bound: crashes and store errors

ASSUME ModelAssumption ==
  /\ Account # {}
  /\ Model # {}
  /\ Required \in [Model -> Nat]
  /\ Sizes \subseteq Nat \ {0}

ASSUME BoundAssumption ==
  /\ MaxWorkersPerAccount \in Nat
  /\ MaxSubnet \in Nat
  /\ MaxWorker \in Nat
  /\ MaxCluster \in Nat
  /\ MaxFaults \in Nat
  /\ Grace \in BOOLEAN

Worker == 1..MaxWorker
Cluster == 1..MaxCluster

ASSUME RestlessAssumption == Restless \subseteq Worker

VARIABLES
  workers,    \* the workers table
  created,    \* how many workers were ever created
  clusters,   \* the clusters table with its cluster_members rows
  pc,         \* where the running handler stands
  cur,        \* the cluster it forms or dissolves (0: none)
  todo,       \* the members it still has to update
  unchecked,  \* the models check_and_form has not formed a cluster of yet
  snapshot,   \* the rows the sweep read and has not handled yet
  leaver,     \* the worker whose revocation is running (0: none)
  broken,     \* history: clusters a fault or a re-registration has touched
  faults      \* history: faults so far

handler == <<cur, todo, unchecked, snapshot, leaver>>
vars == <<workers, created, clusters, pc, handler, broken, faults>>

-----------------------------------------------------------------------------
(* Rows.                                                                    *)

NoIP == <<0, 0>>

\* A worker id without a row.
Blank ==
  [status |-> "absent", online |-> FALSE, fresh |-> FALSE,
   assignable |-> FALSE, account |-> CHOOSE a \in Account : TRUE,
   model |-> CHOOSE m \in Model : TRUE, memory |-> 0,
   cluster_id |-> 0, assigned_ip |-> NoIP, ring_position |-> -1]

WorkerRow ==
  [status : {"absent", "waitlisted", "assigned"}, online : BOOLEAN,
   fresh : BOOLEAN, assignable : BOOLEAN, account : Account,
   model : Model, memory : Nat, cluster_id : 0..MaxCluster,
   assigned_ip : (0..MaxSubnet) \X (0..MaxWorker),
   ring_position : -1..(MaxWorker - 1)]

\* A cluster id not yet taken; ring[w] is w's ring position, -1 for a
\* worker that is not a member.
Unformed ==
  [status |-> "none", model |-> CHOOSE m \in Model : TRUE, subnet |-> 0,
   ring |-> [w \in Worker |-> -1], ready |-> {}, reported |-> FALSE]

ClusterRow ==
  [status : {"none", "assembling", "live", "terminated"}, model : Model,
   subnet : 0..MaxSubnet, ring : [Worker -> -1..(MaxWorker - 1)],
   ready : SUBSET Worker, reported : BOOLEAN]

Exists(w) == workers[w].status # "absent"
Members(c) == {w \in Worker : clusters[c].ring[w] >= 0}
Active(c) == clusters[c].status \in {"assembling", "live"}
Pending(snap) == {w \in Worker : snap[w] # Blank}

-----------------------------------------------------------------------------
(* The scheduler's view of the waitlist and of the subnets.                 *)

Memory(S) == SumFunction([w \in S |-> workers[w].memory])

Older(w, S) == {v \in S : v < w}
UpTo(w, S) == {v \in S : v <= w}

\* (mutant) the waitlist takes workers that are assigned already.
WaitlistOfAnyStatus(m) ==
  {w \in Worker : /\ workers[w].model = m
                  /\ workers[w].online
                  /\ workers[w].assignable}

\* (mutant) the waitlist takes workers that are offline.
WaitlistOfOffline(m) ==
  {w \in Worker : /\ workers[w].model = m
                  /\ workers[w].status = "waitlisted"
                  /\ workers[w].assignable}

\* The waitlisted, online, assignable workers of a model.
Waitlist(m) ==
  {w \in Worker : /\ workers[w].model = m
                  /\ workers[w].status = "waitlisted"
                  /\ workers[w].online
                  /\ workers[w].assignable}

\* The workers with whom the total of the loop has reached the required memory.
Enough(m) == {w \in Waitlist(m) : Memory(UpTo(w, Waitlist(m))) >= Required[m]}

\* The loop takes the waitlist in order up to the first of them.
Batch(m) == UpTo(Min(Enough(m)), Waitlist(m))

CanForm(m) ==
  /\ Enough(m) # {}
  /\ \E c \in Cluster : clusters[c].status = "none"

\* (mutant) the subnets of clusters only.
SubnetsOfClusters == {clusters[c].subnet : c \in {d \in Cluster : Active(d)}}

\* (mutant) the subnets of the workers' addresses only.
SubnetsOfAddresses == {workers[w].assigned_ip[1] : w \in Worker}

\* The subnet of every cluster that is not terminated and of every address a
\* worker row still holds (0 for a row without one).
UsedSubnets ==
  {clusters[c].subnet : c \in {d \in Cluster : Active(d)}}
    \cup {workers[w].assigned_ip[1] : w \in Worker}

\* (mutant) one subnet too many.
OneSubnetTooMany == (1..MaxSubnet + 1) \ UsedSubnets

FreeSubnets == (1..MaxSubnet) \ UsedSubnets

NextCluster == Min({c \in Cluster : clusters[c].status = "none"})

\* Ring order is the order of the batch.
RingOf(S) ==
  [w \in Worker |-> IF w \in S THEN Cardinality(Older(w, S)) ELSE -1]

\* _assign_ips: the address of a member in a cluster's subnet.
AddressOf(cluster, w) == <<cluster.subnet, cluster.ring[w] + 1>>

-----------------------------------------------------------------------------
(* Steps handlers share.                                                    *)

Idle == pc = "idle"

Rest ==
  /\ pc' = "idle"
  /\ cur' = 0
  /\ todo' = {}
  /\ unchecked' = {}
  /\ snapshot' = [w \in Worker |-> Blank]
  /\ leaver' = 0

\* scheduler.check_and_form() starts.
BeginCheck ==
  /\ pc' = "check"
  /\ unchecked' = Model
  /\ UNCHANGED <<cur, todo, snapshot, leaver>>

\* _dissolve_cluster starts; a member without a row is skipped.
BeginDissolve(c) ==
  /\ pc' = "dissolve"
  /\ cur' = c
  /\ todo' = {w \in Members(c) : Exists(w)}

\* Where the sweep stands once snap is what is left of its snapshot.
SweepResumes(snap) == pc' = IF Pending(snap) = {} THEN "idle" ELSE "sweep"

-----------------------------------------------------------------------------
(* Registration, heartbeats and time.                                       *)

RowsOf(a) == {w \in Worker : Exists(w) /\ workers[w].account = a}

HasRoom(a) == Cardinality(RowsOf(a)) < MaxWorkersPerAccount

\* POST /v1/workers/register by a device the pool does not know.
Register(a, m, mem) ==
  /\ Idle
  /\ created < MaxWorker
  /\ HasRoom(a)
  /\ created' = created + 1
  /\ workers' = [workers EXCEPT ![created + 1] =
                   [Blank EXCEPT !.status = "waitlisted",
                                 !.assignable = TRUE,
                                 !.account = a,
                                 !.model = m,
                                 !.memory = mem]]
  /\ BeginCheck
  /\ UNCHANGED <<clusters, broken, faults>>

\* (mutant) re-registration forgets the cluster but keeps the address.
ReregisterHalfway(w, m, mem) ==
  /\ Idle
  /\ w \in Restless
  /\ Exists(w)
  /\ HasRoom(workers[w].account)
  /\ workers' = [workers EXCEPT ![w].model = m,
                                ![w].memory = mem,
                                ![w].status = "waitlisted",
                                ![w].online = FALSE,
                                ![w].cluster_id = 0]
  /\ broken' = broken \cup ({workers[w].cluster_id} \ {0})
  /\ BeginCheck
  /\ UNCHANGED <<created, clusters, faults>>

\* The same request from a device that has a row: the row is waitlisted and
\* offline again, its cluster, address and ring position stay, and so does
\* the cluster.
Reregister(w, m, mem) ==
  /\ Idle
  /\ w \in Restless
  /\ Exists(w)
  /\ HasRoom(workers[w].account)
  /\ workers' = [workers EXCEPT ![w].model = m,
                                ![w].memory = mem,
                                ![w].status = "waitlisted",
                                ![w].online = FALSE]
  /\ broken' = broken \cup ({workers[w].cluster_id} \ {0})
  /\ BeginCheck
  /\ UNCHANGED <<created, clusters, faults>>

\* POST /v1/workers/{id}/heartbeat.
Heartbeat(w) ==
  /\ Idle
  /\ Exists(w)
  /\ workers' = [workers EXCEPT
                   ![w].online = TRUE,
                   ![w].fresh = TRUE,
                   ![w].assignable = IF workers[w].online THEN @ ELSE ~Grace]
  /\ BeginCheck
  /\ UNCHANGED <<created, clusters, broken, faults>>

\* The grace period of w is over.
GraceElapses(w) ==
  /\ Idle
  /\ Exists(w)
  /\ ~workers[w].assignable
  /\ workers' = [workers EXCEPT ![w].assignable = TRUE]
  /\ UNCHANGED <<created, clusters, pc, handler, broken, faults>>

\* w, online, has been silent for longer than heartbeat_timeout_s.
HeartbeatExpires(w) ==
  /\ Idle
  /\ workers[w].online
  /\ workers[w].fresh
  /\ workers' = [workers EXCEPT ![w].fresh = FALSE]
  /\ UNCHANGED <<created, clusters, pc, handler, broken, faults>>

-----------------------------------------------------------------------------
(* check_and_form: one cluster per model at most, the models in any order.  *)

NewCluster(m) ==
  [status |-> "assembling", model |-> m, subnet |-> Min(FreeSubnets),
   ring |-> RingOf(Batch(m)), ready |-> {}, reported |-> FALSE]

\* create_cluster: the cluster and its membership rows, in one transaction.
FormCluster(m) ==
  /\ pc = "check"
  /\ m \in unchecked
  /\ CanForm(m)
  /\ FreeSubnets # {}
  /\ clusters' = [clusters EXCEPT ![NextCluster] = NewCluster(m)]
  /\ pc' = "assign"
  /\ cur' = NextCluster
  /\ todo' = Batch(m)
  /\ unchecked' = unchecked \ {m}
  /\ UNCHANGED <<workers, created, snapshot, leaver, broken, faults>>

\* _next_subnet raises, which ends the handler.
SubnetsExhausted(m) ==
  /\ pc = "check"
  /\ m \in unchecked
  /\ CanForm(m)
  /\ FreeSubnets = {}
  /\ Rest
  /\ UNCHANGED <<workers, created, clusters, broken, faults>>

\* (mutant) the loop stops at a model without enough waitlisted memory.
CheckStopsEarly ==
  /\ pc = "check"
  /\ unchecked = {} \/ \E m \in unchecked : ~CanForm(m)
  /\ Rest
  /\ UNCHANGED <<workers, created, clusters, broken, faults>>

\* Models without enough waitlisted memory are passed over.
CheckDone ==
  /\ pc = "check"
  /\ ~ \E m \in unchecked : CanForm(m)
  /\ Rest
  /\ UNCHANGED <<workers, created, clusters, broken, faults>>

\* update_worker for the next member in ring order.
AssignMember ==
  /\ pc = "assign"
  /\ LET w == Min(todo) IN
     /\ workers' = [workers EXCEPT
                      ![w].status = "assigned",
                      ![w].cluster_id = cur,
                      ![w].assigned_ip = AddressOf(clusters[cur], w),
                      ![w].ring_position = clusters[cur].ring[w]]
     /\ todo' = todo \ {w}
  /\ IF todo' = {} THEN pc' = "check" /\ cur' = 0 ELSE UNCHANGED <<pc, cur>>
  /\ UNCHANGED <<created, clusters, unchecked, snapshot, leaver,
                 broken, faults>>

-----------------------------------------------------------------------------
(* The liveness sweep.                                                      *)

\* (mutant) the sweep looks at waitlisted workers only.
ExpiredOnWaitlist(w) ==
  workers[w].status = "waitlisted" /\ workers[w].online /\ ~workers[w].fresh

Expired(w) == workers[w].online /\ ~workers[w].fresh

\* The sweep reads every row at once; a row it would skip is not kept, and a
\* sweep that finds nobody expired changes nothing.
SweepStart ==
  /\ Idle
  /\ \E w \in Worker : Expired(w)
  /\ snapshot' = [w \in Worker |-> IF Expired(w) THEN workers[w] ELSE Blank]
  /\ pc' = "sweep"
  /\ UNCHANGED <<workers, created, clusters, cur, todo, unchecked, leaver,
                 broken, faults>>

\* The row read at the start of the sweep is written back with
\* online = FALSE, then on_worker_offline looks at that same row's cluster.
SweepWorker(w) ==
  /\ pc = "sweep"
  /\ w \in Pending(snapshot)
  /\ workers' = [workers EXCEPT ![w] = [snapshot[w] EXCEPT !.online = FALSE]]
  /\ snapshot' = [snapshot EXCEPT ![w] = Blank]
  /\ IF snapshot[w].cluster_id # 0
     THEN BeginDissolve(snapshot[w].cluster_id)
     ELSE SweepResumes(snapshot') /\ UNCHANGED <<cur, todo>>
  /\ UNCHANGED <<created, clusters, unchecked, leaver, broken, faults>>

-----------------------------------------------------------------------------
(* _dissolve_cluster.                                                       *)

\* The row of a member that goes back to the waitlist.
Released(row) ==
  [row EXCEPT !.status = "waitlisted", !.cluster_id = 0,
              !.assigned_ip = NoIP, !.ring_position = -1]

\* update_worker for the next member, whatever cluster its row names by now.
ReleaseMember ==
  /\ pc = "dissolve"
  /\ \E w \in todo :
       /\ \A v \in todo : clusters[cur].ring[w] <= clusters[cur].ring[v]
       /\ workers' = [workers EXCEPT ![w] = Released(workers[w])]
       /\ todo' = todo \ {w}
       /\ broken' = broken \cup ({workers[w].cluster_id} \ {0, cur})
  /\ UNCHANGED <<created, clusters, pc, cur, unchecked, snapshot, leaver,
                 faults>>

\* update_cluster with status terminated; the caller goes on.
Terminate ==
  /\ pc = "dissolve"
  /\ todo = {}
  /\ clusters' = [clusters EXCEPT ![cur].status = "terminated"]
  /\ cur' = 0
  /\ IF leaver # 0 THEN pc' = "revoke" ELSE SweepResumes(snapshot)
  /\ UNCHANGED <<workers, created, todo, unchecked, snapshot, leaver,
                 broken, faults>>

\* (mutant) the row is deleted without on_worker_leave.
LeaveWithoutDissolve(w) ==
  /\ Idle
  /\ Exists(w)
  /\ leaver' = w
  /\ pc' = "revoke"
  /\ UNCHANGED <<workers, created, clusters, cur, todo, unchecked, snapshot,
                 broken, faults>>

\* DELETE /v1/workers/{id}: on_worker_leave first.
LeaveStart(w) ==
  /\ Idle
  /\ Exists(w)
  /\ leaver' = w
  /\ IF workers[w].cluster_id # 0
     THEN BeginDissolve(workers[w].cluster_id)
     ELSE pc' = "revoke" /\ UNCHANGED <<cur, todo>>
  /\ UNCHANGED <<workers, created, clusters, unchecked, snapshot,
                 broken, faults>>

\* Then delete_worker.
DeleteWorker ==
  /\ pc = "revoke"
  /\ workers' = [workers EXCEPT ![leaver] = Blank]
  /\ Rest
  /\ UNCHANGED <<created, clusters, broken, faults>>

-----------------------------------------------------------------------------
(* Readiness.                                                               *)

\* (mutant) the gate does not wait for the layer distribution.
GateIgnoresLayers(row) ==
  IF \A w \in Worker : row.ring[w] >= 0 => w \in row.ready
  THEN [row EXCEPT !.status = "live"]
  ELSE row

\* The gate, computed on the rows the transaction has just written.
Gated(row) ==
  IF /\ \A w \in Worker : row.ring[w] >= 0 => w \in row.ready
     /\ row.reported
  THEN [row EXCEPT !.status = "live"]
  ELSE row

\* (mutant) the distribution is recorded and the gate not evaluated.
DistributionWithoutGate(row) ==
  IF row.status = "terminated" THEN row ELSE [row EXCEPT !.reported = TRUE]

\* set_cluster_distribution; a terminated cluster is left as it is.
WithDistribution(row) ==
  IF row.status = "terminated" THEN row
  ELSE Gated([row EXCEPT !.reported = TRUE])

\* (mutant) a late report reaches a terminated cluster.
ReadyUnguarded(row, w) == Gated([row EXCEPT !.ready = @ \cup {w}])

\* mark_member_ready; likewise.
WithReady(row, w) ==
  IF row.status = "terminated" THEN row
  ELSE Gated([row EXCEPT !.ready = @ \cup {w}])

\* POST /v1/clusters/{id}/ready by a worker that belongs to the cluster.  The
\* body may carry a layer distribution, recorded first if the head sent it.
ReportReady(w, carriesLayers) ==
  /\ Idle
  /\ workers[w].cluster_id # 0
  /\ LET c == workers[w].cluster_id
         row == clusters[c]
         told == IF carriesLayers /\ workers[w].ring_position = 0
                 THEN WithDistribution(row) ELSE row
     IN clusters' = [clusters EXCEPT ![c] = WithReady(told, w)]
  /\ UNCHANGED <<workers, created, pc, handler, broken, faults>>

\* A layer_distribution frame from the head over its WebSocket.
ReportLayers(w) ==
  /\ Idle
  /\ workers[w].cluster_id # 0
  /\ workers[w].ring_position = 0
  /\ LET c == workers[w].cluster_id IN
     clusters' = [clusters EXCEPT ![c] = WithDistribution(clusters[c])]
  /\ UNCHANGED <<workers, created, pc, handler, broken, faults>>

-----------------------------------------------------------------------------
(* Faults.                                                                  *)

\* The cluster a fault leaves half assigned or half dissolved.
Severed == IF pc \in {"assign", "dissolve"} THEN {cur} ELSE {}

\* The process dies between two transactions, or a store call raises out of
\* a request handler: what is committed stays, the rest never happens.
HandlerDies ==
  /\ ~Idle
  /\ faults < MaxFaults
  /\ faults' = faults + 1
  /\ broken' = broken \cup Severed
  /\ Rest
  /\ UNCHANGED <<workers, created, clusters>>

\* update_worker raises for one expired worker: the sweep logs it and goes on.
SweepSkips(w) ==
  /\ pc = "sweep"
  /\ faults < MaxFaults
  /\ faults' = faults + 1
  /\ w \in Pending(snapshot)
  /\ snapshot' = [snapshot EXCEPT ![w] = Blank]
  /\ SweepResumes(snapshot')
  /\ UNCHANGED <<workers, created, clusters, cur, todo, unchecked, leaver,
                 broken>>

\* The teardown of one expired worker raises: the sweep logs it and goes on.
TeardownRaises ==
  /\ pc = "dissolve"
  /\ leaver = 0
  /\ faults < MaxFaults
  /\ faults' = faults + 1
  /\ broken' = broken \cup Severed
  /\ cur' = 0
  /\ todo' = {}
  /\ SweepResumes(snapshot)
  /\ UNCHANGED <<workers, created, clusters, unchecked, snapshot, leaver>>

-----------------------------------------------------------------------------

Init ==
  /\ workers = [w \in Worker |-> Blank]
  /\ created = 0
  /\ clusters = [c \in Cluster |-> Unformed]
  /\ pc = "idle"
  /\ cur = 0
  /\ todo = {}
  /\ unchecked = {}
  /\ snapshot = [w \in Worker |-> Blank]
  /\ leaver = 0
  /\ broken = {}
  /\ faults = 0

Request ==
  \/ \E a \in Account, m \in Model, mem \in Sizes : Register(a, m, mem)
  \/ \E w \in Worker, m \in Model, mem \in Sizes : Reregister(w, m, mem)
  \/ \E w \in Worker : Heartbeat(w)
  \/ \E w \in Worker : LeaveStart(w)
  \/ \E w \in Worker, b \in BOOLEAN : ReportReady(w, b)
  \/ \E w \in Worker : ReportLayers(w)

Time ==
  \/ \E w \in Worker : GraceElapses(w)
  \/ \E w \in Worker : HeartbeatExpires(w)
  \/ SweepStart

\* The next transaction of the running handler.
Continue ==
  \/ \E m \in Model : FormCluster(m)
  \/ \E m \in Model : SubnetsExhausted(m)
  \/ CheckDone
  \/ AssignMember
  \/ \E w \in Worker : SweepWorker(w)
  \/ ReleaseMember
  \/ Terminate
  \/ DeleteWorker

Fault ==
  \/ HandlerDies
  \/ \E w \in Worker : SweepSkips(w)
  \/ TeardownRaises

Next == Request \/ Time \/ Continue \/ Fault

Spec == Init /\ [][Next]_vars

\* Fairness.  A running handler is not abandoned by the event loop.  The
\* sweep is a timer of that loop and the loop serves its callbacks in order,
\* so it runs even if other handlers keep coming.  Time passes: a worker that
\* is online and fresh is heard again or its heartbeat expires.
HeardOrExpired(w) ==
  workers[w].online /\ workers[w].fresh /\ (Heartbeat(w) \/ HeartbeatExpires(w))

Fairness ==
  /\ WF_vars(Continue)
  /\ SF_vars(SweepStart)
  /\ \A w \in Worker : SF_vars(HeardOrExpired(w))

FairSpec == Spec /\ Fairness

-----------------------------------------------------------------------------
(* Properties.                                                              *)

\* Every variable stays in its domain, whatever the faults.
TypeOK ==
  /\ workers \in [Worker -> WorkerRow]
  /\ created \in 0..MaxWorker
  /\ clusters \in [Cluster -> ClusterRow]
  /\ pc \in {"idle", "check", "assign", "sweep", "dissolve", "revoke"}
  /\ cur \in 0..MaxCluster
  /\ todo \subseteq Worker
  /\ unchecked \subseteq Model
  /\ snapshot \in [Worker -> WorkerRow]
  /\ leaver \in 0..MaxWorker
  /\ broken \subseteq Cluster
  /\ faults \in 0..MaxFaults

\* What a row of w, stored or read, may say of the clusters in table.
Names(row, w, table) ==
  IF row.cluster_id = 0
  THEN row.assigned_ip = NoIP /\ row.ring_position = -1 /\ row.status # "assigned"
  ELSE LET cluster == table[row.cluster_id] IN
       /\ cluster.status # "none"
       /\ row.ring_position = cluster.ring[w]
       /\ row.ring_position >= 0
       /\ row.assigned_ip = AddressOf(cluster, w)

\* A worker row and the membership rows never contradict each other: a row
\* that names a cluster names one it is a member of, with the address and
\* the ring position it has there, and a row that names none holds neither.
\* It must survive the row the sweep writes back after a teardown has
\* already released it (liveness._check), re-registration, and any crash.
Membership == \A w \in Worker : Names(workers[w], w, clusters)

\* Two clusters that are not terminated never share a subnet
\* (scheduler._next_subnet), however many were dissolved in between.
NoSharedSubnet ==
  \A c, d \in Cluster :
    Active(c) /\ Active(d) /\ clusters[c].subnet = clusters[d].subnet => c = d

\* No two workers hold the same address: a subnet is not given away while a
\* row still has an address in it, as a row of a terminated cluster can after
\* a fault in the sweep.
NoSharedIP ==
  \A v, w \in Worker :
    /\ workers[v].assigned_ip = workers[w].assigned_ip
    /\ workers[v].assigned_ip # NoIP
    => v = w

\* A cluster is live exactly when every member has reported ready and the
\* head its distribution, in whichever order the reports came
\* (mark_member_ready, set_cluster_distribution).
LiveGate ==
  \A c \in Cluster :
    Active(c) =>
      ((clusters[c].status = "live") <=>
         (Members(c) \subseteq clusters[c].ready /\ clusters[c].reported))

KeepsHistory ==
  \A c \in Cluster :
    /\ clusters[c].status = "terminated" => clusters'[c] = clusters[c]
    /\ clusters[c].status # "none" =>
         /\ clusters'[c].status # "none"
         /\ clusters'[c].model = clusters[c].model
         /\ clusters'[c].subnet = clusters[c].subnet
         /\ clusters'[c].ring = clusters[c].ring

\* Late reports and repeated dissolves leave history alone: a terminated
\* cluster never changes again, and no cluster ever changes its model, its
\* subnet or its ring.
HistoryFrozen == [][KeepsHistory]_vars

\* Between handlers, a cluster no fault and no re-registration has touched is
\* whole: every member is online, assigned to it and serves its model, and
\* together they bring the memory the model needs.  Without faults and
\* re-registrations that is every cluster: the stale rows and the repeated
\* dissolves of a sweep touch no cluster but the one they end.
MemberIntact ==
  /\ faults = 0 /\ Restless = {} => broken = {}
  /\ Idle =>
       \A c \in Cluster \ broken :
         Active(c) =>
           /\ \A w \in Members(c) :
                /\ workers[w].cluster_id = c
                /\ workers[w].status = "assigned"
                /\ workers[w].online
                /\ workers[w].model = clusters[c].model
           /\ Members(c) # {}
           /\ Memory(Members(c)) >= Required[clusters[c].model]

\* A comment in register_worker: registering again with the same public key
\* is not a conflict, it is the same device.
KnownDeviceReturns ==
  \A w \in Restless :
    Idle /\ Exists(w) => ENABLED \E m \in Model, mem \in Sizes : Reregister(w, m, mem)

\* What docs/protocol/negotiation.md says of every cluster, touched or not:
\* it exists only while it has all its members online.
AllMembersOnline ==
  Idle => \A c \in Cluster : Active(c) => \A w \in Members(c) : workers[w].online

\* The same document says that a cluster is dissolved when a member goes
\* offline: a worker the sweep has marked offline brings its cluster down, or
\* comes back.
OfflineEndsCluster ==
  \A c \in Cluster, w \in Worker :
    (Idle /\ Active(c) /\ workers[w].cluster_id = c /\ ~workers[w].online)
      ~> (clusters[c].status = "terminated" \/ workers[w].online)

\* A member that falls silent does not hold its cluster for ever: the cluster
\* is dissolved unless the member is heard again.
SilenceEndsCluster ==
  \A c \in Cluster, w \in Worker :
    (Active(c) /\ w \in Members(c) /\ ~workers[w].fresh)
      ~> (clusters[c].status = "terminated" \/ workers[w].fresh)

\* docs/protocol/tunnel.md: the server waits for the members of an assembling
\* cluster for a bounded time only; whoever does not report, it does not stay
\* assembling for ever.
AssemblyEnds ==
  \A c \in Cluster :
    clusters[c].status = "assembling" ~> clusters[c].status # "assembling"

\* A waitlist with enough memory is not left waiting for ever while there is
\* a subnet: its workers' heartbeats bring about the cluster, or they fall
\* silent, or other clusters take the subnets.
QuorumIsUsed ==
  \A m \in Model : (CanForm(m) /\ FreeSubnets # {}) ~> (~CanForm(m) \/ FreeSubnets = {})

-----------------------------------------------------------------------------
(* The inductive invariant behind Membership, NoSharedSubnet, NoSharedIP,   *)
(* LiveGate and HistoryFrozen.                                              *)

\* The rows the sweep has read are rows Membership allows, too: they are
\* written back.
SnapshotNames == \A w \in Worker : Names(snapshot[w], w, clusters)

\* Outside a sweep no row is waiting to be written back; a handler at work on
\* a cluster has one; and while its members are being assigned it is active.
HandlerState ==
  /\ pc \in {"idle", "check", "assign"} => Pending(snapshot) = {}
  /\ pc \in {"assign", "dissolve"} => cur \in Cluster
  /\ pc = "assign" => Active(cur) /\ todo # {} /\ todo \subseteq Members(cur)

\* A ring slot has one member.
SlotsDistinct ==
  \A c \in Cluster, v, w \in Worker :
    clusters[c].ring[v] = clusters[c].ring[w] /\ clusters[c].ring[v] >= 0 => v = w

\* A cluster holds its subnet while it is active, while a row names it, and
\* while a row the sweep may yet write back names it.
Held(c) ==
  \/ Active(c)
  \/ \E w \in Worker : workers[w].cluster_id = c \/ snapshot[w].cluster_id = c

HeldApart ==
  \A c, d \in Cluster :
    Held(c) /\ Held(d) /\ clusters[c].subnet = clusters[d].subnet => c = d

IInv ==
  /\ TypeOK
  /\ Membership
  /\ SnapshotNames
  /\ HandlerState
  /\ SlotsDistinct
  /\ HeldApart
  /\ LiveGate

-----------------------------------------------------------------------------
(* What MemberIntact needs besides.                                         *)

\* An id has a row from its registration until it is revoked.  A row that the
\* sweep has read is there still, and has lost its cluster since at most.
RowsInUse ==
  \A w \in Worker :
    /\ w > created => ~Exists(w)
    /\ ~Exists(w) => workers[w] = Blank
    /\ snapshot[w] # Blank =>
         /\ Exists(w) /\ snapshot[w].status # "absent"
         /\ workers[w].cluster_id \in {0, snapshot[w].cluster_id}

\* A cluster id that is not yet taken has nothing recorded for it.
Untaken == \A c \in Cluster : clusters[c].status = "none" => clusters[c] = Unformed

\* The rows a handler is still to write; and a worker that leaves is out of its
\* cluster before its row is deleted.
HandlerRows ==
  /\ pc = "assign" => \A w \in todo : workers[w].status = "waitlisted"
  /\ pc = "dissolve" => \A w \in todo : Exists(w)
  /\ pc = "revoke" => leaver # 0
  /\ leaver # 0 =>
       /\ pc \in {"dissolve", "revoke"}
       /\ workers[leaver].cluster_id = 0 \/ (pc = "dissolve" /\ leaver \in todo)

Tearing(c) == pc = "dissolve" /\ cur = c
Joining(w, c) == pc = "assign" /\ cur = c /\ w \in todo

\* w is a member of c in good order, or about to be made one.
Serves(w, c) ==
  /\ workers[w].online
  /\ workers[w].model = clusters[c].model
  /\ Joining(w, c) \/ (workers[w].cluster_id = c /\ workers[w].status = "assigned")

Whole(c) ==
  /\ \A w \in Members(c) : Serves(w, c)
  /\ Members(c) # {}
  /\ Memory(Members(c)) >= Required[clusters[c].model]

\* MemberIntact, between any two transactions.
StaysWhole == \A c \in Cluster \ broken : Active(c) /\ ~Tearing(c) => Whole(c)

\* Without faults and re-registrations:
\* a row names an active cluster, or one that is torn down and which it is still
\* to be released from;
NamesActive ==
  \A w \in Worker :
    LET c == workers[w].cluster_id IN
    c # 0 => IF Tearing(c) THEN w \in todo ELSE Active(c)

\* a teardown releases workers from its own cluster only;
ReleasesOwn ==
  pc = "dissolve" => \A w \in todo : workers[w].cluster_id \in {0, cur}

\* and what the sweep has read, it has read of whole clusters.
ReadWhole ==
  \A v, w \in Worker :
    LET c == snapshot[v].cluster_id IN
    c # 0 /\ w \in Members(c) =>
      workers[w].cluster_id \in {0, c} /\ snapshot[w].cluster_id \in {0, c}

Undisturbed == broken = {} /\ NamesActive /\ ReleasesOwn /\ ReadWhole

WInv ==
  /\ RowsInUse
  /\ Untaken
  /\ HandlerRows
  /\ StaysWhole
  /\ (faults = 0 /\ Restless = {}) => Undisturbed
=============================================================================
