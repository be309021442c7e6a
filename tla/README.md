# A TLA+ model of prima-pool-server

prima-pool-server is the control plane of an inference pool.  Devices register
as workers and send heartbeats; when the workers waiting for a model have enough
memory together, the server makes a cluster of them, hands each an address in a
subnet of the cluster's own, waits until all are ready and the head has reported
how the layers are split, and dissolves the cluster when a member falls silent
or leaves.  Users' requests are proxied to the head of a live cluster and
recorded.  Everything is kept in one SQLite database.

This directory models that system in TLA+, checks it with TLC and proves its
safety with TLAPS.  `PROJECT.json` lists the components, the runs,
the mutations each property detects, the source lines of each definition, the
findings, the hazards and the theorems.

## 1. The system

| Component | State | Operations | Hard because |
| --- | --- | --- | --- |
| Worker registry (`app.py` 575-723, `store.py` 979-1035) | rows of `workers` | register, register again, heartbeat, revoke | a device may register again in any state; the grace period |
| Scheduler (`scheduler.py`) | none of its own: `workers`, `clusters`, `cluster_members` | `check_and_form`, `_dissolve_cluster` | several transactions per call, a fault between any two; subnets are reused |
| Liveness monitor (`liveness.py`) | a list of rows, for the length of a sweep | `_check` every third of the timeout | rows are read once and written back one by one; errors are logged and passed over |
| Readiness gate (`store.py` 1083-1176, `app.py` 739-783, 1156-1211) | `ready`, `layer_window`, `distribution_reported`, `status` | ready report, layer distribution | two channels, any order, late and repeated reports |
| Push hub (`ws_hub.py`, `app.py` 1213-1263) | worker id -> socket | connect, disconnect, send, broadcast | awaits between reading and using the map; frames in tasks of their own |
| Proxy and router (`app.py` 853-963, `router.py`) | requests in flight | choose a cluster, forward, record | the cluster may end while the head is answering |
| Accounting and attribution (`store.py` 843-968, `app.py` 71-180, 983-1153) | rows of `requests`, windows of `cluster_members` | record, list, attribute, add up | joined when asked for: shares of workers that left, late reports, cascades |
| Accounts, permissions, bootstrap (`app.py` 191-366, 430-572) | rows of `accounts`, tokens that are out | register, login, change password, patch permissions, bootstrap | last-admin rule; two transactions of the bootstrap; rights looked up late |
| API keys (`app.py` 368-428, 460-502, `store.py` 787-841) | rows of `api_keys` | create, revoke, bind | a key speaks for the worker it was last bound to |
| Migrations and legacy import (`store.py` 339-690) | the database file, its schema, an open transaction | import, create, alter, backfill, rebuild | SQLite commits some statements at once and others together; interrupted and repeated runs |
| Server WireGuard (`wg_server.py`, `scheduler.py` 207-213, 236-242) | a key per process, an interface per cluster | up, down, key for the config | failures are logged only; restarts bring nothing up again |
| Relay, CLI, settings, dashboard | files, environment | - | no state of the pool |

How they interact: HTTP handlers call the store and the scheduler directly; the
scheduler calls the store, the WireGuard helper and, through tasks of the event
loop, the push hub; the monitor is a timer of the same loop and calls the
scheduler.  Every handler is `async def`, and none but the proxy and the
WebSocket endpoint awaits between its store calls.  Handlers therefore do not
interleave; what can come between two store calls of one handler is the end of
the process or an error of a store call.

What makes the components correct: the tables agree with each other whatever is
interrupted; an active cluster is whole; a subnet and an address are never held
twice; a cluster is live exactly when every report is in; history is never
rewritten, by no late report and no upgrade; silence ends a cluster; enough
waiting memory becomes a cluster; a client that missed a frame finds out; a
report counts for the device that made it; what is recorded of a request is true and outlives the cluster, and its
tokens are shared out once; no request is answered by a cluster of the past
that the server has left;
rights come from an admin, and there is one; a server serves from a database of
its own version that says what the older one said.

## 2. The modules

| Module | What it is |
| --- | --- |
| `ClusterPool` | registry, scheduler, monitor and gate, one action per transaction |
| `MCClusterPool` | its instances for TLC |
| `PoolContract` | what the pool promises about membership, one action per handler |
| `PoolRefinement`, `MCPoolRefinement` | the mapping from `ClusterPool` to `PoolContract`, and its instance |
| `PushHub` | sockets, the hub's map and the broadcasts, cut at every await |
| `WorkerKeys`, `MCWorkerKeys` | which worker a key speaks for, one action per handler |
| `InferenceProxy`, `MCInferenceProxy` | requests in flight, the server's WireGuard interfaces, and what is recorded |
| `Attribution`, `MCAttribution` | layer reports, and what the logs and statistics make of recorded requests |
| `Accounts`, `MCAccounts` | admins, bans, capabilities, passwords, keys, sessions, and the first admin |
| `Migration`, `MCMigration` | opening the database: import, schema script, upgrades, statement by statement |
| `ClusterPoolProofs`, `PoolContractProofs`, `PushHubProofs`, `WorkerKeysProofs`, `InferenceProxyProofs`, `AttributionProofs`, `AccountsProofs`, `MigrationProofs` | the theorems |

`ClusterPool` is the centre.  The others each take up one thing it leaves out,
with as much of the pool as that needs, simplified to what `ClusterPool`
allows: clusters are formed of any free workers and end at any time.

### ClusterPool

State and source: `workers` and `clusters` are the tables (`cluster_members` is
the field `ring` of a cluster row, with `ready`; the layer windows are reduced to
whether a distribution was reported).  `created` numbers the workers in the order
of `created_at`, the order the waitlist uses.  `pc`, `cur`, `todo`, `unchecked`,
`snapshot` and `leaver` are the local variables of the one handler that runs:

| `pc` | The handler is | Its next transaction |
| --- | --- | --- |
| `idle` | none | any request, a sweep, time |
| `check` | in `check_and_form` | `FormCluster`, or `SubnetsExhausted`, or `CheckDone` |
| `assign` | in the loop of `_form_cluster` | `AssignMember` |
| `sweep` | in the loop of `_check` | `SweepWorker` |
| `dissolve` | in `_dissolve_cluster` | `ReleaseMember`, then `Terminate` |
| `revoke` | before `delete_worker` | `DeleteWorker` |

A request handler's own first transaction is the action that starts it
(`Register`, `Reregister`, `Heartbeat`, `LeaveStart`, `ReportReady`,
`ReportLayers`).  `report_ready` makes two transactions if it carries a
distribution; they are one action, because a fault between them leaves the state
`ReportLayers` leaves.

`SweepStart` reads all expired rows; `SweepWorker` writes one of them back whole,
as it was read, with `online = FALSE`.  If the row read names a cluster, that
cluster is dissolved, although an earlier step of the same sweep may have
dissolved it already.  This is how the code behaves, and most of what the safety
properties are about.

Abstractions.  Time is two bits per worker, `fresh` and `assignable`, cleared and
set by `HeartbeatExpires` and `GraceElapses` at any idle moment.  Only heartbeats
keep a worker fresh, as in the code; `tunnel.md` 28-31 has a WebSocket pong count,
too, which no handler looks at.  A worker's GGUF
hash is a function of its model, since registration refuses any other hash than
the registered one (a model without a registered hash never forms a cluster).
A subnet is its number, an address the pair of subnet and host number.  An id is
never reused.  The members' config, notifications and WireGuard calls change no
table and are left out here (`PushHub` and `InferenceProxy` have them); so are
public keys and API keys (`WorkerKeys`, `Accounts`).  The order of the models in
the registry is any order.  The loop of `_form_cluster` is the closed form
`Batch`: the shortest prefix of the waitlist (`UpTo`) that suffices, up to the
first worker at which the running total is enough (`Enough`).

Faults.  `HandlerDies` is the process ending, or a store call raising out of a
request handler, between two transactions.  `SweepSkips` and `TeardownRaises` are
the exceptions the sweep logs before it goes on.  `broken` records, for the
properties only, the clusters that a fault or a re-registration has touched.

### PoolContract and PoolRefinement

`PoolContract` has no handlers, subnets or snapshots: workers come up and go
down, free workers that are up are taken into a cluster together, reports bring
it live, and it ends for all of its members at once.  `PoolRefinement` maps each
transaction of `ClusterPool` to a step of it or to a stutter: a cluster is formed
at `create_cluster` and ended where its dissolve starts.  This holds without
faults and without re-registrations; the findings show why both are needed.

### PushHub

`serves` is the `cluster_id` of the rows.  `ready` holds the tasks `_schedule`
has created, in order, `running` those suspended in a send: the frame, the
members still to be sent to, and the worker and socket waited for.
`connections` is the hub's map.  A socket's handler is at `accept`, `hello`,
`loop` or `ended`, the awaits of `worker_events`.  A socket whose connection is
lost is no longer `alive`, whoever has noticed.  `told` is what the client on a
socket believes; the client is not in the repository and is taken to do what
the documents ask: on the hello frame it asks `GET /state`, an assigned frame
names its cluster, a dissolved frame ends that one only.  A frame is received
when its send starts, the state that matters being the order; the answer to
`GET /state` is believed as it is given, so that one overtaken by a frame is not
covered.  The store reads of the socket's handler succeed: one that raises in
`send_hello`, which stands before the try block (`app.py` 1248), would leave an
entry of the map without a handler.

### WorkerKeys

`rows` is the workers table without memory and models, `bound` the column
`api_keys.worker_id`, `ring` the members of a cluster.  The device's side is
`name`, the id it was given at registration, and `knows`, the clusters it was
told of, which it may ask about however late.  `credited` is the last call about
a cluster, and the device it counted for.  A binding may fail and be passed over
wherever the code catches its exception; a reply to a registration may be lost.
`Roaming` lets any key of an account be used on any of its workers.  Keys are
presented, never guessed: a key acts for the account that created it.

### InferenceProxy

`inflight` holds where each handler is suspended: at the body, the connection or
the answer.  The cluster is chosen after the body and never looked at again.
`usage` is the `requests` table, with `counted` for a row whose tokens were in
the answer.  A user's key is revoked with its rows; `record_request` then fails
on the foreign key and the failure is logged.

The server is taken to join the networks (`PRIMA_POOL_SERVER_JOIN_WG`).
`tunnel[c]` is the key of the interface it has up for cluster `c`, `told[c]` the
key in the config the head fetched last, and a head answers where these agree
(`HeadsAt`): a request for an address is answered by whichever cluster has the
subnet and an interface by then.  `FormCluster` brings an interface up, or logs
that it cannot (so it is, too, if the server dies before).  A dissolve is two
steps, the last commit (`Terminate`) and `down` (`Leave`), which takes the
interface down or, as its result is not looked at, leaves it.  No handler runs
between them (`leaving`), but the server may die there.  `FixedKey` says whether
the server's key is configured or, as in the run, generated in each process.
`Restart` ends the requests under way; interfaces go with a container and stay on
a bare host.  Two variables are histories that no step looks at: `leftover`, the
clusters whose interface outlived them, and, in a request, `past`, those that had
ended when it was routed.

### Attribution

`clusters` has the rows of `cluster_members` with `layer_window`; a worker that
leaves takes its row of `workers` along, not those.  `Report` is
`set_cluster_distribution`, from either channel and however late; ranks become
workers by `ByWorker`.  `WorkerLog` is the join of `worker_attribution`,
`ClusterTotal` its `SUM` with SQL's `NULL`, `Stats` the sums of the endpoint;
they are operators of the state, since nothing of them is stored.  A request has
one number of tokens, a multiple of every total that occurs, so that shares are
whole numbers: the code's floats and their rounding are left out.  The caps of
the listings and the grouping by model are left out, too.

### Accounts

`process` is the start-up of the server up to the requests it serves; a crash may
come between any two of its transactions, the setting may be missing from a
start (`MayBeUnset`), and each start may open capabilities to all or not
(`open`, of `Switches`).  `sessions` are the accounts of which a token is out:
they outlive bans, demotions, new passwords and restarts.  `keys` and `devices`
say of which accounts there are keys and workers, one of each kind at most.
`SessionAccount`, `KeyAccount`, `MayOperate` and `Can` are the gates of the
handlers, evaluated anew by each request.  `sockets` are open WebSockets, for
which the account is looked up once.  `actor` is whom the last step was a request
of.  A password is one of two; hashing and signing are left out.

### Migration

`disk` is what is committed, `conn` what the open connection sees, `tx` whether a
transaction is open.  Python's `sqlite3` opens one at the first write of rows, and
not for a change of the schema: `Define` is committed at once unless a `Write`
came before it.  `pc` is the statement the start-up is at, and `seen` the columns
it last read with `PRAGMA table_info`.  A database is its tables, those columns
that have changed since v0.3, the permission `can_work`, and the clusters in the
old shape (`blobs`) or the new one (`members`); `Content` is what either says.
`Init` is no database with any snapshot, good, damaged or unreadable, or the
database of one of four earlier versions.  While it serves, the server changes
what the migrations touch (`Operation`), so that a later start meets it.

## 3. What is checked

| Run | Instance | Shows |
| --- | --- | --- |
| `faults` | 3 workers, 2 clusters, 2 subnets, one fault at any point, a device that registers again at any time | `Membership`, `NoSharedSubnet`, `NoSharedIP`, `LiveGate`, `HistoryFrozen`, and `MemberIntact` for the clusters not touched |
| `live` | 2 workers, 2 clusters, two models that need 2 and 1, **1 subnet**, grace period, fair | `TypeOK`, `SilenceEndsCluster`, `QuorumIsUsed` |
| `refinement` | 3 workers of memory 1 or 2, 2 clusters, a model that needs 2, no fault, no re-registration | `ImplementsContract`, `ServesWhole`, and `MemberIntact` for every cluster: no fault-free history touches a cluster it does not end |
| `push` | 2 workers, 3 sockets, 2 clusters, 3 broadcasts under way | `BeliefConverges`, `EntryHasHandler` |
| `keys` | 2 devices of one account, 1 of another, 3 worker ids, 2 clusters | `BoundInAccount`, `AttributedToCaller` |
| `proxy` | 2 keys, 1 model, 2 clusters and subnets, 1 request, 2 restarts, a key generated at each start | `RevokedLeavesNothing`, `AnswersInPlace`, `MismatchIsOlder`, `UsageSurvives` |
| `accounts` | 3 accounts, one of them with a password, keys and a worker, 2 crashes, the setting and the switches there or not | `AdminRemains`, `Authority` |
| `migration` | 50 contents of a database, as 4 versions and as 3 kinds of snapshot, or none; 2 crashes, fair | `ServesCurrent`, `ContentKept`, `StartsAgain` |
| `attribution` | 2 accounts, 3 workers, 2 keys, 2 clusters of two, 2 requests, 4 reports | `SharesAddUp`, `StatsAddUp`, `EndedIsSettled` |
| `assembly_timeout`, `push_reconnect`, `migration_lost` | the smallest that shows it | the findings below |

Bounds: `MaxWorker` and `MaxCluster` end the numbering of ids, `MaxFaults` the
faults, `Restless` names the workers whose device may register again,
`MaxSubnet` stands for the 255 of the code.  Three workers and two clusters are
what the hazards take: two members that expire in one sweep (a row is written
back after its cluster is gone), a third worker to form another cluster with one
of them, and a first cluster whose subnet the second may want.  One fault cuts
any handler at any transaction.  In `live`, a worker that could be a cluster by
itself meets a pool whose only subnet is taken.  Every revoked worker uses up an
id, so a bounded pool can come to a stop that the server does not know; deadlock
is therefore checked in `migration` only, where the server never stops.

In `push`, three sockets are one reconnect and one other member, which it takes
for a broadcast to be slow at one member while another reconnects; two clusters
let a late frame of the first meet the second.  In `keys`, two devices of one
account are in one cluster, or one is alone in it when the other's late call
arrives, and a third worker id lets a device come back after it has left.  In
`proxy`, two clusters may have one subnet after another, or each its own; requests
meet only in the tables, and every property is of each by itself, so one will do
(two were tried with one key and one restart); there is a second key for
it to be unaffected by, and a third start for an interface of the second.  In `accounts`, three accounts can demote each
other in any order; the flags, password, keys and worker of one (`Provider`) are
enough, as no step relates those of two.  In `attribution`, the workers of one
account are all of a ring or half of it, and both clusters may have a worker in
common; the reports are empty, partial, all zero, equal, and one with a forwarder
and a rank no ring has.  In `migration`, contents are clusters in every state the gate
allows, with every kind of distribution, beside an ended one; two crashes let a
start meet what an interrupted start has left of an interrupted start.  The runs
number clusters, sockets, worker ids and requests, and end when they are used up.

Fairness, for `live`, `assembly_timeout` and `FaultInSweep.cfg`:

- `WF_vars(Continue)`: a handler that has started is run to its end by the event
  loop, none of its steps waits for anything.
- `SF_vars(SweepStart)`: the sweep is a timer of that loop (`_run`), and its
  exceptions are caught, so it is run again and again whatever else arrives.
  Strong, because the sweep is not enabled while another handler runs.
- `SF_vars(HeardOrExpired(w))`: time passes; an online worker with a fresh
  heartbeat is heard again or its heartbeat expires.  Nothing says that it is
  heard, or that a member reports ready.

`SilenceEndsCluster` needs no good will of the workers.  `QuorumIsUsed` says that
memory that suffices does not wait for ever while there is a subnet: the
heartbeats of the waiting workers have the waitlist checked, or the workers fall
silent and are taken off it.  Two models are needed for it: one that never has
enough workers must not keep the other one waiting.

For `migration`: `WF_vars(Import \/ Upgrade)`, which includes `Start`.  A start-up
waits for nothing, and a server that has ended is started again
(`docker-compose.yml` 17, `restart: unless-stopped`).  Deaths are bounded, or none
would ever be up; exceptions of the start-up itself are not, and `StartsAgain`
says that no statement raises again and again.

## 4. Findings

Three are listed runs, with what they contradict quoted in `PROJECT.json`:

- `assembly_timeout`: nothing bounds the wait for the reports of an assembling
  cluster.  A member that is heard and never reports holds the others for ever;
  the documents promise 60 seconds.
- `push_reconnect`: `disconnect` removes a worker's entry whatever socket it
  holds.  The end of an old socket's handler, or a failed send, cuts off the
  socket that has replaced it; the worker is pushed nothing until it reconnects.
- `migration_lost`: the import creates the database file before its rows are
  committed.  If the server dies in between, or a row raises, the next start
  finds a database and passes over the snapshot.

More statements of the documents and comments do not hold of the code.  Each is a
property of its module, with a configuration that refutes it
(`tlc -config <file> <module>`); they are not among the listed runs, which are
kept to the questions that matter most.

| Configuration, module | Property | What the code does | What is said of it |
| --- | --- | --- | --- |
| `Reregistered.cfg`, `MCClusterPool` | `AllMembersOnline` | a member that registers again is stored waitlisted and offline (`app.py` 667-669) and its cluster stands; the sweep does not see it, and it may be assigned to a second cluster | a cluster exists only while it has all its members online (`negotiation.md` 266-267) |
| `CrashWhileForming.cfg`, `MCClusterPool` | `AllMembersOnline` | `create_cluster` is committed before its members' rows; a cluster left so is dissolved by nobody and holds its subnet for good | the same |
| `FaultInSweep.cfg`, `MCClusterPool` | `OfflineEndsCluster` | `online = False` is stored before the teardown (`liveness.py` 61-63); if that raises, no later sweep looks at the worker, and its cluster stands while it stays away | a cluster is dissolved when a member goes offline (`negotiation.md` 267-269) |
| `FullAccount.cfg`, `MCClusterPool` | `KnownDeviceReturns` | the cap is looked at before the key (`app.py` 655-658): a device of a full account cannot register again | registering again with the same key is not a conflict (`app.py` 650-653) |
| `KeysRevoked.cfg`, `MCWorkerKeys` | `RevocationRemoves` | a revoked key's worker keeps its place (`app.py` 501) | revoking a worker key removes the worker from any waitlist and cluster (`negotiation.md` 155-156) |
| `KeysBound.cfg`, `MCWorkerKeys` | `BoundToOwn` | any call that names another worker of the account re-binds the key (`app.py` 388-391) | a key is bound to the worker it registered (`assignment.md` 46-47) |
| `KeysReregistered.cfg`, `MCWorkerKeys` | `AttributedToCaller` | the fallback of `_bound_worker` (`app.py` 417) is taken for a key that is bound to a worker elsewhere, too; it takes a device that registered again while in a cluster | reports are attributed to the correct device (`assignment.md` 47-49) |
| `ProxyReuse.cfg`, `MCInferenceProxy` | `ProcessedByCluster` | the address is all that is kept of the choice: a later cluster with the subnet may serve a request recorded under the earlier | `cluster_id` is the cluster that processed the request (`usage-and-accounting.md` 18) |
| `ProxyZero.cfg`, `MCInferenceProxy` | `NoZeroEntries` | plain answers without usage are recorded with zero tokens (`app.py` 950-954) | no false zero-token entries (`usage-and-accounting.md` 23-25) |
| `ProxyJoined.cfg`, `MCInferenceProxy` | `LiveIsJoined` | a failure of `up` is logged, and a restart brings nothing up (`scheduler.py` 209-213); requests are routed to the cluster all the same | the server brings up an interface per cluster (`tunnel.md` 71) |
| `ProxyLeftover.cfg`, `MCInferenceProxy` | `NeverServedByPast` | `down` is not checked, and the server may die before it: an interface that stays up may carry a request to the head of a cluster that had ended before it was routed | the server leaves the network of a dissolved cluster (`scheduler.py` 236) |
| `ProxyKey.cfg`, `MCInferenceProxy` | `KnownKey` | a generated key is another one in the next process; an interface that stayed up has the old one | the key is auto-generated if unset (`README.md` 265) |
| `AttributionZero.cfg`, `MCAttribution` | `ForwarderHasShare` | where every window is zero, the share is unknown (`app.py` 83) | a forwarder gets a share of 0.0 (`usage-and-accounting.md` 63) |
| `AttributionReported.cfg`, `MCAttribution` | `RecordedIsSettled` | the head of an active cluster may report again, and the shares of requests recorded before change with it | the head never re-reports (`store.py` 446-447) |
| `AccountsCrash.cfg`, `MCAccounts` | `OperatorExists` | account and promotion are two transactions (`app.py` 222-224); after a crash between them the name is taken | a fresh deploy gains an operator (`app.py` 195-197) |
| `AccountsBan.cfg`, `MCAccounts` | `SomeoneAdministers` | only demotions are checked for the last admin (`app.py` 556), who may be banned | the pool must always have one (`app.py` 543-544) |
| `AccountsSocket.cfg`, `MCAccounts` | `BannedIsGone` | the ban is looked at when a WebSocket is opened (`app.py` 1238) and never again | the WS channel rejects a banned account (`README.md` 57-58) |
| `AccountsWork.cfg`, `MCAccounts` | `WorkersPermitted` | `can_work` is looked at when a worker registers (`app.py` 584); one that is registered goes on after the flag or the switch is taken back | `can_work` permits to register and operate workers (`README.md` 55; `negotiation.md` 59 has registration only) |

## 5. What is proved

`ClusterPoolProofs` proves, for any accounts, models, sizes, bounds, faults and
re-registrations, under the named assumptions of `ClusterPool` on its constants
(`ModelAssumption`, `BoundAssumption`, `RestlessAssumption`):

| Theorem | Statement |
| --- | --- |
| `PoolTypes` | `Spec => []TypeOK` |
| `PoolMembership` | `Spec => []Membership` |
| `PoolSubnets` | `Spec => []NoSharedSubnet` |
| `PoolAddresses` | `Spec => []NoSharedIP` |
| `PoolGate` | `Spec => []LiveGate` |
| `PoolHistory` | `Spec => HistoryFrozen` |
| `PoolWhole` | `Spec => []MemberIntact` |
| `PoolServesWhole` | `Spec => []ServesWhole`, if `MaxFaults = 0` and `Restless = {}` |
| `PoolImplementsContract` | `Spec => ImplementsContract`, if `MaxFaults = 0` and `Restless = {}` |

The first six are not inductive.  `IInv` adds four parts:

- `SnapshotNames`: the rows of the running sweep fit the clusters as the stored
  rows do, as they are written back.  Clusters keep their subnet and ring for
  ever, which is why a stale row still fits.
- `HandlerState`: there are no such rows outside a sweep, `cur` is a cluster, and
  the cluster being assigned is active with `todo` among its members.
- `SlotsDistinct`: a ring has no slot twice, which follows from `RingOf`
  numbering the workers of a batch by how many are older (`RingOfIsRing`).
- `HeldApart`: clusters that are active, or that a stored or waiting row names,
  have different subnets.  `NoSharedSubnet` alone does not survive the forming of
  a cluster after a fault has left a row in a terminated one.

The argument: `RowsKept` shows that every step but `FormCluster` keeps what a
cluster row says; `FormCluster` fills an empty row (`FormsOne`) with a subnet
that nothing holds (`FormsApart`: a held subnet is used by an active cluster or
an address, since no row waits to be written back while clusters are formed);
`NamedBefore` and `ReadBefore` show that no other step makes a cluster held.
`NoSharedIP` follows from `Membership`, `SlotsDistinct` and `HeldApart`.

`MemberIntact` needs `WInv` besides:

- `StaysWhole`: it holds at every transaction, of the clusters not being torn
  down, where a member still to be assigned counts as one (`Joining`).
- `RowsInUse`, `Untaken`, `HandlerRows`: rows a handler is to write, or the sweep
  has read, are there still; a row read has lost its cluster since at most; an id
  not yet taken has nothing recorded; a worker that leaves is out of its cluster
  before its row is deleted.
- `Undisturbed`, while there has been no fault and no re-registration is
  possible: every row names an active cluster, or the one torn down, from which
  it is still to be released (`NamesActive`); a teardown releases members of its
  own cluster only (`ReleasesOwn`); and the rows of a sweep were read of whole
  clusters (`ReadWhole`).  Therefore a stale row written back, or a dissolve the
  sweep repeats, touches no cluster but the one it ends.

The memory of a batch suffices because `Batch` is a prefix up to the least
worker of `Enough`, and that least worker exists: the naturals are well-founded
(`MinIsLeast`).  `RegisterWrites`, `SweepWrites` and their like say what each
transaction writes; the later steps cite them instead of the actions.

The refinement adds `Calm`: both invariants, no fault so far, nothing to
re-register.  `Placed` is its core: a worker's place in the contract, the cluster
its row names while that cluster is active, is the cluster of which it is a
member.  So places change with clusters alone, and each transaction is a step of
the contract or a stutter (`StepMaps`): `Forms` at `create_cluster`, `Dissolves`
where a teardown starts, `UpAndDown` where a row's flag changes, `Reports` at the
gate, `Stutters` for the rest.  The two hypotheses are those of the `refinement`
run; `CrashWhileForming.cfg` and `Reregistered.cfg` show what goes wrong without
them.

`PoolContractProofs` proves `Spec => []Wholeness` of the contract for any
workers and any positive numbers as clusters.

`PushHubProofs` proves, under `HubAssumption`:

| Theorem | Statement |
| --- | --- |
| `MapForgets` | `Spec => []EntryHasHandler` |
| `BeliefsConverge` | `Spec => []BeliefConverges` |

`MapForgets`: a socket's worker never changes, and the two ways a handler ends
its loop or gives up a send take away the entry of that worker, whichever socket
it names.  A lost connection therefore leaves the map as soon as its handler is
resumed.  That the same `disconnect` may take away another socket is the finding
`push_reconnect`.

`BeliefConverges` speaks of the moments at which no broadcast is left; its
invariant `BeliefInv` (of `PushHub`) says what is left at the others:

- `BeliefIsDue`: what a client in the map believes is true, or the frame that
  corrects it is still to be sent.
- `NoFalseEnd`: nobody is to be told of the end of the cluster it serves, so that
  a dissolved frame sent late, or twice, does no harm.
- `QueueIsRight`: a frame that assigns a worker is followed by the end of that
  cluster, unless the worker serves it, and by its assignment to the one it
  serves; so that a client which connects in between, and hears stale frames after
  its hello, ends up with what is true.
- `BroadcastTypes`: a broadcast under way is of an end, or has no one left.  An
  assignment is sent whole when its task starts, and only ends, whose order does
  not matter, are overtaken.

`SendEffects` is the lemma the steps share: the start of a send tells one client,
and every member with a socket that it has not told is among those left
(`ReachableIsLeft`).  `RingHoldsAll` says of `InRing` that a broadcast leaves out
no member: the places in a ring are a bijection with the finite set of members.

`WorkerKeysProofs` proves, under `KeyAssumption`:

| Theorem | Statement |
| --- | --- |
| `KeysStayInAccount` | `Spec => []BoundInAccount` |
| `CallsCountForCaller` | `Spec => []AttributedToCaller`, if `OwnKeysOnly` |

The first holds of keys that roam and devices that register again, too; it needs
only that ids not yet given out have no row (`Fresh`), so that a binding never
comes to name a row created later.  `OwnKeysOnly` says what the `keys` run says: keys do not roam, are not shared by devices, and no device
registers again.  `OwnInv` is why that suffices: a device has one row; a row is
heard, and gets into a cluster, only under the name its device knows, so that a
registration repeated for a lost reply meets a row that is in no cluster
(`HeardByName`); a cluster has all its members or none (`WholeRing`); and a
device that was told of a cluster is one of them while it has any
(`ToldMembers`).  So the account's only worker in a cluster is the caller's
(`SpeaksForCaller`).  `KeysReregistered.cfg` shows where this breaks.

`InferenceProxyProofs` proves, under `ProxyAssumption`:

| Theorem | Statement |
| --- | --- |
| `RevokedIsGone` | `Spec => []RevokedLeavesNothing` |
| `AnswersAreInPlace` | `Spec => []AnswersInPlace` |
| `KeysOfThisStart` | `Spec => []MismatchIsOlder` |
| `UsageOutlives` | `Spec => UsageSurvives` |

Its invariant adds what the runs do not state.  A row is of a request that has
ended (`RowsOfEnded`), so that a row's request is never started over.  An
interface is of a cluster that is active, is about to be left or has been left
over (`JoinedIsActive`); clusters are formed in the order of their numbers, and
one that has the subnet of an earlier one finds that one terminated
(`SubnetsInTurn`, for which the least free subnet has to be a free one,
`MinIsLeast`); and a request on its way has been given a cluster and nobody's
answer (`RoutedInTurn`).  So the head that answers is left over, the one chosen,
or a later one.  Of the two keys of a cluster the head has the younger, and none
is from the future (`KeysInTurn`), whether keys are configured or generated: a key
that differs from the running server's is an earlier one's.  `ProxyLeftover.cfg`
and `ProxyKey.cfg` show what is left of both: a leftover does answer, and a head
does lose an interface of an earlier start.

`AttributionProofs` proves, for any finite sets of accounts and workers, and any
keys, rings, reports and bounds:

| Theorem | Statement |
| --- | --- |
| `SettledOnceEnded` | `Spec => EndedIsSettled` |
| `TokensAreShared` | `Spec => []SharesAddUp` |
| `StatisticsAddUp` | `Spec => []StatsAddUp` |

`UnitAssumption` says that the tokens of a request are a multiple of every total
of counts that is not zero, so that shares come out whole; without it the first
half of `SharesAddUp` would still hold, rounded down, and the second would not.
The invariant is `TypeOK`, whose `Windows` says that a member's window is what one
report said of it or that nothing is known of any, and `Numbered`: requests are
finitely many, have numbers of their own and clusters that were formed.

- `SettledOnceEnded`: a new request has a new number (`RequestsKept`), a cluster
  that has ended keeps its row (`EndedKept`), and what a log says of a request
  depends on that row alone (`CreditKept`).
- `TokensAreShared`: what the members did (`Work`), times the total, is the tokens
  times the total (`WorkAddsUp`); some members did no more than all
  (`WorkOfSome`); and the rows shown for a request are those of the members that
  exist (`RowsOfRequest`), one each (`CreditedIsDone`).
- `StatisticsAddUp`: adjacent windows part the rows by request (`WindowsAddUp`),
  workers and accounts by worker (`WorkersAddUp`, `AccountsAddUp`); all rows of a
  window, taken request by request, have no more than the tokens of its requests
  (`CreditedIsUsed`), which are, taken account by account, what was used
  (`UsageAddsUp`).

All three parts rest on lemmas about `SumFunctionOnSet` of the community modules,
for any function into the integers and any finite set: an element can be taken
out (`SumTakeOut`), functions compared (`SumCompare`), a set split (`SumSplit`) or
sorted into parts (`SumOfParts`), a factor taken out (`SumScale`), elements
renamed one to one (`SumOfImage`).  The sum is a function on the subsets of a set
that solves an equation; `SolvesExists` shows that there is one and `SolvesOnce`
that there is no other.  Each is proved by `SubsetInduction`: a collection that
has the empty set, and every subset whose subsets with an element less it has,
has all subsets of a finite set.

`AccountsProofs` proves, under `AccountAssumption`, `Spec => AdminRemains`
(`AdminsRemain`) and `Spec => Authority` (`AuthorityHolds`).  If a patch left no
admin, the one who sent it would be the one it demotes, and the only one
(`PatchLeavesOne`); a start-up promotes an account it has just created
(`PromotesNew`).

`MigrationProofs` proves, for any accounts, clusters and contents an older
database or a snapshot may have, and any number of deaths:

| Theorem | Statement |
| --- | --- |
| `DatabaseIsCurrent` | `Spec => []ServesCurrent` |
| `StartsKeepContent` | `Spec => ContentKept` |

The assumptions say that a past content is one the gate allows (`IsInfo`: a ring
without repetitions, readiness and windows of its members) and that `Null` is no
number and no record of windows.  The invariant `IInv` of `Migration`:

- `Sound`, of what is committed and of what the connection sees: rows are in the
  shape the columns say, a table that is missing has no rows, a database without
  `members_json` has none of the old columns and, once it has clusters, all of the
  new ones; in the new shape a live cluster has a distribution.
- `Agrees`: outside a transaction the connection sees what is committed; inside
  one it says the same, except between the import and its commit.
- `Unwritten`: without a file nothing has been written, and the import meets an
  empty database.
- `Staged`: each statement is reached with the columns that the ones before it
  leave, and the columns last looked at are there still.
- `Rebuilt`: from the backfill on, windows are filled in; before the blobs are
  dropped, the members' rows say what the blobs say.

`ContentKept` is then a fact about each statement.  A new column or table says
nothing new (`SchemaGrows`; `can_work` is given to the accounts that are there);
backfilling and lifting rows changes none of what is read (`FilledRow`,
`LiftedRow`); and a row made of blobs reads as the blobs did (`LoadOfMembers`,
`DroppedRow`), which needs the ring to be without repetitions.  The same lemma
shows that an imported row reads as the snapshot does (`ImportedIs`).

Every safety and action property of a passing run is stated by a theorem.  Only
model-checked are the liveness properties `SilenceEndsCluster`, `QuorumIsUsed` and
`StartsAgain`, for which the prover has no rule of fairness.

## 6. The plan

Done: the pool and its contract, the push hub, keys, the proxy with the server's
tunnels, attribution, accounts, migrations, and theorems about all of them, one
for every safety and action property of the passing runs.

## 7. Not modelled

- The relay script, settings, the CLI and the dashboard keep no state of the pool;
  they run commands, read the environment and render text.  Validation of request
  bodies is in the inputs: only bodies that pass it are enumerated.
- The host's WireGuard: that two interfaces of one server contend for its listen
  port (`PRIMA_POOL_SERVER_WG_LISTEN_PORT`), and what the kernel does then, is
  outside the code; in the model any `up` may fail.
- Addresses of clusters of more than 253 members: the numbering of `_assign_ips`
  would reach the server's own address (`.254` unless configured otherwise).
  Within that, addresses are distinct by their numbering (`NoSharedIP`).
- Rounding of shares and effective tokens, and the caps of listings.
- Hashes, signatures and random ids: ids are never reused, credentials are
  presented by those who have them.
