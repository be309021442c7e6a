----------------------------- MODULE Attribution -----------------------------
(***************************************************************************)
(* Whose work a request was.  A request is recorded under the cluster that   *)
(* served it; the cluster's members and the layers each of them held stay    *)
(* in cluster_members when it ends; and the logs and statistics of an        *)
(* account are joined from the two, and from the workers it still has,       *)
(* whenever they are asked for.                                             *)
(*                                                                         *)
(* Prompt and completion tokens are scaled alike: a request has one number.  *)
(* All requests of a cluster are for its model, so that the grouping by      *)
(* model is left out.                                                       *)
(***************************************************************************)
EXTENDS Integers, Sequences, FiniteSets, Functions

CONSTANTS
  Account,     \* accounts
  Worker,      \* workers
  Owner,       \* the account of each worker
  Key,         \* user-scoped API keys
  KeyOwner,    \* the account of each key
  Rings,       \* the rings that are formed, each a sequence of workers
  Reports,     \* the reports that are sent, each from ranks to layer counts
  Unit,        \* tokens of a request, a multiple of every total of counts
  Null,        \* the NULL of SQL
  MaxCluster,  \* bound: clusters ever formed
  MaxRequest,  \* bound: requests ever recorded
  MaxTime      \* bound: the clock

ASSUME OwnerAssumption ==
  /\ IsFiniteSet(Account) /\ IsFiniteSet(Worker)
  /\ Owner \in [Worker -> Account] /\ KeyOwner \in [Key -> Account]
ASSUME RingAssumption == Rings \subseteq Seq(Worker) /\ \A ring \in Rings : ring # <<>> /\ IsInjective(ring)
ASSUME ReportAssumption ==
  \A report \in Reports : DOMAIN report \subseteq Nat /\ Range(report) \subseteq Nat
ASSUME BoundAssumption == MaxCluster \in Nat /\ MaxRequest \in Nat /\ MaxTime \in Nat

Cluster == 1..MaxCluster
Request == 1..MaxRequest

VARIABLES
  workers,   \* the workers that exist
  keys,      \* the keys that exist
  clusters,  \* the clusters, with the rows of their members
  requests,  \* the requests table
  made,      \* how many requests were recorded
  now        \* time.time()

vars == <<workers, keys, clusters, requests, made, now>>

NoCluster == [status |-> "none", ring |-> <<>>, ready |-> FALSE, reported |-> FALSE,
              window |-> <<>>]

Active(c) == clusters[c].status \in {"assembling", "live"}
Members(c) == Range(clusters[c].ring)

-----------------------------------------------------------------------------
(* Clusters and reports.                                                   *)

\* Of free workers, in any order; the head is the first.
Form(c, ring) ==
  /\ clusters[c] = NoCluster
  /\ \A d \in Cluster : d < c => clusters[d] # NoCluster
  /\ Range(ring) \subseteq workers
  /\ \A d \in Cluster : Active(d) => Members(d) \cap Range(ring) = {}
  /\ clusters' = [clusters EXCEPT
       ![c] = [NoCluster EXCEPT !.status = "assembling", !.ring = ring,
                                !.window = [w \in Range(ring) |-> Null]]]
  /\ UNCHANGED <<workers, keys, requests, made, now>>

Gated(row) ==
  IF row.ready /\ row.reported THEN [row EXCEPT !.status = "live"] ELSE row

\* The last ready report of the members.
AllReady(c) ==
  /\ Active(c)
  /\ clusters' = [clusters EXCEPT ![c] = Gated([@ EXCEPT !.ready = TRUE])]
  /\ UNCHANGED <<workers, keys, requests, made, now>>

\* The workers a report names by their ranks, which are counted from 0; what is
\* no rank of the ring is dropped.
ByWorker(ring, report) ==
  LET ranks == {k \in DOMAIN report : k \in 0..(Len(ring) - 1)} IN
  [w \in {ring[k + 1] : k \in ranks} |->
    report[CHOOSE k \in ranks : ring[k + 1] = w]]

\* The code's shares are real numbers; here they come out whole.
ASSUME UnitAssumption ==
  /\ Unit \in Nat /\ Null \notin Nat
  /\ \A ring \in Rings, report \in Reports :
       LET total == SumFunction(ByWorker(ring, report)) IN
       total # 0 => Unit % total = 0

\* (mutant) a report that comes late changes a cluster that has ended.
DistributionAnyTime(row, by) ==
  Gated([row EXCEPT !.reported = TRUE,
                    !.window = [w \in DOMAIN @ |-> IF w \in DOMAIN by THEN by[w] ELSE Null]])

\* set_cluster_distribution: a member that is not in the report has no window,
\* whatever an earlier report said.
WithDistribution(row, by) ==
  IF row.status = "terminated" THEN row
  ELSE Gated([row EXCEPT
         !.reported = TRUE,
         !.window = [w \in DOMAIN @ |-> IF w \in DOMAIN by THEN by[w] ELSE Null]])

\* A report by the head of a cluster, over the WebSocket or with its ready
\* report.  An unknown distribution is the empty report.
Report(c, report) ==
  /\ clusters[c] # NoCluster
  /\ clusters[c].ring[1] \in workers
  /\ clusters' = [clusters EXCEPT
       ![c] = WithDistribution(@, ByWorker(clusters[c].ring, report))]
  /\ UNCHANGED <<workers, keys, requests, made, now>>

Terminate(c) ==
  /\ Active(c)
  /\ clusters' = [clusters EXCEPT ![c].status = "terminated"]
  /\ UNCHANGED <<workers, keys, requests, made, now>>

\* Ends the worker's cluster, and deletes its row; the rows of its membership
\* have no foreign key and stay.
DeleteWorker(w) ==
  /\ w \in workers
  /\ clusters' = [c \in Cluster |->
       IF Active(c) /\ w \in Members(c)
       THEN [clusters[c] EXCEPT !.status = "terminated"] ELSE clusters[c]]
  /\ workers' = workers \ {w}
  /\ UNCHANGED <<keys, requests, made, now>>

-----------------------------------------------------------------------------
(* Requests.                                                               *)

\* Of a cluster that was live when the request came, and may have ended since.
Record(k, c) ==
  /\ made < MaxRequest
  /\ k \in keys
  /\ clusters[c].status \in {"live", "terminated"}
  /\ clusters[c].ready /\ clusters[c].reported
  /\ made' = made + 1
  /\ requests' = requests \cup
       {[id |-> made + 1, key |-> k, cluster |-> c, tokens |-> Unit, at |-> now]}
  /\ UNCHANGED <<workers, keys, clusters, now>>

\* The requests of a key are deleted with it.
RevokeKey(k) ==
  /\ k \in keys
  /\ keys' = keys \ {k}
  /\ requests' = {r \in requests : r.key # k}
  /\ UNCHANGED <<workers, clusters, made, now>>

Tick ==
  /\ now < MaxTime
  /\ now' = now + 1
  /\ UNCHANGED <<workers, keys, clusters, requests, made>>

-----------------------------------------------------------------------------
(* What an account is shown.                                               *)

During(r, begin, end) == begin <= r.at /\ r.at < end

\* The requests an account made, and the tokens they took.
UsageLog(account, begin, end) ==
  {r \in requests : KeyOwner[r.key] = account /\ During(r, begin, end)}
Usage(account, begin, end) ==
  SumFunction([r \in UsageLog(account, begin, end) |-> r.tokens])

\* (mutant) SUM(DISTINCT layer_window).
TotalOfDistinct(row) ==
  LET known == {row.window[w] : w \in Range(row.ring)} \ {Null} IN
  IF known = {} THEN Null ELSE SumFunction([n \in known |-> n])

\* SUM(layer_window): over the members that have one, NULL if none has.
ClusterTotal(row) ==
  LET known == {w \in Range(row.ring) : row.window[w] # Null} IN
  IF known = {} THEN Null ELSE SumFunctionOnSet(row.window, known)

\* (mutant) the workers asked for need not be the account's own.
AnyoneAskedFor(account, wanted) ==
  {w \in workers : IF wanted = {} THEN Owner[w] = account ELSE w \in wanted}

\* The workers the account asked for among those it has; all, if it asked for none.
AskedFor(account, wanted) ==
  {w \in workers : Owner[w] = account /\ (wanted = {} \/ w \in wanted)}

\* One row for a request and a worker that served it.
Credit(r, w) ==
  [request |-> r.id, worker |-> w, cluster |-> r.cluster, tokens |-> r.tokens,
   window |-> clusters[r.cluster].window[w],
   total |-> ClusterTotal(clusters[r.cluster])]

WorkerLog(account, begin, end, wanted) ==
  UNION {{Credit(r, w) : w \in Members(r.cluster) \cap AskedFor(account, wanted)} :
         r \in {q \in requests : During(q, begin, end)}}

HasShare(row) == row.window # Null /\ row.total # Null /\ row.total # 0

\* Effective tokens, nothing where the share is unknown.
Effective(row) == IF HasShare(row) THEN (row.tokens * row.window) \div row.total ELSE 0

Stats(account, begin, end, wanted) ==
  LET rows == WorkerLog(account, begin, end, wanted) IN
  [total     |-> SumFunction([row \in rows |-> row.tokens]),
   effective |-> SumFunction([row \in rows |-> Effective(row)])]

-----------------------------------------------------------------------------
Init ==
  /\ workers = Worker
  /\ keys = Key
  /\ clusters = [c \in Cluster |-> NoCluster]
  /\ requests = {}
  /\ made = 0
  /\ now = 0

Next ==
  \/ \E c \in Cluster :
       \/ \E ring \in Rings : Form(c, ring)
       \/ AllReady(c)
       \/ \E report \in Reports : Report(c, report)
       \/ Terminate(c)
       \/ \E k \in Key : Record(k, c)
  \/ \E w \in Worker : DeleteWorker(w)
  \/ \E k \in Key : RevokeKey(k)
  \/ Tick

Spec == Init /\ [][Next]_vars

-----------------------------------------------------------------------------
(* Properties.                                                             *)

Log(account) == WorkerLog(account, 0, MaxTime + 1, {})

\* The rows that credit somebody with work for the request.
RowsOf(r) == {row \in UNION {Log(a) : a \in Account} : row.request = r.id}
Attributed(r) == SumFunction([row \in RowsOf(r) |-> Effective(row)])

\* The tokens of a request are shared out among the members of its cluster,
\* whoever owns them: never more than it has, and all of them while every member
\* exists and some member is known to have held layers.
SharesAddUp ==
  \A r \in requests :
    LET held == ClusterTotal(clusters[r.cluster]) IN
    /\ Attributed(r) <= r.tokens
    /\ Members(r.cluster) \subseteq workers /\ held \notin {Null, 0} => Attributed(r) = r.tokens

\* Of rows, those of requests recorded so far under clusters that have ended.
Ended(rows) ==
  {row \in rows : /\ clusters[row.cluster].status = "terminated"
                  /\ \E r \in requests : r.id = row.request}

\* Once its cluster has ended, what is shown of a request does not change: a row
\* goes with its worker or with the request's key, the others stay as they are.
EndedIsSettled ==
  [][\A a \in Account :
       Ended(Log(a)') = {row \in Ended(Log(a)) :
                           /\ row.worker \in workers'
                           /\ \E r \in requests' : r.id = row.request}]_vars

\* The statistics of adjacent windows add up to those of both, those of single
\* workers, whoever is asked for, to those of all; and in no window are the
\* accounts together credited with more than they used in it.
StatsAddUp ==
  \A end \in 0..(MaxTime + 1) :
    /\ \A a \in Account :
         LET whole == Stats(a, 0, end, {}) IN
         /\ \A mid \in 0..end :
              LET early == Stats(a, 0, mid, {})
                  late  == Stats(a, mid, end, {}) IN
              /\ early.total + late.total = whole.total
              /\ early.effective + late.effective = whole.effective
         /\ whole.effective = SumFunction([w \in Worker |-> Stats(a, 0, end, {w}).effective])
    /\ SumFunction([a \in Account |-> Stats(a, 0, end, {}).effective])
         <= SumFunction([a \in Account |-> Usage(a, 0, end)])

\* docs/protocol/usage-and-accounting.md: a forwarder has a share, of zero.
ForwarderHasShare ==
  \A a \in Account : \A row \in Log(a) : row.window = 0 => HasShare(row)

\* The comment in _migrate_schema has it that a head never reports again: what
\* is shown of a request would be settled when it is recorded.
RecordedIsSettled ==
  [][\A a \in Account :
       \A row \in Log(a) : row.worker \in workers' /\ (\E r \in requests' : r.id = row.request)
                             => row \in Log(a)']_vars
=============================================================================
