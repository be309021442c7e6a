--------------------------- MODULE InferenceProxy ---------------------------
(***************************************************************************)
(* POST /v1/chat/completions and the usage it records.  The handler awaits  *)
(* the body, the connection to the cluster's head and the answer, and while *)
(* it waits keys are revoked, clusters are dissolved, and the subnet of a   *)
(* dissolved cluster goes to the next one.                                 *)
(*                                                                         *)
(* A head is reached by its address alone, position 1 of the subnet, through *)
(* a WireGuard interface that the server brings up for the cluster: it is   *)
(* there that a head answers, as long as the key of the interface is the one *)
(* the head was told.                                                       *)
(*                                                                         *)
(* ClusterPool says how clusters come and go; here any subnet that is free  *)
(* goes to a new cluster, of any model, lowest number first.  The server    *)
(* joins the networks (PRIMA_POOL_SERVER_JOIN_WG), and interfaces do not    *)
(* compete for its port.                                                    *)
(***************************************************************************)
EXTENDS Integers, FiniteSets, FiniteSetsExt

CONSTANTS
  Key,         \* user-scoped API keys
  Model,       \* models
  MaxSubnet,   \* the highest subnet number
  FixedKey,    \* the server's WireGuard key is set in its environment
  MaxCluster,  \* bound: clusters ever formed
  MaxRequest,  \* bound: requests ever made
  MaxStart     \* bound: starts of the server

ASSUME ProxyAssumption ==
  /\ MaxSubnet \in Nat
  /\ FixedKey \in BOOLEAN
  /\ MaxCluster \in Nat
  /\ MaxRequest \in Nat
  /\ MaxStart \in Nat

Cluster == 1..MaxCluster
Request == 1..MaxRequest

VARIABLES
  keys,      \* the keys that exist
  barred,    \* the keys whose account may not send requests
  clusters,  \* the clusters table
  starts,    \* how often the server was started
  tunnel,    \* the key of each cluster's interface on the server, 0 if it is down
  told,      \* the server's key in the config the head fetched last, 0 if in none
  leaving,   \* the cluster that has just been terminated, its interface being next; 0
  leftover,  \* (history) the clusters whose interface has outlived them
  inflight,  \* the requests and where their handlers stand
  usage      \* the requests table

table == <<keys, barred, clusters>>
network == <<starts, tunnel, told, leaving, leftover>>
vars == <<table, network, inflight, usage>>

NoCluster == [status |-> "none", model |-> CHOOSE m \in Model : TRUE, subnet |-> 0]
NoRequest == [at |-> "none", key |-> CHOOSE k \in Key : TRUE, stream |-> FALSE,
              cluster |-> 0, servedBy |-> 0, past |-> {}]

Active(c) == clusters[c].status \in {"assembling", "live"}

Subnets == {clusters[c].subnet : c \in {d \in Cluster : Active(d)}}

-----------------------------------------------------------------------------
(* Clusters, keys and permissions.                                          *)

\* ServerWireGuard.public_key: as configured, or generated once in a process.
PublicKey == IF FixedKey THEN 1 ELSE starts

\* The interface is brought up when the members have been assigned; a failure
\* is logged.
FormCluster(c, m) ==
  LET free == (1..MaxSubnet) \ Subnets IN
  /\ clusters[c] = NoCluster
  /\ \A d \in Cluster : d < c => clusters[d] # NoCluster
  /\ free # {}
  /\ clusters' = [clusters EXCEPT
       ![c] = [status |-> "assembling", model |-> m, subnet |-> Min(free)]]
  /\ \E key \in {0, PublicKey} : tunnel' = [tunnel EXCEPT ![c] = key]
  /\ UNCHANGED <<keys, barred, starts, told, leaving, leftover, inflight, usage>>

\* (mutant) public_key keeps none of the keys it generates.
FetchFreshKey(c) ==
  /\ Active(c)
  /\ told' = [told EXCEPT ![c] = PublicKey + 1]
  /\ UNCHANGED <<table, starts, tunnel, leaving, leftover, inflight, usage>>

\* get_cluster_config, by the head.
FetchConfig(c) ==
  /\ Active(c)
  /\ told' = [told EXCEPT ![c] = PublicKey]
  /\ UNCHANGED <<table, starts, tunnel, leaving, leftover, inflight, usage>>

GoesLive(c) ==
  /\ clusters[c].status = "assembling"
  /\ clusters' = [clusters EXCEPT ![c].status = "live"]
  /\ UNCHANGED <<keys, barred, network, inflight, usage>>

\* (mutant) a dissolved cluster's row is deleted, and its requests with it.
TerminateHard(c) ==
  /\ Active(c)
  /\ clusters' = [clusters EXCEPT ![c].status = "terminated"]
  /\ leaving' = c
  /\ usage' = {row \in usage : row.cluster # c}
  /\ UNCHANGED <<keys, barred, starts, tunnel, told, leftover, inflight>>

\* _dissolve_cluster up to its last commit.  The row of a dissolved cluster
\* stays.  What its head was told stays with it until it hears of the end.
Terminate(c) ==
  /\ Active(c)
  /\ clusters' = [clusters EXCEPT ![c].status = "terminated"]
  /\ leaving' = c
  /\ UNCHANGED <<keys, barred, starts, tunnel, told, leftover, inflight, usage>>

\* The clusters of S the server is in the network of.
Joined(S) == {c \in S : tunnel[c] # 0}

\* (mutant) the server never leaves a network.
StayUp ==
  /\ leaving # 0
  /\ leaving' = 0
  /\ UNCHANGED <<table, starts, tunnel, told, leftover, inflight, usage>>

\* down, in the same handler.  Whether it has worked is not checked.
Leave ==
  /\ leaving # 0
  /\ \/ tunnel' = [tunnel EXCEPT ![leaving] = 0] /\ UNCHANGED leftover
     \/ leftover' = leftover \cup Joined({leaving}) /\ UNCHANGED tunnel
  /\ leaving' = 0
  /\ UNCHANGED <<table, starts, told, inflight, usage>>

\* revoke_api_key: the requests made with the key are deleted with it.
RevokeKey(k) ==
  /\ k \in keys
  /\ keys' = keys \ {k}
  /\ usage' = {row \in usage : row.key # k}
  /\ UNCHANGED <<barred, clusters, network, inflight>>

\* An admin bans the account or takes can_use from it, or gives it back.
SetPermission(k) ==
  /\ barred' = IF k \in barred THEN barred \ {k} ELSE barred \cup {k}
  /\ UNCHANGED <<keys, clusters, network, inflight, usage>>

\* The requests under way are lost, and a `down` that was next.  The interfaces
\* go with the server's container or, without one, stay; nothing brings them up
\* again, or takes them down.
Restart ==
  /\ starts < MaxStart
  /\ starts' = starts + 1
  /\ \/ tunnel' = [c \in Cluster |-> 0] /\ UNCHANGED leftover
     \/ leftover' = leftover \cup Joined(Cluster \cap {leaving}) /\ UNCHANGED tunnel
  /\ leaving' = 0
  /\ inflight' = [r \in Request |->
       IF inflight[r] = NoRequest THEN NoRequest ELSE [inflight[r] EXCEPT !.at = "ended"]]
  /\ UNCHANGED <<table, told, usage>>

-----------------------------------------------------------------------------
(* A request.                                                               *)

MovesTo(r, at) == inflight' = [inflight EXCEPT ![r].at = at]

\* The key is checked; the body is awaited.
Authorized(r, k, stream) ==
  /\ inflight[r] = NoRequest
  /\ \A q \in Request : q < r => inflight[q] # NoRequest
  /\ k \in keys \ barred
  /\ inflight' = [inflight EXCEPT
       ![r] = [NoRequest EXCEPT !.at = "body", !.key = k, !.stream = stream]]
  /\ UNCHANGED <<table, network, usage>>

LiveClusters(m) ==
  {c \in Cluster : clusters[c].status = "live" /\ clusters[c].model = m}

\* find_live_cluster and head_url: the oldest live cluster of the model; the
\* connection to its head is awaited.
Routed(r, m) ==
  /\ inflight[r].at = "body"
  /\ IF LiveClusters(m) = {}
     THEN MovesTo(r, "ended")
     ELSE inflight' = [inflight EXCEPT
            ![r].at = "connecting",
            ![r].cluster = Min(LiveClusters(m)),
            ![r].past = {c \in Cluster : clusters[c].status = "terminated"}]
  /\ UNCHANGED <<table, network, usage>>

\* router.head_ip: the first address of the cluster's subnet.
HeadIP(c) == clusters[c].subnet

\* Whose head answers at the address by now.
HeadsAt(ip) ==
  {c \in Cluster : HeadIP(c) = ip /\ tunnel[c] # 0 /\ told[c] = tunnel[c]}

\* The connection is made; the answer is awaited.
Connected(r) ==
  /\ inflight[r].at = "connecting"
  /\ \E c \in HeadsAt(HeadIP(inflight[r].cluster)) :
       inflight' = [inflight EXCEPT ![r].at = "answering", ![r].servedBy = c]
  /\ UNCHANGED <<table, network, usage>>

\* It is not made, or the request is malformed, or what is answered to a
\* request that is not streamed is cut short or not JSON: nothing is recorded.
Failed(r) ==
  /\ inflight[r].at \in {"body", "connecting", "answering"}
  /\ inflight[r].at = "answering" => ~inflight[r].stream
  /\ MovesTo(r, "ended")
  /\ UNCHANGED <<table, network, usage>>

Row(r, counted) ==
  [request |-> r, key |-> inflight[r].key, cluster |-> inflight[r].cluster,
   counted |-> counted]

\* (mutant) requests.key_id is no foreign key.
RecordAnyway(r, counted) ==
  \/ usage' = usage \cup {Row(r, counted)}
  \/ UNCHANGED usage

\* record_request: the insert fails if the key is gone, and may fail on other
\* grounds; the failure is logged.
Record(r, counted) ==
  \/ inflight[r].key \in keys /\ usage' = usage \cup {Row(r, counted)}
  \/ UNCHANGED usage

\* A stream is recorded if its usage was seen, any other answer always is.
IsRecorded(r, counted) == inflight[r].stream => counted

\* The answer ends, with a usage object or without; a stream ends when the
\* head or the client closes it, too.
Answered(r, counted) ==
  /\ inflight[r].at = "answering"
  /\ IF IsRecorded(r, counted) THEN Record(r, counted) ELSE UNCHANGED usage
  /\ MovesTo(r, "ended")
  /\ UNCHANGED <<table, network>>

-----------------------------------------------------------------------------

Init ==
  /\ keys = Key
  /\ barred = {}
  /\ clusters = [c \in Cluster |-> NoCluster]
  /\ starts = 1
  /\ tunnel = [c \in Cluster |-> 0]
  /\ told = [c \in Cluster |-> 0]
  /\ leaving = 0
  /\ leftover = {}
  /\ inflight = [r \in Request |-> NoRequest]
  /\ usage = {}

Pool ==
  \/ \E c \in Cluster :
       \/ \E m \in Model : FormCluster(c, m)
       \/ FetchConfig(c) \/ GoesLive(c) \/ Terminate(c)
  \/ \E k \in Key : RevokeKey(k) \/ SetPermission(k)

Handler(r) ==
  \/ \E k \in Key, stream \in BOOLEAN : Authorized(r, k, stream)
  \/ \E m \in Model : Routed(r, m)
  \/ Connected(r)
  \/ Failed(r)
  \/ \E counted \in BOOLEAN : Answered(r, counted)

\* No handler runs between the last commit of another and its `down`: only a
\* death of the server comes between them.
Next ==
  \/ leaving = 0 /\ (Pool \/ \E r \in Request : Handler(r))
  \/ Leave
  \/ Restart

Spec == Init /\ [][Next]_vars

-----------------------------------------------------------------------------

\* What a revoked key used is gone and does not come back, not even with the
\* answer to a request that was under way when it was revoked.
RevokedLeavesNothing == \A row \in usage : row.key \in keys

\* Usage survives its cluster: a row goes only when its key is revoked.
UsageSurvives ==
  [][\A row \in usage : row \in usage' \/ row.key \notin keys']_vars

\* The address is all that is kept of a choice.  Who answers in the place of the
\* cluster chosen is a successor, which got the subnet when the chosen one had
\* been dissolved, or a cluster whose interface outlived it, because `down` failed
\* or the server died before it; no other cluster, old or new, is reached.
AnswersInPlace ==
  \A r \in Request : LET q == inflight[r] IN
    q.servedBy \notin {0, q.cluster} =>
      \/ q.servedBy \in leftover
      \/ /\ clusters[q.cluster].status = "terminated"
         /\ q.cluster < q.servedBy /\ q.servedBy \notin q.past

\* A head and its interface know different keys only if the interface is of an
\* earlier process of the server: the interfaces that the running one has brought
\* up have the key in every config fetched, whatever was generated before.
MismatchIsOlder ==
  \A c \in Cluster :
    told[c] # 0 /\ tunnel[c] # 0 /\ told[c] # tunnel[c] => tunnel[c] # PublicKey

\* A request is answered by no cluster that had ended before it was routed.
NeverServedByPast ==
  \A r \in Request : inflight[r].servedBy \notin inflight[r].past

\* Of a cluster whose config its head has fetched, an interface that is up is of
\* use, across restarts of the server.
KnownKey ==
  \A c \in Cluster : told[c] # 0 /\ tunnel[c] # 0 => told[c] = tunnel[c]

\* docs/protocol/usage-and-accounting.md: no false zero-token entries.
NoZeroEntries == \A row \in usage : row.counted

\* docs/protocol/tunnel.md: the server joins each cluster's network, so that it
\* can proxy requests to the head.  Requests are routed by status alone.
LiveIsJoined ==
  \A c \in Cluster : clusters[c].status = "live" => tunnel[c] # 0

\* docs/protocol/usage-and-accounting.md: cluster_id is the cluster that
\* processed the request.
ProcessedByCluster ==
  \A row \in usage : inflight[row.request].servedBy = row.cluster
=============================================================================
