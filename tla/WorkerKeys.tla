----------------------------- MODULE WorkerKeys -----------------------------
(***************************************************************************)
(* Which worker an API key speaks for.  A device presents a worker-scoped   *)
(* key; calls about a worker name it, but the calls about a cluster, to     *)
(* fetch its config and to report ready, do not: the server takes the       *)
(* worker the key is bound to if that one is in the cluster, and else the   *)
(* account's only worker in it.  Registration binds the key, and so does    *)
(* any call that names another worker than the bound one.                   *)
(*                                                                         *)
(* Each handler is one step here; ClusterPool says what happens between     *)
(* their transactions.  The cap on an account's workers, their memory and   *)
(* their heartbeats' times are left out: a cluster is formed of any         *)
(* waitlisted workers, and dissolved at any time.                           *)
(***************************************************************************)
EXTENDS Integers, FiniteSets

CONSTANTS
  Account,      \* accounts
  Device,       \* devices, each with a WireGuard key pair of its own
  Owner,        \* Owner[d]: the account that runs device d
  KeyOf,        \* KeyOf[d]: the API key d presents
  Reregisters,  \* bound: the devices that register again
  Roaming,      \* TRUE if keys are used on other workers of the account, too
  MaxWorker,    \* bound: workers ever created
  MaxCluster    \* bound: clusters ever formed

Key == {KeyOf[d] : d \in Device}

Worker == 1..MaxWorker
Cluster == 1..MaxCluster

ASSUME KeyAssumption ==
  /\ Device # {}
  /\ Owner \in [Device -> Account]
  /\ \A d, e \in Device : KeyOf[d] = KeyOf[e] => Owner[d] = Owner[e]
  /\ Reregisters \subseteq Device
  /\ Roaming \in BOOLEAN
  /\ MaxWorker \in Nat
  /\ MaxCluster \in Nat

VARIABLES
  rows,     \* the workers table
  created,  \* workers ever created
  bound,    \* api_keys.worker_id, 0 for NULL
  revoked,  \* the keys that were revoked
  ring,     \* ring[c]: the members of cluster c
  name,     \* name[d]: the worker id device d goes by, 0 before it has one
  knows,    \* knows[d]: the clusters d was ever told it is in
  credited  \* the last call about a cluster: who made it, and for whom it counted

table == <<rows, created, ring, name, knows>>
vars == <<table, bound, revoked, credited>>

\* A worker id without a row.
Blank == [exists |-> FALSE, device |-> CHOOSE d \in Device : TRUE,
          cluster |-> 0, waits |-> FALSE, online |-> FALSE]

Exists(w) == rows[w].exists
AccountOf(w) == Owner[rows[w].device]
AccountOfKey(k) == Owner[CHOOSE d \in Device : KeyOf[d] = k]
Live(d) == KeyOf[d] \notin revoked
In(c) == {w \in Worker : Exists(w) /\ rows[w].cluster = c}

-----------------------------------------------------------------------------
(* Binding.                                                                 *)

\* bind_api_key_to_worker; its errors are logged and passed over.
Bind(k, w) == bound' = [bound EXCEPT ![k] = w] \/ UNCHANGED bound

\* Whether key k may be used on worker w.
MayOperate(k, w) ==
  /\ Exists(w)
  /\ k \notin revoked
  /\ AccountOf(w) = AccountOfKey(k)

\* Where key k is used: on the worker of its device, if keys do not roam.
UsedOn(k, w) == Roaming \/ \E d \in Device : KeyOf[d] = k /\ name[d] = w

-----------------------------------------------------------------------------
(* Calls about a worker.                                                    *)

\* POST /v1/workers/register by a device without a row.  The reply may be
\* lost, and so may the binding.
Register(d) ==
  /\ Live(d)
  /\ ~ \E w \in Worker : Exists(w) /\ rows[w].device = d
  /\ created < MaxWorker
  /\ created' = created + 1
  /\ rows' = [rows EXCEPT ![created'] = [exists |-> TRUE, device |-> d,
                                         cluster |-> 0, waits |-> TRUE,
                                         online |-> FALSE]]
  /\ Bind(KeyOf[d], created')
  /\ name' = [name EXCEPT ![d] = created'] \/ UNCHANGED name
  /\ UNCHANGED <<revoked, ring, knows, credited>>

\* The same by a device with a row: it is waitlisted and offline again, its
\* cluster stays.  An error of the binding fails the request after the row was
\* written; the reply may be lost, too.
Reregister(d) ==
  /\ Live(d)
  /\ \E w \in Worker :
       /\ Exists(w)
       /\ rows[w].device = d
       /\ d \in Reregisters \/ name[d] # w
       /\ rows' = [rows EXCEPT ![w].waits = TRUE,
                                 ![w].online = FALSE]
       /\ \/ UNCHANGED <<bound, name>>
          \/ /\ bound' = [bound EXCEPT ![KeyOf[d]] = w]
             /\ name' = [name EXCEPT ![d] = w] \/ UNCHANGED name
  /\ UNCHANGED <<created, revoked, ring, knows, credited>>

\* A heartbeat, or any other call with key k that names worker w.
Operate(k, w) ==
  /\ MayOperate(k, w)
  /\ UsedOn(k, w)
  /\ Bind(k, w)
  /\ rows' = [rows EXCEPT ![w].online = TRUE] \/ UNCHANGED rows
  /\ UNCHANGED <<created, ring, name, knows, revoked, credited>>

\* What is left of the rows when cluster c is dissolved.
Released(c) ==
  [w \in Worker |-> IF Exists(w) /\ w \in ring[c]
                    THEN [rows[w] EXCEPT !.cluster = 0, !.waits = TRUE]
                    ELSE rows[w]]

\* (mutant) a key keeps its binding to a worker that is gone.
LeaveKeepsBindings(w) ==
  /\ Exists(w)
  /\ LET c == rows[w].cluster
         released == IF c = 0 THEN rows ELSE Released(c)
     IN rows' = [released EXCEPT ![w] = Blank]
  /\ UNCHANGED <<created, bound, revoked, ring, name, knows, credited>>

\* DELETE /v1/workers/{id}, with a key or by the owner's session: the key is
\* bound to the worker like any other's, the cluster is dissolved, and the
\* keys bound to the worker are unbound with its row.
Leave(w) ==
  /\ Exists(w)
  /\ LET c == rows[w].cluster
         released == IF c = 0 THEN rows ELSE Released(c)
     IN rows' = [released EXCEPT ![w] = Blank]
  /\ \E callers \in {{}} \cup {{k} : k \in {k \in Key : MayOperate(k, w) /\ UsedOn(k, w)}} :
       bound' = [k \in Key |-> IF bound[k] = w \/ k \in callers THEN 0 ELSE bound[k]]
  /\ UNCHANGED <<created, revoked, ring, name, knows, credited>>

\* DELETE /v1/accounts/{id}/keys/{key}: the key's row is deleted, nothing else.
Revoke(k) ==
  /\ revoked' = revoked \cup {k}
  /\ bound' = [bound EXCEPT ![k] = 0]
  /\ UNCHANGED <<table, credited>>

-----------------------------------------------------------------------------
(* Clusters.                                                                *)

Form(S) ==
  /\ S # {}
  /\ \A w \in S : rows[w].waits /\ rows[w].online
  /\ \E c \in Cluster :
       /\ ring[c] = {}
       /\ \A b \in Cluster : b < c => ring[b] # {}
       /\ ring' = [ring EXCEPT ![c] = S]
       /\ rows' = [w \in Worker |->
                     IF w \in S THEN [rows[w] EXCEPT !.cluster = c, !.waits = FALSE]
                     ELSE rows[w]]
       /\ knows' = [d \in Device |->
                      IF \E w \in S : rows[w].device = d THEN knows[d] \cup {c}
                      ELSE knows[d]]
  /\ UNCHANGED <<created, bound, revoked, name, credited>>

\* A worker falls silent, and its cluster is dissolved.
Silent(w) ==
  /\ rows[w].online
  /\ LET c == rows[w].cluster
         released == IF c = 0 THEN rows ELSE Released(c)
     IN rows' = [released EXCEPT ![w].online = FALSE]
  /\ UNCHANGED <<created, bound, revoked, ring, name, knows, credited>>

-----------------------------------------------------------------------------
(* Calls about a cluster.                                                   *)

\* (mutant) the account's first worker in the cluster, whoever calls.
FirstOfAccount(k, c) ==
  LET matches == {w \in In(c) : AccountOf(w) = AccountOfKey(k)} IN
  IF matches = {} THEN {} ELSE {CHOOSE w \in matches : \A v \in matches : w <= v}

\* The worker key k speaks for in cluster c, if any.
SpeaksFor(k, c) ==
  LET matches == {w \in In(c) : AccountOf(w) = AccountOfKey(k)} IN
  IF bound[k] \in In(c) THEN {bound[k]}
  ELSE IF Cardinality(matches) = 1 THEN matches
  ELSE {}

\* POST /v1/clusters/{c}/ready, or the fetching of its config, by a device
\* that was told of the cluster, however long ago.
CallCluster(d, c) ==
  /\ Live(d)
  /\ c \in knows[d]
  /\ \E w \in SpeaksFor(KeyOf[d], c) :
       /\ credited' = [caller |-> d, device |-> rows[w].device]
       /\ IF w = bound[KeyOf[d]] THEN UNCHANGED bound ELSE Bind(KeyOf[d], w)
  /\ UNCHANGED <<table, revoked>>

-----------------------------------------------------------------------------

Nobody == [caller |-> "nobody", device |-> "nobody"]

Init ==
  /\ rows = [w \in Worker |-> Blank]
  /\ created = 0
  /\ bound = [k \in Key |-> 0]
  /\ revoked = {}
  /\ ring = [c \in Cluster |-> {}]
  /\ name = [d \in Device |-> 0]
  /\ knows = [d \in Device |-> {}]
  /\ credited = Nobody

Next ==
  \/ \E d \in Device : Register(d) \/ Reregister(d)
  \/ \E k \in Key, w \in Worker : Operate(k, w)
  \/ \E w \in Worker : Leave(w) \/ Silent(w)
  \/ \E k \in Key : Revoke(k)
  \/ \E S \in SUBSET Worker : Form(S)
  \/ \E d \in Device, c \in Cluster : CallCluster(d, c)

Spec == Init /\ [][Next]_vars

-----------------------------------------------------------------------------

\* A key never comes to speak for a worker of another account, through
\* revocations, registrations anew and keys that are used on other workers.
BoundInAccount ==
  \A k \in Key :
    bound[k] # 0 => Exists(bound[k]) /\ AccountOf(bound[k]) = AccountOfKey(k)

\* docs/protocol/assignment.md: each worker-scoped key is bound to the worker
\* it registered.
BoundToOwn ==
  \A k \in Key : bound[k] # 0 => KeyOf[rows[bound[k]].device] = k

\* docs/protocol/negotiation.md: revoking a key removes its worker from any
\* waitlist and cluster.
RevocationRemoves ==
  [][\A k \in revoked' \ revoked :
       bound[k] # 0 => ~rows'[bound[k]].waits /\ rows'[bound[k]].cluster = 0]_vars

\* docs/protocol/assignment.md, too: readiness and config are attributed to the
\* correct device, even when multiple workers of one account are in the same
\* cluster.  This is so although bindings and replies get lost and calls
\* arrive late, as long as no device registers again.
AttributedToCaller == credited.caller = credited.device
=============================================================================
