-------------------------- MODULE WorkerKeysProofs --------------------------
(***************************************************************************)
(* Proofs about WorkerKeys, for any accounts, devices, keys and bounds.     *)
(***************************************************************************)
EXTENDS WorkerKeys, FiniteSetTheorems, TLAPS

Rows == [exists : BOOLEAN, device : Device, cluster : Cluster \cup {0},
         waits : BOOLEAN, online : BOOLEAN]

Types ==
  /\ rows \in [Worker -> Rows]
  /\ created \in 0..MaxWorker
  /\ bound \in [Key -> Worker \cup {0}]
  /\ ring \in [Cluster -> SUBSET Worker]
  /\ name \in [Device -> Worker \cup {0}]
  /\ knows \in [Device -> SUBSET Cluster]

\* A worker id that was not given out yet has no row.
Fresh == \A w \in Worker : w > created => ~Exists(w)

\* The strengthening of BoundInAccount.
BindInv == Types /\ Fresh /\ BoundInAccount

LEMMA KeyAccount == \A d \in Device : AccountOfKey(KeyOf[d]) = Owner[d]
<1> SUFFICES ASSUME NEW d \in Device PROVE AccountOfKey(KeyOf[d]) = Owner[d]
  OBVIOUS
<1>1. (CHOOSE e \in Device : KeyOf[e] = KeyOf[d]) \in Device
  OBVIOUS
<1>2. KeyOf[CHOOSE e \in Device : KeyOf[e] = KeyOf[d]] = KeyOf[d]
  OBVIOUS
<1> QED
  BY <1>1, <1>2, KeyAssumption DEF AccountOfKey

LEMMA BlankRow == Blank \in Rows /\ ~Blank.exists
<1>1. (CHOOSE d \in Device : TRUE) \in Device
  BY KeyAssumption
<1> QED
  BY <1>1 DEF Blank, Rows

\* A dissolved cluster's rows keep their devices.
LEMMA ReleasedRows ==
  ASSUME Types, NEW c \in Cluster
  PROVE  /\ Released(c) \in [Worker -> Rows]
         /\ \A w \in Worker : /\ Released(c)[w].exists = rows[w].exists
                              /\ Released(c)[w].device = rows[w].device
                              /\ Released(c)[w].online = rows[w].online
                              /\ IF Exists(w) /\ w \in ring[c]
                                 THEN Released(c)[w].cluster = 0 /\ Released(c)[w].waits
                                 ELSE Released(c)[w] = rows[w]
BY DEF Types, Released, Rows, Exists

\* Writing other fields of a row keeps which rows there are, and whose.
LEMMA RowWritten ==
  ASSUME Types, NEW w \in Worker, NEW r \in Rows,
         r.exists = rows[w].exists, r.device = rows[w].device
  PROVE  /\ [rows EXCEPT ![w] = r] \in [Worker -> Rows]
         /\ \A v \in Worker : /\ [rows EXCEPT ![w] = r][v].exists = rows[v].exists
                              /\ [rows EXCEPT ![w] = r][v].device = rows[v].device
BY DEF Types

LEMMA BindInit == Init => BindInv
BY KeyAssumption, BlankRow
   DEF Init, BindInv, Types, Fresh, BoundInAccount, Exists, Worker, Cluster

\* Ownership is kept by any step that keeps the devices of the rows and gives
\* a key only to rows of its account.
LEMMA BindKept ==
  ASSUME BindInv, Types', Fresh',
         \A k \in Key : bound'[k] # 0 =>
            /\ rows'[bound'[k]].exists
            /\ \/ bound'[k] = bound[k] /\ rows'[bound[k]].device = rows[bound[k]].device
               \/ Owner[rows'[bound'[k]].device] = AccountOfKey(k)
  PROVE  BindInv'
BY DEF BindInv, BoundInAccount, AccountOf, AccountOfKey, Exists

LEMMA BindStep == BindInv /\ [Next]_vars => BindInv'
<1> SUFFICES ASSUME BindInv, [Next]_vars PROVE BindInv'
  OBVIOUS
<1> USE KeyAssumption
<1>t. Types /\ Fresh /\ BoundInAccount
  BY DEF BindInv
<1>1. ASSUME NEW d \in Device, Register(d) PROVE BindInv'
  <2> DEFINE n == created + 1
             new == [exists |-> TRUE, device |-> d, cluster |-> 0,
                     waits |-> TRUE, online |-> FALSE]
  <2>1. n \in Worker /\ created' = n /\ ~Exists(n) /\ n # 0
    BY <1>t, <1>1 DEF Register, Types, Worker, Fresh
  <2>2. rows' = [rows EXCEPT ![n] = new] /\ new \in Rows
    BY <1>1, <2>1 DEF Register, Rows
  <2>3. KeyOf[d] \in Key /\ (bound' = bound \/ bound' = [bound EXCEPT ![KeyOf[d]] = n])
    BY <1>1, <2>1 DEF Register, Bind, Key
  <2>4. Types'
    BY <1>t, <1>1, <2>1, <2>2, <2>3 DEF Types, Register
  <2>5. Fresh'
    BY <1>t, <2>1, <2>2 DEF Fresh, Exists, Types, Worker
  <2>6. ASSUME NEW k \in Key, bound'[k] # 0
        PROVE  /\ rows'[bound'[k]].exists
               /\ \/ bound'[k] = bound[k] /\ rows'[bound[k]].device = rows[bound[k]].device
                  \/ Owner[rows'[bound'[k]].device] = AccountOfKey(k)
    <3>1. CASE bound'[k] = bound[k]
      <4>1. bound[k] \in Worker /\ Exists(bound[k]) /\ bound[k] # n
        BY <1>t, <2>1, <2>6, <3>1 DEF Types, BoundInAccount
      <4> QED
        BY <1>t, <2>1, <2>2, <3>1, <4>1 DEF Types, Exists
    <3>2. CASE bound'[k] # bound[k]
      <4>1. k = KeyOf[d] /\ bound'[k] = n
        BY <1>t, <2>3, <3>2 DEF Types
      <4> QED
        BY <1>t, <2>1, <2>2, <4>1, KeyAccount DEF Types, Exists
    <3> QED
      BY <3>1, <3>2
  <2> QED
    BY <2>4, <2>5, <2>6, BindKept
<1>2. ASSUME NEW d \in Device, Reregister(d) PROVE BindInv'
  <2>1. PICK w \in Worker :
          /\ Exists(w)
          /\ rows[w].device = d
          /\ rows' = [rows EXCEPT ![w].waits = TRUE, ![w].online = FALSE]
          /\ \/ UNCHANGED <<bound, name>>
             \/ /\ bound' = [bound EXCEPT ![KeyOf[d]] = w]
                /\ name' = [name EXCEPT ![d] = w] \/ UNCHANGED name
    BY <1>2 DEF Reregister
  <2>2. rows' \in [Worker -> Rows] /\ \A v \in Worker :
          rows'[v].exists = rows[v].exists /\ rows'[v].device = rows[v].device
    <3> DEFINE r == [rows[w] EXCEPT !.waits = TRUE, !.online = FALSE]
    <3>1. r \in Rows /\ r.exists = rows[w].exists /\ r.device = rows[w].device
      BY <1>t DEF Types, Rows
    <3>2. rows' = [rows EXCEPT ![w] = r]
      BY <2>1
    <3> HIDE DEF r
    <3> QED
      BY <1>t, <3>1, <3>2, RowWritten
  <2>3. KeyOf[d] \in Key /\ created' = created /\ ring' = ring /\ knows' = knows
    BY <1>2 DEF Key, Reregister
  <2>4. Types'
    BY <1>t, <2>1, <2>2, <2>3 DEF Types
  <2>5. Fresh'
    BY <1>t, <2>2, <2>3 DEF Fresh, Exists
  <2>6. ASSUME NEW k \in Key, bound'[k] # 0
        PROVE  /\ rows'[bound'[k]].exists
               /\ \/ bound'[k] = bound[k] /\ rows'[bound[k]].device = rows[bound[k]].device
                  \/ Owner[rows'[bound'[k]].device] = AccountOfKey(k)
    <3>1. CASE bound'[k] = bound[k]
      BY <1>t, <2>2, <2>6, <3>1 DEF Types, BoundInAccount, Exists
    <3>2. CASE bound'[k] # bound[k]
      <4>1. k = KeyOf[d] /\ bound'[k] = w
        BY <1>t, <2>1, <3>2 DEF Types
      <4> QED
        BY <2>1, <2>2, <4>1, KeyAccount DEF Exists
    <3> QED
      BY <3>1, <3>2
  <2> QED
    BY <2>4, <2>5, <2>6, BindKept
<1>3. ASSUME NEW k \in Key, NEW w \in Worker, Operate(k, w) PROVE BindInv'
  <2>1. Exists(w) /\ AccountOf(w) = AccountOfKey(k)
    BY <1>3 DEF Operate, MayOperate
  <2>2. rows' \in [Worker -> Rows] /\ \A v \in Worker :
          rows'[v].exists = rows[v].exists /\ rows'[v].device = rows[v].device
    <3> DEFINE r == [rows[w] EXCEPT !.online = TRUE]
    <3>1. r \in Rows /\ r.exists = rows[w].exists /\ r.device = rows[w].device
      BY <1>t DEF Types, Rows
    <3>2. rows' = [rows EXCEPT ![w] = r] \/ rows' = rows
      BY <1>3 DEF Operate
    <3> HIDE DEF r
    <3> QED
      BY <1>t, <3>1, <3>2, RowWritten DEF Types
  <2>3. bound' = bound \/ bound' = [bound EXCEPT ![k] = w]
    BY <1>3 DEF Operate, Bind
  <2>4. Types'
    BY <1>t, <1>3, <2>2, <2>3 DEF Types, Operate
  <2>5. Fresh'
    BY <1>t, <1>3, <2>2 DEF Fresh, Exists, Operate
  <2>6. ASSUME NEW l \in Key, bound'[l] # 0
        PROVE  /\ rows'[bound'[l]].exists
               /\ \/ bound'[l] = bound[l] /\ rows'[bound[l]].device = rows[bound[l]].device
                  \/ Owner[rows'[bound'[l]].device] = AccountOfKey(l)
    <3>1. CASE bound'[l] = bound[l]
      BY <1>t, <2>2, <2>6, <3>1 DEF Types, BoundInAccount, Exists
    <3>2. CASE bound'[l] # bound[l]
      <4>1. l = k /\ bound'[l] = w
        BY <1>t, <2>3, <3>2 DEF Types
      <4> QED
        BY <2>1, <2>2, <4>1 DEF Exists, AccountOf
    <3> QED
      BY <3>1, <3>2
  <2> QED
    BY <2>4, <2>5, <2>6, BindKept
<1>4. ASSUME NEW w \in Worker, Leave(w) PROVE BindInv'
  <2> DEFINE c == rows[w].cluster
             released == IF c = 0 THEN rows ELSE Released(c)
  <2>1. rows' = [released EXCEPT ![w] = Blank]
    BY <1>4 DEF Leave
  <2>2. c \in Cluster \cup {0}
    BY <1>t DEF Types, Rows
  <2>3. released \in [Worker -> Rows] /\ \A v \in Worker :
          released[v].exists = rows[v].exists /\ released[v].device = rows[v].device
    BY <1>t, <2>2, ReleasedRows DEF Types
  <2> HIDE DEF released
  <2>4. rows' \in [Worker -> Rows] /\ ~Exists(w)' /\ \A v \in Worker \ {w} :
          rows'[v].exists = rows[v].exists /\ rows'[v].device = rows[v].device
    BY <2>1, <2>3, BlankRow DEF Exists
  <2>5. bound' \in [Key -> Worker \cup {0}] /\ \A k \in Key :
          bound'[k] = 0 \/ (bound'[k] = bound[k] /\ bound[k] # w)
    BY <1>t, <1>4 DEF Leave, Types
  <2>6. Types'
    BY <1>t, <1>4, <2>4, <2>5 DEF Types, Leave
  <2>7. Fresh'
    BY <1>t, <1>4, <2>4 DEF Fresh, Exists, Leave
  <2>8. \A k \in Key : bound'[k] # 0 =>
          /\ rows'[bound'[k]].exists
          /\ bound'[k] = bound[k] /\ rows'[bound[k]].device = rows[bound[k]].device
    BY <1>t, <2>4, <2>5 DEF BoundInAccount, Exists, Types
  <2> QED
    BY <2>6, <2>7, <2>8, BindKept
<1>5. ASSUME NEW w \in Worker, Silent(w) PROVE BindInv'
  <2> DEFINE c == rows[w].cluster
             released == IF c = 0 THEN rows ELSE Released(c)
  <2>1. rows' = [released EXCEPT ![w].online = FALSE]
    BY <1>5 DEF Silent
  <2>2. c \in Cluster \cup {0}
    BY <1>t DEF Types, Rows
  <2>3. released \in [Worker -> Rows] /\ \A v \in Worker :
          released[v].exists = rows[v].exists /\ released[v].device = rows[v].device
    BY <1>t, <2>2, ReleasedRows DEF Types
  <2> HIDE DEF released
  <2>4. rows' \in [Worker -> Rows] /\ \A v \in Worker :
          rows'[v].exists = rows[v].exists /\ rows'[v].device = rows[v].device
    BY <2>1, <2>3 DEF Rows
  <2>5. Types'
    BY <1>t, <1>5, <2>4 DEF Types, Silent
  <2>6. Fresh'
    BY <1>t, <1>5, <2>4 DEF Fresh, Exists, Silent
  <2>7. \A k \in Key : bound'[k] # 0 =>
          /\ rows'[bound'[k]].exists
          /\ bound'[k] = bound[k] /\ rows'[bound[k]].device = rows[bound[k]].device
    BY <1>t, <1>5, <2>4 DEF BoundInAccount, Exists, Types, Silent
  <2> QED
    BY <2>5, <2>6, <2>7, BindKept
<1>6. ASSUME NEW k \in Key, Revoke(k) PROVE BindInv'
  <2>1. Types' /\ Fresh'
    BY <1>t, <1>6 DEF Types, Fresh, Exists, Revoke, table
  <2>2. \A l \in Key : bound'[l] # 0 =>
          /\ rows'[bound'[l]].exists
          /\ bound'[l] = bound[l] /\ rows'[bound[l]].device = rows[bound[l]].device
    BY <1>t, <1>6 DEF BoundInAccount, Exists, Types, Revoke, table
  <2> QED
    BY <2>1, <2>2, BindKept
<1>7. ASSUME NEW S \in SUBSET Worker, Form(S) PROVE BindInv'
  <2>1. PICK c \in Cluster :
          /\ ring' = [ring EXCEPT ![c] = S]
          /\ rows' = [w \in Worker |->
                        IF w \in S THEN [rows[w] EXCEPT !.cluster = c, !.waits = FALSE]
                        ELSE rows[w]]
          /\ knows' = [d \in Device |->
                         IF \E w \in S : rows[w].device = d THEN knows[d] \cup {c}
                         ELSE knows[d]]
    BY <1>7 DEF Form
  <2>2. rows' \in [Worker -> Rows] /\ \A v \in Worker :
          rows'[v].exists = rows[v].exists /\ rows'[v].device = rows[v].device
    BY <1>t, <2>1 DEF Types, Rows
  <2>3. Types'
    BY <1>t, <1>7, <2>1, <2>2 DEF Types, Form
  <2>4. Fresh'
    BY <1>t, <1>7, <2>2 DEF Fresh, Exists, Form
  <2>5. \A k \in Key : bound'[k] # 0 =>
          /\ rows'[bound'[k]].exists
          /\ bound'[k] = bound[k] /\ rows'[bound[k]].device = rows[bound[k]].device
    <3>1. bound' = bound
      BY <1>7 DEF Form
    <3> QED
      BY <1>t, <2>2, <3>1 DEF BoundInAccount, Exists, Types
  <2> QED
    BY <2>3, <2>4, <2>5, BindKept
<1>8. ASSUME NEW d \in Device, NEW c \in Cluster, CallCluster(d, c) PROVE BindInv'
  <2>1. PICK w \in SpeaksFor(KeyOf[d], c) :
          IF w = bound[KeyOf[d]] THEN UNCHANGED bound ELSE Bind(KeyOf[d], w)
    BY <1>8 DEF CallCluster
  <2>2. w \in Worker /\ Exists(w)
          /\ (w # bound[KeyOf[d]] => AccountOf(w) = AccountOfKey(KeyOf[d]))
    BY DEF SpeaksFor, In
  <2>3. KeyOf[d] \in Key /\ (bound' = bound \/ (bound' = [bound EXCEPT ![KeyOf[d]] = w]
                                               /\ w # bound[KeyOf[d]]))
    BY <2>1 DEF Bind, Key
  <2>4. rows' = rows /\ created' = created /\ ring' = ring /\ name' = name /\ knows' = knows
    BY <1>8 DEF CallCluster, table
  <2>5. Types' /\ Fresh'
    BY <1>t, <2>2, <2>3, <2>4 DEF Types, Fresh, Exists
  <2>6. ASSUME NEW l \in Key, bound'[l] # 0
        PROVE  /\ rows'[bound'[l]].exists
               /\ \/ bound'[l] = bound[l] /\ rows'[bound[l]].device = rows[bound[l]].device
                  \/ Owner[rows'[bound'[l]].device] = AccountOfKey(l)
    <3>1. CASE bound'[l] = bound[l]
      BY <1>t, <2>4, <2>6, <3>1 DEF Types, BoundInAccount, Exists
    <3>2. CASE bound'[l] # bound[l]
      <4>1. l = KeyOf[d] /\ bound'[l] = w /\ w # bound[KeyOf[d]]
        BY <1>t, <2>3, <3>2 DEF Types
      <4> QED
        BY <2>2, <2>4, <4>1 DEF Exists, AccountOf
    <3> QED
      BY <3>1, <3>2
  <2> QED
    BY <2>5, <2>6, BindKept
<1>9. CASE UNCHANGED vars
  BY <1>t, <1>9 DEF vars, table, BindInv, Types, Fresh, BoundInAccount, Exists, AccountOf
<1> QED
  BY <1>1, <1>2, <1>3, <1>4, <1>5, <1>6, <1>7, <1>8, <1>9 DEF Next

LEMMA BindInvariance == Spec => []BindInv
<1> QED
  BY BindInit, BindStep, PTL DEF Spec

\* A key never comes to speak for a worker of another account.
THEOREM KeysStayInAccount == Spec => []BoundInAccount
<1>1. BindInv => BoundInAccount
  BY DEF BindInv
<1> QED
  BY <1>1, BindInvariance, PTL

-----------------------------------------------------------------------------
(* Whom a call about a cluster counts for, while every device has a key and *)
(* uses it on its own worker, and no device registers again.                *)

OwnKeysOnly ==
  /\ ~Roaming
  /\ Reregisters = {}
  /\ \A d, e \in Device : KeyOf[d] = KeyOf[e] => d = e

\* A device has one row.
OneRow ==
  \A v, w \in Worker :
    Exists(v) /\ Exists(w) /\ rows[v].device = rows[w].device => v = w

\* A device goes by its own row, or by one that is gone.
Named ==
  \A d \in Device :
    name[d] # 0 => /\ name[d] <= created
                   /\ Exists(name[d]) => rows[name[d]].device = d

\* A worker is heard, and gets into a cluster, under its name only.  One that
\* waits is in no cluster.
HeardByName ==
  \A w \in Worker :
    /\ ~Exists(w) => rows[w].cluster = 0 /\ ~rows[w].waits /\ ~rows[w].online
    /\ rows[w].cluster # 0 \/ rows[w].online => name[rows[w].device] = w
    /\ rows[w].waits => rows[w].cluster = 0

\* A cluster has all its members or none.
WholeRing == \A c \in Cluster : In(c) = {} \/ In(c) = ring[c]

\* A device is told of the clusters it is in.
ToldMembers ==
  \A d \in Device, c \in Cluster :
    c \in knows[d] => /\ ring[c] # {}
                      /\ In(c) # {} => \E w \in In(c) : rows[w].device = d

OwnInv ==
  /\ BindInv
  /\ BoundToOwn
  /\ OneRow
  /\ Named
  /\ HeardByName
  /\ WholeRing
  /\ ToldMembers

LEMMA OwnInit == Init => OwnInv
<1> SUFFICES ASSUME Init PROVE OwnInv
  OBVIOUS
<1>1. \A w \in Worker : rows[w] = Blank
  BY DEF Init
<1>2. \A c \in Cluster : In(c) = {}
  BY <1>1, BlankRow DEF In, Exists
<1> QED
  BY <1>1, <1>2, BindInit, BlankRow
     DEF Init, OwnInv, BoundToOwn, OneRow, Named, HeardByName, WholeRing,
         ToldMembers, Exists, Blank

\* A device gets an answer about a cluster for its own worker only.
LEMMA SpeaksForCaller ==
  ASSUME OwnKeysOnly, OwnInv, NEW d \in Device, NEW c \in Cluster, c \in knows[d],
         NEW w \in SpeaksFor(KeyOf[d], c)
  PROVE  w \in Worker /\ rows[w].device = d
<1> DEFINE k == KeyOf[d]
           matches == {v \in In(c) : AccountOf(v) = AccountOfKey(k)}
<1>1. CASE bound[k] \in In(c)
  <2>1. w = bound[k] /\ w \in Worker /\ w # 0
    BY <1>1 DEF SpeaksFor, In, Worker
  <2>2. k \in Key
    BY DEF Key
  <2>3. KeyOf[rows[w].device] = k
    BY <2>1, <2>2 DEF OwnInv, BoundToOwn
  <2>4. rows[w].device \in Device
    BY <2>1 DEF OwnInv, BindInv, Types, Rows
  <2> QED
    BY <2>1, <2>3, <2>4 DEF OwnKeysOnly
<1>2. CASE bound[k] \notin In(c)
  <2>1. w \in matches /\ Cardinality(matches) = 1
    BY <1>2 DEF SpeaksFor
  <2>2. matches \in SUBSET Worker /\ IsFiniteSet(Worker)
    BY FS_Interval, KeyAssumption DEF In, Worker
  <2>3. IsFiniteSet(matches)
    BY <2>2, FS_Subset
  <2>4. PICK x : matches = {x}
    BY <2>1, <2>3, FS_Singleton
  <2>5. PICK v \in In(c) : rows[v].device = d
    BY <2>1 DEF OwnInv, ToldMembers
  <2>6. v \in matches
    BY <2>5, KeyAccount DEF AccountOf
  <2> QED
    BY <2>1, <2>2, <2>4, <2>5, <2>6
<1> QED
  BY <1>1, <1>2

\* Clusters that keep their members, or lose them all, stay as they should be.
LEMMA InKept ==
  ASSUME WholeRing, ToldMembers, ring' = ring, knows' = knows,
         \A c \in Cluster :
           \/ In(c)' = {}
           \/ In(c)' = In(c) /\ \A w \in In(c) : rows'[w].device = rows[w].device
  PROVE  WholeRing' /\ ToldMembers'
BY DEF WholeRing, ToldMembers

\* Dissolving the cluster of a row takes all its members out of it, and no
\* other row out of any other cluster.
LEMMA Dissolved ==
  ASSUME OwnInv, NEW w \in Worker, Exists(w), NEW c, c = rows[w].cluster, c # 0
  PROVE  /\ Released(c) \in [Worker -> Rows]
         /\ \A v \in Worker :
              /\ Released(c)[v].exists = rows[v].exists
              /\ Released(c)[v].device = rows[v].device
              /\ Released(c)[v].online = rows[v].online
              /\ Released(c)[v].waits => Released(c)[v].cluster = 0
              /\ Released(c)[v].cluster = IF Exists(v) /\ rows[v].cluster = c THEN 0
                                          ELSE rows[v].cluster
              /\ ~Exists(v) => Released(c)[v] = rows[v]
<1> DEFINE R == Released(c)
<1>1. c \in Cluster
  BY DEF OwnInv, BindInv, Types, Rows
<1>2. In(c) = ring[c]
  BY <1>1 DEF OwnInv, WholeRing, In
<1>3. /\ R \in [Worker -> Rows]
      /\ \A v \in Worker : /\ R[v].exists = rows[v].exists
                           /\ R[v].device = rows[v].device
                           /\ R[v].online = rows[v].online
                           /\ IF Exists(v) /\ v \in ring[c]
                              THEN R[v].cluster = 0 /\ R[v].waits
                              ELSE R[v] = rows[v]
  BY <1>1, ReleasedRows DEF OwnInv, BindInv
<1> HIDE DEF R
<1>4. ASSUME NEW v \in Worker
      PROVE  /\ R[v].waits => R[v].cluster = 0
             /\ R[v].cluster = IF Exists(v) /\ rows[v].cluster = c THEN 0
                               ELSE rows[v].cluster
             /\ ~Exists(v) => R[v] = rows[v]
  <2>1. Exists(v) /\ v \in ring[c] <=> Exists(v) /\ rows[v].cluster = c
    BY <1>2 DEF In
  <2>2. rows[v].waits => rows[v].cluster = 0
    BY DEF OwnInv, HeardByName
  <2> QED
    BY <1>3, <2>1, <2>2
<1> QED
  BY <1>3, <1>4 DEF R

LEMMA OwnStep == OwnKeysOnly /\ OwnInv /\ [Next]_vars => OwnInv'
<1> SUFFICES ASSUME OwnKeysOnly, OwnInv, [Next]_vars PROVE OwnInv'
  OBVIOUS
<1>t. Types /\ Types' /\ BindInv'
  BY BindStep DEF OwnInv, BindInv
<1>i. BoundToOwn /\ OneRow /\ Named /\ HeardByName /\ WholeRing /\ ToldMembers
      /\ Fresh /\ BoundInAccount
  BY DEF OwnInv, BindInv
<1>1. ASSUME NEW d \in Device, Register(d) PROVE OwnInv'
  <2> DEFINE n == created + 1
  <2>1. n \in Worker /\ created' = n /\ ~Exists(n) /\ n # 0 /\ created \in Nat
    BY <1>t, <1>i, <1>1 DEF Register, Types, Worker, Fresh
  <2>2. /\ rows'[n].exists /\ rows'[n].device = d /\ rows'[n].cluster = 0
        /\ ~rows'[n].online
        /\ \A w \in Worker \ {n} : rows'[w] = rows[w]
    BY <1>t, <1>1, <2>1 DEF Register, Types
  <2>3. \A w \in Worker : Exists(w) => rows[w].device # d
    BY <1>1 DEF Register
  <2>4. /\ \A k \in Key : bound'[k] = bound[k] \/ (k = KeyOf[d] /\ bound'[k] = n)
        /\ \A e \in Device : name'[e] = name[e] \/ (e = d /\ name'[e] = n)
    BY <1>t, <1>1, <2>1 DEF Register, Bind, Types
  <2>5. BoundToOwn'
    BY <1>t, <1>i, <2>1, <2>2, <2>4 DEF BoundToOwn, BoundInAccount, Types
  <2>6. OneRow'
    BY <1>i, <2>2, <2>3 DEF OneRow, Exists
  <2>7. Named'
    BY <1>t, <1>i, <2>1, <2>2, <2>4 DEF Named, Exists, Types, Worker
  <2>8. HeardByName'
    BY <1>t, <1>i, <2>1, <2>2, <2>3, <2>4 DEF HeardByName, Exists, Types, Rows
  <2>9. \A c \in Cluster : In(c)' = In(c)
    BY <2>1, <2>2 DEF In, Exists, Cluster
  <2>10. ring' = ring /\ knows' = knows
    BY <1>1 DEF Register
  <2>11. \A c \in Cluster : \A w \in In(c) : rows'[w].device = rows[w].device
    BY <2>1, <2>2 DEF In
  <2> QED
    BY <1>t, <1>i, <2>5, <2>6, <2>7, <2>8, <2>9, <2>10, <2>11, InKept DEF OwnInv
<1>2. ASSUME NEW d \in Device, Reregister(d) PROVE OwnInv'
  <2>1. PICK w \in Worker :
          /\ Exists(w)
          /\ rows[w].device = d
          /\ name[d] # w
          /\ rows' = [rows EXCEPT ![w].waits = TRUE, ![w].online = FALSE]
          /\ \/ UNCHANGED <<bound, name>>
             \/ /\ bound' = [bound EXCEPT ![KeyOf[d]] = w]
                /\ name' = [name EXCEPT ![d] = w] \/ UNCHANGED name
    BY <1>2 DEF Reregister, OwnKeysOnly
  <2>2. rows[w].cluster = 0
    BY <1>i, <2>1 DEF HeardByName
  <2>3. /\ \A v \in Worker : /\ rows'[v].exists = rows[v].exists
                             /\ rows'[v].device = rows[v].device
                             /\ rows'[v].cluster = rows[v].cluster
        /\ ~rows'[w].online
        /\ \A v \in Worker \ {w} : rows'[v] = rows[v]
    <3>1. rows[w] \in Rows
      BY <1>t DEF Types
    <3>2. rows' = [rows EXCEPT ![w] = [rows[w] EXCEPT !.waits = TRUE, !.online = FALSE]]
      BY <2>1
    <3>3. /\ rows'[w] = [rows[w] EXCEPT !.waits = TRUE, !.online = FALSE]
          /\ \A v \in Worker \ {w} : rows'[v] = rows[v]
      BY <1>t, <3>2 DEF Types
    <3> QED
      BY <3>1, <3>3 DEF Rows
  <2>4. /\ \A k \in Key : bound'[k] = bound[k] \/ (k = KeyOf[d] /\ bound'[k] = w)
        /\ \A e \in Device : name'[e] = name[e] \/ (e = d /\ name'[e] = w)
    BY <1>t, <2>1 DEF Types
  <2>5. created' = created /\ ring' = ring /\ knows' = knows
    BY <1>2 DEF Reregister
  <2>6. BoundToOwn'
    BY <1>t, <1>i, <2>1, <2>3, <2>4 DEF BoundToOwn, Types
  <2>7. OneRow'
    BY <1>i, <2>3 DEF OneRow, Exists
  <2>8. w <= created
    BY <1>t, <1>i, <2>1 DEF Fresh, Types, Worker
  <2>9. Named'
    BY <1>t, <1>i, <2>1, <2>3, <2>4, <2>5, <2>8 DEF Named, Exists, Types
  <2>10. HeardByName'
    <3> SUFFICES ASSUME NEW v \in Worker
                 PROVE  /\ ~rows'[v].exists => rows'[v].cluster = 0 /\ ~rows'[v].waits
                                               /\ ~rows'[v].online
                        /\ rows'[v].cluster # 0 \/ rows'[v].online =>
                             name'[rows'[v].device] = v
                        /\ rows'[v].waits => rows'[v].cluster = 0
      BY DEF HeardByName, Exists
    <3>1. CASE v = w
      BY <2>1, <2>2, <2>3, <3>1 DEF Exists
    <3>2. CASE v # w
      <4>1. rows'[v] = rows[v] /\ rows[v].device \in Device
        BY <1>t, <2>3, <3>2 DEF Types, Rows
      <4>2. Exists(v) => rows[v].device # d
        BY <1>i, <2>1, <3>2 DEF OneRow
      <4> QED
        BY <1>i, <2>4, <4>1, <4>2 DEF HeardByName, Exists
    <3> QED
      BY <3>1, <3>2
  <2>11. \A c \in Cluster : In(c)' = In(c)
    BY <2>3 DEF In, Exists
  <2>12. \A c \in Cluster : \A v \in In(c) : rows'[v].device = rows[v].device
    BY <2>3 DEF In
  <2> QED
    BY <1>t, <1>i, <2>5, <2>6, <2>7, <2>9, <2>10, <2>11, <2>12, InKept DEF OwnInv
<1>3. ASSUME NEW k \in Key, NEW w \in Worker, Operate(k, w) PROVE OwnInv'
  <2>1. PICK d \in Device : KeyOf[d] = k /\ name[d] = w
    BY <1>3 DEF Operate, UsedOn, OwnKeysOnly
  <2>2. Exists(w) /\ w # 0 /\ rows[w].device = d
    BY <1>3, <1>i, <2>1 DEF Operate, MayOperate, Named, Worker
  <2>3. /\ \A v \in Worker : /\ rows'[v].exists = rows[v].exists
                             /\ rows'[v].device = rows[v].device
                             /\ rows'[v].cluster = rows[v].cluster
                             /\ rows'[v].waits = rows[v].waits
        /\ \A v \in Worker \ {w} : rows'[v].online = rows[v].online
    <3>1. rows[w] \in Rows
      BY <1>t DEF Types
    <3>2. rows' = rows \/ rows' = [rows EXCEPT ![w] = [rows[w] EXCEPT !.online = TRUE]]
      BY <1>3 DEF Operate
    <3>3. /\ rows'[w] = rows[w] \/ rows'[w] = [rows[w] EXCEPT !.online = TRUE]
          /\ \A v \in Worker \ {w} : rows'[v] = rows[v]
      BY <1>t, <3>2 DEF Types
    <3> QED
      BY <3>1, <3>3 DEF Rows
  <2>4. /\ \A l \in Key : bound'[l] = bound[l] \/ (l = k /\ bound'[l] = w)
        /\ name' = name /\ created' = created /\ ring' = ring /\ knows' = knows
    BY <1>t, <1>3 DEF Operate, Bind, Types
  <2>5. BoundToOwn'
    BY <1>t, <1>i, <2>1, <2>2, <2>3, <2>4 DEF BoundToOwn, Types
  <2>6. OneRow' /\ Named'
    BY <1>t, <1>i, <2>3, <2>4 DEF OneRow, Named, Exists, Types
  <2>7. HeardByName'
    BY <1>i, <2>1, <2>2, <2>3, <2>4 DEF HeardByName, Exists
  <2>8. \A c \in Cluster : In(c)' = In(c)
    BY <2>3 DEF In, Exists
  <2>9. \A c \in Cluster : \A v \in In(c) : rows'[v].device = rows[v].device
    BY <2>3 DEF In
  <2> QED
    BY <1>t, <1>i, <2>4, <2>5, <2>6, <2>7, <2>8, <2>9, InKept DEF OwnInv
<1>4. ASSUME NEW w \in Worker, Leave(w) PROVE OwnInv'
  <2> DEFINE c == rows[w].cluster
             released == IF c = 0 THEN rows ELSE Released(c)
  <2>1. Exists(w) /\ rows' = [released EXCEPT ![w] = Blank]
    BY <1>4 DEF Leave
  <2>2. /\ released \in [Worker -> Rows]
        /\ \A v \in Worker :
             /\ released[v].exists = rows[v].exists
             /\ released[v].device = rows[v].device
             /\ released[v].online = rows[v].online
             /\ released[v].waits => released[v].cluster = 0
             /\ released[v].cluster = IF Exists(v) /\ rows[v].cluster = c THEN 0
                                      ELSE rows[v].cluster
             /\ ~Exists(v) => released[v] = rows[v]
    <3>1. CASE c = 0
      BY <1>t, <1>i, <3>1 DEF Types, HeardByName, Rows
    <3>2. CASE c # 0
      BY <2>1, <3>2, Dissolved
    <3> QED
      BY <3>1, <3>2
  <2> HIDE DEF released
  <2>3. rows'[w] = Blank /\ \A v \in Worker \ {w} : rows'[v] = released[v]
    BY <2>1, <2>2
  <2>4. ~rows'[w].exists /\ ~rows'[w].waits /\ ~rows'[w].online /\ rows'[w].cluster = 0
    BY <2>3 DEF Blank
  <2>5. /\ \A k \in Key : bound'[k] = 0 \/ (bound'[k] = bound[k] /\ bound[k] # w)
        /\ name' = name /\ created' = created /\ ring' = ring /\ knows' = knows
    BY <1>t, <1>4 DEF Leave, Types
  <2>6. BoundToOwn'
    BY <1>t, <1>i, <2>2, <2>3, <2>5 DEF BoundToOwn, Types
  <2>7. OneRow' /\ Named'
    BY <1>t, <1>i, <2>2, <2>3, <2>4, <2>5 DEF OneRow, Named, Exists, Types
  <2>8. HeardByName'
    <3> SUFFICES ASSUME NEW v \in Worker
                 PROVE  /\ ~rows'[v].exists => rows'[v].cluster = 0 /\ ~rows'[v].waits
                                               /\ ~rows'[v].online
                        /\ rows'[v].cluster # 0 \/ rows'[v].online =>
                             name'[rows'[v].device] = v
                        /\ rows'[v].waits => rows'[v].cluster = 0
      BY DEF HeardByName, Exists
    <3> QED
      BY <1>i, <2>2, <2>3, <2>4, <2>5 DEF HeardByName, Exists
  <2>9. \A e \in Cluster : In(e)' = IF e = c THEN {} ELSE In(e)
    <3>1. ASSUME NEW e \in Cluster, NEW v \in Worker
          PROVE  v \in In(e)' <=> e # c /\ v \in In(e)
      <4>1. e # 0
        BY DEF Cluster
      <4>2. CASE v = w
        BY <2>1, <2>4, <4>1, <4>2 DEF In, Exists
      <4>3. CASE v # w
        BY <2>2, <2>3, <4>1, <4>3 DEF In, Exists
      <4> QED
        BY <4>2, <4>3
    <3> QED
      BY <3>1 DEF In
  <2>10. \A e \in Cluster : e # c => \A v \in In(e) : rows'[v].device = rows[v].device
    BY <2>2, <2>3 DEF In
  <2> QED
    BY <1>t, <1>i, <2>5, <2>6, <2>7, <2>8, <2>9, <2>10, InKept DEF OwnInv
<1>5. ASSUME NEW w \in Worker, Silent(w) PROVE OwnInv'
  <2> DEFINE c == rows[w].cluster
             released == IF c = 0 THEN rows ELSE Released(c)
  <2>1. Exists(w) /\ rows' = [released EXCEPT ![w].online = FALSE]
    BY <1>5, <1>i DEF Silent, HeardByName
  <2>2. /\ released \in [Worker -> Rows]
        /\ \A v \in Worker :
             /\ released[v].exists = rows[v].exists
             /\ released[v].device = rows[v].device
             /\ released[v].online = rows[v].online
             /\ released[v].waits => released[v].cluster = 0
             /\ released[v].cluster = IF Exists(v) /\ rows[v].cluster = c THEN 0
                                      ELSE rows[v].cluster
             /\ ~Exists(v) => released[v] = rows[v]
    <3>1. CASE c = 0
      BY <1>t, <1>i, <3>1 DEF Types, HeardByName, Rows
    <3>2. CASE c # 0
      BY <2>1, <3>2, Dissolved
    <3> QED
      BY <3>1, <3>2
  <2> HIDE DEF released
  <2>3. \A v \in Worker : /\ rows'[v].exists = released[v].exists
                          /\ rows'[v].device = released[v].device
                          /\ rows'[v].cluster = released[v].cluster
                          /\ rows'[v].waits = released[v].waits
                          /\ rows'[v].online => released[v].online
    BY <2>1, <2>2 DEF Rows
  <2>4. bound' = bound /\ name' = name /\ created' = created /\ ring' = ring /\ knows' = knows
    BY <1>5 DEF Silent
  <2>5. BoundToOwn' /\ OneRow' /\ Named'
    BY <1>t, <1>i, <2>2, <2>3, <2>4 DEF BoundToOwn, OneRow, Named, Exists, Types
  <2>6. HeardByName'
    <3> SUFFICES ASSUME NEW v \in Worker
                 PROVE  /\ ~rows'[v].exists => rows'[v].cluster = 0 /\ ~rows'[v].waits
                                               /\ ~rows'[v].online
                        /\ rows'[v].cluster # 0 \/ rows'[v].online =>
                             name'[rows'[v].device] = v
                        /\ rows'[v].waits => rows'[v].cluster = 0
      BY DEF HeardByName, Exists
    <3> QED
      BY <1>i, <2>2, <2>3, <2>4 DEF HeardByName, Exists
  <2>7. \A e \in Cluster : In(e)' = IF e = c THEN {} ELSE In(e)
    <3>1. ASSUME NEW e \in Cluster, NEW v \in Worker
          PROVE  v \in In(e)' <=> e # c /\ v \in In(e)
      <4>1. e # 0
        BY DEF Cluster
      <4> QED
        BY <2>2, <2>3, <4>1 DEF In, Exists
    <3> QED
      BY <3>1 DEF In
  <2>8. \A e \in Cluster : e # c => \A v \in In(e) : rows'[v].device = rows[v].device
    BY <2>2, <2>3 DEF In
  <2> QED
    BY <1>t, <1>i, <2>4, <2>5, <2>6, <2>7, <2>8, InKept DEF OwnInv
<1>6. ASSUME NEW k \in Key, Revoke(k) PROVE OwnInv'
  <2>1. rows' = rows /\ created' = created /\ ring' = ring /\ name' = name /\ knows' = knows
        /\ \A l \in Key : bound'[l] = 0 \/ bound'[l] = bound[l]
    BY <1>t, <1>6 DEF Revoke, table, Types
  <2> QED
    BY <1>t, <1>i, <2>1
       DEF OwnInv, BoundToOwn, OneRow, Named, HeardByName, WholeRing, ToldMembers, In, Exists
<1>7. ASSUME NEW S \in SUBSET Worker, Form(S) PROVE OwnInv'
  <2>1. PICK c \in Cluster :
          /\ ring[c] = {}
          /\ ring' = [ring EXCEPT ![c] = S]
          /\ rows' = [w \in Worker |->
                        IF w \in S THEN [rows[w] EXCEPT !.cluster = c, !.waits = FALSE]
                        ELSE rows[w]]
          /\ knows' = [d \in Device |->
                         IF \E w \in S : rows[w].device = d THEN knows[d] \cup {c}
                         ELSE knows[d]]
    BY <1>7 DEF Form
  <2>2. S # {} /\ \A w \in S : rows[w].waits /\ rows[w].online
        /\ bound' = bound /\ name' = name /\ created' = created
    BY <1>7 DEF Form
  <2>3. \A w \in S : Exists(w) /\ rows[w].cluster = 0 /\ name[rows[w].device] = w
    BY <1>i, <2>2 DEF HeardByName
  <2>4. \A v \in Worker : /\ rows'[v].exists = rows[v].exists
                          /\ rows'[v].device = rows[v].device
                          /\ rows'[v].online = rows[v].online
                          /\ IF v \in S THEN rows'[v].cluster = c /\ ~rows'[v].waits
                             ELSE rows'[v] = rows[v]
    <3> SUFFICES ASSUME NEW v \in Worker
                 PROVE  /\ rows'[v].exists = rows[v].exists
                        /\ rows'[v].device = rows[v].device
                        /\ rows'[v].online = rows[v].online
                        /\ IF v \in S THEN rows'[v].cluster = c /\ ~rows'[v].waits
                           ELSE rows'[v] = rows[v]
      OBVIOUS
    <3>1. rows[v] \in Rows
      BY <1>t DEF Types
    <3>2. rows'[v] = IF v \in S THEN [rows[v] EXCEPT !.cluster = c, !.waits = FALSE]
                     ELSE rows[v]
      BY <2>1
    <3> QED
      BY <3>1, <3>2 DEF Rows
  <2>5. BoundToOwn' /\ OneRow' /\ Named'
    BY <1>t, <1>i, <2>2, <2>4 DEF BoundToOwn, OneRow, Named, Exists, Types
  <2>6. HeardByName'
    <3> SUFFICES ASSUME NEW v \in Worker
                 PROVE  /\ ~rows'[v].exists => rows'[v].cluster = 0 /\ ~rows'[v].waits
                                               /\ ~rows'[v].online
                        /\ rows'[v].cluster # 0 \/ rows'[v].online =>
                             name'[rows'[v].device] = v
                        /\ rows'[v].waits => rows'[v].cluster = 0
      BY DEF HeardByName, Exists
    <3> QED
      BY <1>i, <2>2, <2>3, <2>4 DEF HeardByName, Exists
  <2>7. c # 0 /\ In(c) = {}
    <3>1. c # 0
      BY KeyAssumption DEF Cluster
    <3>2. In(c) = {} \/ In(c) = ring[c]
      BY <1>i DEF WholeRing
    <3> QED
      BY <2>1, <3>1, <3>2
  <2>8. \A e \in Cluster : In(e)' = IF e = c THEN S ELSE In(e)
    <3>1. ASSUME NEW e \in Cluster, NEW v \in Worker
          PROVE  v \in In(e)' <=> v \in IF e = c THEN S ELSE In(e)
      <4>1. e # 0
        BY DEF Cluster
      <4> QED
        BY <2>3, <2>4, <2>7, <4>1 DEF In, Exists
    <3> QED
      BY <3>1 DEF In
  <2>9. ring'[c] = S /\ \A e \in Cluster \ {c} : ring'[e] = ring[e]
    BY <1>t, <2>1 DEF Types
  <2>10. WholeRing'
    BY <1>i, <2>8, <2>9 DEF WholeRing
  <2>11. ASSUME NEW d \in Device, NEW e \in Cluster, e \in knows'[d]
         PROVE  ring'[e] # {} /\ (In(e)' # {} => \E w \in In(e)' : rows'[w].device = d)
    <3>1. CASE e = c
      <4>1. c \notin knows[d]
        BY <1>i, <2>1 DEF ToldMembers
      <4>2. \E w \in S : rows[w].device = d
        BY <2>1, <2>11, <3>1, <4>1
      <4> QED
        BY <2>2, <2>4, <2>8, <2>9, <3>1, <4>2
    <3>2. CASE e # c
      <4>1. e \in knows[d]
        BY <2>1, <2>11, <3>2
      <4> QED
        BY <1>i, <2>4, <2>8, <2>9, <3>2, <4>1 DEF ToldMembers, In
    <3> QED
      BY <3>1, <3>2
  <2>12. ToldMembers'
    BY <2>11 DEF ToldMembers
  <2> QED
    BY <1>t, <2>5, <2>6, <2>10, <2>12 DEF OwnInv
<1>8. ASSUME NEW d \in Device, NEW c \in Cluster, CallCluster(d, c) PROVE OwnInv'
  <2>1. PICK w \in SpeaksFor(KeyOf[d], c) :
          bound' = bound \/ bound' = [bound EXCEPT ![KeyOf[d]] = w]
    BY <1>8 DEF CallCluster, Bind
  <2>2. w \in Worker /\ rows[w].device = d
    BY <1>8, SpeaksForCaller DEF CallCluster
  <2>3. rows' = rows /\ created' = created /\ ring' = ring /\ name' = name /\ knows' = knows
    BY <1>8 DEF CallCluster, table
  <2>4. BoundToOwn'
    BY <1>t, <1>i, <2>1, <2>2, <2>3 DEF BoundToOwn, Types
  <2> QED
    BY <1>t, <1>i, <2>3, <2>4
       DEF OwnInv, OneRow, Named, HeardByName, WholeRing, ToldMembers, In, Exists
<1>9. CASE UNCHANGED vars
  BY <1>t, <1>i, <1>9
     DEF vars, table, OwnInv, BoundToOwn, OneRow, Named, HeardByName, WholeRing,
         ToldMembers, In, Exists
<1> QED
  BY <1>1, <1>2, <1>3, <1>4, <1>5, <1>6, <1>7, <1>8, <1>9 DEF Next

LEMMA CreditStep ==
  OwnKeysOnly /\ OwnInv /\ AttributedToCaller /\ [Next]_vars => AttributedToCaller'
<1> SUFFICES ASSUME OwnKeysOnly, OwnInv, AttributedToCaller, [Next]_vars
             PROVE  AttributedToCaller'
  OBVIOUS
<1>1. ASSUME NEW d \in Device, NEW c \in Cluster, CallCluster(d, c)
      PROVE  AttributedToCaller'
  <2>1. PICK w \in SpeaksFor(KeyOf[d], c) :
          credited' = [caller |-> d, device |-> rows[w].device]
    BY <1>1 DEF CallCluster
  <2>2. rows[w].device = d
    BY <1>1, SpeaksForCaller DEF CallCluster
  <2> QED
    BY <2>1, <2>2 DEF AttributedToCaller
<1>2. CASE UNCHANGED credited
  BY <1>2 DEF AttributedToCaller
<1> QED
  BY <1>1, <1>2
     DEF Next, Register, Reregister, Operate, Leave, Silent, Revoke, Form, vars

\* Reports and configs are a device's own, as long as no device registers
\* again and keys are used where they belong.
THEOREM CallsCountForCaller ==
  ASSUME OwnKeysOnly PROVE Spec => []AttributedToCaller
<1>1. Init => OwnInv /\ AttributedToCaller
  BY OwnInit DEF Init, AttributedToCaller, Nobody
<1>2. OwnInv /\ AttributedToCaller /\ [Next]_vars => (OwnInv /\ AttributedToCaller)'
  BY OwnStep, CreditStep
<1> QED
  BY <1>1, <1>2, PTL DEF Spec
=============================================================================
