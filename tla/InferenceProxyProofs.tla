------------------------ MODULE InferenceProxyProofs ------------------------
(* Proofs about InferenceProxy, for any keys, models, subnets and bounds.     *)
EXTENDS InferenceProxy, WellFoundedInduction, TLAPS

\* Min of a nonempty set of naturals is its least element.
LEMMA MinIsLeast ==
  ASSUME NEW S \in SUBSET Nat, S # {}
  PROVE  Min(S) \in S /\ \A x \in S : Min(S) <= x
<1> DEFINE Less == OpToRel(<, Nat)
<1>1. ASSUME NEW x \in Nat, NEW y \in Nat, ~ (<<y, x>> \in Less)
      PROVE  x <= y
  BY <1>1 DEF OpToRel
<1>2. PICK x \in S : \A y \in S : ~ (<<y, x>> \in Less)
  <2>1. IsWellFoundedOn(Less, Nat)
    BY NatLessThanWellFounded
  <2> HIDE DEF Less
  <2>2. QED  BY <2>1, WFMin
<1> HIDE DEF Less
<1>3. ASSUME NEW y \in S
      PROVE  x <= y
  <2>1. x \in Nat /\ y \in Nat
    OBVIOUS
  <2>2. ~ (<<y, x>> \in Less)
    BY <1>2
  <2>3. QED  BY <1>1, <2>1, <2>2
<1>4. QED
  BY <1>3 DEF Min

-----------------------------------------------------------------------------
\* Where a handler may stand.
Stand == {"none", "body", "connecting", "answering", "ended"}

ClusterRow ==
  [status : {"none", "assembling", "live", "terminated"},
   model : Model \cup {NoCluster.model},
   subnet : 0..MaxSubnet]

RequestRow ==
  [at : Stand, key : Key \cup {NoRequest.key}, stream : BOOLEAN,
   cluster : Cluster \cup {0}, servedBy : Cluster \cup {0}, past : SUBSET Cluster]

ProxyTypes ==
  /\ keys \subseteq Key
  /\ clusters \in [Cluster -> ClusterRow]
  /\ starts \in Nat \ {0}
  /\ tunnel \in [Cluster -> Nat]
  /\ told \in [Cluster -> Nat]
  /\ leaving \in Cluster \cup {0}
  /\ inflight \in [Request -> RequestRow]

Formed(c) == clusters[c] # NoCluster

\* An interface is of a cluster that is active or about to be left, or has been
\* left over.
JoinedIsActive ==
  \A c \in Cluster : tunnel[c] # 0 => Active(c) \/ c = leaving \/ c \in leftover

\* Clusters are formed in the order of their numbers, and one that is given the
\* subnet of an earlier one finds that one terminated.
SubnetsInTurn ==
  /\ \A c \in Cluster : clusters[c].status = "none" => ~Formed(c)
  /\ \A c, d \in Cluster :
       c < d /\ Formed(d) =>
         /\ Formed(c)
         /\ clusters[c].subnet = clusters[d].subnet => clusters[c].status = "terminated"

\* A cluster that is yet to be formed has no key; of the two of another, the head
\* has the younger one, and neither is from the future.
KeysInTurn ==
  \A c \in Cluster :
    /\ ~Formed(c) => tunnel[c] = 0 /\ told[c] = 0
    /\ tunnel[c] <= PublicKey /\ told[c] <= PublicKey
    /\ told[c] # 0 => tunnel[c] <= told[c]

PoolInv == JoinedIsActive /\ SubnetsInTurn /\ KeysInTurn

\* What was past stays past, a request on its way has been given a cluster, and
\* nobody answers a request before it is routed.
RoutedInTurn ==
  \A r \in Request :
    /\ \A c \in inflight[r].past : clusters[c].status = "terminated"
    /\ inflight[r].at = "connecting" =>
         inflight[r].cluster \in Cluster /\ Formed(inflight[r].cluster)
    /\ inflight[r].at \in {"none", "body", "connecting"} => inflight[r].servedBy = 0

\* AnswersInPlace, for the record of one request.
InPlace(q) ==
  q.servedBy \notin {0, q.cluster} =>
    \/ q.servedBy \in leftover
    \/ /\ clusters[q.cluster].status = "terminated"
       /\ q.cluster \in Cluster
       /\ q.cluster < q.servedBy /\ q.servedBy \notin q.past

AllInPlace == \A r \in Request : InPlace(inflight[r])

\* A row is of a request that has ended, and of a key that exists.
RowsOfEnded ==
  \A row \in usage :
    /\ row.key \in keys
    /\ row.request \in Request
    /\ inflight[row.request].at = "ended"

IInv ==
  /\ ProxyTypes
  /\ PoolInv
  /\ RoutedInTurn
  /\ AllInPlace
  /\ RowsOfEnded

LEMMA BlankRows ==
  /\ NoCluster \in ClusterRow
  /\ NoRequest \in RequestRow
  BY ProxyAssumption DEF NoCluster, NoRequest, ClusterRow, RequestRow, Stand

LEMMA KeyIsNatural == ProxyTypes => PublicKey \in Nat \ {0}
  BY DEF ProxyTypes, PublicKey

LEMMA InitHolds == Init => IInv
<1> SUFFICES ASSUME Init PROVE IInv
  OBVIOUS
<1>1. ProxyTypes
  BY BlankRows DEF Init, ProxyTypes
<1>2. JoinedIsActive
  BY DEF Init, JoinedIsActive
<1>3. SubnetsInTurn
  BY DEF Init, SubnetsInTurn, Formed
<1>4. KeysInTurn
  BY <1>1, KeyIsNatural DEF Init, KeysInTurn
<1>5. RoutedInTurn /\ AllInPlace
  BY DEF Init, RoutedInTurn, AllInPlace, InPlace, NoRequest
<1>6. RowsOfEnded
  BY DEF Init, RowsOfEnded
<1> QED
  BY <1>1, <1>2, <1>3, <1>4, <1>5, <1>6 DEF IInv, PoolInv

-----------------------------------------------------------------------------
(* Steps of the pool.                                                      *)

\* What a step may do to clusters: none comes back from its end or is unmade.
NoneReturns ==
  \A c \in Cluster :
    /\ clusters[c].status = "terminated" => clusters'[c].status = "terminated"
    /\ clusters[c] # NoCluster => clusters'[c] # NoCluster

\* Steps that leave requests and usage alone need to keep the pool only.
LEMMA PoolKeeps ==
  ASSUME IInv, inflight' = inflight, usage' = usage, keys' = keys,
         leftover \subseteq leftover', NoneReturns, ProxyTypes', PoolInv'
  PROVE  IInv'
<1>1. RoutedInTurn'
  BY DEF IInv, RoutedInTurn, NoneReturns, ProxyTypes, RequestRow, Formed
<1>2. AllInPlace'
  BY DEF IInv, AllInPlace, InPlace, NoneReturns
<1>3. RowsOfEnded'
  BY DEF IInv, RowsOfEnded
<1> QED
  BY <1>1, <1>2, <1>3 DEF IInv

\* A row with a status that is not that of NoCluster.
LEMMA StatusIsFormed ==
  ASSUME NEW row, row.status # "none"
  PROVE  row # NoCluster
  BY DEF NoCluster

LEMMA FormKeeps ==
  ASSUME IInv, NEW c \in Cluster, NEW m \in Model, FormCluster(c, m)
  PROVE  IInv'
<1> DEFINE free == (1..MaxSubnet) \ Subnets
           row == [status |-> "assembling", model |-> m, subnet |-> Min(free)]
<1>1. PICK key \in {0, PublicKey} : tunnel' = [tunnel EXCEPT ![c] = key]
  BY DEF FormCluster
<1>2. /\ clusters[c] = NoCluster
      /\ \A d \in Cluster : d < c => clusters[d] # NoCluster
      /\ clusters' = [clusters EXCEPT ![c] = row]
      /\ keys' = keys /\ starts' = starts /\ told' = told
      /\ leaving' = leaving /\ leftover' = leftover
      /\ inflight' = inflight /\ usage' = usage
  BY DEF FormCluster
<1>3. Min(free) \in free
  <2>1. free # {} /\ free \in SUBSET Nat
    BY ProxyAssumption DEF FormCluster
  <2> HIDE DEF free
  <2> QED  BY <2>1, MinIsLeast
<1>4. row \in ClusterRow /\ row.status = "assembling" /\ row.subnet \notin Subnets
  BY <1>3, ProxyAssumption DEF ClusterRow
<1> HIDE DEF row, free
<1>5. key \in Nat /\ PublicKey \in Nat \ {0} /\ PublicKey' = PublicKey
  BY <1>1, <1>2, KeyIsNatural DEF IInv, PublicKey
<1>6. ProxyTypes'
  BY <1>1, <1>2, <1>4, <1>5 DEF IInv, ProxyTypes
<1>7. /\ clusters'[c] = row
      /\ \A d \in Cluster : d # c => clusters'[d] = clusters[d]
      /\ tunnel'[c] = key
      /\ \A d \in Cluster : d # c => tunnel'[d] = tunnel[d]
  BY <1>1, <1>2 DEF IInv, ProxyTypes
<1>8. row # NoCluster /\ NoCluster.status = "none"
  BY <1>4, StatusIsFormed DEF NoCluster
<1>9. NoneReturns
  BY <1>2, <1>7, <1>8 DEF NoneReturns
<1>10. JoinedIsActive'
  BY <1>2, <1>4, <1>7 DEF JoinedIsActive, Active, IInv, PoolInv
<1>11. SubnetsInTurn'
  <2>1. \A d \in Cluster : clusters'[d].status = "none" => ~Formed(d)'
    BY <1>4, <1>7 DEF IInv, PoolInv, SubnetsInTurn, Formed
  <2>2. ASSUME NEW d \in Cluster, NEW e \in Cluster, d < e, Formed(e)'
        PROVE  /\ Formed(d)'
               /\ clusters'[d].subnet = clusters'[e].subnet => clusters'[d].status = "terminated"
    <3>1. CASE e = c
      <4>1. d # c /\ Formed(d)
        BY <1>2, <2>2, <3>1 DEF Formed, Cluster
      <4>2. clusters[d].subnet \notin Subnets => clusters[d].status = "terminated"
        <5>1. clusters[d].status \in {"assembling", "live", "terminated"}
          BY <4>1 DEF IInv, PoolInv, SubnetsInTurn, ProxyTypes, ClusterRow
        <5>2. Active(d) => clusters[d].subnet \in Subnets
          BY DEF Subnets
        <5> QED
          BY <5>1, <5>2 DEF Active
      <4>3. clusters'[d] = clusters[d] /\ clusters'[e] = row
        BY <1>7, <3>1, <4>1
      <4> QED
        BY <1>4, <4>1, <4>2, <4>3 DEF Formed
    <3>2. CASE e # c
      <4>1. Formed(e) /\ clusters'[e] = clusters[e]
        BY <1>7, <2>2, <3>2 DEF Formed
      <4>2. Formed(d) /\ d # c
        BY <1>2, <2>2, <4>1 DEF IInv, PoolInv, SubnetsInTurn, Formed
      <4>3. clusters'[d] = clusters[d]
        BY <1>7, <4>2
      <4> QED
        BY <2>2, <4>1, <4>2, <4>3 DEF IInv, PoolInv, SubnetsInTurn, Formed
    <3> QED
      BY <3>1, <3>2
  <2> QED
    BY <2>1, <2>2 DEF SubnetsInTurn
<1>12. KeysInTurn'
  <2> SUFFICES ASSUME NEW d \in Cluster
               PROVE  /\ ~Formed(d)' => tunnel'[d] = 0 /\ told'[d] = 0
                      /\ tunnel'[d] <= PublicKey' /\ told'[d] <= PublicKey'
                      /\ told'[d] # 0 => tunnel'[d] <= told'[d]
    BY DEF KeysInTurn
  <2>1. CASE d = c
    <3>1. told'[c] = 0
      BY <1>2 DEF IInv, PoolInv, KeysInTurn, Formed
    <3>2. tunnel'[c] <= PublicKey
      BY <1>1, <1>5, <1>7
    <3> QED
      BY <1>5, <1>7, <1>8, <2>1, <3>1, <3>2 DEF Formed
  <2>2. CASE d # c
    BY <1>2, <1>5, <1>7, <2>2 DEF IInv, PoolInv, KeysInTurn, Formed
  <2> QED
    BY <2>1, <2>2
<1> QED
  BY <1>2, <1>6, <1>9, <1>10, <1>11, <1>12, PoolKeeps DEF PoolInv

LEMMA FetchKeeps ==
  ASSUME IInv, NEW c \in Cluster, FetchConfig(c)
  PROVE  IInv'
<1>1. /\ told' = [told EXCEPT ![c] = PublicKey]
      /\ clusters' = clusters /\ tunnel' = tunnel /\ starts' = starts
      /\ leaving' = leaving /\ leftover' = leftover
      /\ keys' = keys /\ inflight' = inflight /\ usage' = usage
  BY DEF FetchConfig, table
<1>2. PublicKey \in Nat \ {0} /\ PublicKey' = PublicKey
  BY <1>1, KeyIsNatural DEF IInv, PublicKey
<1>3. ProxyTypes'
  BY <1>1, <1>2 DEF IInv, ProxyTypes
<1>4. NoneReturns /\ JoinedIsActive' /\ SubnetsInTurn'
  BY <1>1 DEF NoneReturns, JoinedIsActive, SubnetsInTurn, Formed, Active, IInv, PoolInv
<1>5. Formed(c)
  BY DEF FetchConfig, Active, Formed, NoCluster
<1>6. KeysInTurn'
  BY <1>1, <1>2, <1>5 DEF KeysInTurn, Formed, IInv, PoolInv, ProxyTypes
<1> QED
  BY <1>1, <1>3, <1>4, <1>6, PoolKeeps DEF PoolInv

\* A cluster moves on, to a status of its own.
LEMMA StatusKeeps ==
  ASSUME IInv, NEW c \in Cluster, NEW status \in {"live", "terminated"},
         Active(c), clusters' = [clusters EXCEPT ![c].status = status]
  PROVE  /\ clusters' \in [Cluster -> ClusterRow]
         /\ NoneReturns
         /\ SubnetsInTurn'
         /\ \A d \in Cluster : Formed(d)' <=> Formed(d)
<1>1. clusters' \in [Cluster -> ClusterRow]
  BY DEF IInv, ProxyTypes, ClusterRow
<1>2. /\ \A d \in Cluster : d # c => clusters'[d] = clusters[d]
      /\ clusters'[c].status = status
      /\ clusters'[c].subnet = clusters[c].subnet
  BY DEF IInv, ProxyTypes, ClusterRow
<1>3. Formed(c) /\ Formed(c)' /\ clusters[c].status # "terminated"
  BY <1>2, StatusIsFormed DEF Active, Formed
<1>4. NoneReturns
  BY <1>2, <1>3 DEF NoneReturns, Formed
<1>5. \A d \in Cluster : Formed(d)' <=> Formed(d)
  BY <1>2, <1>3 DEF Formed
<1>6. \A d \in Cluster : clusters'[d].subnet = clusters[d].subnet
  BY <1>2
<1>7. SubnetsInTurn'
  <2>1. \A d \in Cluster : clusters'[d].status = "none" => ~Formed(d)'
    BY <1>2, <1>5 DEF IInv, PoolInv, SubnetsInTurn
  <2>2. ASSUME NEW d \in Cluster, NEW e \in Cluster, d < e, Formed(e)'
        PROVE  /\ Formed(d)'
               /\ clusters'[d].subnet = clusters'[e].subnet => clusters'[d].status = "terminated"
    <3>1. /\ Formed(d)
          /\ clusters[d].subnet = clusters[e].subnet => clusters[d].status = "terminated"
      BY <1>5, <2>2 DEF IInv, PoolInv, SubnetsInTurn
    <3> QED
      BY <1>4, <1>5, <1>6, <3>1 DEF NoneReturns
  <2> QED
    BY <2>1, <2>2 DEF SubnetsInTurn
<1> QED
  BY <1>1, <1>4, <1>5, <1>7

LEMMA LiveKeeps ==
  ASSUME IInv, NEW c \in Cluster, GoesLive(c)
  PROVE  IInv'
<1>1. /\ clusters[c].status = "assembling"
      /\ clusters' = [clusters EXCEPT ![c].status = "live"]
      /\ told' = told /\ tunnel' = tunnel /\ starts' = starts
      /\ leaving' = leaving /\ leftover' = leftover
      /\ keys' = keys /\ inflight' = inflight /\ usage' = usage
  BY DEF GoesLive, network
<1>2. /\ clusters' \in [Cluster -> ClusterRow]
      /\ NoneReturns /\ SubnetsInTurn'
      /\ \A d \in Cluster : Formed(d)' <=> Formed(d)
  BY <1>1, StatusKeeps DEF Active
<1>3. ProxyTypes'
  BY <1>1, <1>2 DEF IInv, ProxyTypes
<1>4. JoinedIsActive'
  BY <1>1 DEF JoinedIsActive, Active, IInv, PoolInv, ProxyTypes, ClusterRow
<1>5. KeysInTurn'
  BY <1>1, <1>2 DEF KeysInTurn, PublicKey, IInv, PoolInv
<1> QED
  BY <1>1, <1>2, <1>3, <1>4, <1>5, PoolKeeps DEF PoolInv

LEMMA TerminateKeeps ==
  ASSUME IInv, NEW c \in Cluster, leaving = 0, Terminate(c)
  PROVE  IInv'
<1>1. /\ Active(c)
      /\ clusters' = [clusters EXCEPT ![c].status = "terminated"]
      /\ leaving' = c
      /\ told' = told /\ tunnel' = tunnel /\ starts' = starts /\ leftover' = leftover
      /\ keys' = keys /\ inflight' = inflight /\ usage' = usage
  BY DEF Terminate
<1>2. /\ clusters' \in [Cluster -> ClusterRow]
      /\ NoneReturns /\ SubnetsInTurn'
      /\ \A d \in Cluster : Formed(d)' <=> Formed(d)
  BY <1>1, StatusKeeps
<1>3. ProxyTypes'
  BY <1>1, <1>2 DEF IInv, ProxyTypes
<1>4. JoinedIsActive'
  BY <1>1 DEF JoinedIsActive, Active, IInv, PoolInv, ProxyTypes, Cluster
<1>5. KeysInTurn'
  BY <1>1, <1>2 DEF KeysInTurn, PublicKey, IInv, PoolInv
<1> QED
  BY <1>1, <1>2, <1>3, <1>4, <1>5, PoolKeeps DEF PoolInv

\* The interfaces that are up change as little as this when the server leaves a
\* network or starts again.
LEMMA NetworkKeeps ==
  ASSUME IInv, clusters' = clusters, told' = told, starts' \in {starts, starts + 1},
         leaving' = 0, leftover \subseteq leftover',
         tunnel' \in [Cluster -> Nat],
         \A c \in Cluster :
           /\ tunnel'[c] \in {0, tunnel[c]}
           /\ c = leaving /\ tunnel'[c] # 0 => c \in leftover'
  PROVE  PoolInv'
<1>1. PublicKey \in Nat /\ PublicKey' \in Nat /\ PublicKey <= PublicKey'
  BY DEF PublicKey, IInv, ProxyTypes
<1>2. JoinedIsActive'
  BY DEF JoinedIsActive, Active, IInv, PoolInv
<1>3. SubnetsInTurn'
  BY DEF SubnetsInTurn, Formed, IInv, PoolInv
<1>4. KeysInTurn'
  <2> SUFFICES ASSUME NEW c \in Cluster
               PROVE  /\ ~Formed(c)' => tunnel'[c] = 0 /\ told'[c] = 0
                      /\ tunnel'[c] <= PublicKey' /\ told'[c] <= PublicKey'
                      /\ told'[c] # 0 => tunnel'[c] <= told'[c]
    BY DEF KeysInTurn
  <2>1. /\ tunnel'[c] \in {0, tunnel[c]} /\ tunnel[c] \in Nat /\ told[c] \in Nat
        /\ told'[c] = told[c] /\ (Formed(c)' <=> Formed(c))
    BY DEF IInv, ProxyTypes, Formed
  <2>2. /\ ~Formed(c) => tunnel[c] = 0 /\ told[c] = 0
        /\ tunnel[c] <= PublicKey /\ told[c] <= PublicKey
        /\ told[c] # 0 => tunnel[c] <= told[c]
    BY DEF IInv, PoolInv, KeysInTurn
  <2> QED
    BY <1>1, <2>1, <2>2
<1> QED
  BY <1>2, <1>3, <1>4 DEF PoolInv

LEMMA LeaveKeeps == IInv /\ Leave => IInv'
<1> SUFFICES ASSUME IInv, Leave PROVE IInv'
  OBVIOUS
<1>1. /\ leaving' = 0 /\ leaving \in Cluster
      /\ clusters' = clusters /\ told' = told /\ starts' = starts
      /\ keys' = keys /\ inflight' = inflight /\ usage' = usage
  BY DEF Leave, table, IInv, ProxyTypes
<1>2. /\ leftover \subseteq leftover'
      /\ tunnel' \in [Cluster -> Nat]
      /\ \A c \in Cluster :
           /\ tunnel'[c] \in {0, tunnel[c]}
           /\ c = leaving /\ tunnel'[c] # 0 => c \in leftover'
  BY DEF Leave, Joined, IInv, ProxyTypes
<1>3. PoolInv'
  BY <1>1, <1>2, NetworkKeeps
<1>4. ProxyTypes' /\ NoneReturns
  BY <1>1, <1>2 DEF IInv, ProxyTypes, NoneReturns
<1> QED
  BY <1>1, <1>2, <1>3, <1>4, PoolKeeps

LEMMA RestartKeeps == IInv /\ Restart => IInv'
<1> SUFFICES ASSUME IInv, Restart PROVE IInv'
  OBVIOUS
<1> DEFINE lost(r) == IF inflight[r] = NoRequest THEN NoRequest
                      ELSE [inflight[r] EXCEPT !.at = "ended"]
<1>1. /\ inflight' = [r \in Request |-> lost(r)]
      /\ starts' = starts + 1 /\ leaving' = 0
      /\ keys' = keys /\ clusters' = clusters /\ told' = told /\ usage' = usage
  BY DEF Restart, table
<1>2. /\ leftover \subseteq leftover'
      /\ tunnel' \in [Cluster -> Nat]
      /\ \A c \in Cluster :
           /\ tunnel'[c] \in {0, tunnel[c]}
           /\ c = leaving /\ tunnel'[c] # 0 => c \in leftover'
  BY DEF Restart, Joined, IInv, ProxyTypes
<1>3. \A r \in Request :
        /\ lost(r) \in RequestRow
        /\ lost(r).past = inflight[r].past
        /\ lost(r).cluster = inflight[r].cluster
        /\ lost(r).servedBy = inflight[r].servedBy
        /\ lost(r).at \in {"none", "ended"}
        /\ lost(r).at = "none" => lost(r) = NoRequest
        /\ inflight[r].at = "ended" => lost(r).at = "ended"
  BY BlankRows DEF IInv, ProxyTypes, RequestRow, Stand, NoRequest
<1>4. NoRequest.servedBy = 0
  BY DEF NoRequest
<1> HIDE DEF lost
<1>5. PoolInv'
  BY <1>1, <1>2, NetworkKeeps
<1>6. ProxyTypes'
  BY <1>1, <1>2, <1>3 DEF IInv, ProxyTypes
<1>7. RoutedInTurn'
  BY <1>1, <1>3, <1>4 DEF IInv, RoutedInTurn
<1>8. AllInPlace'
  BY <1>1, <1>2, <1>3 DEF IInv, AllInPlace, InPlace
<1>9. RowsOfEnded'
  BY <1>1, <1>3 DEF IInv, RowsOfEnded
<1> QED
  BY <1>5, <1>6, <1>7, <1>8, <1>9 DEF IInv

\* Of what the invariant speaks of, a step of a request leaves the network alone.
LEMMA SameNetwork ==
  ASSUME IInv, clusters' = clusters, UNCHANGED network
  PROVE  PoolInv' /\ NoneReturns /\ leftover' = leftover
  BY DEF network, IInv, PoolInv, JoinedIsActive, SubnetsInTurn, KeysInTurn,
         Formed, Active, PublicKey, NoneReturns

LEMMA RevokeKeeps ==
  ASSUME IInv, NEW k \in Key, RevokeKey(k)
  PROVE  IInv'
<1>1. /\ keys' = keys \ {k}
      /\ usage' = {row \in usage : row.key # k}
      /\ clusters' = clusters /\ inflight' = inflight
      /\ UNCHANGED network
  BY DEF RevokeKey
<1>2. PoolInv' /\ leftover' = leftover
  BY <1>1, SameNetwork
<1>3. ProxyTypes'
  BY <1>1 DEF IInv, ProxyTypes, network
<1>4. RoutedInTurn' /\ AllInPlace'
  BY <1>1, <1>2 DEF IInv, RoutedInTurn, AllInPlace, InPlace, Formed
<1>5. RowsOfEnded'
  BY <1>1 DEF IInv, RowsOfEnded
<1> QED
  BY <1>2, <1>3, <1>4, <1>5 DEF IInv

LEMMA NothingKeeps ==
  ASSUME IInv, UNCHANGED <<keys, clusters, network, inflight, usage>>
  PROVE  IInv'
<1>1. /\ keys' = keys /\ clusters' = clusters
      /\ inflight' = inflight /\ usage' = usage
      /\ UNCHANGED network
  OBVIOUS
<1>2. PoolInv' /\ NoneReturns /\ leftover' = leftover
  BY <1>1, SameNetwork
<1>3. ProxyTypes'
  BY <1>1 DEF IInv, ProxyTypes, network
<1> QED
  BY <1>1, <1>2, <1>3, PoolKeeps

-----------------------------------------------------------------------------
(* Steps of a request.                                                     *)

\* A handler moves its request only, and what it records is of a request that
\* ends with it.
LEMMA HandlerKeeps ==
  ASSUME IInv, UNCHANGED <<table, network>>,
         NEW r \in Request, NEW next \in RequestRow,
         inflight' = [inflight EXCEPT ![r] = next],
         inflight[r].at # "ended",
         \A c \in next.past : clusters[c].status = "terminated",
         next.at = "connecting" => next.cluster \in Cluster /\ Formed(next.cluster),
         next.at \in {"none", "body", "connecting"} => next.servedBy = 0,
         InPlace(next),
         \A row \in usage' :
           \/ row \in usage
           \/ row.request = r /\ row.key \in keys /\ next.at = "ended"
  PROVE  IInv'
<1>1. keys' = keys /\ clusters' = clusters /\ UNCHANGED network
  BY DEF table
<1>2. /\ inflight'[r] = next
      /\ \A q \in Request : q # r => inflight'[q] = inflight[q]
  BY DEF IInv, ProxyTypes
<1>3. PoolInv' /\ leftover' = leftover
  BY <1>1, SameNetwork
<1>4. ProxyTypes'
  BY <1>1 DEF IInv, ProxyTypes, network
<1>5. RoutedInTurn'
  BY <1>1, <1>2 DEF IInv, RoutedInTurn, Formed
<1>6. AllInPlace'
  BY <1>1, <1>2, <1>3 DEF IInv, AllInPlace, InPlace
<1>7. RowsOfEnded'
  BY <1>1, <1>2 DEF IInv, RowsOfEnded
<1> QED
  BY <1>3, <1>4, <1>5, <1>6, <1>7 DEF IInv

LEMMA AuthorizedKeeps ==
  ASSUME IInv, NEW r \in Request, NEW k \in Key, NEW stream \in BOOLEAN,
         Authorized(r, k, stream)
  PROVE  IInv'
<1> DEFINE next == [NoRequest EXCEPT !.at = "body", !.key = k, !.stream = stream]
<1>1. /\ next \in RequestRow
      /\ next.past = {} /\ next.servedBy = 0 /\ next.at = "body"
      /\ inflight[r].at # "ended"
  BY BlankRows DEF Authorized, RequestRow, Stand, NoRequest
<1>2. /\ inflight' = [inflight EXCEPT ![r] = next]
      /\ usage' = usage
      /\ UNCHANGED <<table, network>>
  BY DEF Authorized
<1>3. InPlace(next)
  BY <1>1 DEF InPlace
<1> HIDE DEF next
<1> QED
  BY <1>1, <1>2, <1>3, HandlerKeeps

\* A request that moves on keeps all it has; MovesTo, for a record.
LEMMA MoveIsNext ==
  ASSUME IInv, NEW r \in Request, NEW at \in Stand, MovesTo(r, at)
  PROVE  LET next == [inflight[r] EXCEPT !.at = at] IN
         /\ inflight' = [inflight EXCEPT ![r] = next]
         /\ next \in RequestRow
         /\ next.at = at
         /\ next.past = inflight[r].past
         /\ next.cluster = inflight[r].cluster
         /\ next.servedBy = inflight[r].servedBy
  BY DEF MovesTo, IInv, ProxyTypes, RequestRow

\* A request that ends, with what it records.
LEMMA EndKeeps ==
  ASSUME IInv, UNCHANGED <<table, network>>,
         NEW r \in Request, inflight[r].at # "ended", MovesTo(r, "ended"),
         \A row \in usage' :
           \/ row \in usage
           \/ row.request = r /\ row.key \in keys
  PROVE  IInv'
<1> DEFINE next == [inflight[r] EXCEPT !.at = "ended"]
<1>1. /\ inflight' = [inflight EXCEPT ![r] = next]
      /\ next \in RequestRow
      /\ next.at = "ended"
      /\ next.past = inflight[r].past
      /\ next.cluster = inflight[r].cluster
      /\ next.servedBy = inflight[r].servedBy
  BY MoveIsNext DEF Stand
<1> HIDE DEF next
<1>2. /\ \A c \in next.past : clusters[c].status = "terminated"
      /\ InPlace(next)
  BY <1>1 DEF IInv, RoutedInTurn, AllInPlace, InPlace
<1> QED
  BY <1>1, <1>2, HandlerKeeps

LEMMA RoutedKeeps ==
  ASSUME IInv, NEW r \in Request, NEW m \in Model, Routed(r, m)
  PROVE  IInv'
<1>1. /\ inflight[r].at = "body"
      /\ usage' = usage
      /\ UNCHANGED <<table, network>>
  BY DEF Routed
<1>2. CASE LiveClusters(m) = {}
  BY <1>1, <1>2, EndKeeps DEF Routed
<1>3. CASE LiveClusters(m) # {}
  <2> DEFINE over == {c \in Cluster : clusters[c].status = "terminated"}
             next == [inflight[r] EXCEPT !.at = "connecting",
                                         !.cluster = Min(LiveClusters(m)),
                                         !.past = over]
  <2>1. Min(LiveClusters(m)) \in LiveClusters(m)
    <3>1. LiveClusters(m) \in SUBSET Nat
      BY DEF LiveClusters, Cluster
    <3> QED  BY <1>3, <3>1, MinIsLeast
  <2>2. /\ Min(LiveClusters(m)) \in Cluster
        /\ Formed(Min(LiveClusters(m)))
    BY <2>1 DEF LiveClusters, Formed, NoCluster
  <2>3. inflight' = [inflight EXCEPT ![r] = next]
    BY <1>3 DEF Routed, IInv, ProxyTypes
  <2>4. /\ next \in RequestRow
        /\ next.at = "connecting" /\ next.past = over
        /\ next.cluster = Min(LiveClusters(m))
        /\ next.servedBy = inflight[r].servedBy
    BY <2>2 DEF IInv, ProxyTypes, RequestRow, Stand
  <2>5. next.servedBy = 0
    BY <1>1, <2>4 DEF IInv, RoutedInTurn
  <2>6. InPlace(next) /\ \A c \in over : clusters[c].status = "terminated"
    BY <2>5 DEF InPlace
  <2> HIDE DEF next, over
  <2> QED
    BY <1>1, <2>2, <2>3, <2>4, <2>5, <2>6, HandlerKeeps
<1> QED
  BY <1>2, <1>3

\* Who answers has an interface that is up, and so is active or left over; if it
\* is active and not the cluster chosen, it is the later of the two.
LEMMA ConnectedKeeps ==
  ASSUME IInv, leaving = 0, NEW r \in Request, Connected(r)
  PROVE  IInv'
<1> DEFINE chosen == inflight[r].cluster
<1>1. PICK c \in HeadsAt(HeadIP(chosen)) :
        inflight' = [inflight EXCEPT ![r].at = "answering", ![r].servedBy = c]
  BY DEF Connected
<1>2. /\ inflight[r].at = "connecting"
      /\ usage' = usage
      /\ UNCHANGED <<table, network>>
  BY DEF Connected
<1> DEFINE next == [inflight[r] EXCEPT !.at = "answering", !.servedBy = c]
<1>3. c \in Cluster /\ tunnel[c] # 0 /\ clusters[c].subnet = clusters[chosen].subnet
  BY DEF HeadsAt, HeadIP
<1>4. inflight' = [inflight EXCEPT ![r] = next]
  BY <1>1 DEF IInv, ProxyTypes
<1>5. /\ next \in RequestRow
      /\ next.at = "answering" /\ next.servedBy = c
      /\ next.cluster = chosen /\ next.past = inflight[r].past
  BY <1>3 DEF IInv, ProxyTypes, RequestRow, Stand
<1>6. chosen \in Cluster /\ Formed(chosen)
  BY <1>2 DEF IInv, RoutedInTurn
<1>7. c \in leftover \/ Active(c)
  BY <1>3 DEF IInv, PoolInv, JoinedIsActive, Cluster
<1>8. ASSUME Active(c), c # chosen
      PROVE  /\ clusters[chosen].status = "terminated"
             /\ chosen < c /\ c \notin inflight[r].past
  <2>1. Formed(c) /\ clusters[c].status # "terminated"
    BY <1>8 DEF Active, Formed, NoCluster
  <2>2. ~(c < chosen)
    BY <1>3, <1>6, <2>1 DEF IInv, PoolInv, SubnetsInTurn
  <2>3. chosen < c
    BY <1>3, <1>6, <1>8, <2>2 DEF Cluster
  <2>4. clusters[chosen].status = "terminated"
    BY <1>3, <1>6, <2>1, <2>3 DEF IInv, PoolInv, SubnetsInTurn
  <2>5. c \notin inflight[r].past
    BY <2>1 DEF IInv, RoutedInTurn
  <2> QED
    BY <2>3, <2>4, <2>5
<1>9. InPlace(next)
  BY <1>5, <1>6, <1>7, <1>8 DEF InPlace
<1>10. \A d \in inflight[r].past : clusters[d].status = "terminated"
  BY DEF IInv, RoutedInTurn
<1> HIDE DEF next, chosen
<1> QED
  BY <1>2, <1>4, <1>5, <1>9, <1>10, HandlerKeeps

LEMMA FailedKeeps ==
  ASSUME IInv, NEW r \in Request, Failed(r)
  PROVE  IInv'
  BY EndKeeps DEF Failed

LEMMA AnsweredKeeps ==
  ASSUME IInv, NEW r \in Request, NEW counted \in BOOLEAN, Answered(r, counted)
  PROVE  IInv'
<1>1. /\ inflight[r].at = "answering"
      /\ MovesTo(r, "ended")
      /\ UNCHANGED <<table, network>>
  BY DEF Answered
<1>2. ASSUME NEW row \in usage', row \notin usage
      PROVE  row.request = r /\ row.key \in keys
  <2>1. /\ inflight[r].key \in keys
        /\ usage' = usage \cup {Row(r, counted)}
    BY <1>2 DEF Answered, Record
  <2> QED
    BY <1>2, <2>1 DEF Row
<1> QED
  BY <1>1, <1>2, EndKeeps

-----------------------------------------------------------------------------
LEMMA NextKeeps == IInv /\ [Next]_vars => IInv'
<1> SUFFICES ASSUME IInv, [Next]_vars PROVE IInv'
  OBVIOUS
<1>1. CASE UNCHANGED vars
  BY <1>1, NothingKeeps DEF vars, table
<1>2. ASSUME leaving = 0, NEW c \in Cluster,
             \/ \E m \in Model : FormCluster(c, m)
             \/ FetchConfig(c) \/ GoesLive(c) \/ Terminate(c)
      PROVE  IInv'
  BY <1>2, FormKeeps, FetchKeeps, LiveKeeps, TerminateKeeps
<1>3. CASE Leave \/ Restart
  BY <1>3, LeaveKeeps, RestartKeeps
<1>4. ASSUME NEW k \in Key, SetPermission(k)
      PROVE  IInv'
  BY <1>4, NothingKeeps DEF SetPermission
<1>5. ASSUME NEW k \in Key, RevokeKey(k)
      PROVE  IInv'
  BY <1>5, RevokeKeeps
<1>6. ASSUME leaving = 0, NEW r \in Request, Handler(r)
      PROVE  IInv'
  BY <1>6, AuthorizedKeeps, RoutedKeeps, ConnectedKeeps, FailedKeeps, AnsweredKeeps
     DEF Handler
<1> QED
  BY <1>1, <1>2, <1>3, <1>4, <1>5, <1>6 DEF Next, Pool

LEMMA Invariance == Spec => []IInv
  BY InitHolds, NextKeeps, PTL DEF Spec

\* What a revoked key used does not come back: record_request cannot insert a
\* row of a key that is gone.
THEOREM RevokedIsGone == Spec => []RevokedLeavesNothing
<1>1. IInv => RevokedLeavesNothing
  BY DEF IInv, RowsOfEnded, RevokedLeavesNothing
<1> QED
  BY <1>1, Invariance, PTL

\* Who answers in the place of the cluster a request was routed to has its
\* subnet since that one was dissolved, unless it was left over: no interface
\* outlives its cluster but by a failure of `down` or a death before it, and no
\* subnet is given out while its cluster is active.
THEOREM AnswersAreInPlace == Spec => []AnswersInPlace
<1>1. IInv => AnswersInPlace
  BY DEF IInv, AllInPlace, InPlace, AnswersInPlace
<1> QED
  BY <1>1, Invariance, PTL

\* Whether the key is configured or generated at each start, a head has the key of
\* every interface that the running server has brought up, if it has one at all.
THEOREM KeysOfThisStart == Spec => []MismatchIsOlder
<1>1. IInv => MismatchIsOlder
  BY KeyIsNatural DEF IInv, PoolInv, KeysInTurn, MismatchIsOlder, ProxyTypes
<1> QED
  BY <1>1, Invariance, PTL

\* Usage outlives its cluster, restarts and permissions: a row goes with its key.
THEOREM UsageOutlives == Spec => UsageSurvives
<1> DEFINE Kept == \A row \in usage : row \in usage' \/ row.key \notin keys'
<1>1. [Next]_vars => [Kept]_vars
  <2> SUFFICES ASSUME Next PROVE Kept
    OBVIOUS
  <2>1. ASSUME NEW k \in Key, RevokeKey(k) PROVE Kept
    BY <2>1 DEF RevokeKey
  <2>2. ASSUME NEW r \in Request, Handler(r) PROVE Kept
    BY <2>2 DEF Handler, Authorized, Routed, Connected, Failed, Answered, Record
  <2> QED
    BY <2>1, <2>2
       DEF Next, Pool, FormCluster, FetchConfig, GoesLive, Terminate, Leave, Restart,
           SetPermission
<1> QED
  BY <1>1, PTL DEF Spec, UsageSurvives
=============================================================================
