---------------------------- MODULE PushHubProofs ----------------------------
(* The hub's map holds no entry that nobody will take away, and what clients  *)
(* believe converges to what the store says, for any workers, sockets,        *)
(* clusters and broadcasts.                                                   *)
EXTENDS PushHub, FiniteSetTheorems, WellFoundedInduction, SequenceTheorems, TLAPS

SocketRow ==
  [worker : Worker \cup {0},
   handler : {"none", "accept", "hello", "loop", "ended"},
   alive : BOOLEAN]

MapTypes ==
  /\ sockets \in [Socket -> SocketRow]
  /\ connections \in [Worker -> 0..MaxSocket]

\* EntryHasHandler is inductive: a socket's worker never changes, and the two
\* steps by which a handler leaves its receive loop or gives up a send take
\* away the entry of that worker, whichever socket it names.
MapInv == MapTypes /\ EntryHasHandler

LEMMA MapInit == Init => MapInv
  BY HubAssumption
  DEF Init, MapInv, MapTypes, EntryHasHandler, SocketRow, NoSocket, Socket

\* A step that gives no worker another socket and takes no handler out of
\* its loop keeps the map in order.
LEMMA MapKept ==
  ASSUME MapInv,
         sockets' \in [Socket -> SocketRow],
         connections' \in [Worker -> 0..MaxSocket],
         \A w \in Worker : connections'[w] \in {0, connections[w]},
         \A w \in Worker :
           connections'[w] # 0 =>
             /\ sockets'[connections[w]].worker = sockets[connections[w]].worker
             /\ sockets'[connections[w]].handler \in {"hello", "loop"}
  PROVE  MapInv'
  BY DEF MapInv, MapTypes, EntryHasHandler

LEMMA NoEntry == 0 \in 0..MaxSocket
  BY HubAssumption

\* Rewriting one entry keeps the domain of the map.
LEMMA EntryTypes ==
  ASSUME NEW f \in [Worker -> 0..MaxSocket], NEW w, NEW s \in 0..MaxSocket
  PROVE  [f EXCEPT ![w] = s] \in [Worker -> 0..MaxSocket]
  OBVIOUS

LEMMA MapStep == MapInv /\ [Next]_vars => MapInv'
<1> SUFFICES ASSUME MapInv, [Next]_vars
             PROVE  MapInv'
  OBVIOUS
<1> USE HubAssumption
<1> USE DEF MapInv, MapTypes
<1>1. CASE UNCHANGED <<sockets, connections>>
  BY <1>1 DEF EntryHasHandler
<1>2. ASSUME NEW i \in DOMAIN running, SendRaises(i)
      PROVE  MapInv'
  <2>1. /\ sockets' = sockets
        /\ connections' = [connections EXCEPT ![running[i].worker] = 0]
    BY <1>2 DEF SendRaises
  <2>2. connections' \in [Worker -> 0..MaxSocket]
    BY <2>1, NoEntry, EntryTypes
  <2>3. \A w \in Worker : connections'[w] \in {0, connections[w]}
    BY <2>1
  <2>4. QED
    BY <2>1, <2>2, <2>3, MapKept DEF EntryHasHandler
<1>3. ASSUME NEW s \in Socket, NEW w \in Worker, Connect(w, s)
      PROVE  MapInv'
  <2>1. /\ sockets[s] = NoSocket
        /\ connections' = connections
        /\ sockets' = [sockets EXCEPT
             ![s] = [worker |-> w, handler |-> "accept", alive |-> TRUE]]
    BY <1>3 DEF Connect
  <2>2. sockets' \in [Socket -> SocketRow]
    BY <2>1 DEF SocketRow
  <2>3. \A v \in Worker : connections[v] # s
    BY <2>1 DEF EntryHasHandler, NoSocket, Socket
  <2>4. QED
    BY <2>1, <2>2, <2>3, MapKept DEF EntryHasHandler
<1>4. ASSUME NEW s \in Socket, ConnectionLost(s)
      PROVE  MapInv'
  <2>1. /\ connections' = connections
        /\ sockets' = [sockets EXCEPT ![s].alive = FALSE]
    BY <1>4 DEF ConnectionLost
  <2>2. sockets' \in [Socket -> SocketRow]
    BY <2>1 DEF SocketRow
  <2>3. \A r \in Socket : /\ sockets'[r].worker = sockets[r].worker
                          /\ sockets'[r].handler = sockets[r].handler
    BY <2>1 DEF SocketRow
  <2>4. QED
    BY <2>1, <2>2, <2>3, MapKept DEF EntryHasHandler, Socket
<1>5. ASSUME NEW s \in Socket, Accepted(s)
      PROVE  MapInv'
  <2> DEFINE w == sockets[s].worker
  <2>1. /\ sockets[s].handler = "accept"
        /\ connections' = [connections EXCEPT ![w] = s]
        /\ sockets' = [sockets EXCEPT ![s].handler = "hello"]
    BY <1>5 DEF Accepted
  <2>2. sockets' \in [Socket -> SocketRow]
    BY <2>1 DEF SocketRow
  <2>3. connections' \in [Worker -> 0..MaxSocket]
    <3>1. s \in 0..MaxSocket
      BY DEF Socket
    <3>2. QED  BY <2>1, <3>1, EntryTypes
  <2>4. \A v \in Worker :
          connections[v] # 0 =>
            /\ connections[v] \in Socket
            /\ connections[v] # s
            /\ sockets'[connections[v]] = sockets[connections[v]]
    BY <2>1 DEF EntryHasHandler, Socket
  <2>5. sockets'[s].worker = w /\ sockets'[s].handler = "hello"
    BY <2>1 DEF SocketRow
  <2>6. EntryHasHandler'
    BY <2>1, <2>4, <2>5 DEF EntryHasHandler
  <2>7. QED  BY <2>2, <2>3, <2>6
<1>6. ASSUME NEW s \in Socket, AcceptRaises(s)
      PROVE  MapInv'
  <2>1. /\ sockets[s].handler = "accept"
        /\ connections' = connections
        /\ sockets' = [sockets EXCEPT ![s].handler = "ended"]
    BY <1>6 DEF AcceptRaises
  <2>2. sockets' \in [Socket -> SocketRow]
    BY <2>1 DEF SocketRow
  <2>3. \A v \in Worker :
          connections[v] # 0 => sockets'[connections[v]] = sockets[connections[v]]
    BY <2>1 DEF EntryHasHandler, Socket
  <2>4. QED
    BY <2>1, <2>2, <2>3, MapKept DEF EntryHasHandler
<1>7. ASSUME NEW s \in Socket, HelloSent(s)
      PROVE  MapInv'
  <2>1. /\ sockets' = [sockets EXCEPT ![s].handler = "loop"]
        /\ \/ connections' = connections
           \/ connections' = [connections EXCEPT ![sockets[s].worker] = 0]
    BY <1>7 DEF HelloSent
  <2>2. sockets' \in [Socket -> SocketRow]
    BY <2>1 DEF SocketRow
  <2>3. /\ connections' \in [Worker -> 0..MaxSocket]
        /\ \A v \in Worker : connections'[v] \in {0, connections[v]}
    BY <2>1, NoEntry, EntryTypes
  <2>4. \A r \in Socket : /\ sockets'[r].worker = sockets[r].worker
                          /\ sockets'[r].handler \in {sockets[r].handler, "loop"}
    BY <2>1 DEF SocketRow
  <2>5. QED
    BY <2>2, <2>3, <2>4, MapKept DEF EntryHasHandler, Socket
<1>8. ASSUME NEW s \in Socket, HandlerEnds(s)
      PROVE  MapInv'
  <2>1. /\ connections' = [connections EXCEPT ![sockets[s].worker] = 0]
        /\ sockets' = [sockets EXCEPT ![s].handler = "ended"]
    BY <1>8 DEF HandlerEnds
  <2>2. sockets' \in [Socket -> SocketRow]
    BY <2>1 DEF SocketRow
  <2>3. /\ connections' \in [Worker -> 0..MaxSocket]
        /\ \A v \in Worker : connections'[v] \in {0, connections[v]}
    BY <2>1, NoEntry, EntryTypes
  <2>4. \A v \in Worker :
          connections'[v] # 0 => connections[v] # s /\ connections[v] \in Socket
    BY <2>1 DEF EntryHasHandler, Socket
  <2>5. \A v \in Worker :
          connections'[v] # 0 => sockets'[connections[v]] = sockets[connections[v]]
    BY <2>1, <2>4
  <2>6. QED
    BY <2>2, <2>3, <2>5, MapKept DEF EntryHasHandler
<1>9. ASSUME NEW S \in SUBSET Worker, Form(S)
      PROVE  UNCHANGED <<sockets, connections>>
  BY <1>9 DEF Form
<1>10. ASSUME NEW c \in Cluster, NEW again \in BOOLEAN, Dissolve(c, again)
       PROVE  UNCHANGED <<sockets, connections>>
  BY <1>10 DEF Dissolve
<1>11. QED
  BY <1>1, <1>2, <1>3, <1>4, <1>5, <1>6, <1>7, <1>8, <1>9, <1>10
     DEF Next, Pool, Client, Loop, Handler, AskState, TaskStarts, SendReturns, vars

\* An entry of the hub's map is a socket of its worker whose handler has yet
\* to end, so that a lost connection does not stay in the map for ever.
THEOREM MapForgets == Spec => []EntryHasHandler
<1>1. MapInv => EntryHasHandler
  BY DEF MapInv
<1>2. QED
  BY <1>1, MapInit, MapStep, PTL DEF Spec

-----------------------------------------------------------------------------
(* Lemmas about the operators.                                              *)

\* Min of a nonempty set of naturals is its least element.
LEMMA MinIsLeast ==
  ASSUME NEW S \in SUBSET Nat, S # {}
  PROVE  Min(S) \in S /\ \A x \in S : Min(S) <= x
<1> DEFINE Less == OpToRel(<, Nat)
<1>1. ASSUME NEW x \in Nat, NEW y \in Nat, ~ (<<y, x>> \in Less)
      PROVE  x <= y
  BY <1>1 DEF OpToRel
<1>2. PICK x \in S : \A y \in S : ~ (<<y, x>> \in Less)
  <2>1. IsWellFoundedOn(Less, Nat)
    BY NatLessThanWellFounded
  <2> HIDE DEF Less
  <2>2. QED  BY <2>1, WFMin
<1> HIDE DEF Less
<1>3. ASSUME NEW y \in S
      PROVE  x <= y
  <2>1. x \in Nat /\ y \in Nat
    OBVIOUS
  <2>2. ~ (<<y, x>> \in Less)
    BY <1>2
  <2>3. QED  BY <1>1, <2>1, <2>2
<1>4. QED
  BY <1>3 DEF Min

\* The number of workers of S up to w is its place in S, and no two have one
\* place.
LEMMA PlaceInRing ==
  ASSUME NEW S \in SUBSET Worker
  PROVE  /\ IsFiniteSet(S) /\ Cardinality(S) \in Nat
         /\ \A w \in S : Cardinality({v \in S : v <= w}) \in 1..Cardinality(S)
         /\ \A i \in 1..Cardinality(S) :
              \E w \in S : Cardinality({v \in S : v <= w}) = i
         /\ \A w, x \in S :
              Cardinality({v \in S : v <= w}) = Cardinality({v \in S : v <= x}) => w = x
<1> DEFINE Upto(w) == {v \in S : v <= w}
<1> DEFINE n == Cardinality(S)
<1>1. IsFiniteSet(S) /\ n \in Nat
  BY HubAssumption, FS_Subset, FS_CardinalityType
<1>2. ASSUME NEW w \in S
      PROVE  IsFiniteSet(Upto(w)) /\ Cardinality(Upto(w)) \in 1..n
  <2>1. Upto(w) \in SUBSET S /\ w \in Upto(w)
    BY HubAssumption
  <2> HIDE DEF Upto
  <2>2. IsFiniteSet(Upto(w)) /\ Cardinality(Upto(w)) <= n
    BY <1>1, <2>1, FS_Subset
  <2>3. Cardinality(Upto(w)) \in Nat /\ Cardinality(Upto(w)) # 0
    BY <2>1, <2>2, FS_CardinalityType, FS_EmptySet
  <2>4. QED  BY <1>1, <2>2, <2>3
<1>3. ASSUME NEW w \in S, NEW x \in S, w < x
      PROVE  Cardinality(Upto(w)) # Cardinality(Upto(x))
  <2>1. \A v \in S : v \in Nat
    BY HubAssumption
  <2>2. Upto(w) \in SUBSET Upto(x)
    BY <1>3, <2>1
  <2>3. x \in Upto(x) /\ x \notin Upto(w)
    BY <1>3, <2>1
  <2> HIDE DEF Upto
  <2>4. QED  BY <1>2, <2>2, <2>3, FS_Subset
<1>4. \A w, x \in S : Cardinality(Upto(w)) = Cardinality(Upto(x)) => w = x
  <2> SUFFICES ASSUME NEW w \in S, NEW x \in S, w # x
               PROVE  Cardinality(Upto(w)) # Cardinality(Upto(x))
    OBVIOUS
  <2>1. w < x \/ x < w
    BY HubAssumption
  <2> HIDE DEF Upto
  <2>2. QED  BY <1>3, <2>1
<1>5. IsFiniteSet(1..n) /\ Cardinality(1..n) = n
  <2> HIDE DEF n
  <2>1. 1 \in Int /\ n \in Int /\ (1 > n => n = 0)
    BY <1>1
  <2>2. IsFiniteSet(1..n) /\ Cardinality(1..n) = IF 1 > n THEN 0 ELSE n - 1 + 1
    BY <2>1, FS_Interval
  <2>3. QED  BY <2>1, <2>2
<1> DEFINE place == [w \in S |-> Cardinality(Upto(w))]
<1>6. place \in Injection(S, 1..n)
  <2> HIDE DEF Upto, n
  <2>1. place \in [S -> 1..n]
    BY <1>2
  <2>2. \A w, x \in S : place[w] = place[x] => w = x
    BY <1>4
  <2> HIDE DEF place
  <2>3. QED  BY <2>1, <2>2 DEF Injection, IsInjective
<1>7. place \in Surjection(S, 1..n)
  <2>1. Cardinality(S) = Cardinality(1..n)
    BY <1>5
  <2> HIDE DEF place, n
  <2>2. QED  BY <1>5, <1>6, <2>1, FS_Injection
<1>8. \A i \in 1..n : \E w \in S : Cardinality(Upto(w)) = i
  <2>1. \A i \in 1..n : \E w \in S : place[w] = i
    <3> HIDE DEF place, n
    <3>1. QED  BY <1>7 DEF Surjection
  <2>2. QED  BY <2>1
<1>9. QED
  BY <1>1, <1>2, <1>4, <1>8

\* The ring of S is a sequence of the workers of S, with none left out.
LEMMA RingHoldsAll ==
  ASSUME NEW S \in SUBSET Worker
  PROVE  /\ InRing(S) \in Seq(Worker)
         /\ Cardinality(S) \in Nat
         /\ Len(InRing(S)) = Cardinality(S)
         /\ \A i \in 1..Cardinality(S) : InRing(S)[i] \in S
         /\ \A w \in S : \E i \in 1..Cardinality(S) : InRing(S)[i] = w
<1> DEFINE n == Cardinality(S)
<1> DEFINE Place(w) == Cardinality({v \in S : v <= w})
<1>1. /\ n \in Nat
      /\ \A w \in S : Place(w) \in 1..n
      /\ \A i \in 1..n : \E w \in S : Place(w) = i
      /\ \A w, x \in S : Place(w) = Place(x) => w = x
  BY PlaceInRing
<1>2. InRing(S) = [i \in 1..n |-> CHOOSE w \in S : Place(w) = i]
  BY DEF InRing
<1> HIDE DEF Place, n
<1>3. \A i \in 1..n : InRing(S)[i] \in S /\ Place(InRing(S)[i]) = i
  BY <1>1, <1>2
<1>4. InRing(S) \in [1..n -> Worker]
  BY <1>2, <1>3
<1>5. InRing(S) \in Seq(Worker) /\ Len(InRing(S)) = n
  BY <1>1, <1>4
<1>6. \A w \in S : Place(w) \in 1..n /\ InRing(S)[Place(w)] = w
  BY <1>1, <1>3
<1>7. QED
  BY <1>1, <1>3, <1>5, <1>6 DEF n
-----------------------------------------------------------------------------
(* Sends.                                                                   *)

\* What is left to send begins with a member that has a socket, and leaves
\* out no other member that has one.
LEMMA ReachableIsLeft ==
  ASSUME NEW to \in Seq(Worker)
  PROVE  /\ Reachable(to) \in Seq(Worker) /\ Len(Reachable(to)) <= Len(to)
         /\ \A j \in DOMAIN Reachable(to) : \E i \in DOMAIN to : Reachable(to)[j] = to[i]
         /\ \A i \in DOMAIN to :
              connections[to[i]] # 0 => \E j \in DOMAIN Reachable(to) : Reachable(to)[j] = to[i]
         /\ Reachable(to) # <<>> => connections[Head(Reachable(to))] # 0
<1> DEFINE connected == {i \in 1..Len(to) : connections[to[i]] # 0}
<1> DEFINE m == Min(connected)
<1>1. CASE connected = {}
  <2>1. Reachable(to) = <<>>
    BY <1>1 DEF Reachable
  <2>2. \A i \in DOMAIN to : connections[to[i]] = 0
    BY <1>1
  <2>3. QED  BY <2>1, <2>2
<1>2. CASE connected # {}
  <2>1. m \in connected /\ \A i \in connected : m <= i
    <3>1. connected \in SUBSET Nat
      OBVIOUS
    <3> HIDE DEF connected
    <3>2. QED  BY <1>2, <3>1, MinIsLeast
  <2>2. Reachable(to) = SubSeq(to, m, Len(to))
    BY <1>2 DEF Reachable
  <2>3. m \in 1..Len(to) /\ connections[to[m]] # 0
    BY <2>1
  <2>4. \A i \in 1..Len(to) : connections[to[i]] # 0 => m <= i
    BY <2>1
  <2> HIDE DEF connected, m
  <2>5. /\ Len(to) \in Nat
        /\ \A i \in 1..Len(to) : to[i] \in Worker
    OBVIOUS
  <2>6. /\ Reachable(to) \in Seq(Worker)
        /\ Len(Reachable(to)) = Len(to) - m + 1
        /\ \A i \in 1..(Len(to) - m + 1) : Reachable(to)[i] = to[m + i - 1]
    <3>1. \A i \in m..Len(to) : to[i] \in Worker
      BY <2>3, <2>5
    <3>2. m \in Int /\ Len(to) \in Int /\ m <= Len(to)
      BY <2>3, <2>5
    <3>3. QED  BY <2>2, <3>1, <3>2, SubSeqProperties
  <2>7. DOMAIN Reachable(to) = 1..(Len(to) - m + 1) /\ DOMAIN to = 1..Len(to)
    BY <2>6
  <2>8. \A j \in DOMAIN Reachable(to) :
          m + j - 1 \in DOMAIN to /\ Reachable(to)[j] = to[m + j - 1]
    <3> SUFFICES ASSUME NEW j \in 1..(Len(to) - m + 1)
                 PROVE  m + j - 1 \in 1..Len(to) /\ Reachable(to)[j] = to[m + j - 1]
      BY <2>7
    <3>1. m \in Int /\ m >= 1
      BY <2>3
    <3>2. QED  BY <2>5, <2>6, <3>1
  <2>9. \A i \in DOMAIN to :
          connections[to[i]] # 0 =>
            i - m + 1 \in DOMAIN Reachable(to) /\ Reachable(to)[i - m + 1] = to[i]
    BY <2>3, <2>4, <2>5, <2>6, <2>7
  <2>10. Head(Reachable(to)) = to[m]
    BY <2>3, <2>5, <2>6
  <2>11. QED  BY <2>3, <2>6, <2>8, <2>9, <2>10
<1>3. QED  BY <1>1, <1>2

\* The frame of a broadcast that goes on.
LEMMA FrameGoesOn ==
  ASSUME NEW frame \in FrameRow, NEW to \in Seq(Worker)
  PROVE  /\ [frame EXCEPT !.to = to] \in FrameRow
         /\ [frame EXCEPT !.to = to].type = frame.type
         /\ [frame EXCEPT !.to = to].cluster = frame.cluster
         /\ [frame EXCEPT !.to = to].to = to
  BY DEF FrameRow

\* A member of a sequence is its first or one of the rest.
LEMMA HeadOrTail ==
  ASSUME NEW S, NEW s \in Seq(S), s # <<>>
  PROVE  /\ Head(s) \in S /\ Tail(s) \in Seq(S) /\ Head(s) = s[1] /\ 1 \in DOMAIN s
         /\ Len(s) \in Nat /\ DOMAIN s = 1..Len(s) /\ Len(Tail(s)) = Len(s) - 1 /\ DOMAIN Tail(s) = 1..(Len(s) - 1)
         /\ \A j \in DOMAIN s : j = 1 \/ (j - 1 \in DOMAIN Tail(s) /\ Tail(s)[j - 1] = s[j])
         /\ \A j \in DOMAIN Tail(s) : j + 1 \in DOMAIN s /\ Tail(s)[j] = s[j + 1]
  OBVIOUS

\* The members of e are those of a, b and c.
Joins(e, a, b, c) ==
  /\ \A i \in DOMAIN e :
       \/ \E j \in DOMAIN a : e[i] = a[j]
       \/ \E j \in DOMAIN b : e[i] = b[j]
       \/ \E j \in DOMAIN c : e[i] = c[j]
  /\ \A j \in DOMAIN a : \E i \in DOMAIN e : e[i] = a[j]
  /\ \A j \in DOMAIN b : \E i \in DOMAIN e : e[i] = b[j]
  /\ \A j \in DOMAIN c : \E i \in DOMAIN e : e[i] = c[j]

\* The members of three sequences put together.
LEMMA ThreeParts ==
  ASSUME NEW S, NEW a \in Seq(S), NEW b \in Seq(S), NEW c \in Seq(S)
  PROVE  a \o b \o c \in Seq(S) /\ Joins(a \o b \o c, a, b, c)
<1> DEFINE e == a \o b \o c
<1> DEFINE d == a \o b
<1>1. Len(a) \in Nat /\ Len(b) \in Nat /\ Len(c) \in Nat
  OBVIOUS
<1>2. DOMAIN a = 1..Len(a) /\ DOMAIN b = 1..Len(b) /\ DOMAIN c = 1..Len(c)
  OBVIOUS
<1>3. /\ d \in Seq(S) /\ Len(d) = Len(a) + Len(b)
      /\ \A i \in 1..(Len(a) + Len(b)) :
           d[i] = IF i <= Len(a) THEN a[i] ELSE b[i - Len(a)]
  BY ConcatProperties
<1>4. /\ e \in Seq(S) /\ Len(e) = Len(d) + Len(c)
      /\ \A i \in 1..(Len(d) + Len(c)) :
           e[i] = IF i <= Len(d) THEN d[i] ELSE c[i - Len(d)]
  <2>1. d \in Seq(S)
    BY <1>3
  <2> HIDE DEF d
  <2>2. /\ d \o c \in Seq(S) /\ Len(d \o c) = Len(d) + Len(c)
        /\ \A i \in 1..(Len(d) + Len(c)) :
             (d \o c)[i] = IF i <= Len(d) THEN d[i] ELSE c[i - Len(d)]
    BY <2>1, ConcatProperties
  <2>3. e = d \o c
    BY DEF d
  <2>4. QED  BY <2>2, <2>3
<1>5. DOMAIN e = 1..(Len(a) + Len(b) + Len(c))
  <2>1. DOMAIN e = 1..Len(e)
    <3> HIDE DEF e
    <3>1. QED  BY <1>4
  <2> HIDE DEF d, e
  <2>2. QED  BY <1>3, <1>4, <2>1
<1> HIDE DEF d, e
<1>6. \A i \in DOMAIN e :
        e[i] = IF i <= Len(a) THEN a[i]
               ELSE IF i <= Len(a) + Len(b) THEN b[i - Len(a)]
               ELSE c[i - (Len(a) + Len(b))]
  BY <1>1, <1>3, <1>4, <1>5
<1>7. \A i \in DOMAIN e :
         \/ \E j \in DOMAIN a : e[i] = a[j]
         \/ \E j \in DOMAIN b : e[i] = b[j]
         \/ \E j \in DOMAIN c : e[i] = c[j]
  <2> SUFFICES ASSUME NEW i \in DOMAIN e
               PROVE  \/ \E j \in DOMAIN a : e[i] = a[j]
                      \/ \E j \in DOMAIN b : e[i] = b[j]
                      \/ \E j \in DOMAIN c : e[i] = c[j]
    OBVIOUS
  <2>1. CASE i <= Len(a)
    BY <1>1, <1>2, <1>5, <1>6, <2>1
  <2>2. CASE i > Len(a) /\ i <= Len(a) + Len(b)
    <3>1. i - Len(a) \in DOMAIN b
      BY <1>1, <1>2, <1>5, <2>2
    <3>2. e[i] = b[i - Len(a)]
      BY <1>1, <1>5, <1>6, <2>2
    <3>3. QED  BY <3>1, <3>2
  <2>3. CASE i > Len(a) + Len(b)
    <3>1. i - (Len(a) + Len(b)) \in DOMAIN c
      BY <1>1, <1>2, <1>5, <2>3
    <3>2. e[i] = c[i - (Len(a) + Len(b))]
      BY <1>1, <1>5, <1>6, <2>3
    <3>3. QED  BY <3>1, <3>2
  <2>4. QED  BY <1>1, <1>5, <2>1, <2>2, <2>3
<1>8. \A j \in DOMAIN a : j \in DOMAIN e /\ e[j] = a[j]
  BY <1>1, <1>2, <1>5, <1>6
<1>9. \A j \in DOMAIN b : Len(a) + j \in DOMAIN e /\ e[Len(a) + j] = b[j]
  BY <1>1, <1>2, <1>5, <1>6
<1>10. \A j \in DOMAIN c :
         Len(a) + Len(b) + j \in DOMAIN e /\ e[Len(a) + Len(b) + j] = c[j]
  BY <1>1, <1>2, <1>5, <1>6
<1>11. Joins(e, a, b, c)
  <2> HIDE DEF e
  <2>1. QED  BY <1>7, <1>8, <1>9, <1>10 DEF Joins
<1>12. QED  BY <1>4, <1>11 DEF e

\* What the start of the next send does: the broadcast goes on to the members
\* it has not passed, in its place among the others; a member with a socket is
\* told, or is among them still, and nobody else is told anything.
Sent(frame, before, after) ==
  /\ \A i \in DOMAIN running' :
       \/ \E j \in DOMAIN before : running'[i] = before[j]
       \/ \E j \in DOMAIN after : running'[i] = after[j]
       \/ /\ running'[i].frame.type = frame.type
          /\ running'[i].frame.cluster = frame.cluster
          /\ Len(running'[i].frame.to) < Len(frame.to)
          /\ \A j \in DOMAIN running'[i].frame.to :
               \E k \in DOMAIN frame.to : running'[i].frame.to[j] = frame.to[k]
  /\ \A j \in DOMAIN before : \E i \in DOMAIN running' : running'[i] = before[j]
  /\ \A j \in DOMAIN after : \E i \in DOMAIN running' : running'[i] = after[j]
  /\ \A w \in Worker :
       connections[w] # 0 /\ sockets[connections[w]].alive =>
         \/ /\ told'[connections[w]] = told[connections[w]]
            /\ ~(frame.type = "assigned" /\ frame.to = <<w>>)
            /\ \A c : Ends(frame, w, c) =>
                 \E i \in DOMAIN running' : Ends(running'[i].frame, w, c)
         \/ /\ told'[connections[w]] = Heard(told[connections[w]], frame)
            /\ \E j \in DOMAIN frame.to : frame.to[j] = w

\* Sent is what SendNext comes to.
LEMMA SendEffects ==
  ASSUME MapInv,
         told \in [Socket -> Cluster \cup {0, Unsure}],
         NEW frame \in FrameRow,
         NEW before \in Seq(RunRow),
         NEW after \in Seq(RunRow),
         SendNext(frame, before, after)
  PROVE  /\ running' \in Seq(RunRow)
         /\ told' \in [Socket -> Cluster \cup {0, Unsure}]
         /\ Sent(frame, before, after)
<1>1. /\ frame.to \in Seq(Worker) /\ frame.cluster \in Cluster
      /\ frame.type \in {"assigned", "dissolved"}
  BY DEF FrameRow
<1>2. PICK to : to = Reachable(frame.to)
  OBVIOUS
<1>3. /\ to \in Seq(Worker) /\ Len(to) <= Len(frame.to)
      /\ \A j \in DOMAIN to : \E i \in DOMAIN frame.to : to[j] = frame.to[i]
      /\ \A i \in DOMAIN frame.to :
           connections[frame.to[i]] # 0 => \E j \in DOMAIN to : to[j] = frame.to[i]
      /\ to # <<>> => connections[Head(to)] # 0
  BY <1>1, <1>2, ReachableIsLeft
<1>4. CASE to = <<>>
  <2>1. running' = before \o after /\ told' = told
    BY <1>2, <1>4 DEF SendNext
  <2>2. <<>> \in Seq(RunRow) /\ before \o after = before \o <<>> \o after
    BY ConcatEmptySeq
  <2>3. running' = before \o <<>> \o after
    BY <2>1, <2>2
  <2>4. /\ running' \in Seq(RunRow)
        /\ \A i \in DOMAIN running' :
              \/ \E j \in DOMAIN before : running'[i] = before[j]
              \/ \E j \in DOMAIN after : running'[i] = after[j]
        /\ \A j \in DOMAIN before : \E i \in DOMAIN running' : running'[i] = before[j]
        /\ \A j \in DOMAIN after : \E i \in DOMAIN running' : running'[i] = after[j]
    <3>1. PICK mid : mid = <<>>
      OBVIOUS
    <3>2. mid \in Seq(RunRow) /\ DOMAIN mid = {} /\ running' = before \o mid \o after
      BY <2>2, <2>3, <3>1
    <3>3. running' \in Seq(RunRow) /\ Joins(running', before, mid, after)
      BY <3>2, ThreeParts
    <3>4. QED  BY <3>2, <3>3 DEF Joins
  <2>5. ASSUME NEW w \in Worker, connections[w] # 0
        PROVE  /\ frame.to # <<w>>
               /\ \A c : ~Ends(frame, w, c)
    <3>1. \A i \in DOMAIN frame.to : frame.to[i] # w
      BY <1>3, <1>4, <2>5
    <3>2. frame.to # <<w>>
      BY <3>1
    <3>3. QED  BY <3>1, <3>2 DEF Ends
  <2>6. QED
    BY <2>1, <2>4, <2>5 DEF Sent
<1>5. CASE to # <<>>
  <2>1. PICK s : s = connections[Head(to)]
    OBVIOUS
  <2>2. /\ Head(to) \in Worker /\ Tail(to) \in Seq(Worker) /\ Len(Tail(to)) < Len(to)
        /\ Head(to) = to[1] /\ 1 \in DOMAIN to
        /\ \A j \in DOMAIN to : to[j] = Head(to) \/ \E k \in DOMAIN Tail(to) : Tail(to)[k] = to[j]
        /\ \A j \in DOMAIN Tail(to) : \E k \in DOMAIN to : Tail(to)[j] = to[k]
    <3>1. /\ Head(to) \in Worker /\ Tail(to) \in Seq(Worker) /\ Head(to) = to[1] /\ 1 \in DOMAIN to
          /\ Len(to) \in Nat /\ Len(Tail(to)) = Len(to) - 1
          /\ \A j \in DOMAIN to : j = 1 \/ (j - 1 \in DOMAIN Tail(to) /\ Tail(to)[j - 1] = to[j])
          /\ \A j \in DOMAIN Tail(to) : j + 1 \in DOMAIN to /\ Tail(to)[j] = to[j + 1]
      BY <1>3, <1>5, HeadOrTail
    <3>2. Len(Tail(to)) < Len(to)
      BY <3>1
    <3>3. \A j \in DOMAIN to : to[j] = Head(to) \/ \E k \in DOMAIN Tail(to) : Tail(to)[k] = to[j]
      <4> SUFFICES ASSUME NEW j \in DOMAIN to, to[j] # Head(to)
                   PROVE  \E k \in DOMAIN Tail(to) : Tail(to)[k] = to[j]
        OBVIOUS
      <4>1. j - 1 \in DOMAIN Tail(to) /\ Tail(to)[j - 1] = to[j]
        BY <3>1
      <4>2. QED  BY <4>1
    <3>4. \A j \in DOMAIN Tail(to) : \E k \in DOMAIN to : Tail(to)[j] = to[k]
      <4> SUFFICES ASSUME NEW j \in DOMAIN Tail(to)
                   PROVE  \E k \in DOMAIN to : Tail(to)[j] = to[k]
        OBVIOUS
      <4>1. j + 1 \in DOMAIN to /\ Tail(to)[j] = to[j + 1]
        BY <3>1
      <4>2. QED  BY <4>1
    <3>5. QED  BY <3>1, <3>2, <3>3, <3>4
  <2>3. s \in Socket /\ sockets[s].worker = Head(to)
    BY <1>3, <1>5, <2>1, <2>2 DEF MapInv, MapTypes, EntryHasHandler, Socket
  <2>4. PICK f : f = [frame EXCEPT !.to = Tail(to)]
    OBVIOUS
  <2>5. f \in FrameRow /\ f.type = frame.type /\ f.cluster = frame.cluster /\ f.to = Tail(to)
    BY <2>2, <2>4, FrameGoesOn
  <2>6. PICK goes : goes = [frame |-> f, worker |-> Head(to), socket |-> s]
    OBVIOUS
  <2>7. goes \in RunRow /\ goes.frame = f
    BY <2>2, <2>3, <2>5, <2>6 DEF RunRow
  <2>8. /\ running' = before \o <<goes>> \o after
        /\ told' = IF sockets[s].alive THEN [told EXCEPT ![s] = Heard(@, frame)] ELSE told
    BY <1>2, <1>5, <2>1, <2>4, <2>6 DEF SendNext
  <2>9. /\ Len(f.to) < Len(frame.to)
        /\ \A j \in DOMAIN f.to : \E k \in DOMAIN frame.to : f.to[j] = frame.to[k]
    <3>1. /\ Len(to) \in Nat /\ Len(frame.to) \in Nat /\ Len(Tail(to)) \in Nat
      BY <1>1, <1>3, <2>2
    <3>2. Len(f.to) < Len(frame.to)
      BY <1>3, <2>2, <2>5, <3>1
    <3>3. ASSUME NEW j \in DOMAIN f.to
          PROVE  \E k \in DOMAIN frame.to : f.to[j] = frame.to[k]
      <4>1. PICK l \in DOMAIN to : f.to[j] = to[l]
        BY <2>2, <2>5
      <4>2. QED  BY <1>3, <4>1
    <3>4. QED  BY <3>2, <3>3
  <2>10. <<goes>> \in Seq(RunRow) /\ DOMAIN <<goes>> = {1} /\ <<goes>>[1] = goes
    BY <2>7
  <2>11. /\ running' \in Seq(RunRow)
         /\ \A i \in DOMAIN running' :
              \/ \E j \in DOMAIN before : running'[i] = before[j]
              \/ \E j \in DOMAIN after : running'[i] = after[j]
              \/ running'[i] = goes
         /\ \E i \in DOMAIN running' : running'[i] = goes
         /\ \A j \in DOMAIN before : \E i \in DOMAIN running' : running'[i] = before[j]
         /\ \A j \in DOMAIN after : \E i \in DOMAIN running' : running'[i] = after[j]
    <3>1. PICK mid : mid = <<goes>>
      OBVIOUS
    <3>2. mid \in Seq(RunRow) /\ DOMAIN mid = {1} /\ mid[1] = goes /\ running' = before \o mid \o after
      BY <2>8, <2>10, <3>1
    <3>3. running' \in Seq(RunRow) /\ Joins(running', before, mid, after)
      BY <3>2, ThreeParts
    <3>4. ASSUME NEW i \in DOMAIN running'
          PROVE  \/ \E j \in DOMAIN before : running'[i] = before[j]
                 \/ \E j \in DOMAIN after : running'[i] = after[j]
                 \/ running'[i] = goes
      <4>1. \/ \E j \in DOMAIN before : running'[i] = before[j]
            \/ \E j \in DOMAIN mid : running'[i] = mid[j]
            \/ \E j \in DOMAIN after : running'[i] = after[j]
        BY <3>3 DEF Joins
      <4>2. ASSUME NEW j \in DOMAIN mid, running'[i] = mid[j]
            PROVE  running'[i] = goes
        BY <3>2, <4>2
      <4>3. QED  BY <4>1, <4>2
    <3>5. \E i \in DOMAIN running' : running'[i] = goes
      BY <3>2, <3>3 DEF Joins
    <3>6. QED  BY <3>3, <3>4, <3>5 DEF Joins
  <2>12. told' \in [Socket -> Cluster \cup {0, Unsure}]
    <3>1. Heard(told[s], frame) \in Cluster \cup {0, Unsure}
      BY <1>1, <2>3 DEF Heard
    <3>2. QED  BY <2>8, <3>1
  <2>13. ASSUME NEW w \in Worker, connections[w] # 0, sockets[connections[w]].alive, w = Head(to)
         PROVE  /\ told'[connections[w]] = Heard(told[connections[w]], frame)
                /\ \E j \in DOMAIN frame.to : frame.to[j] = w
    <3>1. told'[connections[w]] = Heard(told[connections[w]], frame)
      BY <2>1, <2>3, <2>8, <2>13
    <3>2. QED  BY <1>3, <2>2, <2>13, <3>1
  <2>14. ASSUME NEW w \in Worker, connections[w] # 0, w # Head(to)
         PROVE  /\ told'[connections[w]] = told[connections[w]]
                /\ frame.to # <<w>>
                /\ \A c : Ends(frame, w, c) => \E i \in DOMAIN running' : Ends(running'[i].frame, w, c)
    <3>1. connections[w] # s
      BY <2>3, <2>14 DEF MapInv, EntryHasHandler
    <3>2. told'[connections[w]] = told[connections[w]]
      BY <2>8, <3>1
    <3>3. frame.to # <<w>>
      BY <1>3, <2>2, <2>14
    <3>4. ASSUME NEW c, Ends(frame, w, c)
          PROVE  Ends(f, w, c)
      <4>1. PICK j \in DOMAIN frame.to : frame.to[j] = w
        BY <3>4 DEF Ends
      <4>2. PICK k \in DOMAIN to : to[k] = w
        BY <1>3, <2>14, <4>1
      <4>3. \E l \in DOMAIN Tail(to) : Tail(to)[l] = w
        BY <2>2, <2>14, <4>2
      <4>4. QED  BY <2>5, <3>4, <4>3 DEF Ends
    <3>5. QED  BY <2>7, <2>11, <3>2, <3>3, <3>4
  <2>15. ASSUME NEW i \in DOMAIN running'
         PROVE  \/ \E j \in DOMAIN before : running'[i] = before[j]
                \/ \E j \in DOMAIN after : running'[i] = after[j]
                \/ /\ running'[i].frame.type = frame.type
                   /\ running'[i].frame.cluster = frame.cluster
                   /\ Len(running'[i].frame.to) < Len(frame.to)
                   /\ \A j \in DOMAIN running'[i].frame.to :
                        \E k \in DOMAIN frame.to : running'[i].frame.to[j] = frame.to[k]
    <3>1. CASE running'[i] = goes
      BY <2>5, <2>7, <2>9, <3>1
    <3>2. QED  BY <2>11, <3>1
  <2>16. QED
    BY <2>11, <2>12, <2>13, <2>14, <2>15 DEF Sent
<1>6. QED  BY <1>4, <1>5

-----------------------------------------------------------------------------
(* The steps of the inductive invariant of BeliefConverges.                 *)

\* The frame of a broadcast under way.
LEMMA RunningFrame ==
  ASSUME NEW q \in Seq(RunRow), NEW i \in DOMAIN q
  PROVE  /\ q[i].frame \in FrameRow
         /\ q[i].frame.to \in Seq(Worker)
         /\ q[i].frame.cluster \in Cluster
         /\ q[i].frame.type \in {"assigned", "dissolved"}
<1>1. q[i] \in RunRow
  OBVIOUS
<1>2. q[i].frame \in FrameRow
  BY <1>1 DEF RunRow
<1>3. QED  BY <1>2 DEF FrameRow

\* A dissolved frame that reaches a client leaves it believing what it
\* believed, or nothing; an assigned frame, the cluster of the frame.
LEMMA HeardIs ==
  ASSUME NEW belief, NEW frame \in FrameRow
  PROVE  /\ frame.type = "assigned" => Heard(belief, frame) = frame.cluster
         /\ frame.type = "dissolved" =>
              Heard(belief, frame) = IF belief = frame.cluster THEN 0 ELSE belief
  BY DEF Heard

\* The task of the first broadcast starts: it reaches a client in the map, or
\* keeps its place among the broadcasts that are under way.
LEMMA TaskStartsKeeps ==
  ASSUME MapInv, BeliefInv, TaskStarts
  PROVE  BeliefInv'
<1>1. PICK frame : frame = Head(ready)
  OBVIOUS
<1>2. PICK none : none = <<>>
  OBVIOUS
<1>3. /\ ready # <<>> /\ ready' = Tail(ready)
      /\ SendNext(frame, running, none)
      /\ UNCHANGED <<serves, formed, connections, sockets>>
  BY <1>1, <1>2 DEF TaskStarts, store
<1>4. /\ ready \in Seq(FrameRow) /\ running \in Seq(RunRow)
      /\ told \in [Socket -> Cluster \cup {0, Unsure}]
  BY DEF BeliefInv, BroadcastTypes
<1>5. /\ frame \in FrameRow /\ ready' \in Seq(FrameRow) /\ frame = ready[1] /\ 1 \in DOMAIN ready
      /\ DOMAIN ready \subseteq Nat /\ DOMAIN ready' \subseteq Nat \ {0}
      /\ \A j \in DOMAIN ready : j = 1 \/ (j - 1 \in DOMAIN ready' /\ ready'[j - 1] = ready[j])
      /\ \A j \in DOMAIN ready' : j + 1 \in DOMAIN ready /\ ready'[j] = ready[j + 1]
  <2>1. /\ Head(ready) \in FrameRow /\ Tail(ready) \in Seq(FrameRow)
        /\ Head(ready) = ready[1] /\ 1 \in DOMAIN ready
        /\ Len(ready) \in Nat /\ DOMAIN ready = 1..Len(ready)
        /\ Len(Tail(ready)) = Len(ready) - 1 /\ DOMAIN Tail(ready) = 1..(Len(ready) - 1)
        /\ \A j \in DOMAIN ready :
             j = 1 \/ (j - 1 \in DOMAIN Tail(ready) /\ Tail(ready)[j - 1] = ready[j])
        /\ \A j \in DOMAIN Tail(ready) : j + 1 \in DOMAIN ready /\ Tail(ready)[j] = ready[j + 1]
    BY <1>3, <1>4, HeadOrTail
  <2>2. QED  BY <1>1, <1>3, <2>1
<1>6. /\ running' \in Seq(RunRow)
      /\ told' \in [Socket -> Cluster \cup {0, Unsure}]
      /\ Sent(frame, running, none)
  <2>1. none \in Seq(RunRow)
    BY <1>2
  <2>2. QED  BY <1>3, <1>4, <1>5, <2>1, SendEffects
<1>7. /\ \A i \in DOMAIN running' :
           \/ \E j \in DOMAIN running : running'[i] = running[j]
           \/ /\ running'[i].frame.type = frame.type
              /\ running'[i].frame.cluster = frame.cluster
              /\ Len(running'[i].frame.to) < Len(frame.to)
              /\ \A j \in DOMAIN running'[i].frame.to :
                   \E k \in DOMAIN frame.to : running'[i].frame.to[j] = frame.to[k]
      /\ \A j \in DOMAIN running : \E i \in DOMAIN running' : running'[i] = running[j]
  <2>1. DOMAIN none = {}
    BY <1>2
  <2>2. QED  BY <1>6, <2>1 DEF Sent
<1>8. BroadcastTypes'
  <2>1. ASSUME NEW k \in DOMAIN ready'
        PROVE  /\ ready'[k].cluster <= formed'
               /\ ready'[k].type = "assigned" => \E w \in Worker : ready'[k].to = <<w>>
    BY <1>3, <1>5 DEF BeliefInv, BroadcastTypes
  <2>2. ASSUME NEW i \in DOMAIN running'
        PROVE  /\ running'[i].frame.cluster <= formed'
               /\ running'[i].frame.type = "assigned" => running'[i].frame.to = <<>>
    <3>1. CASE \E j \in DOMAIN running : running'[i] = running[j]
      BY <1>3, <3>1 DEF BeliefInv, BroadcastTypes
    <3>2. CASE /\ running'[i].frame.type = frame.type
               /\ running'[i].frame.cluster = frame.cluster
               /\ Len(running'[i].frame.to) < Len(frame.to)
      <4>1. frame.cluster <= formed /\ (frame.type = "assigned" => \E w \in Worker : frame.to = <<w>>)
        BY <1>5 DEF BeliefInv, BroadcastTypes
      <4>2. PICK to : to = running'[i].frame.to
        OBVIOUS
      <4>3. to \in Seq(Worker)
        BY <1>6, <4>2, RunningFrame
      <4>4. frame.type = "assigned" => Len(frame.to) = 1
        BY <4>1
      <4>5. frame.type = "assigned" => Len(to) < 1
        BY <3>2, <4>2, <4>4
      <4>6. frame.type = "assigned" => to = <<>>
        BY <4>3, <4>5
      <4>7. QED  BY <1>3, <3>2, <4>1, <4>2, <4>6
    <3>3. QED  BY <1>7, <3>1, <3>2
  <2>3. serves' \in [Worker -> 0..formed'] /\ formed' \in 0..MaxCluster
    BY <1>3 DEF BeliefInv, BroadcastTypes
  <2>4. QED  BY <1>5, <1>6, <2>1, <2>2, <2>3 DEF BroadcastTypes
<1>9. ASSUME NEW w \in Worker, NEW c, EndIsDue(w, c)'
      PROVE  EndIsDue(w, c)
  <2>1. ASSUME NEW k \in DOMAIN ready', Ends(ready'[k], w, c)
        PROVE  EndIsDue(w, c)
    BY <1>5, <2>1 DEF EndIsDue
  <2>2. ASSUME NEW i \in DOMAIN running', Ends(running'[i].frame, w, c)
        PROVE  EndIsDue(w, c)
    <3>1. CASE \E j \in DOMAIN running : running'[i] = running[j]
      BY <2>2, <3>1 DEF EndIsDue
    <3>2. CASE ~ \E j \in DOMAIN running : running'[i] = running[j]
      <4>1. Ends(frame, w, c)
        BY <1>7, <2>2, <3>2 DEF Ends
      <4>2. QED  BY <1>5, <4>1 DEF EndIsDue
    <3>3. QED  BY <3>1, <3>2
  <2>3. QED  BY <1>9, <2>1, <2>2 DEF EndIsDue
<1>10. NoFalseEnd'
  BY <1>3, <1>9 DEF BeliefInv, NoFalseEnd
<1>11. ASSUME NEW j \in DOMAIN ready, j # 1, NEW w, NEW c, Assigns(j, w, c)
       PROVE  j - 1 \in DOMAIN ready' /\ Assigns(j - 1, w, c)'
  BY <1>5, <1>11 DEF Assigns
<1>12. QueueIsRight'
  <2> SUFFICES ASSUME NEW k \in DOMAIN ready', NEW w \in Worker, NEW c \in Cluster,
                      Assigns(k, w, c)'
               PROVE  /\ serves[w] = c \/ \E j \in DOMAIN ready' : j > k /\ Ends(ready'[j], w, c)
                      /\ \A d \in Cluster : serves[w] = d =>
                           \E j \in DOMAIN ready' : j >= k /\ Assigns(j, w, d)'
    BY <1>3 DEF QueueIsRight
  <2>1. k + 1 \in DOMAIN ready /\ Assigns(k + 1, w, c) /\ k \in Nat /\ k # 0
    BY <1>5 DEF Assigns
  <2>2. /\ serves[w] = c \/ \E j \in DOMAIN ready : j > k + 1 /\ Ends(ready[j], w, c)
        /\ \A d \in Cluster : serves[w] = d =>
             \E j \in DOMAIN ready : j >= k + 1 /\ Assigns(j, w, d)
    BY <2>1 DEF BeliefInv, QueueIsRight
  <2>3. ASSUME NEW j \in DOMAIN ready, j > k + 1, Ends(ready[j], w, c)
        PROVE  \E l \in DOMAIN ready' : l > k /\ Ends(ready'[l], w, c)
    <3>1. j \in Nat /\ j # 1
      BY <1>5, <2>1, <2>3
    <3>2. j - 1 \in DOMAIN ready' /\ ready'[j - 1] = ready[j]
      BY <1>5, <3>1
    <3>3. j - 1 > k
      BY <2>1, <2>3, <3>1
    <3>4. QED  BY <2>3, <3>2, <3>3
  <2>4. ASSUME NEW j \in DOMAIN ready, j >= k + 1, NEW d, Assigns(j, w, d)
        PROVE  \E l \in DOMAIN ready' : l >= k /\ Assigns(l, w, d)'
    <3>1. j \in Nat /\ j # 1 /\ j - 1 >= k
      BY <1>5, <2>1, <2>4
    <3>2. QED  BY <1>11, <2>4, <3>1
  <2>5. QED  BY <2>2, <2>3, <2>4
<1>13. BeliefIsDue'
  <2> SUFFICES ASSUME NEW w \in Worker, NEW s \in Socket, NEW c \in Cluster,
                      connections[w] = s, sockets[s].alive
               PROVE  /\ told'[s] = c /\ serves[w] # c => EndIsDue(w, c)'
                      /\ serves[w] = c /\ told'[s] \notin {c, Unsure} =>
                           \E k \in DOMAIN ready' : Assigns(k, w, c)'
    BY <1>3 DEF BeliefIsDue
  <2>1. /\ told[s] = c /\ serves[w] # c => EndIsDue(w, c)
        /\ serves[w] = c /\ told[s] \notin {c, Unsure} =>
             \E k \in DOMAIN ready : Assigns(k, w, c)
    BY DEF BeliefInv, BeliefIsDue
  <2>2. frame.cluster \in Cluster /\ frame.type \in {"assigned", "dissolved"}
    BY <1>5 DEF FrameRow
  <2>3. ASSUME EndIsDue(w, c), ~Ends(frame, w, c)
        PROVE  EndIsDue(w, c)'
    <3>1. ASSUME NEW k \in DOMAIN ready, Ends(ready[k], w, c)
          PROVE  EndIsDue(w, c)'
      <4>1. k # 1
        BY <1>5, <2>3, <3>1
      <4>2. QED  BY <1>5, <3>1, <4>1 DEF EndIsDue
    <3>2. ASSUME NEW i \in DOMAIN running, Ends(running[i].frame, w, c)
          PROVE  EndIsDue(w, c)'
      BY <1>7, <3>2 DEF EndIsDue
    <3>3. QED  BY <2>3, <3>1, <3>2 DEF EndIsDue
  <2>4. ASSUME NEW k \in DOMAIN ready, Assigns(k, w, c),
               ~(frame.type = "assigned" /\ frame.cluster = c /\ frame.to = <<w>>)
        PROVE  \E j \in DOMAIN ready' : Assigns(j, w, c)'
    <3>1. k # 1
      BY <1>5, <2>4 DEF Assigns
    <3>2. QED  BY <1>11, <2>4, <3>1
  <2>5. s # 0
    BY DEF Socket
  <2>6. CASE /\ told'[s] = told[s]
             /\ ~(frame.type = "assigned" /\ frame.to = <<w>>)
             /\ \A d : Ends(frame, w, d) =>
                  \E i \in DOMAIN running' : Ends(running'[i].frame, w, d)
    <3>1. ASSUME EndIsDue(w, c)
          PROVE  EndIsDue(w, c)'
      <4>1. CASE Ends(frame, w, c)
        BY <2>6, <4>1 DEF EndIsDue
      <4>2. QED  BY <2>3, <3>1, <4>1
    <3>2. QED  BY <2>1, <2>4, <2>6, <3>1
  <2>7. ASSUME told'[s] = Heard(told[s], frame),
               \E j \in DOMAIN frame.to : frame.to[j] = w,
               frame.type = "assigned"
        PROVE  /\ told'[s] = c /\ serves[w] # c => EndIsDue(w, c)'
               /\ serves[w] = c /\ told'[s] \notin {c, Unsure} =>
                    \E k \in DOMAIN ready' : Assigns(k, w, c)'
    <3>1. PICK new : new = told'[s] /\ new = frame.cluster
      BY <1>5, <2>7, HeardIs
    <3>2. Assigns(1, w, new)
      <4>1. PICK v \in Worker : frame.to = <<v>>
        BY <1>5, <2>7 DEF BeliefInv, BroadcastTypes
      <4>2. frame.to = <<w>>
        BY <2>7, <4>1
      <4>3. QED  BY <1>5, <2>7, <3>1, <4>2 DEF Assigns
    <3>3. /\ serves[w] = new \/ \E j \in DOMAIN ready : j > 1 /\ Ends(ready[j], w, new)
          /\ serves[w] = c => \E j \in DOMAIN ready : j >= 1 /\ Assigns(j, w, c)
      BY <1>5, <2>2, <3>1, <3>2 DEF BeliefInv, QueueIsRight
    <3>4. ASSUME NEW j \in DOMAIN ready, j > 1, Ends(ready[j], w, new)
          PROVE  EndIsDue(w, new)'
      <4>1. j - 1 \in DOMAIN ready' /\ ready'[j - 1] = ready[j]
        BY <1>5, <3>4
      <4>2. QED  BY <3>4, <4>1 DEF EndIsDue
    <3>5. new = c /\ serves[w] # c => EndIsDue(w, c)'
      BY <3>3, <3>4
    <3>6. serves[w] = c /\ new # c => \E k \in DOMAIN ready' : Assigns(k, w, c)'
      BY <2>4, <3>1, <3>3
    <3>7. QED  BY <3>1, <3>5, <3>6
  <2>8. ASSUME told'[s] = Heard(told[s], frame),
               \E j \in DOMAIN frame.to : frame.to[j] = w,
               frame.type = "dissolved"
        PROVE  /\ told'[s] = c /\ serves[w] # c => EndIsDue(w, c)'
               /\ serves[w] = c /\ told'[s] \notin {c, Unsure} =>
                    \E k \in DOMAIN ready' : Assigns(k, w, c)'
    <3>1. told'[s] = IF told[s] = frame.cluster THEN 0 ELSE told[s]
      BY <1>5, <2>8, HeardIs
    <3>2. serves[w] # frame.cluster
      <4>1. EndIsDue(w, frame.cluster)
        BY <1>5, <2>8 DEF EndIsDue, Ends
      <4>2. QED  BY <2>2, <4>1 DEF BeliefInv, NoFalseEnd
    <3>3. ASSUME told'[s] = c, serves[w] # c
          PROVE  EndIsDue(w, c)'
      <4>1. told[s] = c /\ c # frame.cluster
        BY <3>1, <3>3 DEF Cluster
      <4>2. ~Ends(frame, w, c)
        BY <4>1 DEF Ends
      <4>3. QED  BY <2>1, <2>3, <3>3, <4>1, <4>2
    <3>4. ASSUME serves[w] = c, told'[s] \notin {c, Unsure}
          PROVE  \E k \in DOMAIN ready' : Assigns(k, w, c)'
      <4>1. told[s] # Unsure
        BY <2>2, <3>1, <3>4 DEF Cluster, Unsure
      <4>2. told[s] # c
        BY <3>1, <3>2, <3>4
      <4>3. \E k \in DOMAIN ready : Assigns(k, w, c)
        BY <2>1, <3>4, <4>1, <4>2
      <4>4. QED  BY <2>4, <2>8, <4>3
    <3>5. QED  BY <3>3, <3>4
  <2>9. \/ /\ told'[s] = told[s]
           /\ ~(frame.type = "assigned" /\ frame.to = <<w>>)
           /\ \A d : Ends(frame, w, d) =>
                \E i \in DOMAIN running' : Ends(running'[i].frame, w, d)
        \/ /\ told'[s] = Heard(told[s], frame)
           /\ \E j \in DOMAIN frame.to : frame.to[j] = w
    BY <1>6, <2>5 DEF Sent
  <2>10. QED  BY <2>2, <2>6, <2>7, <2>8, <2>9
<1>14. QED  BY <1>8, <1>10, <1>12, <1>13 DEF BeliefInv

\* A broadcast that was suspended in a send goes on; a worker may be taken
\* out of the map besides.
LEMMA GoingOnKeeps ==
  ASSUME MapInv, BeliefInv,
         NEW i \in DOMAIN running,
         SendNext(running[i].frame, SubSeq(running, 1, i - 1),
                  SubSeq(running, i + 1, Len(running))),
         UNCHANGED <<serves, formed, ready, sockets>>,
         \A w \in Worker : connections'[w] \in {0, connections[w]}
  PROVE  BeliefInv'
<1>1. PICK frame : frame = running[i].frame
  OBVIOUS
<1>2. PICK before, after : /\ before = SubSeq(running, 1, i - 1)
                           /\ after = SubSeq(running, i + 1, Len(running))
  OBVIOUS
<1>3. SendNext(frame, before, after)
  BY <1>1, <1>2
<1>4. /\ ready \in Seq(FrameRow) /\ running \in Seq(RunRow)
      /\ told \in [Socket -> Cluster \cup {0, Unsure}]
  BY DEF BeliefInv, BroadcastTypes
<1>5. /\ frame \in FrameRow /\ frame.to \in Seq(Worker)
      /\ frame.cluster \in Cluster /\ frame.type \in {"assigned", "dissolved"}
      /\ frame.cluster <= formed /\ (frame.type = "assigned" => frame.to = <<>>)
  BY <1>1, <1>4, RunningFrame DEF BeliefInv, BroadcastTypes
<1>6. /\ before \in Seq(RunRow) /\ after \in Seq(RunRow)
      /\ \A j \in DOMAIN before : j \in DOMAIN running /\ before[j] = running[j]
      /\ \A j \in DOMAIN after : i + j \in DOMAIN running /\ after[j] = running[i + j]
      /\ \A j \in DOMAIN running :
           \/ j = i
           \/ j \in DOMAIN before /\ before[j] = running[j]
           \/ j - i \in DOMAIN after /\ after[j - i] = running[j]
  <2>1. PICK n \in Nat : n = Len(running)
    BY <1>4
  <2>2. DOMAIN running = 1..n /\ i \in 1..n /\ \A j \in 1..n : running[j] \in RunRow
    BY <1>4, <2>1
  <2>3. /\ before \in Seq(RunRow) /\ Len(before) = i - 1
        /\ \A j \in 1..(i - 1) : before[j] = running[j]
    <3>1. \A j \in 1..(i - 1) : running[j] \in RunRow
      BY <2>2
    <3>2. 1 \in Int /\ i - 1 \in Int
      BY <2>2
    <3>3. /\ before \in Seq(RunRow)
          /\ Len(before) = IF 1 <= i - 1 THEN i - 1 - 1 + 1 ELSE 0
          /\ \A j \in 1..(i - 1 - 1 + 1) : before[j] = running[1 + j - 1]
      BY <1>2, <3>1, <3>2, SubSeqProperties
    <3>4. QED  BY <2>2, <3>3
  <2>4. /\ after \in Seq(RunRow) /\ Len(after) = n - i
        /\ \A j \in 1..(n - i) : after[j] = running[i + j]
    <3>1. \A j \in (i + 1)..n : running[j] \in RunRow
      BY <2>2
    <3>2. i + 1 \in Int /\ n \in Int
      BY <2>2
    <3>3. /\ after \in Seq(RunRow)
          /\ Len(after) = IF i + 1 <= n THEN n - (i + 1) + 1 ELSE 0
          /\ \A j \in 1..(n - (i + 1) + 1) : after[j] = running[(i + 1) + j - 1]
      BY <1>2, <2>1, <3>1, <3>2, SubSeqProperties
    <3>4. i \in Int /\ i <= n /\ n - (i + 1) + 1 = n - i
      BY <2>2
    <3>5. Len(after) = n - i
      BY <3>3, <3>4
    <3>6. ASSUME NEW j \in 1..(n - i)
          PROVE  after[j] = running[i + j]
      <4>1. (i + 1) + j - 1 = i + j
        BY <3>4
      <4>2. after[j] = running[(i + 1) + j - 1]
        BY <3>3, <3>4
      <4>3. QED  BY <4>1, <4>2
    <3>7. QED  BY <3>3, <3>5, <3>6
  <2>5. DOMAIN before = 1..(i - 1) /\ DOMAIN after = 1..(n - i)
    BY <2>3, <2>4
  <2>6. \A j \in DOMAIN before : j \in DOMAIN running /\ before[j] = running[j]
    BY <2>2, <2>3, <2>5
  <2>7. \A j \in DOMAIN after : i + j \in DOMAIN running /\ after[j] = running[i + j]
    BY <2>2, <2>4, <2>5
  <2>8. ASSUME NEW j \in DOMAIN running, j > i
        PROVE  j - i \in DOMAIN after /\ after[j - i] = running[j]
    <3>1. j - i \in DOMAIN after /\ i + (j - i) = j
      BY <2>2, <2>5, <2>8
    <3>2. QED  BY <2>7, <3>1
  <2>9. ASSUME NEW j \in DOMAIN running, j < i
        PROVE  j \in DOMAIN before /\ before[j] = running[j]
    BY <2>2, <2>3, <2>5, <2>9
  <2>10. QED  BY <2>2, <2>3, <2>4, <2>6, <2>7, <2>8, <2>9
<1>7. /\ running' \in Seq(RunRow)
      /\ told' \in [Socket -> Cluster \cup {0, Unsure}]
      /\ Sent(frame, before, after)
  BY <1>3, <1>4, <1>5, <1>6, SendEffects
<1>8. /\ \A k \in DOMAIN running' :
           \/ \E j \in DOMAIN running : running'[k] = running[j]
           \/ /\ running'[k].frame.type = frame.type
              /\ running'[k].frame.cluster = frame.cluster
              /\ Len(running'[k].frame.to) < Len(frame.to)
              /\ \A j \in DOMAIN running'[k].frame.to :
                   \E l \in DOMAIN frame.to : running'[k].frame.to[j] = frame.to[l]
      /\ \A j \in DOMAIN running : j # i => \E k \in DOMAIN running' : running'[k] = running[j]
  <2>1. ASSUME NEW k \in DOMAIN running',
               ~ \E j \in DOMAIN running : running'[k] = running[j]
        PROVE  /\ running'[k].frame.type = frame.type
               /\ running'[k].frame.cluster = frame.cluster
               /\ Len(running'[k].frame.to) < Len(frame.to)
               /\ \A j \in DOMAIN running'[k].frame.to :
                    \E l \in DOMAIN frame.to : running'[k].frame.to[j] = frame.to[l]
    <3>1. ~ \E j \in DOMAIN before : running'[k] = before[j]
      BY <1>6, <2>1
    <3>2. ~ \E j \in DOMAIN after : running'[k] = after[j]
      BY <1>6, <2>1
    <3>3. QED  BY <1>7, <3>1, <3>2 DEF Sent
  <2>2. ASSUME NEW j \in DOMAIN running, j # i
        PROVE  \E k \in DOMAIN running' : running'[k] = running[j]
    <3>1. CASE j \in DOMAIN before /\ before[j] = running[j]
      BY <1>7, <3>1 DEF Sent
    <3>2. CASE j - i \in DOMAIN after /\ after[j - i] = running[j]
      BY <1>7, <3>2 DEF Sent
    <3>3. QED  BY <1>6, <2>2, <3>1, <3>2
  <2>3. QED  BY <2>1, <2>2
<1>9. BroadcastTypes'
  <2>1. ASSUME NEW k \in DOMAIN running'
        PROVE  /\ running'[k].frame.cluster <= formed
               /\ running'[k].frame.type = "assigned" => running'[k].frame.to = <<>>
    <3>1. CASE \E j \in DOMAIN running : running'[k] = running[j]
      BY <3>1 DEF BeliefInv, BroadcastTypes
    <3>2. CASE /\ running'[k].frame.type = frame.type
               /\ running'[k].frame.cluster = frame.cluster
               /\ Len(running'[k].frame.to) < Len(frame.to)
      <4>1. PICK to : to = running'[k].frame.to
        OBVIOUS
      <4>2. to \in Seq(Worker)
        BY <1>7, <4>1, RunningFrame
      <4>3. frame.type # "assigned"
        BY <1>5, <3>2, <4>1, <4>2
      <4>4. QED  BY <1>5, <3>2, <4>3
    <3>3. QED  BY <1>8, <3>1, <3>2
  <2>2. QED  BY <1>7, <2>1 DEF BeliefInv, BroadcastTypes, FrameRow, RunRow
<1>10. ASSUME NEW w \in Worker, NEW c, EndIsDue(w, c)'
       PROVE  EndIsDue(w, c)
  <2>1. ASSUME NEW k \in DOMAIN running', Ends(running'[k].frame, w, c)
        PROVE  EndIsDue(w, c)
    <3>1. CASE \E j \in DOMAIN running : running'[k] = running[j]
      BY <2>1, <3>1 DEF EndIsDue
    <3>2. CASE ~ \E j \in DOMAIN running : running'[k] = running[j]
      <4>1. Ends(frame, w, c)
        BY <1>8, <2>1, <3>2 DEF Ends
      <4>2. QED  BY <1>1, <4>1 DEF EndIsDue
    <3>3. QED  BY <3>1, <3>2
  <2>2. QED  BY <1>10, <2>1 DEF EndIsDue
<1>11. NoFalseEnd'
  BY <1>10 DEF BeliefInv, NoFalseEnd
<1>12. QueueIsRight'
  <2>1. QueueIsRight
    BY DEF BeliefInv
  <2>2. \A k, w, c : Assigns(k, w, c)' <=> Assigns(k, w, c)
    BY DEF Assigns
  <2>3. \A k, w, c : Ends(ready'[k], w, c) <=> Ends(ready[k], w, c)
    BY DEF Ends
  <2>4. QED  BY <2>1, <2>2, <2>3 DEF QueueIsRight
<1>13. BeliefIsDue'
  <2> SUFFICES ASSUME NEW w \in Worker, NEW s \in Socket, NEW c \in Cluster,
                      connections'[w] = s, sockets[s].alive
               PROVE  /\ told'[s] = c /\ serves[w] # c => EndIsDue(w, c)'
                      /\ serves[w] = c /\ told'[s] \notin {c, Unsure} =>
                           \E k \in DOMAIN ready : Assigns(k, w, c)
    BY DEF BeliefIsDue, Assigns
  <2>1. s # 0 /\ connections[w] = s
    BY DEF Socket
  <2>2. /\ told[s] = c /\ serves[w] # c => EndIsDue(w, c)
        /\ serves[w] = c /\ told[s] \notin {c, Unsure} =>
             \E k \in DOMAIN ready : Assigns(k, w, c)
    BY <2>1 DEF BeliefInv, BeliefIsDue
  <2>3. ASSUME EndIsDue(w, c),
               Ends(frame, w, c) =>
                 \E k \in DOMAIN running' : Ends(running'[k].frame, w, c)
        PROVE  EndIsDue(w, c)'
    <3>1. ASSUME NEW k \in DOMAIN running, Ends(running[k].frame, w, c)
          PROVE  EndIsDue(w, c)'
      <4>1. CASE k = i
        BY <1>1, <2>3, <3>1, <4>1 DEF EndIsDue
      <4>2. CASE k # i
        BY <1>8, <3>1, <4>2 DEF EndIsDue
      <4>3. QED  BY <4>1, <4>2
    <3>2. QED  BY <2>3, <3>1 DEF EndIsDue
  <2>4. CASE /\ told'[s] = told[s]
             /\ \A d : Ends(frame, w, d) =>
                  \E k \in DOMAIN running' : Ends(running'[k].frame, w, d)
    BY <2>2, <2>3, <2>4
  <2>5. CASE /\ told'[s] = Heard(told[s], frame)
             /\ \E j \in DOMAIN frame.to : frame.to[j] = w
    <3>1. frame.type = "dissolved"
      <4>1. frame.to # <<>>
        BY <2>5
      <4>2. QED  BY <1>5, <4>1
    <3>2. told'[s] = IF told[s] = frame.cluster THEN 0 ELSE told[s]
      BY <1>5, <2>5, <3>1, HeardIs
    <3>3. serves[w] # frame.cluster
      <4>1. EndIsDue(w, frame.cluster)
        BY <1>1, <2>5, <3>1 DEF EndIsDue, Ends
      <4>2. QED  BY <1>5, <4>1 DEF BeliefInv, NoFalseEnd
    <3>4. ASSUME told'[s] = c, serves[w] # c
          PROVE  EndIsDue(w, c)'
      <4>1. told[s] = c /\ c # frame.cluster
        BY <3>2, <3>4 DEF Cluster
      <4>2. ~Ends(frame, w, c)
        BY <4>1 DEF Ends
      <4>3. QED  BY <2>2, <2>3, <3>4, <4>1, <4>2
    <3>5. ASSUME serves[w] = c, told'[s] \notin {c, Unsure}
          PROVE  \E k \in DOMAIN ready : Assigns(k, w, c)
      <4>1. told[s] # Unsure
        BY <1>5, <3>2, <3>5 DEF Cluster, Unsure
      <4>2. told[s] # c
        BY <3>2, <3>3, <3>5
      <4>3. QED  BY <2>2, <3>5, <4>1, <4>2
    <3>6. QED  BY <3>4, <3>5
  <2>6. QED  BY <1>7, <2>1, <2>4, <2>5 DEF Sent
<1>14. QED  BY <1>9, <1>11, <1>12, <1>13 DEF BeliefInv

\* A step of the endpoint or of a client leaves the broadcasts alone, and what
\* a client in the map believes, or has it believe what the store says.
LEMMA QuietStepKeeps ==
  ASSUME BeliefInv,
         UNCHANGED <<serves, formed, ready, running>>,
         told' \in [Socket -> Cluster \cup {0, Unsure}],
         \A w \in Worker, s \in Socket :
           connections'[w] = s /\ sockets'[s].alive =>
             \/ connections[w] = s /\ sockets[s].alive /\ told'[s] = told[s]
             \/ told'[s] \in {serves[w], Unsure}
  PROVE  BeliefInv'
<1>1. \A w, c : EndIsDue(w, c)' <=> EndIsDue(w, c)
  BY DEF EndIsDue, Ends
<1>2. \A k, w, c : Assigns(k, w, c)' <=> Assigns(k, w, c)
  BY DEF Assigns
<1>3. BroadcastTypes'
  BY DEF BeliefInv, BroadcastTypes, FrameRow, RunRow
<1>4. NoFalseEnd'
  BY <1>1 DEF BeliefInv, NoFalseEnd
<1>5. QueueIsRight'
  BY <1>2 DEF BeliefInv, QueueIsRight, Ends
<1>6. BeliefIsDue'
  <2> SUFFICES ASSUME NEW w \in Worker, NEW s \in Socket, NEW c \in Cluster,
                      connections'[w] = s, sockets'[s].alive
               PROVE  /\ told'[s] = c /\ serves[w] # c => EndIsDue(w, c)
                      /\ serves[w] = c /\ told'[s] \notin {c, Unsure} =>
                           \E k \in DOMAIN ready : Assigns(k, w, c)
    BY <1>1, <1>2 DEF BeliefIsDue
  <2>1. CASE connections[w] = s /\ sockets[s].alive /\ told'[s] = told[s]
    BY <2>1 DEF BeliefInv, BeliefIsDue
  <2>2. CASE told'[s] \in {serves[w], Unsure}
    BY <2>2 DEF Cluster, Unsure
  <2>3. QED  BY <2>1, <2>2
<1>7. QED  BY <1>3, <1>4, <1>5, <1>6 DEF BeliefInv

\* The members of r are those of q at their places, and those of g after them.
Follows(r, q, g) ==
  /\ Len(q) \in Nat /\ DOMAIN q \subseteq Nat /\ DOMAIN r \subseteq Nat
  /\ \A k \in DOMAIN q : k <= Len(q) /\ k \in DOMAIN r /\ r[k] = q[k]
  /\ \A k \in DOMAIN g :
       Len(q) + k > Len(q) /\ Len(q) + k \in DOMAIN r /\ r[Len(q) + k] = g[k]
  /\ \A k \in DOMAIN r :
       \/ k \in DOMAIN q
       \/ k - Len(q) \in DOMAIN g /\ r[k] = g[k - Len(q)]

\* Two sequences put together.
LEMMA TwoParts ==
  ASSUME NEW T, NEW q \in Seq(T), NEW g \in Seq(T)
  PROVE  q \o g \in Seq(T) /\ Follows(q \o g, q, g)
<1>1. PICK r : r = q \o g
  OBVIOUS
<1>2. PICK m \in Nat, n \in Nat : m = Len(q) /\ n = Len(g)
  OBVIOUS
<1>3. /\ r \in Seq(T) /\ Len(r) = m + n
      /\ \A i \in 1..(m + n) : r[i] = IF i <= m THEN q[i] ELSE g[i - m]
  BY <1>1, <1>2, ConcatProperties
<1>4. DOMAIN r = 1..(m + n) /\ DOMAIN q = 1..m /\ DOMAIN g = 1..n
  BY <1>2, <1>3
<1>5. \A k \in DOMAIN q : k <= m /\ k \in DOMAIN r /\ r[k] = q[k]
  BY <1>3, <1>4
<1>6. ASSUME NEW k \in DOMAIN g
      PROVE  m + k > m /\ m + k \in DOMAIN r /\ r[m + k] = g[k]
  BY <1>3, <1>4
<1>7. ASSUME NEW k \in DOMAIN r, k \notin DOMAIN q
      PROVE  k - m \in DOMAIN g /\ r[k] = g[k - m]
  BY <1>3, <1>4, <1>7
<1>8. DOMAIN q \subseteq Nat /\ DOMAIN r \subseteq Nat
  BY <1>4
<1>9. Follows(r, q, g)
  BY <1>2, <1>5, <1>6, <1>7, <1>8 DEF Follows
<1>10. QED  BY <1>1, <1>3, <1>9

\* The members of a new cluster served none, so that what they believe has
\* ended or is due to; the frames that assign them come last.
LEMMA FormKeeps ==
  ASSUME BeliefInv, NEW S \in SUBSET Worker, Form(S)
  PROVE  BeliefInv'
<1> USE HubAssumption
<1>1. PICK c : c = formed + 1
  OBVIOUS
<1>2. PICK ring : ring = InRing(S)
  OBVIOUS
<1>3. PICK n : n = Cardinality(S)
  OBVIOUS
<1>4. PICK g : g = [i \in 1..n |-> Frame("assigned", c, <<ring[i]>>)]
  OBVIOUS
<1>5. /\ c \in Cluster /\ formed' = c
      /\ \A w \in S : serves[w] = 0
      /\ serves' = [w \in Worker |-> IF w \in S THEN c ELSE serves[w]]
      /\ ready' = ready \o g
      /\ UNCHANGED <<running, connections, sockets, told>>
  BY <1>1, <1>2, <1>3, <1>4 DEF Form
<1>6. /\ serves \in [Worker -> 0..formed] /\ formed \in 0..MaxCluster
      /\ ready \in Seq(FrameRow) /\ running \in Seq(RunRow)
      /\ told \in [Socket -> Cluster \cup {0, Unsure}]
      /\ \A k \in DOMAIN ready :
           /\ ready[k].cluster <= formed
           /\ ready[k].type = "assigned" => \E w \in Worker : ready[k].to = <<w>>
      /\ \A i \in DOMAIN running :
           /\ running[i].frame.cluster <= formed
           /\ running[i].frame.type = "assigned" => running[i].frame.to = <<>>
  BY DEF BeliefInv, BroadcastTypes
<1>7. /\ n \in Nat
      /\ \A i \in 1..n : ring[i] \in S
      /\ \A w \in S : \E i \in 1..n : ring[i] = w
  BY <1>2, <1>3, RingHoldsAll
<1>8. \A i \in 1..n : /\ g[i] \in FrameRow
                      /\ g[i].type = "assigned" /\ g[i].cluster = c /\ g[i].to = <<ring[i]>>
  <2> SUFFICES ASSUME NEW i \in 1..n
               PROVE  /\ g[i] \in FrameRow
                      /\ g[i].type = "assigned" /\ g[i].cluster = c /\ g[i].to = <<ring[i]>>
    OBVIOUS
  <2>1. PICK to : to = <<ring[i]>> /\ to \in Seq(Worker)
    <3>1. ring[i] \in Worker
      BY <1>7
    <3>2. <<ring[i]>> \in Seq(Worker)
      BY <3>1
    <3>3. QED  BY <3>2
  <2>2. g[i] = [type |-> "assigned", cluster |-> c, to |-> to]
    BY <1>4, <2>1 DEF Frame
  <2>3. QED  BY <1>5, <2>1, <2>2 DEF FrameRow
<1>9. g \in Seq(FrameRow) /\ DOMAIN g = 1..n
  <2>1. g \in [1..n -> FrameRow]
    BY <1>4, <1>8
  <2>2. QED  BY <1>7, <2>1
<1>10. /\ ready' \in Seq(FrameRow)
       /\ Len(ready) \in Nat /\ DOMAIN ready \subseteq Nat /\ DOMAIN ready' \subseteq Nat
       /\ \A k \in DOMAIN ready :
            k <= Len(ready) /\ k \in DOMAIN ready' /\ ready'[k] = ready[k]
       /\ \A k \in DOMAIN g :
            /\ Len(ready) + k > Len(ready) /\ Len(ready) + k \in DOMAIN ready'
            /\ ready'[Len(ready) + k] = g[k]
       /\ \A k \in DOMAIN ready' :
            \/ k \in DOMAIN ready
            \/ k - Len(ready) \in DOMAIN g /\ ready'[k] = g[k - Len(ready)]
  <2>1. ready' \in Seq(FrameRow) /\ Follows(ready', ready, g)
    BY <1>5, <1>6, <1>9, TwoParts
  <2>2. QED  BY <2>1 DEF Follows
<1>11. BroadcastTypes'
  <2>1. formed' \in 0..MaxCluster /\ formed < formed' /\ 0..formed \subseteq 0..formed' /\ c \in 0..formed'
    BY <1>1, <1>5, <1>6 DEF Cluster
  <2>2. serves' \in [Worker -> 0..formed']
    BY <1>5, <1>6, <2>1
  <2>3. ASSUME NEW k \in DOMAIN ready'
        PROVE  /\ ready'[k].cluster <= formed'
               /\ ready'[k].type = "assigned" => \E w \in Worker : ready'[k].to = <<w>>
    <3>1. CASE k \in DOMAIN ready
      <4>1. ready'[k] = ready[k] /\ ready[k] \in FrameRow
        BY <1>6, <1>10, <3>1
      <4>2. ready[k].cluster <= formed /\ ready[k].cluster \in Cluster
        BY <1>6, <3>1, <4>1 DEF FrameRow
      <4>3. ready[k].cluster <= formed'
        BY <1>6, <2>1, <4>2 DEF Cluster
      <4>4. QED  BY <1>6, <3>1, <4>1, <4>3
    <3>2. CASE k - Len(ready) \in DOMAIN g /\ ready'[k] = g[k - Len(ready)]
      <4>1. PICK i \in 1..n : ready'[k] = g[i]
        BY <1>9, <3>2
      <4>2. ready'[k].cluster <= formed'
        BY <1>5, <1>8, <2>1, <4>1 DEF Cluster
      <4>3. QED  BY <1>7, <1>8, <4>1, <4>2
    <3>3. QED  BY <1>10, <3>1, <3>2
  <2>4. ASSUME NEW i \in DOMAIN running
        PROVE  /\ running[i].frame.cluster <= formed'
               /\ running[i].frame.type = "assigned" => running[i].frame.to = <<>>
    <3>1. running[i].frame.cluster <= formed /\ running[i].frame.cluster \in Cluster
      BY <1>6, RunningFrame
    <3>2. running[i].frame.cluster <= formed'
      BY <1>6, <2>1, <3>1 DEF Cluster
    <3>3. QED  BY <1>6, <3>2
  <2>5. QED  BY <1>5, <1>6, <1>10, <2>1, <2>2, <2>3, <2>4 DEF BroadcastTypes, FrameRow, RunRow
<1>12. ASSUME NEW w, NEW d
       PROVE  EndIsDue(w, d)' <=> EndIsDue(w, d)
  <2>1. ASSUME NEW k \in DOMAIN ready', Ends(ready'[k], w, d)
        PROVE  \E j \in DOMAIN ready : Ends(ready[j], w, d)
    <3>1. CASE k \in DOMAIN ready
      BY <1>10, <2>1, <3>1
    <3>2. CASE k - Len(ready) \in DOMAIN g /\ ready'[k] = g[k - Len(ready)]
      BY <1>8, <1>9, <2>1, <3>2 DEF Ends
    <3>3. QED  BY <1>10, <3>1, <3>2
  <2>2. ASSUME NEW k \in DOMAIN ready, Ends(ready[k], w, d)
        PROVE  \E j \in DOMAIN ready' : Ends(ready'[j], w, d)
    BY <1>10, <2>2
  <2>3. running' = running
    BY <1>5
  <2>4. QED  BY <2>1, <2>2, <2>3 DEF EndIsDue
<1>13. ASSUME NEW w \in Worker, NEW d \in Cluster, EndIsDue(w, d)
       PROVE  d <= formed
  <2>1. ASSUME NEW k \in DOMAIN ready, Ends(ready[k], w, d)
        PROVE  d <= formed
    BY <1>6, <2>1 DEF Ends
  <2>2. ASSUME NEW i \in DOMAIN running, Ends(running[i].frame, w, d)
        PROVE  d <= formed
    BY <1>6, <2>2 DEF Ends
  <2>3. QED  BY <1>13, <2>1, <2>2 DEF EndIsDue
<1>14. NoFalseEnd'
  <2> SUFFICES ASSUME NEW w \in Worker, NEW d \in Cluster, EndIsDue(w, d)
               PROVE  serves'[w] # d
    BY <1>12 DEF NoFalseEnd
  <2>1. d <= formed /\ serves[w] # d
    BY <1>13 DEF BeliefInv, NoFalseEnd
  <2>2. QED  BY <1>1, <1>5, <1>6, <2>1 DEF Cluster
<1>15. ASSUME NEW k \in DOMAIN ready, NEW w, NEW d, Assigns(k, w, d)
       PROVE  k \in DOMAIN ready' /\ Assigns(k, w, d)'
  BY <1>10, <1>15 DEF Assigns
<1>16. ASSUME NEW w \in S
       PROVE  \E k \in DOMAIN ready' : k > Len(ready) /\ Assigns(k, w, c)'
  <2>1. PICK i \in 1..n : ring[i] = w
    BY <1>7
  <2>2. g[i].type = "assigned" /\ g[i].cluster = c /\ g[i].to = <<w>>
    BY <1>8, <2>1
  <2>3. QED  BY <1>9, <1>10, <2>2 DEF Assigns
<1>17. QueueIsRight'
  <2> SUFFICES ASSUME NEW k \in DOMAIN ready', NEW w \in Worker, NEW a \in Cluster,
                      Assigns(k, w, a)'
               PROVE  /\ serves'[w] = a \/ \E j \in DOMAIN ready' : j > k /\ Ends(ready'[j], w, a)
                      /\ \A d \in Cluster : serves'[w] = d =>
                           \E j \in DOMAIN ready' : j >= k /\ Assigns(j, w, d)'
    BY DEF QueueIsRight
  <2>1. CASE k \in DOMAIN ready
    <3>1. Assigns(k, w, a)
      BY <1>10, <2>1 DEF Assigns
    <3>2. /\ serves[w] = a \/ \E j \in DOMAIN ready : j > k /\ Ends(ready[j], w, a)
          /\ \A d \in Cluster : serves[w] = d =>
               \E j \in DOMAIN ready : j >= k /\ Assigns(j, w, d)
      BY <2>1, <3>1 DEF BeliefInv, QueueIsRight
    <3>3. serves[w] = a => serves'[w] = a
      BY <1>5 DEF Cluster
    <3>4. ASSUME NEW j \in DOMAIN ready, j > k, Ends(ready[j], w, a)
          PROVE  \E l \in DOMAIN ready' : l > k /\ Ends(ready'[l], w, a)
      BY <1>10, <3>4
    <3>5. ASSUME NEW d \in Cluster, serves'[w] = d
          PROVE  \E j \in DOMAIN ready' : j >= k /\ Assigns(j, w, d)'
      <4>1. CASE w \in S
        <5>1. d = c
          BY <1>5, <3>5, <4>1
        <5>2. PICK l \in DOMAIN ready' : l > Len(ready) /\ Assigns(l, w, c)'
          BY <1>16, <4>1
        <5>3. l \in Nat
          BY <1>10
        <5>4. l >= k
          BY <1>10, <2>1, <5>2, <5>3
        <5>5. QED  BY <5>1, <5>2, <5>4
      <4>2. CASE w \notin S
        <5>1. serves[w] = d
          BY <1>5, <3>5, <4>2
        <5>2. PICK j \in DOMAIN ready : j >= k /\ Assigns(j, w, d)
          BY <3>2, <5>1
        <5>3. QED  BY <1>15, <5>2
      <4>3. QED  BY <4>1, <4>2
    <3>6. QED  BY <3>2, <3>3, <3>4, <3>5
  <2>2. CASE k - Len(ready) \in DOMAIN g /\ ready'[k] = g[k - Len(ready)]
    <3>1. PICK i \in 1..n : ready'[k] = g[i]
      BY <1>9, <2>2
    <3>2. a = c /\ <<w>> = <<ring[i]>>
      BY <1>8, <3>1 DEF Assigns
    <3>3. w \in S
      BY <1>7, <3>2
    <3>4. serves'[w] = a
      BY <1>5, <3>2, <3>3
    <3>5. k \in Nat /\ k >= k
      BY <1>10
    <3>6. QED  BY <3>4, <3>5
  <2>3. QED  BY <1>10, <2>1, <2>2
<1>18. BeliefIsDue'
  <2> SUFFICES ASSUME NEW w \in Worker, NEW s \in Socket, NEW d \in Cluster,
                      connections[w] = s, sockets[s].alive
               PROVE  /\ told[s] = d /\ serves'[w] # d => EndIsDue(w, d)
                      /\ serves'[w] = d /\ told[s] \notin {d, Unsure} =>
                           \E k \in DOMAIN ready' : Assigns(k, w, d)'
    BY <1>5, <1>12 DEF BeliefIsDue
  <2>1. /\ told[s] = d /\ serves[w] # d => EndIsDue(w, d)
        /\ serves[w] = d /\ told[s] \notin {d, Unsure} =>
             \E k \in DOMAIN ready : Assigns(k, w, d)
    BY DEF BeliefInv, BeliefIsDue
  <2>2. CASE w \in S
    <3>1. serves[w] = 0 /\ serves'[w] = c
      BY <1>5, <2>2
    <3>2. serves[w] # d
      BY <3>1 DEF Cluster
    <3>3. QED  BY <1>16, <2>1, <2>2, <3>1, <3>2
  <2>3. CASE w \notin S
    <3>1. serves'[w] = serves[w]
      BY <1>5, <2>3
    <3>2. QED  BY <1>15, <2>1, <3>1
  <2>4. QED  BY <2>2, <2>3
<1>19. QED  BY <1>11, <1>14, <1>17, <1>18 DEF BeliefInv

\* The members of the cluster serve none, and the frame that tells them comes
\* after the one that assigned them.
LEMMA DissolveKeeps ==
  ASSUME BeliefInv, NEW c \in Cluster, NEW again \in BOOLEAN, Dissolve(c, again)
  PROVE  BeliefInv'
<1> USE HubAssumption
<1>1. PICK members : members = {w \in Worker : serves[w] = c}
  OBVIOUS
<1>2. PICK ring : ring = InRing(members)
  OBVIOUS
<1>3. PICK frame : frame = Frame("dissolved", c, ring)
  OBVIOUS
<1>4. PICK g : g = IF again THEN <<frame, frame>> ELSE <<frame>>
  OBVIOUS
<1>5. /\ members # {} /\ members \in SUBSET Worker
      /\ serves' = [w \in Worker |-> IF w \in members THEN 0 ELSE serves[w]]
      /\ ready' = ready \o g
      /\ UNCHANGED <<formed, running, connections, sockets, told>>
  BY <1>1, <1>2, <1>3, <1>4 DEF Dissolve
<1>6. /\ serves \in [Worker -> 0..formed] /\ formed \in 0..MaxCluster
      /\ ready \in Seq(FrameRow) /\ running \in Seq(RunRow)
      /\ told \in [Socket -> Cluster \cup {0, Unsure}]
      /\ \A k \in DOMAIN ready :
           /\ ready[k].cluster <= formed
           /\ ready[k].type = "assigned" => \E w \in Worker : ready[k].to = <<w>>
  BY DEF BeliefInv, BroadcastTypes
<1>7. /\ ring \in Seq(Worker)
      /\ \A i \in DOMAIN ring : ring[i] \in members
      /\ \A w \in members : \E i \in DOMAIN ring : ring[i] = w
  <2>1. /\ ring \in Seq(Worker)
        /\ Len(ring) = Cardinality(members)
        /\ \A i \in 1..Cardinality(members) : ring[i] \in members
        /\ \A w \in members : \E i \in 1..Cardinality(members) : ring[i] = w
    BY <1>2, <1>5, RingHoldsAll
  <2>2. DOMAIN ring = 1..Cardinality(members)
    BY <2>1
  <2>3. QED  BY <2>1, <2>2
<1>8. /\ frame \in FrameRow
      /\ frame.type = "dissolved" /\ frame.cluster = c /\ frame.to = ring
  BY <1>3, <1>7 DEF Frame, FrameRow
<1>9. /\ g \in Seq(FrameRow) /\ 1 \in DOMAIN g
      /\ \A i \in DOMAIN g : g[i] = frame
  BY <1>4, <1>8
<1>10. /\ ready' \in Seq(FrameRow)
       /\ Len(ready) \in Nat /\ DOMAIN ready \subseteq Nat /\ DOMAIN ready' \subseteq Nat
       /\ \A k \in DOMAIN ready :
            k <= Len(ready) /\ k \in DOMAIN ready' /\ ready'[k] = ready[k]
       /\ Len(ready) + 1 \in DOMAIN ready' /\ ready'[Len(ready) + 1] = frame
       /\ \A k \in DOMAIN ready' : k \in DOMAIN ready \/ ready'[k] = frame
  <2>1. ready' \in Seq(FrameRow) /\ Follows(ready', ready, g)
    BY <1>5, <1>6, <1>9, TwoParts
  <2>2. QED  BY <1>9, <2>1 DEF Follows
<1>11. \A w \in members : Ends(frame, w, c) /\ serves[w] = c /\ serves'[w] = 0
  BY <1>1, <1>5, <1>7, <1>8 DEF Ends
<1>12. c <= formed
  <2>1. PICK w \in Worker : serves[w] = c
    BY <1>1, <1>5
  <2>2. QED  BY <1>6, <2>1
<1>13. BroadcastTypes'
  <2>1. 0 \in 0..formed
    BY <1>6
  <2>2. serves' \in [Worker -> 0..formed]
    BY <1>5, <1>6, <2>1
  <2>3. ASSUME NEW k \in DOMAIN ready'
        PROVE  /\ ready'[k].cluster <= formed
               /\ ready'[k].type = "assigned" => \E w \in Worker : ready'[k].to = <<w>>
    BY <1>6, <1>8, <1>10, <1>12
  <2>4. QED  BY <1>5, <1>10, <2>2, <2>3 DEF BeliefInv, BroadcastTypes, FrameRow, RunRow
<1>14. ASSUME NEW w, NEW d, EndIsDue(w, d)
       PROVE  EndIsDue(w, d)'
  BY <1>5, <1>10, <1>14 DEF EndIsDue
<1>15. ASSUME NEW w \in members
       PROVE  EndIsDue(w, c)'
  BY <1>10, <1>11 DEF EndIsDue
<1>16. ASSUME NEW w, NEW d, EndIsDue(w, d)', ~EndIsDue(w, d)
       PROVE  w \in members /\ d = c
  <2>1. ASSUME NEW k \in DOMAIN ready', Ends(ready'[k], w, d)
        PROVE  w \in members /\ d = c
    <3>1. CASE k \in DOMAIN ready
      BY <1>10, <1>16, <2>1, <3>1 DEF EndIsDue
    <3>2. CASE ready'[k] = frame
      BY <1>7, <1>8, <2>1, <3>2 DEF Ends
    <3>3. QED  BY <1>10, <3>1, <3>2
  <2>2. QED  BY <1>5, <1>16, <2>1 DEF EndIsDue
<1>17. NoFalseEnd'
  <2> SUFFICES ASSUME NEW w \in Worker, NEW d \in Cluster, EndIsDue(w, d)'
               PROVE  serves'[w] # d
    BY DEF NoFalseEnd
  <2>1. d # 0
    BY DEF Cluster
  <2>2. CASE EndIsDue(w, d)
    BY <1>5, <2>1, <2>2 DEF BeliefInv, NoFalseEnd
  <2>3. CASE ~EndIsDue(w, d)
    BY <1>11, <1>16, <2>1, <2>3
  <2>4. QED  BY <2>2, <2>3
<1>18. ASSUME NEW k \in DOMAIN ready, NEW w, NEW d, Assigns(k, w, d)
       PROVE  k \in DOMAIN ready' /\ Assigns(k, w, d)'
  BY <1>10, <1>18 DEF Assigns
<1>19. QueueIsRight'
  <2> SUFFICES ASSUME NEW k \in DOMAIN ready', NEW w \in Worker, NEW a \in Cluster,
                      Assigns(k, w, a)'
               PROVE  /\ serves'[w] = a \/ \E j \in DOMAIN ready' : j > k /\ Ends(ready'[j], w, a)
                      /\ \A d \in Cluster : serves'[w] = d =>
                           \E j \in DOMAIN ready' : j >= k /\ Assigns(j, w, d)'
    BY DEF QueueIsRight
  <2>1. k \in DOMAIN ready
    BY <1>8, <1>10 DEF Assigns
  <2>2. Assigns(k, w, a)
    BY <1>10, <2>1 DEF Assigns
  <2>3. /\ serves[w] = a \/ \E j \in DOMAIN ready : j > k /\ Ends(ready[j], w, a)
        /\ \A d \in Cluster : serves[w] = d =>
             \E j \in DOMAIN ready : j >= k /\ Assigns(j, w, d)
    BY <2>1, <2>2 DEF BeliefInv, QueueIsRight
  <2>4. ASSUME NEW j \in DOMAIN ready, j > k, Ends(ready[j], w, a)
        PROVE  \E l \in DOMAIN ready' : l > k /\ Ends(ready'[l], w, a)
    BY <1>10, <2>4
  <2>5. CASE w \in members
    <3>1. serves[w] = a => a = c
      BY <1>11, <2>5
    <3>2. Len(ready) + 1 > k
      BY <1>10, <2>1
    <3>3. Ends(ready'[Len(ready) + 1], w, c)
      BY <1>10, <1>11, <2>5
    <3>4. serves[w] = a => \E l \in DOMAIN ready' : l > k /\ Ends(ready'[l], w, a)
      BY <1>10, <3>1, <3>2, <3>3
    <3>5. \A d \in Cluster : serves'[w] # d
      BY <1>11, <2>5 DEF Cluster
    <3>6. QED  BY <2>3, <2>4, <3>4, <3>5
  <2>6. CASE w \notin members
    <3>1. serves'[w] = serves[w]
      BY <1>5, <2>6
    <3>2. ASSUME NEW d \in Cluster, serves[w] = d
          PROVE  \E j \in DOMAIN ready' : j >= k /\ Assigns(j, w, d)'
      BY <1>18, <2>3, <3>2
    <3>3. QED  BY <2>3, <2>4, <3>1, <3>2
  <2>7. QED  BY <2>5, <2>6
<1>20. BeliefIsDue'
  <2> SUFFICES ASSUME NEW w \in Worker, NEW s \in Socket, NEW d \in Cluster,
                      connections[w] = s, sockets[s].alive
               PROVE  /\ told[s] = d /\ serves'[w] # d => EndIsDue(w, d)'
                      /\ serves'[w] = d /\ told[s] \notin {d, Unsure} =>
                           \E k \in DOMAIN ready' : Assigns(k, w, d)'
    BY <1>5 DEF BeliefIsDue
  <2>1. /\ told[s] = d /\ serves[w] # d => EndIsDue(w, d)
        /\ serves[w] = d /\ told[s] \notin {d, Unsure} =>
             \E k \in DOMAIN ready : Assigns(k, w, d)
    BY DEF BeliefInv, BeliefIsDue
  <2>2. CASE w \in members
    <3>1. serves'[w] # d
      BY <1>11, <2>2 DEF Cluster
    <3>2. told[s] = d => EndIsDue(w, d)'
      BY <1>11, <1>14, <1>15, <2>1, <2>2
    <3>3. QED  BY <3>1, <3>2
  <2>3. CASE w \notin members
    <3>1. serves'[w] = serves[w]
      BY <1>5, <2>3
    <3>2. QED  BY <1>14, <1>18, <2>1, <3>1
  <2>4. QED  BY <2>2, <2>3
<1>21. QED  BY <1>13, <1>17, <1>19, <1>20 DEF BeliefInv

LEMMA BeliefInit == Init => BeliefInv
<1> USE HubAssumption
<1> SUFFICES ASSUME Init
             PROVE  BeliefInv
  OBVIOUS
<1>1. /\ serves = [w \in Worker |-> 0] /\ formed = 0
      /\ ready = <<>> /\ running = <<>>
      /\ sockets = [s \in Socket |-> NoSocket] /\ told = [s \in Socket |-> 0]
  BY DEF Init
<1>2. BroadcastTypes
  BY <1>1 DEF BroadcastTypes
<1>3. NoFalseEnd /\ QueueIsRight
  BY <1>1 DEF NoFalseEnd, QueueIsRight, EndIsDue
<1>4. BeliefIsDue
  BY <1>1 DEF BeliefIsDue, NoSocket
<1>5. QED  BY <1>2, <1>3, <1>4 DEF BeliefInv

\* A socket that is alive is a worker's.
Owned == \A s \in Socket : sockets[s].alive => sockets[s].worker \in Worker

LEMMA OwnedStep == MapTypes /\ Owned /\ [Next]_vars => Owned'
<1> SUFFICES ASSUME MapTypes, Owned, [Next]_vars
             PROVE  Owned'
  OBVIOUS
<1>1. sockets \in [Socket -> SocketRow]
  BY DEF MapTypes
<1>2. CASE UNCHANGED sockets
  BY <1>2 DEF Owned
<1>3. ASSUME NEW s \in Socket, NEW w \in Worker, Connect(w, s)
      PROVE  Owned'
  BY <1>1, <1>3 DEF Connect, Owned
<1>4. ASSUME NEW s \in Socket, ConnectionLost(s)
      PROVE  Owned'
  <2>1. sockets' = [sockets EXCEPT ![s].alive = FALSE]
    BY <1>4 DEF ConnectionLost
  <2>2. \A r \in Socket : /\ sockets'[r].worker = sockets[r].worker
                          /\ sockets'[r].alive => sockets[r].alive
    BY <1>1, <2>1 DEF SocketRow
  <2>3. QED  BY <2>2 DEF Owned
<1>5. ASSUME NEW s \in Socket, Handler(s)
      PROVE  Owned'
  <2>1. \E h \in {"hello", "ended", "loop"} : sockets' = [sockets EXCEPT ![s].handler = h]
    BY <1>5 DEF Handler, Accepted, AcceptRaises, HelloSent, HandlerEnds
  <2>2. \A r \in Socket : /\ sockets'[r].worker = sockets[r].worker
                          /\ sockets'[r].alive => sockets[r].alive
    BY <1>1, <2>1 DEF SocketRow
  <2>3. QED  BY <2>2 DEF Owned
<1>6. QED
  BY <1>2, <1>3, <1>4, <1>5
     DEF Next, Pool, Client, Loop, Form, Dissolve, AskState, TaskStarts, SendReturns,
         SendRaises, vars

LEMMA BeliefStep == MapInv /\ Owned /\ BeliefInv /\ [Next]_vars => BeliefInv'
<1> SUFFICES ASSUME MapInv, Owned, BeliefInv, [Next]_vars
             PROVE  BeliefInv'
  OBVIOUS
<1> USE HubAssumption
<1>1. /\ told \in [Socket -> Cluster \cup {0, Unsure}]
      /\ sockets \in [Socket -> SocketRow]
      /\ connections \in [Worker -> 0..MaxSocket]
      /\ serves \in [Worker -> 0..formed] /\ formed \in 0..MaxCluster
      /\ running \in Seq(RunRow)
  BY DEF BeliefInv, BroadcastTypes, MapInv, MapTypes
<1>2. ASSUME NEW w \in Worker
      PROVE  serves[w] \in Cluster \cup {0}
  BY <1>1 DEF Cluster
<1>3. ASSUME NEW w \in Worker, connections[w] # 0
      PROVE  connections[w] \in Socket /\ sockets[connections[w]].worker = w
             /\ sockets[connections[w]].handler \in {"hello", "loop"}
  BY <1>1, <1>3 DEF MapInv, EntryHasHandler, Socket
<1>4. CASE UNCHANGED vars
  <2>1. UNCHANGED <<serves, formed, ready, running, connections, sockets, told>>
    BY <1>4 DEF vars, store
  <2>2. QED  BY <1>1, <2>1, QuietStepKeeps
<1>5. CASE TaskStarts
  BY <1>5, TaskStartsKeeps
<1>6. ASSUME NEW i \in DOMAIN running, SendReturns(i)
      PROVE  BeliefInv'
  <2>1. /\ SendNext(running[i].frame, SubSeq(running, 1, i - 1),
                    SubSeq(running, i + 1, Len(running)))
        /\ UNCHANGED <<serves, formed, ready, sockets>>
        /\ connections' = connections
    BY <1>6 DEF SendReturns, store
  <2>2. QED  BY <2>1, GoingOnKeeps
<1>7. ASSUME NEW i \in DOMAIN running, SendRaises(i)
      PROVE  BeliefInv'
  <2>1. /\ SendNext(running[i].frame, SubSeq(running, 1, i - 1),
                    SubSeq(running, i + 1, Len(running)))
        /\ UNCHANGED <<serves, formed, ready, sockets>>
        /\ connections' = [connections EXCEPT ![running[i].worker] = 0]
    BY <1>7 DEF SendRaises, store
  <2>2. \A w \in Worker : connections'[w] \in {0, connections[w]}
    BY <1>1, <2>1
  <2>3. QED  BY <2>1, <2>2, GoingOnKeeps
<1>8. ASSUME NEW s \in Socket, NEW w \in Worker, Connect(w, s)
      PROVE  BeliefInv'
  <2>1. /\ UNCHANGED <<serves, formed, ready, running, connections, told>>
        /\ sockets[s] = NoSocket
        /\ sockets' = [sockets EXCEPT
             ![s] = [worker |-> w, handler |-> "accept", alive |-> TRUE]]
    BY <1>8 DEF Connect, store
  <2>2. ASSUME NEW v \in Worker, NEW r \in Socket, connections[v] = r
        PROVE  sockets'[r] = sockets[r]
    <3>1. r # 0 /\ sockets[r].handler # "none"
      BY <1>3, <2>2 DEF Socket
    <3>2. r # s
      BY <2>1, <3>1 DEF NoSocket
    <3>3. QED  BY <1>1, <2>1, <3>2
  <2>3. QED  BY <1>1, <2>1, <2>2, QuietStepKeeps
<1>9. ASSUME NEW s \in Socket, ConnectionLost(s)
      PROVE  BeliefInv'
  <2>1. /\ UNCHANGED <<serves, formed, ready, running, connections>>
        /\ sockets' = [sockets EXCEPT ![s].alive = FALSE]
        /\ told' = [told EXCEPT ![s] = 0]
    BY <1>9 DEF ConnectionLost, store
  <2>2. told' \in [Socket -> Cluster \cup {0, Unsure}]
    BY <1>1, <2>1
  <2>3. ASSUME NEW r \in Socket, sockets'[r].alive
        PROVE  r # s /\ sockets[r].alive /\ told'[r] = told[r]
    BY <1>1, <2>1, <2>3 DEF SocketRow
  <2>4. QED  BY <2>1, <2>2, <2>3, QuietStepKeeps
<1>10. ASSUME NEW s \in Socket, AskState(s)
       PROVE  BeliefInv'
  <2>1. /\ UNCHANGED <<serves, formed, ready, running, connections, sockets>>
        /\ sockets[s].alive
        /\ told' = [told EXCEPT ![s] = serves[sockets[s].worker]]
    BY <1>10 DEF AskState, store
  <2>2. sockets[s].worker \in Worker
    BY <2>1 DEF Owned
  <2>3. told' \in [Socket -> Cluster \cup {0, Unsure}]
    BY <1>1, <1>2, <2>1, <2>2
  <2>4. ASSUME NEW w \in Worker, NEW r \in Socket, connections[w] = r
        PROVE  told'[r] = told[r] \/ told'[r] = serves[w]
    BY <1>1, <1>3, <2>1, <2>4 DEF Socket
  <2>5. QED  BY <2>1, <2>3, <2>4, QuietStepKeeps
<1>11. ASSUME NEW s \in Socket, Accepted(s)
       PROVE  BeliefInv'
  <2> DEFINE w == sockets[s].worker
  <2>1. /\ UNCHANGED <<serves, formed, ready, running>>
        /\ connections' = [connections EXCEPT ![w] = s]
        /\ sockets' = [sockets EXCEPT ![s].handler = "hello"]
        /\ told' = [told EXCEPT ![s] = IF sockets[s].alive /\ serves[w] # 0
                                       THEN Unsure ELSE 0]
        /\ sockets[s].handler = "accept"
    BY <1>11 DEF Accepted, store
  <2>2. told' \in [Socket -> Cluster \cup {0, Unsure}]
    BY <1>1, <2>1
  <2>3. ASSUME NEW v \in Worker, NEW r \in Socket, connections'[v] = r, sockets'[r].alive
        PROVE  \/ connections[v] = r /\ sockets[r].alive /\ told'[r] = told[r]
               \/ told'[r] \in {serves[v], Unsure}
    <3>1. CASE r = s
      <4>1. connections[v] # s
        BY <1>3, <2>1 DEF Socket
      <4>2. v = w
        BY <1>1, <2>1, <2>3, <3>1, <4>1
      <4>3. sockets[s].alive
        BY <1>1, <2>1, <2>3, <3>1 DEF SocketRow
      <4>4. QED  BY <1>1, <2>1, <3>1, <4>2, <4>3
    <3>2. CASE r # s
      BY <1>1, <2>1, <2>3, <3>2
    <3>3. QED  BY <3>1, <3>2
  <2>4. QED  BY <2>1, <2>2, <2>3, QuietStepKeeps
<1>12. ASSUME NEW s \in Socket, AcceptRaises(s) \/ HelloSent(s) \/ HandlerEnds(s)
       PROVE  BeliefInv'
  <2>1. /\ UNCHANGED <<serves, formed, ready, running, told>>
        /\ \E h \in {"ended", "loop"} : sockets' = [sockets EXCEPT ![s].handler = h]
        /\ \/ connections' = connections
           \/ connections' = [connections EXCEPT ![sockets[s].worker] = 0]
    BY <1>12 DEF AcceptRaises, HelloSent, HandlerEnds, store
  <2>2. \A r \in Socket : sockets'[r].alive <=> sockets[r].alive
    BY <1>1, <2>1 DEF SocketRow
  <2>3. \A w \in Worker, r \in Socket : connections'[w] = r => connections[w] = r
    BY <1>1, <2>1 DEF Socket
  <2>4. QED  BY <1>1, <2>1, <2>2, <2>3, QuietStepKeeps
<1>13. ASSUME NEW S \in SUBSET Worker, Form(S)
       PROVE  BeliefInv'
  BY <1>13, FormKeeps
<1>14. ASSUME NEW c \in Cluster, NEW again \in BOOLEAN, Dissolve(c, again)
       PROVE  BeliefInv'
  BY <1>14, DissolveKeeps
<1>15. QED
  BY <1>4, <1>5, <1>6, <1>7, <1>8, <1>9, <1>10, <1>11, <1>12, <1>13, <1>14
     DEF Next, Pool, Client, Loop, Handler

\* When no broadcast is left, a client whose socket is the one in the map
\* believes what the store says of its worker, or knows that it has yet to ask:
\* whatever frames overtook its hello, and however late a cluster's end came.
THEOREM BeliefsConverge == Spec => []BeliefConverges
<1>1. MapInv /\ BeliefInv => BeliefConverges
  <2> SUFFICES ASSUME MapInv, BeliefInv, ready = <<>>, running = <<>>,
                      NEW s \in Socket, sockets[s].alive, sockets[s].worker # 0,
                      connections[sockets[s].worker] = s
               PROVE  told[s] \in {serves[sockets[s].worker], Unsure}
    BY DEF BeliefConverges
  <2>1. PICK w \in Worker : w = sockets[s].worker
    BY DEF MapInv, MapTypes, SocketRow
  <2>2. \A c \in Cluster :
          /\ told[s] = c => serves[w] = c
          /\ serves[w] = c => told[s] \in {c, Unsure}
    BY <2>1 DEF BeliefInv, BeliefIsDue, EndIsDue
  <2>3. /\ told[s] \in Cluster \cup {0, Unsure}
        /\ serves[w] \in Cluster \cup {0}
    BY HubAssumption DEF BeliefInv, BroadcastTypes, Cluster
  <2>4. QED  BY <2>1, <2>2, <2>3
<1>2. Init => Owned
  BY DEF Init, Owned, NoSocket
<1>3. MapInv => MapTypes
  BY DEF MapInv
<1>4. QED
  BY <1>1, <1>2, <1>3, MapInit, MapStep, OwnedStep, BeliefInit, BeliefStep, PTL DEF Spec
=============================================================================
