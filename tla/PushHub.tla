------------------------------ MODULE PushHub ------------------------------
(***************************************************************************)
(* The push channel: the sockets workers open, the hub's map from workers   *)
(* to sockets, and the broadcasts the scheduler leaves to tasks of the      *)
(* event loop.                                                             *)
(*                                                                         *)
(* Unlike the request handlers these coroutines do suspend, in accept and   *)
(* in every send, and any other may run meanwhile.  One action is what a    *)
(* coroutine does from one await to the next.  Tasks start in the order     *)
(* they were created in; frames reach a socket in the order in which their  *)
(* sends were started.                                                     *)
(*                                                                         *)
(* A client believes what it is told: the hello frame tells it whether it   *)
(* is assigned, and if so it asks GET /state which cluster; an assigned     *)
(* frame names its cluster; a dissolved frame ends that cluster, if it is   *)
(* the one the client is in.                                               *)
(***************************************************************************)
EXTENDS Integers, Sequences, FiniteSets, FiniteSetsExt, SequencesExt

CONSTANTS
  Worker,      \* worker ids, numbered in ring order
  MaxCluster,  \* bound: clusters formed
  MaxSocket,   \* bound: sockets opened
  MaxPending   \* bound: broadcasts that have not ended

ASSUME HubAssumption ==
  /\ Worker \subseteq Nat /\ IsFiniteSet(Worker)
  /\ MaxCluster \in Nat
  /\ MaxSocket \in Nat
  /\ MaxPending \in Nat

Cluster == 1..MaxCluster
Socket == 1..MaxSocket

VARIABLES
  serves,       \* serves[w]: the cluster of w's row, 0 for none
  formed,       \* clusters formed so far
  ready,        \* broadcasts whose task has not started, in order
  running,      \* broadcasts suspended in a send, in order
  connections,  \* hub._connections: the socket of a worker, 0 for none
  sockets,      \* the sockets and where their handlers stand
  told          \* told[s]: the cluster the client on s believes in

store == <<serves, formed>>
vars == <<store, ready, running, connections, sockets, told>>

Unsure == -1  \* the client knows it is assigned and has not asked where to

NoSocket == [worker |-> 0, handler |-> "none", alive |-> FALSE]

Listening(s) == sockets[s].alive /\ sockets[s].handler = "loop"

-----------------------------------------------------------------------------
(* The scheduler.                                                           *)

Frame(type, c, to) == [type |-> type, cluster |-> c, to |-> to]

\* The workers of S in ring order.
InRing(S) ==
  [i \in 1..Cardinality(S) |-> CHOOSE w \in S : Cardinality({v \in S : v <= w}) = i]

\* A cluster is formed, with a broadcast for each member.
Form(S) ==
  LET c == formed + 1 IN
  /\ c \in Cluster
  /\ S # {}
  /\ \A w \in S : serves[w] = 0
  /\ formed' = c
  /\ serves' = [w \in Worker |-> IF w \in S THEN c ELSE serves[w]]
  /\ ready' = ready \o [i \in 1..Cardinality(S) |->
                          Frame("assigned", c, <<InRing(S)[i]>>)]
  /\ Len(ready') + Len(running) <= MaxPending
  /\ UNCHANGED <<running, connections, sockets, told>>

\* (mutant) the members are looked up after their rows have been cleared.
DissolveUnaddressed(c, again) ==
  /\ \E w \in Worker : serves[w] = c
  /\ serves' = [w \in Worker |-> IF serves[w] = c THEN 0 ELSE serves[w]]
  /\ ready' = Append(ready, Frame("dissolved", c, InRing({w \in Worker : serves'[w] = c})))
  /\ UNCHANGED <<formed, running, connections, sockets, told>>

\* A cluster is dissolved, with one broadcast to all its members; a sweep
\* that finds two of them silent dissolves it again.
Dissolve(c, again) ==
  LET members == {w \in Worker : serves[w] = c}
      frame == Frame("dissolved", c, InRing(members))
  IN /\ members # {}
     /\ serves' = [w \in Worker |-> IF w \in members THEN 0 ELSE serves[w]]
     /\ ready' = ready \o (IF again THEN <<frame, frame>> ELSE <<frame>>)
     /\ Len(ready') + Len(running) <= MaxPending
     /\ UNCHANGED <<formed, running, connections, sockets, told>>

-----------------------------------------------------------------------------
(* The client, as far as its frames go.                                     *)

Heard(belief, frame) ==
  IF frame.type = "assigned" THEN frame.cluster
  ELSE IF belief = frame.cluster THEN 0
  ELSE belief

AskState(s) ==
  /\ sockets[s].alive
  /\ told[s] = Unsure
  /\ told' = [told EXCEPT ![s] = serves[sockets[s].worker]]
  /\ UNCHANGED <<store, ready, running, connections, sockets>>

-----------------------------------------------------------------------------
(* Broadcasts.                                                              *)

\* What is left to send once the members without a socket are passed over.
Reachable(to) ==
  LET connected == {i \in 1..Len(to) : connections[to[i]] # 0} IN
  IF connected = {} THEN <<>> ELSE SubSeq(to, Min(connected), Len(to))

\* The send to the next member with a socket starts, unless there is none:
\* others are the broadcasts suspended before and after this one.
SendNext(frame, before, after) ==
  LET to == Reachable(frame.to) IN
  IF to = <<>>
  THEN running' = before \o after /\ UNCHANGED told
  ELSE LET s == connections[Head(to)] IN
       /\ running' = before \o <<[frame |-> [frame EXCEPT !.to = Tail(to)],
                                  worker |-> Head(to), socket |-> s]>> \o after
       /\ told' = IF sockets[s].alive
                  THEN [told EXCEPT ![s] = Heard(@, frame)]
                  ELSE told

TaskStarts ==
  /\ ready # <<>>
  /\ ready' = Tail(ready)
  /\ SendNext(Head(ready), running, <<>>)
  /\ UNCHANGED <<store, connections, sockets>>

\* The send that broadcast i waits for returns.
SendReturns(i) ==
  /\ SendNext(running[i].frame, SubSeq(running, 1, i - 1),
              SubSeq(running, i + 1, Len(running)))
  /\ UNCHANGED <<store, ready, connections, sockets>>

\* It raises, and the worker is disconnected, whatever its socket is by now.
SendRaises(i) ==
  /\ ~sockets[running[i].socket].alive
  /\ connections' = [connections EXCEPT ![running[i].worker] = 0]
  /\ SendNext(running[i].frame, SubSeq(running, 1, i - 1),
              SubSeq(running, i + 1, Len(running)))
  /\ UNCHANGED <<store, ready, sockets>>

-----------------------------------------------------------------------------
(* The WebSocket endpoint.                                                  *)

\* A worker whose last socket is gone opens the next one.
Connect(w, s) ==
  /\ \A r \in Socket : sockets[r].worker = w => ~sockets[r].alive
  /\ sockets[s] = NoSocket
  /\ \A r \in Socket : r < s => sockets[r] # NoSocket
  /\ sockets' = [sockets EXCEPT
                   ![s] = [worker |-> w, handler |-> "accept", alive |-> TRUE]]
  /\ UNCHANGED <<store, ready, running, connections, told>>

\* hub.connect, then the start of send_hello: the state the frame carries is
\* read after the socket is in the map, without an await between.
Accepted(s) ==
  LET w == sockets[s].worker IN
  /\ sockets[s].handler = "accept"
  /\ connections' = [connections EXCEPT ![w] = s]
  /\ sockets' = [sockets EXCEPT ![s].handler = "hello"]
  /\ told' = [told EXCEPT ![s] = IF sockets[s].alive /\ serves[w] # 0
                                 THEN Unsure ELSE 0]
  /\ UNCHANGED <<store, ready, running>>

\* accept raises: the handler ends before its try block.
AcceptRaises(s) ==
  /\ sockets[s].handler = "accept"
  /\ ~sockets[s].alive
  /\ sockets' = [sockets EXCEPT ![s].handler = "ended"]
  /\ UNCHANGED <<store, ready, running, connections, told>>

\* The send of the hello frame returns, or raises.
HelloSent(s) ==
  /\ sockets[s].handler = "hello"
  /\ sockets' = [sockets EXCEPT ![s].handler = "loop"]
  /\ \/ UNCHANGED connections
     \/ ~sockets[s].alive /\ connections' = [connections EXCEPT ![sockets[s].worker] = 0]
  /\ UNCHANGED <<store, ready, running, told>>

\* The connection is lost.
ConnectionLost(s) ==
  /\ sockets[s].alive
  /\ sockets' = [sockets EXCEPT ![s].alive = FALSE]
  /\ told' = [told EXCEPT ![s] = 0]
  /\ UNCHANGED <<store, ready, running, connections>>

\* (mutant) the handler returns without the finally block.
HandlerEndsSilently(s) ==
  /\ sockets[s].handler = "loop"
  /\ ~sockets[s].alive
  /\ sockets' = [sockets EXCEPT ![s].handler = "ended"]
  /\ UNCHANGED <<store, ready, running, connections, told>>

\* The receive loop notices; the worker is disconnected, whatever its socket
\* is by now.
HandlerEnds(s) ==
  /\ sockets[s].handler = "loop"
  /\ ~sockets[s].alive
  /\ sockets' = [sockets EXCEPT ![s].handler = "ended"]
  /\ connections' = [connections EXCEPT ![sockets[s].worker] = 0]
  /\ UNCHANGED <<store, ready, running, told>>

-----------------------------------------------------------------------------

Init ==
  /\ serves = [w \in Worker |-> 0]
  /\ formed = 0
  /\ ready = <<>>
  /\ running = <<>>
  /\ connections = [w \in Worker |-> 0]
  /\ sockets = [s \in Socket |-> NoSocket]
  /\ told = [s \in Socket |-> 0]

Pool ==
  \/ \E S \in SUBSET Worker : Form(S)
  \/ \E c \in Cluster, again \in BOOLEAN : Dissolve(c, again)

Client ==
  \E s \in Socket :
    \/ \E w \in Worker : Connect(w, s)
    \/ ConnectionLost(s)
    \/ AskState(s)

\* What the event loop runs: every await comes to an end.
Loop ==
  \/ TaskStarts
  \/ \E i \in DOMAIN running : SendReturns(i) \/ SendRaises(i)

Handler(s) == Accepted(s) \/ AcceptRaises(s) \/ HelloSent(s) \/ HandlerEnds(s)

Next == Pool \/ Client \/ Loop \/ \E s \in Socket : Handler(s)

Spec == Init /\ [][Next]_vars

-----------------------------------------------------------------------------

\* Once the broadcasts are through, a client whose socket is the one in the
\* map believes what the store says, however its frames overtook each other
\* and whenever it connected: the hello frame and the frames after it leave
\* no gap, and a late dissolved frame does not end a newer cluster.
BeliefConverges ==
  ready = <<>> /\ running = <<>> =>
    \A s \in Socket :
      sockets[s].alive /\ sockets[s].worker # 0
        /\ connections[sockets[s].worker] = s
      => told[s] \in {serves[sockets[s].worker], Unsure}

\* The map does not keep a lost connection for ever: an entry is a socket of
\* its worker, and the socket's handler is still to come to the point where it
\* takes the entry away.
EntryHasHandler ==
  \A w \in Worker :
    connections[w] # 0 =>
      /\ sockets[connections[w]].worker = w
      /\ sockets[connections[w]].handler \in {"hello", "loop"}

\* docs/protocol/negotiation.md: the server pushes cluster_assigned to every
\* member over its WebSocket.  A member whose handler is in its receive loop
\* has one.
AssignedIsPushed ==
  [][\A s \in Socket :
       /\ ready # <<>>
       /\ ready' = Tail(ready)
       /\ Head(ready).type = "assigned"
       /\ Head(ready).to = <<sockets[s].worker>>
       /\ Listening(s)
       => told'[s] = Head(ready).cluster]_vars

-----------------------------------------------------------------------------
(* The inductive invariant of BeliefConverges.                              *)

FrameRow ==
  [type : {"assigned", "dissolved"}, cluster : Cluster, to : Seq(Worker)]

RunRow == [frame : FrameRow, worker : Worker, socket : Socket]

\* A broadcast under way is a dissolved frame, or an assigned one that has
\* been sent: its only member was the first.
BroadcastTypes ==
  /\ serves \in [Worker -> 0..formed] /\ formed \in 0..MaxCluster
  /\ ready \in Seq(FrameRow)
  /\ running \in Seq(RunRow)
  /\ told \in [Socket -> Cluster \cup {0, Unsure}]
  /\ \A k \in DOMAIN ready :
       /\ ready[k].cluster <= formed
       /\ ready[k].type = "assigned" => \E w \in Worker : ready[k].to = <<w>>
  /\ \A i \in DOMAIN running :
       /\ running[i].frame.cluster <= formed
       /\ running[i].frame.type = "assigned" => running[i].frame.to = <<>>

\* The k-th broadcast to start assigns w to c.
Assigns(k, w, c) ==
  ready[k].type = "assigned" /\ ready[k].cluster = c /\ ready[k].to = <<w>>

Ends(frame, w, c) ==
  frame.type = "dissolved" /\ frame.cluster = c /\ \E j \in DOMAIN frame.to : frame.to[j] = w

\* w is still to be told that c has ended.
EndIsDue(w, c) ==
  \/ \E k \in DOMAIN ready : Ends(ready[k], w, c)
  \/ \E i \in DOMAIN running : Ends(running[i].frame, w, c)

\* No worker is to be told of the end of the cluster it serves.
NoFalseEnd == \A w \in Worker, c \in Cluster : EndIsDue(w, c) => serves[w] # c

\* A frame that assigns a worker is followed by one that ends the cluster, unless
\* the worker serves it; and is, or is followed by, one that assigns the worker
\* to the cluster it serves.
QueueIsRight ==
  \A k \in DOMAIN ready, w \in Worker, c \in Cluster :
    Assigns(k, w, c) =>
      /\ serves[w] = c \/ \E j \in DOMAIN ready : j > k /\ Ends(ready[j], w, c)
      /\ \A d \in Cluster :
           serves[w] = d => \E j \in DOMAIN ready : j >= k /\ Assigns(j, w, d)

\* What a client in the map believes is true, or a frame is due that corrects it.
BeliefIsDue ==
  \A w \in Worker, s \in Socket, c \in Cluster :
    connections[w] = s /\ sockets[s].alive =>
      /\ told[s] = c /\ serves[w] # c => EndIsDue(w, c)
      /\ serves[w] = c /\ told[s] \notin {c, Unsure} =>
           \E k \in DOMAIN ready : Assigns(k, w, c)

BeliefInv == BroadcastTypes /\ NoFalseEnd /\ QueueIsRight /\ BeliefIsDue
=============================================================================
