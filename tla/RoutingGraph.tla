---------------------------- MODULE RoutingGraph ----------------------------
(***************************************************************************)
(* The routing graph of one control plane (Self) and the etcd keys it is   *)
(* built from.  Every control plane stores its telemetry under             *)
(* /routing/<ip> with a lease every 30 s; Self lists the prefix once, then *)
(* watches it, and answers routing requests from the graph.                *)
(*                                                                         *)
(* Abstractions: etcd is its key-value map and the ordered stream of       *)
(* events after the watch began.  A report is the cache risk of its node   *)
(* and the loss risk to the targets of its probes, as EdgeRisk scales      *)
(* them.  One search of Dijkstra is one step here; its own interleaving    *)
(* with AddNode is the subject of module Dijkstra.                         *)
(***************************************************************************)
EXTENDS EdgeRisk, FiniteSets, Sequences, SequencesExt

CONSTANTS
  Nodes, Self,   \* the control planes, by address, and the one modelled
  Stores,        \* cloud storage targets
  Provider, Continent,  \* where each node and store is
  Measurements,  \* what a report may hold: [cache, loss]
  Clients,       \* addresses routing is asked from, nodes or None
  MaxPending,    \* bound: events of the watch not yet handled
  None

ASSUME SelfAssumption == Self \in Nodes
ASSUME NodesAssumption == IsFiniteSet(Nodes)
ASSUME MaxPendingAssumption == MaxPending \in Nat \ {0}
ASSUME ReportsAssumption ==
  \A m \in Measurements :
    /\ m.cache \in Nat /\ DOMAIN m.loss \subseteq Nodes \cup Stores
    /\ \A t \in DOMAIN m.loss : m.loss[t] \in Nat
ASSUME ClientsAssumption == Clients \subseteq Nodes \cup {None}

VARIABLES
  alive,     \* the other control planes that run
  kv,        \* etcd: the report under each key
  phase,     \* of Self: "list", "load" or "watch"
  todo,      \* listed reports not yet added
  pending,   \* watch events not yet handled
  nodes, edges,  \* the GraphManager
  order,     \* history: pairs of the graph's nodes, the one added first first
  seen,      \* history: the keys written since the watch began
  req        \* the routing request being answered

etcdVars == <<alive, kv>>
graphVars == <<nodes, edges, order>>
vars == <<etcdVars, phase, todo, pending, graphVars, seen, req>>

Reports == {[ip |-> n, cache |-> m.cache, loss |-> m.loss] : n \in Nodes, m \in Measurements}
In(n) == <<n, 1>>
Out(n) == <<n, 2>>
Vertices == {In(n) : n \in Nodes} \cup {Out(n) : n \in Nodes} \cup Stores

(* The empty string is the name of nothing; ends of nodes have a suffix,   *)
(* which no store's name has.                                              *)
ASSUME NoneAssumption == None \notin Nodes \cup Vertices
ASSUME VerticesAssumption == \A n \in Nodes : In(n) \notin Stores /\ Out(n) \notin Stores

Price(from, to) == GetBandwidthPrice(Provider[from], Continent[from], Continent[to])
LossTo(r, target) == IF target \in DOMAIN r.loss THEN r.loss[target] ELSE 0

NoRequest == [pc |-> "idle"]

(* A map with an entry put into it, and without one of its keys. *)
With(f, key, val) == [k \in DOMAIN f \cup {key} |-> IF k = key THEN val ELSE f[k]]
Without(f, key) == [k \in DOMAIN f \ {key} |-> f[k]]

(* Self starts, for the first time or again: all it knew is gone, and etcd *)
(* holds what it holds.                                                    *)
Init ==
  /\ alive = Nodes \ {Self}
  /\ \E keys \in SUBSET Nodes : kv \in {f \in [keys -> Reports] : \A n \in keys : f[n].ip = n}
  /\ phase = "list"
  /\ todo = {} /\ pending = <<>>
  /\ nodes = <<>> /\ edges = <<>> /\ order = {}
  /\ seen = {}
  /\ req = NoRequest

-----------------------------------------------------------------------------
(* GraphManager.AddNode, under the graph's lock.                           *)

(* The pairs of the order without a node's. *)
OrderWithout(n) == {p \in order : n \notin {p[1], p[2]}}

(* The edges that a report is about.  Mutant: the way back to the reporter *)
(* keeps what was measured of it before.                                   *)
PeerEdgesKept(r, peers) ==
  {<<Out(r.ip), In(p)>> : p \in peers}
    \cup ({<<Out(p), In(r.ip)>> : p \in peers} \ DOMAIN edges)

(* Both directions between the reported node and every other node of the   *)
(* graph.                                                                  *)
PeerEdges(r, peers) ==
  {<<Out(r.ip), In(p)>> : p \in peers} \cup {<<Out(p), In(r.ip)>> : p \in peers}

VirtualEdge(r) == <<In(r.ip), Out(r.ip)>>
StorageEdges(r) == {<<Out(r.ip), s>> : s \in Stores \cap DOMAIN r.loss}

(* What they cost.  Both directions to a peer get the reporter's loss: the *)
(* other side's own measurement of the way back is commented out.          *)
PeerRisk(r, from, to) ==
  EdgeRisk(0, Price(from, to), LossTo(r, IF from = r.ip THEN to ELSE from))
RiskOf(r, e) ==
  CASE e = VirtualEdge(r)      -> EdgeRisk(r.cache, 0, 0)
    [] e \in StorageEdges(r)   -> EdgeRisk(0, Price(r.ip, e[2]), r.loss[e[2]])
    [] OTHER                   -> PeerRisk(r, e[1][1], e[2][1])

AddNode(r) ==
  LET new == {VirtualEdge(r)} \cup StorageEdges(r) \cup PeerEdges(r, DOMAIN nodes \ {r.ip})
  IN  /\ nodes' = With(nodes, r.ip, r)
      /\ edges' = [e \in new \cup DOMAIN edges |-> IF e \in new THEN RiskOf(r, e) ELSE edges[e]]
      /\ order' = OrderWithout(r.ip) \cup ((DOMAIN nodes \ {r.ip}) \X {r.ip})

(* RemoveNode(id): the ends of the edges carry a suffix, so none is that   *)
(* of a node's address and no edge goes.                                   *)
RemoveNode(id) ==
  /\ nodes' = Without(nodes, id)
  /\ edges' = [e \in {x \in DOMAIN edges : id \notin {x[1], x[2]}} |-> edges[e]]
  /\ order' = OrderWithout(id)

-----------------------------------------------------------------------------
(* etcd, and the control planes that write to it.                          *)

(* An event reaches Self if its watch has begun. *)
Emit(event) ==
  IF phase = "watch"
  THEN pending' = Append(pending, event) /\ seen' = seen \cup {event.ip}
  ELSE UNCHANGED <<pending, seen>>

CanEmit == phase # "watch" \/ Len(pending) < MaxPending

Put(n, r) ==
  /\ Emit([type |-> IF n \in DOMAIN kv THEN "UPDATE" ELSE "CREATE", ip |-> n, val |-> r])
  /\ kv' = With(kv, n, r)

(* The aggregation starts after the watch, in the same process. *)
Publishes(n) == n \in alive \/ (n = Self /\ phase = "watch")

Publish(n) ==
  /\ Publishes(n) /\ CanEmit
  /\ \E r \in Reports : r.ip = n /\ Put(n, r)
  /\ UNCHANGED <<alive, phase, todo, graphVars, req>>

(* The lease of 300 s ends: its node left, or ten puts of it failed.  The  *)
(* event of a deletion has no value.                                       *)
Expire(n) ==
  /\ n \in DOMAIN kv /\ CanEmit
  /\ kv' = Without(kv, n)
  /\ Emit([type |-> "DELETE", ip |-> n, val |-> None])
  /\ UNCHANGED <<alive, phase, todo, graphVars, req>>

Leave(n) ==
  /\ n \in alive
  /\ alive' = alive \ {n}
  /\ UNCHANGED <<kv, phase, todo, pending, graphVars, seen, req>>

Join(n) ==
  /\ n \notin alive /\ n # Self
  /\ alive' = alive \cup {n}
  /\ UNCHANGED <<kv, phase, todo, pending, graphVars, seen, req>>

-----------------------------------------------------------------------------
(* Self.                                                                   *)

(* GetPrefixAll; an error leaves the graph empty. *)
List ==
  /\ phase = "list"
  /\ phase' = "load"
  /\ todo' \in {{}, {kv[n] : n \in DOMAIN kv}}
  /\ UNCHANGED <<etcdVars, pending, graphVars, seen, req>>

(* The listed reports, in the order of a Go map. *)
Load(r) ==
  /\ phase = "load" /\ r \in todo
  /\ AddNode(r)
  /\ todo' = todo \ {r}
  /\ UNCHANGED <<etcdVars, phase, pending, seen, req>>

(* WatchPrefix: events from now on, whatever happened since the listing. *)
BeginWatch ==
  /\ phase = "load" /\ todo = {}
  /\ phase' = "watch"
  /\ UNCHANGED <<etcdVars, todo, pending, graphVars, seen, req>>

(* Mutant: only a key's first put is applied. *)
ApplyCreated(event) ==
  \/ event.type = "CREATE" /\ AddNode(event.val)
  \/ event.type = "UPDATE" /\ UNCHANGED graphVars
  \/ event.type = "DELETE" /\ RemoveNode(event.val)

(* HandleRoutingWatchEvent: the node to remove is the one of the event's   *)
(* value, which is empty.                                                  *)
Apply(event) ==
  \/ event.type \in {"CREATE", "UPDATE"} /\ AddNode(event.val)
  \/ event.type = "DELETE" /\ RemoveNode(event.val)

HandleEvent ==
  /\ pending # <<>>
  /\ Apply(Head(pending))
  /\ pending' = Tail(pending)
  /\ UNCHANGED <<etcdVars, phase, todo, seen, req>>

-----------------------------------------------------------------------------
(* GraphManager.Routing, for a client at node address ip (or elsewhere) in *)
(* a region, and a store.                                                  *)

(* The loop over the nodes in map order: it stops at the client's own      *)
(* node, keeping the nodes of the region it met before.                    *)
StartSets(ip, region) ==
  LET near == {n \in DOMAIN nodes \ {ip} : Continent[n] = region}
  IN  IF ip \in DOMAIN nodes THEN {before \cup {ip} : before \in SUBSET near} ELSE {near}

Ask(ip, region, store) ==
  /\ phase = "watch" /\ req.pc = "idle"
  /\ \E starts \in StartSets(ip, region) :
       /\ starts # {}
       /\ req' = [pc |-> "search", store |-> store, starts |-> starts,
                  hops |-> <<>>, cost |-> None]
  /\ UNCHANGED <<etcdVars, phase, todo, pending, graphVars, seen>>

HopLists == {h \in UNION {[1 .. k -> Nodes] : k \in 1 .. Cardinality(Nodes)} : IsInjective(h)}

HopEdges(h, store) ==
  {<<In(h[i]), Out(h[i])>> : i \in DOMAIN h}
    \cup {<<Out(h[i]), In(h[i + 1])>> : i \in 1 .. Len(h) - 1}
    \cup {<<Out(h[Len(h)]), store>>}

Risk(h, store) == MapThenSumSet(LAMBDA e : edges[e], HopEdges(h, store))

(* What Dijkstra(InNode(n), store) can return. *)
Shortest(n, store) ==
  LET routes == {h \in HopLists : h[1] = n /\ HopEdges(h, store) \subseteq DOMAIN edges}
  IN  {h \in routes : \A g \in routes : Risk(h, store) <= Risk(g, store)}

Cheaper(cost, best) == best = None \/ cost < best

SearchFrom(n) ==
  /\ req.pc = "search" /\ n \in req.starts
  /\ LET found == Shortest(n, req.store)
         rest == [req EXCEPT !.starts = @ \ {n}]
     IN  IF \E h \in found : Cheaper(Risk(h, req.store), req.cost)
         THEN \E h \in found : req' = [rest EXCEPT !.hops = h, !.cost = Risk(h, req.store)]
         ELSE req' = rest
  /\ UNCHANGED <<etcdVars, phase, todo, pending, graphVars, seen>>

(* The answer: the hops and the rate, or an empty RoutingInfo. *)
Answer ==
  /\ req.pc = "search" /\ req.starts = {}
  /\ req' = [pc |-> "done", hops |-> req.hops,
             rate |-> IF req.hops = <<>> THEN 0 ELSE ComputeAdmissionRate(req.cost)]
  /\ UNCHANGED <<etcdVars, phase, todo, pending, graphVars, seen>>

EndRequest ==
  /\ req.pc = "done"
  /\ req' = NoRequest
  /\ UNCHANGED <<etcdVars, phase, todo, pending, graphVars, seen>>

-----------------------------------------------------------------------------
Next ==
  \/ \E n \in Nodes : Publish(n) \/ Expire(n) \/ Leave(n) \/ Join(n)
  \/ List \/ BeginWatch \/ HandleEvent
  \/ \E r \in todo : Load(r)
  \/ \E ip \in Clients, region \in {Continent[n] : n \in Nodes}, store \in Stores :
       Ask(ip, region, store)
  \/ \E n \in Nodes : SearchFrom(n)
  \/ Answer \/ EndRequest

(* Self's goroutines run, and a node's puts, tried every 30 s, succeed     *)
(* again and again.                                                        *)
Fairness ==
  /\ WF_vars(List) /\ WF_vars(BeginWatch) /\ WF_vars(HandleEvent)
  /\ WF_vars(\E r \in todo : Load(r))
  /\ \A n \in Nodes : SF_vars(Publish(n))

Spec == Init /\ [][Next]_vars
FairSpec == Spec /\ Fairness

-----------------------------------------------------------------------------
TypeOK ==
  /\ alive \subseteq Nodes \ {Self}
  /\ DOMAIN kv \subseteq Nodes
  /\ \A n \in DOMAIN kv : kv[n] \in Reports /\ kv[n].ip = n
  /\ phase \in {"list", "load", "watch"}
  /\ todo \subseteq Reports
  /\ Len(pending) <= MaxPending
  /\ DOMAIN nodes \subseteq Nodes
  /\ \A n \in DOMAIN nodes : nodes[n] \in Reports /\ nodes[n].ip = n
  /\ DOMAIN edges \subseteq Vertices \X Vertices
  /\ \A e \in DOMAIN edges : edges[e] \in 0 .. One
  /\ order \subseteq (DOMAIN nodes) \X (DOMAIN nodes)
  /\ \A m, n \in DOMAIN nodes : m # n => (<<m, n>> \in order <=> <<n, m>> \notin order)
  /\ seen \subseteq Nodes
  /\ req.pc \in {"idle", "search", "done"}

(* Between any two nodes the graph has both edges, each at the price of    *)
(* its own sender, and both with the loss the node added last measured: no *)
(* older report shows through, in whatever order nodes were listed,        *)
(* watched and re-added.                                                   *)
PeerEdgesFresh ==
  \A p \in order :
    LET old == p[1]
        new == p[2]
        loss == LossTo(nodes[new], old)
        Fresh(from, to) ==
          /\ <<Out(from), In(to)>> \in DOMAIN edges
          /\ edges[<<Out(from), In(to)>>] = EdgeRisk(0, Price(from, to), loss)
    IN  Fresh(old, new) /\ Fresh(new, old)

(* A key written since the watch began is never lost or applied out of     *)
(* order: the last event pending for it, or else the graph, holds what     *)
(* etcd holds.                                                             *)
WatchKeepsUp ==
  phase = "watch" =>
    \A n \in seen \cap DOMAIN kv :
      LET puts == {i \in DOMAIN pending : pending[i].ip = n /\ pending[i].type # "DELETE"}
      IN  IF puts = {} THEN n \in DOMAIN nodes /\ nodes[n] = kv[n]
          ELSE kv[n] = pending[CHOOSE i \in puts : \A j \in puts : j <= i].val

(* A route that is found is granted a rate of the task's range: a rate of  *)
(* 0 gives the client's limiter a burst of 0, with which no read succeeds. *)
RouteHasRate ==
  (req.pc = "done" /\ req.hops # <<>>) => req.rate \in MinRate .. MaxRate

(* A control plane that keeps running is known to Self in the end, also if *)
(* its first report fell between the listing and the watch.                *)
NodeAppears ==
  \A n \in Nodes \ {Self} : <>[](n \in alive) => <>[](n \in DOMAIN nodes)

=============================================================================
