------------------------- MODULE RoutingGraphProofs -------------------------
(***************************************************************************)
(* Proofs about RoutingGraph, for any nodes, stores, prices, reports and   *)
(* bound of the watch: the type invariant, that the edges between peers    *)
(* are fresh, that the watch keeps up with etcd, and that a route that is  *)
(* found has a rate.                                                       *)
(***************************************************************************)
EXTENDS RoutingGraph, SequenceTheorems, FiniteSetTheorems, WellFoundedInduction, TLAPS

(* What the watch may deliver: a report under its node's key, or that the  *)
(* key is gone.                                                            *)
Events ==
  {e \in [type : {"CREATE", "UPDATE", "DELETE"}, ip : Nodes, val : Reports \cup {None}] :
     IF e.type = "DELETE" THEN e.val = None ELSE e.val \in Reports /\ e.val.ip = e.ip}

EventsOK ==
  /\ pending \in Seq(Events)
  /\ phase # "watch" => pending = <<>> /\ seen = {}

RequestOK == "pc" \in DOMAIN req

(* The last event pending for a key says what etcd holds under it, and a   *)
(* key without one is in the graph as etcd holds it, if it was written     *)
(* since the watch began.                                                  *)
LastOfKey(i) == \A j \in DOMAIN pending : j > i => pending[j].ip # pending[i].ip
Says(event) ==
  IF event.type = "DELETE" THEN event.ip \notin DOMAIN kv
  ELSE event.ip \in DOMAIN kv /\ kv[event.ip] = event.val
WatchInv ==
  /\ \A i \in DOMAIN pending : LastOfKey(i) => Says(pending[i])
  /\ \A n \in seen : /\ \A i \in DOMAIN pending : pending[i].ip # n
                     /\ n \in DOMAIN kv
                     => n \in DOMAIN nodes /\ nodes[n] = kv[n]

(* The part of the type invariant about the graph; no node was added      *)
(* before itself.                                                          *)
GraphOK ==
  /\ DOMAIN nodes \subseteq Nodes
  /\ \A n \in DOMAIN nodes : nodes[n] \in Reports /\ nodes[n].ip = n
  /\ DOMAIN edges \subseteq Vertices \X Vertices
  /\ \A e \in DOMAIN edges : edges[e] \in 0 .. One
  /\ order \subseteq (DOMAIN nodes) \X (DOMAIN nodes)
  /\ \A m, n \in DOMAIN nodes : m # n => (<<m, n>> \in order <=> <<n, m>> \notin order)
  /\ \A n \in DOMAIN nodes : <<n, n>> \notin order

IInv == TypeOK /\ GraphOK /\ EventsOK /\ RequestOK /\ PeerEdgesFresh /\ WatchInv

-----------------------------------------------------------------------------
(* Prices and risks.                                                       *)

LEMMA PriceType ==
  ASSUME NEW provider, NEW src, NEW dst
  PROVE  GetBandwidthPrice(provider, src, dst) \in 0..U
<1> DEFINE keys == PriceKeys(provider, src, dst)
           hits == {i \in DOMAIN keys : keys[i] \in DOMAIN PriceTable[provider]}
           best == CHOOSE i \in hits : \A j \in hits : i <= j
<1>1. DOMAIN keys \subseteq 1..3
  BY DEF PriceKeys
<1>2. CASE provider \notin DOMAIN PriceTable \/ keys = <<>> \/ hits = {}
  BY <1>2 DEF GetBandwidthPrice, U
<1>3. CASE provider \in DOMAIN PriceTable /\ keys # <<>> /\ hits # {}
  <2>1. hits \subseteq 1..3
    BY <1>1
  <2>2. \E i \in hits : \A j \in hits : i <= j
    <3> HIDE DEF hits
    <3>1. 1 \in hits \/ (1 \notin hits /\ 2 \in hits)
             \/ (1 \notin hits /\ 2 \notin hits /\ 3 \in hits)
      <4>1. PICK h \in hits : TRUE
        BY <1>3
      <4> QED
        BY <2>1, <4>1
    <3> QED
      BY <2>1, <3>1
  <2>3. best \in hits
    <3> HIDE DEF hits
    <3> QED
      BY <2>2
  <2>4. keys[best] \in DOMAIN PriceTable[provider]
    BY <2>3
  <2>5. PriceTable[provider][keys[best]] \in 0..U
    BY <1>3, <2>4, PriceAssumption
  <2>6. GetBandwidthPrice(provider, src, dst) = PriceTable[provider][keys[best]]
    BY <1>3, Zenon DEF GetBandwidthPrice
  <2> QED
    BY <2>5, <2>6
<1> QED
  BY <1>2, <1>3

(* Factors of a product in their order.                                    *)
LEMMA ProductBound ==
  ASSUME NEW a \in Int, NEW b \in Nat, NEW c \in Nat, a >= 0, b <= c
  PROVE  a * b \in Nat /\ a * b <= a * c
OBVIOUS

LEMMA EdgeRiskType ==
  ASSUME NEW cache \in Nat, NEW cost \in 0..U, NEW loss \in Nat
  PROVE  EdgeRisk(cache, cost, loss) \in 0..One
<1> DEFINE core == CoreRisk(cache, loss)
           weighted == CostWeight(core) * cost
           total == core * Core * U + (Core - core) * CostWeight(core) * cost
<1>0. One \in Nat /\ U \in Nat
  BY DEF One, Core, U
<1>1. U = 10 /\ Core = 400 /\ One = 400 * 400 * 10
  BY DEF U, Core, One
<1>2. EdgeRisk(cache, cost, loss) = IF loss >= U \/ total > One THEN One ELSE total
  BY Zenon DEF EdgeRisk
<1>3. CASE loss < U /\ ~(total > One)
  <2>1. core = 400 - (20 - cache) * (20 - loss)
    BY <1>1 DEF CoreRisk
  <2>2. core \in Int /\ core >= 0
    <3>1. (20 - loss) \in 0..20
      BY <1>1, <1>3
    <3>2. CASE cache <= 20
      <4>1. (20 - cache) \in 0..20
        BY <3>2
      <4>2. (20 - cache) * (20 - loss) <= (20 - cache) * 20
        BY <3>1, <4>1, ProductBound
      <4> QED
        BY <2>1, <3>1, <4>1, <4>2
    <3>3. CASE cache > 20
      <4>1. (cache - 20) * (20 - loss) \in Nat
        BY <3>1, <3>3, ProductBound
      <4>2. (20 - cache) * (20 - loss) = -((cache - 20) * (20 - loss))
        BY <3>1
      <4> QED
        BY <2>1, <4>1, <4>2
    <3> QED
      BY <3>2, <3>3
  <2>3. CostWeight(core) \in 160..240
    BY <1>1, <2>2 DEF CostWeight
  <2>4. weighted \in 0..2400
    <3> DEFINE w == CostWeight(core)
    <3>1. w \in 160..240
      BY <2>3
    <3> HIDE DEF w
    <3>2. w * cost \in Nat /\ w * cost <= w * 10
      BY <1>1, <3>1, ProductBound
    <3> QED
      BY <3>1, <3>2 DEF w
  <2>5. total = core * 4000 + (400 - core) * weighted
    <3> DEFINE w == CostWeight(core)
    <3>1. w \in Int
      BY <2>3
    <3> HIDE DEF core, w
    <3>2. total = core * 400 * 10 + (400 - core) * w * cost
      BY <1>1 DEF w
    <3>3. (400 - core) * w * cost = (400 - core) * (w * cost)
      BY <1>1, <2>2, <3>1
    <3> QED
      BY <2>2, <3>2, <3>3 DEF w
  <2>6. total \in Int /\ total >= 0
    <3> HIDE DEF core, weighted, total
    <3>1. CASE core <= 400
      <4>1. (400 - core) * weighted \in Nat
        BY <2>2, <2>4, <3>1, ProductBound
      <4> QED
        BY <2>2, <2>5, <4>1
    <3>2. CASE core > 400
      <4>1. (core - 400) * weighted <= (core - 400) * 2400
        BY <2>2, <2>4, <3>2, ProductBound, SMTT(30)
      <4>2. (400 - core) * weighted = -((core - 400) * weighted)
        BY <2>2, <2>4
      <4>3. (core - 400) * weighted \in Int
        BY <2>2, <2>4
      <4> QED
        BY <2>2, <2>5, <4>1, <4>2, <4>3
    <3> QED
      BY <2>2, <3>1, <3>2
  <2> HIDE DEF total
  <2>7. EdgeRisk(cache, cost, loss) = total
    BY <1>1, <1>2, <1>3
  <2>8. total <= One
    BY <1>1, <1>3, <2>6
  <2> QED
    BY <1>0, <2>6, <2>7, <2>8
<1>4. CASE loss >= U \/ total > One
  <2> HIDE DEF total
  <2> QED
    BY <1>0, <1>2, <1>4
<1> QED
  <2> HIDE DEF total
  <2>1. loss >= U \/ loss < U
    BY <1>1
  <2> QED
    BY <1>3, <1>4, <2>1

-----------------------------------------------------------------------------
(* Names and reports.                                                      *)

LEMMA Vertex ==
  ASSUME NEW m, NEW n
  PROVE  /\ In(m)[1] = m /\ Out(m)[1] = m
         /\ In(m) = In(n) => m = n
         /\ Out(m) = Out(n) => m = n
         /\ In(m) # Out(n)
BY DEF In, Out

LEMMA ReportType ==
  ASSUME NEW r \in Reports
  PROVE  /\ r.ip \in Nodes /\ r.cache \in Nat
         /\ DOMAIN r.loss \subseteq Nodes \cup Stores
         /\ \A t \in DOMAIN r.loss : r.loss[t] \in Nat
         /\ \A t : LossTo(r, t) \in Nat
<1>1. PICK n \in Nodes, m \in Measurements : r = [ip |-> n, cache |-> m.cache, loss |-> m.loss]
  BY DEF Reports
<1>2. r.ip = n /\ r.cache = m.cache /\ r.loss = m.loss
  BY <1>1
<1> QED
  BY <1>2, ReportsAssumption DEF LossTo

LEMMA RiskType ==
  ASSUME NEW r \in Reports, NEW e
  PROVE  RiskOf(r, e) \in 0..One
<1>1. 0 \in 0..U /\ 0 \in Nat
  BY DEF U
<1>2. EdgeRisk(r.cache, 0, 0) \in 0..One
  BY <1>1, ReportType, EdgeRiskType
<1>3. CASE e \in StorageEdges(r)
  <2>1. PICK s \in Stores \cap DOMAIN r.loss : e = <<Out(r.ip), s>>
    BY <1>3 DEF StorageEdges
  <2>2. e[2] = s
    BY <2>1
  <2>3. EdgeRisk(0, Price(r.ip, e[2]), r.loss[e[2]]) \in 0..One
    BY <1>1, <2>2, ReportType, PriceType, EdgeRiskType DEF Price
  <2> QED
    BY <1>2, <1>3, <2>3, Zenon DEF RiskOf
<1>4. CASE e \notin StorageEdges(r)
  <2>1. PeerRisk(r, e[1][1], e[2][1]) \in 0..One
    BY <1>1, ReportType, PriceType, EdgeRiskType DEF Price, PeerRisk
  <2> QED
    BY <1>2, <1>4, <2>1, Zenon DEF RiskOf
<1> QED
  BY <1>3, <1>4

-----------------------------------------------------------------------------
(* AddNode and RemoveNode.                                                 *)

(* One direction between two nodes at a loss.                              *)
FreshAt(from, to, loss) ==
  /\ <<Out(from), In(to)>> \in DOMAIN edges
  /\ edges[<<Out(from), In(to)>>] = EdgeRisk(0, Price(from, to), loss)

NewEdges(r) == {VirtualEdge(r)} \cup StorageEdges(r) \cup PeerEdges(r, DOMAIN nodes \ {r.ip})

LEMMA FreshDef ==
  PeerEdgesFresh <=>
    \A p \in order : /\ FreshAt(p[1], p[2], LossTo(nodes[p[2]], p[1]))
                      /\ FreshAt(p[2], p[1], LossTo(nodes[p[2]], p[1]))
BY Zenon DEF PeerEdgesFresh, FreshAt

LEMMA AddNodeNodes ==
  ASSUME GraphOK, NEW r \in Reports, AddNode(r)
  PROVE  /\ DOMAIN nodes' = DOMAIN nodes \cup {r.ip}
         /\ nodes'[r.ip] = r
         /\ \A n \in DOMAIN nodes : n # r.ip => nodes'[n] = nodes[n]
BY DEF AddNode, With

LEMMA AddNodeEdges ==
  ASSUME NEW r \in Reports, AddNode(r)
  PROVE  /\ DOMAIN edges' = NewEdges(r) \cup DOMAIN edges
         /\ \A e \in NewEdges(r) : edges'[e] = RiskOf(r, e)
         /\ \A e \in DOMAIN edges \ NewEdges(r) : edges'[e] = edges[e]
<1>1. edges' = [e \in NewEdges(r) \cup DOMAIN edges |->
                  IF e \in NewEdges(r) THEN RiskOf(r, e) ELSE edges[e]]
  BY Zenon DEF AddNode, NewEdges
<1> QED
  BY <1>1

LEMMA PeerRiskOf ==
  ASSUME NEW r \in Reports, NEW a \in Nodes, NEW b \in Nodes
  PROVE  RiskOf(r, <<Out(a), In(b)>>) =
           EdgeRisk(0, Price(a, b), LossTo(r, IF a = r.ip THEN b ELSE a))
<1> DEFINE e == <<Out(a), In(b)>>
<1>1. e[1][1] = a /\ e[2][1] = b
  BY Vertex
<1>2. e # VirtualEdge(r)
  BY Vertex DEF VirtualEdge
<1>3. e \notin StorageEdges(r)
  BY VerticesAssumption DEF StorageEdges
<1>4. RiskOf(r, e) = PeerRisk(r, e[1][1], e[2][1])
  <2> HIDE DEF e
  <2> QED
    BY <1>2, <1>3, Zenon DEF RiskOf
<1> QED
  BY <1>1, <1>4, Zenon DEF PeerRisk

(* Which edges between two nodes a report is about.                        *)
LEMMA PeerNewEdges ==
  ASSUME NEW r \in Reports, NEW a \in Nodes, NEW b \in Nodes, a # b
  PROVE  <<Out(a), In(b)>> \in NewEdges(r) <=>
           \/ a = r.ip /\ b \in DOMAIN nodes
           \/ b = r.ip /\ a \in DOMAIN nodes
<1> DEFINE e == <<Out(a), In(b)>>
<1>1. e # VirtualEdge(r) /\ e \notin StorageEdges(r)
  BY Vertex, VerticesAssumption DEF VirtualEdge, StorageEdges
<1>2. e \in NewEdges(r) <=> e \in PeerEdges(r, DOMAIN nodes \ {r.ip})
  BY <1>1, Zenon DEF NewEdges
<1>3. e \in PeerEdges(r, DOMAIN nodes \ {r.ip}) <=>
        \E p \in DOMAIN nodes \ {r.ip} : e = <<Out(r.ip), In(p)>> \/ e = <<Out(p), In(r.ip)>>
  BY DEF PeerEdges
<1>4. \A m, n : e = <<Out(m), In(n)>> <=> a = m /\ b = n
  BY Vertex
<1> HIDE DEF e
<1>5. e \in NewEdges(r) <=>
        \E p \in DOMAIN nodes \ {r.ip} : (a = r.ip /\ b = p) \/ (a = p /\ b = r.ip)
  BY <1>2, <1>3, <1>4
<1> QED
  BY <1>5 DEF e

LEMMA AddNodeInv ==
  ASSUME GraphOK, PeerEdgesFresh, NEW r \in Reports, AddNode(r)
  PROVE  GraphOK' /\ PeerEdgesFresh'
<1>1. r.ip \in Nodes
  BY ReportType
<1>2. /\ DOMAIN nodes' = DOMAIN nodes \cup {r.ip} /\ nodes'[r.ip] = r
      /\ \A n \in DOMAIN nodes : n # r.ip => nodes'[n] = nodes[n]
  BY AddNodeNodes
<1>3. order' = {p \in order : r.ip \notin {p[1], p[2]}} \cup ((DOMAIN nodes \ {r.ip}) \X {r.ip})
  BY DEF AddNode, OrderWithout
<1>4. /\ DOMAIN nodes' \subseteq Nodes
      /\ \A n \in DOMAIN nodes' : nodes'[n] \in Reports /\ nodes'[n].ip = n
  BY <1>1, <1>2 DEF GraphOK
<1>0. /\ DOMAIN edges' = NewEdges(r) \cup DOMAIN edges
      /\ \A e \in NewEdges(r) : edges'[e] = RiskOf(r, e)
      /\ \A e \in DOMAIN edges \ NewEdges(r) : edges'[e] = edges[e]
  BY AddNodeEdges
<1>5. DOMAIN edges' \subseteq Vertices \X Vertices
  <2>1. NewEdges(r) \subseteq Vertices \X Vertices
    BY <1>1 DEF GraphOK, NewEdges, VirtualEdge, StorageEdges, PeerEdges, Vertices
  <2> QED
    BY <1>0, <2>1 DEF GraphOK
<1>6. \A e \in DOMAIN edges' : edges'[e] \in 0..One
  BY <1>0, RiskType DEF GraphOK
<1>7. /\ order' \subseteq (DOMAIN nodes') \X (DOMAIN nodes')
      /\ \A n \in DOMAIN nodes' : <<n, n>> \notin order'
  BY <1>2, <1>3 DEF GraphOK
<1>8. ASSUME NEW m \in DOMAIN nodes', NEW n \in DOMAIN nodes', m # n
      PROVE  <<m, n>> \in order' <=> <<n, m>> \notin order'
  <2>1. CASE m # r.ip /\ n # r.ip
    <3>1. m \in DOMAIN nodes /\ n \in DOMAIN nodes
      BY <1>2, <2>1
    <3>2. (<<m, n>> \in order' <=> <<m, n>> \in order) /\ (<<n, m>> \in order' <=> <<n, m>> \in order)
      BY <1>3, <2>1
    <3> QED
      BY <1>8, <3>1, <3>2 DEF GraphOK
  <2>2. CASE m = r.ip
    BY <1>2, <1>3, <1>8, <2>2
  <2>3. CASE n = r.ip
    BY <1>2, <1>3, <1>8, <2>3
  <2> QED
    BY <2>1, <2>2, <2>3
<1>9. GraphOK'
  BY <1>4, <1>5, <1>6, <1>7, <1>8 DEF GraphOK
<1>10. ASSUME NEW p \in order'
       PROVE  /\ FreshAt(p[1], p[2], LossTo(nodes[p[2]], p[1]))'
              /\ FreshAt(p[2], p[1], LossTo(nodes[p[2]], p[1]))'
  <2> DEFINE old == p[1]
             new == p[2]
  <2>1. /\ old \in DOMAIN nodes' /\ new \in DOMAIN nodes' /\ old # new
        /\ old \in Nodes /\ new \in Nodes /\ old # r.ip
    BY <1>1, <1>3, <1>4, <1>7, <1>10
  <2>2. old \in DOMAIN nodes
    BY <1>2, <2>1
  <2>3. CASE new = r.ip
    <3>1. <<Out(old), In(new)>> \in NewEdges(r) /\ <<Out(new), In(old)>> \in NewEdges(r)
      BY <2>1, <2>2, <2>3, PeerNewEdges
    <3>2. /\ RiskOf(r, <<Out(old), In(new)>>) = EdgeRisk(0, Price(old, new), LossTo(r, old))
          /\ RiskOf(r, <<Out(new), In(old)>>) = EdgeRisk(0, Price(new, old), LossTo(r, old))
      BY <2>1, <2>3, PeerRiskOf, Zenon
    <3>3. LossTo(nodes[new], old)' = LossTo(r, old)
      BY <1>2, <2>3 DEF LossTo
    <3> HIDE DEF old, new
    <3>4. FreshAt(old, new, LossTo(r, old))' /\ FreshAt(new, old, LossTo(r, old))'
      BY <3>1, <3>2, AddNodeEdges DEF FreshAt, Price
    <3> QED
      BY <3>3, <3>4, Zenon DEF old, new, FreshAt, LossTo
  <2>4. CASE new # r.ip
    <3>1. p \in order /\ new \in DOMAIN nodes
      BY <1>2, <1>3, <1>10, <2>1, <2>4
    <3>2. FreshAt(old, new, LossTo(nodes[new], old)) /\ FreshAt(new, old, LossTo(nodes[new], old))
      BY <3>1, FreshDef, Zenon
    <3>3. <<Out(old), In(new)>> \notin NewEdges(r) /\ <<Out(new), In(old)>> \notin NewEdges(r)
      BY <2>1, <2>4, PeerNewEdges
    <3>4. nodes'[new] = nodes[new]
      BY <1>2, <2>4, <3>1
    <3> HIDE DEF old, new
    <3>5. FreshAt(old, new, LossTo(nodes[new], old))' /\ FreshAt(new, old, LossTo(nodes[new], old))'
      BY <3>2, <3>3, <3>4, AddNodeEdges DEF FreshAt, LossTo, Price
    <3> QED
      BY <3>5, Zenon DEF old, new, FreshAt, LossTo
  <2> QED
    BY <2>3, <2>4
<1>11. PeerEdgesFresh'
  BY <1>10, Zenon DEF PeerEdgesFresh, FreshAt
<1> QED
  BY <1>9, <1>11

(* The node that an event of a deletion names is none: nothing goes.       *)
LEMMA RemoveNodeInv ==
  ASSUME GraphOK, PeerEdgesFresh, RemoveNode(None)
  PROVE  /\ GraphOK' /\ PeerEdgesFresh'
         /\ DOMAIN nodes' = DOMAIN nodes /\ \A n \in DOMAIN nodes : nodes'[n] = nodes[n]
<1>1. DOMAIN nodes' = DOMAIN nodes /\ \A n \in DOMAIN nodes : nodes'[n] = nodes[n]
  <2>1. None \notin DOMAIN nodes
    BY NoneAssumption DEF GraphOK
  <2> QED
    BY <2>1 DEF RemoveNode, Without
<1>2. \A x \in DOMAIN edges : None \notin {x[1], x[2]}
  BY NoneAssumption DEF GraphOK
<1>3. DOMAIN edges' = DOMAIN edges /\ \A e \in DOMAIN edges : edges'[e] = edges[e]
  BY <1>2 DEF RemoveNode
<1>4. order' = order
  <2>1. \A p \in order : None \notin {p[1], p[2]}
    BY NoneAssumption DEF GraphOK
  <2> QED
    BY <2>1 DEF RemoveNode, OrderWithout
<1>5. GraphOK'
  BY <1>1, <1>3, <1>4 DEF GraphOK
<1>6. ASSUME NEW p \in order'
      PROVE  /\ FreshAt(p[1], p[2], LossTo(nodes[p[2]], p[1]))'
             /\ FreshAt(p[2], p[1], LossTo(nodes[p[2]], p[1]))'
  <2>1. p \in order /\ nodes'[p[2]] = nodes[p[2]]
    BY <1>1, <1>4, <1>6 DEF GraphOK
  <2>2. /\ FreshAt(p[1], p[2], LossTo(nodes[p[2]], p[1]))
        /\ FreshAt(p[2], p[1], LossTo(nodes[p[2]], p[1]))
    BY <2>1, FreshDef, Zenon
  <2> QED
    BY <1>3, <2>1, <2>2 DEF FreshAt, LossTo, Price
<1>7. PeerEdgesFresh'
  BY <1>6, Zenon DEF PeerEdgesFresh, FreshAt
<1> QED
  BY <1>1, <1>5, <1>7

-----------------------------------------------------------------------------
(* The watch.                                                              *)

LEMMA EmitInv ==
  ASSUME IInv, NEW event \in Events, Emit(event), CanEmit, UNCHANGED <<phase, nodes>>,
         IF event.type = "DELETE" THEN event.ip \notin DOMAIN kv'
         ELSE event.ip \in DOMAIN kv' /\ kv'[event.ip] = event.val,
         \A k : k # event.ip => (k \in DOMAIN kv' <=> k \in DOMAIN kv),
         \A k \in DOMAIN kv : k # event.ip => kv'[k] = kv[k]
  PROVE  EventsOK' /\ WatchInv' /\ Len(pending') <= MaxPending /\ seen' \subseteq Nodes
<1>1. /\ pending \in Seq(Events) /\ Len(pending) <= MaxPending /\ seen \subseteq Nodes
      /\ MaxPending \in Nat /\ event.ip \in Nodes
  BY MaxPendingAssumption DEF IInv, EventsOK, TypeOK, Events
<1>2. CASE phase # "watch"
  <2>1. pending' = <<>> /\ seen' = {} /\ UNCHANGED phase
    BY <1>2 DEF Emit, IInv, EventsOK
  <2>2. EventsOK' /\ WatchInv'
    BY <1>2, <2>1 DEF EventsOK, WatchInv
  <2> QED
    BY <1>1, <2>1, <2>2
<1>3. CASE phase = "watch"
  <2>1. pending' = Append(pending, event) /\ seen' = seen \cup {event.ip} /\ Len(pending) < MaxPending
    BY <1>3 DEF Emit, CanEmit
  <2>2. pending' \in Seq(Events) /\ Len(pending') = Len(pending) + 1
    BY <1>1, <2>1
  <2>3. EventsOK' /\ Len(pending') <= MaxPending /\ seen' \subseteq Nodes
    BY <1>1, <1>3, <2>1, <2>2 DEF EventsOK
  <2> DEFINE n == Len(pending) + 1
  <2>4. /\ pending'[n] = event /\ n \in DOMAIN pending'
        /\ \A i \in DOMAIN pending' : i # n => i \in DOMAIN pending /\ i < n /\ pending'[i] = pending[i]
        /\ DOMAIN pending \subseteq DOMAIN pending'
    BY <1>1, <2>1
  <2>5. ASSUME NEW i \in DOMAIN pending', LastOfKey(i)' PROVE Says(pending[i])'
    <3>1. CASE i = n
      BY <2>4, <3>1 DEF Says
    <3>2. CASE i # n
      <4>1. i \in DOMAIN pending /\ i < n /\ pending'[i] = pending[i]
        BY <2>4, <3>2
      <4>2. pending[i].ip # event.ip
        BY <2>4, <2>5, <4>1 DEF LastOfKey
      <4>3. LastOfKey(i)
        <5> SUFFICES ASSUME NEW j \in DOMAIN pending, j > i PROVE pending[j].ip # pending[i].ip
          BY DEF LastOfKey
        <5>1. j \in DOMAIN pending' /\ pending'[j] = pending[j]
          BY <1>1, <2>1, <2>4
        <5> QED
          BY <2>5, <4>1, <5>1 DEF LastOfKey
      <4>4. Says(pending[i])
        BY <4>1, <4>3 DEF IInv, WatchInv
      <4>5. LET k == pending[i].ip
            IN  /\ k \in DOMAIN kv' <=> k \in DOMAIN kv
                /\ k \in DOMAIN kv => kv'[k] = kv[k]
        BY <4>2
      <4>6. IF pending[i].type = "DELETE" THEN pending[i].ip \notin DOMAIN kv'
            ELSE pending[i].ip \in DOMAIN kv' /\ kv'[pending[i].ip] = pending[i].val
        BY <4>4, <4>5 DEF Says
      <4> HIDE DEF n
      <4> QED
        BY <4>1, <4>6, Zenon DEF Says
    <3> QED
      BY <3>1, <3>2
  <2>6. ASSUME NEW k \in seen', \A i \in DOMAIN pending' : pending'[i].ip # k, k \in DOMAIN kv'
        PROVE  k \in DOMAIN nodes' /\ nodes'[k] = kv'[k]
    <3>1. k # event.ip /\ k \in seen
      BY <2>1, <2>4, <2>6
    <3>2. \A i \in DOMAIN pending : pending[i].ip # k
      BY <1>1, <2>1, <2>4, <2>6
    <3>3. k \in DOMAIN kv /\ kv'[k] = kv[k]
      BY <2>6, <3>1
    <3>4. k \in DOMAIN nodes /\ nodes[k] = kv[k]
      BY <3>1, <3>2, <3>3 DEF IInv, WatchInv
    <3> QED
      BY <3>3, <3>4
  <2>7. WatchInv'
    BY <2>5, <2>6 DEF WatchInv
  <2> QED
    BY <2>3, <2>7
<1> QED
  BY <1>2, <1>3

LEMMA HandleInv == ASSUME IInv, HandleEvent PROVE IInv'
<1> DEFINE event == Head(pending)
<1>1. /\ pending \in Seq(Events) /\ pending # <<>> /\ Len(pending) <= MaxPending
      /\ pending' = Tail(pending) /\ Apply(event)
      /\ UNCHANGED <<alive, kv, phase, todo, seen, req>>
      /\ MaxPending \in Nat
  BY MaxPendingAssumption DEF HandleEvent, IInv, EventsOK, TypeOK, etcdVars
<1>2. /\ event = pending[1] /\ event \in Events /\ 1 \in DOMAIN pending
      /\ pending' \in Seq(Events) /\ Len(pending') = Len(pending) - 1
      /\ \A i \in DOMAIN pending' : i + 1 \in DOMAIN pending /\ pending'[i] = pending[i + 1]
      /\ \A i \in DOMAIN pending : i # 1 => i - 1 \in DOMAIN pending' /\ pending'[i - 1] = pending[i]
  BY <1>1
<1>3. phase = "watch"
  BY <1>1 DEF IInv, EventsOK
<1>4. \/ AddNode(event.val) /\ event.type # "DELETE" /\ event.val \in Reports /\ event.val.ip = event.ip
      \/ RemoveNode(None) /\ event.type = "DELETE"
  BY <1>1, <1>2 DEF Apply, Events
<1>5. GraphOK' /\ PeerEdgesFresh'
  BY <1>4, AddNodeInv, RemoveNodeInv DEF IInv
<1>6. /\ DOMAIN nodes \subseteq DOMAIN nodes'
      /\ \A n \in DOMAIN nodes : n # event.ip => nodes'[n] = nodes[n]
      /\ event.type # "DELETE" => event.ip \in DOMAIN nodes' /\ nodes'[event.ip] = event.val
  BY <1>4, AddNodeNodes, RemoveNodeInv DEF IInv
<1> HIDE DEF event
<1>7. TypeOK'
  BY <1>1, <1>2, <1>5 DEF IInv, TypeOK, GraphOK
<1>8. EventsOK' /\ RequestOK'
  BY <1>1, <1>2, <1>3 DEF IInv, EventsOK, RequestOK
<1>9. ASSUME NEW i \in DOMAIN pending', LastOfKey(i)' PROVE Says(pending[i])'
  <2>1. i + 1 \in DOMAIN pending /\ pending'[i] = pending[i + 1] /\ i \in Nat
    BY <1>2
  <2>2. LastOfKey(i + 1)
    <3> SUFFICES ASSUME NEW j \in DOMAIN pending, j > i + 1
                 PROVE  pending[j].ip # pending[i + 1].ip
      BY DEF LastOfKey
    <3>1. j - 1 \in DOMAIN pending' /\ pending'[j - 1] = pending[j] /\ j - 1 > i
      BY <1>1, <1>2, <2>1
    <3> QED
      BY <1>9, <2>1, <3>1 DEF LastOfKey
  <2> QED
    BY <1>1, <2>1, <2>2 DEF IInv, WatchInv, Says
<1>10. ASSUME NEW n \in seen', \A i \in DOMAIN pending' : pending'[i].ip # n, n \in DOMAIN kv'
       PROVE  n \in DOMAIN nodes' /\ nodes'[n] = kv'[n]
  <2>1. n \in seen /\ n \in DOMAIN kv /\ kv' = kv
    BY <1>1, <1>10
  <2>2. \A i \in DOMAIN pending : i # 1 => pending[i].ip # n
    BY <1>2, <1>10
  <2>3. CASE event.ip = n
    <3>1. LastOfKey(1)
      BY <1>1, <1>2, <2>2, <2>3 DEF LastOfKey
    <3>2. Says(event)
      BY <1>2, <3>1 DEF IInv, WatchInv
    <3> QED
      BY <1>6, <2>1, <2>3, <3>2 DEF Says
  <2>4. CASE event.ip # n
    BY <1>2, <1>6, <2>1, <2>2, <2>4 DEF IInv, WatchInv
  <2> QED
    BY <2>3, <2>4
<1>11. WatchInv'
  BY <1>9, <1>10 DEF WatchInv
<1> QED
  BY <1>5, <1>7, <1>8, <1>11 DEF IInv

-----------------------------------------------------------------------------
(* The invariant.                                                          *)

LEMMA InitInv == Init => IInv
<1> SUFFICES ASSUME Init PROVE IInv
  OBVIOUS
<1>1. MaxPending \in Nat
  BY MaxPendingAssumption
<1>2. nodes = <<>> /\ edges = <<>> /\ order = {} /\ seen = {} /\ pending = <<>> /\ phase = "list"
  BY DEF Init
<1>3. DOMAIN nodes = {} /\ DOMAIN edges = {} /\ Len(pending) = 0 /\ pending \in Seq(Events)
  BY <1>2
<1>4. GraphOK
  BY <1>2, <1>3 DEF GraphOK
<1>5. DOMAIN kv \subseteq Nodes /\ \A n \in DOMAIN kv : kv[n] \in Reports /\ kv[n].ip = n
  BY DEF Init
<1>6. TypeOK
  BY <1>1, <1>2, <1>3, <1>4, <1>5 DEF Init, TypeOK, GraphOK, NoRequest
<1>7. EventsOK /\ RequestOK /\ PeerEdgesFresh /\ WatchInv
  BY <1>2, <1>3 DEF Init, EventsOK, RequestOK, NoRequest, PeerEdgesFresh, WatchInv
<1> QED
  BY <1>4, <1>6, <1>7 DEF IInv

(* A step that leaves etcd, the watch and the graph alone.                 *)
LEMMA ElsewhereInv ==
  ASSUME IInv, UNCHANGED <<kv, phase, pending, graphVars, seen>>,
         alive' \subseteq Nodes \ {Self}, todo' \subseteq Reports,
         "pc" \in DOMAIN req', req'.pc \in {"idle", "search", "done"}
  PROVE  IInv'
<1>1. TypeOK' /\ GraphOK'
  BY DEF IInv, TypeOK, GraphOK, graphVars
<1>2. EventsOK' /\ RequestOK' /\ WatchInv'
  BY DEF IInv, EventsOK, RequestOK, WatchInv, LastOfKey, Says, graphVars
<1>3. PeerEdgesFresh'
  BY DEF IInv, PeerEdgesFresh, LossTo, Price, graphVars
<1> QED
  BY <1>1, <1>2, <1>3 DEF IInv

(* A key is written, or its lease ends.                                    *)
LEMMA EtcdInv ==
  ASSUME IInv, NEW n \in Nodes, CanEmit, UNCHANGED <<alive, phase, todo, graphVars, req>>,
         \/ \E r \in Reports : r.ip = n /\ Put(n, r)
         \/ /\ n \in DOMAIN kv
            /\ kv' = Without(kv, n)
            /\ Emit([type |-> "DELETE", ip |-> n, val |-> None])
  PROVE  IInv'
<1>1. /\ DOMAIN kv \subseteq Nodes
      /\ \A k \in DOMAIN kv : kv[k] \in Reports /\ kv[k].ip = k
  BY DEF IInv, TypeOK
<1>2. /\ EventsOK' /\ WatchInv' /\ Len(pending') <= MaxPending /\ seen' \subseteq Nodes
      /\ DOMAIN kv' \subseteq Nodes
      /\ \A k \in DOMAIN kv' : kv'[k] \in Reports /\ kv'[k].ip = k
  <2> DEFINE Goal ==
        /\ EventsOK' /\ WatchInv' /\ Len(pending') <= MaxPending /\ seen' \subseteq Nodes
        /\ DOMAIN kv' \subseteq Nodes
        /\ \A k \in DOMAIN kv' : kv'[k] \in Reports /\ kv'[k].ip = k
  <2>1. ASSUME NEW r \in Reports, r.ip = n, Put(n, r)
        PROVE  Goal
    <3> DEFINE event == [type |-> IF n \in DOMAIN kv THEN "UPDATE" ELSE "CREATE", ip |-> n, val |-> r]
    <3>1. event \in Events /\ event.type # "DELETE" /\ event.ip = n /\ event.val = r
      BY <2>1 DEF Events
    <3>2. Emit(event) /\ kv' = With(kv, n, r)
      BY <2>1 DEF Put
    <3>3. /\ DOMAIN kv' = DOMAIN kv \cup {n} /\ kv'[n] = r
          /\ \A k \in DOMAIN kv : k # n => kv'[k] = kv[k]
      BY <3>2 DEF With
    <3> HIDE DEF event
    <3>4. EventsOK' /\ WatchInv' /\ Len(pending') <= MaxPending /\ seen' \subseteq Nodes
      BY <3>1, <3>2, <3>3, EmitInv DEF graphVars
    <3>5. DOMAIN kv' \subseteq Nodes /\ \A k \in DOMAIN kv' : kv'[k] \in Reports /\ kv'[k].ip = k
      BY <1>1, <2>1, <3>3
    <3> QED
      BY <3>4, <3>5
  <2>2. ASSUME n \in DOMAIN kv, kv' = Without(kv, n),
               Emit([type |-> "DELETE", ip |-> n, val |-> None])
        PROVE  Goal
    <3> DEFINE event == [type |-> "DELETE", ip |-> n, val |-> None]
    <3>1. event \in Events /\ event.type = "DELETE" /\ event.ip = n
      BY DEF Events
    <3>2. /\ DOMAIN kv' = DOMAIN kv \ {n}
          /\ \A k \in DOMAIN kv : k # n => kv'[k] = kv[k]
      BY <2>2 DEF Without
    <3>3. Emit(event)
      BY <2>2
    <3> HIDE DEF event
    <3>4. EventsOK' /\ WatchInv' /\ Len(pending') <= MaxPending /\ seen' \subseteq Nodes
      BY <3>1, <3>2, <3>3, EmitInv DEF graphVars
    <3>5. DOMAIN kv' \subseteq Nodes /\ \A k \in DOMAIN kv' : kv'[k] \in Reports /\ kv'[k].ip = k
      BY <1>1, <3>2
    <3> QED
      BY <3>4, <3>5
  <2> QED
    BY <2>1, <2>2
<1>3. GraphOK' /\ RequestOK' /\ PeerEdgesFresh'
  BY DEF IInv, GraphOK, RequestOK, PeerEdgesFresh, LossTo, Price, graphVars
<1>4. TypeOK'
  BY <1>2, <1>3 DEF IInv, TypeOK, GraphOK, graphVars
<1> QED
  BY <1>2, <1>3, <1>4 DEF IInv

LEMMA StepInv == IInv /\ [Next]_vars => IInv'
<1> SUFFICES ASSUME IInv, [Next]_vars PROVE IInv'
  OBVIOUS
<1>1. /\ alive \subseteq Nodes \ {Self} /\ todo \subseteq Reports
      /\ "pc" \in DOMAIN req /\ req.pc \in {"idle", "search", "done"}
  BY DEF IInv, TypeOK, RequestOK
<1>2. ASSUME NEW n \in Nodes, Publish(n) PROVE IInv'
  BY <1>2, EtcdInv DEF Publish
<1>3. ASSUME NEW n \in Nodes, Expire(n) PROVE IInv'
  BY <1>3, EtcdInv DEF Expire
<1>4. ASSUME NEW n \in Nodes, Leave(n) \/ Join(n) PROVE IInv'
  BY <1>1, <1>4, ElsewhereInv DEF Leave, Join, graphVars
<1>5. CASE List
  <2>1. todo' \subseteq Reports /\ phase = "list" /\ phase' = "load"
    BY <1>5 DEF List, IInv, TypeOK
  <2>2. TypeOK' /\ GraphOK' /\ EventsOK' /\ RequestOK'
    BY <1>5, <2>1 DEF List, IInv, TypeOK, GraphOK, EventsOK, RequestOK, graphVars, etcdVars
  <2>3. WatchInv' /\ PeerEdgesFresh'
    BY <1>5 DEF List, IInv, WatchInv, LastOfKey, Says, PeerEdgesFresh, LossTo, Price, graphVars, etcdVars
  <2> QED
    BY <2>2, <2>3 DEF IInv
<1>6. ASSUME NEW r \in todo, Load(r) PROVE IInv'
  <2>1. r \in Reports /\ AddNode(r) /\ phase = "load"
    BY <1>1, <1>6 DEF Load
  <2>2. GraphOK' /\ PeerEdgesFresh'
    BY <2>1, AddNodeInv DEF IInv
  <2>3. TypeOK' /\ EventsOK' /\ RequestOK'
    BY <1>6, <2>2 DEF Load, IInv, TypeOK, GraphOK, EventsOK, RequestOK, etcdVars
  <2>4. pending' = <<>> /\ seen' = {}
    BY <1>6, <2>1 DEF Load, IInv, EventsOK
  <2>5. WatchInv'
    BY <2>4 DEF WatchInv
  <2> QED
    BY <2>2, <2>3, <2>5 DEF IInv
<1>7. CASE BeginWatch
  <2>1. TypeOK' /\ GraphOK' /\ EventsOK' /\ RequestOK'
    BY <1>7 DEF BeginWatch, IInv, TypeOK, GraphOK, EventsOK, RequestOK, graphVars, etcdVars
  <2>2. WatchInv' /\ PeerEdgesFresh'
    BY <1>7 DEF BeginWatch, IInv, WatchInv, LastOfKey, Says, PeerEdgesFresh, LossTo, Price, graphVars, etcdVars
  <2> QED
    BY <2>1, <2>2 DEF IInv
<1>8. CASE HandleEvent
  BY <1>8, HandleInv
<1>9. ASSUME NEW ip \in Clients, NEW region, NEW store \in Stores, Ask(ip, region, store) PROVE IInv'
  <2>1. PICK starts : req' = [pc |-> "search", store |-> store, starts |-> starts,
                              hops |-> <<>>, cost |-> None]
    BY <1>9 DEF Ask
  <2> QED
    BY <1>1, <1>9, <2>1, ElsewhereInv DEF Ask, etcdVars
<1>10. ASSUME NEW n \in Nodes, SearchFrom(n) PROVE IInv'
  <2>1. \/ req' = [req EXCEPT !.starts = @ \ {n}]
        \/ \E h, c : req' = [[req EXCEPT !.starts = @ \ {n}] EXCEPT !.hops = h, !.cost = c]
    BY <1>10, Zenon DEF SearchFrom
  <2>2. "pc" \in DOMAIN req' /\ req'.pc = req.pc
    BY <1>1, <2>1
  <2> QED
    BY <1>1, <1>10, <2>2, ElsewhereInv DEF SearchFrom, etcdVars
<1>11. CASE Answer
  <2>1. "pc" \in DOMAIN req' /\ req'.pc = "done"
    BY <1>11 DEF Answer
  <2> QED
    BY <1>1, <1>11, <2>1, ElsewhereInv DEF Answer, etcdVars
<1>12. CASE EndRequest
  BY <1>1, <1>12, ElsewhereInv DEF EndRequest, NoRequest, etcdVars
<1>13. CASE UNCHANGED vars
  BY <1>1, <1>13, ElsewhereInv DEF vars, etcdVars
<1> QED
  BY <1>2, <1>3, <1>4, <1>5, <1>6, <1>7, <1>8, <1>9, <1>10, <1>11, <1>12, <1>13, Zenon DEF Next

(* A nonempty set of numbers has a least one, and one that is bounded a    *)
(* greatest.                                                               *)
NatLess == {p \in Nat \X Nat : p[1] < p[2]}

LEMMA Least ==
  ASSUME NEW T \in SUBSET Nat, T # {}
  PROVE  \E m \in T : \A k \in T : m <= k
<1>1. OpToRel(<, Nat) = NatLess
  BY Zenon DEF OpToRel, NatLess
<1>2. IsWellFoundedOn(NatLess, Nat)
  BY <1>1, NatLessThanWellFounded
<1>3. PICK m \in T : \A k \in T : ~(<<k, m>> \in NatLess)
  BY <1>2, WFMin
<1>4. ASSUME NEW k \in T PROVE m <= k
  <2>1. k \in Nat /\ m \in Nat
    OBVIOUS
  <2>2. <<k, m>> \notin NatLess
    BY <1>3
  <2>3. ~(k < m)
    BY <2>1, <2>2 DEF NatLess
  <2> QED
    BY <2>1, <2>3
<1> QED
  BY <1>4

LEMMA Greatest ==
  ASSUME NEW k \in Nat, NEW T \in SUBSET (1..k), T # {}
  PROVE  \E m \in T : \A j \in T : j <= m
<1> DEFINE below == {k - i : i \in T}
<1>1. below \in SUBSET Nat /\ below # {}
  <2>1. \A i \in T : k - i \in Nat
    OBVIOUS
  <2> QED
    BY <2>1
<1>2. PICK b \in below : \A c \in below : b <= c
  <2> HIDE DEF below
  <2> QED
    BY <1>1, Least
<1>3. PICK m \in T : b = k - m
  BY <1>2
<1>4. \A j \in T : k - m <= k - j
  BY <1>2, <1>3
<1>5. \A j \in T : j \in Int
  OBVIOUS
<1> QED
  BY <1>3, <1>4, <1>5

LEMMA InvKeepsUp == IInv => WatchKeepsUp
<1> SUFFICES ASSUME IInv, phase = "watch", NEW n \in seen \cap DOMAIN kv
             PROVE  LET puts == {i \in DOMAIN pending : pending[i].ip = n /\ pending[i].type # "DELETE"}
                    IN  IF puts = {} THEN n \in DOMAIN nodes /\ nodes[n] = kv[n]
                        ELSE kv[n] = pending[CHOOSE i \in puts : \A j \in puts : j <= i].val
  BY DEF WatchKeepsUp
<1> DEFINE puts == {i \in DOMAIN pending : pending[i].ip = n /\ pending[i].type # "DELETE"}
           all == {i \in DOMAIN pending : pending[i].ip = n}
<1>1. CASE all = {}
  BY <1>1 DEF IInv, WatchInv
<1>2. CASE all # {}
  <2>1. pending \in Seq(Events) /\ all \subseteq 1..Len(pending) /\ Len(pending) \in Nat
    BY DEF IInv, EventsOK
  <2>2. PICK m \in all : \A j \in all : j <= m
    <3> HIDE DEF all
    <3> QED
      BY <1>2, <2>1, Greatest
  <2>3. LastOfKey(m)
    BY <2>1, <2>2 DEF LastOfKey
  <2>4. pending[m] \in Events /\ pending[m].ip = n
    BY <2>1, <2>2
  <2>5. Says(pending[m])
    BY <2>2, <2>3 DEF IInv, WatchInv
  <2>6. m \in puts /\ kv[n] = pending[m].val
    BY <2>2, <2>4, <2>5 DEF Says
  <2>7. (CHOOSE i \in puts : \A j \in puts : j <= i) = m
    <3>1. \A j \in puts : j <= m /\ j \in Nat
      BY <2>1, <2>2
    <3> HIDE DEF puts
    <3> QED
      BY <2>6, <3>1
  <2> QED
    BY <2>6, <2>7
<1> QED
  BY <1>1, <1>2

-----------------------------------------------------------------------------
(* The sum of a path's risks, which the library defines by a recursive     *)
(* function on the subsets of its edges.                                   *)
Pick(T) == CHOOSE x \in T : TRUE

SumOver(f, S) ==
  LET iter[T \in SUBSET S] == IF T = {} THEN 0 ELSE f[Pick(T)] + iter[T \ {Pick(T)}]
  IN  iter[S]

(* A function that adds up f over each of the sets in D.                   *)
Sums(f, D, g) ==
  g = [T \in D |-> IF T = {} THEN 0 ELSE f[Pick(T)] + g[T \ {Pick(T)}]]

LEMMA Picked ==
  ASSUME NEW T, T # {}
  PROVE  Pick(T) \in T
BY DEF Pick

(* Such a function exists, level by level of the cardinality.              *)
LEMMA SumsExist ==
  ASSUME NEW S, IsFiniteSet(S), NEW f
  PROVE  \E g : Sums(f, SUBSET S, g)
<1> DEFINE Upto(n) == {T \in SUBSET S : Cardinality(T) <= n}
           P(n) == \E g : Sums(f, Upto(n), g)
           Bad == {n \in Nat : ~P(n)}
<1>1. \A T \in SUBSET S : /\ IsFiniteSet(T) /\ Cardinality(T) \in Nat
                          /\ Cardinality(T) <= Cardinality(S)
                          /\ Cardinality(T) = 0 <=> T = {}
  BY FS_Subset, FS_CardinalityType, FS_EmptySet
<1>2. P(0)
  <2> DEFINE g == [T \in Upto(0) |-> 0]
  <2>1. \A T \in Upto(0) : T = {}
    BY <1>1
  <2>2. Sums(f, Upto(0), g)
    <3> HIDE DEF Upto
    <3> QED
      BY <2>1 DEF Sums
  <2> QED
    BY <2>2
<1>3. ASSUME NEW n \in Nat, P(n) PROVE P(n + 1)
  <2>1. PICK g : Sums(f, Upto(n), g)
    BY <1>3
  <2> DEFINE h == [T \in Upto(n + 1) |->
                     IF T = {} THEN 0 ELSE f[Pick(T)] + g[T \ {Pick(T)}]]
  <2>2. \A T \in Upto(n) : T \in Upto(n + 1) /\ h[T] = g[T]
    <3>1. \A T \in Upto(n) : T \in Upto(n + 1)
      BY <1>1
    <3> HIDE DEF Upto
    <3>2. \A T \in Upto(n) : g[T] = IF T = {} THEN 0 ELSE f[Pick(T)] + g[T \ {Pick(T)}]
      BY <2>1 DEF Sums
    <3> QED
      BY <3>1, <3>2
  <2>3. ASSUME NEW T \in Upto(n + 1), T # {}
        PROVE  T \ {Pick(T)} \in Upto(n)
    <3>1. Cardinality(T \ {Pick(T)}) = Cardinality(T) - 1
      BY <1>1, <2>3, Picked, FS_RemoveElement
    <3> QED
      BY <1>1, <3>1
  <2>4. Sums(f, Upto(n + 1), h)
    <3>1. \A T \in Upto(n + 1) : T # {} => h[T \ {Pick(T)}] = g[T \ {Pick(T)}]
      <4> HIDE DEF h, Upto
      <4> QED
        BY <2>2, <2>3
    <3>2. h = [T \in Upto(n + 1) |->
                 IF T = {} THEN 0 ELSE f[Pick(T)] + h[T \ {Pick(T)}]]
      <4> HIDE DEF Upto
      <4> DEFINE k == [T \in Upto(n + 1) |->
                         IF T = {} THEN 0 ELSE f[Pick(T)] + h[T \ {Pick(T)}]]
      <4>1. \A T \in Upto(n + 1) : h[T] = IF T = {} THEN 0 ELSE f[Pick(T)] + g[T \ {Pick(T)}]
        OBVIOUS
      <4> HIDE DEF h
      <4>2. \A T \in Upto(n + 1) : h[T] = IF T = {} THEN 0 ELSE f[Pick(T)] + h[T \ {Pick(T)}]
        BY <3>1, <4>1
      <4>3. h = [T \in Upto(n + 1) |-> h[T]]
        BY DEF h
      <4> QED
        BY <4>2, <4>3
    <3> HIDE DEF h, Upto
    <3> QED
      BY <3>2, Zenon DEF Sums
  <2> HIDE DEF h
  <2> QED
    BY <2>4
<1>4. Bad = {}
  <2> SUFFICES ASSUME Bad # {} PROVE FALSE
    OBVIOUS
  <2>1. Bad \in SUBSET Nat
    OBVIOUS
  <2>2. PICK m \in Bad : \A k \in Bad : m <= k
    <3> HIDE DEF Bad
    <3> QED
      BY <2>1, Least
  <2> HIDE DEF P
  <2>3. m # 0
    BY <1>2, <2>2
  <2>4. m - 1 \in Nat /\ m - 1 \notin Bad
    BY <2>2, <2>3
  <2>5. P((m - 1) + 1)
    BY <1>3, <2>4
  <2> QED
    BY <2>5
<1>5. Upto(Cardinality(S)) = SUBSET S
  BY <1>1
<1>6. P(Cardinality(S))
  <2> HIDE DEF P
  <2> QED
    BY <1>4, FS_CardinalityType
<1> QED
  BY <1>5, <1>6

(* The sum of natural numbers is one, and no less than any of them.        *)
LEMMA SumBounds ==
  ASSUME NEW S, IsFiniteSet(S), NEW f, \A x \in S : f[x] \in Nat
  PROVE  SumOver(f, S) \in Nat /\ \A x \in S : f[x] <= SumOver(f, S)
<1> DEFINE g == CHOOSE g : Sums(f, SUBSET S, g)
<1>1. Sums(f, SUBSET S, g)
  BY SumsExist
<1>2. SumOver(f, S) = g[S]
  BY Zenon DEF SumOver, Sums
<1> HIDE DEF g
<1>3. \A T \in SUBSET S : g[T] = IF T = {} THEN 0 ELSE f[Pick(T)] + g[T \ {Pick(T)}]
  BY <1>1 DEF Sums
<1> DEFINE Good(T) == g[T] \in Nat /\ \A x \in T : f[x] <= g[T]
           Bad == {Cardinality(T) : T \in {X \in SUBSET S : ~Good(X)}}
<1>4. \A T \in SUBSET S : IsFiniteSet(T) /\ Cardinality(T) \in Nat
  BY FS_Subset, FS_CardinalityType
<1>5. ASSUME NEW T \in SUBSET S, T # {}, Good(T \ {Pick(T)})
      PROVE  Good(T)
  <2>1. Pick(T) \in T /\ f[Pick(T)] \in Nat
    BY <1>5, Picked
  <2>2. g[T] = f[Pick(T)] + g[T \ {Pick(T)}]
    BY <1>3, <1>5
  <2>3. g[T] \in Nat /\ f[Pick(T)] <= g[T] /\ g[T \ {Pick(T)}] <= g[T]
    BY <1>5, <2>1, <2>2
  <2>4. ASSUME NEW x \in T PROVE f[x] <= g[T]
    <3>1. CASE x = Pick(T)
      BY <2>3, <3>1
    <3>2. CASE x # Pick(T)
      <4>1. f[x] <= g[T \ {Pick(T)}] /\ f[x] \in Nat /\ g[T \ {Pick(T)}] \in Nat
        BY <1>5, <3>2
      <4> QED
        BY <2>3, <4>1
    <3> QED
      BY <3>1, <3>2
  <2> QED
    BY <2>3, <2>4
<1>6. \A T \in SUBSET S : Good(T)
  <2> SUFFICES ASSUME NEW X \in SUBSET S, ~Good(X) PROVE FALSE
    OBVIOUS
  <2> HIDE DEF Good
  <2>1. Bad \in SUBSET Nat /\ Bad # {}
    BY <1>4
  <2>2. PICK m \in Bad : \A k \in Bad : m <= k
    <3> HIDE DEF Bad
    <3> QED
      BY <2>1, Least
  <2>3. PICK T \in SUBSET S : ~Good(T) /\ m = Cardinality(T)
    BY <2>2
  <2>4. T # {}
    <3>1. {} \in SUBSET S /\ g[{}] = 0
      BY <1>3
    <3>2. Good({})
      BY <3>1 DEF Good
    <3> QED
      BY <2>3, <3>2
  <2>5. T \ {Pick(T)} \in SUBSET S /\ Cardinality(T \ {Pick(T)}) = Cardinality(T) - 1
    BY <1>4, <2>4, Picked, FS_RemoveElement
  <2>6. ~Good(T \ {Pick(T)})
    BY <1>5, <2>3, <2>4
  <2>7. Cardinality(T \ {Pick(T)}) \in Bad
    BY <2>5, <2>6
  <2> HIDE DEF Bad
  <2> QED
    BY <1>4, <2>2, <2>3, <2>5, <2>7
<1> QED
  BY <1>2, <1>6

LEMMA RiskIsSum ==
  ASSUME NEW h, NEW store
  PROVE  Risk(h, store) = SumOver(edges, HopEdges(h, store))
BY DEF Risk, MapThenSumSet, MapThenFoldSet, SumOver, Pick

-----------------------------------------------------------------------------
(* The rate of a route.                                                    *)

(* Moving data from a node to a store costs something: bandwidth-price.json *)
(* has no price of 0, and a provider without a price gets the default.     *)
(* (AddNode ignores GetBandwidthPrice's errors, and if the file cannot be  *)
(* read it returns 0: then this does not hold, and a route may have rate 0.) *)
StoresCost == \A n \in Nodes, s \in Stores : Price(n, s) > 0

(* An edge into a store has a risk, so has what the search found, and the  *)
(* answer a rate.                                                          *)
StoreEdgesCost == \A e \in DOMAIN edges : e[2] \in Stores => edges[e] > 0

SearchCosts ==
  req.pc = "search" =>
    /\ {"hops", "cost", "store", "starts"} \subseteq DOMAIN req
    /\ req.store \in Stores
    /\ (req.hops # <<>> => req.cost \in Nat /\ req.cost > 0)

RateInv == StoreEdgesCost /\ SearchCosts /\ RouteHasRate

LEMMA StoreRiskPositive ==
  ASSUME NEW cost \in 1..U, NEW loss \in Nat
  PROVE  EdgeRisk(0, cost, loss) > 0
<1> DEFINE core == CoreRisk(0, loss)
           total == core * Core * U + (Core - core) * CostWeight(core) * cost
<1>1. U = 10 /\ Core = 400 /\ One = 400 * 400 * 10
  BY DEF U, Core, One
<1>2. EdgeRisk(0, cost, loss) = IF loss >= U \/ total > One THEN One ELSE total
  BY Zenon DEF EdgeRisk
<1>3. One > 0
  BY <1>1
<1>4. CASE loss >= U \/ total > One
  <2> HIDE DEF total
  <2> QED
    BY <1>2, <1>3, <1>4
<1>5. CASE ~(loss >= U \/ total > One)
  <2>1. loss \in 0..9
    BY <1>1, <1>5
  <2>2. core = 20 * loss
    BY <1>1, <2>1 DEF CoreRisk
  <2>3. core \in 0..180
    BY <2>1, <2>2
  <2>4. CostWeight(core) \in 160..240
    BY <1>1, <2>3 DEF CostWeight
  <2> DEFINE w == CostWeight(core)
             rest == 400 - core
  <2>5. w \in 160..240 /\ rest \in 220..400
    BY <2>3, <2>4
  <2>6. total = core * 400 * 10 + rest * w * cost
    BY <1>1
  <2>7. rest * w \in Nat /\ rest * w >= 1
    <3> HIDE DEF w, rest
    <3>1. w * 1 \in Nat /\ w * 1 <= w * rest
      BY <2>5, ProductBound
    <3>2. w * rest = rest * w
      BY <2>5
    <3> QED
      BY <2>5, <3>1, <3>2
  <2>8. rest * w * cost >= 1
    <3> DEFINE p == rest * w
    <3> HIDE DEF w, rest
    <3>1. p \in Nat /\ p >= 1
      BY <2>7
    <3> HIDE DEF p
    <3>2. p * 1 \in Nat /\ p * 1 <= p * cost
      BY <1>1, <3>1, ProductBound
    <3>3. p * cost >= 1
      BY <1>1, <3>1, <3>2
    <3> QED
      BY <3>3 DEF p
  <2>9. rest * w * cost \in Int
    <3> HIDE DEF w, rest
    <3> QED
      BY <1>1, <2>5
  <2> HIDE DEF total
  <2>10. EdgeRisk(0, cost, loss) = total
    BY <1>2, <1>5
  <2> HIDE DEF core, w, rest
  <2> QED
    BY <2>3, <2>6, <2>8, <2>9, <2>10
<1> QED
  <2> HIDE DEF total
  <2> QED
    BY <1>4, <1>5

LEMMA StoreEdgeRisk ==
  ASSUME StoresCost, NEW r \in Reports, NEW e \in NewEdges(r), DOMAIN nodes \subseteq Nodes,
         e[2] \in Stores
  PROVE  RiskOf(r, e) > 0
<1>1. r.ip \in Nodes /\ \A t \in DOMAIN r.loss : r.loss[t] \in Nat
  BY ReportType
<1>2. e # VirtualEdge(r)
  BY <1>1, VerticesAssumption DEF VirtualEdge
<1>3. e \notin PeerEdges(r, DOMAIN nodes \ {r.ip})
  BY <1>1, VerticesAssumption DEF PeerEdges
<1>4. e \in StorageEdges(r)
  BY <1>2, <1>3, Zenon DEF NewEdges
<1>5. e[2] \in DOMAIN r.loss
  BY <1>4 DEF StorageEdges
<1>6. Price(r.ip, e[2]) \in 1..U
  <2>1. Price(r.ip, e[2]) \in 0..U
    BY PriceType DEF Price
  <2>2. Price(r.ip, e[2]) > 0
    BY <1>1 DEF StoresCost
  <2> QED
    BY <2>1, <2>2
<1>7. EdgeRisk(0, Price(r.ip, e[2]), r.loss[e[2]]) > 0
  BY <1>1, <1>5, <1>6, StoreRiskPositive
<1>8. RiskOf(r, e) = EdgeRisk(0, Price(r.ip, e[2]), r.loss[e[2]])
  BY <1>2, <1>4, Zenon DEF RiskOf
<1> QED
  BY <1>7, <1>8

(* The edges of a path, and the last of them.                              *)
LEMMA HopEdgesFinite ==
  ASSUME NEW h \in HopLists, NEW store
  PROVE  /\ IsFiniteSet(HopEdges(h, store))
         /\ \E n : <<Out(n), store>> \in HopEdges(h, store)
<1> DEFINE inside == {<<In(h[i]), Out(h[i])>> : i \in DOMAIN h}
           between == {<<Out(h[i]), In(h[i + 1])>> : i \in 1 .. Len(h) - 1}
           last == {<<Out(h[Len(h)]), store>>}
<1>1. PICK k \in 1 .. Cardinality(Nodes) : h \in [1 .. k -> Nodes]
  BY DEF HopLists
<1>2. k \in Nat /\ DOMAIN h = 1 .. k /\ Len(h) = k
  BY <1>1, NodesAssumption, FS_CardinalityType
<1>3. IsFiniteSet(1 .. k) /\ IsFiniteSet(1 .. k - 1)
  BY <1>2, FS_Interval
<1>4. IsFiniteSet(inside)
  <2> DEFINE f == [i \in 1 .. k |-> <<In(h[i]), Out(h[i])>>]
  <2>1. f \in Surjection(1 .. k, inside)
    BY <1>2 DEF Surjection
  <2> QED
    BY <1>3, <2>1, FS_Surjection
<1>5. IsFiniteSet(between)
  <2> DEFINE f == [i \in 1 .. k - 1 |-> <<Out(h[i]), In(h[i + 1])>>]
  <2>1. f \in Surjection(1 .. k - 1, between)
    BY <1>2 DEF Surjection
  <2> QED
    BY <1>3, <2>1, FS_Surjection
<1>6. IsFiniteSet(last)
  BY FS_Singleton
<1>7. HopEdges(h, store) = inside \cup between \cup last
  BY Zenon DEF HopEdges
<1> HIDE DEF inside, between
<1>8. IsFiniteSet(HopEdges(h, store))
  BY <1>4, <1>5, <1>6, <1>7, FS_Union
<1> QED
  BY <1>7, <1>8

(* What a path to a store costs.                                           *)
LEMMA RouteCosts ==
  ASSUME GraphOK, StoreEdgesCost, NEW h \in HopLists, NEW store \in Stores,
         HopEdges(h, store) \subseteq DOMAIN edges
  PROVE  Risk(h, store) \in Nat /\ Risk(h, store) > 0
<1>1. PICK n : <<Out(n), store>> \in HopEdges(h, store)
  BY HopEdgesFinite
<1>2. IsFiniteSet(HopEdges(h, store)) /\ \A e \in HopEdges(h, store) : edges[e] \in Nat
  <2>1. One \in Nat
    BY DEF One, Core, U
  <2>2. \A e \in DOMAIN edges : edges[e] \in Nat
    BY <2>1 DEF GraphOK
  <2> QED
    BY <2>2, HopEdgesFinite
<1>3. edges[<<Out(n), store>>] \in Nat /\ edges[<<Out(n), store>>] > 0
  BY <1>1, <1>2 DEF StoreEdgesCost
<1>4. /\ Risk(h, store) \in Nat
      /\ edges[<<Out(n), store>>] <= Risk(h, store)
  BY <1>1, <1>2, RiskIsSum, SumBounds
<1> QED
  BY <1>3, <1>4

LEMMA RateType ==
  ASSUME NEW risk \in Nat, risk > 0
  PROVE  ComputeAdmissionRate(risk) \in MinRate .. MaxRate
<1> DEFINE raw == (1000 * One) \div (12 * risk)
<1>1. raw \in Int
  BY DEF One, Core, U
<1>2. ComputeAdmissionRate(risk) =
        IF raw < MinRate THEN MinRate ELSE IF raw > MaxRate THEN MaxRate ELSE raw
  BY DEF ComputeAdmissionRate
<1> HIDE DEF raw
<1> QED
  BY <1>1, <1>2 DEF MinRate, MaxRate

LEMMA RateInit == Init => RateInv
BY DEF Init, RateInv, StoreEdgesCost, SearchCosts, RouteHasRate, NoRequest

(* Adding a node gives each new edge into a store a risk; removing one     *)
(* takes edges away.                                                       *)
LEMMA GraphCosts ==
  ASSUME StoresCost, IInv, RateInv, UNCHANGED req,
         \/ \E r \in Reports : AddNode(r)
         \/ \E id : RemoveNode(id)
  PROVE  RateInv'
<1>1. ASSUME NEW r \in Reports, AddNode(r) PROVE StoreEdgesCost'
  <2>1. /\ DOMAIN edges' = NewEdges(r) \cup DOMAIN edges
        /\ \A e \in NewEdges(r) : edges'[e] = RiskOf(r, e)
        /\ \A e \in DOMAIN edges \ NewEdges(r) : edges'[e] = edges[e]
    BY <1>1, AddNodeEdges
  <2>2. DOMAIN nodes \subseteq Nodes
    BY DEF IInv, GraphOK
  <2>3. ASSUME NEW e \in DOMAIN edges', e[2] \in Stores PROVE edges'[e] > 0
    <3>1. CASE e \in NewEdges(r)
      <4>1. RiskOf(r, e) > 0
        BY <2>2, <2>3, <3>1, StoreEdgeRisk
      <4> QED
        BY <2>1, <3>1, <4>1
    <3>2. CASE e \notin NewEdges(r)
      BY <2>1, <2>3, <3>2 DEF RateInv, StoreEdgesCost
    <3> QED
      BY <3>1, <3>2
  <2> QED
    BY <2>3 DEF StoreEdgesCost
<1>2. ASSUME NEW id, RemoveNode(id) PROVE StoreEdgesCost'
  BY <1>2 DEF RemoveNode, RateInv, StoreEdgesCost
<1>3. SearchCosts' /\ RouteHasRate'
  BY DEF RateInv, SearchCosts, RouteHasRate
<1> QED
  BY <1>1, <1>2, <1>3 DEF RateInv

(* The cheaper of the routes known so far and the one from n.              *)
LEMMA SearchCostsInv ==
  ASSUME IInv, RateInv, NEW n \in Nodes, SearchFrom(n)
  PROVE  RateInv'
<1> DEFINE rest == [req EXCEPT !.starts = @ \ {n}]
<1>1. /\ req.pc = "search" /\ {"hops", "cost", "store", "starts"} \subseteq DOMAIN req
      /\ req.store \in Stores /\ (req.hops # <<>> => req.cost \in Nat /\ req.cost > 0)
      /\ UNCHANGED edges
  BY DEF SearchFrom, RateInv, SearchCosts, graphVars
<1>2. "pc" \in DOMAIN req
  BY DEF IInv, RequestOK
<1>3. \/ req' = rest
      \/ \E h \in Shortest(n, req.store) :
           req' = [rest EXCEPT !.hops = h, !.cost = Risk(h, req.store)]
  BY Zenon DEF SearchFrom
<1>4. CASE req' = rest
  <2>1. /\ req'.pc = "search" /\ DOMAIN req' = DOMAIN req
        /\ req'.store = req.store /\ req'.hops = req.hops /\ req'.cost = req.cost
    BY <1>1, <1>2, <1>4
  <2> QED
    BY <1>1, <2>1 DEF RateInv, StoreEdgesCost, SearchCosts, RouteHasRate
<1>5. ASSUME NEW h \in Shortest(n, req.store),
             req' = [rest EXCEPT !.hops = h, !.cost = Risk(h, req.store)]
      PROVE  RateInv'
  <2>1. h \in HopLists /\ HopEdges(h, req.store) \subseteq DOMAIN edges
    BY <1>5 DEF Shortest
  <2>2. Risk(h, req.store) \in Nat /\ Risk(h, req.store) > 0
    BY <1>1, <2>1, RouteCosts DEF IInv, RateInv
  <2> DEFINE c == Risk(h, req.store)
  <2> HIDE DEF c
  <2>3. req' = [rest EXCEPT !.hops = h, !.cost = c]
    BY <1>5 DEF c
  <2>4. /\ req'.pc = "search" /\ DOMAIN req' = DOMAIN req
        /\ req'.store = req.store /\ req'.cost = c
    BY <1>1, <1>2, <2>3
  <2>5. c \in Nat /\ c > 0
    BY <2>2 DEF c
  <2> QED
    BY <1>1, <2>4, <2>5 DEF RateInv, StoreEdgesCost, SearchCosts, RouteHasRate
<1> QED
  BY <1>3, <1>4, <1>5

LEMMA RateStep == StoresCost /\ IInv /\ RateInv /\ [Next]_vars => RateInv'
<1> SUFFICES ASSUME StoresCost, IInv, RateInv, [Next]_vars PROVE RateInv'
  OBVIOUS
<1>1. ASSUME UNCHANGED <<graphVars, req>> PROVE RateInv'
  BY <1>1 DEF RateInv, StoreEdgesCost, SearchCosts, RouteHasRate, graphVars
<1>2. ASSUME NEW n \in Nodes, Publish(n) \/ Expire(n) \/ Leave(n) \/ Join(n) PROVE RateInv'
  BY <1>1, <1>2, Zenon DEF Publish, Expire, Leave, Join
<1>3. CASE List \/ BeginWatch \/ UNCHANGED vars
  BY <1>1, <1>3, Zenon DEF List, BeginWatch, vars
<1>4. ASSUME NEW r \in todo, Load(r) PROVE RateInv'
  <2>1. r \in Reports /\ AddNode(r) /\ UNCHANGED req
    BY <1>4 DEF Load, IInv, TypeOK
  <2> QED
    BY <2>1, GraphCosts
<1>5. CASE HandleEvent
  <2>1. /\ pending \in Seq(Events) /\ pending # <<>> /\ UNCHANGED req
        /\ Apply(Head(pending))
    BY <1>5 DEF HandleEvent, IInv, EventsOK
  <2>2. Head(pending) \in Events
    BY <2>1
  <2>3. \/ Head(pending).val \in Reports /\ AddNode(Head(pending).val)
        \/ RemoveNode(Head(pending).val)
    BY <2>1, <2>2 DEF Apply, Events
  <2> QED
    BY <2>1, <2>3, GraphCosts
<1>6. ASSUME NEW ip \in Clients, NEW region, NEW store \in Stores, Ask(ip, region, store)
      PROVE  RateInv'
  <2>1. PICK starts : req' = [pc |-> "search", store |-> store, starts |-> starts,
                              hops |-> <<>>, cost |-> None]
    BY <1>6 DEF Ask
  <2>2. /\ DOMAIN req' = {"pc", "store", "starts", "hops", "cost"}
        /\ req'.pc = "search" /\ req'.store = store /\ req'.hops = <<>>
    BY <2>1
  <2>3. UNCHANGED edges
    BY <1>6 DEF Ask, graphVars
  <2> QED
    BY <2>2, <2>3 DEF RateInv, StoreEdgesCost, SearchCosts, RouteHasRate
<1>7. ASSUME NEW n \in Nodes, SearchFrom(n) PROVE RateInv'
  BY <1>7, SearchCostsInv
<1>8. CASE Answer
  <2>1. /\ req.pc = "search" /\ UNCHANGED edges
        /\ req' = [pc |-> "done", hops |-> req.hops,
                   rate |-> IF req.hops = <<>> THEN 0 ELSE ComputeAdmissionRate(req.cost)]
    BY <1>8 DEF Answer, graphVars
  <2>2. req'.pc = "done" /\ req'.hops = req.hops
    BY <2>1
  <2>3. req.hops # <<>> => req'.rate \in MinRate .. MaxRate
    BY <2>1, RateType DEF RateInv, SearchCosts
  <2> QED
    BY <2>1, <2>2, <2>3 DEF RateInv, StoreEdgesCost, SearchCosts, RouteHasRate
<1>9. CASE EndRequest
  BY <1>9 DEF EndRequest, NoRequest, RateInv, StoreEdgesCost, SearchCosts, RouteHasRate, graphVars
<1> QED
  BY <1>2, <1>3, <1>4, <1>5, <1>6, <1>7, <1>8, <1>9, Zenon DEF Next

-----------------------------------------------------------------------------
(* Every variable keeps its type: what the graph holds are reports of its  *)
(* nodes, and risks between 0 and 1.                                       *)
THEOREM TypeCorrect == Spec => []TypeOK
<1>1. IInv => TypeOK
  BY DEF IInv
<1> QED
  BY <1>1, InitInv, StepInv, PTL DEF Spec

(* The edges between two nodes hold what the one added last measured, in   *)
(* both directions.                                                        *)
THEOREM EdgesFresh == Spec => []PeerEdgesFresh
<1>1. IInv => PeerEdgesFresh
  BY DEF IInv
<1> QED
  BY <1>1, InitInv, StepInv, PTL DEF Spec

(* A key written since the watch began is never lost, nor applied out of   *)
(* order.                                                                  *)
THEOREM KeepsUp == Spec => []WatchKeepsUp
BY InvKeepsUp, InitInv, StepInv, PTL DEF Spec

(* Where every transfer into a store has a price, a route that is found is *)
(* granted a rate of the task's range: its client's limiter never has the  *)
(* burst of 0 with which no read succeeds.                                 *)
THEOREM RatesGranted == StoresCost /\ Spec => []RouteHasRate
<1>1. StoresCost /\ IInv /\ RateInv /\ [Next]_vars => (IInv /\ RateInv)'
  BY StepInv, RateStep
<1>2. Init => IInv /\ RateInv
  BY InitInv, RateInit
<1>3. RateInv => RouteHasRate
  BY DEF RateInv
<1> SUFFICES ASSUME StoresCost PROVE Spec => []RouteHasRate
  OBVIOUS
<1>4. IInv /\ RateInv /\ [Next]_vars => (IInv /\ RateInv)'
  BY <1>1
<1> QED
  BY <1>2, <1>3, <1>4, PTL DEF Spec

------------------------------------------------------------------------------
(* How the risk of an edge and the rate of a route move with what they are *)
(* computed from.                                                          *)

(* The total before it is capped, of a core risk and a price.              *)
Total(core, cost) == core * Core * U + (Core - core) * CostWeight(core) * cost

LEMMA RiskOfTotal ==
  ASSUME NEW cache \in Nat, NEW cost \in 0..U, NEW loss \in Nat
  PROVE  EdgeRisk(cache, cost, loss) =
           IF loss >= U \/ Total(CoreRisk(cache, loss), cost) > One THEN One
           ELSE Total(CoreRisk(cache, loss), cost)
BY Zenon DEF EdgeRisk, Total

LEMMA Order ==
  ASSUME NEW a \in Nat, NEW b \in Int, NEW c \in Int, b <= c
  PROVE  a * b <= a * c
OBVIOUS

(* The core risk grows with the loss while the cache risk is at most 2.    *)
LEMMA CoreType ==
  ASSUME NEW cache \in Nat, NEW loss \in 0..9
  PROVE  /\ CoreRisk(cache, loss) \in Nat
         /\ cache > 20 => CoreRisk(cache, loss) > 400
         /\ cache <= 20 => CoreRisk(cache, loss) <= 400
<1>1. CoreRisk(cache, loss) = 400 - (20 - cache) * (20 - loss)
  BY DEF CoreRisk, Core, U
<1>2. CASE cache <= 20
  <2>1. (20 - cache) * (20 - loss) \in Nat /\ (20 - cache) * (20 - loss) <= (20 - cache) * 20
    BY <1>2, ProductBound
  <2> QED
    BY <1>1, <1>2, <2>1
<1>3. CASE cache > 20
  <2>1. (cache - 20) * 1 \in Nat /\ (cache - 20) * 1 <= (cache - 20) * (20 - loss)
    BY <1>3, ProductBound
  <2>2. (20 - cache) * (20 - loss) = -((cache - 20) * (20 - loss))
    OBVIOUS
  <2>3. (cache - 20) * (20 - loss) \in Int
    OBVIOUS
  <2> QED
    BY <1>1, <1>3, <2>1, <2>2, <2>3
<1> QED
  BY <1>2, <1>3

LEMMA CoreOrder ==
  ASSUME NEW c1 \in 0..20, NEW c2 \in 0..20, c1 <= c2, NEW l1 \in 0..9, NEW l2 \in 0..9, l1 <= l2
  PROVE  CoreRisk(c1, l1) <= CoreRisk(c2, l2)
<1>1. /\ CoreRisk(c1, l1) = 400 - (20 - c1) * (20 - l1)
      /\ CoreRisk(c2, l2) = 400 - (20 - c2) * (20 - l2)
  BY DEF CoreRisk, Core, U
<1>2. (20 - c2) * (20 - l2) <= (20 - c2) * (20 - l1)
  BY Order
<1>3. (20 - l1) * (20 - c2) <= (20 - l1) * (20 - c1)
  BY Order
<1>4. /\ (20 - c2) * (20 - l1) = (20 - l1) * (20 - c2)
      /\ (20 - c1) * (20 - l1) = (20 - l1) * (20 - c1)
  OBVIOUS
<1>5. /\ (20 - c1) * (20 - l1) \in Int /\ (20 - c2) * (20 - l2) \in Int /\ (20 - c2) * (20 - l1) \in Int
  OBVIOUS
<1> QED
  BY <1>1, <1>2, <1>3, <1>4, <1>5

(* The total in numbers: below and from a core risk of 80, a fifth of Core. *)
TotalBelow(core, cost) == 4000 * core + cost * (96000 - 640 * core + core * core)
TotalFrom(core, cost) == 4000 * core + cost * (64000 - 160 * core)

(* The greatest core risk whose cost still loses weight.                   *)
Knee == 80

LEMMA TotalIs ==
  ASSUME NEW core \in Nat, NEW cost \in 0..10
  PROVE  /\ Total(core, cost) \in Int
         /\ core <= Knee => Total(core, cost) = TotalBelow(core, cost)
         /\ core >= Knee => Total(core, cost) = TotalFrom(core, cost)
<1>1. Total(core, cost) = core * 400 * 10 + (400 - core) * CostWeight(core) * cost
  BY DEF Total, Core, U
<1>2. /\ core <= 80 => CostWeight(core) = 240 - core
      /\ core >= 80 => CostWeight(core) = 160
  BY DEF CostWeight, Core, U
<1>3. /\ (400 - core) * (240 - core) = 96000 - 640 * core + core * core
      /\ (400 - core) * 160 = 64000 - 160 * core
      /\ core * core \in Int
  OBVIOUS
<1>4. CASE core <= 80
  <2> DEFINE p == 96000 - 640 * core + core * core
  <2>1. p \in Int
    BY <1>3
  <2>2. Total(core, cost) = core * 400 * 10 + p * cost
    BY <1>1, <1>2, <1>3, <1>4
  <2>3. core = 80 => p = 64000 - 160 * core
    OBVIOUS
  <2> HIDE DEF p
  <2>4. p * cost = cost * p /\ p * cost \in Int /\ core * 400 * 10 = 4000 * core
    BY <2>1
  <2>5. Total(core, cost) = 4000 * core + cost * p /\ Total(core, cost) \in Int
    BY <2>2, <2>4
  <2> QED
    BY <1>4, <2>3, <2>5 DEF p, Knee, TotalBelow, TotalFrom
<1>5. CASE core > 80
  <2> DEFINE p == 64000 - 160 * core
  <2>1. p \in Int
    OBVIOUS
  <2>2. Total(core, cost) = core * 400 * 10 + p * cost
    BY <1>1, <1>2, <1>3, <1>5
  <2> HIDE DEF p
  <2>3. p * cost = cost * p /\ p * cost \in Int /\ core * 400 * 10 = 4000 * core
    BY <2>1
  <2>4. Total(core, cost) = 4000 * core + cost * p /\ Total(core, cost) \in Int
    BY <2>2, <2>3
  <2> QED
    BY <1>5, <2>4 DEF p, Knee, TotalBelow, TotalFrom
<1> QED
  BY <1>4, <1>5

(* A core risk beyond 1 has a total beyond 1.                              *)
LEMMA TotalBeyond ==
  ASSUME NEW core \in Nat, core > 400, NEW cost \in 0..10
  PROVE  Total(core, cost) > One
<1>0. core >= Knee => Total(core, cost) = TotalFrom(core, cost)
  BY TotalIs, Zenon
<1>1. Total(core, cost) = 4000 * core + cost * (64000 - 160 * core)
  BY <1>0 DEF Knee, TotalFrom
<1>2. cost * (160 * core - 64000) <= 10 * (160 * core - 64000)
  <2>1. (160 * core - 64000) * cost <= (160 * core - 64000) * 10
    BY Order
  <2> QED
    BY <2>1
<1>3. cost * (64000 - 160 * core) = -(cost * (160 * core - 64000))
  OBVIOUS
<1>4. cost * (160 * core - 64000) \in Int
  OBVIOUS
<1>5. One = 1600000
  BY DEF One, Core, U
<1> QED
  BY <1>1, <1>2, <1>3, <1>4, <1>5

(* Up to 0.6 of the greatest price the total grows with the core risk: what *)
(* the cost loses in weight is less than what the core risk gains.         *)
LEMMA TotalOrder ==
  ASSUME NEW a \in Nat, NEW b \in Nat, a <= b, NEW cost \in 0..6
  PROVE  Total(a, cost) <= Total(b, cost)
<1>0. \A n \in Nat : /\ Total(n, cost) \in Int
                     /\ n <= Knee => Total(n, cost) = TotalBelow(n, cost)
                     /\ n >= Knee => Total(n, cost) = TotalFrom(n, cost)
  <2>1. cost \in 0..10
    OBVIOUS
  <2> QED
    BY <2>1, TotalIs, Zenon
<1>1. ASSUME NEW c \in Nat, NEW d \in Nat, c <= d, d <= 80
      PROVE  Total(c, cost) <= Total(d, cost)
  <2>1. c * c <= d * d /\ c * c \in Int /\ d * d \in Int
    <3>1. c * c <= c * d /\ d * c <= d * d
      BY <1>1, Order
    <3>2. c * d = d * c /\ c * c \in Int /\ c * d \in Int /\ d * d \in Int
      OBVIOUS
    <3> QED
      BY <3>1, <3>2
  <2>2. PICK x \in Int, y \in Int : x = c * c /\ y = d * d
    BY <2>1
  <2>3. /\ Total(c, cost) = 4000 * c + cost * (96000 - 640 * c + x)
        /\ Total(d, cost) = 4000 * d + cost * (96000 - 640 * d + y)
    <3>1. c <= Knee /\ d <= Knee
      BY <1>1 DEF Knee
    <3>2. Total(c, cost) = TotalBelow(c, cost) /\ Total(d, cost) = TotalBelow(d, cost)
      BY <1>0, <1>1, <3>1, Zenon
    <3> QED
      BY <2>2, <3>2 DEF TotalBelow
  <2>4. x <= y
    BY <2>1, <2>2
  <2>5. cost \in {0, 1, 2, 3, 4, 5, 6}
    OBVIOUS
  <2> HIDE DEF Total
  <2> QED
    BY <1>1, <2>3, <2>4, <2>5
<1>2. ASSUME NEW c \in Nat, NEW d \in Nat, c <= d, 80 <= c
      PROVE  Total(c, cost) <= Total(d, cost)
  <2>1. /\ Total(c, cost) = 4000 * c + cost * (64000 - 160 * c)
        /\ Total(d, cost) = 4000 * d + cost * (64000 - 160 * d)
    <3>1. c >= Knee /\ d >= Knee
      BY <1>2 DEF Knee
    <3>2. Total(c, cost) = TotalFrom(c, cost) /\ Total(d, cost) = TotalFrom(d, cost)
      BY <1>0, <1>2, <3>1, Zenon
    <3> QED
      BY <3>2 DEF TotalFrom
  <2>2. cost \in {0, 1, 2, 3, 4, 5, 6}
    OBVIOUS
  <2> QED
    BY <1>2, <2>1, <2>2
<1>3. Total(a, cost) \in Int /\ Total(b, cost) \in Int /\ Total(80, cost) \in Int
  BY <1>0
<1>4. CASE a <= 80 /\ 80 <= b
  BY <1>1, <1>2, <1>3, <1>4
<1> QED
  BY <1>1, <1>2, <1>4

(* An edge with more loss, a fuller cache, or both, has no smaller risk, as *)
(* long as its price is at most 0.6 of costMax.                            *)
THEOREM RiskGrows ==
  ASSUME NEW cost \in 0..6, NEW c1 \in Nat, NEW c2 \in Nat, c1 <= c2,
         NEW l1 \in Nat, NEW l2 \in Nat, l1 <= l2
  PROVE  EdgeRisk(c1, cost, l1) <= EdgeRisk(c2, cost, l2)
<1>1. U = 10 /\ cost \in 0..U /\ cost \in 0..10 /\ One \in Nat
  BY DEF One, Core, U
<1>2. EdgeRisk(c1, cost, l1) <= One /\ EdgeRisk(c1, cost, l1) \in Int
  <2>1. EdgeRisk(c1, cost, l1) \in 0..One
    BY <1>1, EdgeRiskType, Zenon
  <2> QED
    BY <1>1, <2>1
<1>3. CASE EdgeRisk(c2, cost, l2) = One
  BY <1>2, <1>3
<1>4. CASE l2 <= 9 /\ c2 <= 20
  <2>0. l1 \in 0..9 /\ l2 \in 0..9 /\ c1 \in 0..20 /\ c2 \in 0..20
    BY <1>4
  <2>1. CoreRisk(c1, l1) \in Nat /\ CoreRisk(c2, l2) \in Nat
    BY <2>0, CoreType, Zenon
  <2>2. CoreRisk(c1, l1) <= CoreRisk(c2, l2)
    BY <2>0, CoreOrder, Zenon
  <2>3. Total(CoreRisk(c1, l1), cost) <= Total(CoreRisk(c2, l2), cost)
    BY <2>1, <2>2, TotalOrder, Zenon
  <2>4. Total(CoreRisk(c1, l1), cost) \in Int /\ Total(CoreRisk(c2, l2), cost) \in Int
    BY <1>1, <2>1, TotalIs, Zenon
  <2>5. ~(l1 >= U)
    BY <1>1, <1>4
  <2> QED
    BY <1>1, <1>3, <2>3, <2>4, <2>5, RiskOfTotal
<1>5. CASE l2 > 9
  BY <1>1, <1>3, <1>5, RiskOfTotal
<1>6. CASE l2 <= 9 /\ c2 > 20
  <2>0. l2 \in 0..9
    BY <1>6
  <2>1. CoreRisk(c2, l2) \in Nat /\ CoreRisk(c2, l2) > 400
    BY <1>6, <2>0, CoreType, Zenon
  <2>2. Total(CoreRisk(c2, l2), cost) > One
    BY <1>1, <2>1, TotalBeyond, Zenon
  <2> QED
    BY <1>1, <1>3, <2>2, RiskOfTotal
<1> QED
  BY <1>4, <1>5, <1>6

(* Beyond that it can: at the greatest price a link that loses packets has *)
(* a smaller risk than one that loses none, because the loss lowers the    *)
(* weight of the cost.                                                     *)
THEOREM LossLowersRisk == EdgeRisk(0, U, 1) < EdgeRisk(0, U, 0)
<1>1. U = 10 /\ Core = 400 /\ One = 1600000
  BY DEF One, Core, U
<1>2. CoreRisk(0, 1) = 20 /\ CoreRisk(0, 0) = 0
  BY <1>1 DEF CoreRisk
<1>3. Total(20, 10) = 916000 /\ Total(0, 10) = 960000
  BY <1>1 DEF Total, CostWeight
<1> QED
  BY <1>1, <1>2, <1>3, RiskOfTotal

(* A dearer transfer never has a smaller risk, whatever the network is.    *)
THEOREM PriceRaisesRisk ==
  ASSUME NEW cache \in Nat, NEW loss \in Nat, NEW p1 \in 0..U, NEW p2 \in 0..U, p1 <= p2
  PROVE  EdgeRisk(cache, p1, loss) <= EdgeRisk(cache, p2, loss)
<1>1. U = 10 /\ One \in Nat
  BY DEF One, Core, U
<1>2. EdgeRisk(cache, p1, loss) <= One /\ EdgeRisk(cache, p1, loss) \in Int
  <2>1. EdgeRisk(cache, p1, loss) \in 0..One
    BY EdgeRiskType, Zenon
  <2> QED
    BY <1>1, <2>1
<1>3. CASE EdgeRisk(cache, p2, loss) = One
  BY <1>2, <1>3
<1>4. CASE loss <= 9 /\ cache <= 20
  <2> DEFINE core == CoreRisk(cache, loss)
  <2>0. loss \in 0..9
    BY <1>4
  <2>1. core \in Nat /\ core <= 400
    BY <1>4, <2>0, CoreType, Zenon
  <2> HIDE DEF core
  <2> DEFINE w == (400 - core) * CostWeight(core)
  <2>2. w \in Nat
    <3>1. CostWeight(core) \in Nat
      BY <2>1 DEF CostWeight, Core, U
    <3>2. 400 - core \in Nat
      BY <2>1
    <3> QED
      BY <3>1, <3>2, ProductBound
  <2>3. Total(core, p1) = core * Core * U + w * p1 /\ Total(core, p2) = core * Core * U + w * p2
    BY DEF Total, Core, U
  <2> HIDE DEF w
  <2>4. w * p1 <= w * p2 /\ w * p1 \in Int /\ w * p2 \in Int /\ core * Core * U \in Int
    BY <1>1, <2>1, <2>2, Order DEF Core
  <2>5. Total(core, p1) <= Total(core, p2) /\ Total(core, p1) \in Int /\ Total(core, p2) \in Int
    BY <2>3, <2>4
  <2> QED
    BY <1>1, <1>3, <2>5, RiskOfTotal DEF core
<1>5. CASE loss > 9
  BY <1>1, <1>3, <1>5, RiskOfTotal
<1>6. CASE loss <= 9 /\ cache > 20
  <2>0. loss \in 0..9
    BY <1>6
  <2>1. CoreRisk(cache, loss) \in Nat /\ CoreRisk(cache, loss) > 400
    BY <1>6, <2>0, CoreType, Zenon
  <2>2. p2 \in 0..10
    BY <1>1
  <2>3. Total(CoreRisk(cache, loss), p2) > One
    BY <2>1, <2>2, TotalBeyond, Zenon
  <2> QED
    BY <1>1, <1>3, <2>3, RiskOfTotal
<1> QED
  BY <1>4, <1>5, <1>6

(* Of two routes that cost something, the one of more risk is not granted  *)
(* the higher rate.                                                        *)
THEOREM RateFalls ==
  ASSUME NEW a \in Nat, NEW b \in Nat, 0 < a, a <= b
  PROVE  ComputeAdmissionRate(b) <= ComputeAdmissionRate(a)
<1> DEFINE Raw(r) == (1000 * One) \div (12 * r)
<1>1. \A r \in {a, b} : Raw(r) \in Int /\ Raw(r) * (12 * r) <= 1000 * One /\ 1000 * One < (Raw(r) + 1) * (12 * r)
  <2> SUFFICES ASSUME NEW r \in {a, b}
               PROVE  Raw(r) \in Int /\ Raw(r) * (12 * r) <= 1000 * One /\ 1000 * One < (Raw(r) + 1) * (12 * r)
    OBVIOUS
  <2> DEFINE n == 12 * r
             k == 1000 * One
  <2>1. n \in Nat \ {0} /\ k \in Int
    BY DEF One, Core, U
  <2> HIDE DEF n, k
  <2>2. k \div n \in Int /\ (k \div n) * n <= k /\ k < (k \div n) * n + n
    BY <2>1, SMTT(30)
  <2>3. (k \div n) * n + n = (k \div n + 1) * n
    BY <2>1, <2>2
  <2> QED
    BY <2>2, <2>3 DEF n, k
<1>2. PICK x \in Int, y \in Int : x = Raw(a) /\ y = Raw(b)
  BY <1>1
<1>3. 1000 * One \in Nat
  BY DEF One, Core, U
<1>4. y <= x
  <2> SUFFICES ASSUME x + 1 <= y PROVE FALSE
    BY <1>2
  <2>0. PICK k \in Nat : k = 1000 * One
    BY <1>3
  <2>1. y * (12 * b) <= k /\ k < (x + 1) * (12 * a)
    BY <1>1, <1>2, <2>0
  <2>2. x + 1 \in Nat
    <3>1. SUFFICES ASSUME x + 1 < 0 PROVE FALSE
      BY <1>2
    <3>2. (12 * a) * (x + 1) <= (12 * a) * 0
      BY <3>1, Order
    <3>3. (x + 1) * (12 * a) = (12 * a) * (x + 1)
      BY <1>2
    <3> QED
      BY <2>1, <3>2, <3>3
  <2>3. (x + 1) * (12 * a) <= (x + 1) * (12 * b)
    BY <2>2, Order
  <2>4. (12 * b) * (x + 1) <= (12 * b) * y
    BY Order
  <2>5. (x + 1) * (12 * b) = (12 * b) * (x + 1) /\ y * (12 * b) = (12 * b) * y
    BY <1>2
  <2>6. {(x + 1) * (12 * a), (x + 1) * (12 * b), (12 * b) * y} \subseteq Int
    BY <1>2
  <2> QED
    BY <2>1, <2>3, <2>4, <2>5, <2>6
<1>5. /\ ComputeAdmissionRate(a) = IF x < MinRate THEN MinRate ELSE IF x > MaxRate THEN MaxRate ELSE x
      /\ ComputeAdmissionRate(b) = IF y < MinRate THEN MinRate ELSE IF y > MaxRate THEN MaxRate ELSE y
  <2>1. ~(a <= 0) /\ ~(b <= 0)
    OBVIOUS
  <2> QED
    BY <1>2, <2>1 DEF ComputeAdmissionRate
<1> QED
  BY <1>2, <1>4, <1>5 DEF MinRate, MaxRate
=============================================================================
