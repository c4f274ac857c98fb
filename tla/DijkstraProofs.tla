--------------------------- MODULE DijkstraProofs ---------------------------
(***************************************************************************)
(* What TLAPS proves of Dijkstra for any graph, any natural weights and any *)
(* number of stores during the search.                                     *)
(***************************************************************************)
EXTENDS Dijkstra, FiniteSetTheorems, WellFoundedInduction, TLAPS

\* lo and hi enclose every weight an edge had since GetEdges.
Bounds == \A e \in edges : lo[e] <= weight[e] /\ weight[e] <= hi[e]

\* What each position of the search says of the variables it has yet to set.
Phases ==
  /\ pc \in {"start", "check"} =>
       DOMAIN dist = {} /\ DOMAIN prev = {} /\ pq = {} /\ currCost = 0 /\ todo = {}
  /\ pc \in {"queue", "scan", "back", "found"} => Start \in DOMAIN dist
  /\ pc = "none" /\ {Start, End} \subseteq Nodes => Start \in DOMAIN dist /\ pq = {}
  /\ pc = "scan" => currNode # End
  /\ pc \in {"back", "found"} => currNode = End
  /\ pc \in {"scan", "back", "found"} => currNode \in DOMAIN dist /\ dist[currNode] = currCost
  /\ pc = "scan" => \A e \in todo : e[1] = currNode

\* dist and prev are a tree over edges of the list, rooted in Start; a node that
\* precedes another was popped, so its distance is final.
Tree ==
  /\ DOMAIN prev = DOMAIN dist \ {Start}
  /\ Start \in DOMAIN dist => dist[Start] = 0
  /\ \A v \in DOMAIN prev :
       /\ prev[v] \in DOMAIN dist
       /\ <<prev[v], v>> \in edges
       /\ dist[prev[v]] <= currCost
       /\ dist[prev[v]] + lo[<<prev[v], v>>] <= dist[v]
       /\ dist[v] <= dist[prev[v]] + hi[<<prev[v], v>>]

\* An entry of the queue costs no less than the last one popped, and no less than
\* the distance of its node.
Queued ==
  \A q \in pq : currCost <= q[2] /\ q[1] \in DOMAIN dist /\ dist[q[1]] <= q[2]

\* The edges of v were looked at when its distance was final.
Relaxed(v) ==
  /\ dist[v] <= currCost
  /\ \A e \in edges :
       e[1] = v => e[2] \in DOMAIN dist /\ dist[e[2]] <= dist[v] + hi[e]

\* Every node with a distance waits in the queue with it, is the one popped
\* last, or was relaxed; End is never relaxed.
Settled ==
  /\ \A v \in DOMAIN dist :
       \/ <<v, dist[v]>> \in pq
       \/ pc \in {"scan", "back", "found"} /\ v = currNode
       \/ Relaxed(v)
  /\ pc = "scan" =>
       \A e \in edges :
         e[1] = currNode /\ e \notin todo =>
           e[2] \in DOMAIN dist /\ dist[e[2]] <= currCost + hi[e]
  /\ pc \notin {"back", "found"} /\ End \in DOMAIN dist => <<End, dist[End]>> \in pq

\* The path collected so far follows prev back from End, and node is the next.
Chain ==
  /\ pc \notin {"back", "found"} => path = <<>> /\ node = End
  /\ path = <<>> => node = End
  /\ path # <<>> =>
       /\ path[Len(path)] = End
       /\ node = IF path[1] \in DOMAIN prev THEN prev[path[1]] ELSE None
  /\ pc = "found" => node = None
  /\ pc \in {"back", "found"} => \A i \in 1..Len(path) : path[i] \in DOMAIN dist
  /\ \A i \in 1..(Len(path) - 1) : path[i + 1] \in DOMAIN prev /\ prev[path[i + 1]] = path[i]
  /\ \A i, j \in 1..Len(path) : path[i] = path[j] => i = j

Inv == TypeOK /\ Bounds /\ Phases /\ Tree /\ Queued /\ Settled /\ NoCycle /\ Chain

------------------------------------------------------------------------------
\* Ends of an edge are vertices, weights are naturals.
LEMMA EdgeFacts ==
  ASSUME TypeOK, NEW e \in edges
  PROVE  /\ e = <<e[1], e[2]>> /\ e[1] \in Vertices /\ e[2] \in Vertices
         /\ weight[e] \in Nat /\ lo[e] \in Nat /\ hi[e] \in Nat
  BY GraphAssumption, WeightsAssumption DEF TypeOK

LEMMA InitInv == Init => Inv
  <1> SUFFICES ASSUME Init PROVE Inv
    OBVIOUS
  <1> USE DEF Init
  <1>1. TypeOK
    BY EndsAssumption, ChangesAssumption DEF TypeOK
  <1>2. Bounds /\ Phases /\ Tree /\ Queued /\ Settled /\ Chain
    BY DEF Bounds, Phases, Tree, Queued, Settled, Chain
  <1>3. NoCycle
    BY DEF NoCycle
  <1>4. QED
    BY <1>1, <1>2, <1>3 DEF Inv

\* Every step keeps each variable in its type.
LEMMA StepType == TypeOK /\ Phases /\ [Next]_vars => TypeOK'
  <1> SUFFICES ASSUME TypeOK, Phases, [Next]_vars PROVE TypeOK'
    OBVIOUS
  <1> USE DEF TypeOK, graphVars, searchVars
  <1>1. CASE GetEdges
    <2> PICK list \in SUBSET Edges :
          \E w \in [list -> Weights] : edges' = list /\ weight' = w /\ lo' = w /\ hi' = w
      BY <1>1 DEF GetEdges
    <2>1. PICK w \in [list -> Weights] : edges' = list /\ weight' = w /\ lo' = w /\ hi' = w
      OBVIOUS
    <2>2. edges' \in SUBSET Edges /\ weight' \in [edges' -> Weights]
            /\ lo' \in [edges' -> Weights] /\ hi' \in [edges' -> Weights]
      BY <2>1
    <2>3. todo' \subseteq edges'
      BY <1>1 DEF GetEdges, Phases
    <2>4. QED
      BY <1>1, <2>2, <2>3 DEF GetEdges
  <1>2. CASE Unknown
    BY <1>2 DEF Unknown
  <1>3. CASE Begin
    BY <1>3, EndsAssumption DEF Begin
  <1>4. CASE PopStale
    BY <1>4 DEF PopStale, Popped
  <1>5. CASE PopNode
    BY <1>5 DEF PopNode, Popped
  <1>6. CASE PopEnd
    BY <1>6 DEF PopEnd, Popped
  <1>7. CASE Exhausted
    BY <1>7 DEF Exhausted
  <1>8. ASSUME NEW e \in edges, Relax(e) PROVE TypeOK'
    <2> DEFINE newCost == currCost + weight[e]
    <2>1. e[2] \in Vertices /\ newCost \in Nat
      BY EdgeFacts
    <2>2. CASE UNCHANGED <<dist, prev, pq>>
      BY <1>8, <2>2 DEF Relax
    <2>3. CASE /\ dist' = With(dist, e[2], newCost)
               /\ prev' = With(prev, e[2], currNode)
               /\ pq' = pq \cup {<<e[2], newCost>>}
      <3> HIDE DEF newCost
      <3>1. DOMAIN dist' \subseteq Vertices /\ dist' \in [DOMAIN dist' -> Nat]
        BY <2>1, <2>3 DEF With
      <3>2. DOMAIN prev' \subseteq Vertices /\ prev' \in [DOMAIN prev' -> Vertices]
        BY <2>1, <2>3 DEF With
      <3>3. pq' \subseteq Vertices \X Nat
        BY <2>1, <2>3
      <3>4. QED
        BY <1>8, <3>1, <3>2, <3>3 DEF Relax
    <2>4. QED
      BY <1>8, <2>2, <2>3 DEF Relax
  <1>9. CASE Scanned
    BY <1>9 DEF Scanned
  <1>10. CASE Prepend
    <2>1. node \in Vertices
      BY <1>10 DEF Prepend
    <2>2. path' \in Seq(Vertices)
      BY <1>10, <2>1 DEF Prepend
    <2>3. node' \in Vertices \cup {None}
      BY <1>10 DEF Prepend
    <2>4. QED
      BY <1>10, <2>2, <2>3 DEF Prepend
  <1>11. CASE Return
    BY <1>11 DEF Return
  <1>12. CASE StoreWeight
    BY <1>12, ChangesAssumption DEF StoreWeight
  <1>13. CASE UNCHANGED vars
    BY <1>13 DEF vars
  <1>14. QED
    BY <1>1, <1>2, <1>3, <1>4, <1>5, <1>6, <1>7, <1>8, <1>9, <1>10, <1>11, <1>12, <1>13
       DEF Next, Search

\* Only GetEdges and StoreWeight change the weights, and both keep the bounds.
LEMMA StepBounds == TypeOK /\ Bounds /\ [Next]_vars => Bounds'
  <1> SUFFICES ASSUME TypeOK, Bounds, [Next]_vars PROVE Bounds'
    OBVIOUS
  <1>1. CASE GetEdges
    <2> PICK list \in SUBSET Edges :
          \E w \in [list -> Weights] : edges' = list /\ weight' = w /\ lo' = w /\ hi' = w
      BY <1>1 DEF GetEdges
    <2>1. PICK w \in [list -> Weights] : edges' = list /\ weight' = w /\ lo' = w /\ hi' = w
      OBVIOUS
    <2>2. \A e \in list : w[e] \in Nat
      BY WeightsAssumption
    <2>3. QED
      BY <2>1, <2>2 DEF Bounds
  <1>2. CASE StoreWeight
    BY <1>2, WeightsAssumption DEF StoreWeight, Bounds, TypeOK
  <1>3. CASE UNCHANGED graphVars
    BY <1>3 DEF graphVars, Bounds
  <1>4. QED
    BY <1>1, <1>2, <1>3
       DEF Next, Search, Unknown, Begin, PopStale, PopNode, PopEnd, Popped, Exhausted, Relax,
           Scanned, Prepend, Return, vars, graphVars, searchVars

\* Taking an entry of least cost from the queue: the node popped is either stale or
\* its distance is final, and the cost popped last grows.
LEMMA PopFacts ==
  ASSUME Inv, NEW q \in pq, Popped(q)
  PROVE  /\ q = <<q[1], q[2]>> /\ q[1] \in DOMAIN dist /\ dist[q[1]] <= q[2]
         /\ currCost <= currCost' /\ currCost \in Nat /\ currCost' \in Nat
         /\ \A v \in DOMAIN dist : dist[v] \in Nat
         /\ Tree' /\ Queued' /\ NoCycle'
         /\ \A v \in DOMAIN dist : Relaxed(v) => Relaxed(v)'
  <1> USE DEF Inv
  <1>1. q = <<q[1], q[2]>> /\ q[2] \in Nat /\ currCost \in Nat
    BY DEF TypeOK
  <1>2. q[1] \in DOMAIN dist /\ dist[q[1]] <= q[2] /\ currCost <= currCost'
    BY DEF Queued, Popped
  <1>3. UNCHANGED <<edges, lo, hi, dist, prev>> /\ currCost' = q[2]
    BY DEF Popped, graphVars
  <1>4. \A v \in DOMAIN dist : dist[v] \in Nat
    BY DEF TypeOK
  <1>5. Tree'
    <2> SUFFICES ASSUME NEW v \in DOMAIN prev PROVE dist[prev[v]] <= q[2]
      BY <1>3 DEF Tree
    <2>1. prev[v] \in DOMAIN dist /\ dist[prev[v]] <= currCost
      BY DEF Tree
    <2>2. QED
      BY <2>1, <1>1, <1>2, <1>3, <1>4
  <1>6. Queued'
    BY <1>3 DEF Popped, Queued
  <1>7. NoCycle'
    BY <1>3 DEF NoCycle
  <1>8. \A v \in DOMAIN dist : Relaxed(v) => Relaxed(v)'
    BY <1>1, <1>2, <1>3, <1>4 DEF Relaxed
  <1>9. QED
    BY <1>1, <1>2, <1>3, <1>4, <1>5, <1>6, <1>7, <1>8

LEMMA PopStaleStep == ASSUME Inv, PopStale PROVE Phases' /\ Tree' /\ Queued' /\ Settled' /\ NoCycle' /\ Chain'
  <1>1. PICK q \in pq : Popped(q) /\ q[2] > dist[q[1]] /\ UNCHANGED <<pc, todo>>
    BY DEF PopStale
  <1>2. /\ q[1] \in DOMAIN dist /\ dist[q[1]] <= q[2]
        /\ Tree' /\ Queued' /\ NoCycle'
        /\ \A v \in DOMAIN dist : dist[v] \in Nat
        /\ \A v \in DOMAIN dist : Relaxed(v) => Relaxed(v)'
    BY <1>1, PopFacts
  <1>3. /\ UNCHANGED <<pc, edges, hi, dist, prev, todo, node, path>> /\ pc = "queue"
        /\ pq' = pq \ {q}
    BY <1>1 DEF Popped, graphVars
  <1>4. q[2] \in Nat
    BY DEF Inv, TypeOK
  <1>5. \A v \in DOMAIN dist : <<v, dist[v]>> # q
    BY <1>1, <1>2, <1>4
  <1>6. Phases'
    BY <1>3 DEF Inv, Phases, Nodes
  <1>7. Settled'
    BY <1>2, <1>3, <1>5 DEF Inv, Settled
  <1>8. Chain'
    BY <1>3 DEF Inv, Chain
  <1>9. QED
    BY <1>2, <1>6, <1>7, <1>8

LEMMA PopNodeStep == ASSUME Inv, PopNode PROVE Phases' /\ Tree' /\ Queued' /\ Settled' /\ NoCycle' /\ Chain'
  <1>1. PICK q \in pq : /\ Popped(q) /\ q[2] <= dist[q[1]] /\ q[1] # End
                        /\ todo' = {e \in edges : e[1] = q[1]} /\ pc' = "scan"
    BY DEF PopNode
  <1>2. /\ q = <<q[1], q[2]>> /\ q[1] \in DOMAIN dist /\ dist[q[1]] <= q[2]
        /\ Tree' /\ Queued' /\ NoCycle'
        /\ \A v \in DOMAIN dist : dist[v] \in Nat
        /\ \A v \in DOMAIN dist : Relaxed(v) => Relaxed(v)'
    BY <1>1, PopFacts
  <1>3. /\ UNCHANGED <<edges, hi, dist, prev, node, path>> /\ pc = "queue"
        /\ pq' = pq \ {q} /\ currNode' = q[1] /\ currCost' = q[2]
    BY <1>1 DEF Popped, graphVars
  <1>4. q[2] \in Nat
    BY DEF Inv, TypeOK
  <1>5. dist[q[1]] = q[2]
    BY <1>1, <1>2, <1>4
  <1>6. Phases'
    BY <1>1, <1>2, <1>3, <1>5 DEF Inv, Phases, Nodes
  <1>7. Settled'
    BY <1>1, <1>2, <1>3, <1>5 DEF Inv, Settled
  <1>8. Chain'
    BY <1>1, <1>3 DEF Inv, Chain
  <1>9. QED
    BY <1>2, <1>6, <1>7, <1>8

LEMMA PopEndStep == ASSUME Inv, PopEnd PROVE Phases' /\ Tree' /\ Queued' /\ Settled' /\ NoCycle' /\ Chain'
  <1>1. PICK q \in pq : /\ Popped(q) /\ q[2] <= dist[q[1]] /\ q[1] = End
                        /\ pc' = "back" /\ UNCHANGED todo
    BY DEF PopEnd
  <1>2. /\ q = <<q[1], q[2]>> /\ q[1] \in DOMAIN dist /\ dist[q[1]] <= q[2]
        /\ Tree' /\ Queued' /\ NoCycle'
        /\ \A v \in DOMAIN dist : dist[v] \in Nat
        /\ \A v \in DOMAIN dist : Relaxed(v) => Relaxed(v)'
    BY <1>1, PopFacts
  <1>3. /\ UNCHANGED <<edges, hi, dist, prev, node, path>> /\ pc = "queue"
        /\ pq' = pq \ {q} /\ currNode' = q[1] /\ currCost' = q[2]
    BY <1>1 DEF Popped, graphVars
  <1>4. q[2] \in Nat
    BY DEF Inv, TypeOK
  <1>5. dist[q[1]] = q[2]
    BY <1>1, <1>2, <1>4
  <1>6. Phases'
    BY <1>1, <1>2, <1>3, <1>5 DEF Inv, Phases, Nodes
  <1>7. Settled'
    BY <1>1, <1>2, <1>3, <1>5 DEF Inv, Settled
  <1>8. Chain'
    <2>1. path = <<>> /\ node = End
      BY <1>3 DEF Inv, Chain
    <2>2. QED
      BY <1>1, <1>3, <2>1 DEF Chain
  <1>9. QED
    BY <1>2, <1>6, <1>7, <1>8

LEMMA BeginStep == ASSUME Inv, Begin PROVE Phases' /\ Tree' /\ Queued' /\ Settled' /\ NoCycle' /\ Chain'
  <1>1. /\ dist' = [v \in {Start} |-> 0] /\ pq' = {<<Start, 0>>} /\ pc' = "queue"
        /\ UNCHANGED <<edges, lo, hi, prev, currNode, currCost, todo, node, path>>
        /\ pc = "check"
    BY DEF Begin, graphVars
  <1>2. DOMAIN prev = {} /\ currCost = 0 /\ path = <<>> /\ node = End
    BY <1>1 DEF Inv, Phases, Chain
  <1>3. DOMAIN dist' = {Start} /\ dist'[Start] = 0
    BY <1>1
  <1>4. Phases'
    BY <1>1, <1>3 DEF Phases
  <1>5. Tree' /\ Queued'
    BY <1>1, <1>2, <1>3 DEF Tree, Queued
  <1>6. Settled'
    BY <1>1, <1>3 DEF Settled
  <1>7. NoCycle' /\ Chain'
    BY <1>1, <1>2 DEF NoCycle, Chain
  <1>8. QED
    BY <1>4, <1>5, <1>6, <1>7

\* A better path to v exists only while v is not final: v is neither Start nor
\* currNode, and no node precedes another with a distance that still falls.
LEMMA BetterFacts ==
  ASSUME Inv, NEW e \in edges, Relax(e), Better(e[2], currCost + weight[e])
  PROVE  /\ e = <<currNode, e[2]>> /\ weight[e] \in Nat /\ lo[e] \in Nat /\ hi[e] \in Nat
         /\ lo[e] <= weight[e] /\ weight[e] <= hi[e]
         /\ currCost \in Nat /\ currNode \in DOMAIN dist /\ dist[currNode] = currCost
         /\ \A x \in DOMAIN dist : dist[x] \in Nat
         /\ e[2] \in DOMAIN dist => currCost + weight[e] < dist[e[2]]
         /\ e[2] # currNode /\ e[2] # Start /\ pc = "scan"
         /\ \A v \in DOMAIN prev : prev[v] # e[2]
         /\ UNCHANGED <<pc, edges, lo, hi, currNode, currCost, node, path>>
  <1> USE DEF Inv
  <1>1. /\ pc = "scan" /\ e \in todo
        /\ UNCHANGED <<pc, edges, lo, hi, currNode, currCost, node, path>>
    BY DEF Relax, graphVars
  <1>2. e = <<currNode, e[2]>> /\ weight[e] \in Nat /\ lo[e] \in Nat /\ hi[e] \in Nat
    BY <1>1, EdgeFacts DEF Phases
  <1>3. lo[e] <= weight[e] /\ weight[e] <= hi[e]
    BY DEF Bounds
  <1>4. currCost \in Nat /\ \A x \in DOMAIN dist : dist[x] \in Nat
    BY DEF TypeOK
  <1>5. currNode \in DOMAIN dist /\ dist[currNode] = currCost
    BY <1>1 DEF Phases
  <1>6. e[2] \in DOMAIN dist => currCost + weight[e] < dist[e[2]]
    BY DEF Better
  <1>7. e[2] # currNode
    BY <1>2, <1>4, <1>5, <1>6
  <1>8. e[2] # Start
    <2>1. Start \in DOMAIN dist /\ dist[Start] = 0
      BY <1>1 DEF Phases, Tree
    <2>2. QED
      BY <2>1, <1>2, <1>4, <1>6
  <1>9. \A v \in DOMAIN prev : prev[v] # e[2]
    <2> SUFFICES ASSUME NEW v \in DOMAIN prev, prev[v] = e[2] PROVE FALSE
      OBVIOUS
    <2>1. e[2] \in DOMAIN dist /\ dist[e[2]] <= currCost
      BY DEF Tree
    <2>2. QED
      BY <2>1, <1>2, <1>4, <1>6
  <1>10. QED
    BY <1>1, <1>2, <1>3, <1>4, <1>5, <1>6, <1>7, <1>8, <1>9

\* Following prev from v to currNode cannot lead back to v: the nodes of such a
\* cycle no farther than currNode would be one that was there before.
LEMMA ImproveNoCycle ==
  ASSUME Inv, NEW e \in edges, Relax(e), Better(e[2], currCost + weight[e]),
         prev' = With(prev, e[2], currNode)
  PROVE  NoCycle'
  <1> SUFFICES ASSUME NEW S \in SUBSET DOMAIN prev', S # {}, \A v \in S : prev'[v] \in S
               PROVE  FALSE
    BY DEF NoCycle
  <1> USE BetterFacts
  <1>1. /\ DOMAIN prev' = DOMAIN prev \cup {e[2]}
        /\ prev'[e[2]] = currNode
        /\ \A x \in DOMAIN prev : x # e[2] => prev'[x] = prev[x]
    BY DEF With
  <1>2. CASE e[2] \notin S
    <2>1. S \in SUBSET DOMAIN prev /\ \A v \in S : prev[v] \in S
      BY <1>1, <1>2
    <2>2. QED
      BY <2>1 DEF Inv, NoCycle
  <1>3. CASE e[2] \in S
    <2> DEFINE T == {v \in S : v # e[2] /\ dist[v] <= currCost}
    <2>1. T \in SUBSET DOMAIN prev
      BY <1>1
    <2>2. currNode \in T
      BY <1>1, <1>3
    <2>3. \A v \in T : prev[v] \in T
      <3> TAKE v \in T
      <3>1. prev[v] \in S
        BY <1>1
      <3>2. prev[v] # e[2]
        BY <2>1
      <3>3. dist[prev[v]] <= currCost
        BY <2>1 DEF Inv, Tree
      <3>4. QED
        BY <3>1, <3>2, <3>3
    <2>4. QED
      BY <2>1, <2>2, <2>3 DEF Inv, NoCycle
  <1>4. QED
    BY <1>2, <1>3

LEMMA ImproveStep ==
  ASSUME Inv, NEW e \in edges, Relax(e), Better(e[2], currCost + weight[e]),
         dist' = With(dist, e[2], currCost + weight[e]),
         prev' = With(prev, e[2], currNode),
         pq' = pq \cup {<<e[2], currCost + weight[e]>>}
  PROVE  Phases' /\ Tree' /\ Queued' /\ Settled' /\ NoCycle' /\ Chain'
  <1> DEFINE n == e[2]
             newCost == currCost + weight[e]
  <1>1. /\ DOMAIN dist' = DOMAIN dist \cup {n} /\ dist'[n] = newCost
        /\ \A x \in DOMAIN dist : x # n => dist'[x] = dist[x]
    BY DEF With
  <1>2. /\ DOMAIN prev' = DOMAIN prev \cup {n} /\ prev'[n] = currNode
        /\ \A x \in DOMAIN prev : x # n => prev'[x] = prev[x]
    BY DEF With
  <1>3. /\ e = <<currNode, n>> /\ weight[e] \in Nat /\ lo[e] \in Nat /\ hi[e] \in Nat
        /\ lo[e] <= weight[e] /\ weight[e] <= hi[e]
        /\ currCost \in Nat /\ currNode \in DOMAIN dist /\ dist[currNode] = currCost
        /\ \A x \in DOMAIN dist : dist[x] \in Nat
        /\ n \in DOMAIN dist => newCost < dist[n]
        /\ n # currNode /\ n # Start /\ pc = "scan"
        /\ \A v \in DOMAIN prev : prev[v] # n
        /\ UNCHANGED <<pc, edges, lo, hi, currNode, currCost, node, path>>
    BY BetterFacts
  <1>4. todo' = todo \ {e} /\ pq' = pq \cup {<<n, newCost>>}
    BY DEF Relax
  <1>5. newCost \in Nat /\ currCost <= newCost
        /\ currCost + lo[e] <= newCost /\ newCost <= currCost + hi[e]
    BY <1>3
  <1> HIDE DEF n, newCost
  <1>6. dist'[currNode] = currCost /\ \A x \in DOMAIN dist : dist'[x] <= dist[x]
    BY <1>1, <1>3, <1>5
  <1>7. Phases'
    BY <1>1, <1>3, <1>4, <1>6 DEF Inv, Phases
  <1>8. Tree'
    <2>1. DOMAIN prev' = DOMAIN dist' \ {Start}
      BY <1>1, <1>2, <1>3 DEF Inv, Tree
    <2>2. Start \in DOMAIN dist' => dist'[Start] = 0
      BY <1>1, <1>3 DEF Inv, Tree
    <2>3. ASSUME NEW v \in DOMAIN prev', v # n
          PROVE  /\ prev'[v] \in DOMAIN dist' /\ <<prev'[v], v>> \in edges'
                 /\ dist'[prev'[v]] <= currCost'
                 /\ dist'[prev'[v]] + lo'[<<prev'[v], v>>] <= dist'[v]
                 /\ dist'[v] <= dist'[prev'[v]] + hi'[<<prev'[v], v>>]
      <3>1. v \in DOMAIN prev /\ prev'[v] = prev[v] /\ prev[v] # n /\ v \in DOMAIN dist
        BY <2>3, <1>2, <1>3 DEF Inv, Tree
      <3>2. prev[v] \in DOMAIN dist
        BY <3>1 DEF Inv, Tree
      <3>3. dist'[prev[v]] = dist[prev[v]] /\ dist'[v] = dist[v]
        BY <3>1, <3>2, <2>3, <1>1
      <3>4. QED
        BY <3>1, <3>2, <3>3, <1>1, <1>3 DEF Inv, Tree
    <2>4. /\ prev'[n] \in DOMAIN dist' /\ <<prev'[n], n>> \in edges'
          /\ dist'[prev'[n]] <= currCost'
          /\ dist'[prev'[n]] + lo'[<<prev'[n], n>>] <= dist'[n]
          /\ dist'[n] <= dist'[prev'[n]] + hi'[<<prev'[n], n>>]
      BY <1>1, <1>2, <1>3, <1>5, <1>6
    <2>5. QED
      BY <2>1, <2>2, <2>3, <2>4 DEF Tree
  <1>9. Queued'
    <2> SUFFICES ASSUME NEW q \in pq'
                 PROVE  currCost <= q[2] /\ q[1] \in DOMAIN dist' /\ dist'[q[1]] <= q[2]
      BY <1>3 DEF Queued
    <2>1. CASE q \in pq
      <3>1. q[1] \in DOMAIN dist /\ dist[q[1]] <= q[2] /\ currCost <= q[2] /\ q[2] \in Nat
        BY <2>1 DEF Inv, Queued, TypeOK
      <3>2. q[1] \in DOMAIN dist' /\ dist'[q[1]] <= dist[q[1]] /\ dist'[q[1]] \in Nat
        BY <3>1, <1>1, <1>3, <1>5, <1>6
      <3>3. QED
        BY <3>1, <3>2, <1>3
    <2>2. CASE q = <<n, newCost>>
      BY <2>2, <1>1, <1>5
    <2>3. QED
      BY <2>1, <2>2, <1>4
  <1>10. Settled'
    <2>1. ASSUME NEW v \in DOMAIN dist, Relaxed(v) PROVE Relaxed(v)' /\ v # n
      <3>1. dist[v] <= currCost
        BY <2>1 DEF Relaxed
      <3>2. v # n /\ dist'[v] = dist[v]
        BY <3>1, <1>1, <1>3, <1>5
      <3>3. ASSUME NEW f \in edges, f[1] = v
            PROVE  f[2] \in DOMAIN dist' /\ dist'[f[2]] <= dist'[v] + hi'[f]
        <4>1. f[2] \in DOMAIN dist /\ dist[f[2]] <= dist[v] + hi[f]
          BY <2>1, <3>3 DEF Relaxed
        <4>2. dist'[f[2]] <= dist[f[2]] /\ dist'[f[2]] \in Nat
          BY <4>1, <1>1, <1>3, <1>5, <1>6
        <4>3. hi[f] \in Nat
          BY EdgeFacts DEF Inv
        <4>4. QED
          BY <4>1, <4>2, <4>3, <3>2, <1>1, <1>3
      <3>4. QED
        BY <3>1, <3>2, <3>3, <1>3 DEF Relaxed
    <2>2. ASSUME NEW v \in DOMAIN dist'
          PROVE  \/ <<v, dist'[v]>> \in pq'
                 \/ pc' \in {"scan", "back", "found"} /\ v = currNode'
                 \/ Relaxed(v)'
      <3>1. CASE v = n
        BY <3>1, <1>1, <1>4
      <3>2. CASE v # n
        <4>1. v \in DOMAIN dist /\ dist'[v] = dist[v]
          BY <3>2, <1>1
        <4>2. \/ <<v, dist[v]>> \in pq
              \/ pc \in {"scan", "back", "found"} /\ v = currNode
              \/ Relaxed(v)
          BY <4>1 DEF Inv, Settled
        <4>3. QED
          BY <4>1, <4>2, <2>1, <1>3, <1>4
      <3>3. QED
        BY <3>1, <3>2
    <2>3. ASSUME NEW f \in edges, f[1] = currNode, f \notin todo'
          PROVE  f[2] \in DOMAIN dist' /\ dist'[f[2]] <= currCost + hi[f]
      <3>1. CASE f = e
        BY <3>1, <1>1, <1>5 DEF n
      <3>2. CASE f # e
        <4>1. f[2] \in DOMAIN dist /\ dist[f[2]] <= currCost + hi[f]
          BY <2>3, <3>2, <1>3, <1>4 DEF Inv, Settled
        <4>2. dist'[f[2]] <= dist[f[2]] /\ dist'[f[2]] \in Nat
          BY <4>1, <1>1, <1>3, <1>5, <1>6
        <4>3. hi[f] \in Nat
          BY EdgeFacts DEF Inv
        <4>4. QED
          BY <4>1, <4>2, <4>3, <1>1, <1>3
      <3>3. QED
        BY <3>1, <3>2
    <2>4. End \in DOMAIN dist' => <<End, dist'[End]>> \in pq'
      BY <1>1, <1>3, <1>4 DEF Inv, Settled
    <2>5. QED
      BY <2>2, <2>3, <2>4, <1>3 DEF Settled
  <1>11. NoCycle'
    BY ImproveNoCycle
  <1>12. Chain'
    <2>1. path = <<>> /\ node = End /\ pc \notin {"back", "found"}
      BY <1>3 DEF Inv, Chain
    <2>2. QED
      BY <1>3, <2>1 DEF Chain
  <1>13. QED
    BY <1>7, <1>8, <1>9, <1>10, <1>11, <1>12

\* An edge that improves nothing: its end is within reach of currNode already.
LEMMA PassStep ==
  ASSUME Inv, NEW e \in edges, Relax(e), ~Better(e[2], currCost + weight[e]),
         UNCHANGED <<dist, prev, pq>>
  PROVE  Phases' /\ Tree' /\ Queued' /\ Settled' /\ NoCycle' /\ Chain'
  <1> USE DEF Inv
  <1>1. /\ pc = "scan" /\ e \in todo /\ todo' = todo \ {e}
        /\ UNCHANGED <<pc, edges, lo, hi, currNode, currCost, node, path>>
    BY DEF Relax, graphVars
  <1>2. /\ weight[e] \in Nat /\ hi[e] \in Nat /\ weight[e] <= hi[e]
        /\ currCost \in Nat /\ \A x \in DOMAIN dist : dist[x] \in Nat
    BY EdgeFacts DEF Bounds, TypeOK
  <1>3. e[2] \in DOMAIN dist /\ dist[e[2]] <= currCost + hi[e]
    BY <1>2 DEF Better
  <1>4. Phases' /\ Tree' /\ Queued' /\ NoCycle' /\ Chain'
    BY <1>1 DEF Phases, Nodes, Tree, Queued, NoCycle, Chain
  <1>5. Settled'
    BY <1>1, <1>3 DEF Settled, Relaxed
  <1>6. QED
    BY <1>4, <1>5

\* With its last edge looked at, the node popped last is relaxed.
LEMMA ScannedStep ==
  ASSUME Inv, Scanned
  PROVE  Phases' /\ Tree' /\ Queued' /\ Settled' /\ NoCycle' /\ Chain'
  <1> USE DEF Inv
  <1>1. /\ pc = "scan" /\ pc' = "queue" /\ todo = {}
        /\ UNCHANGED <<edges, lo, hi, dist, prev, pq, currNode, currCost, todo, node, path>>
    BY DEF Scanned, graphVars, searchVars
  <1>2. Phases' /\ Tree' /\ Queued' /\ NoCycle' /\ Chain'
    BY <1>1 DEF Phases, Nodes, Tree, Queued, NoCycle, Chain
  <1>3. Relaxed(currNode)
    <2>1. dist[currNode] = currCost /\ currCost \in Nat
      BY <1>1 DEF Phases, TypeOK
    <2>2. QED
      BY <1>1, <2>1 DEF Settled, Relaxed
  <1>4. Settled'
    BY <1>1, <1>3 DEF Settled, Relaxed
  <1>5. QED
    BY <1>2, <1>4

\* The next node of the path is not in it yet: else the nodes up to its first place
\* would be a cycle of prev.
LEMMA PrependStep ==
  ASSUME Inv, Prepend
  PROVE  Phases' /\ Tree' /\ Queued' /\ Settled' /\ NoCycle' /\ Chain'
  <1> USE DEF Inv
  <1>1. /\ pc = "back" /\ node # None
        /\ path' = <<node>> \o path
        /\ node' = IF node \in DOMAIN prev THEN prev[node] ELSE None
        /\ UNCHANGED <<pc, edges, lo, hi, dist, prev, pq, currNode, currCost, todo>>
    BY DEF Prepend, graphVars, searchVars
  <1>2. Phases' /\ Tree' /\ Queued' /\ Settled' /\ NoCycle'
    BY <1>1 DEF Phases, Nodes, Tree, Queued, Settled, Relaxed, NoCycle
  <1>3. path \in Seq(Vertices) /\ node \in Vertices
    BY <1>1 DEF TypeOK
  <1>4. /\ Len(path) \in Nat /\ Len(path') = Len(path) + 1 /\ path'[1] = node
        /\ \A i \in 1..Len(path) : path'[i + 1] = path[i]
    BY <1>1, <1>3
  <1>5. path # <<>> => path[1] \in DOMAIN prev /\ node = prev[path[1]]
    BY <1>1, NoneAssumption DEF Chain
  <1>6. node \in DOMAIN dist
    <2>1. CASE path = <<>>
      BY <2>1, <1>1 DEF Chain, Phases
    <2>2. CASE path # <<>>
      BY <2>2, <1>5 DEF Tree
    <2>3. QED
      BY <2>1, <2>2
  <1>7. ASSUME NEW j \in 1..Len(path), path[j] = node PROVE FALSE
    <2> DEFINE S == {path[i] : i \in 1..j}
    <2>1. path # <<>> /\ j \in Nat /\ 1 <= j /\ j <= Len(path)
      BY <1>3, <1>4
    <2>2. ASSUME NEW i \in 1..j PROVE path[i] \in DOMAIN prev /\ prev[path[i]] \in S
      <3>1. CASE i = 1
        BY <3>1, <2>1, <1>5, <1>7
      <3>2. CASE i # 1
        <4>1. i - 1 \in 1..(Len(path) - 1) /\ i - 1 \in 1..j /\ (i - 1) + 1 = i
          BY <3>2, <2>1, <1>4
        <4>2. path[i] \in DOMAIN prev /\ prev[path[i]] = path[i - 1]
          BY <4>1 DEF Chain
        <4>3. QED
          BY <4>1, <4>2
      <3>3. QED
        BY <3>1, <3>2
    <2>3. S \in SUBSET DOMAIN prev /\ S # {} /\ \A v \in S : prev[v] \in S
      BY <2>1, <2>2
    <2>4. QED
      BY <2>3 DEF NoCycle
  <1>8. Chain'
    <2>1. path' # <<>> /\ path'[Len(path')] = End
      <3>1. CASE path = <<>>
        BY <3>1, <1>1, <1>4 DEF Chain
      <3>2. CASE path # <<>>
        <4>1. Len(path) \in 1..Len(path) /\ path[Len(path)] = End
          BY <3>2, <1>3, <1>4 DEF Chain
        <4>2. QED
          BY <4>1, <1>4
      <3>3. QED
        BY <3>1, <3>2
    <2>2. node' = IF path'[1] \in DOMAIN prev' THEN prev'[path'[1]] ELSE None
      BY <1>1, <1>4
    <2>3. \A i \in 1..Len(path') : i = 1 \/ (i - 1 \in 1..Len(path) /\ path'[i] = path[i - 1])
      <3> TAKE i \in 1..Len(path')
      <3>1. i # 1 => i - 1 \in 1..Len(path) /\ (i - 1) + 1 = i
        BY <1>4
      <3>2. QED
        BY <3>1, <1>4
    <2>4. \A i \in 1..Len(path') : path'[i] \in DOMAIN dist'
      BY <2>3, <1>1, <1>4, <1>6 DEF Chain
    <2>5. ASSUME NEW i \in 1..(Len(path') - 1)
          PROVE  path'[i + 1] \in DOMAIN prev' /\ prev'[path'[i + 1]] = path'[i]
      <3>1. i \in 1..Len(path) /\ path'[i + 1] = path[i]
        BY <1>4
      <3>2. CASE i = 1
        <4>1. path # <<>>
          BY <3>1, <1>3, <1>4
        <4>2. QED
          BY <3>1, <3>2, <4>1, <1>1, <1>4, <1>5
      <3>3. CASE i # 1
        <4>1. i - 1 \in 1..(Len(path) - 1) /\ (i - 1) + 1 = i /\ i \in 1..Len(path')
          BY <3>1, <3>3, <1>4
        <4>2. path[i] \in DOMAIN prev /\ prev[path[i]] = path[i - 1]
          BY <4>1 DEF Chain
        <4>3. path'[i] = path[i - 1]
          BY <4>1, <2>3, <3>3
        <4>4. QED
          BY <3>1, <4>2, <4>3, <1>1
      <3>4. QED
        BY <3>2, <3>3
    <2>6. ASSUME NEW i \in 1..Len(path'), NEW j \in 1..Len(path'), path'[i] = path'[j]
          PROVE  i = j
      <3>1. CASE i = 1 /\ j = 1
        BY <3>1
      <3>2. CASE i = 1 /\ j # 1
        BY <3>2, <2>3, <2>6, <1>4, <1>7
      <3>3. CASE i # 1 /\ j = 1
        BY <3>3, <2>3, <2>6, <1>4, <1>7
      <3>4. CASE i # 1 /\ j # 1
        <4>1. i - 1 \in 1..Len(path) /\ j - 1 \in 1..Len(path) /\ path[i - 1] = path[j - 1]
          BY <3>4, <2>3, <2>6
        <4>2. i - 1 = j - 1
          BY <4>1 DEF Chain
        <4>3. QED
          BY <4>2, <1>4
      <3>5. QED
        BY <3>1, <3>2, <3>3, <3>4
    <2>7. QED
      BY <2>1, <2>2, <2>4, <2>5, <2>6, <1>1 DEF Chain
  <1>9. QED
    BY <1>2, <1>8

\* A store moves hi up and lo down, and touches nothing the search owns.
LEMMA StoreStep ==
  ASSUME Inv, TypeOK', StoreWeight
  PROVE  Phases' /\ Tree' /\ Queued' /\ Settled' /\ NoCycle' /\ Chain'
  <1> USE DEF Inv
  <1>1. UNCHANGED <<pc, edges, dist, prev, pq, currNode, currCost, todo, node, path>>
    BY DEF StoreWeight, searchVars
  <1>2. PICK f \in edges, w \in Weights :
          /\ lo' = [lo EXCEPT ![f] = IF w < @ THEN w ELSE @]
          /\ hi' = [hi EXCEPT ![f] = IF w > @ THEN w ELSE @]
    BY DEF StoreWeight
  <1>3. w \in Nat /\ \A e \in edges : lo[e] \in Nat /\ hi[e] \in Nat
    BY EdgeFacts, WeightsAssumption
  <1>4. \A e \in edges : /\ lo'[e] \in Nat /\ hi'[e] \in Nat
                         /\ lo'[e] <= lo[e] /\ hi[e] <= hi'[e]
    BY <1>2, <1>3 DEF TypeOK
  <1>5. Phases' /\ Queued' /\ NoCycle' /\ Chain'
    BY <1>1 DEF Phases, Nodes, Queued, NoCycle, Chain
  <1>6. currCost \in Nat /\ \A x \in DOMAIN dist : dist[x] \in Nat
    BY DEF TypeOK
  <1>7. Tree'
    <2>1. ASSUME NEW v \in DOMAIN prev
          PROVE  /\ dist[prev[v]] + lo'[<<prev[v], v>>] <= dist[v]
                 /\ dist[v] <= dist[prev[v]] + hi'[<<prev[v], v>>]
      <3>1. /\ prev[v] \in DOMAIN dist /\ v \in DOMAIN dist /\ <<prev[v], v>> \in edges
            /\ dist[prev[v]] + lo[<<prev[v], v>>] <= dist[v]
            /\ dist[v] <= dist[prev[v]] + hi[<<prev[v], v>>]
        BY DEF Tree
      <3>2. QED
        BY <3>1, <1>3, <1>4, <1>6
    <2>2. QED
      BY <2>1, <1>1 DEF Tree
  <1>8. \A v \in DOMAIN dist : Relaxed(v) => Relaxed(v)'
    BY <1>1, <1>3, <1>4, <1>6 DEF Relaxed
  <1>9. pc = "scan" =>
          \A e \in edges : e[1] = currNode /\ e \notin todo =>
            e[2] \in DOMAIN dist /\ dist[e[2]] <= currCost + hi'[e]
    BY <1>3, <1>4, <1>6 DEF Settled
  <1>10. Settled'
    BY <1>1, <1>8, <1>9 DEF Settled
  <1>11. QED
    BY <1>5, <1>7, <1>10

LEMMA GetEdgesStep ==
  ASSUME Inv, GetEdges
  PROVE  Phases' /\ Tree' /\ Queued' /\ Settled' /\ NoCycle' /\ Chain'
  <1>1. /\ pc = "start" /\ pc' = "check"
        /\ UNCHANGED <<dist, prev, pq, currNode, currCost, todo, node, path>>
    BY DEF GetEdges, searchVars
  <1>2. DOMAIN dist = {} /\ DOMAIN prev = {} /\ pq = {}
    BY <1>1 DEF Inv, Phases
  <1>3. QED
    BY <1>1, <1>2 DEF Inv, Phases, Nodes, Tree, Queued, Settled, NoCycle, Chain

\* The steps that only move the search on.
LEMMA MoveStep ==
  ASSUME Inv, Unknown \/ Exhausted \/ Return \/ UNCHANGED vars
  PROVE  Phases' /\ Tree' /\ Queued' /\ Settled' /\ NoCycle' /\ Chain'
  <1> USE DEF Inv
  <1>1. UNCHANGED <<edges, lo, hi, dist, prev, pq, currNode, currCost, todo, node, path>>
    BY DEF Unknown, Exhausted, Return, vars, graphVars, searchVars
  <1>2. Tree' /\ Queued' /\ NoCycle'
    BY <1>1 DEF Tree, Queued, NoCycle
  <1>3. Phases'
    BY <1>1 DEF Phases, Nodes, Unknown, Exhausted, Return, vars
  <1>4. Settled'
    BY <1>1 DEF Settled, Relaxed, Phases, Unknown, Exhausted, Return, vars
  <1>5. Chain'
    BY <1>1 DEF Chain, Unknown, Exhausted, Return, vars
  <1>6. QED
    BY <1>2, <1>3, <1>4, <1>5

LEMMA StepInv == Inv /\ [Next]_vars => Inv'
  <1> SUFFICES ASSUME Inv, [Next]_vars PROVE Inv'
    OBVIOUS
  <1>1. TypeOK' /\ Bounds'
    BY StepType, StepBounds DEF Inv
  <1>2. Phases' /\ Tree' /\ Queued' /\ Settled' /\ NoCycle' /\ Chain'
    <2>1. CASE GetEdges
      BY <2>1, GetEdgesStep
    <2>2. CASE Begin
      BY <2>2, BeginStep
    <2>3. CASE PopStale \/ PopNode \/ PopEnd
      BY <2>3, PopStaleStep, PopNodeStep, PopEndStep
    <2>4. CASE \E e \in edges : Relax(e)
      <3>1. PICK e \in edges : Relax(e)
        BY <2>4
      <3>2. CASE Better(e[2], currCost + weight[e])
        BY <3>1, <3>2, ImproveStep DEF Relax
      <3>3. CASE ~Better(e[2], currCost + weight[e])
        BY <3>1, <3>3, PassStep DEF Relax
      <3>4. QED
        BY <3>2, <3>3
    <2>5. CASE Scanned
      BY <2>5, ScannedStep
    <2>6. CASE Prepend
      BY <2>6, PrependStep
    <2>7. CASE StoreWeight
      BY <2>7, <1>1, StoreStep
    <2>8. CASE Unknown \/ Exhausted \/ Return \/ UNCHANGED vars
      BY <2>8, MoveStep
    <2>9. QED
      BY <2>1, <2>2, <2>3, <2>4, <2>5, <2>6, <2>7, <2>8 DEF Next, Search
  <1>3. QED
    BY <1>1, <1>2 DEF Inv

LEMMA InvHolds == Spec => []Inv
  BY InitInv, StepInv, PTL DEF Spec

------------------------------------------------------------------------------
\* A nonempty set of naturals has a least element.
NatLess == {p \in Nat \X Nat : p[1] < p[2]}

LEMMA Least ==
  ASSUME NEW T \in SUBSET Nat, T # {}
  PROVE  \E m \in T : \A k \in T : m <= k
  <1>1. OpToRel(<, Nat) = NatLess
    BY Zenon DEF OpToRel, NatLess
  <1>2. IsWellFoundedOn(NatLess, Nat)
    BY <1>1, NatLessThanWellFounded
  <1>3. PICK m \in T : \A k \in T : ~(<<k, m>> \in NatLess)
    BY <1>2, WFMin
  <1>4. ASSUME NEW k \in T PROVE m <= k
    <2>1. k \in Nat /\ m \in Nat /\ <<k, m>> \notin NatLess
      BY <1>3
    <2>2. ~(k < m)
      BY <2>1 DEF NatLess
    <2>3. QED
      BY <2>1, <2>2
  <1>5. QED
    BY <1>4

\* The lengths of the beginnings of a walk.
Lengths(p, w, u) ==
  \A i \in 1..Len(p) : u[i] = IF i = 1 THEN 0 ELSE u[i - 1] + w[<<p[i - 1], p[i]>>]

\* The recursive function in Length exists, and its values are naturals.
LEMMA LengthsExist ==
  ASSUME NEW p, NEW w, Len(p) \in Nat \ {0},
         \A i \in 1..(Len(p) - 1) : w[<<p[i], p[i + 1]>>] \in Nat
  PROVE  \E u \in [1..Len(p) -> Nat] : Lengths(p, w, u) /\ Length(p, w) = u[Len(p)]
  <1> DEFINE n == Len(p)
             step(i) == w[<<p[i - 1], p[i]>>]
             Upto(k, u) == \A i \in 1..k : u[i] = IF i = 1 THEN 0 ELSE u[i - 1] + step(i)
             P(k) == \E u \in [1..k -> Nat] : Upto(k, u)
             Bad == {k \in 1..n : ~P(k)}
  <1>1. \A i \in 2..n : step(i) \in Nat
    <2>1. ASSUME NEW i \in 2..n PROVE step(i) \in Nat
      <3>1. i - 1 \in 1..(n - 1) /\ (i - 1) + 1 = i
        OBVIOUS
      <3>2. QED
        BY <3>1
    <2>2. QED
      BY <2>1
  <1> HIDE DEF step
  <1>2. P(1)
    <2> DEFINE u == [i \in 1..1 |-> 0]
    <2>1. u \in [1..1 -> Nat] /\ Upto(1, u)
      OBVIOUS
    <2>2. QED
      BY <2>1
  <1>3. ASSUME NEW k \in 1..(n - 1), P(k) PROVE P(k + 1)
    <2>1. PICK u \in [1..k -> Nat] : Upto(k, u)
      BY <1>3
    <2> DEFINE v == [i \in 1..(k + 1) |-> IF i = k + 1 THEN u[k] + step(k + 1) ELSE u[i]]
    <2>2. u[k] + step(k + 1) \in Nat
      BY <1>1, SMTT(30)
    <2>3. v \in [1..(k + 1) -> Nat]
      BY <2>2
    <2>4. ASSUME NEW i \in 1..(k + 1)
          PROVE  v[i] = IF i = 1 THEN 0 ELSE v[i - 1] + step(i)
      <3>1. CASE i = k + 1
        <4>1. v[i] = u[k] + step(i) /\ v[k] = u[k] /\ i - 1 = k /\ i # 1
          BY <3>1
        <4> HIDE DEF v
        <4>2. QED
          BY <4>1
      <3>2. CASE i # k + 1
        <4>1. i \in 1..k /\ v[i] = u[i] /\ (i # 1 => v[i - 1] = u[i - 1])
          BY <3>2
        <4> HIDE DEF v
        <4>2. QED
          BY <2>1, <4>1
      <3>3. QED
        BY <3>1, <3>2
    <2> HIDE DEF v
    <2>5. QED
      BY <2>3, <2>4
  <1>4. Bad = {}
    <2> SUFFICES ASSUME Bad # {} PROVE FALSE
      OBVIOUS
    <2>1. Bad \in SUBSET Nat
      OBVIOUS
    <2>2. PICK m \in Bad : \A k \in Bad : m <= k
      <3> HIDE DEF Bad
      <3>1. QED
        BY <2>1, Least
    <2> HIDE DEF P
    <2>3. m # 1
      BY <1>2
    <2>4. m - 1 \in 1..(n - 1) /\ m - 1 \notin Bad
      BY <2>2, <2>3
    <2>5. P((m - 1) + 1)
      BY <1>3, <2>4
    <2>6. QED
      BY <2>5
  <1>5. P(n)
    <2> HIDE DEF P
    <2>1. QED
      BY <1>4
  <1> DEFINE R(u) == [i \in 1..n |-> IF i = 1 THEN 0 ELSE u[i - 1] + step(i)]
             c == CHOOSE u : u = R(u)
  <1>6. \E u : u = R(u)
    <2>1. PICK u \in [1..n -> Nat] : Upto(n, u)
      BY <1>5
    <2>2. u = [i \in 1..n |-> u[i]]
      OBVIOUS
    <2>3. u = R(u)
      BY <2>1, <2>2
    <2>4. QED
      BY <2>3
  <1>7. c = R(c)
    <2> HIDE DEF R
    <2>1. QED
      BY <1>6
  <1>8. Length(p, w) = c[n]
    BY Zenon DEF Length, step
  <1> HIDE DEF c
  <1>9. Upto(n, c) /\ DOMAIN c = 1..n
    BY <1>7
  <1>10. \A i \in 1..n : c[i] \in Nat
    <2> DEFINE Off == {i \in 1..n : c[i] \notin Nat}
    <2> SUFFICES ASSUME Off # {} PROVE FALSE
      OBVIOUS
    <2>1. Off \in SUBSET Nat
      OBVIOUS
    <2>2. PICK m \in Off : \A k \in Off : m <= k
      <3> HIDE DEF Off
      <3>1. QED
        BY <2>1, Least
    <2>3. m # 1 /\ m \in 2..n
      BY <1>9
    <2>4. m - 1 \in 1..n /\ c[m - 1] \in Nat
      BY <2>2, <2>3
    <2>5. c[m] = c[m - 1] + step(m)
      BY <1>9, <2>3
    <2>6. QED
      BY <1>1, <2>3, <2>4, <2>5
  <1>11. c = [i \in 1..n |-> c[i]]
    <2> DEFINE r == [i \in 1..n |-> IF i = 1 THEN 0 ELSE c[i - 1] + step(i)]
    <2>1. c = r /\ r = [i \in 1..n |-> r[i]]
      BY <1>7
    <2> HIDE DEF r
    <2>2. QED
      BY <2>1
  <1>12. c \in [1..n -> Nat]
    BY <1>10, <1>11
  <1>13. Lengths(p, w, c)
    BY <1>9 DEF Lengths, step
  <1>14. QED
    BY <1>8, <1>12, <1>13

------------------------------------------------------------------------------
\* Every variable keeps its type, whatever AddNode stores during the search.
THEOREM TypeCorrect == Spec => []TypeOK
  <1>1. Inv => TypeOK
    BY DEF Inv
  <1>2. QED
    BY <1>1, InvHolds, PTL

\* The predecessors the search records never form a cycle, so the loop that
\* collects the path from them ends.
THEOREM Acyclic == Spec => []NoCycle
  <1>1. Inv => NoCycle
    BY DEF Inv
  <1>2. QED
    BY <1>1, InvHolds, PTL

\* The path returned is a path of the list from Start to End without a repeated
\* node, and the cost returned is its length in weights its edges had.
THEOREM RealPath == Spec => []PathIsReal
  <1>1. ASSUME Inv, pc = "found" PROVE PathIsReal
    <2> USE <1>1 DEF Inv
    <2>1. path \in Seq(Vertices) /\ path # <<>>
      BY <1>1, NoneAssumption, EndsAssumption DEF Chain, TypeOK
    <2>2. Len(path) \in Nat /\ 1 \in 1..Len(path) /\ path[1] \in Vertices
      BY <2>1
    <2>3. path[Len(path)] = End
      BY <2>1 DEF Chain
    <2>4. path[1] \in DOMAIN dist
      BY <2>2 DEF Chain
    <2>5. path[1] \notin DOMAIN prev
      <3> SUFFICES ASSUME path[1] \in DOMAIN prev PROVE FALSE
        OBVIOUS
      <3>1. prev[path[1]] = None
        BY <2>1 DEF Chain
      <3>2. prev[path[1]] \in Vertices
        BY DEF TypeOK
      <3>3. QED
        BY <3>1, <3>2, NoneAssumption
    <2>6. path[1] = Start /\ dist[Start] = 0
      BY <2>4, <2>5 DEF Tree
    <2>7. dist[End] = currCost
      BY DEF Phases
    <2>8. ASSUME NEW i \in 1..(Len(path) - 1)
          PROVE  LET e == <<path[i], path[i + 1]>> IN
                 e \in edges /\ dist[path[i + 1]] - dist[path[i]] \in lo[e]..hi[e]
      <3> DEFINE v == path[i + 1]
                 e == <<path[i], v>>
      <3>1. v \in DOMAIN prev /\ prev[v] = path[i]
        BY DEF Chain
      <3>2. /\ prev[v] \in DOMAIN dist /\ v \in DOMAIN dist /\ e \in edges
            /\ dist[prev[v]] + lo[e] <= dist[v] /\ dist[v] <= dist[prev[v]] + hi[e]
        BY <3>1 DEF Tree
      <3>3. dist[prev[v]] \in Nat /\ dist[v] \in Nat /\ lo[e] \in Nat /\ hi[e] \in Nat
        BY <3>2, EdgeFacts DEF TypeOK
      <3>4. QED
        BY <3>1, <3>2, <3>3
    <2>9. \A i, j \in 1..Len(path) : path[i] = path[j] => i = j
      BY DEF Chain
    <2>10. QED
      BY <2>1, <2>3, <2>6, <2>7, <2>8, <2>9 DEF PathIsReal
  <1>2. Inv => PathIsReal
    BY <1>1 DEF PathIsReal
  <1>3. QED
    BY <1>2, InvHolds, PTL

\* A node's distance, as far as the answer's cost.
Potential ==
  [v \in Vertices |-> IF v \in DOMAIN dist /\ dist[v] < currCost THEN dist[v] ELSE currCost]

\* No path from Start to End is shorter than the cost returned, if every edge
\* counts with the greatest weight it had while the search ran: there is a
\* potential that is 0 at Start, the cost at End, and rises along no edge by more
\* than that weight.  Without a store the search is exact.
NoShorterPath ==
  pc = "found" =>
    /\ Potential[Start] = 0
    /\ Potential[End] = currCost
    /\ \A e \in edges : Potential[e[2]] <= Potential[e[1]] + hi[e]

\* Dijkstra answers with an infinite cost only when no path exists: an end has no
\* edge, or some set holds Start and not End and no edge leaves it.  A store to a
\* weight never hides a path.
NoneMeansUnreachable ==
  pc = "none" /\ {Start, End} \subseteq Nodes =>
    \E S \in SUBSET Vertices :
      /\ Start \in S /\ End \notin S
      /\ \A e \in edges : e[1] \in S => e[2] \in S

\* The cost returned is no more than the length of any path from Start to End in
\* the greatest weight each edge had during the search: the distances, cut off at
\* that cost, are a potential that shows it.
THEOREM ShortestPath == Spec => []NoShorterPath
  <1>1. ASSUME Inv, pc = "found" PROVE NoShorterPath
    <2> USE <1>1 DEF Inv
    <2>1. /\ Start \in DOMAIN dist /\ dist[Start] = 0
          /\ currNode = End /\ End \in DOMAIN dist /\ dist[End] = currCost
      BY DEF Phases, Tree
    <2>2. currCost \in Nat /\ \A v \in DOMAIN dist : dist[v] \in Nat /\ v \in Vertices
      BY DEF TypeOK
    <2>3. Potential[Start] = 0 /\ Potential[End] = currCost
      BY <2>1, <2>2 DEF Potential
    <2>4. \A v \in Vertices :
            /\ Potential[v] \in Nat /\ Potential[v] <= currCost
            /\ v \in DOMAIN dist => Potential[v] <= dist[v]
            /\ Potential[v] < currCost => v \in DOMAIN dist /\ Potential[v] = dist[v]
      BY <2>2 DEF Potential
    <2>5. ASSUME NEW e \in edges PROVE Potential[e[2]] <= Potential[e[1]] + hi[e]
      <3>1. e[1] \in Vertices /\ e[2] \in Vertices /\ hi[e] \in Nat
        BY EdgeFacts
      <3>2. CASE Potential[e[1]] < currCost
        <4>1. e[1] \in DOMAIN dist /\ Potential[e[1]] = dist[e[1]] /\ dist[e[1]] < currCost
          BY <3>1, <3>2, <2>4
        <4>2. <<e[1], dist[e[1]]>> \notin pq
          <5> SUFFICES ASSUME <<e[1], dist[e[1]]>> \in pq PROVE FALSE
            OBVIOUS
          <5>1. currCost <= <<e[1], dist[e[1]]>>[2]
            BY DEF Queued
          <5>2. QED
            BY <5>1, <4>1, <2>2
        <4>3. e[1] # currNode
          BY <4>1, <2>1, <2>2
        <4>4. Relaxed(e[1])
          BY <4>1, <4>2, <4>3 DEF Settled
        <4>5. e[2] \in DOMAIN dist /\ dist[e[2]] <= dist[e[1]] + hi[e]
          BY <4>4 DEF Relaxed
        <4>6. QED
          BY <4>1, <4>5, <2>2, <2>4, <3>1
      <3>3. CASE ~(Potential[e[1]] < currCost)
        BY <3>1, <3>3, <2>2, <2>4
      <3>4. QED
        BY <3>2, <3>3
    <2>6. QED
      BY <2>3, <2>5 DEF NoShorterPath
  <1>2. Inv => NoShorterPath
    BY <1>1 DEF NoShorterPath
  <1>3. QED
    BY <1>2, InvHolds, PTL

\* The search gives up only when End cannot be reached: the nodes it reached are a
\* set no edge leaves.
THEOREM Unreachable == Spec => []NoneMeansUnreachable
  <1>1. ASSUME Inv, pc = "none", {Start, End} \subseteq Nodes PROVE NoneMeansUnreachable
    <2> USE <1>1 DEF Inv
    <2>1. pq = {} /\ Start \in DOMAIN dist
      BY DEF Phases
    <2>2. End \notin DOMAIN dist
      BY <2>1 DEF Settled
    <2>3. \A e \in edges : e[1] \in DOMAIN dist => e[2] \in DOMAIN dist
      BY <2>1 DEF Settled, Relaxed
    <2>4. DOMAIN dist \in SUBSET Vertices
      BY DEF TypeOK
    <2>5. QED
      BY <2>1, <2>2, <2>3, <2>4 DEF NoneMeansUnreachable
  <1>2. Inv => NoneMeansUnreachable
    BY <1>1 DEF NoneMeansUnreachable
  <1>3. QED
    BY <1>2, InvHolds, PTL

\* Each node is scanned once at most, whatever AddNode stores meanwhile: the distance
\* of a closed node is no greater than the entry popped last, and no path found from
\* then on is shorter than that entry.
THEOREM Once == Spec => ScannedOnce
  <1>1. ASSUME Inv, [Next]_vars, NEW v \in Vertices, Closed(v)
        PROVE  dist'[v] = dist[v] /\ Closed(v)'
    <2> USE <1>1 DEF Inv
    <2>1. dist[v] \in Nat /\ currCost \in Nat /\ dist[v] <= currCost
      BY DEF Closed, Settled, Relaxed, Phases, TypeOK
    <2>2. CASE Begin
      BY <2>2 DEF Begin, Phases, Closed
    <2>3. ASSUME NEW e \in edges, Relax(e) PROVE dist'[v] = dist[v] /\ Closed(v)'
      <3>1. weight[e] \in Nat
        BY EdgeFacts
      <3>2. CASE UNCHANGED <<dist, pq>>
        BY <3>2 DEF Closed
      <3>3. CASE /\ Better(e[2], currCost + weight[e])
                 /\ dist' = With(dist, e[2], currCost + weight[e])
                 /\ pq' = pq \cup {<<e[2], currCost + weight[e]>>}
        <4>1. v # e[2]
          BY <2>1, <3>1, <3>3 DEF Better, Closed
        <4>2. QED
          BY <3>3, <4>1 DEF With, Closed
      <3>4. QED
        BY <2>3, <3>2, <3>3 DEF Relax
    <2>4. CASE dist' = dist /\ pq' \subseteq pq
      BY <2>4 DEF Closed
    <2>5. QED
      BY <2>2, <2>3, <2>4
         DEF Next, Search, GetEdges, Unknown, PopStale, PopNode, PopEnd, Popped, Exhausted, Scanned,
             Prepend, Return, StoreWeight, vars, searchVars
  <1>2. Inv /\ [Next]_vars => [\A v \in Vertices : Closed(v) => dist'[v] = dist[v] /\ Closed(v)']_vars
    BY <1>1
  <1>3. QED
    BY <1>2, InvHolds, PTL DEF Spec, ScannedOnce

------------------------------------------------------------------------------
\* The search against all routes there are.

\* What a route is, and that it has a length.
LEMMA RouteFacts ==
  ASSUME NEW p \in Routes
  PROVE  /\ Len(p) \in Nat \ {0} /\ p \in [1..Len(p) -> Vertices]
         /\ p[1] = Start /\ p[Len(p)] = End /\ Len(p) # 1
         /\ \A i \in 1..(Len(p) - 1) : <<p[i], p[i + 1]>> \in edges
  <1>1. PICK n \in 1..Cardinality(Vertices) : p \in [1..n -> Vertices]
    BY DEF Routes, Walks
  <1>2. n \in Nat \ {0} /\ Len(p) = n
    BY <1>1, VerticesAssumption, FS_CardinalityType
  <1>3. p[1] = Start /\ p[Len(p)] = End
    BY DEF Routes, Walks
  <1>4. Len(p) # 1
    BY <1>3, DistinctAssumption
  <1>5. QED
    BY <1>1, <1>2, <1>3, <1>4 DEF Routes

LEMMA RouteLength ==
  ASSUME TypeOK, NEW p \in Routes, NEW w \in {lo, hi, weight}
  PROVE  \E u \in [1..Len(p) -> Nat] : Lengths(p, w, u) /\ Length(p, w) = u[Len(p)]
  <1>1. \A i \in 1..(Len(p) - 1) : w[<<p[i], p[i + 1]>>] \in Nat
    BY RouteFacts, EdgeFacts
  <1>2. QED
    BY <1>1, RouteFacts, LengthsExist

\* What holds at the start of a walk and carries over to each next position holds
\* at its end.
LEMMA Along ==
  ASSUME NEW n \in Nat \ {0}, NEW T \in SUBSET (1..n), 1 \in T,
         \A i \in 1..(n - 1) : i \in T => i + 1 \in T
  PROVE  n \in T
  <1> DEFINE Bad == (1..n) \ T
  <1> SUFFICES ASSUME Bad # {} PROVE FALSE
    OBVIOUS
  <1>1. Bad \in SUBSET Nat
    OBVIOUS
  <1>2. PICK m \in Bad : \A k \in Bad : m <= k
    <2> HIDE DEF Bad
    <2>1. QED
      BY <1>1, Least
  <1>3. m - 1 \in 1..(n - 1) /\ m - 1 \notin Bad
    BY <1>2
  <1>4. (m - 1) + 1 \in T
    BY <1>3
  <1>5. QED
    BY <1>2, <1>4

\* A potential that rises along no edge by more than its weight rises along no walk
\* by more than its length.
LEMMA PotentialBound ==
  ASSUME TypeOK, NoShorterPath, pc = "found", NEW p \in Routes
  PROVE  currCost <= Length(p, hi)
  <1> DEFINE n == Len(p)
  <1>1. /\ n \in Nat \ {0} /\ p \in [1..n -> Vertices]
        /\ p[1] = Start /\ p[n] = End
        /\ \A i \in 1..(n - 1) : <<p[i], p[i + 1]>> \in edges
    BY RouteFacts
  <1>2. PICK u \in [1..n -> Nat] : Lengths(p, hi, u) /\ Length(p, hi) = u[n]
    BY RouteLength
  <1>3. /\ Potential[Start] = 0 /\ Potential[End] = currCost
        /\ \A e \in edges : Potential[e[2]] <= Potential[e[1]] + hi[e]
    BY DEF NoShorterPath
  <1>4. \A v \in Vertices : Potential[v] \in Nat
    BY DEF TypeOK, Potential
  <1> DEFINE T == {i \in 1..n : Potential[p[i]] <= u[i]}
  <1>5. 1 \in T
    <2>1. 1 \in 1..Len(p)
      BY <1>1
    <2>2. u[1] = 0
      BY <1>2, <2>1 DEF Lengths
    <2>3. QED
      BY <1>1, <1>3, <2>1, <2>2
  <1>6. ASSUME NEW i \in 1..(n - 1), i \in T PROVE i + 1 \in T
    <2> DEFINE e == <<p[i], p[i + 1]>>
    <2>1. i + 1 \in 1..n /\ i + 1 # 1 /\ (i + 1) - 1 = i
      BY <1>1
    <2>2. u[i + 1] = u[i] + hi[e]
      BY <1>2, <2>1 DEF Lengths
    <2>3. Potential[p[i + 1]] <= Potential[p[i]] + hi[e]
      BY <1>1, <1>3
    <2>4. hi[e] \in Nat
      BY <1>1, EdgeFacts
    <2>5. Potential[p[i]] \in Nat /\ Potential[p[i + 1]] \in Nat /\ u[i] \in Nat
      BY <1>1, <1>4, <2>1, SMTT(30)
    <2> HIDE DEF e
    <2>6. QED
      BY <1>6, <2>1, <2>2, <2>3, <2>4, <2>5
  <1>7. n \in T
    <2> HIDE DEF T, n
    <2>1. T \in SUBSET (1..n)
      BY DEF T
    <2>2. QED
      BY <1>1, <1>5, <1>6, <2>1, Along
  <1>8. QED
    BY <1>1, <1>2, <1>3, <1>7

\* The path found is a route, and dist rises along it at least as fast as its length
\* in the least weights.
LEMMA FoundRoute ==
  ASSUME TypeOK, PathIsReal, pc = "found"
  PROVE  path \in Routes
  <1> DEFINE n == Len(path)
  <1>1. /\ path \in Seq(Vertices) /\ path # <<>> /\ path[1] = Start /\ path[n] = End
        /\ \A i, j \in 1..n : path[i] = path[j] => i = j
        /\ \A i \in 1..(n - 1) : <<path[i], path[i + 1]>> \in edges
    BY DEF TypeOK, PathIsReal
  <1>2. n \in Nat \ {0} /\ path \in [1..n -> Vertices]
    BY <1>1
  <1>3. n <= Cardinality(Vertices)
    <2>1. IsFiniteSet(1..n) /\ Cardinality(1..n) = n
      BY <1>2, FS_Interval
    <2>2. Cardinality(Vertices) \in Nat
      BY VerticesAssumption, FS_CardinalityType
    <2>3. path \in Injection(1..n, Vertices)
      BY <1>1, <1>2 DEF Injection, IsInjective
    <2>4. QED
      BY <2>1, <2>2, <2>3, VerticesAssumption, FS_Injection
  <1>4. n \in 1..Cardinality(Vertices)
    BY <1>2, <1>3, VerticesAssumption, FS_CardinalityType
  <1> HIDE DEF n
  <1>5. path \in Walks
    BY <1>1, <1>2, <1>4 DEF Walks, n
  <1>6. QED
    BY <1>1, <1>5 DEF Routes, n

LEMMA FoundLength ==
  ASSUME Inv, PathIsReal, pc = "found"
  PROVE  Length(path, lo) <= currCost
  <1> USE DEF Inv
  <1> DEFINE n == Len(path)
  <1>1. path \in Routes
    BY FoundRoute
  <1>2. /\ n \in Nat \ {0} /\ path \in [1..n -> Vertices]
        /\ \A i \in 1..(n - 1) : <<path[i], path[i + 1]>> \in edges
    BY <1>1, RouteFacts
  <1>3. PICK u \in [1..n -> Nat] : Lengths(path, lo, u) /\ Length(path, lo) = u[n]
    BY <1>1, RouteLength
  <1>4. /\ path[1] = Start /\ path[n] = End /\ dist[Start] = 0 /\ dist[End] = currCost
        /\ \A i \in 1..(n - 1) :
             dist[path[i + 1]] - dist[path[i]]
               \in lo[<<path[i], path[i + 1]>>]..hi[<<path[i], path[i + 1]>>]
    BY DEF PathIsReal
  <1>0. \A i \in 1..n : dist[path[i]] \in Nat
    BY DEF Chain, TypeOK
  <1> DEFINE T == {i \in 1..n : u[i] <= dist[path[i]]}
  <1>5. 1 \in T
    <2>1. 1 \in 1..Len(path)
      BY <1>2
    <2>2. u[1] = 0
      BY <1>3, <2>1 DEF Lengths
    <2>3. QED
      BY <1>2, <1>4, <2>1, <2>2
  <1>6. ASSUME NEW i \in 1..(n - 1), i \in T PROVE i + 1 \in T
    <2> DEFINE e == <<path[i], path[i + 1]>>
    <2>1. i + 1 \in 1..n /\ i + 1 # 1 /\ (i + 1) - 1 = i
      BY <1>2
    <2>2. u[i + 1] = u[i] + lo[e]
      BY <1>3, <2>1 DEF Lengths
    <2>3. dist[path[i + 1]] - dist[path[i]] \in lo[e]..hi[e]
      BY <1>4
    <2>4. lo[e] \in Nat /\ hi[e] \in Nat
      BY <1>2, EdgeFacts
    <2>5. /\ dist[path[i]] \in Nat /\ dist[path[i + 1]] \in Nat
          /\ u[i] \in Nat /\ u[i] <= dist[path[i]]
      BY <1>0, <1>2, <1>6, <2>1
    <2> HIDE DEF e
    <2>6. QED
      BY <2>1, <2>2, <2>3, <2>4, <2>5, SMTT(30)
  <1>7. n \in T
    <2> HIDE DEF T, n
    <2>1. T \in SUBSET (1..n)
      BY DEF T
    <2>2. QED
      BY <1>2, <1>5, <1>6, <2>1, Along
  <1>8. QED
    BY <1>3, <1>4, <1>7

LEMMA NoRoutes ==
  ASSUME TypeOK, NoneMeansUnreachable, pc = "none", NEW p \in Routes
  PROVE  FALSE
  <1> DEFINE n == Len(p)
  <1>1. /\ n \in Nat \ {0, 1} /\ p \in [1..n -> Vertices] /\ p[1] = Start /\ p[n] = End
        /\ \A i \in 1..(n - 1) : <<p[i], p[i + 1]>> \in edges
    BY RouteFacts
  <1>2. {Start, End} \subseteq Nodes
    <2>1. 1 \in 1..(n - 1) /\ n - 1 \in 1..(n - 1)
      BY <1>1
    <2>2. <<p[1], p[2]>> \in edges /\ <<p[n - 1], p[n]>> \in edges
      BY <1>1, <2>1
    <2>3. Start \in {e[1] : e \in edges} /\ End \in {e[2] : e \in edges}
      BY <1>1, <2>2
    <2>4. QED
      BY <2>3 DEF Nodes
  <1>3. PICK S \in SUBSET Vertices :
          /\ Start \in S /\ End \notin S
          /\ \A e \in edges : e[1] \in S => e[2] \in S
    BY <1>2 DEF NoneMeansUnreachable
  <1> DEFINE T == {i \in 1..n : p[i] \in S}
  <1>4. 1 \in T
    BY <1>1, <1>3
  <1>5. ASSUME NEW i \in 1..(n - 1), i \in T PROVE i + 1 \in T
    <2>1. <<p[i], p[i + 1]>> \in edges /\ i + 1 \in 1..n
      BY <1>1
    <2>2. p[i + 1] \in S
      BY <1>3, <1>5, <2>1
    <2>3. QED
      BY <2>1, <2>2
  <1>6. n \in T
    <2> HIDE DEF T, n
    <2>1. T \in SUBSET (1..n)
      BY DEF T
    <2>2. QED
      BY <1>1, <1>4, <1>5, <2>1, Along
  <1>7. QED
    BY <1>1, <1>3, <1>6

\* Against every route of the graph, however many there are: the path found is one
\* of them and its cost is at least its length in the least weights; no route is
\* shorter than that cost in the greatest; without an answer there is no route.
THEOREM Agrees == Spec => []AgreesWithReference
  <1>1. Inv /\ PathIsReal /\ NoShorterPath /\ NoneMeansUnreachable => AgreesWithReference
    BY FoundRoute, FoundLength, PotentialBound, NoRoutes DEF AgreesWithReference, Inv
  <1>2. QED
    BY <1>1, InvHolds, RealPath, ShortestPath, Unreachable, PTL

\* Until AddNode stores, the weights are those that GetEdges saw.
Unstored == changes = 0 => lo = weight /\ hi = weight

LEMMA UnstoredHolds == Spec => []Unstored
  <1>1. Init => Unstored
    BY DEF Init, Unstored
  <1>2. TypeOK /\ Unstored /\ [Next]_vars => Unstored'
    <2> SUFFICES ASSUME TypeOK, Unstored, [Next]_vars PROVE Unstored'
      OBVIOUS
    <2>1. CASE GetEdges
      BY <2>1 DEF GetEdges, Unstored
    <2>2. CASE StoreWeight
      BY <2>2, ChangesAssumption DEF StoreWeight, TypeOK, Unstored
    <2>3. CASE UNCHANGED graphVars
      BY <2>3 DEF graphVars, Unstored
    <2>4. QED
      BY <2>1, <2>2, <2>3
         DEF Next, Search, Unknown, Begin, PopStale, PopNode, PopEnd, Popped, Exhausted, Relax,
             Scanned, Prepend, Return, vars, graphVars, searchVars
  <1>3. QED
    BY <1>1, <1>2, TypeCorrect, PTL DEF Spec

\* What module RoutingGraph takes for one search: with no store during it, the path
\* found is a shortest route and the cost returned is its length.
Exact ==
  pc = "found" /\ changes = 0 =>
    /\ path \in Routes /\ Length(path, weight) = currCost
    /\ \A p \in Routes : Length(path, weight) <= Length(p, weight)

THEOREM ExactSearch == Spec => []Exact
  <1>1. TypeOK /\ AgreesWithReference /\ Unstored => Exact
    <2> SUFFICES ASSUME TypeOK, AgreesWithReference, Unstored, pc = "found", changes = 0
                 PROVE  /\ path \in Routes /\ Length(path, weight) = currCost
                        /\ \A p \in Routes : Length(path, weight) <= Length(p, weight)
      BY DEF Exact
    <2>1. /\ path \in Routes /\ Length(path, weight) <= currCost
          /\ \A p \in Routes : currCost <= Length(p, weight)
      BY Zenon DEF AgreesWithReference, Unstored
    <2>2. currCost \in Nat /\ Length(path, weight) \in Nat
      <3>1. PICK u \in [1..Len(path) -> Nat] : Length(path, weight) = u[Len(path)]
        BY <2>1, RouteLength
      <3>2. Len(path) \in 1..Len(path)
        BY <2>1, RouteFacts
      <3>3. QED
        BY <3>1, <3>2 DEF TypeOK
    <2>3. Length(path, weight) = currCost
      BY <2>1, <2>2
    <2>4. QED
      BY <2>1, <2>3
  <1>2. QED
    BY <1>1, TypeCorrect, Agrees, UnstoredHolds, PTL
==============================================================================
