------------------------------ MODULE Dijkstra ------------------------------
(***************************************************************************)
(* GraphManager.Dijkstra of control-plane/routing: one search of the path  *)
(* of least risk.  GetEdges copies the list of edge pointers under the     *)
(* graph's read lock, and the search then reads EdgeWeight through those   *)
(* pointers with no lock, while AddNode, run by the etcd watcher, stores   *)
(* new weights into the same edges.  The search is one process, AddNode's  *)
(* stores into the edges it was given are the other.                       *)
(*                                                                         *)
(* Weights are natural numbers: EdgeRisk returns a value of 0..1 and the   *)
(* search scales it by a constant, so only sums and comparisons of         *)
(* non-negative numbers matter.  A cost of math.Inf(1) is the absence of   *)
(* a node from dist.                                                       *)
(***************************************************************************)
EXTENDS Integers, Sequences, FiniteSets

CONSTANTS
  Vertices,    \* in and out halves of the VMs, and storage servers
  Edges,       \* the edges the graph may hold, pairs of vertices
  Start, End,  \* what Routing searches between
  Weights,     \* the values EdgeRisk can return, scaled by alpha
  MaxChanges,  \* bound: stores of AddNode during the search
  None         \* the empty string that ends the backtracking

ASSUME GraphAssumption == Edges \subseteq Vertices \X Vertices
ASSUME EndsAssumption == {Start, End} \subseteq Vertices
\* Routing searches from the in half of a VM to a storage server.
ASSUME DistinctAssumption == Start # End
ASSUME VerticesAssumption == IsFiniteSet(Vertices)
ASSUME WeightsAssumption == Weights \subseteq Nat
ASSUME ChangesAssumption == MaxChanges \in Nat
ASSUME NoneAssumption == None \notin Vertices

VARIABLES
  pc,        \* "start", "check", "queue", "scan", "back", "found" or "none"
  edges,     \* the list GetEdges returned
  weight,    \* EdgeWeight of those edges, shared with AddNode
  lo, hi,    \* least and greatest weight each had since GetEdges (history)
  changes,   \* stores of AddNode so far
  dist,      \* cost of the best path known to a node, for the nodes with one
  prev,      \* the node before it on that path
  pq,        \* the priority queue: entries <<node, cost>>
  currNode, currCost,  \* the entry popped last
  todo,      \* edges of currNode the scan has yet to look at
  node, path \* the backtracking loop

graphVars == <<edges, weight, lo, hi, changes>>
searchVars == <<dist, prev, pq, currNode, currCost, todo>>
vars == <<pc, graphVars, searchVars, node, path>>

Nodes == {e[1] : e \in edges} \cup {e[2] : e \in edges}

Init ==
  /\ pc = "start"
  /\ edges = {}
  /\ weight = <<>> /\ lo = <<>> /\ hi = <<>>
  /\ changes = 0
  /\ dist = <<>> /\ prev = <<>>
  /\ pq = {}
  /\ currNode = Start /\ currCost = 0
  /\ todo = {}
  /\ node = End /\ path = <<>>

\* GetEdges: whatever the graph holds when the read lock is taken.
GetEdges ==
  /\ pc = "start"
  /\ \E list \in SUBSET Edges : \E w \in [list -> Weights] :
       /\ edges' = list
       /\ weight' = w /\ lo' = w /\ hi' = w
  /\ pc' = "check"
  /\ UNCHANGED <<changes, searchVars, node, path>>

\* The early returns: an end of the search has no edge.
Unknown ==
  /\ pc = "check"
  /\ ~({Start, End} \subseteq Nodes)
  /\ pc' = "none"
  /\ UNCHANGED <<graphVars, searchVars, node, path>>

Begin ==
  /\ pc = "check"
  /\ {Start, End} \subseteq Nodes
  /\ dist' = [v \in {Start} |-> 0]
  /\ pq' = {<<Start, 0>>}
  /\ pc' = "queue"
  /\ UNCHANGED <<graphVars, prev, currNode, currCost, todo, node, path>>

\* Mutant: the first entry of the list is taken, whatever its cost.
PoppedAny(q) ==
  /\ pc = "queue"
  /\ q \in pq
  /\ pq' = pq \ {q}
  /\ currNode' = q[1] /\ currCost' = q[2]
  /\ UNCHANGED <<graphVars, dist, prev, node, path>>

\* Mutant: the entry is looked at and left in the heap.
PoppedPeek(q) ==
  /\ pc = "queue"
  /\ q \in pq
  /\ \A r \in pq : q[2] <= r[2]
  /\ currNode' = q[1] /\ currCost' = q[2]
  /\ UNCHANGED <<graphVars, dist, prev, pq, node, path>>

\* heap.Pop: an entry of least cost, any of them when several are.
Popped(q) ==
  /\ pc = "queue"
  /\ q \in pq
  /\ \A r \in pq : q[2] <= r[2]
  /\ pq' = pq \ {q}
  /\ currNode' = q[1] /\ currCost' = q[2]
  /\ UNCHANGED <<graphVars, dist, prev, node, path>>

\* A node improved since this entry was pushed has another entry.
PopStale ==
  \E q \in pq :
    /\ Popped(q)
    /\ q[2] > dist[q[1]]
    /\ UNCHANGED <<pc, todo>>

PopNode ==
  \E q \in pq :
    /\ Popped(q)
    /\ q[2] <= dist[q[1]]
    /\ q[1] # End
    /\ todo' = {e \in edges : e[1] = q[1]}
    /\ pc' = "scan"

PopEnd ==
  \E q \in pq :
    /\ Popped(q)
    /\ q[2] <= dist[q[1]]
    /\ q[1] = End
    /\ pc' = "back"
    /\ UNCHANGED todo

Exhausted ==
  /\ pc = "queue"
  /\ pq = {}
  /\ pc' = "none"
  /\ UNCHANGED <<graphVars, searchVars, node, path>>

\* Mutant: a node keeps the first path found to it.
BetterIfNew(v, cost) == v \notin DOMAIN dist

\* Mutant: a path as good as the known one replaces it.
BetterOrEqual(v, cost) == v \in DOMAIN dist => cost <= dist[v]

\* newCost < dist[nextNode]
Better(v, cost) == v \in DOMAIN dist => cost < dist[v]

With(f, v, value) == [x \in DOMAIN f \cup {v} |-> IF x = v THEN value ELSE f[x]]

\* Mutant: the predecessor is not recorded when the node had a path already.
RelaxKeepingPrev(e) ==
  LET newCost == currCost + weight[e] IN
  /\ pc = "scan"
  /\ e \in todo
  /\ todo' = todo \ {e}
  /\ \/ /\ Better(e[2], newCost)
        /\ dist' = With(dist, e[2], newCost)
        /\ prev' = IF e[2] \in DOMAIN prev THEN prev ELSE With(prev, e[2], currNode)
        /\ pq' = pq \cup {<<e[2], newCost>>}
     \/ /\ ~Better(e[2], newCost)
        /\ UNCHANGED <<dist, prev, pq>>
  /\ UNCHANGED <<pc, graphVars, currNode, currCost, node, path>>

\* One edge of the scan: its weight is read here, as AddNode left it.
Relax(e) ==
  LET newCost == currCost + weight[e] IN
  /\ pc = "scan"
  /\ e \in todo
  /\ todo' = todo \ {e}
  /\ \/ /\ Better(e[2], newCost)
        /\ dist' = With(dist, e[2], newCost)
        /\ prev' = With(prev, e[2], currNode)
        /\ pq' = pq \cup {<<e[2], newCost>>}
     \/ /\ ~Better(e[2], newCost)
        /\ UNCHANGED <<dist, prev, pq>>
  /\ UNCHANGED <<pc, graphVars, currNode, currCost, node, path>>

Scanned ==
  /\ pc = "scan"
  /\ todo = {}
  /\ pc' = "queue"
  /\ UNCHANGED <<graphVars, searchVars, node, path>>

\* Mutant: the loop does not stop at the empty string.
PrependNone ==
  /\ pc = "back"
  /\ path' = <<node>> \o path
  /\ node' = IF node \in DOMAIN prev THEN prev[node] ELSE None
  /\ UNCHANGED <<pc, graphVars, searchVars>>

\* path = append([]string{node}, path...); node = prev[node]
Prepend ==
  /\ pc = "back"
  /\ node # None
  /\ path' = <<node>> \o path
  /\ node' = IF node \in DOMAIN prev THEN prev[node] ELSE None
  /\ UNCHANGED <<pc, graphVars, searchVars>>

Return ==
  /\ pc = "back"
  /\ node = None
  /\ pc' = "found"
  /\ UNCHANGED <<graphVars, searchVars, node, path>>

\* AddNode finds an edge of the list in its map and stores a new weight.
StoreWeight ==
  /\ pc \in {"check", "queue", "scan", "back"}
  /\ changes < MaxChanges
  /\ \E e \in edges, w \in Weights :
       /\ w # weight[e]
       /\ weight' = [weight EXCEPT ![e] = w]
       /\ lo' = [lo EXCEPT ![e] = IF w < @ THEN w ELSE @]
       /\ hi' = [hi EXCEPT ![e] = IF w > @ THEN w ELSE @]
  /\ changes' = changes + 1
  /\ UNCHANGED <<pc, edges, searchVars, node, path>>

Search ==
  \/ GetEdges \/ Unknown \/ Begin
  \/ PopStale \/ PopNode \/ PopEnd \/ Exhausted
  \/ \E e \in edges : Relax(e)
  \/ Scanned
  \/ Prepend \/ Return

Next == Search \/ StoreWeight

\* The goroutine that searches keeps running; nothing obliges AddNode to.
Spec == Init /\ [][Next]_vars /\ WF_vars(Search)

------------------------------------------------------------------------------
TypeOK ==
  /\ pc \in {"start", "check", "queue", "scan", "back", "found", "none"}
  /\ edges \in SUBSET Edges
  /\ weight \in [edges -> Weights]
  /\ lo \in [edges -> Weights]
  /\ hi \in [edges -> Weights]
  /\ changes \in 0..MaxChanges
  /\ DOMAIN dist \subseteq Vertices /\ dist \in [DOMAIN dist -> Nat]
  /\ DOMAIN prev \subseteq Vertices /\ prev \in [DOMAIN prev -> Vertices]
  /\ pq \subseteq Vertices \X Nat
  /\ currNode \in Vertices
  /\ currCost \in Nat
  /\ todo \subseteq edges
  /\ node \in Vertices \cup {None}
  /\ path \in Seq(Vertices)

\* The predecessors never form a cycle, so the loop that follows them from End
\* (shortest-algorithm.go:99) ends, also when weights change under the search
\* and when they are 0: in every set of nodes with a predecessor, one has its
\* predecessor outside.
NoCycle ==
  \A S \in SUBSET DOMAIN prev : S # {} => \E v \in S : prev[v] \notin S

\* The path returned leads from Start to End over edges of the list, repeats no
\* node, and the cost returned with it is its length in weights its edges had
\* while the search ran: dist rises along it from 0 to that cost by a weight
\* between the least and the greatest of each edge.
PathIsReal ==
  pc = "found" =>
    /\ path # <<>> /\ path[1] = Start /\ path[Len(path)] = End
    /\ dist[Start] = 0 /\ dist[End] = currCost
    /\ \A i, j \in 1..Len(path) : path[i] = path[j] => i = j
    /\ \A i \in 1..(Len(path) - 1) :
         LET e == <<path[i], path[i + 1]>> IN
         /\ e \in edges
         /\ dist[path[i + 1]] - dist[path[i]] \in lo[e]..hi[e]

\* The walks from Start to End over edges of the list, as far as a walk needs to
\* go: one that repeats no vertex is no longer than there are vertices.
Walks ==
  {p \in UNION {[1..n -> Vertices] : n \in 1..Cardinality(Vertices)} :
     p[1] = Start /\ p[Len(p)] = End}
Routes == {p \in Walks : \A i \in 1..(Len(p) - 1) : <<p[i], p[i + 1]>> \in edges}

\* The length of a walk where edges weigh w.
Length(p, w) ==
  LET upto[i \in 1..Len(p)] == IF i = 1 THEN 0 ELSE upto[i - 1] + w[<<p[i - 1], p[i]>>]
  IN  upto[Len(p)]

\* The reference definition of the search, by all routes there are: the path found
\* is one of them, no shorter in the least weights than the cost says, no route is
\* shorter than that cost in the greatest weights, and there is no answer only when
\* there is no route.
AgreesWithReference ==
  /\ pc = "found" =>
       /\ path \in Routes /\ Length(path, lo) <= currCost
       /\ \A p \in Routes : currCost <= Length(p, hi)
  /\ pc = "none" => Routes = {}

\* A node whose distance waits in no entry was popped with it.
Closed(v) == v \in DOMAIN dist /\ <<v, dist[v]>> \notin pq

\* The node popped with its distance keeps it and does not enter the queue again, so
\* that each node is scanned once at most, also when AddNode lowers a weight that an
\* earlier scan has read: the search keeps no list of visited nodes, only the
\* comparison of an entry with dist (shortest-algorithm.go:91).
ScannedOnce ==
  [][\A v \in Vertices : Closed(v) => dist'[v] = dist[v] /\ Closed(v)']_vars

\* The search ends, whatever is stored while it runs.
Terminates == <>(pc \in {"found", "none"})
==============================================================================
