---------------------------- MODULE ShortestPath ----------------------------
(***************************************************************************)
(* dijkstra() of sr_pwospf.c, turn by turn, on any graph the LSU handler may *)
(* have built: in every turn the nearest unvisited vertex is visited and its *)
(* edges relaxed, as many turns as there are vertices.  Every edge has       *)
(* weight 1, and a distance of Far or more counts as unreachable.           *)
(***************************************************************************)
EXTENDS LinkGraph

CONSTANTS
    Graphs,     \* graphs to label
    Self        \* routerIdDup: the router that computes

ASSUME ShortestPathAssumption ==
    /\ Self \in Router
    /\ Graphs \subseteq Graph
    /\ \A g \in Graphs :
        /\ Knows(g, RouterVertex(Self))
        /\ g.edges \subseteq VerticesOf(g) \X VerticesOf(g)
        /\ \A i, j \in DOMAIN g.vertices : g.vertices[i] = g.vertices[j] => i = j

VARIABLES
    topology,   \* subnetGraph
    labels,     \* d, parent and visited of its vertices
    turn        \* turns of the loop made

pathVars == <<topology, labels, turn>>

Source == RouterVertex(Self)

LabelsOK ==
    /\ topology \in Graphs
    /\ labels \in Labels(VerticesOf(topology))
    /\ turn \in 0 .. Len(topology.vertices)

Begin ==
    /\ topology \in Graphs
    /\ labels = Unlabelled(topology, Source)
    /\ turn = 0

Done == turn = Len(topology.vertices)

Turn ==
    /\ ~Done
    /\ labels' = VisitNearest(topology, labels)
    /\ turn' = turn + 1
    /\ UNCHANGED topology

TurnByTurn == Begin /\ [][Turn]_pathVars

-----------------------------------------------------------------------------
(* Properties.                                                               *)

\* The vertices within k edges of the source.
Within[k \in 0 .. Far] ==
    IF k = 0 THEN {Source}
    ELSE Within[k - 1] \cup {w \in VerticesOf(topology) :
                                \E v \in Within[k - 1] : <<v, w>> \in topology.edges}

\* The length of the shortest path, or Far.
Distance(v) ==
    IF \E k \in 0 .. Far : v \in Within[k]
    THEN CHOOSE k \in 0 .. Far : v \in Within[k] /\ \A j \in 0 .. k - 1 : v \notin Within[j]
    ELSE Far

\* A visited vertex has its shortest distance, though most of the graph has not
\* been looked at yet, and after the last turn every vertex has: the turns of
\* dijkstra(), which count vertices, never visit one twice or pass one by.
Settled ==
    \A v \in VerticesOf(topology) :
        v \in labels.visited \/ Done => labels.d[v] = Distance(v)

\* The same without paths: no edge from a visited vertex is left to relax, and
\* no unvisited vertex is nearer than a visited one.  After the last turn no
\* edge at all is left to relax.
Relaxed ==
    /\ \A v, w \in VerticesOf(topology) :
          v \in labels.visited \/ Done => ~Closer(topology, labels, v, w)
    /\ \A v \in labels.visited : \A w \in VerticesOf(topology) \ labels.visited :
          labels.d[v] <= labels.d[w]

\* The parents form a tree of shortest paths, which populateRoutingTable relies
\* on: the parent of a reached vertex was visited, has an edge to it and is one
\* nearer.
ParentsLead ==
    \A v \in VerticesOf(topology) :
        IF labels.parent[v] = None
        THEN labels.d[v] = IF v = Source THEN 0 ELSE Far
        ELSE /\ labels.parent[v] \in labels.visited
             /\ <<labels.parent[v], v>> \in topology.edges
             /\ labels.d[v] = labels.d[labels.parent[v]] + 1
=============================================================================
