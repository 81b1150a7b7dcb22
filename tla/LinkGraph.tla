----------------------------- MODULE LinkGraph ------------------------------
(***************************************************************************)
(* The topology graph of sr_pwospf.c (subnetGraph) as a value, and what the *)
(* code computes on it: the vertices and edges an advertisement adds, and    *)
(* one turn of the loop of dijkstra().  Nothing here has state; the modules  *)
(* that keep a graph extend this one.                                        *)
(*                                                                         *)
(* The vertices are listed newest first, as addVertex prepends them: the     *)
(* order decides ties of getMinVertex and which of two routers that          *)
(* advertise one subnet the routing table takes.  Edges are a set, since the *)
(* code never adds one twice.  A subnet stands for its mask too.             *)
(***************************************************************************)
EXTENDS Integers, Sequences, FiniteSets

CONSTANTS
    Router,     \* router ids
    Subnet,     \* subnets
    NoRouter,   \* the router id 0: nobody
    DefaultNet, \* the subnet 0.0.0.0/0
    Far         \* the 7 of initializeDijkstras, which stands for infinity

ASSUME LinkGraphAssumption ==
    /\ NoRouter \notin Router
    /\ DefaultNet \in Subnet
    /\ Far \in Nat \ {0}

\* A router's vertex has subnet 0, a subnet's vertex the router that advertises
\* it.
Vertex == [type : {"ROUTER", "SUBNET"}, rid : Router, subnet : Subnet]

RouterVertex(r) == [type |-> "ROUTER", rid |-> r, subnet |-> DefaultNet]
SubnetVertex(r, n) == [type |-> "SUBNET", rid |-> r, subnet |-> n]

Graph == [vertices : Seq(Vertex), edges : SUBSET (Vertex \X Vertex)]

VerticesOf(g) == {g.vertices[i] : i \in DOMAIN g.vertices}

Knows(g, v) == v \in VerticesOf(g)

WithVertex(g, v) ==
    IF Knows(g, v) THEN g ELSE [g EXCEPT !.vertices = <<v>> \o @]

\* An edge is added where checkIfEdgeExists does not find it; all weigh 1.
WithEdges(g, edges) == [g EXCEPT !.edges = @ \cup edges]

-----------------------------------------------------------------------------

\* One link advertised by router r: its subnet, and the router at its far end
\* if r has heard one.
Adv == [subnet : Subnet, rid : Router \cup {NoRouter}]

\* Fault: a link to another router is added in one direction.
LearnOneWay(g, r, adv) ==
    LET net == SubnetVertex(r, adv.subnet)
        far == RouterVertex(adv.rid)
        withNet == WithVertex(g, net)
        withFar == IF adv.rid = NoRouter THEN withNet ELSE WithVertex(withNet, far)
    IN  WithEdges(withFar, {<<RouterVertex(r), net>>} \cup
            IF adv.rid = NoRouter THEN {} ELSE {<<RouterVertex(r), far>>})

\* The turn of the loop of handleLsuPacket for one advertisement of router r,
\* whose own vertex is there.
Learn(g, r, adv) ==
    LET net == SubnetVertex(r, adv.subnet)
        far == RouterVertex(adv.rid)
        withNet == WithVertex(g, net)
        withFar == IF adv.rid = NoRouter THEN withNet ELSE WithVertex(withNet, far)
    IN  WithEdges(withFar, {<<RouterVertex(r), net>>} \cup
            IF adv.rid = NoRouter THEN {}
            ELSE {<<RouterVertex(r), far>>, <<far, RouterVertex(r)>>})

\* All turns.
LearnAll(g, r, advs) ==
    LET known[k \in 0 .. Len(advs)] ==
            IF k = 0 THEN WithVertex(g, RouterVertex(r)) ELSE Learn(known[k - 1], r, advs[k])
    IN  known[Len(advs)]

\* initializeRouter and addInterfaceVertices: the router r and its subnets, one
\* per interface.
OwnGraph(r, nets) ==
    [vertices |-> [i \in 1 .. Len(nets) |-> SubnetVertex(r, nets[Len(nets) - i + 1])]
                    \o <<RouterVertex(r)>>,
     edges |-> {<<RouterVertex(r), SubnetVertex(r, nets[i])>> : i \in DOMAIN nets}]

-----------------------------------------------------------------------------
(* dijkstra().  The labels of all vertices: distance, parent (or None, the    *)
(* code's -1) and whether visited.                                          *)

None == <<>>

Labels(V) == [d : [V -> 0 .. Far], parent : [V -> V \cup {None}], visited : SUBSET V]

\* initializeDijkstras.
Unlabelled(g, source) ==
    [d |-> [v \in VerticesOf(g) |-> IF v = source THEN 0 ELSE Far],
     parent |-> [v \in VerticesOf(g) |-> None],
     visited |-> {}]

\* Fault: visited vertices are picked again.
PickVisitedToo(g, l) ==
    g.vertices[CHOOSE i \in DOMAIN g.vertices :
        \A j \in DOMAIN g.vertices : l.d[g.vertices[i]] <= l.d[g.vertices[j]]]

\* getMinVertex: the first of the nearest unvisited vertices.  There is one in
\* every turn, as there are as many turns as vertices.
Pick(g, l) ==
    LET open == {<<l.d[g.vertices[i]], i>> :
                    i \in {j \in DOMAIN g.vertices : g.vertices[j] \notin l.visited}}
    IN  g.vertices[(CHOOSE p \in open :
            \A q \in open : p[1] < q[1] \/ (p[1] = q[1] /\ p[2] <= q[2]))[2]]

\* Fault: any edge overwrites the label it leads to.
ClosesAlways(g, l, v, w) == <<v, w>> \in g.edges

\* The test of computeValues.
Closer(g, l, v, w) == <<v, w>> \in g.edges /\ l.d[w] > l.d[v] + 1

\* Visit v and relax its edges (computeValues).
Visit(g, l, v) ==
    LET nearer == {w \in VerticesOf(g) : Closer(g, l, v, w)}
    IN  [d |-> [w \in VerticesOf(g) |-> IF w \in nearer THEN l.d[v] + 1 ELSE l.d[w]],
         parent |-> [w \in VerticesOf(g) |-> IF w \in nearer THEN v ELSE l.parent[w]],
         visited |-> l.visited \cup {v}]

\* One turn of the loop.
VisitNearest(g, l) == Visit(g, l, Pick(g, l))

\* All turns: as many as there are vertices.
Dijkstra(g, source) ==
    LET l[k \in 0 .. Len(g.vertices)] ==
            IF k = 0 THEN Unlabelled(g, source) ELSE VisitNearest(g, l[k - 1])
    IN  l[Len(g.vertices)]
=============================================================================
