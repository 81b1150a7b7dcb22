---------------------------- MODULE PwospfProofs ----------------------------
(***************************************************************************)
(* Proofs about dijkstra() and about networks of routers that run it.         *)
(*                                                                         *)
(* First the labels: whatever the graph, after any number of turns of the     *)
(* loop no edge is left to relax behind the visited vertices and the parents  *)
(* form a tree of edges along which the distance grows by one; so the labels  *)
(* ShortestPath computes turn by turn are the shortest distances, and are     *)
(* those that PwospfNetwork computes in one go.  Then what the routers learn: *)
(* nothing but what is so, all of a round begun after the HELLOs, and entries *)
(* for one subnet that form no circle.                                       *)
(***************************************************************************)
EXTENDS PwospfNetwork, ShortestPath, SharedLemmas, FiniteSetTheorems, TLAPS

\* A graph dijkstra() can be called on, as ShortestPathAssumption has it.
Labelable(g, s) ==
    /\ g \in Graph
    /\ Knows(g, s)
    /\ g.edges \subseteq VerticesOf(g) \X VerticesOf(g)
    /\ \A i, j \in DOMAIN g.vertices : g.vertices[i] = g.vertices[j] => i = j

-----------------------------------------------------------------------------
(* The turns of the loop, on a graph g with source s.  l are the labels, k the *)
(* turns made.                                                              *)

\* The two parts of Relaxed that hold between the turns, without the end.
NoneLeft(g, l) ==
    \A v \in l.visited : \A w \in VerticesOf(g) : ~Closer(g, l, v, w)

Order(g, l) ==
    \A v \in l.visited : \A w \in VerticesOf(g) \ l.visited : l.d[v] <= l.d[w]

\* ParentsLead, and the source stays its own root.
Tree(g, s, l) ==
    /\ l.d[s] = 0
    /\ \A v \in VerticesOf(g) :
        IF l.parent[v] = None
        THEN l.d[v] = IF v = s THEN 0 ELSE Far
        ELSE /\ l.parent[v] \in l.visited
             /\ <<l.parent[v], v>> \in g.edges
             /\ l.d[v] = l.d[l.parent[v]] + 1

\* Every turn visits a vertex that was not visited before.
Visited(l, k) == IsFiniteSet(l.visited) /\ Cardinality(l.visited) = k

After(g, s, l, k) ==
    /\ l \in Labels(VerticesOf(g))
    /\ NoneLeft(g, l)
    /\ Order(g, l)
    /\ Tree(g, s, l)
    /\ Visited(l, k)

\* The mark for "no parent" is not a vertex.
LEMMA NoneIsNoVertex == \A v \in Vertex : v # None
<1> SUFFICES ASSUME NEW v \in Vertex, v = None PROVE FALSE
  OBVIOUS
<1>1. "rid" \in DOMAIN v
  BY DEF Vertex
<1>2. DOMAIN None = 1 .. 0
  BY DEF None
<1> QED BY <1>1, <1>2

\* The vertices of a graph are finitely many, as many as it lists.
LEMMA VerticesCounted ==
    ASSUME NEW g, NEW s, Labelable(g, s)
    PROVE  /\ IsFiniteSet(VerticesOf(g))
           /\ Cardinality(VerticesOf(g)) = Len(g.vertices)
           /\ Len(g.vertices) \in Nat
           /\ VerticesOf(g) \subseteq Vertex
           /\ s \in VerticesOf(g)
<1> DEFINE V == VerticesOf(g)
           L == Len(g.vertices)
           f == [i \in 1 .. L |-> g.vertices[i]]
<1>1. g.vertices \in Seq(Vertex) /\ L \in Nat /\ DOMAIN g.vertices = 1 .. L
  BY DEF Graph, Labelable
<1>2. \A i, j \in 1 .. L : g.vertices[i] = g.vertices[j] => i = j
  BY <1>1 DEF Labelable
<1>3. V = {g.vertices[i] : i \in 1 .. L}
  BY <1>1 DEF VerticesOf
<1>4. f \in Surjection(1 .. L, V)
  BY <1>3 DEF Surjection
<1>5. f \in Injection(1 .. L, V)
  BY <1>2, <1>3 DEF Injection, IsInjective
<1>6. IsFiniteSet(1 .. L) /\ Cardinality(1 .. L) = L
  BY <1>1, FS_Interval
<1>7. IsFiniteSet(V) /\ Cardinality(V) = L
  BY <1>4, <1>5, <1>6, FS_Surjection
<1>8. V \subseteq Vertex
  BY <1>1, <1>3
<1>9. s \in V
  BY DEF Labelable, Knows
<1> QED BY <1>1, <1>7, <1>8, <1>9

\* What getMinVertex returns while a vertex is unvisited.
LEMMA PickIsNearest ==
    ASSUME NEW g, g \in Graph, NEW l, l \in Labels(VerticesOf(g)),
           NEW u \in VerticesOf(g) \ l.visited
    PROVE  LET v == Pick(g, l)
           IN  /\ v \in VerticesOf(g) \ l.visited
               /\ \A w \in VerticesOf(g) \ l.visited : l.d[v] <= l.d[w]
<1> DEFINE V == VerticesOf(g)
           D == DOMAIN g.vertices
           Open == {i \in D : g.vertices[i] \notin l.visited}
           At(i) == l.d[g.vertices[i]]
           Least(i) == \A j \in Open : At(i) < At(j) \/ (At(i) = At(j) /\ i <= j)
<1>1. /\ D \subseteq Nat
      /\ \A i \in D : g.vertices[i] \in V
      /\ \A w \in V : \E i \in D : w = g.vertices[i]
  <2>1. g.vertices \in Seq(Vertex)
    BY DEF Graph
  <2> QED BY <2>1 DEF VerticesOf
<1>2. \A i \in D : At(i) \in Nat
  BY <1>1, LinkGraphAssumption DEF Labels
<1>3. PICK m \in {At(i) : i \in Open} : \A n \in {At(i) : i \in Open} : m <= n
  <2>1. {At(i) : i \in Open} \subseteq Nat /\ {At(i) : i \in Open} # {}
    BY <1>1, <1>2
  <2> QED BY <2>1, LeastNumber
<1>4. PICK k \in {i \in Open : At(i) = m} : \A j \in {i \in Open : At(i) = m} : k <= j
  <2>1. {i \in Open : At(i) = m} \subseteq Nat /\ {i \in Open : At(i) = m} # {}
    BY <1>1, <1>3
  <2> QED BY <2>1, LeastNumber
<1>5. k \in Open /\ Least(k)
  <2>1. ASSUME NEW j \in Open PROVE At(k) < At(j) \/ (At(k) = At(j) /\ k <= j)
    <3>1. At(k) = m /\ m <= At(j) /\ At(j) \in Nat /\ m \in Nat
      BY <1>2, <1>3, <1>4
    <3>2. CASE At(j) = m
      BY <3>1, <3>2, <1>4
    <3>3. CASE At(j) # m
      BY <3>1, <3>3
    <3> QED BY <3>2, <3>3
  <2> QED BY <2>1, <1>4
<1> DEFINE open == {<<l.d[g.vertices[i]], i>> :
                        i \in {j \in DOMAIN g.vertices : g.vertices[j] \notin l.visited}}
           First(p) == \A q \in open : p[1] < q[1] \/ (p[1] = q[1] /\ p[2] <= q[2])
           best == CHOOSE p \in open : First(p)
<1>6. best \in open /\ First(best)
  <2>1. <<At(k), k>> \in open /\ First(<<At(k), k>>)
    BY <1>5
  <2> HIDE DEF First, open
  <2> QED BY <2>1
<1>7. Pick(g, l) = g.vertices[best[2]]
  BY DEF Pick
<1> HIDE DEF best
<1>8. PICK c \in Open : best = <<At(c), c>>
  BY <1>6
<1>9. \A j \in Open : At(c) < At(j) \/ At(c) = At(j)
  <2> SUFFICES ASSUME NEW j \in Open PROVE At(c) < At(j) \/ At(c) = At(j)
    OBVIOUS
  <2>1. <<At(j), j>> \in open
    OBVIOUS
  <2>2. best[1] < At(j) \/ best[1] = At(j)
    BY <1>6, <2>1
  <2> QED BY <2>2, <1>8
<1>10. ASSUME NEW w \in V \ l.visited PROVE At(c) <= l.d[w]
  <2>1. PICK j \in Open : w = g.vertices[j]
    BY <1>1
  <2>2. At(c) \in Nat /\ At(j) \in Nat
    BY <1>2
  <2> QED BY <1>9, <2>1, <2>2
<1>11. Pick(g, l) = g.vertices[c]
  BY <1>7, <1>8
<1> QED BY <1>1, <1>10, <1>11

-----------------------------------------------------------------------------

LEMMA UnlabelledAfterNone ==
    ASSUME NEW g, NEW s, Labelable(g, s)
    PROVE  After(g, s, Unlabelled(g, s), 0)
<1> DEFINE l == Unlabelled(g, s)
<1>1. VerticesOf(g) \subseteq Vertex /\ s \in VerticesOf(g)
  BY VerticesCounted
<1>2. l \in Labels(VerticesOf(g))
  BY <1>1, LinkGraphAssumption DEF Labels, Unlabelled
<1>3. NoneLeft(g, l) /\ Order(g, l)
  BY DEF NoneLeft, Order, Unlabelled
<1>4. Tree(g, s, l)
  BY <1>1 DEF Tree, Unlabelled
<1>5. Visited(l, 0)
  BY FS_EmptySet DEF Visited, Unlabelled
<1> QED BY <1>2, <1>3, <1>4, <1>5 DEF After

\* A turn: the vertex visited, and what becomes of the labels.
LEMMA TurnVisits ==
    ASSUME NEW g, NEW s, Labelable(g, s), NEW l, NEW k, After(g, s, l, k),
           k # Len(g.vertices)
    PROVE  \E v \in VerticesOf(g) \ l.visited :
             /\ VisitNearest(g, l) = Visit(g, l, v)
             /\ \A w \in VerticesOf(g) \ l.visited : l.d[v] <= l.d[w]
             /\ \A w \in l.visited \cup {v} : ~Closer(g, l, v, w)
<1> DEFINE V == VerticesOf(g)
           v == Pick(g, l)
<1>1. IsFiniteSet(V) /\ Cardinality(V) = Len(g.vertices) /\ l.visited \subseteq V
      /\ l.d \in [V -> 0 .. Far]
  BY VerticesCounted DEF After, Labels
<1>2. l.visited # V
  BY <1>1 DEF After, Visited
<1>3. v \in V \ l.visited /\ \A w \in V \ l.visited : l.d[v] <= l.d[w]
  BY <1>1, <1>2, PickIsNearest DEF After, Labelable
<1> HIDE DEF v
<1>4. ASSUME NEW w \in l.visited \cup {v} PROVE ~Closer(g, l, v, w)
  <2>1. l.d[w] \in Nat /\ l.d[v] \in Nat
    BY <1>1, <1>3, LinkGraphAssumption
  <2>2. l.d[w] <= l.d[v]
    BY <1>1, <1>3, <2>1 DEF After, Order
  <2> QED BY <2>1, <2>2 DEF Closer
<1>5. VisitNearest(g, l) = Visit(g, l, v)
  BY DEF VisitNearest, v
<1> QED BY <1>3, <1>4, <1>5

LEMMA TurnKeeps ==
    ASSUME NEW g, NEW s, Labelable(g, s), NEW l, NEW k \in Nat, After(g, s, l, k),
           k # Len(g.vertices)
    PROVE  After(g, s, VisitNearest(g, l), k + 1)
<1> DEFINE V == VerticesOf(g)
<1>1. PICK v \in V \ l.visited :
         /\ VisitNearest(g, l) = Visit(g, l, v)
         /\ \A w \in V \ l.visited : l.d[v] <= l.d[w]
         /\ \A w \in l.visited \cup {v} : ~Closer(g, l, v, w)
  BY TurnVisits
<1> DEFINE m == Visit(g, l, v)
<1>2. /\ l.d \in [V -> 0 .. Far] /\ l.parent \in [V -> V \cup {None}]
      /\ l.visited \subseteq V /\ Far \in Nat
      /\ V \subseteq Vertex /\ s \in V
  BY VerticesCounted, LinkGraphAssumption DEF After, Labels
<1>3. /\ m = [d |-> m.d, parent |-> m.parent, visited |-> m.visited]
      /\ m.visited = l.visited \cup {v}
      /\ m.d = [w \in V |-> IF Closer(g, l, v, w) THEN l.d[v] + 1 ELSE l.d[w]]
      /\ m.parent = [w \in V |-> IF Closer(g, l, v, w) THEN v ELSE l.parent[w]]
  BY DEF Visit
<1> HIDE DEF m
<1>4. \A w \in V :
        /\ m.d[w] = IF Closer(g, l, v, w) THEN l.d[v] + 1 ELSE l.d[w]
        /\ m.parent[w] = IF Closer(g, l, v, w) THEN v ELSE l.parent[w]
  BY <1>3
<1>5. \A w \in l.visited \cup {v} : m.d[w] = l.d[w] /\ m.parent[w] = l.parent[w]
  BY <1>1, <1>2, <1>4
<1>6. \A w \in V : l.d[w] \in Nat /\ m.d[w] \in Nat /\ m.d[w] <= l.d[w]
  <2> SUFFICES ASSUME NEW w \in V
               PROVE  l.d[w] \in Nat /\ m.d[w] \in Nat /\ m.d[w] <= l.d[w]
    OBVIOUS
  <2>1. l.d[w] \in Nat /\ l.d[v] \in Nat
    BY <1>2
  <2>2. CASE Closer(g, l, v, w)
    <3>1. m.d[w] = l.d[v] + 1
      BY <2>2, <1>4
    <3> QED BY <2>1, <2>2, <3>1 DEF Closer
  <2>3. CASE ~Closer(g, l, v, w)
    <3>1. m.d[w] = l.d[w]
      BY <2>3, <1>4
    <3> QED BY <2>1, <3>1
  <2> QED BY <2>2, <2>3
<1>7. m \in Labels(V)
  <2>1. m.d \in [V -> 0 .. Far]
    BY <1>1, <1>2, <1>3 DEF Closer
  <2>2. m.parent \in [V -> V \cup {None}]
    BY <1>1, <1>2, <1>3
  <2> QED BY <1>1, <1>2, <1>3, <2>1, <2>2 DEF Labels
<1>8. NoneLeft(g, m)
  <2> SUFFICES ASSUME NEW x \in l.visited \cup {v}, NEW w \in V, <<x, w>> \in g.edges
               PROVE  ~(m.d[w] > m.d[x] + 1)
    BY <1>3 DEF NoneLeft, Closer
  <2>1. m.d[x] = l.d[x] /\ x \in V
    BY <1>1, <1>2, <1>5
  <2>2. CASE x = v
    BY <2>1, <2>2, <1>4, <1>6 DEF Closer
  <2>3. CASE x \in l.visited
    <3>1. ~(l.d[w] > l.d[x] + 1)
      BY <2>3 DEF After, NoneLeft, Closer
    <3> QED BY <2>1, <3>1, <1>6
  <2> QED BY <2>2, <2>3
<1>9. Order(g, m)
  <2> SUFFICES ASSUME NEW x \in l.visited \cup {v}, NEW w \in V \ (l.visited \cup {v})
               PROVE  m.d[x] <= m.d[w]
    BY <1>3 DEF Order
  <2>1. m.d[x] = l.d[x] /\ x \in V
    BY <1>1, <1>2, <1>5
  <2>2. l.d[x] <= l.d[v]
    BY <1>1, <1>6 DEF After, Order
  <2>3. l.d[v] <= m.d[w]
    BY <1>1, <1>4, <1>6
  <2> QED BY <2>1, <2>2, <2>3, <1>6
<1>10. Tree(g, s, m)
  <2>1. m.d[s] = 0
    BY <1>2, <1>6 DEF After, Tree
  <2> SUFFICES ASSUME NEW w \in V
               PROVE  IF m.parent[w] = None
                      THEN m.d[w] = IF w = s THEN 0 ELSE Far
                      ELSE /\ m.parent[w] \in m.visited
                           /\ <<m.parent[w], w>> \in g.edges
                           /\ m.d[w] = m.d[m.parent[w]] + 1
    BY <2>1 DEF Tree
  <2>2. CASE Closer(g, l, v, w)
    <3>1. m.parent[w] = v /\ m.d[w] = l.d[v] + 1 /\ m.d[v] = l.d[v]
      BY <2>2, <1>4, <1>5
    <3>2. v # None
      BY <1>1, <1>2, NoneIsNoVertex
    <3> QED BY <2>2, <3>1, <3>2, <1>3 DEF Closer
  <2>3. CASE ~Closer(g, l, v, w)
    <3>1. m.parent[w] = l.parent[w] /\ m.d[w] = l.d[w]
      BY <2>3, <1>4
    <3>2. l.parent[w] # None => m.d[l.parent[w]] = l.d[l.parent[w]]
      BY <1>5 DEF After, Tree
    <3> QED BY <3>1, <3>2, <1>3 DEF After, Tree
  <2> QED BY <2>2, <2>3
<1>11. Visited(m, k + 1)
  <2>1. IsFiniteSet(l.visited) /\ Cardinality(l.visited) = k /\ v \notin l.visited
    BY <1>1 DEF After, Visited
  <2>2. IsFiniteSet(l.visited \cup {v}) /\ Cardinality(l.visited \cup {v}) = k + 1
    BY <2>1, FS_AddElement
  <2> QED BY <2>2, <1>3 DEF Visited
<1> QED BY <1>1, <1>7, <1>8, <1>9, <1>10, <1>11 DEF After, m

\* After the last turn all vertices are visited.
LEMMA AllVisited ==
    ASSUME NEW g, NEW s, Labelable(g, s), NEW l, After(g, s, l, Len(g.vertices))
    PROVE  l.visited = VerticesOf(g)
<1>1. IsFiniteSet(VerticesOf(g)) /\ Cardinality(VerticesOf(g)) = Len(g.vertices)
      /\ l.visited \in SUBSET VerticesOf(g)
  BY VerticesCounted DEF After, Labels
<1> QED BY <1>1, FS_Subset DEF After, Visited

\* Dijkstra(g, s), all turns in one go, makes as many turns as there are vertices.
LEMMA DijkstraTurns ==
    ASSUME NEW g, NEW s, Labelable(g, s)
    PROVE  \E f : /\ f[0] = Unlabelled(g, s)
                  /\ \A k \in 1 .. Len(g.vertices) : f[k] = VisitNearest(g, f[k - 1])
                  /\ \A k \in 0 .. Len(g.vertices) : After(g, s, f[k], k)
                  /\ Dijkstra(g, s) = f[Len(g.vertices)]
<1> DEFINE S == Labels(VerticesOf(g))
           n == Len(g.vertices)
           b == Unlabelled(g, s)
           onward(l) == IF VisitNearest(g, l) \in S THEN VisitNearest(g, l) ELSE l
           step == [k \in 1 .. n |-> [l \in S |-> onward(l)]]
<1>1. n \in Nat /\ b \in S /\ After(g, s, b, 0)
  BY VerticesCounted, UnlabelledAfterNone DEF After
<1>2. step \in [1 .. n -> [S -> S]]
  OBVIOUS
<1>3. PICK h \in [0 .. n -> S] : Loop(h, n, b, step)
  <2> HIDE DEF S, n, b, step
  <2> QED BY <1>1, <1>2, LoopExists
<1> HIDE DEF b
<1>4. h[0] = b /\ \A k \in 1 .. n : h[k] = onward(h[k - 1])
  <2>1. \A k \in 1 .. n : k - 1 \in 0 .. n /\ h[k - 1] \in S
    BY <1>1
  <2> HIDE DEF n, S, onward
  <2> QED BY <1>3, <2>1 DEF Loop
<1> DEFINE T == {k \in 0 .. n : After(g, s, h[k], k)}
<1>5. 0 .. n \subseteq T
  <2>1. 0 \in T
    BY <1>1, <1>4
  <2>2. ASSUME NEW k \in 1 .. n, k - 1 \in T PROVE k \in T
    <3>1. k - 1 \in Nat /\ k - 1 # n /\ After(g, s, h[k - 1], k - 1) /\ k - 1 + 1 = k
      BY <1>1, <2>2
    <3>2. After(g, s, VisitNearest(g, h[k - 1]), k - 1 + 1)
      BY <3>1, TurnKeeps
    <3>3. h[k] = VisitNearest(g, h[k - 1])
      BY <3>2, <1>4 DEF After
    <3> QED BY <3>1, <3>2, <3>3
  <2> HIDE DEF T, n
  <2> QED BY <1>1, <2>1, <2>2, Counting
<1>6. \A k \in 1 .. n : h[k] = VisitNearest(g, h[k - 1])
  <2> SUFFICES ASSUME NEW k \in 1 .. n PROVE h[k] = VisitNearest(g, h[k - 1])
    OBVIOUS
  <2>1. k - 1 \in T /\ k - 1 \in Nat /\ k - 1 # n
    <3>1. k - 1 \in 0 .. n /\ k - 1 \in Nat /\ k - 1 # n
      BY <1>1
    <3> QED BY <1>5, <3>1
  <2>2. After(g, s, VisitNearest(g, h[k - 1]), k - 1 + 1)
    BY <2>1, TurnKeeps
  <2> QED BY <2>2, <1>4 DEF After
<1> DEFINE Def(f) ==
        f = [k \in 0 .. n |-> IF k = 0 THEN Unlabelled(g, s) ELSE VisitNearest(g, f[k - 1])]
           l == CHOOSE f : Def(f)
<1>7. Def(h)
  <2> DEFINE m == [k \in 0 .. n |-> IF k = 0 THEN Unlabelled(g, s) ELSE VisitNearest(g, h[k - 1])]
  <2>1. \A k \in 0 .. n : h[k] = m[k]
    BY <1>1, <1>4, <1>6 DEF b
  <2>2. h = m
    BY <2>1, <1>3
  <2> QED BY <2>2
<1>8. Def(l)
  <2> HIDE DEF Def
  <2> QED BY <1>7
<1>9. Dijkstra(g, s) = l[n]
  BY DEF Dijkstra
<1> HIDE DEF l
<1>10. l[0] = Unlabelled(g, s) /\ \A k \in 1 .. n : l[k] = VisitNearest(g, l[k - 1])
  BY <1>1, <1>8, SMTT(30)
<1> DEFINE U == {k \in 0 .. n : l[k] = h[k]}
<1>11. 0 .. n \subseteq U
  <2>1. 0 \in U
    BY <1>1, <1>4, <1>10 DEF b
  <2>2. ASSUME NEW k \in 1 .. n, k - 1 \in U PROVE k \in U
    BY <2>2, <1>6, <1>10
  <2> HIDE DEF U, n
  <2> QED BY <1>1, <2>1, <2>2, Counting
<1>12. \A k \in 0 .. n : After(g, s, l[k], k)
  BY <1>5, <1>11
<1> QED BY <1>9, <1>10, <1>12

-----------------------------------------------------------------------------
(* ShortestPath.                                                             *)

V == VerticesOf(topology)

PathInv ==
    /\ topology \in Graphs
    /\ turn \in 0 .. Len(topology.vertices)
    /\ After(topology, Source, labels, turn)

LEMMA GraphsLabelable == \A g \in Graphs : Labelable(g, Source)
BY ShortestPathAssumption DEF Labelable, Source

LEMMA PathInvBegins == Begin => PathInv
<1> SUFFICES ASSUME Begin PROVE PathInv
  OBVIOUS
<1>1. topology \in Graphs /\ turn = 0 /\ labels = Unlabelled(topology, Source)
  BY DEF Begin
<1>2. Len(topology.vertices) \in Nat
  BY <1>1, GraphsLabelable, VerticesCounted
<1> QED BY <1>1, <1>2, GraphsLabelable, UnlabelledAfterNone DEF PathInv

LEMMA PathInvKept == PathInv /\ [Turn]_pathVars => PathInv'
<1> SUFFICES ASSUME PathInv, [Turn]_pathVars PROVE PathInv'
  OBVIOUS
<1>1. CASE UNCHANGED pathVars
  <2>1. topology' = topology /\ labels' = labels /\ turn' = turn
    BY <1>1 DEF pathVars
  <2> QED BY <2>1 DEF PathInv, Source
<1>2. CASE Turn
  <2>1. PICK g, l, k : g = topology /\ l = labels /\ k = turn
    OBVIOUS
  <2>2. /\ topology' = g /\ labels' = VisitNearest(g, l) /\ turn' = k + 1
        /\ k # Len(g.vertices)
    BY <1>2, <2>1 DEF Turn, Done
  <2>3. g \in Graphs /\ k \in 0 .. Len(g.vertices) /\ After(g, Source, l, k)
    BY <2>1 DEF PathInv
  <2>4. Labelable(g, Source) /\ Len(g.vertices) \in Nat
    BY <2>3, GraphsLabelable, VerticesCounted
  <2>5. k \in Nat /\ k + 1 \in 0 .. Len(g.vertices)
    BY <2>2, <2>3, <2>4
  <2>6. After(g, Source, VisitNearest(g, l), k + 1)
    BY <2>2, <2>3, <2>4, <2>5, TurnKeeps
  <2> QED BY <2>2, <2>3, <2>5, <2>6 DEF PathInv, Source
<1> QED BY <1>1, <1>2

LEMMA PathInvariance == TurnByTurn => []PathInv
BY PathInvBegins, PathInvKept, PTL DEF TurnByTurn

LEMMA PathInvGives ==
    ASSUME PathInv
    PROVE  LabelsOK /\ Relaxed /\ ParentsLead
<1>1. Done => labels.visited = V
  <2> SUFFICES ASSUME Done PROVE labels.visited = V
    OBVIOUS
  <2>1. Labelable(topology, Source) /\ After(topology, Source, labels, Len(topology.vertices))
    BY GraphsLabelable DEF PathInv, Done
  <2> QED BY <2>1, AllVisited DEF V
<1>2. labels.visited \subseteq V /\ labels \in Labels(V)
  BY DEF PathInv, After, Labels, V
<1>3. \A v, w \in V : v \in labels.visited \/ Done => ~Closer(topology, labels, v, w)
  BY <1>1 DEF PathInv, After, NoneLeft, V
<1>4. Relaxed
  BY <1>2, <1>3 DEF Relaxed, PathInv, After, Order, V
<1>5. ParentsLead
  BY DEF ParentsLead, PathInv, After, Tree
<1>6. LabelsOK
  BY <1>2 DEF LabelsOK, PathInv, V
<1> QED BY <1>4, <1>5, <1>6

\* The labels stay what they are declared to be: distances never pass 7 and a
\* parent is a vertex of the graph (initializeDijkstras, computeValues).
THEOREM LabelsTypeCorrect == TurnByTurn => []LabelsOK
BY PathInvGives, PathInvariance, PTL

\* dijkstra() leaves no edge to relax, on any graph.
THEOREM NothingLeftToRelax == TurnByTurn => []Relaxed
BY PathInvGives, PathInvariance, PTL

\* The parents populateRoutingTable reads lead along edges to the source.
THEOREM ParentsAreATree == TurnByTurn => []ParentsLead
BY PathInvGives, PathInvariance, PTL

\* The labels are those that the turns of Dijkstra(topology, Source) go through.
OnTheWay ==
    \E f : /\ f[0] = Unlabelled(topology, Source)
           /\ \A k \in 1 .. Len(topology.vertices) : f[k] = VisitNearest(topology, f[k - 1])
           /\ Dijkstra(topology, Source) = f[Len(topology.vertices)]
           /\ labels = f[turn]

LEMMA OnTheWayBegins == Begin => OnTheWay
<1> SUFFICES ASSUME Begin PROVE OnTheWay
  OBVIOUS
<1>1. Labelable(topology, Source) /\ labels = Unlabelled(topology, Source) /\ turn = 0
  BY GraphsLabelable DEF Begin
<1> QED BY <1>1, DijkstraTurns DEF OnTheWay

LEMMA OnTheWayKept == PathInv /\ OnTheWay /\ [Turn]_pathVars => OnTheWay'
<1> SUFFICES ASSUME PathInv, OnTheWay, [Turn]_pathVars PROVE OnTheWay'
  OBVIOUS
<1>1. PICK g, l, k : g = topology /\ l = labels /\ k = turn
  OBVIOUS
<1>2. PICK f : /\ f[0] = Unlabelled(g, Source)
               /\ \A j \in 1 .. Len(g.vertices) : f[j] = VisitNearest(g, f[j - 1])
               /\ Dijkstra(g, Source) = f[Len(g.vertices)]
               /\ l = f[k]
  BY <1>1 DEF OnTheWay
<1>3. CASE UNCHANGED pathVars
  <2>1. topology' = g /\ labels' = l /\ turn' = k
    BY <1>1, <1>3 DEF pathVars
  <2> QED BY <2>1, <1>2 DEF OnTheWay, Source
<1>4. CASE Turn
  <2>1. /\ topology' = g /\ labels' = VisitNearest(g, l) /\ turn' = k + 1
        /\ k # Len(g.vertices) /\ k \in 0 .. Len(g.vertices) /\ g \in Graphs
    BY <1>1, <1>4 DEF Turn, Done, PathInv
  <2>2. k + 1 \in 1 .. Len(g.vertices) /\ k \in Nat
    BY <2>1, GraphsLabelable, VerticesCounted
  <2>3. f[k + 1] = VisitNearest(g, l)
    <3>1. PICK j \in 1 .. Len(g.vertices) : j = k + 1 /\ j - 1 = k
      BY <2>2
    <3>2. f[j] = VisitNearest(g, f[j - 1])
      BY <1>2
    <3> QED BY <1>2, <3>1, <3>2
  <2> QED BY <1>2, <2>1, <2>3 DEF OnTheWay, Source
<1> QED BY <1>3, <1>4

\* Whoever makes the turns one by one ends with the labels PwospfNetwork takes
\* from Dijkstra in one go (dijkstra(), called by handleLsuPacket).
THEOREM TurnsAreDijkstra == TurnByTurn => [](Done => labels = Dijkstra(topology, Source))
<1>1. TurnByTurn => []OnTheWay
  BY PathInvariance, OnTheWayBegins, OnTheWayKept, PTL DEF TurnByTurn
<1>2. OnTheWay => (Done => labels = Dijkstra(topology, Source))
  BY DEF OnTheWay, Done
<1> QED BY <1>1, <1>2, PTL

-----------------------------------------------------------------------------
(* The labels against the reference definition: shortest paths.              *)

\* Within is the function its definition says it is.
LEMMA WithinTurns ==
    ASSUME Source \in V
    PROVE  /\ Within \in [0 .. Far -> SUBSET V]
           /\ Within[0] = {Source}
           /\ \A k \in 1 .. Far :
                Within[k] = Within[k - 1] \cup
                    {w \in V : \E v \in Within[k - 1] : <<v, w>> \in topology.edges}
<1> DEFINE n == Far
           S == SUBSET V
           b == {Source}
           next(X) == X \cup {w \in V : \E v \in X : <<v, w>> \in topology.edges}
           step == [k \in 1 .. n |-> [X \in S |-> next(X)]]
<1>1. n \in Nat /\ b \in S
  BY LinkGraphAssumption
<1>2. step \in [1 .. n -> [S -> S]]
  OBVIOUS
<1>3. PICK h \in [0 .. n -> S] : Loop(h, n, b, step)
  <2> HIDE DEF S, n, b, step
  <2> QED BY <1>1, <1>2, LoopExists
<1> HIDE DEF b
<1>4. h[0] = b /\ \A k \in 1 .. n : h[k] = next(h[k - 1])
  <2>1. \A k \in 1 .. n : k - 1 \in 0 .. n /\ h[k - 1] \in S
    BY <1>1
  <2> HIDE DEF n, S, next
  <2> QED BY <1>3, <2>1 DEF Loop
<1> DEFINE Def(f) == f = [k \in 0 .. n |-> IF k = 0 THEN {Source} ELSE next(f[k - 1])]
           l == CHOOSE f : Def(f)
<1>5. Def(h)
  <2> DEFINE m == [k \in 0 .. n |-> IF k = 0 THEN {Source} ELSE next(h[k - 1])]
  <2> HIDE DEF next
  <2>1. \A k \in 0 .. n : h[k] = m[k]
    BY <1>1, <1>4 DEF b
  <2>2. h = m
    BY <2>1, <1>3
  <2> QED BY <2>2
<1>6. Def(l)
  <2> HIDE DEF Def
  <2> QED BY <1>5
<1>7. Within = l
  BY DEF Within, V
<1> HIDE DEF l
<1>8. l[0] = {Source} /\ \A k \in 1 .. n : l[k] = next(l[k - 1])
  <2> HIDE DEF next
  <2>1. l = [k \in 0 .. n |-> IF k = 0 THEN {Source} ELSE next(l[k - 1])]
    BY <1>6
  <2>2. \A k \in 0 .. n : l[k] = IF k = 0 THEN {Source} ELSE next(l[k - 1])
    BY <2>1
  <2>3. 0 \in 0 .. n /\ \A k \in 1 .. n : k \in 0 .. n /\ k # 0
    BY <1>1
  <2> HIDE DEF n
  <2> QED BY <2>2, <2>3
<1> DEFINE U == {k \in 0 .. n : l[k] = h[k]}
<1>9. 0 .. n \subseteq U
  <2>1. 0 \in U
    <3> HIDE DEF next
    <3>1. l[0] = h[0]
      BY <1>4, <1>8 DEF b
    <3> QED BY <1>1, <3>1
  <2>2. ASSUME NEW k \in 1 .. n, k - 1 \in U PROVE k \in U
    <3> HIDE DEF next
    <3> QED BY <2>2, <1>4, <1>8
  <2> HIDE DEF U, n
  <2> QED BY <1>1, <2>1, <2>2, Counting
<1>10. l \in [0 .. n -> S]
  <2>1. \A k \in 0 .. n : l[k] \in S
    BY <1>9
  <2>2. l = [k \in 0 .. n |-> l[k]]
    <3> HIDE DEF next
    <3> QED BY <1>6
  <2> HIDE DEF n, S
  <2> QED BY <2>1, <2>2
<1> QED BY <1>7, <1>8, <1>10

\* A label that is not infinite is the length of a path.
LEMMA LabelsAreReached ==
    ASSUME PathInv, NEW v \in V, labels.d[v] # Far
    PROVE  v \in Within[labels.d[v]]
<1>1. Labelable(topology, Source) /\ Source \in V /\ Far \in Nat \ {0}
  BY GraphsLabelable, VerticesCounted, LinkGraphAssumption DEF PathInv, V
<1>2. labels.d \in [V -> 0 .. Far] /\ Tree(topology, Source, labels) /\ labels.visited \subseteq V
  BY DEF PathInv, After, Labels, V
<1> DEFINE T == {k \in 0 .. Far : \A w \in V : labels.d[w] = k /\ k # Far => w \in Within[k]}
<1>3. 0 \in T
  <2> SUFFICES ASSUME NEW w \in V, labels.d[w] = 0 PROVE w \in Within[0]
    BY <1>1
  <2>1. labels.parent[w] = None
    <3> SUFFICES ASSUME labels.parent[w] # None PROVE FALSE
      OBVIOUS
    <3>1. labels.d[w] = labels.d[labels.parent[w]] + 1 /\ labels.parent[w] \in V
      BY <1>2 DEF Tree, V
    <3> QED BY <1>2, <3>1
  <2>2. w = Source
    BY <1>1, <1>2, <2>1 DEF Tree, V
  <2> QED BY <1>1, <2>2, WithinTurns
<1>4. ASSUME NEW k \in 1 .. Far, k - 1 \in T PROVE k \in T
  <2> SUFFICES ASSUME NEW w \in V, labels.d[w] = k, k # Far PROVE w \in Within[k]
    BY <1>1
  <2>1. labels.parent[w] # None
    <3>1. labels.d[Source] = 0 /\ labels.d[w] # 0 /\ labels.d[w] # Far
      BY <1>1, <1>2 DEF Tree
    <3> QED BY <1>2, <3>1 DEF Tree, V
  <2> DEFINE p == labels.parent[w]
  <2>2. p \in V /\ <<p, w>> \in topology.edges /\ labels.d[w] = labels.d[p] + 1
    BY <1>2, <2>1 DEF Tree, V
  <2> HIDE DEF p
  <2>3. labels.d[p] = k - 1 /\ k - 1 # Far
    BY <1>1, <1>2, <2>2
  <2>4. p \in Within[k - 1]
    BY <1>4, <2>2, <2>3
  <2> QED BY <1>1, <2>2, <2>4, WithinTurns, SMTT(30)
<1>5. 0 .. Far \subseteq T
  <2> HIDE DEF T
  <2> QED BY <1>1, <1>3, <1>4, Counting
<1>6. labels.d[v] \in T
  BY <1>2, <1>5
<1> QED BY <1>6

\* No path is shorter than the label of a settled vertex: what is within k edges is
\* labelled so, or some vertex at most k away has not been visited.
LEMMA NoShorterPath ==
    ASSUME PathInv, NEW v \in V, v \in labels.visited \/ Done,
           NEW k \in 0 .. Far, v \in Within[k]
    PROVE  labels.d[v] <= k
<1>1. Labelable(topology, Source) /\ Source \in V /\ Far \in Nat \ {0}
  BY GraphsLabelable, VerticesCounted, LinkGraphAssumption DEF PathInv, V
<1>2. labels.d \in [V -> 0 .. Far] /\ labels.d[Source] = 0 /\ labels.visited \subseteq V
  BY DEF PathInv, After, Labels, Tree, V
<1> DEFINE Open(j) == \E u \in V \ labels.visited : labels.d[u] <= j
           T == {j \in 0 .. Far : \A w \in Within[j] : labels.d[w] <= j \/ Open(j)}
<1>3. 0 \in T
  BY <1>1, <1>2, WithinTurns
<1>4. ASSUME NEW j \in 1 .. Far, j - 1 \in T PROVE j \in T
  <2> SUFFICES ASSUME NEW w \in Within[j] PROVE labels.d[w] <= j \/ Open(j)
    BY <1>1
  <2>1. j - 1 \in 0 .. Far
    BY <1>1
  <2>2. Within[j - 1] \subseteq V
    BY <1>1, <2>1, WithinTurns
  <2>3. Open(j - 1) => Open(j)
    BY <1>2, <2>1
  <2>4. CASE w \in Within[j - 1]
    <3>1. labels.d[w] <= j - 1 \/ Open(j - 1)
      BY <1>4, <2>4
    <3>2. labels.d[w] \in Nat
      BY <1>2, <2>2, <2>4
    <3> QED BY <2>3, <3>1, <3>2
  <2>5. CASE w \notin Within[j - 1]
    <3>1. PICK u \in Within[j - 1] : <<u, w>> \in topology.edges /\ w \in V
      BY <1>1, <2>5, WithinTurns
    <3>2. u \in V /\ labels.d[u] \in Nat /\ labels.d[w] \in Nat
      BY <1>2, <2>2, <3>1
    <3>3. labels.d[u] <= j - 1 \/ Open(j - 1)
      BY <1>4, <3>1
    <3>4. CASE Open(j - 1)
      BY <2>3, <3>4
    <3>5. CASE labels.d[u] <= j - 1 /\ u \in labels.visited
      <4>1. ~Closer(topology, labels, u, w)
        BY <3>1, <3>5 DEF PathInv, After, NoneLeft, V
      <4>2. ~(labels.d[w] > labels.d[u] + 1)
        BY <3>1, <4>1 DEF Closer
      <4> QED BY <3>2, <3>5, <4>2
    <3>6. CASE labels.d[u] <= j - 1 /\ u \notin labels.visited
      <4>1. labels.d[u] <= j
        BY <3>2, <3>6
      <4> QED BY <3>2, <3>6, <4>1
    <3> QED BY <3>3, <3>4, <3>5, <3>6
  <2> QED BY <2>4, <2>5
<1>5. k \in T
  <2> HIDE DEF T
  <2> QED BY <1>1, <1>3, <1>4, Counting
<1>6. v \in labels.visited
  <2> SUFFICES ASSUME Done PROVE v \in labels.visited
    OBVIOUS
  <2>1. After(topology, Source, labels, Len(topology.vertices))
    BY DEF PathInv, Done
  <2> QED BY <1>1, <2>1, AllVisited DEF V
<1>7. labels.d[v] <= k \/ Open(k)
  BY <1>5
<1>8. ASSUME NEW u \in V \ labels.visited, labels.d[u] <= k PROVE labels.d[v] <= k
  <2>1. labels.d[v] <= labels.d[u]
    BY <1>6, <1>8 DEF PathInv, After, Order, V
  <2> QED BY <1>2, <1>8, <2>1
<1> QED BY <1>7, <1>8

\* A visited vertex has its shortest distance, and in the end every vertex has.
THEOREM ShortestDistances == TurnByTurn => []Settled
<1>1. PathInv => Settled
  <2> SUFFICES ASSUME PathInv, NEW v \in V, v \in labels.visited \/ Done
               PROVE  labels.d[v] = Distance(v)
    BY DEF Settled, V
  <2> DEFINE d == labels.d[v]
             Least(k) == v \in Within[k] /\ \A j \in 0 .. k - 1 : v \notin Within[j]
  <2>1. d \in 0 .. Far /\ Far \in Nat
    BY LinkGraphAssumption DEF PathInv, After, Labels, V
  <2>2. d # Far => v \in Within[d]
    BY LabelsAreReached
  <2>3. \A k \in 0 .. Far : v \in Within[k] => d <= k
    BY NoShorterPath
  <2>4. Distance(v) = IF \E k \in 0 .. Far : v \in Within[k]
                      THEN CHOOSE k \in 0 .. Far : Least(k) ELSE Far
    BY DEF Distance
  <2> HIDE DEF d
  <2>5. CASE ~\E k \in 0 .. Far : v \in Within[k]
    BY <2>1, <2>2, <2>4, <2>5 DEF d
  <2>6. CASE \E k \in 0 .. Far : v \in Within[k]
    <3>1. v \in Within[d]
      <4>1. CASE d = Far
        <5>1. PICK k \in 0 .. Far : v \in Within[k]
          BY <2>6
        <5>2. k = Far
          BY <2>1, <2>3, <4>1, <5>1
        <5> QED BY <4>1, <5>1, <5>2
      <4> QED BY <4>1, <2>2
    <3>2. Least(d)
      <4>1. \A j \in 0 .. d - 1 : j \in 0 .. Far /\ ~(d <= j)
        BY <2>1
      <4> QED BY <2>3, <3>1, <4>1
    <3>3. ASSUME NEW k \in 0 .. Far, Least(k) PROVE k = d
      <4>1. d <= k
        BY <2>3, <3>3
      <4>2. ~(d < k)
        <5> SUFFICES ASSUME d < k PROVE FALSE
          OBVIOUS
        <5>1. d \in 0 .. k - 1
          BY <2>1
        <5> QED BY <3>1, <3>3, <5>1
      <4> QED BY <2>1, <4>1, <4>2
    <3> HIDE DEF Least
    <3>4. d = CHOOSE k \in 0 .. Far : Least(k)
      BY <2>1, <3>2, <3>3
    <3> QED BY <2>4, <2>6, <3>4 DEF d
  <2> QED BY <2>5, <2>6 DEF d
<1> QED BY <1>1, PathInvariance, PTL

-----------------------------------------------------------------------------
(* What the LSU handler makes of a graph.                                     *)

\* A graph without loose edges, no vertex twice in its list.
Sound(g) ==
    /\ g \in Graph
    /\ g.edges \subseteq VerticesOf(g) \X VerticesOf(g)
    /\ \A i, j \in DOMAIN g.vertices : g.vertices[i] = g.vertices[j] => i = j

Grows(g, h) == VerticesOf(g) \subseteq VerticesOf(h) /\ g.edges \subseteq h.edges

\* Authentic, of one graph and of one advertisement of router s.
AuthenticGraph(g) ==
    /\ \A v \in VerticesOf(g) :
          v.type = "SUBNET" => v.subnet \in OwnNets(v.rid) \cup {DefaultNet}
    /\ \A e \in g.edges :
          IF e[2].type = "SUBNET" THEN e[1] = RouterVertex(e[2].rid)
          ELSE Adjacent(e[1].rid, e[2].rid)

AuthenticAdv(s, adv) ==
    /\ adv.subnet \in OwnNets(s) \cup {DefaultNet}
    /\ adv.rid # NoRouter => Adjacent(s, adv.rid)

\* Learnt, of one advertisement.
Taught(g, s, adv) ==
    /\ <<RouterVertex(s), SubnetVertex(s, adv.subnet)>> \in g.edges
    /\ adv.rid # NoRouter =>
          {<<RouterVertex(s), RouterVertex(adv.rid)>>,
           <<RouterVertex(adv.rid), RouterVertex(s)>>} \subseteq g.edges

LEMMA FieldsOfVertices ==
    /\ \A r \in Router : RouterVertex(r) \in Vertex
    /\ \A r \in Router, n \in Subnet : SubnetVertex(r, n) \in Vertex
    /\ \A r : RouterVertex(r).type = "ROUTER" /\ RouterVertex(r).rid = r
    /\ \A r, n : /\ SubnetVertex(r, n).type = "SUBNET" /\ SubnetVertex(r, n).rid = r
                 /\ SubnetVertex(r, n).subnet = n
BY LinkGraphAssumption DEF Vertex, RouterVertex, SubnetVertex

LEMMA FarEndsListed ==
    ASSUME NEW r \in Router, NEW i \in Ifaces(r)
    PROVE  FarEnds(r, i) =
              {e \in UNION {{s} \X Ifaces(s) : s \in Router \ {r}} : Links[e[1]][e[2]] = Links[r][i]}
BY DEF FarEnds, Ends

LEMMA AdjacentSymmetric ==
    ASSUME NEW r \in Router, NEW s, Adjacent(r, s)
    PROVE  s \in Router /\ Adjacent(s, r)
<1>1. PICK i \in Ifaces(r) : \E e \in FarEnds(r, i) : e[1] = s
  BY DEF Adjacent
<1>2. PICK e \in FarEnds(r, i) : e[1] = s
  BY <1>1
<1>3. /\ s \in Router \ {r} /\ e[2] \in Ifaces(s) /\ e = <<s, e[2]>>
      /\ Links[s][e[2]] = Links[r][i]
  BY <1>2, FarEndsListed
<1>4. <<r, i>> \in FarEnds(s, e[2])
  BY <1>1, <1>3, FarEndsListed
<1> QED BY <1>3, <1>4 DEF Adjacent

LEMMA WithVertexAdds ==
    ASSUME NEW g, Sound(g), NEW v \in Vertex
    PROVE  /\ Sound(WithVertex(g, v))
           /\ VerticesOf(WithVertex(g, v)) = VerticesOf(g) \cup {v}
           /\ WithVertex(g, v).edges = g.edges
<1>1. CASE Knows(g, v)
  BY <1>1 DEF WithVertex, Knows
<1>2. CASE ~Knows(g, v)
  <2> DEFINE q == <<v>> \o g.vertices
             h == [g EXCEPT !.vertices = q]
             n == Len(g.vertices)
  <2>1. /\ g.vertices \in Seq(Vertex) /\ n \in Nat /\ DOMAIN g.vertices = 1 .. n
        /\ g = [vertices |-> g.vertices, edges |-> g.edges]
        /\ g.edges \subseteq Vertex \X Vertex
    BY DEF Sound, Graph
  <2>2. /\ q \in Seq(Vertex) /\ DOMAIN q = 1 .. n + 1 /\ q[1] = v
        /\ \A i \in 1 .. n : q[i + 1] = g.vertices[i]
    BY <2>1
  <2>3. h.vertices = q /\ h.edges = g.edges /\ h = [vertices |-> q, edges |-> g.edges]
        /\ WithVertex(g, v) = h
    <3>1. WithVertex(g, v) = h
      BY <1>2 DEF WithVertex
    <3> HIDE DEF q
    <3>2. h = [vertices |-> q, edges |-> g.edges]
      BY <2>1
    <3> QED BY <3>1, <3>2
  <2> HIDE DEF q, h, n
  <2>4. \A i \in 1 .. n + 1 : i = 1 \/ (i - 1 \in 1 .. n /\ q[i] = g.vertices[i - 1])
    <3> SUFFICES ASSUME NEW i \in 1 .. n + 1, i # 1
                 PROVE  i - 1 \in 1 .. n /\ q[i] = g.vertices[i - 1]
      OBVIOUS
    <3>1. i - 1 \in 1 .. n /\ i - 1 + 1 = i
      BY <2>1
    <3> QED BY <2>2, <3>1
  <2>5. VerticesOf(h) = VerticesOf(g) \cup {v}
    <3>1. ASSUME NEW x \in VerticesOf(h) PROVE x \in VerticesOf(g) \cup {v}
      <4>1. PICK i \in 1 .. n + 1 : x = q[i]
        BY <2>2, <2>3, <3>1 DEF VerticesOf
      <4>2. CASE i = 1
        BY <2>2, <4>1, <4>2
      <4>3. CASE i # 1
        BY <2>1, <2>4, <4>1, <4>3 DEF VerticesOf
      <4> QED BY <4>2, <4>3
    <3>2. 1 \in 1 .. n + 1 /\ \A i \in 1 .. n : i + 1 \in 1 .. n + 1
      BY <2>1
    <3>3. v \in VerticesOf(h)
      BY <2>2, <2>3, <3>2 DEF VerticesOf
    <3>4. ASSUME NEW i \in 1 .. n PROVE g.vertices[i] \in VerticesOf(h)
      <4>1. g.vertices[i] = q[i + 1] /\ i + 1 \in DOMAIN h.vertices
        BY <2>2, <2>3, <3>2
      <4> QED BY <2>3, <4>1 DEF VerticesOf
    <3>5. VerticesOf(g) \subseteq VerticesOf(h)
      BY <2>1, <3>4 DEF VerticesOf
    <3> QED BY <3>1, <3>3, <3>5
  <2>6. \A i, j \in 1 .. n + 1 : q[i] = q[j] => i = j
    <3> SUFFICES ASSUME NEW i \in 1 .. n + 1, NEW j \in 1 .. n + 1, q[i] = q[j]
                 PROVE  i = j
      OBVIOUS
    <3>1. \A k \in 1 .. n : g.vertices[k] # v
      BY <1>2, <2>1 DEF Knows, VerticesOf
    <3>2. (i = 1) <=> (j = 1)
      BY <2>2, <2>4, <3>1
    <3>3. CASE i # 1 /\ j # 1
      <4>1. i - 1 \in 1 .. n /\ j - 1 \in 1 .. n /\ g.vertices[i - 1] = g.vertices[j - 1]
        BY <2>4, <3>3
      <4>2. i - 1 = j - 1
        BY <2>1, <4>1 DEF Sound
      <4> QED BY <4>2
    <3> QED BY <3>2, <3>3
  <2>7. Sound(h)
    BY <2>1, <2>2, <2>3, <2>5, <2>6 DEF Sound, Graph
  <2> QED BY <2>3, <2>5, <2>7
<1> QED BY <1>1, <1>2

LEMMA WithEdgesAdds ==
    ASSUME NEW g, Sound(g), NEW E \in SUBSET (VerticesOf(g) \X VerticesOf(g))
    PROVE  /\ Sound(WithEdges(g, E))
           /\ VerticesOf(WithEdges(g, E)) = VerticesOf(g)
           /\ WithEdges(g, E).edges = g.edges \cup E
<1> DEFINE h == WithEdges(g, E)
<1>1. h = [vertices |-> g.vertices, edges |-> g.edges \cup E]
  <2>1. g = [vertices |-> g.vertices, edges |-> g.edges]
    BY DEF Sound, Graph
  <2> QED BY <2>1 DEF WithEdges
<1>2. VerticesOf(g) \subseteq Vertex
  BY DEF Sound, Graph, VerticesOf
<1>3. h.vertices = g.vertices /\ h.edges = g.edges \cup E
  BY <1>1
<1>4. h \in Graph
  BY <1>1, <1>2 DEF Sound, Graph
<1> HIDE DEF h
<1> QED BY <1>3, <1>4 DEF h, Sound, VerticesOf

\* One advertisement of router r, whose vertex is there.
LEMMA LearnLearns ==
    ASSUME NEW g, Sound(g), NEW r \in Router, RouterVertex(r) \in VerticesOf(g), NEW adv \in Adv
    PROVE  /\ Sound(Learn(g, r, adv))
           /\ Grows(g, Learn(g, r, adv))
           /\ Taught(Learn(g, r, adv), r, adv)
           /\ AuthenticGraph(g) /\ AuthenticAdv(r, adv) => AuthenticGraph(Learn(g, r, adv))
<1> DEFINE net == SubnetVertex(r, adv.subnet)
           far == RouterVertex(adv.rid)
           self == RouterVertex(r)
           withNet == WithVertex(g, net)
           withFar == IF adv.rid = NoRouter THEN withNet ELSE WithVertex(withNet, far)
           E == {<<self, net>>} \cup
                  (IF adv.rid = NoRouter THEN {} ELSE {<<self, far>>, <<far, self>>})
           h == Learn(g, r, adv)
<1>1. adv.subnet \in Subnet /\ adv.rid \in Router \cup {NoRouter}
  BY DEF Adv
<1>2. h = WithEdges(withFar, E)
  BY DEF Learn
<1>3. net \in Vertex /\ (adv.rid # NoRouter => far \in Vertex)
  BY <1>1, FieldsOfVertices
<1> HIDE DEF net, far, self, E, h
<1>4. Sound(withNet) /\ VerticesOf(withNet) = VerticesOf(g) \cup {net} /\ withNet.edges = g.edges
  BY <1>3, WithVertexAdds
<1> HIDE DEF withNet
<1>5. /\ Sound(withFar) /\ withFar.edges = g.edges
      /\ VerticesOf(withFar) = VerticesOf(g) \cup {net}
                                 \cup (IF adv.rid = NoRouter THEN {} ELSE {far})
  BY <1>3, <1>4, WithVertexAdds
<1> HIDE DEF withFar
<1>6. E \in SUBSET (VerticesOf(withFar) \X VerticesOf(withFar))
  BY <1>5 DEF E, self
<1>7. /\ Sound(h) /\ VerticesOf(h) = VerticesOf(withFar) /\ h.edges = g.edges \cup E
  BY <1>2, <1>5, <1>6, WithEdgesAdds
<1>8. Grows(g, h)
  BY <1>5, <1>7 DEF Grows
<1>9. Taught(h, r, adv)
  BY <1>7 DEF Taught, E, net, far, self
<1>10. ASSUME AuthenticGraph(g), AuthenticAdv(r, adv) PROVE AuthenticGraph(h)
  <2>1. ASSUME NEW v \in VerticesOf(h), v.type = "SUBNET"
        PROVE  v.subnet \in OwnNets(v.rid) \cup {DefaultNet}
    <3>1. CASE v \in VerticesOf(g)
      BY <1>10, <2>1, <3>1 DEF AuthenticGraph
    <3>2. CASE v = net
      <4>1. v.subnet = adv.subnet /\ v.rid = r
        BY <3>2, FieldsOfVertices DEF net
      <4> QED BY <1>10, <4>1 DEF AuthenticAdv
    <3>3. CASE v = far
      BY <2>1, <3>3, FieldsOfVertices DEF far
    <3> QED BY <1>5, <1>7, <3>1, <3>2, <3>3
  <2>2. ASSUME NEW e \in h.edges
        PROVE  IF e[2].type = "SUBNET" THEN e[1] = RouterVertex(e[2].rid)
               ELSE Adjacent(e[1].rid, e[2].rid)
    <3>1. CASE e \in g.edges
      BY <1>10, <3>1 DEF AuthenticGraph
    <3>2. CASE e = <<self, net>>
      BY <3>2, FieldsOfVertices DEF self, net
    <3>3. CASE adv.rid # NoRouter /\ e = <<self, far>>
      <4>1. e[2].type = "ROUTER" /\ e[1].rid = r /\ e[2].rid = adv.rid
        BY <3>3, FieldsOfVertices DEF self, far
      <4> QED BY <1>10, <3>3, <4>1 DEF AuthenticAdv
    <3>4. CASE adv.rid # NoRouter /\ e = <<far, self>>
      <4>1. e[2].type = "ROUTER" /\ e[2].rid = r /\ e[1].rid = adv.rid
        BY <3>4, FieldsOfVertices DEF self, far
      <4> QED BY <1>10, <3>4, <4>1, AdjacentSymmetric DEF AuthenticAdv
    <3> QED BY <1>7, <3>1, <3>2, <3>3, <3>4 DEF E
  <2> QED BY <2>1, <2>2 DEF AuthenticGraph
<1> QED BY <1>7, <1>8, <1>9, <1>10 DEF h

\* All advertisements of an LSU.
LEMMA LearnAllLearns ==
    ASSUME NEW g, Sound(g), NEW r \in Router, NEW advs \in Seq(Adv)
    PROVE  /\ Sound(LearnAll(g, r, advs))
           /\ Grows(g, LearnAll(g, r, advs))
           /\ \A i \in DOMAIN advs : Taught(LearnAll(g, r, advs), r, advs[i])
           /\ AuthenticGraph(g) /\ (\A i \in DOMAIN advs : AuthenticAdv(r, advs[i])) =>
                 AuthenticGraph(LearnAll(g, r, advs))
<1> DEFINE S == {h \in Graph : Sound(h) /\ RouterVertex(r) \in VerticesOf(h)}
           n == Len(advs)
           b == WithVertex(g, RouterVertex(r))
           step == [k \in 1 .. n |-> [h \in S |-> Learn(h, r, advs[k])]]
<1>1. /\ b \in S /\ Grows(g, b)
      /\ AuthenticGraph(g) => AuthenticGraph(b)
  <2>1. /\ RouterVertex(r) \in Vertex /\ Sound(b) /\ b.edges = g.edges
        /\ VerticesOf(b) = VerticesOf(g) \cup {RouterVertex(r)}
    BY FieldsOfVertices, WithVertexAdds
  <2> HIDE DEF b
  <2>2. b \in S /\ Grows(g, b)
    BY <2>1 DEF Grows, Sound
  <2>3. AuthenticGraph(g) => AuthenticGraph(b)
    BY <2>1, FieldsOfVertices DEF AuthenticGraph
  <2> QED BY <2>2, <2>3
<1> HIDE DEF b
<1>2. n \in Nat /\ DOMAIN advs = 1 .. n /\ \A k \in 1 .. n : advs[k] \in Adv
  OBVIOUS
<1>3. \A h \in S, k \in 1 .. n :
          /\ Learn(h, r, advs[k]) \in S /\ Grows(h, Learn(h, r, advs[k]))
          /\ Taught(Learn(h, r, advs[k]), r, advs[k])
          /\ AuthenticGraph(h) /\ AuthenticAdv(r, advs[k]) =>
                AuthenticGraph(Learn(h, r, advs[k]))
  <2> SUFFICES ASSUME NEW h \in S, NEW k \in 1 .. n
               PROVE  /\ Learn(h, r, advs[k]) \in S /\ Grows(h, Learn(h, r, advs[k]))
                      /\ Taught(Learn(h, r, advs[k]), r, advs[k])
                      /\ AuthenticGraph(h) /\ AuthenticAdv(r, advs[k]) =>
                            AuthenticGraph(Learn(h, r, advs[k]))
    OBVIOUS
  <2>1. PICK adv \in Adv : adv = advs[k]
    BY <1>2
  <2>2. /\ Sound(Learn(h, r, adv)) /\ Grows(h, Learn(h, r, adv))
        /\ Taught(Learn(h, r, adv), r, adv)
        /\ AuthenticGraph(h) /\ AuthenticAdv(r, adv) => AuthenticGraph(Learn(h, r, adv))
    BY LearnLearns
  <2>3. Learn(h, r, adv) \in S
    BY <2>2 DEF Sound, Grows
  <2> QED BY <2>1, <2>2, <2>3
<1>4. PICK f \in [0 .. n -> S] : Loop(f, n, b, step)
  <2>1. step \in [1 .. n -> [S -> S]]
    BY <1>3
  <2> HIDE DEF S, n, step
  <2> QED BY <1>1, <1>2, <2>1, LoopExists
<1>5. f[0] = b /\ \A k \in 1 .. n : f[k] = Learn(f[k - 1], r, advs[k]) /\ f[k - 1] \in S
  <2>1. \A k \in 1 .. n : k - 1 \in 0 .. n /\ f[k - 1] \in S
    BY <1>2
  <2> HIDE DEF n, S
  <2> QED BY <1>4, <2>1 DEF Loop
<1> HIDE DEF step
<1> DEFINE Def(h) ==
        h = [k \in 0 .. n |-> IF k = 0 THEN WithVertex(g, RouterVertex(r))
                              ELSE Learn(h[k - 1], r, advs[k])]
           l == CHOOSE h : Def(h)
<1>6. Def(f)
  <2> DEFINE m == [k \in 0 .. n |-> IF k = 0 THEN WithVertex(g, RouterVertex(r))
                                    ELSE Learn(f[k - 1], r, advs[k])]
  <2>1. \A k \in 0 .. n : f[k] = m[k]
    BY <1>2, <1>5 DEF b
  <2>2. f = m
    BY <2>1, <1>4
  <2> QED BY <2>2
<1>7. Def(l)
  <2> HIDE DEF Def
  <2> QED BY <1>6
<1>8. LearnAll(g, r, advs) = l[n]
  BY DEF LearnAll
<1> HIDE DEF l
<1>9. l[0] = b /\ \A k \in 1 .. n : l[k] = Learn(l[k - 1], r, advs[k])
  BY <1>2, <1>7 DEF b
<1> HIDE DEF Def, S
<1> DEFINE T == {k \in 0 .. n :
                  /\ l[k] \in S /\ Grows(g, l[k])
                  /\ \A i \in 1 .. k : Taught(l[k], r, advs[i])
                  /\ AuthenticGraph(g) /\ (\A i \in 1 .. n : AuthenticAdv(r, advs[i])) =>
                        AuthenticGraph(l[k])}
<1>10. 0 \in T
  BY <1>1, <1>2, <1>9
<1>11. ASSUME NEW k \in 1 .. n, k - 1 \in T PROVE k \in T
  <2>1. PICK p, q : p = l[k - 1] /\ q = l[k]
    OBVIOUS
  <2>2. q = Learn(p, r, advs[k])
    BY <1>9, <2>1
  <2>3. /\ p \in S /\ Grows(g, p) /\ \A i \in 1 .. k - 1 : Taught(p, r, advs[i])
        /\ AuthenticGraph(g) /\ (\A i \in 1 .. n : AuthenticAdv(r, advs[i])) =>
              AuthenticGraph(p)
    BY <1>11, <2>1
  <2>4. /\ q \in S /\ Grows(p, q) /\ Taught(q, r, advs[k])
        /\ AuthenticGraph(p) /\ AuthenticAdv(r, advs[k]) => AuthenticGraph(q)
    BY <1>3, <2>2, <2>3
  <2>5. \A i \in 1 .. k : Taught(q, r, advs[i])
    <3> SUFFICES ASSUME NEW i \in 1 .. k, i # k PROVE Taught(q, r, advs[i])
      BY <2>4
    <3>1. i \in 1 .. k - 1
      OBVIOUS
    <3>2. Taught(p, r, advs[i])
      BY <2>3, <3>1
    <3> QED BY <2>4, <3>2 DEF Grows, Taught
  <2>6. Grows(g, q)
    BY <2>3, <2>4 DEF Grows
  <2>7. k \in 0 .. n
    BY <1>2
  <2> QED BY <2>1, <2>3, <2>4, <2>5, <2>6, <2>7
<1>12. n \in T
  <2> HIDE DEF T, n
  <2>1. 0 .. n \subseteq T
    BY <1>2, <1>10, <1>11, Counting
  <2> QED BY <1>2, <2>1
<1> QED BY <1>2, <1>8, <1>12 DEF S

-----------------------------------------------------------------------------
(* PwospfNetwork: the inductive invariant.                                    *)

Shapes == DOMAIN neighbour = Router /\ DOMAIN graph = Router /\ DOMAIN rt = Router

\* Every router has a graph dijkstra() can be called on, and it is true.
GraphsTrue ==
    \A r \in Router :
        /\ Sound(graph[r])
        /\ RouterVertex(r) \in VerticesOf(graph[r])
        /\ AuthenticGraph(graph[r])

NeighboursReal ==
    \A r \in Router : \A i \in Ifaces(r) :
        neighbour[r][i] # NoRouter => \E e \in FarEnds(r, i) : e[1] = neighbour[r][i]

WireTrue ==
    \A m \in wire : \A i \in DOMAIN m.advs : AuthenticAdv(m.origin, m.advs[i])

\* Nobody has seen a later round than was begun.
Numbered ==
    /\ \A m \in wire : m.seq <= round[m.origin]
    /\ \A r, s \in Router : seen[r][s] <= round[s]
    /\ \A r \in Router : round[r] <= Rounds[r]

\* The last round begins when no HELLO is missing, so what it advertises stays.
LastHeard ==
    \A r \in Router : (round[r] > 0 /\ round[r] = Rounds[r]) => HeardAll(r)

LastAgrees ==
    \A m \in wire : (m.seq > 0 /\ m.seq = Rounds[m.origin]) => m.advs = Adverts(m.origin)

\* A router's own subnets stay on the link.
OwnTable ==
    \A r \in Router : \A n \in OwnNets(r) : n \in DOMAIN rt[r] /\ rt[r][n].via = NoRouter

\* Router s is at the far end of eth0 of router r.
AtEth0(r, s) == \E e \in FarEnds(r, 1) : e[1] = s

\* Where a route may lead: nowhere else, to the owner of the subnet, or out of eth0.
Leads(r, n, via) ==
    \/ via = NoRouter
    \/ AtEth0(r, via)
    \/ via \in Router /\ n \in OwnNets(via)

TablesLead ==
    \A r \in Router : \A n \in DOMAIN rt[r] \ {DefaultNet} : Leads(r, n, rt[r][n].via)

NetInv ==
    /\ TypeOK /\ Shapes /\ GraphsTrue /\ NeighboursReal /\ WireTrue
    /\ Numbered /\ LastHeard /\ LastAgrees /\ OwnTable /\ TablesLead /\ SeenIsLearnt

-----------------------------------------------------------------------------

LEMMA InterfacesListed ==
    ASSUME NEW r \in Router
    PROVE  /\ Ifaces(r) = 1 .. Len(Links[r]) /\ Len(Links[r]) \in Nat
           /\ Ifaces(r) \subseteq Nat /\ 1 \in Ifaces(r)
           /\ \A i \in Ifaces(r) : Links[r][i] \in Subnet \ {DefaultNet}
           /\ \A i, j \in Ifaces(r) : Links[r][i] = Links[r][j] => i = j
<1>1. Links[r] \in Seq(Subnet \ {DefaultNet}) /\ Links[r] # <<>>
  BY PwospfNetworkAssumption
<1>2. Ifaces(r) = 1 .. Len(Links[r]) /\ Len(Links[r]) \in Nat
  BY <1>1 DEF Ifaces
<1>3. Len(Links[r]) # 0
  BY <1>1
<1>4. Ifaces(r) \subseteq Nat /\ 1 \in Ifaces(r)
  BY <1>2, <1>3
<1>5. \A i \in Ifaces(r) : Links[r][i] \in Subnet \ {DefaultNet}
  BY <1>1, <1>2
<1> QED BY <1>2, <1>4, <1>5, PwospfNetworkAssumption

LEMMA FarEndsAreInterfaces ==
    ASSUME NEW r \in Router, NEW i \in Ifaces(r), NEW e \in FarEnds(r, i)
    PROVE  e[1] \in Router /\ e[1] # r /\ e[2] \in Ifaces(e[1]) /\ e[2] \in Nat
<1>1. e[1] \in Router \ {r} /\ e[2] \in Ifaces(e[1])
  BY FarEndsListed
<1> QED BY <1>1, InterfacesListed

\* The graph and the table a router begins with.
LEMMA OwnGraphTrue ==
    ASSUME NEW r \in Router
    PROVE  /\ Sound(OwnGraph(r, Links[r]))
           /\ RouterVertex(r) \in VerticesOf(OwnGraph(r, Links[r]))
           /\ AuthenticGraph(OwnGraph(r, Links[r]))
<1> DEFINE nets == Links[r]
           n == Len(nets)
           g == OwnGraph(r, nets)
           a == [i \in 1 .. n |-> SubnetVertex(r, nets[n - i + 1])]
           b == <<RouterVertex(r)>>
           q == g.vertices
<1>1. /\ DOMAIN nets = 1 .. n /\ n \in Nat
      /\ \A i \in 1 .. n : nets[i] \in Subnet \ {DefaultNet}
      /\ \A i, j \in 1 .. n : nets[i] = nets[j] => i = j
  BY InterfacesListed DEF Ifaces
<1>2. g = [vertices |-> a \o b,
           edges |-> {<<RouterVertex(r), SubnetVertex(r, nets[i])>> : i \in DOMAIN nets}]
  BY DEF OwnGraph
<1> HIDE DEF nets, g
<1>3. \A i \in 1 .. n : n - i + 1 \in 1 .. n
  BY <1>1
<1>4. a \in Seq(Vertex) /\ Len(a) = n
  <2>1. \A i \in 1 .. n : SubnetVertex(r, nets[n - i + 1]) \in Vertex
    BY <1>1, <1>3, FieldsOfVertices
  <2> QED BY <1>1, <2>1
<1>5. b \in Seq(Vertex) /\ Len(b) = 1 /\ b[1] = RouterVertex(r)
  BY FieldsOfVertices
<1>6. \A i \in 1 .. n : a[i] = SubnetVertex(r, nets[n - i + 1])
  OBVIOUS
<1> HIDE DEF a, b
<1>7. /\ a \o b \in Seq(Vertex) /\ DOMAIN (a \o b) = 1 .. n + 1
      /\ \A i \in 1 .. n + 1 : (a \o b)[i] = IF i <= n THEN a[i] ELSE b[i - n]
  <2>1. /\ a \o b \in Seq(Vertex) /\ Len(a \o b) = Len(a) + Len(b)
        /\ \A i \in 1 .. Len(a) + Len(b) :
              (a \o b)[i] = IF i <= Len(a) THEN a[i] ELSE b[i - Len(a)]
    <3> HIDE DEF n
    <3> QED BY <1>4, <1>5, ConcatProperties
  <2>2. Len(a) + Len(b) = n + 1
    BY <1>4, <1>5
  <2>3. DOMAIN (a \o b) = 1 .. n + 1
    BY <2>1, <2>2, LenProperties
  <2> QED BY <1>4, <2>1, <2>2, <2>3
<1>8. /\ q \in Seq(Vertex) /\ DOMAIN q = 1 .. n + 1
      /\ \A i \in 1 .. n : q[i] = SubnetVertex(r, nets[n - i + 1])
      /\ q[n + 1] = RouterVertex(r)
  <2>1. q = a \o b
    BY <1>2
  <2>2. \A i \in 1 .. n : i \in 1 .. n + 1 /\ i <= n
    BY <1>1
  <2>3. n + 1 \in 1 .. n + 1 /\ ~(n + 1 <= n) /\ n + 1 - n = 1
    BY <1>1
  <2> QED BY <1>5, <1>6, <1>7, <2>1, <2>2, <2>3
<1> HIDE DEF q
<1>9. \A i \in 1 .. n + 1 : i \in 1 .. n \/ i = n + 1
  BY <1>1
<1>10. \A v \in VerticesOf(g) :
          v = RouterVertex(r) \/ \E i \in 1 .. n : v = SubnetVertex(r, nets[i])
  BY <1>3, <1>8, <1>9 DEF VerticesOf, q
<1>11. /\ RouterVertex(r) \in VerticesOf(g)
       /\ \A i \in 1 .. n : SubnetVertex(r, nets[i]) \in VerticesOf(g)
  <2>1. ASSUME NEW i \in 1 .. n PROVE SubnetVertex(r, nets[i]) \in VerticesOf(g)
    <3>1. n - i + 1 \in 1 .. n /\ n - (n - i + 1) + 1 = i /\ n - i + 1 \in 1 .. n + 1
      BY <1>1
    <3>2. q[n - i + 1] = SubnetVertex(r, nets[i])
      BY <1>8, <3>1
    <3> QED BY <1>8, <3>1, <3>2 DEF VerticesOf, q
  <2>2. n + 1 \in 1 .. n + 1
    BY <1>1
  <2> QED BY <1>8, <2>1, <2>2 DEF VerticesOf, q
<1>12. g.edges = {<<RouterVertex(r), SubnetVertex(r, nets[i])>> : i \in 1 .. n}
  BY <1>1, <1>2
<1>13. \A i, j \in 1 .. n + 1 : q[i] = q[j] => i = j
  <2> SUFFICES ASSUME NEW i \in 1 .. n + 1, NEW j \in 1 .. n + 1, q[i] = q[j] PROVE i = j
    OBVIOUS
  <2>1. CASE i \in 1 .. n /\ j \in 1 .. n
    <3>1. nets[n - i + 1] = nets[n - j + 1]
      BY <1>8, <2>1, FieldsOfVertices
    <3>2. n - i + 1 = n - j + 1
      BY <1>1, <1>3, <2>1, <3>1
    <3> QED BY <1>1, <3>2
  <2>2. ASSUME NEW k \in 1 .. n PROVE q[k] # q[n + 1]
    BY <1>8, FieldsOfVertices
  <2> QED BY <1>9, <2>1, <2>2
<1>14. Sound(g)
  <2>1. g.edges \subseteq VerticesOf(g) \X VerticesOf(g)
    BY <1>11, <1>12
  <2>2. VerticesOf(g) \subseteq Vertex
    BY <1>8 DEF VerticesOf, q
  <2>3. g = [vertices |-> q, edges |-> g.edges]
    BY <1>2 DEF q
  <2>4. g \in Graph
    BY <1>8, <2>1, <2>2, <2>3 DEF Graph
  <2> QED BY <1>8, <1>13, <2>1, <2>4 DEF Sound, q
<1>15. AuthenticGraph(g)
  <2>1. \A i \in 1 .. n : nets[i] \in OwnNets(r)
    BY <1>1 DEF OwnNets, Ifaces, nets
  <2> QED BY <1>10, <1>12, <2>1, FieldsOfVertices DEF AuthenticGraph
<1> QED BY <1>11, <1>14, <1>15 DEF g, nets

LEMMA OwnRoutesOnLink ==
    ASSUME NEW r \in Router
    PROVE  /\ OwnNets(r) \subseteq DOMAIN OwnRoutes(r) /\ DOMAIN OwnRoutes(r) \subseteq Subnet
           /\ \A n \in DOMAIN OwnRoutes(r) :
                /\ OwnRoutes(r)[n] \in Route /\ OwnRoutes(r)[n].iface \in Ifaces(r)
                /\ OwnRoutes(r)[n].via = NoRouter
<1>1. Ifaces(r) \subseteq Nat /\ 1 \in Ifaces(r)
      /\ \A i \in Ifaces(r) : Links[r][i] \in Subnet \ {DefaultNet}
  BY InterfacesListed
<1>2. DOMAIN OwnRoutes(r) = OwnNets(r) \cup (IF r \in Primary THEN {DefaultNet} ELSE {})
  BY DEF OwnRoutes, OwnNets
<1>3. OwnNets(r) \subseteq Subnet
  BY <1>1 DEF OwnNets
<1> SUFFICES ASSUME NEW n \in DOMAIN OwnRoutes(r)
             PROVE  /\ OwnRoutes(r)[n] \in Route /\ OwnRoutes(r)[n].iface \in Ifaces(r)
                    /\ OwnRoutes(r)[n].via = NoRouter
  BY <1>2, <1>3, LinkGraphAssumption
<1> DEFINE i == IF n = DefaultNet THEN 1 ELSE CHOOSE j \in Ifaces(r) : Links[r][j] = n
<1>4. OwnRoutes(r)[n] = [iface |-> i, via |-> NoRouter]
  BY <1>2 DEF OwnRoutes, OwnNets
<1>5. i \in Ifaces(r)
  <2>1. n # DefaultNet => \E j \in Ifaces(r) : Links[r][j] = n
    BY <1>2 DEF OwnNets
  <2> QED BY <1>1, <2>1
<1> HIDE DEF i
<1> QED BY <1>1, <1>4, <1>5 DEF Route

LEMMA NetInvBegins == Init => NetInv
<1> SUFFICES ASSUME Init PROVE NetInv
  OBVIOUS
<1> USE DEF Init
<1>1. Shapes
  BY DEF Shapes
<1>2. GraphsTrue
  BY OwnGraphTrue DEF GraphsTrue
<1>3. NeighboursReal
  BY DEF NeighboursReal
<1>4. WireTrue
  BY DEF WireTrue
<1>5. Numbered /\ LastHeard /\ LastAgrees
  BY PwospfNetworkAssumption DEF Numbered, LastHeard, LastAgrees
<1>6. OwnTable
  BY OwnRoutesOnLink DEF OwnTable
<1>7. TablesLead
  BY OwnRoutesOnLink DEF TablesLead, Leads
<1>8. SeenIsLearnt
  BY DEF SeenIsLearnt
<1>9. TypeOK
  <2>1. ASSUME NEW r \in Router
        PROVE  /\ neighbour[r] \in [Ifaces(r) -> Router \cup {NoRouter}]
               /\ graph[r] \in Graph
               /\ graph[r].edges \subseteq VerticesOf(graph[r]) \X VerticesOf(graph[r])
               /\ DOMAIN rt[r] \subseteq Subnet
               /\ \A n \in DOMAIN rt[r] : rt[r][n] \in Route /\ rt[r][n].iface \in Ifaces(r)
    BY <1>2, OwnRoutesOnLink DEF GraphsTrue, Sound
  <2>2. seen \in [Router -> [Router -> Nat]] /\ round \in [Router -> Nat]
    OBVIOUS
  <2> QED BY <2>1, <2>2 DEF TypeOK
<1> QED BY <1>1, <1>2, <1>3, <1>4, <1>5, <1>6, <1>7, <1>8, <1>9 DEF NetInv

-----------------------------------------------------------------------------
(* The steps.                                                                *)

\* What a router advertises depends on its neighbours alone, and a HELLO that is not
\* missing is not missed when another router stops.
LEMMA AdvertsStay ==
    ASSUME NEW r \in Router, neighbour'[r] = neighbour[r]
    PROVE  Adverts(r)' = Adverts(r)
BY DEF Adverts

LEMMA HeardAllStays ==
    ASSUME NEW r \in Router, neighbour'[r] = neighbour[r], up' \subseteq up, HeardAll(r)
    PROVE  HeardAll(r)'
BY DEF HeardAll, Alive

\* Whoever counts the last round as seen, or has it under way, was sent it.
LEMMA LastIsBegun ==
    ASSUME NetInv, NEW r \in Router, NEW k \in Nat, k > 0, k = Rounds[r], k <= round[r]
    PROVE  round[r] > 0 /\ round[r] = Rounds[r] /\ HeardAll(r)
<1>1. round[r] \in Nat /\ Rounds[r] \in Nat /\ round[r] <= Rounds[r]
  BY PwospfNetworkAssumption DEF NetInv, TypeOK, Numbered
<1>2. round[r] > 0 /\ round[r] = Rounds[r]
  BY <1>1
<1> QED BY <1>2 DEF NetInv, LastHeard

LEMMA LeaveKeeps ==
    ASSUME NetInv, NEW r \in Router, Leave(r)
    PROVE  NetInv'
<1>1. /\ up' \subseteq up /\ neighbour' = neighbour /\ graph' = graph /\ seen' = seen
      /\ rt' = rt /\ round' = round /\ wire' \subseteq wire
      /\ unserved' = [unserved EXCEPT ![r] = {}]
  BY DEF Leave
<1>2. TypeOK'
  BY <1>1 DEF NetInv, TypeOK
<1>3. \A s \in Router : Adverts(s)' = Adverts(s) /\ (HeardAll(s) => HeardAll(s)')
  BY <1>1, AdvertsStay, HeardAllStays
<1>4. LastHeard'
  BY <1>1, <1>3 DEF NetInv, LastHeard
<1>5. LastAgrees'
  BY <1>1, <1>3 DEF NetInv, LastAgrees, TypeOK, Lsu
<1>6. SeenIsLearnt'
  BY <1>1, <1>3 DEF NetInv, SeenIsLearnt, Learnt
<1> QED
  BY <1>1, <1>2, <1>4, <1>5, <1>6 DEF NetInv, Shapes, GraphsTrue, NeighboursReal, WireTrue,
              Numbered, OwnTable, TablesLead

LEMMA HelloKeeps ==
    ASSUME NetInv, NEW r \in Router, NEW i \in Ifaces(r), Hello(r, i)
    PROVE  NetInv'
<1>1. /\ up' = up /\ graph' = graph /\ seen' = seen
      /\ rt' = rt /\ round' = round /\ unserved' = unserved /\ wire' = wire
      /\ neighbour[r][i] = NoRouter
  BY DEF Hello
<1>2. PICK e \in FarEnds(r, i) : e[1] \in up /\ neighbour' = [neighbour EXCEPT ![r][i] = e[1]]
  BY DEF Hello
<1>3. e[1] \in Router
  BY FarEndsAreInterfaces
<1>4. /\ DOMAIN neighbour' = Router
      /\ \A s \in Router : s # r => neighbour'[s] = neighbour[s]
      /\ neighbour'[r] = [neighbour[r] EXCEPT ![i] = e[1]]
  BY <1>2 DEF NetInv, Shapes
<1>5. neighbour[r] \in [Ifaces(r) -> Router \cup {NoRouter}]
  BY DEF NetInv, TypeOK
<1>6. neighbour'[r] \in [Ifaces(r) -> Router \cup {NoRouter}]
  BY <1>3, <1>4, <1>5
<1>7. TypeOK'
  <2>1. \A s \in Router : neighbour'[s] \in [Ifaces(s) -> Router \cup {NoRouter}]
    BY <1>4, <1>6 DEF NetInv, TypeOK
  <2> QED BY <1>1, <2>1 DEF NetInv, TypeOK
<1>8. NeighboursReal'
  <2> SUFFICES ASSUME NEW s \in Router, NEW j \in Ifaces(s), neighbour'[s][j] # NoRouter
               PROVE  \E f \in FarEnds(s, j) : f[1] = neighbour'[s][j]
    BY DEF NeighboursReal
  <2>1. CASE s = r /\ j = i
    BY <1>4, <1>5, <2>1
  <2>2. CASE ~(s = r /\ j = i)
    <3>1. neighbour'[s][j] = neighbour[s][j]
      BY <1>4, <1>5, <2>2
    <3> QED BY <3>1 DEF NetInv, NeighboursReal
  <2> QED BY <2>1, <2>2
<1>9. \A s \in Router : s # r => Adverts(s)' = Adverts(s) /\ (HeardAll(s) => HeardAll(s)')
  BY <1>1, <1>4, AdvertsStay, HeardAllStays
<1>10. ~HeardAll(r)
  BY <1>1, <1>2 DEF HeardAll, Alive
<1>11. LastHeard'
  BY <1>1, <1>9, <1>10 DEF NetInv, LastHeard
<1>12. LastAgrees'
  <2> SUFFICES ASSUME NEW m \in wire, m.seq > 0, m.seq = Rounds[m.origin]
               PROVE  m.advs = Adverts(m.origin)'
    BY <1>1 DEF LastAgrees
  <2>1. m.origin \in Router /\ m.seq \in Nat /\ m.seq <= round[m.origin]
    BY DEF NetInv, TypeOK, Lsu, Numbered
  <2>2. HeardAll(m.origin)
    BY <2>1, LastIsBegun
  <2> QED BY <1>9, <1>10, <2>1, <2>2 DEF NetInv, LastAgrees
<1>13. SeenIsLearnt'
  <2> SUFFICES ASSUME NEW q \in Router, NEW s \in Router, seen[q][s] > 0, seen[q][s] = Rounds[s]
               PROVE  Learnt(q, s, Adverts(s))'
    BY <1>1 DEF SeenIsLearnt
  <2>1. seen[q][s] \in Nat /\ seen[q][s] <= round[s]
    BY DEF NetInv, TypeOK, Numbered
  <2>2. HeardAll(s)
    BY <2>1, LastIsBegun
  <2>3. Adverts(s)' = Adverts(s)
    BY <1>9, <1>10, <2>2
  <2>4. Learnt(q, s, Adverts(s))
    BY DEF NetInv, SeenIsLearnt
  <2> QED BY <1>1, <2>3, <2>4 DEF Learnt
<1> QED
  BY <1>1, <1>4, <1>7, <1>8, <1>11, <1>12, <1>13 DEF NetInv, Shapes, GraphsTrue, WireTrue,
              Numbered, OwnTable, TablesLead

LEMMA CopiesSayTheSame ==
    ASSUME NEW r \in Router, NEW i \in Ifaces(r), NEW origin \in Router, NEW seq \in Nat,
           NEW advs \in Seq(Adv), NEW m \in Copies(r, i, origin, seq, advs)
    PROVE  m \in Lsu /\ m.origin = origin /\ m.seq = seq /\ m.advs = advs
<1>1. PICK e \in FarEnds(r, i) :
        m = [to |-> e[1], iface |-> e[2], origin |-> origin, seq |-> seq, advs |-> advs]
  BY DEF Copies
<1>2. e[1] \in Router /\ e[2] \in Nat
  BY FarEndsAreInterfaces
<1> QED BY <1>1, <1>2 DEF Lsu

LEMMA AdvertsTrue ==
    ASSUME NetInv, NEW r \in Router
    PROVE  /\ Adverts(r) \in Seq(Adv)
           /\ \A i \in DOMAIN Adverts(r) : AuthenticAdv(r, Adverts(r)[i])
<1> DEFINE a == Adverts(r)
           n == Len(Links[r])
           net == [i \in 1 .. n |->
                      IF neighbour[r][i] = NoRouter /\ neighbour[r][1] = NoRouter
                      THEN DefaultNet ELSE Links[r][i]]
<1>1. Ifaces(r) = 1 .. n /\ n \in Nat /\ \A i \in 1 .. n : Links[r][i] \in Subnet
  BY InterfacesListed
<1>2. a = [i \in 1 .. n |-> [subnet |-> net[i], rid |-> neighbour[r][i]]]
  BY <1>1 DEF Adverts
<1>3. \A i \in 1 .. n : neighbour[r][i] \in Router \cup {NoRouter}
  BY <1>1 DEF NetInv, TypeOK
<1>4. \A i \in 1 .. n : net[i] \in Subnet /\ net[i] \in OwnNets(r) \cup {DefaultNet}
  BY <1>1, LinkGraphAssumption DEF OwnNets
<1> HIDE DEF a, net, n
<1>5. \A i \in 1 .. n : a[i] = [subnet |-> net[i], rid |-> neighbour[r][i]]
  BY <1>2
<1>6. ASSUME NEW i \in 1 .. n
      PROVE  a[i] \in Adv /\ a[i].subnet = net[i] /\ a[i].rid = neighbour[r][i]
  <2>1. PICK x, y, z : x = net[i] /\ y = neighbour[r][i] /\ z = a[i]
    OBVIOUS
  <2>2. z = [subnet |-> x, rid |-> y]
    BY <1>5, <2>1
  <2>3. x \in Subnet /\ y \in Router \cup {NoRouter}
    BY <1>3, <1>4, <2>1
  <2>4. z \in Adv /\ z.subnet = x /\ z.rid = y
    BY <2>2, <2>3 DEF Adv
  <2> QED BY <2>1, <2>4
<1>7. DOMAIN a = 1 .. n /\ a = [i \in 1 .. n |-> a[i]]
  BY <1>2, <1>5
<1>8. a \in Seq(Adv)
  BY <1>1, <1>6, <1>7
<1>9. ASSUME NEW i \in 1 .. n PROVE AuthenticAdv(r, a[i])
  <2>1. a[i].subnet = net[i] /\ a[i].rid = neighbour[r][i]
    BY <1>6
  <2>2. neighbour[r][i] # NoRouter => Adjacent(r, neighbour[r][i])
    BY <1>1 DEF NetInv, NeighboursReal, Adjacent
  <2> QED BY <1>4, <2>1, <2>2 DEF AuthenticAdv
<1> QED BY <1>7, <1>8, <1>9 DEF a

LEMMA SendKeeps ==
    ASSUME NetInv, NEW r \in Router, SendLsu(r)
    PROVE  NetInv'
<1>1. /\ up' = up /\ neighbour' = neighbour /\ graph' = graph /\ seen' = seen /\ rt' = rt
  BY DEF SendLsu
<1>2. PICK k, advs, due, next :
        /\ k = round'[r] /\ advs = Adverts(r)
        /\ due = (IF unserved[r] = {} THEN Audible(r) ELSE unserved[r])
        /\ next = {i \in due : HeardAll(r) \/ \A j \in due : i <= j}
  OBVIOUS
<1>3. PICK new : new = UNION {Copies(r, i, r, k, advs) : i \in next}
  OBVIOUS
<1>4. /\ unserved' = [unserved EXCEPT ![r] = due \ next]
      /\ wire' \subseteq wire \cup new
  <2>1. wire' = OnWire(wire \cup new, seen)
    BY <1>2, <1>3 DEF SendLsu
  <2> QED BY <1>2, <2>1 DEF SendLsu, OnWire
<1>5. due \subseteq Audible(r) /\ next \subseteq Ifaces(r)
  BY <1>2 DEF NetInv, TypeOK, Audible
<1>6. advs \in Seq(Adv) /\ \A i \in DOMAIN advs : AuthenticAdv(r, advs[i])
  BY <1>2, AdvertsTrue
<1>7. /\ round' \in [Router -> Nat] /\ k \in Nat
      /\ \A s \in Router : round[s] <= round'[s] /\ round'[s] <= Rounds[s]
      /\ \A s \in Router : round'[s] # round[s] => s = r /\ (k = Rounds[r] => HeardAll(r))
  <2>1. round \in [Router -> Nat] /\ \A s \in Router : Rounds[s] \in Nat /\ round[s] <= Rounds[s]
    BY PwospfNetworkAssumption DEF NetInv, TypeOK, Numbered
  <2>2. CASE BeginRound(r)
    BY <1>2, <2>1, <2>2 DEF BeginRound
  <2>3. CASE UNCHANGED round
    BY <1>2, <2>1, <2>3
  <2> QED BY <2>2, <2>3 DEF SendLsu
<1>8. \A m \in new : m \in Lsu /\ m.origin = r /\ m.seq = k /\ m.advs = advs
  BY <1>3, <1>5, <1>6, <1>7, CopiesSayTheSame
<1>9. \A m \in wire : m \in Lsu /\ m.origin \in Router /\ m.seq \in Nat
  BY DEF NetInv, TypeOK, Lsu
<1>10. TypeOK'
  <2>1. \A s \in Router : unserved'[s] \subseteq Audible(s)
    BY <1>4, <1>5 DEF NetInv, TypeOK
  <2>2. wire' \subseteq Lsu
    BY <1>4, <1>8, <1>9
  <2> QED BY <1>1, <1>7, <2>1, <2>2 DEF NetInv, TypeOK
<1>11. WireTrue'
  BY <1>4, <1>6, <1>8 DEF NetInv, WireTrue
<1>12. Numbered'
  <2>1. ASSUME NEW m \in wire' PROVE m.seq <= round'[m.origin]
    <3>1. CASE m \in new
      BY <1>2, <1>7, <1>8, <3>1
    <3>2. CASE m \in wire
      <4>1. m.seq <= round[m.origin] /\ round[m.origin] <= round'[m.origin]
        BY <1>7, <1>9, <3>2 DEF NetInv, Numbered
      <4>2. round[m.origin] \in Nat /\ round'[m.origin] \in Nat /\ m.seq \in Nat
        BY <1>7, <1>9, <3>2 DEF NetInv, TypeOK
      <4> QED BY <4>1, <4>2
    <3> QED BY <1>4, <2>1, <3>1, <3>2
  <2>2. ASSUME NEW q \in Router, NEW s \in Router PROVE seen[q][s] <= round'[s]
    <3>1. seen[q][s] <= round[s] /\ seen[q][s] \in Nat /\ round[s] \in Nat /\ round'[s] \in Nat
      BY <1>7 DEF NetInv, Numbered, TypeOK
    <3> QED BY <1>7, <3>1
  <2> QED BY <1>1, <1>7, <2>1, <2>2 DEF Numbered
<1>13. \A s \in Router : Adverts(s)' = Adverts(s) /\ (HeardAll(s) => HeardAll(s)')
  BY <1>1, AdvertsStay, HeardAllStays
<1>14. LastHeard'
  <2> SUFFICES ASSUME NEW s \in Router, round'[s] > 0, round'[s] = Rounds[s]
               PROVE  HeardAll(s)'
    BY DEF LastHeard
  <2>1. CASE round'[s] = round[s]
    BY <1>13, <2>1 DEF NetInv, LastHeard
  <2>2. CASE round'[s] # round[s]
    BY <1>2, <1>7, <1>13, <2>2
  <2> QED BY <2>1, <2>2
<1>15. LastAgrees'
  <2> SUFFICES ASSUME NEW m \in wire', m.seq > 0, m.seq = Rounds[m.origin]
               PROVE  m.advs = Adverts(m.origin)'
    BY DEF LastAgrees
  <2>1. CASE m \in new
    BY <1>2, <1>8, <1>13, <2>1
  <2>2. CASE m \in wire
    BY <1>9, <1>13, <2>2 DEF NetInv, LastAgrees
  <2> QED BY <1>4, <2>1, <2>2
<1>16. SeenIsLearnt'
  BY <1>1, <1>13 DEF NetInv, SeenIsLearnt, Learnt
<1> QED
  BY <1>1, <1>10, <1>11, <1>12, <1>14, <1>15, <1>16
     DEF NetInv, Shapes, GraphsTrue, NeighboursReal, OwnTable, TablesLead

\* findNeighborUsingRouterId finds an interface: of the router asked for, if it is a
\* neighbour, or else eth0.
LEMMA NeighbourIfaceFound ==
    ASSUME NEW r \in Router, NEW s
    PROVE  /\ NeighbourIface(r, s) \in Ifaces(r)
           /\ neighbour[r][NeighbourIface(r, s)] = s \/ NeighbourIface(r, s) = 1
<1> DEFINE First(i) == neighbour[r][i] = s /\ \A j \in 1 .. i - 1 : neighbour[r][j] # s
           T == {i \in Ifaces(r) : neighbour[r][i] = s}
<1>1. Ifaces(r) = 1 .. Len(Links[r]) /\ Len(Links[r]) \in Nat /\ 1 \in Ifaces(r)
  BY InterfacesListed
<1>2. CASE T = {}
  BY <1>1, <1>2 DEF NeighbourIface
<1>3. CASE T # {}
  <2>1. PICK m \in T : \A k \in T : m <= k
    <3>1. T \subseteq Nat
      BY <1>1
    <3> HIDE DEF T
    <3> QED BY <1>3, <3>1, LeastNumber
  <2>2. m \in Ifaces(r) /\ First(m)
    <3>1. ASSUME NEW j \in 1 .. m - 1 PROVE neighbour[r][j] # s
      <4>1. j \in Ifaces(r) /\ ~(m <= j)
        BY <1>1, <2>1
      <4> QED BY <2>1, <4>1
    <3> QED BY <2>1, <3>1
  <2>3. NeighbourIface(r, s) = CHOOSE i \in Ifaces(r) : First(i)
    BY <2>2 DEF NeighbourIface
  <2> HIDE DEF First
  <2>4. NeighbourIface(r, s) \in Ifaces(r) /\ First(NeighbourIface(r, s))
    BY <2>2, <2>3
  <2> QED BY <2>4 DEF First
<1> QED BY <1>2, <1>3

\* What a true graph offers leads somewhere.
LEMMA OffersLead ==
    ASSUME NetInv, NEW r \in Router, NEW g, Sound(g), AuthenticGraph(g),
           RouterVertex(r) \in VerticesOf(g),
           NEW o \in Offers(r, g, Dijkstra(g, RouterVertex(r)))
    PROVE  /\ o.iface \in Ifaces(r) /\ o.subnet \in Subnet /\ o.place \in Nat
           /\ neighbour[r][o.iface] \in Router \cup {NoRouter}
           /\ o.subnet # DefaultNet => Leads(r, o.subnet, neighbour[r][o.iface])
<1> DEFINE l == Dijkstra(g, RouterVertex(r))
<1>1. Tree(g, RouterVertex(r), l)
  <2>1. Labelable(g, RouterVertex(r))
    BY DEF Labelable, Sound, Knows
  <2>2. Len(g.vertices) \in 0 .. Len(g.vertices)
    BY <2>1, VerticesCounted
  <2>3. After(g, RouterVertex(r), l, Len(g.vertices))
    BY <2>1, <2>2, DijkstraTurns
  <2> QED BY <2>3 DEF After
<1> HIDE DEF l
<1>2. PICK k \in DOMAIN g.vertices :
        /\ g.vertices[k].type = "SUBNET" /\ l.parent[g.vertices[k]] # None
        /\ o = [subnet |-> g.vertices[k].subnet, place |-> k,
                iface |-> NeighbourIface(r, l.parent[g.vertices[k]].rid)]
  BY DEF Offers, l
<1>3. PICK v : v = g.vertices[k]
  OBVIOUS
<1>4. PICK p : p = l.parent[v]
  OBVIOUS
<1>5. PICK i : i = NeighbourIface(r, p.rid)
  OBVIOUS
<1>6. o.subnet = v.subnet /\ o.place = k /\ o.iface = i
  BY <1>2, <1>3, <1>4, <1>5
<1>7. v \in VerticesOf(g) /\ v \in Vertex /\ k \in Nat
  <2>1. g.vertices \in Seq(Vertex)
    BY DEF Sound, Graph
  <2> QED BY <1>3, <2>1 DEF VerticesOf
<1>8. <<p, v>> \in g.edges /\ v.type = "SUBNET"
  BY <1>1, <1>2, <1>3, <1>4, <1>7 DEF Tree
<1>9. p = RouterVertex(v.rid)
  <2>1. <<p, v>>[2] = v /\ <<p, v>>[1] = p
    OBVIOUS
  <2> QED BY <1>8, <2>1 DEF AuthenticGraph
<1>10. p.rid = v.rid /\ v.rid \in Router /\ v.subnet \in Subnet
  BY <1>7, <1>9, FieldsOfVertices DEF Vertex
<1>11. v.subnet \in OwnNets(v.rid) \cup {DefaultNet}
  BY <1>7, <1>8 DEF AuthenticGraph
<1>12. i \in Ifaces(r) /\ (neighbour[r][i] = v.rid \/ i = 1)
  BY <1>5, <1>10, NeighbourIfaceFound
<1>13. neighbour[r][i] \in Router \cup {NoRouter}
  BY <1>12 DEF NetInv, TypeOK
<1>14. ASSUME v.subnet # DefaultNet PROVE Leads(r, v.subnet, neighbour[r][i])
  <2>1. CASE neighbour[r][i] = v.rid
    BY <1>10, <1>11, <1>14, <2>1 DEF Leads
  <2>2. CASE i = 1 /\ neighbour[r][i] # NoRouter
    BY <1>12, <2>2 DEF NetInv, NeighboursReal, Leads, AtEth0
  <2>3. CASE neighbour[r][i] = NoRouter
    BY <2>3 DEF Leads
  <2> QED BY <1>12, <2>1, <2>2, <2>3
<1> QED BY <1>6, <1>7, <1>10, <1>12, <1>13, <1>14

\* populateRoutingTable: old entries stay, a new one is an offer.
LEMMA PopulatedFromOffers ==
    ASSUME NEW r \in Router, NEW offers, \A o \in offers : o.place \in Nat
    PROVE  /\ DOMAIN Populated(r, offers) = DOMAIN rt[r] \cup {o.subnet : o \in offers}
           /\ \A n \in DOMAIN rt[r] : Populated(r, offers)[n] = rt[r][n]
           /\ \A n \in DOMAIN Populated(r, offers) \ DOMAIN rt[r] :
                 \E o \in offers : /\ o.subnet = n
                                   /\ Populated(r, offers)[n] =
                                        [iface |-> o.iface, via |-> neighbour[r][o.iface]]
<1> DEFINE Good(n, o) == o.subnet = n /\ \A p \in offers : p.subnet = n => o.place <= p.place
           Best(n) == CHOOSE o \in offers : Good(n, o)
           D == DOMAIN rt[r] \cup {o.subnet : o \in offers}
<1>1. Populated(r, offers) =
        [n \in D |-> IF n \in DOMAIN rt[r] THEN rt[r][n]
                     ELSE [iface |-> Best(n).iface, via |-> neighbour[r][Best(n).iface]]]
  BY DEF Populated
<1>2. ASSUME NEW n \in D \ DOMAIN rt[r] PROVE Best(n) \in offers /\ Best(n).subnet = n
  <2> DEFINE P == {o.place : o \in {q \in offers : q.subnet = n}}
  <2>1. PICK m \in P : \A x \in P : m <= x
    <3>1. P \subseteq Nat /\ P # {}
      OBVIOUS
    <3> HIDE DEF P
    <3> QED BY <3>1, LeastNumber
  <2>2. \E o \in offers : Good(n, o)
    <3>1. PICK o \in offers : o.subnet = n /\ o.place = m
      BY <2>1
    <3>2. \A p \in offers : p.subnet = n => p.place \in P
      OBVIOUS
    <3> HIDE DEF P
    <3> QED BY <2>1, <3>1, <3>2
  <2>3. Best(n) \in offers /\ Good(n, Best(n))
    <3> HIDE DEF Good
    <3> QED BY <2>2
  <2> QED BY <2>3
<1> HIDE DEF Best, D
<1>3. ASSUME NEW n \in D \ DOMAIN rt[r]
      PROVE  \E o \in offers : /\ o.subnet = n
                               /\ Populated(r, offers)[n] =
                                    [iface |-> o.iface, via |-> neighbour[r][o.iface]]
  <2>1. PICK o : o = Best(n)
    OBVIOUS
  <2>2. Populated(r, offers)[n] = [iface |-> o.iface, via |-> neighbour[r][o.iface]]
    BY <1>1, <2>1
  <2> QED BY <1>2, <2>1, <2>2
<1>4. DOMAIN Populated(r, offers) = D /\ \A n \in DOMAIN rt[r] : Populated(r, offers)[n] = rt[r][n]
  BY <1>1 DEF D
<1> QED BY <1>3, <1>4 DEF D

LEMMA ReceiveKeeps ==
    ASSUME NetInv, NEW r \in Router, NEW m \in Heard(r), ReceiveLsu(r, m)
    PROVE  NetInv'
<1>1. up' = up /\ neighbour' = neighbour /\ round' = round /\ unserved' = unserved
  BY DEF ReceiveLsu
<1>2. /\ graph' = [graph EXCEPT ![r] = LearnAll(graph[r], Author(r, m), m.advs)]
      /\ rt' = [rt EXCEPT ![r] =
                    Populated(r, Offers(r, LearnAll(graph[r], Author(r, m), m.advs),
                        Dijkstra(LearnAll(graph[r], Author(r, m), m.advs), RouterVertex(r))))]
      /\ seen' = [seen EXCEPT ![r][m.origin] = m.seq]
      /\ wire' \subseteq wire \cup
              UNION {Copies(r, i, m.origin, m.seq, m.advs) : i \in Ifaces(r) \ {m.iface}}
  BY DEF ReceiveLsu, OnWire
<1>3. PICK w, old, g : /\ w = wire /\ old = graph[r] /\ g = LearnAll(old, m.origin, m.advs)
  OBVIOUS
<1>4. PICK offers : offers = Offers(r, g, Dijkstra(g, RouterVertex(r)))
  OBVIOUS
<1>5. PICK t, new :
        /\ t = Populated(r, offers)
        /\ new = UNION {Copies(r, i, m.origin, m.seq, m.advs) : i \in Ifaces(r) \ {m.iface}}
  OBVIOUS
<1>6. /\ graph' = [graph EXCEPT ![r] = g] /\ rt' = [rt EXCEPT ![r] = t]
      /\ seen' = [seen EXCEPT ![r][m.origin] = m.seq] /\ wire' \subseteq w \cup new
  BY <1>2, <1>3, <1>4, <1>5 DEF Author
<1>7. /\ m \in w /\ m \in Lsu
      /\ m.origin \in Router /\ m.seq \in Nat /\ m.advs \in Seq(Adv)
  BY <1>3 DEF Heard, NetInv, TypeOK, Lsu
<1>8. \A c \in new : c \in Lsu /\ c.origin = m.origin /\ c.seq = m.seq /\ c.advs = m.advs
  BY <1>5, <1>7, CopiesSayTheSame
<1>9. /\ Sound(g) /\ Grows(old, g) /\ AuthenticGraph(g) /\ RouterVertex(r) \in VerticesOf(g)
      /\ \A i \in DOMAIN m.advs : Taught(g, m.origin, m.advs[i])
  <2>1. Sound(old) /\ AuthenticGraph(old) /\ RouterVertex(r) \in VerticesOf(old)
    BY <1>3 DEF NetInv, GraphsTrue
  <2>2. \A i \in DOMAIN m.advs : AuthenticAdv(m.origin, m.advs[i])
    BY <1>3, <1>7 DEF NetInv, WireTrue
  <2>3. /\ Sound(g) /\ Grows(old, g) /\ AuthenticGraph(g)
        /\ \A i \in DOMAIN m.advs : Taught(g, m.origin, m.advs[i])
    BY <1>3, <1>7, <2>1, <2>2, LearnAllLearns
  <2> QED BY <2>1, <2>3 DEF Grows
<1>10. /\ DOMAIN graph' = Router /\ graph'[r] = g
       /\ DOMAIN rt' = Router /\ rt'[r] = t
       /\ \A s \in Router : s # r => graph'[s] = graph[s] /\ rt'[s] = rt[s]
  BY <1>6 DEF NetInv, Shapes
<1>11. \A o \in offers :
          /\ o.iface \in Ifaces(r) /\ o.subnet \in Subnet /\ o.place \in Nat
          /\ neighbour[r][o.iface] \in Router \cup {NoRouter}
          /\ o.subnet # DefaultNet => Leads(r, o.subnet, neighbour[r][o.iface])
  BY <1>4, <1>9, OffersLead
<1>12. /\ DOMAIN t = DOMAIN rt[r] \cup {o.subnet : o \in offers}
       /\ \A n \in DOMAIN rt[r] : t[n] = rt[r][n]
       /\ \A n \in DOMAIN t \ DOMAIN rt[r] :
             \E o \in offers : /\ o.subnet = n
                               /\ t[n] = [iface |-> o.iface, via |-> neighbour[r][o.iface]]
  <2>1. \A o \in offers : o.place \in Nat
    BY <1>11
  <2>2. /\ DOMAIN Populated(r, offers) = DOMAIN rt[r] \cup {o.subnet : o \in offers}
        /\ \A n \in DOMAIN rt[r] : Populated(r, offers)[n] = rt[r][n]
        /\ \A n \in DOMAIN Populated(r, offers) \ DOMAIN rt[r] :
              \E o \in offers : /\ o.subnet = n
                                /\ Populated(r, offers)[n] =
                                     [iface |-> o.iface, via |-> neighbour[r][o.iface]]
    BY <2>1, PopulatedFromOffers
  <2>3. t = Populated(r, offers)
    BY <1>5
  <2> QED BY <2>2, <2>3
<1>13. ASSUME NEW n \in DOMAIN t
       PROVE  /\ n \in Subnet /\ t[n] \in Route /\ t[n].iface \in Ifaces(r)
              /\ n # DefaultNet => Leads(r, n, t[n].via)
  <2>1. CASE n \in DOMAIN rt[r]
    BY <1>12, <2>1 DEF NetInv, TypeOK, TablesLead
  <2>2. CASE n \notin DOMAIN rt[r]
    <3>1. PICK o \in offers : /\ o.subnet = n
                              /\ t[n] = [iface |-> o.iface, via |-> neighbour[r][o.iface]]
      BY <1>12, <1>13, <2>2
    <3>2. PICK i, x : i = o.iface /\ x = neighbour[r][o.iface]
      OBVIOUS
    <3>3. i \in Ifaces(r) /\ i \in Nat /\ x \in Router \cup {NoRouter} /\ n \in Subnet
      BY <1>11, <3>1, <3>2, InterfacesListed
    <3>4. t[n] = [iface |-> i, via |-> x]
      BY <3>1, <3>2
    <3>5. t[n] \in Route /\ t[n].iface = i /\ t[n].via = x
      BY <3>3, <3>4 DEF Route
    <3>6. n # DefaultNet => Leads(r, n, x)
      BY <1>11, <3>1, <3>2
    <3> QED BY <3>3, <3>5, <3>6
  <2> QED BY <2>1, <2>2
<1>14. /\ seen' \in [Router -> [Router -> Nat]]
       /\ \A s, o \in Router :
             seen'[s][o] = IF s = r /\ o = m.origin THEN m.seq ELSE seen[s][o]
  <2>1. seen \in [Router -> [Router -> Nat]]
    BY DEF NetInv, TypeOK
  <2> QED BY <1>6, <1>7, <2>1
<1>15. TypeOK'
  <2>1. ASSUME NEW s \in Router
        PROVE  /\ neighbour'[s] \in [Ifaces(s) -> Router \cup {NoRouter}]
               /\ graph'[s] \in Graph
               /\ graph'[s].edges \subseteq VerticesOf(graph'[s]) \X VerticesOf(graph'[s])
               /\ DOMAIN rt'[s] \subseteq Subnet
               /\ \A n \in DOMAIN rt'[s] : rt'[s][n] \in Route /\ rt'[s][n].iface \in Ifaces(s)
    <3>1. CASE s = r
      BY <1>1, <1>9, <1>10, <1>13, <3>1 DEF NetInv, TypeOK, Sound
    <3>2. CASE s # r
      BY <1>1, <1>10, <3>2 DEF NetInv, TypeOK
    <3> QED BY <3>1, <3>2
  <2>2. wire' \subseteq Lsu
    BY <1>3, <1>6, <1>8 DEF NetInv, TypeOK
  <2> QED BY <1>1, <1>14, <2>1, <2>2 DEF NetInv, TypeOK
<1>16. GraphsTrue'
  BY <1>9, <1>10 DEF NetInv, GraphsTrue
<1>17. WireTrue'
  BY <1>3, <1>6, <1>7, <1>8 DEF NetInv, WireTrue
<1>18. Numbered'
  <2>1. \A c \in wire' : \E b \in w : b.origin = c.origin /\ b.seq = c.seq
    BY <1>6, <1>7, <1>8
  <2>2. \A c \in wire' : c.seq <= round[c.origin]
    BY <1>3, <2>1 DEF NetInv, Numbered
  <2>3. \A s, o \in Router : seen'[s][o] <= round[o]
    BY <1>3, <1>7, <1>14 DEF NetInv, Numbered
  <2> QED BY <1>1, <2>2, <2>3 DEF NetInv, Numbered
<1>19. OwnTable'
  <2> SUFFICES ASSUME NEW s \in Router, NEW n \in OwnNets(s)
               PROVE  n \in DOMAIN rt'[s] /\ rt'[s][n].via = NoRouter
    BY DEF OwnTable
  <2>1. n \in DOMAIN rt[s] /\ rt[s][n].via = NoRouter
    BY DEF NetInv, OwnTable
  <2> QED BY <1>10, <1>12, <2>1
<1>20. TablesLead'
  <2> SUFFICES ASSUME NEW s \in Router, NEW n \in DOMAIN rt'[s] \ {DefaultNet}
               PROVE  Leads(s, n, rt'[s][n].via)
    BY DEF TablesLead
  <2> QED BY <1>10, <1>13 DEF NetInv, TablesLead
<1>21. \A s \in Router : Adverts(s)' = Adverts(s) /\ (HeardAll(s) => HeardAll(s)')
  BY <1>1, AdvertsStay, HeardAllStays
<1>22. LastHeard'
  BY <1>1, <1>21 DEF NetInv, LastHeard
<1>23. LastAgrees'
  <2> SUFFICES ASSUME NEW c \in wire', c.seq > 0, c.seq = Rounds[c.origin]
               PROVE  c.advs = Adverts(c.origin)'
    BY DEF LastAgrees
  <2>1. PICK b \in w : b.origin = c.origin /\ b.seq = c.seq /\ b.advs = c.advs
    BY <1>6, <1>7, <1>8
  <2>2. c.origin \in Router
    BY <1>3, <2>1 DEF NetInv, TypeOK, Lsu
  <2> QED BY <1>3, <1>21, <2>1, <2>2 DEF NetInv, LastAgrees
<1>24. SeenIsLearnt'
  <2> SUFFICES ASSUME NEW s \in Router, NEW o \in Router, seen'[s][o] > 0, seen'[s][o] = Rounds[o],
                      NEW advs, advs = Adverts(o), NEW i \in DOMAIN advs
               PROVE  Taught(graph'[s], o, advs[i])
    BY <1>21 DEF SeenIsLearnt, Learnt, Taught
  <2>1. CASE s = r /\ o = m.origin
    <3>1. m.seq > 0 /\ m.seq = Rounds[m.origin]
      BY <1>14, <2>1
    <3>2. advs = m.advs
      BY <1>3, <1>7, <2>1, <3>1 DEF NetInv, LastAgrees
    <3> QED BY <1>9, <1>10, <2>1, <3>2
  <2>2. CASE ~(s = r /\ o = m.origin)
    <3>1. Taught(graph[s], o, advs[i])
      <4>1. seen[s][o] > 0 /\ seen[s][o] = Rounds[o]
        BY <1>14, <2>2
      <4>2. Learnt(s, o, advs)
        BY <4>1 DEF NetInv, SeenIsLearnt
      <4> QED BY <4>2 DEF Learnt, Taught
    <3>2. Grows(graph[s], graph'[s])
      BY <1>3, <1>9, <1>10 DEF Grows
    <3> QED BY <3>1, <3>2 DEF Taught, Grows
  <2> QED BY <2>1, <2>2
<1> QED
  BY <1>1, <1>10, <1>15, <1>16, <1>17, <1>18, <1>19, <1>20, <1>22, <1>23, <1>24
     DEF NetInv, Shapes, NeighboursReal

LEMMA NetInvKept == NetInv /\ [Next]_vars => NetInv'
<1> SUFFICES ASSUME NetInv, [Next]_vars PROVE NetInv'
  OBVIOUS
<1>1. CASE UNCHANGED vars
  <2>1. /\ up' = up /\ neighbour' = neighbour /\ graph' = graph /\ seen' = seen
        /\ rt' = rt /\ round' = round /\ unserved' = unserved /\ wire' = wire
    BY <1>1 DEF vars
  <2>2. TypeOK' /\ Shapes' /\ GraphsTrue' /\ NeighboursReal'
    BY <2>1 DEF NetInv, TypeOK, Shapes, GraphsTrue, NeighboursReal
  <2>3. \A r \in Router : Adverts(r)' = Adverts(r) /\ (HeardAll(r) => HeardAll(r)')
    BY <2>1, AdvertsStay, HeardAllStays
  <2>4. WireTrue' /\ Numbered' /\ LastHeard'
    BY <2>1, <2>3 DEF NetInv, WireTrue, Numbered, LastHeard
  <2>5. LastAgrees' /\ SeenIsLearnt'
    <3>1. \A m \in wire : m.origin \in Router
      BY DEF NetInv, TypeOK, Lsu
    <3>2. LastAgrees'
      BY <2>1, <2>3, <3>1 DEF NetInv, LastAgrees
    <3>3. SeenIsLearnt'
      BY <2>1, <2>3 DEF NetInv, SeenIsLearnt, Learnt
    <3> QED BY <3>2, <3>3
  <2>6. OwnTable' /\ TablesLead'
    BY <2>1 DEF NetInv, OwnTable, TablesLead
  <2> QED BY <2>2, <2>4, <2>5, <2>6 DEF NetInv
<1>2. CASE Next
  <2>1. PICK r \in Router : \/ \E i \in Ifaces(r) : Hello(r, i)
                            \/ SendLsu(r)
                            \/ \E m \in Heard(r) : ReceiveLsu(r, m)
                            \/ Leave(r)
    BY <1>2 DEF Next
  <2> QED BY <2>1, HelloKeeps, SendKeeps, ReceiveKeeps, LeaveKeeps, Zenon
<1> QED BY <1>1, <1>2

LEMMA NetInvariance == Spec => []NetInv
BY NetInvBegins, NetInvKept, PTL DEF Spec

-----------------------------------------------------------------------------

\* Graphs stay graphs, and every route leaves through an interface the router has.
THEOREM TypeCorrect == Spec => []TypeOK
<1>1. NetInv => TypeOK
  BY DEF NetInv
<1> QED BY <1>1, NetInvariance, PTL

\* On any topology, a router believes of another only what is so (handleLsuPacket,
\* sendLSUPacket).
THEOREM OnlyTruthIsLearnt == Spec => []Authentic
<1>1. NetInv => Authentic
  BY DEF NetInv, GraphsTrue, AuthenticGraph, Authentic
<1> QED BY <1>1, NetInvariance, PTL

\* On any topology, whatever copies differ, are lost, dropped or overtaken: where a
\* round begun after all HELLOs counts as seen, all its sender advertises is learnt
\* (handleLsuPacket, sendLSUPacket).
THEOREM SeenMeansLearnt == Spec => []SeenIsLearnt
<1>1. NetInv => SeenIsLearnt
  BY DEF NetInv
<1> QED BY <1>1, NetInvariance, PTL

\* Where the links of eth0 form no circle, the entries for one subnet form none: a
\* route leads out of eth0, which findNeighborUsingRouterId falls back to, or to the
\* owner of the subnet, which has it on a link (populateRoutingTable).
THEOREM SubnetsNotInCircles ==
    ASSUME Eth0Acyclic PROVE Spec => []NoLoop
<1>1. NetInv => NoLoop
  <2> SUFFICES ASSUME NetInv, NEW n \in Subnet \ {DefaultNet}, NEW S \in SUBSET Router,
                      Circle(n, S)
               PROVE  FALSE
    BY DEF NoLoop
  <2>1. PICK r \in S : \A e \in FarEnds(r, 1) : e[1] \notin S
    BY DEF Eth0Acyclic, Circle
  <2>2. n \in DOMAIN rt[r] /\ rt[r][n].via \in S
    BY DEF Circle
  <2>3. PICK s : s = rt[r][n].via
    OBVIOUS
  <2>4. s \in S /\ s \in Router /\ s # NoRouter
    BY <2>2, <2>3, LinkGraphAssumption
  <2>5. Leads(r, n, s)
    BY <2>2, <2>3 DEF NetInv, TablesLead
  <2>6. n \in OwnNets(s)
    BY <2>1, <2>4, <2>5 DEF Leads, AtEth0
  <2>7. rt[s][n].via = NoRouter
    BY <2>4, <2>6 DEF NetInv, OwnTable
  <2>8. rt[s][n].via \in S
    BY <2>4 DEF Circle
  <2> QED BY <2>7, <2>8, LinkGraphAssumption
<1> QED BY <1>1, NetInvariance, PTL
=============================================================================
