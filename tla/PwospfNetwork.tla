---------------------------- MODULE PwospfNetwork ----------------------------
(***************************************************************************)
(* Routers of sr_pwospf.c in dynamic mode, on a topology of subnets: HELLOs   *)
(* tell a router who is at the far end of its interfaces, rounds of link      *)
(* state updates (LSUs) tell everybody, and every accepted LSU is learnt,     *)
(* flooded, and followed by dijkstra() and populateRoutingTable.              *)
(*                                                                         *)
(* A router has two threads here: the main thread, whose handlers are atomic, *)
(* and that of sendLSUPacket, which in each round builds one copy after the    *)
(* other, every one from the neighbours known by then.  It holds the mutex     *)
(* that handleLsuPacket needs at its end, and no HELLO comes in while that     *)
(* waits: an LSU received during a round is handled after it.                 *)
(*                                                                         *)
(* A HELLO carries nothing but its sender and comes every five seconds, so it  *)
(* is received at any time rather than put on the wire; an LSU stays on the    *)
(* wire once sent: it can be received late, out of order or never.  One that  *)
(* its receiver would drop is taken off the wire at once: it changes nothing. *)
(***************************************************************************)
EXTENDS LinkGraph

CONSTANTS
    Links,      \* for every router the subnets of its interfaces, eth0 first
    Primary,    \* the routers started with a default route (rtable.net)
    Leavers,    \* the routers that may be stopped
    Rounds      \* for every router a bound on its rounds of LSUs

Ifaces(r) == DOMAIN Links[r]

\* The interfaces at the other end of interface i of router r.
Ends == [r \in Router |-> [i \in Ifaces(r) |->
    {e \in UNION {{s} \X Ifaces(s) : s \in Router \ {r}} : Links[e[1]][e[2]] = Links[r][i]}]]

FarEnds(r, i) == Ends[r][i]

\* The interfaces of router r at whose other end there is a router.
Audible(r) == {i \in Ifaces(r) : FarEnds(r, i) # {}}

ASSUME PwospfNetworkAssumption ==
    /\ Links \in [Router -> Seq(Subnet \ {DefaultNet}) \ {<<>>}]
    /\ \A r \in Router : \A i, j \in Ifaces(r) : Links[r][i] = Links[r][j] => i = j
    /\ Primary \subseteq Router /\ Leavers \subseteq Router
    /\ Rounds \in [Router -> Nat]

VARIABLES
    up,         \* the routers that run
    neighbour,  \* neighbour[r][i]: routerId of the neighbour on interface i, or 0
    graph,      \* subnetGraph of every router
    seen,       \* seen[r][s]: seqNbrSeen of the vertex of router s, 0 without it
    rt,         \* routing_table, by destination: interface and next router
    round,      \* rounds of LSUs begun: seqCountLsu, or one less between two
    unserved,   \* the interfaces for which the running round has yet to send
    wire        \* LSUs on their way, one for each interface that can receive it

vars == <<up, neighbour, graph, seen, rt, round, unserved, wire>>

\* A gateway of 0 (via nobody) means that the destination is on the link.
Route == [iface : Nat, via : Router \cup {NoRouter}]

Lsu == [to : Router, iface : Nat, origin : Router, seq : Nat, advs : Seq(Adv)]

TypeOK ==
    /\ up \subseteq Router
    /\ \A r \in Router :
        /\ neighbour[r] \in [Ifaces(r) -> Router \cup {NoRouter}]
        /\ graph[r] \in Graph
        /\ graph[r].edges \subseteq VerticesOf(graph[r]) \X VerticesOf(graph[r])
        /\ DOMAIN rt[r] \subseteq Subnet
        /\ \A n \in DOMAIN rt[r] : rt[r][n] \in Route /\ rt[r][n].iface \in Ifaces(r)
    /\ seen \in [Router -> [Router -> Nat]]
    /\ round \in [Router -> Nat]
    /\ \A r \in Router : unserved[r] \subseteq Audible(r)
    /\ wire \subseteq Lsu

\* Fault: the interfaces are counted from 0.
OwnRoutesFromZero(r) ==
    [n \in {Links[r][i] : i \in Ifaces(r)} \cup (IF r \in Primary THEN {DefaultNet} ELSE {}) |->
        [iface |-> IF n = DefaultNet THEN 0 ELSE (CHOOSE i \in Ifaces(r) : Links[r][i] = n) - 1,
         via |-> NoRouter]]

\* The table before any LSU: the router's own subnets (addInterfaceVertices) and
\* the default route of a primary router, through its eth0.
OwnRoutes(r) ==
    [n \in {Links[r][i] : i \in Ifaces(r)} \cup (IF r \in Primary THEN {DefaultNet} ELSE {}) |->
        [iface |-> IF n = DefaultNet THEN 1 ELSE CHOOSE i \in Ifaces(r) : Links[r][i] = n,
         via |-> NoRouter]]

Init ==
    /\ up = Router
    /\ neighbour = [r \in Router |-> [i \in Ifaces(r) |-> NoRouter]]
    /\ graph = [r \in Router |-> OwnGraph(r, Links[r])]
    /\ seen = [r \in Router |-> [s \in Router |-> 0]]
    /\ rt = [r \in Router |-> OwnRoutes(r)]
    /\ round = [r \in Router |-> 0]
    /\ unserved = [r \in Router |-> {}]
    /\ wire = {}

-----------------------------------------------------------------------------

\* handleHelloPackets: the first HELLO on interface i of router r settles its
\* neighbour; later ones only touch a time stamp that nobody reads.
Hello(r, i) ==
    /\ r \in up
    /\ neighbour[r][i] = NoRouter
    /\ \E e \in FarEnds(r, i) :
        /\ e[1] \in up
        /\ neighbour' = [neighbour EXCEPT ![r][i] = e[1]]
    /\ UNCHANGED <<up, graph, seen, rt, round, unserved, wire>>


\* What a copy built now advertises.  A link whose neighbour is unknown is advertised as
\* the default route as long as the neighbour on eth0 is unknown too.
Adverts(r) ==
    [i \in Ifaces(r) |->
        [subnet |-> IF neighbour[r][i] = NoRouter /\ neighbour[r][1] = NoRouter
                    THEN DefaultNet ELSE Links[r][i],
         rid |-> neighbour[r][i]]]

Copies(r, i, origin, seq, advs) ==
    {[to |-> e[1], iface |-> e[2], origin |-> origin, seq |-> seq, advs |-> advs] :
        e \in FarEnds(r, i)}

\* Some router runs at the other end of interface i of router r.
Alive(r, i) == \E e \in FarEnds(r, i) : e[1] \in up

HeardAll(r) == \A i \in Ifaces(r) : Alive(r, i) => neighbour[r][i] # NoRouter

\* What handleLsuPacket does not drop: LSUs of other routers with a number not yet
\* seen (in sn).
Fresh(m, sn) == m.to # m.origin /\ sn[m.to][m.origin] < m.seq

OnWire(msgs, sn) == {m \in msgs : m.to \in up /\ Fresh(m, sn)}

\* A round begins.  The last one stands for all later ones, which find the HELLOs
\* of all that run received.
BeginRound(r) ==
    /\ unserved[r] = {}
    /\ round[r] < Rounds[r]
    /\ round[r] + 1 = Rounds[r] => HeardAll(r)
    /\ round' = [round EXCEPT ![r] = @ + 1]

\* sendLSUPacket: the next copy is built and sent.  Once no HELLO is missing the
\* copies that remain agree, and are sent in one step.
SendLsu(r) ==
    /\ r \in up
    /\ BeginRound(r) \/ (unserved[r] # {} /\ UNCHANGED round)
    /\ LET due == IF unserved[r] = {} THEN Audible(r) ELSE unserved[r]
           next == {i \in due : HeardAll(r) \/ \A j \in due : i <= j}
       IN  /\ unserved' = [unserved EXCEPT ![r] = due \ next]
           /\ wire' = OnWire(wire \cup UNION {Copies(r, i, r, round'[r], Adverts(r)) : i \in next},
                             seen)
    /\ UNCHANGED <<up, neighbour, graph, seen, rt>>

\* Fault: an LSU is taken for one of the router that flooded it.
Sender(r, m) == (CHOOSE e \in FarEnds(r, m.iface) : TRUE)[1]

\* The router an LSU is learnt of: the rid of its header.
Author(r, m) == m.origin

\* Fault: the next hop is looked for on every interface but the right one.
OtherIface(r, s) ==
    IF \E i \in Ifaces(r) : neighbour[r][i] \notin {s, NoRouter}
    THEN CHOOSE i \in Ifaces(r) : neighbour[r][i] \notin {s, NoRouter}
    ELSE 1

\* findNeighborUsingRouterId: the first interface with that neighbour, or eth0.
NeighbourIface(r, s) ==
    IF \E i \in Ifaces(r) : neighbour[r][i] = s
    THEN CHOOSE i \in Ifaces(r) :
            neighbour[r][i] = s /\ \A j \in 1 .. i - 1 : neighbour[r][j] # s
    ELSE 1

\* What a labelled graph offers: for every reached subnet vertex its subnet, its
\* place in the list and the interface towards its parent, which is the router
\* that advertised it.
Offers(r, g, l) ==
    {[subnet |-> g.vertices[k].subnet, place |-> k,
      iface |-> NeighbourIface(r, l.parent[g.vertices[k]].rid)] :
        k \in {j \in DOMAIN g.vertices :
                g.vertices[j].type = "SUBNET" /\ l.parent[g.vertices[j]] # None}}

\* populateRoutingTable: a destination without an entry gets one from the first
\* vertex that offers it.
Populated(r, offers) ==
    LET Best(n) == CHOOSE o \in offers :
                    o.subnet = n /\ \A p \in offers : p.subnet = n => o.place <= p.place
    IN  [n \in DOMAIN rt[r] \cup {o.subnet : o \in offers} |->
            IF n \in DOMAIN rt[r] THEN rt[r][n]
            ELSE [iface |-> Best(n).iface, via |-> neighbour[r][Best(n).iface]]]

Heard(r) == {m \in wire : m.to = r}

\* handleLsuPacket, between two rounds of the other thread.
ReceiveLsu(r, m) ==
    /\ r \in up /\ unserved[r] = {}
    /\ LET g == LearnAll(graph[r], Author(r, m), m.advs)
       IN  /\ graph' = [graph EXCEPT ![r] = g]
           /\ rt' = [rt EXCEPT ![r] =
                        Populated(r, Offers(r, g, Dijkstra(g, RouterVertex(r))))]
    /\ seen' = [seen EXCEPT ![r][m.origin] = m.seq]
    /\ wire' = OnWire(wire \cup
            UNION {Copies(r, i, m.origin, m.seq, m.advs) : i \in Ifaces(r) \ {m.iface}}, seen')
    /\ UNCHANGED <<up, neighbour, round, unserved>>

\* A router is stopped, with what it has not yet sent.
Leave(r) ==
    /\ r \in up \cap Leavers
    /\ up' = up \ {r}
    /\ unserved' = [unserved EXCEPT ![r] = {}]
    /\ wire' = wire \ Heard(r)
    /\ UNCHANGED <<neighbour, graph, seen, rt, round>>

Next ==
    \E r \in Router :
        \/ \E i \in Ifaces(r) : Hello(r, i)
        \/ SendLsu(r)
        \/ \E m \in Heard(r) : ReceiveLsu(r, m)
        \/ Leave(r)

\* The copies a running router itself sends in the rounds that go on for ever.
Lasting(r) ==
    {m \in Heard(r) :
        m.origin \in up /\ m.seq = Rounds[m.origin] /\ \E e \in FarEnds(r, m.iface) : e[1] = m.origin}

\* Those get through; any other copy may be lost.  A copy is received once, so weak
\* fairness of receiving them says no more than that none is due for ever.
FairReceive(r) == []<>~(r \in up /\ unserved[r] = {} /\ Lasting(r) # {})

\* The threads of a router that runs keep sending.
Fairness ==
    \A r \in Router :
        /\ \A i \in Ifaces(r) : WF_vars(Hello(r, i))
        /\ WF_vars(SendLsu(r))
        /\ FairReceive(r)

Spec == Init /\ [][Next]_vars /\ Fairness

-----------------------------------------------------------------------------
(* Properties.                                                               *)

OwnNets(r) == {Links[r][i] : i \in Ifaces(r)}

Adjacent(r, s) == \E i \in Ifaces(r) : \E e \in FarEnds(r, i) : e[1] = s

\* Whatever is flooded by whom in whatever order, a router believes of another
\* only what is so: the subnets of its interfaces (or a default route), and
\* neighbours it shares a subnet with.
Authentic ==
    \A r \in Router :
        /\ \A v \in VerticesOf(graph[r]) :
              v.type = "SUBNET" => v.subnet \in OwnNets(v.rid) \cup {DefaultNet}
        /\ \A e \in graph[r].edges :
              IF e[2].type = "SUBNET" THEN e[1] = RouterVertex(e[2].rid)
              ELSE Adjacent(e[1].rid, e[2].rid)

\* Router r has learnt the advertisements advs of router s.
Learnt(r, s, advs) ==
    \A i \in DOMAIN advs :
        /\ <<RouterVertex(s), SubnetVertex(s, advs[i].subnet)>> \in graph[r].edges
        /\ advs[i].rid # NoRouter =>
                {<<RouterVertex(s), RouterVertex(advs[i].rid)>>,
                 <<RouterVertex(advs[i].rid), RouterVertex(s)>>} \subseteq graph[r].edges

\* A number counts as seen before the advertisements are read, and then every other
\* copy is dropped (handleLsuPacket).  The copies of a round built before all HELLOs
\* may differ and the fuller one be dropped; but where a later round counts as seen,
\* everything the sender advertises by now is learnt, whatever copies of whatever
\* rounds were lost, dropped or overtaken.
SeenIsLearnt ==
    \A r, s \in Router :
        (seen[r][s] > 0 /\ seen[r][s] = Rounds[s]) => Learnt(r, s, Adverts(s))

\* Routers that route n to one another in a circle.
Circle(n, S) ==
    S # {} /\ \A r \in S : n \in DOMAIN rt[r] /\ rt[r][n].via \in S

\* No routers reach one another in a circle through their eth0 alone.
Eth0Acyclic ==
    \A S \in SUBSET Router : S # {} => \E r \in S : \A e \in FarEnds(r, 1) : e[1] \notin S

\* Though every router fills its table from its own part of the LSUs and never
\* corrects an entry, the entries for one subnet lead no router back to itself
\* (populateRoutingTable).  Of packets that follow the default route on a part of
\* their way it says nothing.
NoLoop == \A n \in Subnet \ {DefaultNet} : \A S \in SUBSET Router : ~Circle(n, S)

\* The same of the default route, as a correct forwarding table would have it.
NoDefaultLoop == \A S \in SUBSET Router : ~Circle(DefaultNet, S)

\* What a router advertises in the end: a subnet on which it never hears a
\* neighbour only if it hears one on its eth0.
Advertised(r) == {Links[r][i] : i \in {j \in Ifaces(r) : Alive(r, 1) \/ Alive(r, j)}}

\* Where a packet for n ends that router r sends on: the last router that the
\* entries for n lead to.
End(r, n) ==
    LET at[k \in 0 .. Cardinality(Router)] ==
            IF k = 0 THEN r
            ELSE LET q == at[k - 1]
                 IN  IF n \in DOMAIN rt[q] /\ rt[q][n].via # NoRouter THEN rt[q][n].via ELSE q
    IN  at[Cardinality(Router)]

\* An entry that names eth0 without a gateway, though n is not there: it was made
\* before the neighbours were known (findNeighborUsingRouterId), and stays.
Misled(r, n) == n \in DOMAIN rt[r] /\ rt[r][n] = [iface |-> 1, via |-> NoRouter]

\* Router r has an entry for n that leads to the goal; or, which the code does not
\* prevent, to a router that has stopped or that is misled.
Routed(r, n, Goal) ==
    LET e == End(r, n)
    IN  /\ n \in DOMAIN rt[r]
        /\ e \in Goal \/ e \notin up \/ Misled(e, n)

=============================================================================
