---------------------------- MODULE MCForwarding ----------------------------
(* Instances of Forwarding: a router R between a gateway G, a server S on its *)
(* own subnet and a neighbor N with a server T behind it; C is a client       *)
(* somewhere beyond the gateway.                                             *)
EXTENDS Forwarding, TLC

CONSTANTS C, G, S, N, T, R, mg, ms, mn, m0

Pkt(id, src, dst) ==
    [id |-> id, src |-> src, dst |-> dst, ttl |-> 2, typeEcho |-> FALSE, tcpUdp |-> FALSE]

DefaultVia(gw) == [covers |-> {}, default |-> TRUE, gw |-> gw]
Subnet(hosts) == [covers |-> hosts, default |-> FALSE, gw |-> ZeroIP]
Via(gw, hosts) == [covers |-> hosts, default |-> FALSE, gw |-> gw]

Start(table, mode) == [rt |-> table, dynamic |-> mode]

\* One gateway, as the routers themselves build their table, and as a file of the
\* static mode says it (every entry names a gateway).
OneGatewayStart == { Start(<< DefaultVia(G), Subnet({G}), Subnet({S}) >>, TRUE) }
StaticStart == { Start(<< DefaultVia(G), Via(S, {S}) >>, FALSE) }
NoRoutes == {}

\* The default route and the route beyond N appear while packets come and wait.
SubnetsStart == { Start(<< Subnet({G}), Subnet({S}), Subnet({N}) >>, TRUE) }
BothStarts == SubnetsStart \cup { Start(<< DefaultVia(G), Via(S, {S}), Via(N, {N, T}) >>, FALSE) }
LearntLater == { DefaultVia(G), Via(N, {T}) }

\* Two replies of the server, one request to it, and packets that end here.
MixedPackets ==
    { Pkt(1, S, C), Pkt(2, S, C), Pkt(3, C, S),
      [Pkt(4, C, R) EXCEPT !.tcpUdp = TRUE], [Pkt(5, C, S) EXCEPT !.ttl = 1],
      [Pkt(6, C, R) EXCEPT !.typeEcho = TRUE] }
\* Up to three wait for the gateway, and one for the neighbor.
GatewayPackets == { Pkt(1, S, C), Pkt(2, S, C) }
TransitPackets == GatewayPackets \cup { Pkt(3, S, T), Pkt(4, C, T) }

OneGatewayMacs == (G :> {mg}) @@ (S :> {ms})
TwoGatewayMacs == (G :> {mg}) @@ (S :> {ms}) @@ (N :> {mn})
=============================================================================
