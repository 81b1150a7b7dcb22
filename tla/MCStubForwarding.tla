-------------------------- MODULE MCStubForwarding --------------------------
(* A router R between a gateway G and a server S on its own subnet; C is a     *)
(* client somewhere beyond the gateway.                                      *)
EXTENDS StubForwarding, TLC

CONSTANTS C, G, S, R, mg, ms, m0

Pkt(id, src, dst, ttl) ==
    [id |-> id, src |-> src, dst |-> dst, ttl |-> ttl, typeEcho |-> FALSE, tcpUdp |-> FALSE]

\* Two replies of the server, a request to it, one for the gateway itself, and one
\* that ends here.
MCPacket ==
    { Pkt(1, S, C, 3), Pkt(2, S, C, 2), Pkt(3, C, S, 2), Pkt(4, S, G, 2),
      [Pkt(5, C, R, 2) EXCEPT !.tcpUdp = TRUE] }

MCMacs == (G :> {mg}) @@ (S :> {ms, m0})

MCStarts == { [default |-> G, gateways |-> {G}], [default |-> ZeroIP, gateways |-> {}] }
=============================================================================
