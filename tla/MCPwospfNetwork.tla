--------------------------- MODULE MCPwospfNetwork ---------------------------
(***************************************************************************)
(* The assignment topology: the three routers of vnltopo118.iplist are a      *)
(* triangle, vhost1 leads to the firewall, vhost2 and vhost3 to a server.    *)
(***************************************************************************)
EXTENDS PwospfNetwork

CONSTANTS vhost1, vhost2, vhost3, zero,
          net0, gate, n12, n13, n23, srv2, srv3

MCRouter == {vhost1, vhost2, vhost3}
MCSubnet == {net0, gate, n12, n13, n23, srv2, srv3}
MCNoRouter == zero
MCDefaultNet == net0

MCLinks ==
    [r \in MCRouter |-> CASE r = vhost1 -> <<gate, n12, n13>>
                          [] r = vhost2 -> <<n12, srv2, n23>>
                          [] r = vhost3 -> <<n13, srv3, n23>>]
MCPrimary == {vhost1}

\* The rounds of LSUs: all routers send the last one, the named ones one before.
Early(S) == [r \in MCRouter |-> IF r \in S THEN 2 ELSE 1]
TwoEarly == Early({vhost2, vhost3})
OneEarly == Early({vhost2})
NoneEarly == Early({})

\* What the theorem on NoLoop assumes of the topology.
ASSUME AssignmentIsAcyclic == Eth0Acyclic

\* The run that has both an early round and a router that stops starts where the
\* first HELLOs between vhost1 and vhost3 have been received.
MCInit ==
    /\ up = Router
    /\ neighbour =
        [r \in Router |-> [i \in Ifaces(r) |->
            CASE r = vhost1 /\ Links[r][i] = n13 -> vhost3
              [] r = vhost3 /\ Links[r][i] = n13 -> vhost1
              [] OTHER -> NoRouter]]
    /\ graph = [r \in Router |-> OwnGraph(r, Links[r])]
    /\ seen = [r \in Router |-> [s \in Router |-> 0]]
    /\ rt = [r \in Router |-> OwnRoutes(r)]
    /\ round = [r \in Router |-> 0]
    /\ unserved = [r \in Router |-> {}]
    /\ wire = {}

MCSpec == MCInit /\ [][Next]_vars /\ Fairness

NoLeavers == {}
Vhost2Leaves == {vhost2}
=============================================================================
