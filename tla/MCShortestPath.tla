--------------------------- MODULE MCShortestPath ---------------------------
(* All topologies of five routers, two of them with a subnet of their own,    *)
(* listed in an order in which floods may have added them.                   *)
EXTENDS ShortestPath

CONSTANTS r1, r2, r3, r4, r5, n1, n2

Pairs == {<<r1, r2>>, <<r1, r3>>, <<r1, r4>>, <<r1, r5>>, <<r2, r3>>, <<r2, r4>>,
          <<r2, r5>>, <<r3, r4>>, <<r3, r5>>, <<r4, r5>>}

\* A link is an edge each way.
Topology(links) ==
    [vertices |-> << RouterVertex(r5), SubnetVertex(r4, n2), RouterVertex(r4),
                     RouterVertex(r3), RouterVertex(r2), SubnetVertex(r1, n1),
                     RouterVertex(r1) >>,
     edges |-> {<<RouterVertex(p[1]), RouterVertex(p[2])>> : p \in links}
               \cup {<<RouterVertex(p[2]), RouterVertex(p[1])>> : p \in links}
               \cup {<<RouterVertex(r1), SubnetVertex(r1, n1)>>,
                     <<RouterVertex(r4), SubnetVertex(r4, n2)>>}]

AllTopologies == {Topology(links) : links \in SUBSET Pairs}
=============================================================================
