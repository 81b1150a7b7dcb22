----------------------------- MODULE MCArpCache -----------------------------
(* Instances of ArpCache for TLC: the cfg names the addresses, and those that *)
(* nothing tells apart are interchangeable.                                   *)
EXTENDS ArpCache, TLC

Symmetry == Permutations(IP \ {ZeroIP}) \cup Permutations(Mac \ ZeroLead)
=============================================================================
