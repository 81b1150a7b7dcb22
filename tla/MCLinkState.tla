---------------------------- MODULE MCLinkState ----------------------------
(* A router with a link to one other router and a link on which two routers   *)
(* are heard, one of which uses another HELLO interval; or with a server,     *)
(* which sends no HELLOs, on the second link.                                *)
EXTENDS LinkState

CONSTANTS a, b, odd, zero

MCRouter == {a, b, odd}

TwoRouters == [i \in 0 .. 1 |-> IF i = 0 THEN {a} ELSE {b, odd}]
WithServer == [TwoRouters EXCEPT ![1] = {}]

MCTopologies == {TwoRouters, WithServer}
=============================================================================
