------------------------------ MODULE Delivery ------------------------------
(***************************************************************************)
(* What the router promises for one packet, without caches, tables or       *)
(* queues.  A packet in transit is sent on at once, or kept until it is; any *)
(* other is answered or ignored.  Nothing leaves twice and nothing kept is   *)
(* dropped, for as long as the process is up; only an exposed packet may      *)
(* leave for an address that is nobody's.                                   *)
(***************************************************************************)
CONSTANTS Packet, Transit, Exposed

VARIABLES fate, up

\* How a packet in transit may leave.
Leaves(p) == IF p \in Exposed THEN {"forwarded", "astray"} ELSE {"forwarded"}

Fates(p) == IF p \in Transit THEN {"waiting"} \cup Leaves(p) ELSE {"ignored", "answered"}

Init == fate = [p \in Packet |-> "unseen"] /\ up = TRUE

Receive(p) ==
    /\ up /\ UNCHANGED up
    /\ fate[p] = "unseen"
    /\ \E f \in Fates(p) : fate' = [fate EXCEPT ![p] = f]

SendOn(p) ==
    /\ up /\ UNCHANGED up
    /\ fate[p] = "waiting"
    /\ \E f \in Leaves(p) : fate' = [fate EXCEPT ![p] = f]

\* The process goes down, perhaps over a packet it has just received.
Fail ==
    /\ up /\ up' = FALSE
    /\ \/ UNCHANGED fate
       \/ \E p \in Packet : fate[p] = "unseen" /\ fate' = [fate EXCEPT ![p] = "ignored"]

Next == Fail \/ \E p \in Packet : Receive(p) \/ SendOn(p)

Spec == Init /\ [][Next]_<<fate, up>>
=============================================================================
