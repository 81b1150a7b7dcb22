--------------------------- MODULE StubForwarding ---------------------------
(***************************************************************************)
(* The forwarding plane of the first phase, stub_sr/sr_router.c: static       *)
(* routes to the router's own subnets and one default gateway.  A packet is    *)
(* sent when the hardware address of its destination is cached; otherwise it   *)
(* goes to the gateway if its source is on one of our subnets, and waits for   *)
(* an ARP reply if not.                                                      *)
(*                                                                         *)
(* does_mac_address_exist returns a pointer to an array on its own stack.  Where *)
(* sr_route_packet calls something before it reads the array again, the byte   *)
(* it tests is whatever the calls left there: a choice of the model.  (The     *)
(* pointer itself is taken to survive, as in the builds of that time.)        *)
(*                                                                         *)
(* One thread runs the handlers; as in Forwarding each is one step, except the *)
(* walk of send_cached_packet.                                               *)
(***************************************************************************)
EXTENDS Integers, Sequences, FiniteSets

CONSTANTS
    IP, Mac, ZeroLead, NoMac, ZeroIP, Limit, Size, MaxTime, \* see ArpCache
    Packet,     \* packets that may arrive, each at most once
    Own,        \* addresses of the router's interfaces
    Local,      \* addresses covered by an entry without gateway
    MacsOf,     \* hosts on its links: address -> hardware addresses it may tell
    Starts,     \* what the other entries say
    AskCap      \* bound on the count of unanswered ARP requests

\* The gateway of the first default route (ZeroIP without one), and those of all.
Routes == {r \in [default : IP \cup {ZeroIP}, gateways : SUBSET IP] :
              r.default # ZeroIP => r.default \in r.gateways}

PacketType == [id : Nat, src : IP, dst : IP, ttl : Nat, typeEcho : BOOLEAN,
               tcpUdp : BOOLEAN]

ASSUME StubForwardingAssumption ==
    /\ ZeroLead \subseteq Mac /\ NoMac \notin Mac
    /\ Limit \in Nat \ {0} /\ Size \in Nat \ {0} /\ MaxTime \in Nat
    /\ Packet \subseteq PacketType
    /\ Own \subseteq IP /\ Local \subseteq IP
    /\ ZeroIP \notin IP
    /\ MacsOf \in [DOMAIN MacsOf -> SUBSET Mac] /\ DOMAIN MacsOf \subseteq IP
    /\ Starts \subseteq Routes
    /\ AskCap \in Nat \ {0}

VARIABLES
    slots, freePos, overrun, now, born, lastArp,    \* the ARP cache
    routes,     \* routing_table
    queue,      \* head_packet_cache
    flushFor,   \* sender of the reply send_cached_packet runs for, or ZeroIP
    current,    \* position of current_packet in queue while it runs, else 0
    crashed,    \* a null routing entry was dereferenced: the process is gone
    arrived,    \* history: packets received
    sent,       \* history: the copies of each packet sent on
    answers,    \* history: the ICMP answers sent for each packet
    unanswered  \* history: ARP requests sent for an address since its last reply

arpVars == <<slots, freePos, overrun, now, born, lastArp>>
vars == <<arpVars, routes, queue, flushFor, current, crashed, arrived, sent, answers,
          unanswered>>

Arp == INSTANCE ArpCache

\* ttl is that of the copy; awaits is history: the address that was asked for.
Waiting == [pkt : Packet, ttl : Nat, forGateway : BOOLEAN, awaits : IP]

\* A copy for Nowhere has a stray hardware address.
Nowhere == ZeroIP
Copy == [to : IP \cup {Nowhere}, ttl : Nat]

Answer == {"echoReply", "timeExceeded", "portUnreachable"}

TypeOK ==
    /\ Arp!TypeOK
    /\ routes \in Starts
    /\ queue \in Seq(Waiting)
    /\ flushFor \in IP \cup {ZeroIP}
    /\ current \in 0 .. Len(queue)
    /\ crashed \in BOOLEAN
    /\ arrived \subseteq Packet
    /\ sent \in [Packet -> Seq(Copy)]
    /\ answers \in [Packet -> SUBSET Answer]
    /\ unanswered \in [IP -> 0 .. AskCap]

Init ==
    /\ Arp!Init
    /\ routes \in Starts
    /\ queue = << >>
    /\ flushFor = ZeroIP /\ current = 0
    /\ crashed = FALSE
    /\ arrived = {}
    /\ sent = [p \in Packet |-> << >>]
    /\ answers = [p \in Packet |-> {}]
    /\ unanswered = [ip \in IP |-> 0]

Running == ~crashed /\ ~overrun
Idle == current = 0

-----------------------------------------------------------------------------
(* The lookups.                                                              *)

\* does_mac_address_exist, as long as the walk stays in the array.
Known(ip) == Arp!Found(ip)

\* cache_mac_address.
CacheSender(ip, mac) == Arp!LearnFromArp(ip, mac)

\* getInterFaceForIp finds an entry.
IsLocal(ip) == ip \in Local

\* getInterFaceForGateWay finds one.
HasGateway == routes.default # ZeroIP

IsGateway(ip) == ip \in routes.gateways

-----------------------------------------------------------------------------
(* sr_route_packet, with "rest" the list without the packet.                  *)

\* Fault: any packet whose destination is unknown goes to the gateway.
OutboundAll(p) == ~Known(p.dst)

\* The destination is unknown and the source on one of our subnets: the packet
\* is for the gateway, wherever it is bound.
Outbound(p) == ~Known(p.dst) /\ IsLocal(p.src)

WalkRunsOff(p) ==
    \/ Arp!RunsOff(p.dst)
    \/ Outbound(p) /\ HasGateway /\ Arp!RunsOff(routes.default)

\* Fault: the second copy leaves with the TTL of the first.
SendOnceCharged(p, ttl, hops) ==
    sent' = [sent EXCEPT ![p] = @ \o [k \in DOMAIN hops |-> [to |-> hops[k], ttl |-> ttl - 1]]]

\* The packet is sent to one hop after the other, each time with its TTL reduced.
Send(p, ttl, hops) ==
    sent' = [sent EXCEPT ![p] = @ \o [k \in DOMAIN hops |-> [to |-> hops[k], ttl |-> ttl - k]]]

\* add_packet_to_cache and send_arp_request.
Wait(p, ttl, hop, rest) ==
    /\ queue' = Append(rest, [pkt |-> p, ttl |-> ttl, forGateway |-> IsGateway(hop),
                              awaits |-> hop])
    /\ unanswered' = [unanswered EXCEPT ![hop] = IF @ < AskCap THEN @ + 1 ELSE @]

\* Fault: the packet is sent to the stray address and kept as well.
ToGatewayTwice(p, ttl, rest) ==
    /\ Send(p, ttl, <<routes.default, Nowhere>>)
    /\ Wait(p, ttl - 2, routes.default, rest)

\* Sent to the gateway, and then the test for a cached destination reads the dead
\* array: the packet is sent again to a stray address, or kept as if nobody had
\* been found.
ToGateway(p, ttl, rest) ==
    \/ /\ Send(p, ttl, <<routes.default, Nowhere>>)
       /\ queue' = rest /\ UNCHANGED unanswered
    \/ /\ Send(p, ttl, <<routes.default>>)
       /\ Wait(p, ttl - 1, routes.default, rest)

\* From elsewhere to a host on our subnets that is not cached: the same test after
\* the lookup of the source.
ToUnknown(p, ttl, rest) ==
    \/ /\ Send(p, ttl, <<Nowhere>>)
       /\ queue' = rest /\ UNCHANGED unanswered
    \/ /\ Wait(p, ttl, p.dst, rest)
       /\ UNCHANGED sent

\* Fault: the entry of the gateway does not replace that of the destination.
NoEntryForDestination(p) == ~IsLocal(p.dst)

\* A null entry is dereferenced.
NoEntry(p) == IF Outbound(p) THEN ~HasGateway ELSE ~IsLocal(p.dst)

RoutePacket(p, ttl, rest) ==
    \/ /\ WalkRunsOff(p)
       /\ overrun' = TRUE /\ UNCHANGED <<crashed, queue, sent, unanswered>>
    \/ /\ ~WalkRunsOff(p) /\ NoEntry(p)
       /\ crashed' = TRUE /\ UNCHANGED <<overrun, queue, sent, unanswered>>
    \/ /\ ~WalkRunsOff(p) /\ ~NoEntry(p)
       /\ \/ /\ Known(p.dst)
             /\ Send(p, ttl, <<p.dst>>)
             /\ queue' = rest /\ UNCHANGED unanswered
          \/ /\ Outbound(p) /\ Known(routes.default)
             /\ ToGateway(p, ttl, rest)
          \/ /\ Outbound(p) /\ ~Known(routes.default)
             /\ Wait(p, ttl, routes.default, rest) /\ UNCHANGED sent
          \/ /\ ~Known(p.dst) /\ ~Outbound(p)
             /\ ToUnknown(p, ttl, rest)
       /\ UNCHANGED <<overrun, crashed>>

-----------------------------------------------------------------------------
(* The handlers.                                                             *)

ForRouter(p) == p.dst \in Own

\* sr_handle_icmp_packet.  After an echo reply the Ethernet addresses have been
\* swapped, and a second answer built from them is refused by sr_send_packet.
AnswersTo(p) ==
    IF p.typeEcho /\ p.ttl > 1 THEN {"echoReply"}
    ELSE IF ForRouter(p) THEN (IF p.tcpUdp THEN {"portUnreachable"} ELSE {})
    ELSE {"timeExceeded"}

\* sr_handlepacket on an IP packet: for one of our addresses, expired, or in
\* transit.
ReceiveIp(p) ==
    /\ Running /\ Idle
    /\ p \notin arrived
    /\ arrived' = arrived \cup {p}
    /\ IF ForRouter(p) \/ p.ttl <= 1
       THEN /\ answers' = [answers EXCEPT ![p] = AnswersTo(p)]
            /\ UNCHANGED <<overrun, crashed, queue, sent, unanswered>>
       ELSE RoutePacket(p, p.ttl, queue) /\ UNCHANGED answers
    /\ UNCHANGED <<slots, freePos, now, born, lastArp, routes, flushFor, current>>

\* sr_handle_arp_packet: the sender of a request is cached and gets a reply.
ReceiveArpRequest(ip, mac) ==
    /\ Running /\ Idle
    /\ CacheSender(ip, mac)
    /\ UNCHANGED <<routes, queue, flushFor, current, crashed, arrived, sent, answers,
                   unanswered>>

\* That of a reply, asked for or not, is cached, and then the list is walked.
ReceiveArpReply(ip, mac) ==
    /\ Running /\ Idle
    /\ CacheSender(ip, mac)
    /\ unanswered' = [unanswered EXCEPT ![ip] = 0]
    /\ IF queue # << >> THEN flushFor' = ip /\ current' = 1
                        ELSE UNCHANGED <<flushFor, current>>
    /\ UNCHANGED <<routes, queue, crashed, arrived, sent, answers>>

\* Fault: any reply releases everything.
ReleasedAll(w) == w.ttl > 1

\* Fault: a copy is released whatever is left of its TTL.
ReleasedSpent(w) == flushFor = w.pkt.dst \/ (IsGateway(flushFor) /\ w.forGateway)

\* Fault: the gateway's reply releases only packets for the gateway itself.
ReleasedByAddress(w) == w.ttl > 1 /\ flushFor = w.pkt.dst

\* send_cached_packet takes out the packets for the sender, and for a gateway
\* those that wait for one, unless their TTL is spent.
Released(w) ==
    /\ w.ttl > 1
    /\ flushFor = w.pkt.dst \/ (IsGateway(flushFor) /\ w.forGateway)

Without(k) == SubSeq(queue, 1, k - 1) \o SubSeq(queue, k + 1, Len(queue))

\* The next pointer is read before the packet is routed again.
WalkEnds == current = Len(queue)

\* One turn of the loop of send_cached_packet.
FlushStep ==
    /\ Running /\ ~Idle
    /\ LET w == queue[current]
       IN  \/ /\ Released(w)
              /\ RoutePacket(w.pkt, w.ttl, Without(current))
              /\ current' = IF WalkEnds THEN 0 ELSE current
           \/ /\ ~Released(w)
              /\ current' = IF WalkEnds THEN 0 ELSE current + 1
              /\ UNCHANGED <<overrun, crashed, queue, sent, unanswered>>
    /\ flushFor' = IF WalkEnds THEN ZeroIP ELSE flushFor
    /\ UNCHANGED <<slots, freePos, now, born, lastArp, routes, arrived, answers>>

Tick ==
    /\ ~crashed
    /\ Arp!Tick
    /\ UNCHANGED <<routes, queue, flushFor, current, crashed, arrived, sent, answers,
                   unanswered>>

Next ==
    \/ \E p \in Packet : ReceiveIp(p)
    \/ \E ip \in DOMAIN MacsOf : \E mac \in MacsOf[ip] :
          ReceiveArpRequest(ip, mac) \/ ReceiveArpReply(ip, mac)
    \/ FlushStep
    \/ Tick

\* The process goes on with the handler it is in; nothing else is promised.
Fairness == WF_vars(FlushStep)

Spec == Init /\ [][Next]_vars /\ Fairness

-----------------------------------------------------------------------------
(* Properties.                                                               *)

InTransit == {p \in Packet : ~ForRouter(p) /\ p.ttl > 1}

Places(p) == {i \in DOMAIN queue : queue[i].pkt = p}

\* However often the dead array makes sr_route_packet send or keep a packet it has
\* sent, and send_cached_packet route it again, every copy costs a hop: at most
\* one is kept, and its TTL is what the copies sent have left of the packet's.
TtlPaysForCopies ==
    \A p \in Packet :
        /\ \A i, j \in Places(p) : i = j
        /\ \A i \in Places(p) : queue[i].ttl = p.ttl - Len(sent[p])
        /\ \A k \in DOMAIN sent[p] : sent[p][k].ttl = p.ttl - k

\* A copy for nobody is the last of its packet: what comes after the stray test
\* neither keeps the packet nor sends it once more.
StrayCopyIsLast ==
    \A p \in Packet : \A k \in DOMAIN sent[p] :
        sent[p][k].to = Nowhere => k = Len(sent[p]) /\ Places(p) = {}

\* A packet waits only for an ARP request that is unanswered, except for copies
\* whose TTL was spent on the way into the list: those stay there for good.
WaitersAskedOrSpent ==
    (Idle /\ Running) =>
        \A i \in DOMAIN queue : unanswered[queue[i].awaits] > 0 \/ queue[i].ttl <= 1

\* What takes the process down is a packet for an address on no subnet of ours:
\* one from elsewhere, one sent while there is no gateway, or one for a host that
\* ARP packets have told us of, like the gateway itself.
CrashNeedsStranger ==
    crashed => \E p \in arrived \cap InTransit :
                  /\ ~IsLocal(p.dst) \/ ~HasGateway
                  /\ IsLocal(p.src) /\ HasGateway => p.dst \in DOMAIN MacsOf

Inbound == {p \in Packet : ~IsLocal(p.src)}

Fate(p) ==
    IF Len(sent[p]) + Cardinality(Places(p)) > 1 THEN "duplicated"
    ELSE IF sent[p] # << >> THEN (IF sent[p][1].to = Nowhere THEN "astray" ELSE "forwarded")
    ELSE IF Places(p) # {} THEN "waiting"
    ELSE IF p \notin arrived THEN "unseen"
    ELSE IF answers[p] # {} THEN "answered" ELSE "ignored"

\* A packet from elsewhere is kept once and leaves once, be it for an address that
\* is nobody's: only packets from our own subnets are ever sent twice.
Abstract == INSTANCE Delivery WITH
    Packet <- Inbound, Transit <- InTransit, Exposed <- Inbound,
    fate <- [p \in Inbound |-> Fate(p)], up <- Running

InboundDelivery == Abstract!Spec

\* The walk of send_cached_packet ends although routing appends copies to the list,
\* unless the record of the replying host expires under it: a copy that comes back
\* has less TTL.
FlushEndsWhileKnown ==
    \A ip \in IP : (flushFor = ip) ~> (flushFor # ip \/ ~Running \/ ~Known(ip))
=============================================================================
