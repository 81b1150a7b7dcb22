----------------------------- MODULE Forwarding -----------------------------
(***************************************************************************)
(* The forwarding plane of pwospf_stub/sr_router.c: what sr_handlepacket    *)
(* does with IP and ARP packets.  A packet in transit is sent at once when  *)
(* the hardware address of its next hop is cached, and otherwise put on the *)
(* list head_packet_cache while an ARP request goes out.  An ARP reply is   *)
(* cached and then send_cached_packet walks the list, taking out and        *)
(* routing again the packets the reply may have released.                   *)
(*                                                                         *)
(* One thread runs the handlers, so a handler is one step, except the walk  *)
(* of the list: each element is a step of its own, because routing it again *)
(* may append to the list being walked and time passes meanwhile.           *)
(*                                                                         *)
(* The ARP cache is an instance of ArpCache.  Interfaces, checksums and     *)
(* header rewriting are left out; so are the counters of                    *)
(* increment_ip_packet_count, which nothing reads.                          *)
(*                                                                         *)
(* does_mac_address_exist returns a pointer to an array on its own stack.  A *)
(* hit is used before anything is called; a missed packet whose source the    *)
(* table does not cover has its array read again after two calls, and the     *)
(* byte then found is a choice of the model.  (A missed gateway has just been *)
(* looked up in the same frame: the array says so.)                         *)
(***************************************************************************)
EXTENDS Integers, Sequences, FiniteSets

CONSTANTS
    IP, Mac, ZeroLead, NoMac, ZeroIP, Limit, Size, MaxTime, \* see ArpCache
    Packet,     \* packets that may arrive, each at most once
    Own,        \* addresses of the router's interfaces
    MacsOf,     \* hosts on its links: address -> hardware addresses it may tell
    Neighbors,  \* those that are PWOSPF routers and send HELLOs
    Starts,     \* routing tables at start, with the mode they are used in
    Learnable,  \* entries PWOSPF may append in dynamic mode
    Nowhere,    \* the hop of a packet sent to a stray hardware address
    AskCap      \* bound on the count of unanswered ARP requests

\* A route covers a set of addresses; the default route (mask 0) covers none
\* for the lookups.  gw is ZeroIP for a subnet of the router itself.
RouteEntry ==
    {e \in [covers : SUBSET IP, default : BOOLEAN, gw : IP \cup {ZeroIP}] :
        e.default => e.covers = {}}

\* typeEcho: the byte where an ICMP header has its type is 8.  tcpUdp: the
\* protocol is TCP or UDP.
PacketType == [id : Nat, src : IP, dst : IP, ttl : Nat, typeEcho : BOOLEAN,
               tcpUdp : BOOLEAN]

ASSUME ForwardingAssumption ==
    /\ ZeroLead \subseteq Mac /\ NoMac \notin Mac
    /\ Limit \in Nat \ {0} /\ Size \in Nat \ {0} /\ MaxTime \in Nat
    /\ Packet \subseteq PacketType
    /\ Own \subseteq IP
    /\ MacsOf \in [DOMAIN MacsOf -> SUBSET Mac] /\ DOMAIN MacsOf \subseteq IP
    /\ Neighbors \subseteq DOMAIN MacsOf
    /\ Starts \subseteq [rt : Seq(RouteEntry), dynamic : BOOLEAN]
    /\ Learnable \subseteq RouteEntry
    /\ Nowhere \notin IP \cup {ZeroIP}
    /\ AskCap \in Nat \ {0}

VARIABLES
    slots, freePos, overrun, now, born, lastArp,    \* the ARP cache
    rt,         \* routing_table
    dynamic,    \* isDynamicMode
    queue,      \* head_packet_cache
    flushFor,   \* sender of the reply send_cached_packet runs for, or ZeroIP
    current,    \* position of current_packet in queue while it runs, else 0
    crashed,    \* a null routing entry was dereferenced: the process is gone
    arrived,    \* history: packets received
    sent,       \* history: the hops each packet was sent on to
    answers,    \* history: the ICMP answers sent for each packet
    unanswered  \* history: ARP requests sent for an address since its last reply

arpVars == <<slots, freePos, overrun, now, born, lastArp>>
vars == <<arpVars, rt, dynamic, queue, flushFor, current, crashed,
          arrived, sent, answers, unanswered>>

Arp == INSTANCE ArpCache

\* An element of the list.  awaits is history: the address the ARP request sent
\* with it asked for.
Waiting == [pkt : Packet, forGateway : BOOLEAN, awaits : IP \cup {ZeroIP}]

Answer == {"echoReply", "timeExceeded", "portUnreachable"}

TypeOK ==
    /\ Arp!TypeOK
    /\ rt \in Seq(RouteEntry) /\ dynamic \in BOOLEAN
    /\ queue \in Seq(Waiting)
    /\ flushFor \in IP \cup {ZeroIP}
    /\ current \in 0 .. Len(queue)
    /\ crashed \in BOOLEAN
    /\ arrived \subseteq Packet
    /\ sent \in [Packet -> Seq(IP \cup {ZeroIP, Nowhere})]
    /\ answers \in [Packet -> SUBSET Answer]
    /\ unanswered \in [IP \cup {ZeroIP} -> 0 .. AskCap]

Init ==
    /\ Arp!Init
    /\ \E s \in Starts : rt = s.rt /\ dynamic = s.dynamic
    /\ queue = << >>
    /\ flushFor = ZeroIP
    /\ current = 0
    /\ crashed = FALSE
    /\ arrived = {}
    /\ sent = [p \in Packet |-> << >>]
    /\ answers = [p \in Packet |-> {}]
    /\ unanswered = [ip \in IP \cup {ZeroIP} |-> 0]

Running == ~crashed /\ ~overrun
Idle == current = 0

-----------------------------------------------------------------------------
(* The routing table.                                                        *)

\* getInterFaceForIp(Dynamic): the first entry with a mask that covers ip.
HasRoute(ip) == \E i \in DOMAIN rt : ~rt[i].default /\ ip \in rt[i].covers

RouteFor(ip) ==
    LET Fits(i) == ~rt[i].default /\ ip \in rt[i].covers
    IN  rt[CHOOSE i \in DOMAIN rt : Fits(i) /\ \A j \in 1 .. i - 1 : ~Fits(j)]

\* getInterFaceForGateWay: the first default entry.
IsDefault(e) == e.default /\ e.gw # ZeroIP
\* Fault: the default route is looked for at the head of the table only.
HasGatewayAtHead == rt # << >> /\ IsDefault(rt[1])

HasGateway == \E i \in DOMAIN rt : IsDefault(rt[i])

Gateway ==
    rt[CHOOSE i \in DOMAIN rt :
          IsDefault(rt[i]) /\ \A j \in 1 .. i - 1 : ~IsDefault(rt[j])].gw

IsGateway(ip) == \E i \in DOMAIN rt : rt[i].gw = ip

\* The address whose hardware address is looked up.  In dynamic mode an entry
\* without gateway is for a subnet of the router itself; the static table names a
\* gateway in every entry.
StaticHop(dst) == IF HasRoute(dst) THEN RouteFor(dst).gw ELSE dst

DynamicHop(dst) ==
    IF HasRoute(dst) /\ RouteFor(dst).gw # ZeroIP THEN RouteFor(dst).gw ELSE dst

NextHop(dst) == IF dynamic THEN DynamicHop(dst) ELSE StaticHop(dst)

-----------------------------------------------------------------------------
(* sr_route_packet and sr_route_packet_Dynamic_mode, with "rest" the list     *)
(* without the packet.  Each alternative is one way through the function.     *)

\* Whether the hop is unknown and the code turns to the default gateway, which
\* it does for every packet whose source is covered by the table.
Redirected(p) == ~Arp!Found(NextHop(p.dst)) /\ HasRoute(p.src)

WalkRunsOff(p) ==
    \/ Arp!RunsOff(NextHop(p.dst))
    \/ Redirected(p) /\ HasGateway /\ Arp!RunsOff(Gateway)

SendTo(p, hop, rest) ==
    /\ sent' = [sent EXCEPT ![p] = Append(@, hop)]
    /\ queue' = rest
    /\ UNCHANGED <<overrun, crashed, unanswered>>

\* add_packet_to_cache and send_arp_request.
WaitFor(p, hop, rest) ==
    /\ queue' = Append(rest, [pkt |-> p, forGateway |-> IsGateway(hop), awaits |-> hop])
    /\ unanswered' = [unanswered EXCEPT ![hop] = IF @ < AskCap THEN @ + 1 ELSE @]
    /\ UNCHANGED <<overrun, crashed, sent>>

\* A null entry is dereferenced.
Crash == crashed' = TRUE /\ UNCHANGED <<overrun, queue, sent, unanswered>>

Overrun == overrun' = TRUE /\ UNCHANGED <<crashed, queue, sent, unanswered>>

\* The dead array is read again: somebody seems to have been found, or nobody.
StrayOrWait(p, hop, rest) == SendTo(p, Nowhere, rest) \/ WaitFor(p, hop, rest)

RoutePacket(p, rest) ==
    LET hop == NextHop(p.dst)
    IN  \/ WalkRunsOff(p) /\ Overrun
        \/ /\ ~WalkRunsOff(p)
           /\ \/ Arp!Found(hop) /\ HasRoute(p.dst) /\ SendTo(p, hop, rest)
              \/ Arp!Found(hop) /\ ~HasRoute(p.dst) /\ Crash
              \/ Redirected(p) /\ ~HasGateway /\ Crash
              \/ /\ Redirected(p) /\ HasGateway
                 /\ IF Arp!Found(Gateway) THEN SendTo(p, Gateway, rest)
                                          ELSE WaitFor(p, Gateway, rest)
              \/ /\ ~Arp!Found(hop) /\ ~Redirected(p)
                 /\ IF HasRoute(p.dst) THEN StrayOrWait(p, hop, rest) ELSE Crash

-----------------------------------------------------------------------------
(* sr_handle_icmp_packet.  An echo reply is built in place and swaps the      *)
(* Ethernet addresses, after which sr_send_packet rejects a second answer     *)
(* built from them.                                                          *)

Echoed(p) == p.typeEcho /\ p.ttl > 1

AnswersTo(p, forUs) ==
    IF Echoed(p) THEN {"echoReply"}
    ELSE IF forUs
         THEN IF p.tcpUdp THEN {"portUnreachable"} ELSE {}
         ELSE IF p.ttl <= 1 THEN {"timeExceeded"} ELSE {}

\* One of the router's interfaces has the address.
ForRouter(p) == p.dst \in Own

\* sr_handlepacket_static/_dynamic on an IP packet that is not PWOSPF: for one
\* of our addresses, expired, or in transit.
ReceiveIp(p) ==
    /\ Running /\ Idle
    /\ p \notin arrived
    /\ arrived' = arrived \cup {p}
    /\ \/ /\ ForRouter(p) \/ p.ttl <= 1
          /\ answers' = [answers EXCEPT ![p] = AnswersTo(p, ForRouter(p))]
          /\ UNCHANGED <<overrun, crashed, queue, sent, unanswered>>
       \/ /\ ~ForRouter(p) /\ p.ttl > 1
          /\ RoutePacket(p, queue)
          /\ UNCHANGED answers
    /\ UNCHANGED <<slots, freePos, now, born, lastArp, rt, dynamic, flushFor, current>>

\* Fault: the sender of a request is stored without looking it up.
RequestStoresAlways(ip, mac) ==
    /\ Running /\ Idle
    /\ Arp!StoreAlways(ip, mac, slots)
    /\ lastArp' = now
    /\ UNCHANGED <<now, rt, dynamic, queue, flushFor, current, crashed, arrived, sent,
                   answers, unanswered>>

\* An ARP request for one of our addresses: its sender is cached and gets a reply.
ReceiveArpRequest(ip, mac) ==
    /\ Running /\ Idle
    /\ Arp!LearnFromArp(ip, mac)
    /\ UNCHANGED <<rt, dynamic, queue, flushFor, current, crashed, arrived, sent, answers,
                   unanswered>>

\* An ARP reply, asked for or not: cached, and then the list is walked.
ReceiveArpReply(ip, mac) ==
    /\ Running /\ Idle
    /\ Arp!LearnFromArp(ip, mac)
    /\ unanswered' = [unanswered EXCEPT ![ip] = 0]
    /\ IF queue # << >> THEN flushFor' = ip /\ current' = 1
                        ELSE UNCHANGED <<flushFor, current>>
    /\ UNCHANGED <<rt, dynamic, queue, crashed, arrived, sent, answers>>

\* The cache's part of handleHelloPackets.
ReceiveHello(ip, mac) ==
    /\ Running /\ Idle
    /\ Arp!LearnFromHello(ip, mac)
    /\ UNCHANGED <<rt, dynamic, queue, flushFor, current, crashed, arrived, sent, answers,
                   unanswered>>

\* Fault: any reply releases everything.
ReleasedAll(w) == w.pkt.ttl > 1

\* Fault: a gateway's reply releases nothing but packets for the gateway itself.
ReleasedByAddress(w) == w.pkt.ttl > 1 /\ flushFor = w.pkt.dst

\* send_cached_packet takes out the packets for the sender, and when the sender
\* is a gateway those that wait for any gateway.
Released(w) ==
    /\ w.pkt.ttl > 1
    /\ flushFor = w.pkt.dst \/ (IsGateway(flushFor) /\ w.forGateway)

\* Fault: the packet is routed again but not unlinked.
WithoutNothing(k) == queue

Without(k) == SubSeq(queue, 1, k - 1) \o SubSeq(queue, k + 1, Len(queue))

\* current_packet moves to the next pointer read before the packet is routed
\* again: what that appends behind the last element is not walked.
WalkEnds == current = Len(queue)

\* One turn of the loop of send_cached_packet.
FlushStep ==
    /\ Running /\ ~Idle
    /\ LET w == queue[current]
       IN  \/ /\ Released(w)
              /\ RoutePacket(w.pkt, Without(current))
              /\ current' = IF WalkEnds THEN 0 ELSE current
           \/ /\ ~Released(w)
              /\ current' = IF WalkEnds THEN 0 ELSE current + 1
              /\ UNCHANGED <<overrun, crashed, queue, sent, unanswered>>
    /\ flushFor' = IF WalkEnds THEN ZeroIP ELSE flushFor
    /\ UNCHANGED <<slots, freePos, now, born, lastArp, rt, dynamic, arrived, answers>>

\* populateRoutingTable appends an entry it has learnt.
AddRoute(e) ==
    /\ Running /\ Idle /\ dynamic
    /\ \A i \in DOMAIN rt : rt[i] # e
    /\ rt' = Append(rt, e)
    /\ UNCHANGED <<arpVars, dynamic, queue, flushFor, current, crashed, arrived, sent,
                   answers, unanswered>>

Tick ==
    /\ ~crashed
    /\ Arp!Tick
    /\ UNCHANGED <<rt, dynamic, queue, flushFor, current, crashed, arrived, sent, answers,
                   unanswered>>

Next ==
    \/ \E p \in Packet : ReceiveIp(p)
    \/ \E ip \in DOMAIN MacsOf : \E mac \in MacsOf[ip] :
          ReceiveArpRequest(ip, mac) \/ ReceiveArpReply(ip, mac)
    \/ \E ip \in Neighbors : \E mac \in MacsOf[ip] : ReceiveHello(ip, mac)
    \/ FlushStep
    \/ \E e \in Learnable : AddRoute(e)
    \/ Tick

\* The process goes on with the handler it is in; nothing else is promised.
Fairness == WF_vars(FlushStep)

Spec == Init /\ [][Next]_vars /\ Fairness

-----------------------------------------------------------------------------
(* Properties.                                                               *)

InTransit == {p \in Packet : ~ForRouter(p) /\ p.ttl > 1}

\* How often a packet is in the list or on the wire.
Copies(p) ==
    Len(sent[p]) + Cardinality({i \in DOMAIN queue : queue[i].pkt = p})

Fate(p) ==
    IF Copies(p) = 0
    THEN IF p \notin arrived THEN "unseen"
         ELSE IF answers[p] # {} THEN "answered" ELSE "ignored"
    ELSE IF Copies(p) > 1 THEN "duplicated"
         ELSE IF sent[p] = << >> THEN "waiting"
              ELSE IF sent[p][1] = Nowhere THEN "astray" ELSE "forwarded"

\* Packets whose source some starting table leaves to the default route.
Exposed ==
    {p \in Packet : \E s \in Starts : \A i \in DOMAIN s.rt :
        s.rt[i].default \/ p.src \notin s.rt[i].covers}

\* Seen from one packet, caching it, walking the list while routing appends to
\* it, and taking it out come to: kept once and sent on once, and never to a stray
\* address when the routing table covers its source.
Abstract == INSTANCE Delivery WITH
    Transit <- InTransit, fate <- [p \in Packet |-> Fate(p)], up <- Running

DeliverySpec == Abstract!Spec

\* The handlers use the cache only through its operations.
ArpSpec == Arp!Spec

\* A packet waits only while an ARP request for its hop is unanswered: a reply
\* releases all that waited for it or has them ask again, also those the walk
\* of send_cached_packet moved to the end of the list it is walking.
NoForgottenWaiter ==
    (Idle /\ Running) => \A i \in DOMAIN queue : unanswered[queue[i].awaits] > 0

\* The walk of send_cached_packet ends, unless the record of the replying host
\* expires under it.
FlushEndsWhileKnown ==
    \A ip \in IP : (flushFor = ip) ~> (flushFor # ip \/ ~Running \/ ~Arp!Found(ip))

\* The walk ends: the router comes back to its other packets.
FlushEnds == (~Idle) ~> (Idle \/ ~Running)

\* What takes the process down is a gap in the table: no default route, or a
\* packet for a destination that no entry covers.
CrashNeedsGap ==
    crashed => \/ \A i \in DOMAIN rt : ~IsDefault(rt[i])
               \/ \E p \in arrived \cap InTransit :
                     \A i \in DOMAIN rt : p.dst \notin rt[i].covers
=============================================================================
