-------------------------- MODULE ForwardingProofs --------------------------
(* Proofs about Forwarding: its types, that no packet waits for a reply that   *)
(* has come, what can take the process down, and that seen from one packet the *)
(* router implements Delivery.                                                *)
EXTENDS Forwarding, SharedLemmas, FiniteSetTheorems, TLAPS

\* The cache with its proofs, over the same variables as Arp.
Cache == INSTANCE ArpCacheProofs

-----------------------------------------------------------------------------
(* The routing table.                                                         *)

Hop == IP \cup {ZeroIP}

\* The first position with a property exists when any has it.
LEMMA FirstPosition ==
    ASSUME NEW s \in Seq(RouteEntry), NEW T \in SUBSET (DOMAIN s), T # {}
    PROVE  \E i \in T : \A j \in 1 .. i - 1 : j \notin T
<1>1. T \subseteq Nat
  OBVIOUS
<1>2. PICK i \in T : \A j \in T : i <= j
  BY <1>1, LeastNumber
<1> QED BY <1>1, <1>2

\* RouteFor answers with an entry of the table that covers the address.
LEMMA RouteForFits ==
    ASSUME rt \in Seq(RouteEntry), NEW ip, HasRoute(ip)
    PROVE  \E i \in DOMAIN rt : RouteFor(ip) = rt[i] /\ ip \in rt[i].covers
<1> DEFINE Fits(i) == ~rt[i].default /\ ip \in rt[i].covers
           T == {i \in DOMAIN rt : Fits(i)}
           First(i) == Fits(i) /\ \A j \in 1 .. i - 1 : ~Fits(j)
<1>1. T # {} /\ T \in SUBSET (DOMAIN rt)
  BY DEF HasRoute
<1>2. PICK i \in T : \A j \in 1 .. i - 1 : j \notin T
  <2> HIDE DEF T
  <2> QED BY <1>1, FirstPosition
<1>3. \A j \in 1 .. i - 1 : j \in DOMAIN rt
  BY <1>2
<1>4. i \in DOMAIN rt /\ First(i)
  BY <1>2, <1>3
<1> DEFINE c == CHOOSE k \in DOMAIN rt : First(k)
<1>5. c \in DOMAIN rt /\ First(c)
  <2> HIDE DEF First
  <2> QED BY <1>4
<1>6. RouteFor(ip) = rt[c]
  BY DEF RouteFor
<1> QED BY <1>5, <1>6

\* Gateway answers with the gateway of a default entry.
LEMMA GatewayIsOne ==
    ASSUME rt \in Seq(RouteEntry), HasGateway
    PROVE  Gateway \in IP /\ IsGateway(Gateway)
<1> DEFINE T == {i \in DOMAIN rt : IsDefault(rt[i])}
           First(i) == IsDefault(rt[i]) /\ \A j \in 1 .. i - 1 : ~IsDefault(rt[j])
<1>1. T # {} /\ T \in SUBSET (DOMAIN rt)
  BY DEF HasGateway
<1>2. PICK i \in T : \A j \in 1 .. i - 1 : j \notin T
  <2> HIDE DEF T
  <2> QED BY <1>1, FirstPosition
<1>3. \A j \in 1 .. i - 1 : j \in DOMAIN rt
  BY <1>2
<1>4. i \in DOMAIN rt /\ First(i)
  BY <1>2, <1>3
<1> DEFINE c == CHOOSE k \in DOMAIN rt : First(k)
<1>5. c \in DOMAIN rt /\ First(c)
  <2> HIDE DEF First
  <2> QED BY <1>4
<1>6. Gateway = rt[c].gw
  BY DEF Gateway
<1>7. rt[c] \in RouteEntry /\ rt[c].gw # ZeroIP
  BY <1>5 DEF IsDefault
<1> QED BY <1>5, <1>6, <1>7 DEF IsGateway, RouteEntry

\* The next hop is the destination itself or the gateway of an entry.
LEMMA NextHopIsOne ==
    ASSUME rt \in Seq(RouteEntry), NEW dst \in IP
    PROVE  /\ NextHop(dst) \in Hop
           /\ NextHop(dst) = dst \/ IsGateway(NextHop(dst))
<1>1. CASE HasRoute(dst)
  <2>1. PICK i \in DOMAIN rt : RouteFor(dst) = rt[i]
    BY <1>1, RouteForFits
  <2>2. RouteFor(dst).gw \in Hop /\ IsGateway(RouteFor(dst).gw)
    BY <2>1 DEF Hop, IsGateway, RouteEntry
  <2> QED BY <2>2 DEF NextHop, StaticHop, DynamicHop, Hop
<1>2. CASE ~HasRoute(dst)
  BY <1>2 DEF NextHop, StaticHop, DynamicHop, Hop
<1> QED BY <1>1, <1>2

-----------------------------------------------------------------------------
(* What routing a packet comes to: it is sent on, waits for a hop, or takes    *)
(* the process down over a gap in the table.                                  *)

Gap(p) ==
    \/ \A i \in DOMAIN rt : ~IsDefault(rt[i])
    \/ \A i \in DOMAIN rt : p.dst \notin rt[i].covers

HopOf(p) == {h \in Hop : h = p.dst \/ IsGateway(h)}

\* Where the packet may go: a stray address only if the table does not cover its
\* source.
Target == Hop \cup {Nowhere}

TargetOf(p) == HopOf(p) \cup (IF HasRoute(p.src) THEN {} ELSE {Nowhere})

LEMMA RouteOutcome ==
    ASSUME rt \in Seq(RouteEntry), NEW p \in Packet, NEW rest, RoutePacket(p, rest)
    PROVE  \/ Overrun
           \/ Crash /\ Gap(p)
           \/ \E h \in TargetOf(p) : SendTo(p, h, rest)
           \/ \E h \in HopOf(p) : WaitFor(p, h, rest)
<1>1. p.dst \in IP
  BY ForwardingAssumption DEF PacketType
<1>2. NextHop(p.dst) \in HopOf(p)
  BY <1>1, NextHopIsOne DEF HopOf
<1>3. HasGateway => Gateway \in HopOf(p)
  BY GatewayIsOne DEF HopOf, Hop
<1>4. ~HasRoute(p.dst) => Gap(p)
  <2> SUFFICES ASSUME ~HasRoute(p.dst), NEW i \in DOMAIN rt PROVE p.dst \notin rt[i].covers
    BY DEF Gap
  <2> rt[i] \in RouteEntry
    OBVIOUS
  <2> QED BY DEF HasRoute, RouteEntry
<1>5. ~HasGateway => Gap(p)
  BY DEF HasGateway, Gap
<1>6. CASE \/ WalkRunsOff(p) /\ Overrun
           \/ Arp!Found(NextHop(p.dst)) /\ HasRoute(p.dst) /\ SendTo(p, NextHop(p.dst), rest)
           \/ Arp!Found(NextHop(p.dst)) /\ ~HasRoute(p.dst) /\ Crash
           \/ Redirected(p) /\ ~HasGateway /\ Crash
  BY <1>2, <1>4, <1>5, <1>6, Zenon DEF TargetOf
<1>7. CASE /\ HasGateway
           /\ SendTo(p, Gateway, rest) \/ WaitFor(p, Gateway, rest)
  BY <1>3, <1>7, Zenon DEF TargetOf
<1>8. CASE /\ ~Arp!Found(NextHop(p.dst)) /\ ~Redirected(p)
           /\ IF HasRoute(p.dst) THEN StrayOrWait(p, NextHop(p.dst), rest) ELSE Crash
  <2>1. ~HasRoute(p.src)
    BY <1>8, Zenon DEF Redirected
  <2>2. Nowhere \in TargetOf(p)
    BY <2>1 DEF TargetOf
  <2>3. CASE ~HasRoute(p.dst)
    BY <1>4, <1>8, <2>3, Zenon
  <2>4. CASE HasRoute(p.dst)
    BY <1>2, <1>8, <2>2, <2>4, Zenon DEF StrayOrWait
  <2> QED BY <2>3, <2>4
<1> QED
  BY <1>6, <1>7, <1>8, Zenon DEF RoutePacket

-----------------------------------------------------------------------------
(* The inductive invariant.  That a packet is never kept twice, nor kept and   *)
(* sent, needs both at once; that a reply releases what waited for it needs    *)
(* the reason each element waits for its hop, and where the walk has got to.   *)

LocalTypes ==
    /\ rt \in Seq(RouteEntry) /\ dynamic \in BOOLEAN
    /\ queue \in Seq(Waiting)
    /\ flushFor \in Hop
    /\ current \in 0 .. Len(queue)
    /\ crashed \in BOOLEAN
    /\ arrived \subseteq Packet
    /\ sent \in [Packet -> Seq(Target)]
    /\ answers \in [Packet -> SUBSET Answer]
    /\ unanswered \in [Hop -> 0 .. AskCap]

\* What waits was received, is in transit and was not sent; it waits for itself
\* or, as a gateway's packet, for a gateway; and it waits once.
Orderly(q) ==
    \A i \in DOMAIN q :
        /\ q[i].pkt \in arrived \cap InTransit
        /\ sent[q[i].pkt] = << >>
        /\ \/ q[i].awaits = q[i].pkt.dst
           \/ q[i].forGateway /\ IsGateway(q[i].awaits)
        /\ \A j \in DOMAIN q : q[i].pkt = q[j].pkt => i = j

History ==
    /\ \A p \in Packet : sent[p] # << >> => Len(sent[p]) = 1 /\ p \in arrived \cap InTransit
    /\ \A p \in Packet : answers[p] # {} => p \in arrived \ InTransit

\* An element is asked for, or the walk for its hop has not come to it yet.
Served ==
    \A i \in DOMAIN queue :
        \/ unanswered[queue[i].awaits] > 0
        \/ current # 0 /\ current <= i /\ queue[i].awaits = flushFor

Local ==
    /\ LocalTypes /\ Orderly(queue) /\ History
    /\ Running => Served
    /\ CrashNeedsGap

\* The list without its k-th element.
LEMMA WithoutElements ==
    ASSUME queue \in Seq(Waiting), NEW k \in DOMAIN queue
    PROVE  /\ Without(k) = Drop(queue, k)
           /\ Without(k) \in Seq(Waiting)
           /\ Len(Without(k)) = Len(queue) - 1
           /\ \A i \in 1 .. Len(queue) - 1 :
                 Without(k)[i] = IF i < k THEN queue[i] ELSE queue[i + 1]
<1>1. Without(k) = Drop(queue, k)
  BY DEF Without, Drop
<1> QED BY <1>1, DropElements

\* Taking an element out leaves an orderly list without its packet.
LEMMA WithoutOrderly ==
    ASSUME queue \in Seq(Waiting), Orderly(queue), NEW k \in DOMAIN queue
    PROVE  /\ Orderly(Without(k))
           /\ \A i \in DOMAIN Without(k) : Without(k)[i].pkt # queue[k].pkt
<1> DEFINE r == Without(k)
           old(i) == IF i < k THEN i ELSE i + 1
<1>1. /\ DOMAIN r = 1 .. Len(queue) - 1
      /\ \A i \in DOMAIN r : r[i] = queue[old(i)]
  <2>1. DOMAIN r = 1 .. Len(r)
    BY WithoutElements, LenProperties
  <2> QED BY <2>1, WithoutElements
<1>2. \A i \in 1 .. Len(queue) - 1 : old(i) \in DOMAIN queue /\ old(i) # k
  OBVIOUS
<1>3. \A i, j \in 1 .. Len(queue) - 1 : old(i) = old(j) => i = j
  OBVIOUS
<1> HIDE DEF r, old
<1>4. Orderly(r) /\ \A i \in DOMAIN r : r[i].pkt # queue[k].pkt
  BY <1>1, <1>2, <1>3, SMTT(30) DEF Orderly
<1> QED BY <1>4 DEF r

\* Routing a packet that is neither kept nor sent, from the orderly list "rest".
LEMMA RouteKeeps ==
    ASSUME LocalTypes, Orderly(queue), History,
           NEW p \in Packet, p \in InTransit, sent[p] = << >>,
           NEW rest \in Seq(Waiting), Orderly(rest),
           \A i \in DOMAIN rest : rest[i].pkt # p,
           RoutePacket(p, rest),
           rt' = rt, answers' = answers,
           arrived \subseteq arrived', arrived' \subseteq Packet, p \in arrived'
    PROVE  /\ crashed' \in BOOLEAN
           /\ queue' \in Seq(Waiting)
           /\ sent' \in [Packet -> Seq(Target)]
           /\ unanswered' \in [Hop -> 0 .. AskCap]
           /\ Orderly(queue)'
           /\ History'
           /\ (crashed' # crashed => Gap(p))
           /\ \/ queue' = queue /\ ~Running'
              \/ queue' = rest
              \/ \E w \in Waiting :
                    queue' = Append(rest, w) /\ w.pkt = p /\ unanswered'[w.awaits] > 0
           /\ \A h \in Hop : unanswered[h] > 0 => unanswered'[h] > 0
<1> USE ForwardingAssumption
<1>r. \A h \in Hop : IsGateway(h)' <=> IsGateway(h)
  BY DEF IsGateway
<1>1. ASSUME Overrun \/ Crash
      PROVE  /\ UNCHANGED <<queue, sent, unanswered>>
             /\ crashed' \in BOOLEAN /\ ~Running' /\ (Overrun => crashed' = crashed)
  BY <1>1 DEF Overrun, Crash, LocalTypes, Running
<1>2. CASE Overrun \/ (Crash /\ Gap(p))
  <2>1. Orderly(queue)'
    BY <1>1, <1>2, <1>r DEF Orderly, IsGateway
  <2>2. History'
    BY <1>1, <1>2 DEF History
  <2> QED BY <1>1, <1>2, <2>1, <2>2 DEF LocalTypes
<1>3. ASSUME NEW h \in TargetOf(p), SendTo(p, h, rest)
      PROVE  /\ sent' \in [Packet -> Seq(Target)] /\ Orderly(queue)' /\ History'
  <2>1. h \in Target
    BY DEF HopOf, TargetOf, Target
  <2>2. /\ sent' \in [Packet -> Seq(Target)] /\ Len(sent'[p]) = 1
        /\ \A q \in Packet : q # p => sent'[q] = sent[q]
    BY <1>3, <2>1 DEF SendTo, LocalTypes
  <2>3. Orderly(queue)'
    <3>1. queue' = rest /\ \A i \in DOMAIN rest : sent'[rest[i].pkt] = sent[rest[i].pkt]
      <4>1. \A i \in DOMAIN rest : rest[i] \in Waiting
        OBVIOUS
      <4> QED BY <1>3, <2>2, <4>1 DEF SendTo, Waiting
    <3> QED BY <3>1 DEF Orderly, IsGateway
  <2>4. History'
    BY <2>2 DEF History
  <2> QED BY <2>2, <2>3, <2>4
<1>4. ASSUME NEW h \in HopOf(p), WaitFor(p, h, rest)
      PROVE  /\ unanswered' \in [Hop -> 0 .. AskCap]
             /\ \A g \in Hop : unanswered[g] > 0 => unanswered'[g] > 0
             /\ Orderly(queue)' /\ History'
             /\ \E w \in Waiting :
                   queue' = Append(rest, w) /\ w.pkt = p /\ unanswered'[w.awaits] > 0
  <2> DEFINE w == [pkt |-> p, forGateway |-> IsGateway(h), awaits |-> h]
  <2>1. h \in Hop /\ w \in Waiting
    BY DEF HopOf, Hop, Waiting, IsGateway
  <2>2. /\ unanswered' \in [Hop -> 0 .. AskCap] /\ unanswered'[h] > 0
        /\ \A g \in Hop : unanswered[g] > 0 => unanswered'[g] > 0
    BY <1>4, <2>1, SMTT(30) DEF WaitFor, LocalTypes
  <2>3. History'
    BY <1>4 DEF WaitFor, History
  <2>4. queue' = Append(rest, w)
    BY <1>4 DEF WaitFor
  <2>5. Orderly(queue)'
    <3>1. w.pkt = p /\ (w.awaits = p.dst \/ (w.forGateway /\ IsGateway(w.awaits)))
      BY DEF HopOf
    <3>2. /\ DOMAIN queue' = 1 .. Len(rest) + 1 /\ DOMAIN rest = 1 .. Len(rest)
          /\ \A i \in 1 .. Len(rest) : queue'[i] = rest[i]
          /\ queue'[Len(rest) + 1] = w
      <4> HIDE DEF w
      <4> QED BY <2>1, <2>4, AppendProperties, LenProperties
    <3>3. sent' = sent
      BY <1>4 DEF WaitFor
    <3> HIDE DEF w
    <3>4. ASSUME NEW i \in 1 .. Len(rest) + 1
          PROVE  /\ queue'[i].pkt \in arrived' \cap InTransit
                 /\ sent'[queue'[i].pkt] = << >>
                 /\ \/ queue'[i].awaits = queue'[i].pkt.dst
                    \/ queue'[i].forGateway /\ IsGateway(queue'[i].awaits)
      <4>1. CASE i = Len(rest) + 1
        BY <3>1, <3>2, <3>3, <4>1
      <4>2. CASE i \in 1 .. Len(rest)
        BY <3>2, <3>3, <4>2 DEF Orderly
      <4> QED BY <4>1, <4>2
    <3>5. ASSUME NEW i \in 1 .. Len(rest) + 1, NEW j \in 1 .. Len(rest) + 1,
                 queue'[i].pkt = queue'[j].pkt
          PROVE  i = j
      BY <3>1, <3>2, <3>5 DEF Orderly
    <3> QED BY <3>2, <3>4, <3>5 DEF Orderly, IsGateway
  <2> QED BY <2>1, <2>2, <2>3, <2>4, <2>5
<1>5. ASSUME NEW h \in TargetOf(p), SendTo(p, h, rest)
      PROVE  /\ crashed' = crashed /\ unanswered' = unanswered /\ queue' = rest
             /\ sent' \in [Packet -> Seq(Target)] /\ Orderly(queue)' /\ History'
  BY <1>3, <1>5 DEF SendTo
<1>6. ASSUME NEW h \in HopOf(p), WaitFor(p, h, rest)
      PROVE  crashed' = crashed /\ sent' = sent /\ queue' \in Seq(Waiting)
  BY <1>4, <1>6, AppendProperties DEF WaitFor
<1>7. CASE \E h \in TargetOf(p) : SendTo(p, h, rest)
  BY <1>5, <1>7 DEF LocalTypes
<1>8. CASE \E h \in HopOf(p) : WaitFor(p, h, rest)
  BY <1>4, <1>6, <1>8, Zenon DEF LocalTypes
<1>9. rt \in Seq(RouteEntry)
  BY DEF LocalTypes
<1> QED BY <1>2, <1>7, <1>8, <1>9, RouteOutcome

-----------------------------------------------------------------------------
(* The cache within the router.                                               *)

LEMMA CacheConstants == Cache!CacheAssumption
BY ForwardingAssumption DEF Cache!CacheAssumption

\* The names Arp and Cache give the same operations.
LEMMA SameLearning ==
    ASSUME NEW ip, NEW mac
    PROVE  /\ Arp!LearnFromArp(ip, mac) <=> Cache!LearnFromArp(ip, mac)
           /\ Arp!LearnFromHello(ip, mac) <=> Cache!LearnFromHello(ip, mac)
BY DEF Arp!LearnFromArp, Cache!LearnFromArp, Arp!LearnFromHello, Cache!LearnFromHello,
       Arp!Store, Cache!Store, Arp!Refreshed, Cache!Refreshed, Arp!Examined,
       Cache!Examined, Arp!Found, Cache!Found, Arp!Answer, Cache!Answer, Arp!Answers,
       Cache!Answers, Arp!Passed, Cache!Passed, Arp!Elapsed, Cache!Elapsed,
       Arp!NewRecord, Cache!NewRecord, Arp!Slots, Cache!Slots

\* Every step of the router is one of the cache or leaves its array alone.
LEMMA CacheKept ==
    ASSUME Cache!IInv, [Next]_vars PROVE Cache!IInv'
<1> USE ForwardingAssumption, CacheConstants
<1>1. ASSUME NEW ip \in DOMAIN MacsOf, NEW mac \in MacsOf[ip],
             Arp!LearnFromArp(ip, mac) \/ Arp!LearnFromHello(ip, mac)
      PROVE  Cache!IInv'
  <2>1. ip \in IP /\ mac \in Mac
    OBVIOUS
  <2>2. Cache!Next
    BY <1>1, <2>1, SameLearning DEF Cache!Next
  <2> QED BY <2>2, Cache!NextKeepsIInv
<1>2. ASSUME UNCHANGED <<slots, freePos, now, born, lastArp>>, overrun' \in BOOLEAN
      PROVE  Cache!IInv'
  <2>1. now \in Cache!Time /\ now <= now
    BY DEF Cache!IInv, Cache!TypeOK, Cache!Time
  <2> QED BY <1>2, <2>1, Cache!SlotsUnchanged
<1>3. ASSUME Arp!Tick PROVE Cache!IInv'
  <2>1. Cache!Next
    BY <1>3 DEF Arp!Tick, Cache!Tick, Cache!Next
  <2> QED BY <2>1, Cache!NextKeepsIInv
<1>4. overrun \in BOOLEAN
  BY DEF Cache!IInv, Cache!TypeOK
<1>5. ASSUME NEW p, NEW rest, RoutePacket(p, rest)
      PROVE  overrun' \in BOOLEAN
  BY <1>4, <1>5 DEF RoutePacket, StrayOrWait, Overrun, Crash, SendTo, WaitFor
<1>6. ASSUME NEW p \in Packet, ReceiveIp(p) PROVE Cache!IInv'
  BY <1>2, <1>4, <1>5, <1>6 DEF ReceiveIp
<1>7. ASSUME FlushStep PROVE Cache!IInv'
  BY <1>2, <1>4, <1>5, <1>7 DEF FlushStep
<1>8. CASE UNCHANGED vars
  BY <1>2, <1>4, <1>8 DEF vars, arpVars
<1>9. ASSUME NEW e \in Learnable, AddRoute(e) PROVE Cache!IInv'
  BY <1>2, <1>4, <1>9 DEF AddRoute, arpVars
<1> QED
  BY <1>1, <1>3, <1>6, <1>7, <1>8, <1>9
     DEF Next, ReceiveArpRequest, ReceiveArpReply, ReceiveHello, Tick

-----------------------------------------------------------------------------
(* The steps keep the rest of the invariant.                                  *)

\* A step that touches neither the list nor what it is about.
LEMMA QueueUntouched ==
    ASSUME Local, ~crashed,
           UNCHANGED <<rt, dynamic, queue, flushFor, current, crashed, arrived, sent,
                       answers, unanswered>>,
           Running' => Running
    PROVE  Local'
<1>1. LocalTypes' /\ History' /\ CrashNeedsGap'
  BY DEF Local, LocalTypes, History, CrashNeedsGap
<1>2. Orderly(queue)'
  BY DEF Local, Orderly, IsGateway
<1>3. Running' => Served'
  BY DEF Local, Served
<1> QED BY <1>1, <1>2, <1>3 DEF Local

\* Between two walks everything that waits is asked for.
LEMMA NoneForgottenIdle ==
    ASSUME Local, Running, current = 0
    PROVE  \A i \in DOMAIN queue : queue[i].awaits \in Hop /\ unanswered[queue[i].awaits] > 0
<1>1. Served
  BY DEF Local
<1>2. \A i \in DOMAIN queue : queue[i] \in Waiting
  BY DEF Local, LocalTypes
<1> QED BY <1>1, <1>2 DEF Served, Waiting, Hop

LEMMA ReceiveIpKeeps ==
    ASSUME Local, NEW p \in Packet, ReceiveIp(p) PROVE Local'
<1> USE ForwardingAssumption
<1>0. /\ Running /\ current = 0 /\ p \notin arrived /\ arrived' = arrived \cup {p}
      /\ ~crashed /\ p.ttl \in Nat
      /\ UNCHANGED <<rt, dynamic, flushFor, current>>
  BY DEF ReceiveIp, Idle, Running, PacketType
<1>1. CASE /\ ForRouter(p) \/ p.ttl <= 1
           /\ answers' = [answers EXCEPT ![p] = AnswersTo(p, ForRouter(p))]
           /\ UNCHANGED <<overrun, crashed, queue, sent, unanswered>>
  <2>1. AnswersTo(p, ForRouter(p)) \in SUBSET Answer
    BY DEF AnswersTo, Answer
  <2>2. LocalTypes'
    BY <1>0, <1>1, <2>1 DEF Local, LocalTypes
  <2>3. Orderly(queue)'
    BY <1>0, <1>1 DEF Local, Orderly, IsGateway
  <2>4. p \notin InTransit
    BY <1>0, <1>1 DEF InTransit
  <2>5. History'
    BY <1>0, <1>1, <2>4 DEF Local, LocalTypes, History
  <2>6. (Running' => Served') /\ CrashNeedsGap'
    BY <1>0, <1>1 DEF Local, Served, CrashNeedsGap, Running
  <2> QED BY <2>2, <2>3, <2>5, <2>6 DEF Local
<1>2. CASE /\ ~ForRouter(p) /\ p.ttl > 1
           /\ RoutePacket(p, queue)
           /\ UNCHANGED answers
  <2>1. /\ p \in InTransit /\ sent[p] = << >> /\ queue \in Seq(Waiting)
        /\ \A i \in DOMAIN queue : queue[i].pkt # p
    BY <1>0, <1>2 DEF InTransit, Local, LocalTypes, History, Orderly
  <2>2. /\ crashed' \in BOOLEAN /\ queue' \in Seq(Waiting)
        /\ sent' \in [Packet -> Seq(Target)]
        /\ unanswered' \in [Hop -> 0 .. AskCap]
        /\ Orderly(queue)' /\ History'
        /\ (crashed' # crashed => Gap(p))
        /\ \/ queue' = queue
           \/ \E w \in Waiting :
                 queue' = Append(queue, w) /\ w.pkt = p /\ unanswered'[w.awaits] > 0
        /\ \A h \in Hop : unanswered[h] > 0 => unanswered'[h] > 0
    <3>1. arrived \subseteq arrived' /\ arrived' \subseteq Packet /\ p \in arrived'
      BY <1>0 DEF Local, LocalTypes
    <3> QED BY <1>0, <1>2, <2>1, <3>1, RouteKeeps DEF Local
  <2>3. LocalTypes'
    BY <1>0, <1>2, <2>2 DEF Local, LocalTypes
  <2>4. Served'
    <3>1. \A i \in DOMAIN queue : queue[i].awaits \in Hop /\ unanswered[queue[i].awaits] > 0
      BY <1>0, <2>1, NoneForgottenIdle
    <3>2. CASE queue' = queue
      BY <2>2, <3>1, <3>2 DEF Served
    <3>3. ASSUME NEW w \in Waiting, queue' = Append(queue, w), unanswered'[w.awaits] > 0
          PROVE  Served'
      <4>1. \A i \in 1 .. Len(queue) + 1 :
               queue'[i] = IF i = Len(queue) + 1 THEN w ELSE queue[i]
        BY <2>1, <3>3, AppendProperties
      <4>2. DOMAIN queue' = 1 .. Len(queue) + 1 /\ DOMAIN queue = 1 .. Len(queue)
        BY <2>1, <2>2, <3>3, AppendProperties, LenProperties
      <4>3. ASSUME NEW i \in DOMAIN queue' PROVE unanswered'[queue'[i].awaits] > 0
        <5>1. CASE i = Len(queue) + 1
          BY <3>3, <4>1, <4>2, <5>1
        <5>2. CASE i # Len(queue) + 1
          <6>1. i \in DOMAIN queue /\ queue'[i] = queue[i]
            BY <2>1, <4>1, <4>2, <5>2, LenProperties
          <6> QED BY <2>2, <3>1, <6>1
        <5> QED BY <5>1, <5>2
      <4> QED BY <4>3 DEF Served
    <3> QED BY <2>2, <3>2, <3>3
  <2>5. CrashNeedsGap'
    BY <1>0, <2>1, <2>2 DEF CrashNeedsGap, Gap
  <2> QED BY <2>2, <2>3, <2>4, <2>5 DEF Local
<1> QED BY <1>1, <1>2 DEF ReceiveIp

LEMMA AddRouteKeeps ==
    ASSUME Local, NEW e \in Learnable, AddRoute(e) PROVE Local'
<1>1. /\ rt \in Seq(RouteEntry) /\ rt' \in Seq(RouteEntry)
      /\ DOMAIN rt \subseteq DOMAIN rt' /\ \A i \in DOMAIN rt : rt'[i] = rt[i]
  BY ForwardingAssumption, AppendProperties, LenProperties DEF AddRoute, Local, LocalTypes
<1>2. \A h : IsGateway(h) => IsGateway(h)'
  BY <1>1 DEF IsGateway
<1>3. Orderly(queue)'
  <2>1. sent' = sent /\ arrived' = arrived /\ queue' = queue
    BY DEF AddRoute
  <2>2. ASSUME NEW i \in DOMAIN queue, IsGateway(queue[i].awaits)
        PROVE  IsGateway(queue[i].awaits)'
    BY <1>1, <2>1, <2>2 DEF IsGateway
  <2> QED BY <2>1, <2>2 DEF Local, Orderly
<1>4. LocalTypes' /\ History' /\ CrashNeedsGap' /\ (Running' => Served')
  BY <1>1 DEF AddRoute, Local, LocalTypes, History, CrashNeedsGap, Running, Served, arpVars
<1> QED BY <1>3, <1>4 DEF Local

\* A reply for an address makes the walk answer for all that wait for it.
LEMMA ReplyKeeps ==
    ASSUME Local, NEW ip \in DOMAIN MacsOf, NEW mac \in MacsOf[ip],
           ReceiveArpReply(ip, mac)
    PROVE  Local'
<1> USE ForwardingAssumption
<1>0. /\ ip \in Hop /\ Running /\ current = 0 /\ queue \in Seq(Waiting)
      /\ unanswered' = [unanswered EXCEPT ![ip] = 0]
      /\ UNCHANGED <<rt, dynamic, queue, crashed, arrived, sent, answers>>
  BY DEF ReceiveArpReply, Idle, Hop, Local, LocalTypes
<1>1. \/ queue # << >> /\ flushFor' = ip /\ current' = 1
      \/ queue = << >> /\ UNCHANGED <<flushFor, current>>
  BY DEF ReceiveArpReply
<1>2. LocalTypes'
  BY <1>0, <1>1, EmptySeq, LenProperties DEF Local, LocalTypes
<1>3. Orderly(queue)'
  BY <1>0 DEF Local, Orderly, IsGateway
<1>4. Served'
  <2>1. \A i \in DOMAIN queue : queue[i].awaits \in Hop /\ unanswered[queue[i].awaits] > 0
    BY <1>0, NoneForgottenIdle
  <2> QED BY <1>0, <1>1, <2>1, LenProperties DEF Served, Local, LocalTypes
<1>5. History' /\ CrashNeedsGap'
  BY <1>0 DEF Local, History, CrashNeedsGap, Running
<1> QED BY <1>2, <1>3, <1>4, <1>5 DEF Local

\* What the walk leaves behind does not wait for the reply it answers.
LEMMA FlushStepKeeps ==
    ASSUME Local, FlushStep PROVE Local'
<1> USE ForwardingAssumption
<1> DEFINE k == current
           w == queue[current]
           p == queue[current].pkt
<1>0. /\ Running /\ ~crashed /\ k # 0 /\ k \in DOMAIN queue /\ k \in 1 .. Len(queue)
      /\ queue \in Seq(Waiting) /\ Len(queue) \in Nat /\ Served
      /\ UNCHANGED <<rt, dynamic, arrived, answers>>
  BY LenProperties DEF FlushStep, Idle, Running, Local, LocalTypes
<1>1. /\ w \in Waiting /\ p \in Packet /\ p \in arrived /\ p \in InTransit
      /\ sent[p] = << >>
  <2>1. w \in Waiting
    BY <1>0
  <2>2. Orderly(queue)
    BY DEF Local
  <2> QED BY <1>0, <2>1, <2>2 DEF Waiting, Orderly
<1>2. flushFor' \in Hop
  BY DEF FlushStep, Local, LocalTypes, Hop
<1>3. CASE /\ Released(w)
           /\ RoutePacket(p, Without(k))
           /\ current' = IF WalkEnds THEN 0 ELSE k
  <2> DEFINE rest == Without(k)
  <2>1. /\ rest \in Seq(Waiting) /\ Len(rest) = Len(queue) - 1
        /\ DOMAIN rest = 1 .. Len(queue) - 1
        /\ \A i \in 1 .. Len(queue) - 1 :
              rest[i] = IF i < k THEN queue[i] ELSE queue[i + 1]
    <3>1. DOMAIN rest = 1 .. Len(rest)
      BY <1>0, WithoutElements, LenProperties
    <3> QED BY <1>0, <3>1, WithoutElements
  <2>2. /\ crashed' \in BOOLEAN /\ queue' \in Seq(Waiting)
        /\ sent' \in [Packet -> Seq(Target)]
        /\ unanswered' \in [Hop -> 0 .. AskCap]
        /\ Orderly(queue)' /\ History'
        /\ (crashed' # crashed => Gap(p))
        /\ \/ queue' = queue /\ ~Running'
           \/ queue' = rest
           \/ \E a \in Waiting :
                 queue' = Append(rest, a) /\ a.pkt = p /\ unanswered'[a.awaits] > 0
        /\ \A h \in Hop : unanswered[h] > 0 => unanswered'[h] > 0
    <3>1. Orderly(rest) /\ \A i \in DOMAIN rest : rest[i].pkt # p
      BY <1>0, WithoutOrderly DEF Local
    <3>2. arrived \subseteq arrived' /\ arrived' \subseteq Packet /\ p \in arrived'
      BY <1>0, <1>1 DEF Local, LocalTypes
    <3> HIDE DEF rest
    <3>3. RoutePacket(p, rest)
      BY <1>3 DEF rest
    <3>4. /\ LocalTypes /\ Orderly(queue) /\ History
          /\ p \in Packet /\ p \in InTransit /\ sent[p] = << >>
          /\ rt' = rt /\ answers' = answers
      BY <1>0, <1>1 DEF Local
    <3> HIDE DEF p
    <3> QED BY <2>1, <3>1, <3>2, <3>3, <3>4, RouteKeeps
  <2>3. ASSUME NEW i \in DOMAIN rest
        PROVE  \/ unanswered'[rest[i].awaits] > 0
               \/ current' # 0 /\ current' <= i /\ rest[i].awaits = flushFor'
    <3>1. CASE i < k
      <4>1. rest[i] = queue[i] /\ i \in DOMAIN queue /\ ~(current <= i)
        BY <1>0, <2>1, <3>1
      <4>2. queue[i].awaits \in Hop /\ unanswered[queue[i].awaits] > 0
        <5>1. queue[i] \in Waiting
          BY <1>0, <4>1
        <5> QED BY <1>0, <4>1, <5>1 DEF Served, Waiting, Hop
      <4> QED BY <2>2, <4>1, <4>2
    <3>2. CASE ~(i < k)
      <4>1. rest[i] = queue[i + 1] /\ i + 1 \in DOMAIN queue /\ k <= i /\ ~WalkEnds
        BY <1>0, <2>1, <3>2 DEF WalkEnds
      <4>2. current' = current /\ flushFor' = flushFor
        BY <1>3, <4>1 DEF FlushStep
      <4>3. /\ queue[i + 1].awaits \in Hop
            /\ unanswered[queue[i + 1].awaits] > 0 \/ queue[i + 1].awaits = flushFor
        <5>1. queue[i + 1] \in Waiting
          BY <1>0, <4>1
        <5> QED BY <1>0, <4>1, <5>1 DEF Served, Waiting, Hop
      <4> QED BY <1>0, <2>2, <4>1, <4>2, <4>3
    <3> QED BY <3>1, <3>2
  <2>4. Running' => Served'
    <3>1. CASE queue' = rest
      BY <2>3, <3>1 DEF Served
    <3>2. ASSUME NEW a \in Waiting, queue' = Append(rest, a), unanswered'[a.awaits] > 0
          PROVE  Served'
      <4> HIDE DEF rest
      <4>1. /\ DOMAIN queue' = 1 .. Len(rest) + 1 /\ DOMAIN rest = 1 .. Len(rest)
            /\ queue'[Len(rest) + 1] = a /\ Len(rest) \in Nat
            /\ \A i \in 1 .. Len(rest) : queue'[i] = rest[i]
        BY <2>1, <2>2, <3>2, AppendProperties, LenProperties
      <4>2. ASSUME NEW i \in DOMAIN queue'
            PROVE  \/ unanswered'[queue'[i].awaits] > 0
                   \/ current' # 0 /\ current' <= i /\ queue'[i].awaits = flushFor'
        <5>1. CASE i = Len(rest) + 1
          BY <3>2, <4>1, <5>1
        <5>2. CASE i # Len(rest) + 1
          BY <2>3, <4>1, <5>2
        <5> QED BY <5>1, <5>2
      <4> QED BY <4>2 DEF Served
    <3> QED BY <2>2, <3>1, <3>2
  <2>5. current' \in 0 .. Len(queue')
    <3>1. Len(queue') >= Len(rest)
      BY <1>0, <2>1, <2>2, AppendProperties
    <3> QED BY <1>0, <1>3, <2>1, <2>2, <3>1, LenProperties DEF WalkEnds
  <2>6. LocalTypes'
    BY <1>0, <1>2, <2>2, <2>5 DEF Local, LocalTypes
  <2>7. CrashNeedsGap'
    BY <1>0, <1>1, <2>2 DEF CrashNeedsGap, Gap
  <2> QED BY <2>2, <2>4, <2>6, <2>7 DEF Local
<1>4. CASE /\ ~Released(w)
           /\ current' = IF WalkEnds THEN 0 ELSE k + 1
           /\ UNCHANGED <<overrun, crashed, queue, sent, unanswered>>
  <2>1. LocalTypes'
    BY <1>0, <1>2, <1>4 DEF Local, LocalTypes, WalkEnds
  <2>2. Orderly(queue)'
    BY <1>0, <1>4 DEF Local, Orderly, IsGateway
  <2>3. w.awaits # flushFor
    <3>1. p.ttl > 1 /\ (w.awaits = p.dst \/ (w.forGateway /\ IsGateway(w.awaits)))
      BY <1>0, <1>1 DEF InTransit, Local, Orderly
    <3> QED BY <1>4, <3>1 DEF Released
  <2>4. ASSUME NEW i \in DOMAIN queue
        PROVE  \/ unanswered[queue[i].awaits] > 0
               \/ current' # 0 /\ current' <= i /\ queue[i].awaits = flushFor'
    <3>1. \/ unanswered[queue[i].awaits] > 0
          \/ current <= i /\ queue[i].awaits = flushFor
      BY <1>0 DEF Served
    <3>2. CASE current <= i /\ queue[i].awaits = flushFor
      <4>1. i # k /\ ~WalkEnds
        BY <1>0, <2>3, <3>2 DEF WalkEnds
      <4>2. current' = k + 1 /\ flushFor' = flushFor
        BY <1>4, <4>1 DEF FlushStep
      <4> QED BY <1>0, <3>2, <4>1, <4>2
    <3> QED BY <3>1, <3>2
  <2>5. History' /\ CrashNeedsGap' /\ (Running' => Served')
    BY <1>0, <1>4, <2>4 DEF Local, History, CrashNeedsGap, Running, Served
  <2> QED BY <2>1, <2>2, <2>5 DEF Local
<1> QED BY <1>3, <1>4 DEF FlushStep

-----------------------------------------------------------------------------

LEMMA InitIInv == Init => Cache!IInv /\ Local
<1> SUFFICES ASSUME Init PROVE Cache!IInv /\ Local
  OBVIOUS
<1> USE ForwardingAssumption
<1>1. Cache!IInv
  <2>1. Cache!Init
    BY DEF Init, Arp!Init, Cache!Init, Arp!Slots, Cache!Slots, Arp!Empty, Cache!Empty
  <2> QED BY <2>1, CacheConstants, Cache!InitIInv
<1>2. PICK s \in Starts : rt = s.rt /\ dynamic = s.dynamic
  BY DEF Init
<1>3. rt \in Seq(RouteEntry) /\ dynamic \in BOOLEAN
  <2>1. s \in [rt : Seq(RouteEntry), dynamic : BOOLEAN]
    OBVIOUS
  <2> QED BY <1>2, <2>1
<1>4. DOMAIN queue = {} /\ queue \in Seq(Waiting) /\ Len(queue) = 0
  BY EmptySeq DEF Init
<1>5. LocalTypes
  <2>1. << >> \in Seq(Target) /\ 0 \in 0 .. AskCap /\ {} \in SUBSET Answer
    BY EmptySeq
  <2>2. /\ sent \in [Packet -> Seq(Target)] /\ answers \in [Packet -> SUBSET Answer]
        /\ unanswered \in [Hop -> 0 .. AskCap]
    BY <2>1 DEF Init, Hop
  <2>3. arrived \subseteq Packet /\ crashed \in BOOLEAN
    BY DEF Init
  <2>4. flushFor \in Hop /\ current \in 0 .. Len(queue)
    BY <1>4 DEF Init, Hop
  <2> QED BY <1>3, <1>4, <2>2, <2>3, <2>4 DEF LocalTypes
<1>6. Orderly(queue) /\ Served
  BY <1>4 DEF Orderly, Served
<1>7. History /\ CrashNeedsGap
  BY DEF Init, History, CrashNeedsGap
<1> QED BY <1>1, <1>5, <1>6, <1>7 DEF Local

LEMMA NextKeepsIInv == Cache!IInv /\ Local /\ [Next]_vars => (Cache!IInv /\ Local)'
<1> SUFFICES ASSUME Cache!IInv, Local, [Next]_vars PROVE Cache!IInv' /\ Local'
  OBVIOUS
<1>1. Cache!IInv'
  BY CacheKept
<1>2. ASSUME NEW ip \in DOMAIN MacsOf, NEW mac \in MacsOf[ip], ReceiveArpRequest(ip, mac)
      PROVE  Local'
  BY <1>2, QueueUntouched DEF ReceiveArpRequest, Running
<1>3. ASSUME NEW ip \in Neighbors, NEW mac \in MacsOf[ip], ReceiveHello(ip, mac)
      PROVE  Local'
  BY <1>3, QueueUntouched DEF ReceiveHello, Running
<1>4. CASE Tick
  <2>1. /\ ~crashed /\ overrun' = overrun
        /\ UNCHANGED <<rt, dynamic, queue, flushFor, current, crashed, arrived, sent,
                       answers, unanswered>>
    BY <1>4 DEF Tick, Arp!Tick
  <2>2. Running' => Running
    BY <2>1 DEF Running
  <2> QED BY <1>1, <2>1, <2>2, QueueUntouched
<1>5. CASE UNCHANGED vars
  <2>1. LocalTypes' /\ History' /\ CrashNeedsGap'
    BY <1>5 DEF Local, LocalTypes, History, CrashNeedsGap, vars
  <2>2. Orderly(queue)'
    BY <1>5 DEF Local, Orderly, IsGateway, vars
  <2>3. Running' => Served'
    BY <1>5 DEF Local, Served, Running, vars, arpVars
  <2> QED BY <1>1, <2>1, <2>2, <2>3 DEF Local
<1> QED
  BY <1>1, <1>2, <1>3, <1>4, <1>5, ReceiveIpKeeps, ReplyKeeps, FlushStepKeeps,
     AddRouteKeeps DEF Next

LEMMA Invariance == Spec => [](Cache!IInv /\ Local)
<1> QED BY InitIInv, NextKeepsIInv, PTL DEF Spec

\* The list, the walk over it and the routing table keep their types, with the
\* cache's (head_packet_cache, current_packet, routing_table).
THEOREM TypeCorrect == Spec => []TypeOK
<1>1. Cache!IInv /\ Local => TypeOK
  BY DEF Local, LocalTypes, TypeOK, Hop, Target, Cache!IInv, Cache!TypeOK, Arp!TypeOK,
         Cache!Slots, Arp!Slots, Cache!Time, Arp!Time, Cache!Record, Arp!Record
<1> QED BY <1>1, Invariance, PTL

\* Whatever waits when send_cached_packet is done is asked for: however many
\* packets wait for one hop, and wherever the walk appended them.
THEOREM NobodyForgotten == Spec => []NoForgottenWaiter
<1>1. Local => NoForgottenWaiter
  BY DEF Local, NoForgottenWaiter, Served, Idle
<1> QED BY <1>1, Invariance, PTL

\* The process goes down only over a routing table with a gap.
THEOREM CrashesOverGaps == Spec => []CrashNeedsGap
<1>1. Local => CrashNeedsGap
  BY DEF Local
<1> QED BY <1>1, Invariance, PTL

-----------------------------------------------------------------------------
(* Delivery.  With the invariant a packet has at most one copy, so its fate    *)
(* can be read off without counting.                                          *)

\* Entries are only added: a source that every starting table covers stays covered.
Sheltered == \A p \in Packet : p \notin Exposed => HasRoute(p.src)

LEMMA ShelterStays == Spec => []Sheltered
<1> DEFINE Table == rt \in Seq(RouteEntry) /\ Sheltered
<1>1. Init => Table
  <2> SUFFICES ASSUME Init PROVE Table
    OBVIOUS
  <2>1. PICK s \in Starts : rt = s.rt /\ dynamic = s.dynamic
    BY DEF Init
  <2>2. s \in [rt : Seq(RouteEntry), dynamic : BOOLEAN]
    BY ForwardingAssumption
  <2>3. ASSUME NEW p \in Packet, p \notin Exposed PROVE HasRoute(p.src)
    BY <2>1, <2>3 DEF Exposed, HasRoute
  <2> QED BY <2>1, <2>2, <2>3 DEF Sheltered
<1>2. Table /\ [Next]_vars => Table'
  <2> SUFFICES ASSUME Table, [Next]_vars PROVE Table'
    OBVIOUS
  <2>1. CASE rt' = rt
    BY <2>1 DEF Sheltered, HasRoute
  <2>2. ASSUME NEW e \in Learnable, AddRoute(e) PROVE Table'
    <3>1. /\ rt' \in Seq(RouteEntry) /\ DOMAIN rt \subseteq DOMAIN rt'
          /\ \A i \in DOMAIN rt : rt'[i] = rt[i]
      BY <2>2, ForwardingAssumption, AppendProperties, LenProperties DEF AddRoute
    <3> QED BY <3>1 DEF Sheltered, HasRoute
  <2> QED
    BY <2>1, <2>2 DEF Next, vars, ReceiveIp, ReceiveArpRequest, ReceiveArpReply,
                      ReceiveHello, FlushStep, Tick
<1> QED BY <1>1, <1>2, PTL DEF Spec

Stage(p) ==
    IF Kept(queue, p) THEN "waiting"
    ELSE IF sent[p] # << >> THEN (IF sent[p][1] = Nowhere THEN "astray" ELSE "forwarded")
    ELSE IF p \notin arrived THEN "unseen"
    ELSE IF answers[p] # {} THEN "answered" ELSE "ignored"

FatesAreStages == \A p \in Packet : Fate(p) = Stage(p)

LEMMA LocalFates == Local => FatesAreStages
<1> SUFFICES ASSUME Local, NEW p \in Packet PROVE Fate(p) = Stage(p)
  BY DEF FatesAreStages
<1> DEFINE At == {i \in DOMAIN queue : queue[i].pkt = p}
<1>1. sent[p] \in Seq(Target) /\ (sent[p] # << >> => Len(sent[p]) = 1 /\ p \in arrived)
  BY DEF Local, LocalTypes, History
<1>2. Len(<< >>) = 0
  BY EmptySeq
<1>3. CASE Kept(queue, p)
  <2>1. PICK i \in DOMAIN queue : queue[i].pkt = p
    BY <1>3 DEF Kept
  <2>2. At = {i} /\ sent[p] = << >> /\ p \in arrived
    BY <2>1 DEF Local, Orderly
  <2>3. Cardinality(At) = 1
    BY <2>2, FS_Singleton
  <2>4. Copies(p) = 1
    BY <1>2, <2>2, <2>3 DEF Copies
  <2> QED BY <1>3, <2>2, <2>4 DEF Fate, Stage
<1>4. CASE ~Kept(queue, p)
  <2>1. Cardinality(At) = 0
    <3>1. At = {}
      BY <1>4 DEF Kept
    <3> QED BY <3>1, FS_EmptySet
  <2>2. Copies(p) = Len(sent[p])
    <3>1. Len(sent[p]) \in Nat
      BY <1>1, LenProperties
    <3> QED BY <2>1, <3>1 DEF Copies
  <2>3. CASE sent[p] = << >>
    BY <1>2, <1>4, <2>2, <2>3 DEF Fate, Stage
  <2>4. CASE sent[p] # << >>
    <3>1. Copies(p) = 1
      BY <1>1, <2>2, <2>4
    <3> QED BY <1>4, <2>4, <3>1 DEF Fate, Stage
  <2> QED BY <2>3, <2>4
<1> QED BY <1>3, <1>4

\* What is kept once an element is taken out.
LEMMA KeptWithout ==
    ASSUME queue \in Seq(Waiting), Orderly(queue), NEW k \in DOMAIN queue, NEW p
    PROVE  Kept(Without(k), p) <=> p # queue[k].pkt /\ Kept(queue, p)
<1>1. Once(queue)
  BY DEF Orderly, Once
<1>2. Without(k) = Drop(queue, k)
  BY WithoutElements
<1> QED BY <1>1, <1>2, KeptDrop

Fortune == [p \in Packet |-> Fate(p)]

\* A step that moves no packet on is a stutter, or the process going down.
LEMMA NothingMoves ==
    ASSUME FatesAreStages, FatesAreStages', Running,
           \A q \in Packet : Stage(q)' = Stage(q)
    PROVE  [Abstract!Next]_<<Fortune, Running>>
<1>1. Fortune' = Fortune
  BY DEF Fortune, FatesAreStages
<1>2. CASE ~Running'
  <2>1. Running' = FALSE
    BY <1>2 DEF Running
  <2> QED BY <1>1, <2>1 DEF Abstract!Next, Abstract!Fail, Fortune, Running
<1>3. CASE Running'
  BY <1>1, <1>3 DEF Running
<1> QED BY <1>2, <1>3

\* One packet's stage changes: the map from packets to fates changes there.
LEMMA OneMoves ==
    ASSUME FatesAreStages, FatesAreStages', NEW p \in Packet,
           \A q \in Packet : q # p => Stage(q)' = Stage(q)
    PROVE  Fortune' = [Fortune EXCEPT ![p] = Stage(p)'] /\ Fortune[p] = Stage(p)
BY DEF Fortune, FatesAreStages

\* Routing a packet that was not sent, over the list without it.
LEMMA RouteMoves ==
    ASSUME Local, Sheltered, Running, NEW p \in Packet, NEW rest \in Seq(Waiting),
           sent[p] = << >>,
           \A q : Kept(rest, q) <=> q # p /\ Kept(queue, q),
           RoutePacket(p, rest), answers' = answers, arrived' = arrived \cup {p}
    PROVE  /\ \A q \in Packet : q # p => Stage(q)' = Stage(q)
           /\ \/ ~Running' /\ queue' = queue /\ sent' = sent
              \/ Running' /\ Stage(p)' \in {"waiting"} \cup Abstract!Leaves(p)
<1>1. sent \in [Packet -> Seq(Target)]
  BY DEF Local, LocalTypes
<1>2. CASE Overrun \/ Crash
  <2>1. queue' = queue /\ sent' = sent /\ ~Running'
    BY <1>2 DEF Overrun, Crash, Running
  <2> QED BY <2>1 DEF Stage
<1>3. ASSUME NEW h \in TargetOf(p), SendTo(p, h, rest)
      PROVE  /\ \A q \in Packet : q # p => Stage(q)' = Stage(q)
             /\ Running' /\ Stage(p)' \in Abstract!Leaves(p)
  <2>1. queue' = rest /\ Running' /\ \A q \in Packet : q # p => sent'[q] = sent[q]
    BY <1>1, <1>3 DEF SendTo, Running
  <2>2. sent'[p] # << >> /\ sent'[p][1] = h
    <3>1. sent'[p] = Append(<< >>, h) /\ h \in Target
      BY <1>1, <1>3 DEF SendTo, TargetOf, HopOf, Target
    <3>2. << >> \in Seq(Target) /\ Len(<< >>) = 0
      BY EmptySeq
    <3> QED BY <3>1, <3>2, AppendProperties
  <2>3. ASSUME NEW q \in Packet, q # p PROVE Kept(queue', q) <=> Kept(queue, q)
    BY <2>1, <2>3
  <2>4. ~Kept(queue', p)
    BY <2>1
  <2>5. h = Nowhere => p \in Exposed
    BY ForwardingAssumption DEF TargetOf, HopOf, Hop, Sheltered
  <2>6. Stage(p)' \in Abstract!Leaves(p)
    BY <2>2, <2>4, <2>5 DEF Stage, Abstract!Leaves
  <2> QED BY <2>1, <2>3, <2>6 DEF Stage
<1>4. ASSUME NEW h \in HopOf(p), WaitFor(p, h, rest)
      PROVE  /\ \A q \in Packet : q # p => Stage(q)' = Stage(q)
             /\ Running' /\ Stage(p)' = "waiting"
  <2> DEFINE w == [pkt |-> p, forGateway |-> IsGateway(h), awaits |-> h]
  <2>1. queue' = Append(rest, w) /\ Running' /\ sent' = sent
    BY <1>4 DEF WaitFor, Running
  <2>2. w \in Waiting /\ w.pkt = p
    BY DEF HopOf, Hop, Waiting, IsGateway
  <2> HIDE DEF w
  <2>3. \A q : Kept(queue', q) <=> Kept(rest, q) \/ q = p
    BY <2>1, <2>2, KeptAppend
  <2>4. Kept(queue', p) /\ \A q \in Packet : q # p => (Kept(queue', q) <=> Kept(queue, q))
    BY <2>3
  <2> QED BY <2>1, <2>4 DEF Stage
<1>5. CASE \/ \E h \in TargetOf(p) : SendTo(p, h, rest)
           \/ \E h \in HopOf(p) : WaitFor(p, h, rest)
  BY <1>3, <1>4, <1>5
<1>6. rt \in Seq(RouteEntry)
  BY DEF Local, LocalTypes
<1> QED BY <1>2, <1>5, <1>6, RouteOutcome

LEMMA ReceiveIpDelivers ==
    ASSUME Local, Sheltered, FatesAreStages, FatesAreStages', NEW p \in Packet,
           ReceiveIp(p)
    PROVE  [Abstract!Next]_<<Fortune, Running>>
<1> USE ForwardingAssumption
<1>1. /\ Running /\ p \notin arrived /\ arrived' = arrived \cup {p} /\ p.ttl \in Nat
      /\ sent[p] = << >> /\ answers[p] = {} /\ ~Kept(queue, p)
  BY DEF ReceiveIp, PacketType, Local, LocalTypes, History, Orderly, Kept
<1>2. Stage(p) = "unseen"
  BY <1>1 DEF Stage
<1>3. CASE /\ ForRouter(p) \/ p.ttl <= 1
           /\ answers' = [answers EXCEPT ![p] = AnswersTo(p, ForRouter(p))]
           /\ UNCHANGED <<overrun, crashed, queue, sent, unanswered>>
  <2>1. \A q \in Packet : q # p => Stage(q)' = Stage(q)
    BY <1>1, <1>3 DEF Stage, Local, LocalTypes
  <2>2. p \notin InTransit
    BY <1>1, <1>3 DEF InTransit
  <2>3. Stage(p)' \in {"ignored", "answered"}
    BY <1>1, <1>3 DEF Stage
  <2>4. Running' = Running
    BY <1>3 DEF Running
  <2>5. Abstract!Receive(p)
    BY <1>1, <1>2, <2>1, <2>2, <2>3, <2>4, OneMoves
       DEF Abstract!Receive, Abstract!Fates, Fortune
  <2> QED BY <2>5 DEF Abstract!Next
<1>4. CASE /\ ~ForRouter(p) /\ p.ttl > 1
           /\ RoutePacket(p, queue)
           /\ UNCHANGED answers
  <2>1. /\ \A q \in Packet : q # p => Stage(q)' = Stage(q)
        /\ \/ ~Running' /\ queue' = queue /\ sent' = sent
           \/ Running' /\ Stage(p)' \in {"waiting"} \cup Abstract!Leaves(p)
    <3>1. queue \in Seq(Waiting) /\ \A q : Kept(queue, q) <=> q # p /\ Kept(queue, q)
      BY <1>1 DEF Local, LocalTypes
    <3> QED BY <1>1, <1>4, <3>1, RouteMoves
  <2>2. p \in InTransit
    BY <1>4 DEF InTransit
  <2>3. Fortune' = [Fortune EXCEPT ![p] = Stage(p)'] /\ Fortune[p] = "unseen"
    BY <1>2, <2>1, OneMoves
  <2>4. CASE Running' /\ Stage(p)' \in {"waiting"} \cup Abstract!Leaves(p)
    <3>1. Running' = Running
      BY <1>1, <2>4 DEF Running
    <3>2. Abstract!Receive(p)
      BY <1>1, <2>2, <2>3, <2>4, <3>1 DEF Abstract!Receive, Abstract!Fates, Fortune
    <3> QED BY <3>2 DEF Abstract!Next
  <2>5. CASE ~Running' /\ queue' = queue /\ sent' = sent
    <3>1. Stage(p)' = "ignored"
      BY <1>1, <1>4, <2>5 DEF Stage
    <3>2. Running' = FALSE
      BY <2>5 DEF Running
    <3>3. Abstract!Fail
      BY <1>1, <2>3, <3>1, <3>2 DEF Abstract!Fail, Fortune
    <3> QED BY <3>3 DEF Abstract!Next
  <2> QED BY <2>1, <2>4, <2>5
<1> QED BY <1>3, <1>4 DEF ReceiveIp

LEMMA FlushStepDelivers ==
    ASSUME Local, Sheltered, FatesAreStages, FatesAreStages', FlushStep
    PROVE  [Abstract!Next]_<<Fortune, Running>>
<1> DEFINE k == current
<1>1. /\ Running /\ k \in DOMAIN queue /\ queue \in Seq(Waiting)
      /\ arrived' = arrived /\ answers' = answers
  BY LenProperties DEF FlushStep, Idle, Local, LocalTypes
<1>2. PICK p \in Packet :
         p = queue[k].pkt /\ p \in arrived /\ sent[p] = << >> /\ Kept(queue, p)
  <2>1. queue[k] \in Waiting /\ Orderly(queue)
    BY <1>1 DEF Local
  <2> QED BY <1>1, <2>1 DEF Waiting, Orderly, Kept
<1>3. CASE RoutePacket(p, Without(k))
  <2>1. Without(k) \in Seq(Waiting) /\ \A q : Kept(Without(k), q) <=> q # p /\ Kept(queue, q)
    BY <1>1, <1>2, WithoutElements, KeptWithout DEF Local
  <2>2. /\ \A q \in Packet : q # p => Stage(q)' = Stage(q)
        /\ \/ ~Running' /\ queue' = queue /\ sent' = sent
           \/ Running' /\ Stage(p)' \in {"waiting"} \cup Abstract!Leaves(p)
    <3>1. arrived' = arrived \cup {p}
      BY <1>1, <1>2
    <3> QED BY <1>1, <1>2, <1>3, <2>1, <3>1, RouteMoves
  <2>3. Stage(p) = "waiting"
    BY <1>2 DEF Stage
  <2>4. CASE ~Running' /\ queue' = queue /\ sent' = sent
    <3>1. Stage(p)' = Stage(p)
      BY <1>1, <2>4 DEF Stage
    <3> QED BY <1>1, <2>2, <3>1, NothingMoves
  <2>5. CASE Running' /\ Stage(p)' = "waiting"
    BY <1>1, <2>2, <2>3, <2>5, NothingMoves
  <2>6. CASE Running' /\ Stage(p)' \in Abstract!Leaves(p)
    <3>1. Fortune' = [Fortune EXCEPT ![p] = Stage(p)'] /\ Fortune[p] = "waiting"
      BY <1>2, <2>2, <2>3, <2>6, OneMoves
    <3>2. Running' = Running
      BY <1>1, <2>6 DEF Running
    <3>3. Abstract!SendOn(p)
      BY <1>1, <2>6, <3>1, <3>2 DEF Abstract!SendOn, Fortune
    <3> QED BY <1>2, <3>3 DEF Abstract!Next
  <2> QED BY <2>2, <2>4, <2>5, <2>6
<1>4. CASE UNCHANGED <<overrun, crashed, queue, sent, unanswered>>
  BY <1>1, <1>4, NothingMoves DEF Stage
<1> QED BY <1>2, <1>3, <1>4 DEF FlushStep

\* Seen from one packet, the cache, the table, the list and the walk over it do
\* what Delivery says: kept once and sent on once, never to a stray address when the
\* starting tables cover its source (sr_route_packet, add_packet_to_cache and
\* send_cached_packet together, with any byte in the array read again).
THEOREM RouterDelivers == Spec => DeliverySpec
<1>1. Init => Abstract!Init
  <2> SUFFICES ASSUME Init PROVE Abstract!Init
    OBVIOUS
  <2>1. Local /\ Running
    BY InitIInv DEF Init, Arp!Init, Running
  <2>2. ASSUME NEW p \in Packet PROVE Fate(p) = "unseen"
    <3>1. Stage(p) = "unseen"
      BY EmptySeq DEF Init, Stage, Kept
    <3> QED BY <2>1, <3>1, LocalFates DEF FatesAreStages
  <2> QED BY <2>1, <2>2 DEF Abstract!Init, Running
<1>2. Local' => FatesAreStages'
  BY LocalFates, PTL
<1>3. Local /\ Local' /\ Sheltered /\ [Next]_vars => [Abstract!Next]_<<Fortune, Running>>
  <2> SUFFICES ASSUME Local, Local', Sheltered, [Next]_vars
               PROVE  [Abstract!Next]_<<Fortune, Running>>
    OBVIOUS
  <2>0. FatesAreStages /\ FatesAreStages'
    BY <1>2, LocalFates
  <2>1. ASSUME Running, UNCHANGED <<queue, arrived, sent, answers>>
        PROVE  [Abstract!Next]_<<Fortune, Running>>
    BY <2>0, <2>1, NothingMoves DEF Stage
  <2>2. CASE UNCHANGED vars
    BY <2>0, <2>2 DEF vars, arpVars, Fortune, FatesAreStages, Stage, Running
  <2>3. ASSUME Tick PROVE [Abstract!Next]_<<Fortune, Running>>
    BY <2>1, <2>3 DEF Tick, Arp!Tick, Running
  <2>4. ASSUME NEW e \in Learnable, AddRoute(e)
        PROVE  [Abstract!Next]_<<Fortune, Running>>
    BY <2>1, <2>4 DEF AddRoute
  <2>5. ASSUME NEW ip, NEW mac,
               \/ ReceiveArpRequest(ip, mac) \/ ReceiveArpReply(ip, mac)
               \/ ReceiveHello(ip, mac)
        PROVE  [Abstract!Next]_<<Fortune, Running>>
    BY <2>1, <2>5 DEF ReceiveArpRequest, ReceiveArpReply, ReceiveHello
  <2> QED
    BY <2>0, <2>2, <2>3, <2>4, <2>5, ReceiveIpDelivers, FlushStepDelivers DEF Next
<1>4. [Abstract!Next]_<<Fortune, Running>>
        <=> [Abstract!Next]_<<[p \in Packet |-> Fate(p)], Running>>
  BY DEF Fortune
<1> QED
  BY <1>1, <1>3, <1>4, Invariance, ShelterStays, PTL
     DEF Spec, DeliverySpec, Abstract!Spec

-----------------------------------------------------------------------------
(* The cache again.  A static table may leave a gateway out, and the walk then *)
(* looks for 0.0.0.0, which ArpCache does not know as an address: the theorem  *)
(* is about tables that name one in every entry, as the shipped ones do.      *)

GatewaysNamed == \A s \in Starts : s.dynamic \/ \A i \in DOMAIN s.rt : s.rt[i].gw # ZeroIP

Named == rt \in Seq(RouteEntry) /\ (dynamic \/ \A i \in DOMAIN rt : rt[i].gw # ZeroIP)

LEMMA HopsAreAddresses ==
    ASSUME Named, ZeroIP \notin IP, NEW p \in Packet
    PROVE  NextHop(p.dst) \in IP
<1>1. p.dst \in IP
  BY ForwardingAssumption DEF PacketType
<1>2. CASE HasRoute(p.dst)
  <2>1. PICK i \in DOMAIN rt : RouteFor(p.dst) = rt[i]
    BY <1>2, RouteForFits DEF Named
  <2>2. rt[i] \in RouteEntry
    BY DEF Named
  <2> QED BY <1>1, <2>1, <2>2 DEF Named, RouteEntry, NextHop, StaticHop, DynamicHop
<1>3. CASE ~HasRoute(p.dst)
  BY <1>1, <1>3 DEF NextHop, StaticHop, DynamicHop
<1> QED BY <1>2, <1>3

\* A lookup on the way of a packet is a lookup of the cache.
LEMMA RouteLooksUp ==
    ASSUME Named, ZeroIP \notin IP, NEW p \in Packet, NEW rest, RoutePacket(p, rest),
           ~overrun, UNCHANGED <<slots, freePos, now, born, lastArp>>
    PROVE  [Arp!Next]_arpVars
<1>1. CASE overrun' = overrun
  BY <1>1 DEF arpVars
<1>2. CASE overrun' # overrun
  <2>1. WalkRunsOff(p) /\ overrun' = TRUE
    BY <1>2 DEF RoutePacket, StrayOrWait, Overrun, Crash, SendTo, WaitFor
  <2>2. PICK ip \in IP : Arp!RunsOff(ip)
    BY <2>1, HopsAreAddresses, GatewayIsOne DEF WalkRunsOff, Named
  <2> QED BY <2>1, <2>2 DEF Arp!Next, Arp!LookupRunsOff
<1> QED BY <1>1, <1>2

\* The router uses its ARP cache only through the cache's operations: what is
\* proved of ArpCache (BornApart, StaleNeedsArp) holds inside the router.
THEOREM CacheImplemented ==
    ASSUME GatewaysNamed, ZeroIP \notin IP PROVE Spec => ArpSpec
<1> USE ForwardingAssumption
<1>1. Init => Named /\ Arp!Init
  <2> SUFFICES ASSUME Init PROVE Named
    BY DEF Init
  <2>1. PICK s \in Starts : rt = s.rt /\ dynamic = s.dynamic
    BY DEF Init
  <2>2. s \in [rt : Seq(RouteEntry), dynamic : BOOLEAN]
    OBVIOUS
  <2> QED BY <2>1, <2>2 DEF GatewaysNamed, Named
<1>2. Named /\ [Next]_vars => Named'
  <2> SUFFICES ASSUME Named, [Next]_vars PROVE Named'
    OBVIOUS
  <2>1. CASE UNCHANGED <<rt, dynamic>>
    BY <2>1 DEF Named
  <2>2. ASSUME NEW e \in Learnable, AddRoute(e) PROVE Named'
    BY <2>2 DEF AddRoute, Named
  <2> QED
    BY <2>1, <2>2 DEF Next, vars, ReceiveIp, ReceiveArpRequest, ReceiveArpReply,
                      ReceiveHello, FlushStep, Tick
<1>3. Named /\ Local /\ [Next]_vars => [Arp!Next]_arpVars
  <2> SUFFICES ASSUME Named, Local, [Next]_vars PROVE [Arp!Next]_arpVars
    OBVIOUS
  <2>1. ASSUME NEW p \in Packet, ReceiveIp(p) PROVE [Arp!Next]_arpVars
    BY <2>1, RouteLooksUp DEF ReceiveIp, Running, arpVars
  <2>2. ASSUME FlushStep PROVE [Arp!Next]_arpVars
    <3>1. queue[current].pkt \in Packet /\ ~overrun
      <4>1. current \in DOMAIN queue /\ queue \in Seq(Waiting)
        BY <2>2, LenProperties DEF FlushStep, Idle, Local, LocalTypes
      <4>2. queue[current] \in Waiting
        BY <4>1
      <4> QED BY <2>2, <4>2 DEF FlushStep, Running, Waiting
    <3>2. UNCHANGED <<slots, freePos, now, born, lastArp>>
      BY <2>2 DEF FlushStep
    <3>3. CASE UNCHANGED overrun
      BY <3>2, <3>3 DEF arpVars
    <3>4. CASE RoutePacket(queue[current].pkt, Without(current))
      BY <3>1, <3>2, <3>4, RouteLooksUp
    <3> QED BY <2>2, <3>3, <3>4 DEF FlushStep
  <2>3. ASSUME NEW ip \in DOMAIN MacsOf, NEW mac \in MacsOf[ip],
               Arp!LearnFromArp(ip, mac) \/ Arp!LearnFromHello(ip, mac)
        PROVE  [Arp!Next]_arpVars
    <3>1. ip \in IP /\ mac \in Mac
      OBVIOUS
    <3> QED BY <2>3, <3>1 DEF Arp!Next
  <2>4. CASE Arp!Tick
    BY <2>4 DEF Arp!Next
  <2>5. CASE UNCHANGED arpVars
    BY <2>5
  <2> QED
    BY <2>1, <2>2, <2>3, <2>4, <2>5
       DEF Next, ReceiveArpRequest, ReceiveArpReply, ReceiveHello, AddRoute, Tick, vars
<1>4. Named /\ Local /\ [Next]_vars => [Arp!Next]_(Arp!vars)
  BY <1>3 DEF arpVars, Arp!vars
<1> QED
  BY <1>1, <1>2, <1>4, Invariance, PTL DEF Spec, ArpSpec, Arp!Spec
=============================================================================
