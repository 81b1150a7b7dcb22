------------------------ MODULE StubForwardingProofs ------------------------
(* Proofs about StubForwarding: whatever the dead array makes of a packet, its *)
(* copies are paid for by its TTL, nobody is forgotten in the list, and packets *)
(* from elsewhere are delivered as Delivery says.                            *)
EXTENDS StubForwarding, SharedLemmas, FiniteSetTheorems, TLAPS

\* The cache with its proofs, over the same variables as Arp.
Cache == INSTANCE ArpCacheProofs

-----------------------------------------------------------------------------
(* What routing a packet comes to: n copies are sent, and then the packet is   *)
(* done with or put on the list; or the process goes down.                     *)

Hop == IP \cup {Nowhere}

\* n copies more of p, each with a TTL one less.
Grows(p, ttl, n) ==
    /\ sent' \in [Packet -> Seq(Copy)]
    /\ \A q \in Packet : q # p => sent'[q] = sent[q]
    /\ Len(sent'[p]) = Len(sent[p]) + n
    /\ \A k \in 1 .. Len(sent[p]) : sent'[p][k] = sent[p][k]
    /\ \A k \in 1 .. n : sent'[p][Len(sent[p]) + k].ttl = ttl - k

Goes(p, ttl, rest) ==
    /\ queue' = rest /\ UNCHANGED <<unanswered, overrun, crashed>>
    /\ \E n \in 1 .. 2 :
          /\ Grows(p, ttl, n)
          /\ \A k \in 1 .. n : sent'[p][Len(sent[p]) + k].to = Nowhere => k = n
          /\ ~IsLocal(p.src) => n = 1

Stays(p, ttl, rest) ==
    /\ UNCHANGED <<overrun, crashed>>
    /\ \E n \in 0 .. 1, hop \in IP :
          /\ Grows(p, ttl, n)
          /\ \A k \in 1 .. n : sent'[p][Len(sent[p]) + k].to # Nowhere
          /\ ~IsLocal(p.src) => n = 0
          /\ hop = p.dst \/ IsGateway(hop)
          /\ Wait(p, ttl - n, hop, rest)

Halts(p) ==
    /\ UNCHANGED <<queue, sent, unanswered>>
    /\ \/ overrun' = TRUE /\ UNCHANGED crashed
       \/ crashed' = TRUE /\ UNCHANGED overrun /\ NoEntry(p)

LEMMA SendGrows ==
    ASSUME sent \in [Packet -> Seq(Copy)], NEW p \in Packet, NEW ttl \in Nat,
           NEW hops \in Seq(Hop), Len(hops) <= ttl, Send(p, ttl, hops)
    PROVE  /\ Grows(p, ttl, Len(hops))
           /\ \A k \in 1 .. Len(hops) : sent'[p][Len(sent[p]) + k].to = hops[k]
<1> DEFINE new == [k \in DOMAIN hops |-> [to |-> hops[k], ttl |-> ttl - k]]
<1>1. Len(hops) \in Nat /\ DOMAIN hops = 1 .. Len(hops) /\ sent[p] \in Seq(Copy)
  BY LenProperties
<1>2. new \in Seq(Copy) /\ Len(new) = Len(hops)
  <2>1. ASSUME NEW k \in 1 .. Len(hops) PROVE new[k] \in Copy
    <3>1. hops[k] \in Hop /\ ttl - k \in Nat
      BY <1>1
    <3> QED BY <1>1, <3>1 DEF Copy, Hop
  <2>2. new = [k \in 1 .. Len(hops) |-> new[k]]
    BY <1>1
  <2> HIDE DEF new
  <2>3. new \in [1 .. Len(hops) -> Copy]
    BY <2>1, <2>2
  <2> QED BY <1>1, <2>3, SeqDef
<1>3. \A k \in 1 .. Len(hops) : new[k].to = hops[k] /\ new[k].ttl = ttl - k
  BY <1>1
<1>4. sent' = [sent EXCEPT ![p] = @ \o new]
  BY DEF Send
<1> HIDE DEF new
<1>5. sent'[p] = sent[p] \o new /\ \A q \in Packet : q # p => sent'[q] = sent[q]
  BY <1>4
<1>6. /\ sent[p] \o new \in Seq(Copy)
      /\ Len(sent[p] \o new) = Len(sent[p]) + Len(hops)
      /\ \A i \in 1 .. Len(sent[p]) + Len(hops) :
            (sent[p] \o new)[i] =
                IF i <= Len(sent[p]) THEN sent[p][i] ELSE new[i - Len(sent[p])]
  <2>1. /\ sent[p] \o new \in Seq(Copy)
        /\ Len(sent[p] \o new) = Len(sent[p]) + Len(new)
        /\ \A i \in 1 .. Len(sent[p]) + Len(new) :
              (sent[p] \o new)[i] =
                  IF i <= Len(sent[p]) THEN sent[p][i] ELSE new[i - Len(sent[p])]
    BY <1>1, <1>2, ConcatProperties
  <2> QED BY <1>2, <2>1
<1>7. sent' \in [Packet -> Seq(Copy)]
  BY <1>4, <1>6
<1>8. /\ \A k \in 1 .. Len(sent[p]) : sent'[p][k] = sent[p][k]
      /\ \A k \in 1 .. Len(hops) : sent'[p][Len(sent[p]) + k] = new[k]
  <2>1. Len(sent[p]) \in Nat
    BY <1>1, LenProperties
  <2>2. ASSUME NEW k \in 1 .. Len(sent[p]) PROVE sent'[p][k] = sent[p][k]
    BY <1>1, <1>5, <1>6, <2>1
  <2>3. ASSUME NEW k \in 1 .. Len(hops) PROVE sent'[p][Len(sent[p]) + k] = new[k]
    <3> DEFINE i == Len(sent[p]) + k
    <3>1. i \in 1 .. Len(sent[p]) + Len(hops) /\ ~(i <= Len(sent[p])) /\ i - Len(sent[p]) = k
      BY <1>1, <2>1
    <3> HIDE DEF i
    <3>2. sent'[p][i] = new[k]
      BY <1>5, <1>6, <3>1
    <3> QED BY <3>2 DEF i
  <2> QED BY <2>2, <2>3
<1> QED BY <1>3, <1>5, <1>6, <1>7, <1>8 DEF Grows

LEMMA SendNoneGrows ==
    ASSUME sent \in [Packet -> Seq(Copy)], NEW p \in Packet, NEW ttl, sent' = sent
    PROVE  Grows(p, ttl, 0)
BY LenProperties DEF Grows

LEMMA RouteOutcome ==
    ASSUME routes \in Starts, sent \in [Packet -> Seq(Copy)],
           NEW p \in Packet, NEW ttl \in Nat, ttl > 1, NEW rest,
           RoutePacket(p, ttl, rest)
    PROVE  Halts(p) \/ Goes(p, ttl, rest) \/ Stays(p, ttl, rest)
<1> USE StubForwardingAssumption
<1>1. p.dst \in IP /\ p.dst # Nowhere
  BY DEF PacketType, Nowhere
<1>2. ASSUME Outbound(p), ~NoEntry(p)
      PROVE  /\ routes.default \in IP /\ routes.default # Nowhere
             /\ IsGateway(routes.default) /\ IsLocal(p.src)
  <2>1. routes \in Routes /\ routes.default # ZeroIP
    BY <1>2 DEF NoEntry, HasGateway
  <2> QED BY <1>2, <2>1 DEF Routes, Nowhere, IsGateway, Outbound
<1>3. ASSUME NEW h \in Hop, Send(p, ttl, <<h>>)
      PROVE  Grows(p, ttl, 1) /\ sent'[p][Len(sent[p]) + 1].to = h
  <2> DEFINE hops == <<h>>
  <2>1. hops \in Seq(Hop) /\ Len(hops) = 1 /\ hops[1] = h
    OBVIOUS
  <2>2. Send(p, ttl, hops)
    BY <1>3
  <2> HIDE DEF hops
  <2>3. /\ Grows(p, ttl, Len(hops))
        /\ \A k \in 1 .. Len(hops) : sent'[p][Len(sent[p]) + k].to = hops[k]
    <3>1. Len(hops) <= ttl
      BY <2>1
    <3> QED BY <2>1, <2>2, <3>1, SendGrows, Zenon
  <2> QED BY <2>1, <2>3
<1>4. ASSUME NEW h \in Hop, NEW g \in Hop, Send(p, ttl, <<h, g>>)
      PROVE  Grows(p, ttl, 2) /\ sent'[p][Len(sent[p]) + 1].to = h
  <2> DEFINE hops == <<h, g>>
  <2>1. hops \in Seq(Hop) /\ Len(hops) = 2 /\ hops[1] = h
    OBVIOUS
  <2>2. Send(p, ttl, hops)
    BY <1>4
  <2> HIDE DEF hops
  <2>3. /\ Grows(p, ttl, Len(hops))
        /\ \A k \in 1 .. Len(hops) : sent'[p][Len(sent[p]) + k].to = hops[k]
    <3>1. Len(hops) <= ttl
      BY <2>1
    <3> QED BY <2>1, <2>2, <3>1, SendGrows, Zenon
  <2> QED BY <2>1, <2>3
<1>5. ASSUME NEW h \in Hop, Send(p, ttl, <<h>>), queue' = rest,
             UNCHANGED <<unanswered, overrun, crashed>>
      PROVE  Goes(p, ttl, rest)
  BY <1>3, <1>5 DEF Goes
<1>6. ASSUME Outbound(p), ~NoEntry(p), ToGateway(p, ttl, rest), UNCHANGED <<overrun, crashed>>
      PROVE  Goes(p, ttl, rest) \/ Stays(p, ttl, rest)
  <2>1. routes.default \in Hop /\ Nowhere \in Hop
    BY <1>2, <1>6 DEF Hop
  <2>2. CASE Send(p, ttl, <<routes.default, Nowhere>>) /\ queue' = rest /\ UNCHANGED unanswered
    <3>1. Grows(p, ttl, 2) /\ sent'[p][Len(sent[p]) + 1].to # Nowhere
      BY <1>2, <1>4, <1>6, <2>1, <2>2
    <3>2. \A k \in 1 .. 2 : sent'[p][Len(sent[p]) + k].to = Nowhere => k = 2
      BY <3>1
    <3> QED BY <1>2, <1>6, <2>2, <3>1, <3>2 DEF Goes
  <2>3. CASE Send(p, ttl, <<routes.default>>) /\ Wait(p, ttl - 1, routes.default, rest)
    <3>1. Grows(p, ttl, 1) /\ sent'[p][Len(sent[p]) + 1].to # Nowhere
      BY <1>2, <1>3, <1>6, <2>1, <2>3
    <3> QED BY <1>2, <1>6, <2>3, <3>1 DEF Stays
  <2> QED BY <1>6, <2>2, <2>3 DEF ToGateway
<1>7. ASSUME NEW hop \in IP, hop = p.dst \/ IsGateway(hop), Wait(p, ttl, hop, rest),
             UNCHANGED <<sent, overrun, crashed>>
      PROVE  Stays(p, ttl, rest)
  <2>1. Grows(p, ttl, 0) /\ ttl - 0 = ttl
    BY <1>7, SendNoneGrows
  <2> QED BY <1>7, <2>1 DEF Stays
<1>8. ASSUME ToUnknown(p, ttl, rest), UNCHANGED <<overrun, crashed>>
      PROVE  Goes(p, ttl, rest) \/ Stays(p, ttl, rest)
  BY <1>1, <1>5, <1>7, <1>8 DEF ToUnknown, Hop
<1>9. p.dst \in Hop
  BY <1>1 DEF Hop
<1> QED
  BY <1>2, <1>5, <1>6, <1>7, <1>8, <1>9 DEF RoutePacket, Halts

-----------------------------------------------------------------------------
(* The inductive invariant.  What is kept is tied to what was sent of it, or a *)
(* packet could come back with its TTL restored; where the walk has got to     *)
(* says which elements a reply has not released yet; and the cache holds only   *)
(* hosts that have spoken.                                                    *)

LocalTypes ==
    /\ routes \in Starts
    /\ queue \in Seq(Waiting)
    /\ flushFor \in IP \cup {ZeroIP}
    /\ current \in 0 .. Len(queue)
    /\ crashed \in BOOLEAN
    /\ arrived \subseteq Packet
    /\ sent \in [Packet -> Seq(Copy)]
    /\ answers \in [Packet -> SUBSET Answer]
    /\ unanswered \in [IP -> 0 .. AskCap]

\* An element of the list has paid for the copies of its packet, none of which was
\* stray, and waits for its destination or, as a gateway's packet, for a gateway.
Owed(w) ==
    /\ w.pkt \in arrived \cap InTransit
    /\ w.ttl = w.pkt.ttl - Len(sent[w.pkt]) /\ w.ttl >= 1
    /\ \A k \in DOMAIN sent[w.pkt] : sent[w.pkt][k].to # Nowhere
    /\ ~IsLocal(w.pkt.src) => Len(sent[w.pkt]) = 0
    /\ w.awaits = w.pkt.dst \/ (w.forGateway /\ IsGateway(w.awaits))

Orderly(q) == Once(q) /\ \A i \in DOMAIN q : Owed(q[i])

History ==
    \A p \in Packet :
        /\ Len(sent[p]) > 0 => p \in arrived \cap InTransit
        /\ \A k \in DOMAIN sent[p] :
              /\ sent[p][k].ttl = p.ttl - k
              /\ sent[p][k].to = Nowhere => k = Len(sent[p])
        /\ ~IsLocal(p.src) => Len(sent[p]) <= 1
        /\ answers[p] # {} => p \in arrived \ InTransit

\* An element is asked for, or spent, or the walk for its hop has not come to it.
Served ==
    \A i \in DOMAIN queue :
        \/ unanswered[queue[i].awaits] > 0
        \/ queue[i].ttl <= 1
        \/ current # 0 /\ current <= i /\ queue[i].awaits = flushFor

Told == \A j \in Cache!Slots : slots[j].valid => slots[j].ip \in DOMAIN MacsOf

Router ==
    /\ LocalTypes /\ Orderly(queue) /\ History
    /\ Running => Served
    /\ Told
    /\ CrashNeedsStranger

\* The list without its k-th element.
LEMMA WithoutElements ==
    ASSUME queue \in Seq(Waiting), Orderly(queue), NEW k \in DOMAIN queue
    PROVE  /\ Without(k) \in Seq(Waiting)
           /\ Len(Without(k)) = Len(queue) - 1
           /\ DOMAIN Without(k) = 1 .. Len(queue) - 1
           /\ \A i \in 1 .. Len(queue) - 1 :
                 Without(k)[i] = IF i < k THEN queue[i] ELSE queue[i + 1]
           /\ Orderly(Without(k))
           /\ \A i \in DOMAIN Without(k) : Without(k)[i].pkt # queue[k].pkt
           /\ \A p : Kept(Without(k), p) <=> p # queue[k].pkt /\ Kept(queue, p)
<1> DEFINE r == Without(k)
<1>1. r = Drop(queue, k) /\ Once(queue)
  BY DEF Without, Drop, Orderly
<1>2. /\ r \in Seq(Waiting) /\ Len(r) = Len(queue) - 1
      /\ \A i \in 1 .. Len(queue) - 1 : r[i] = IF i < k THEN queue[i] ELSE queue[i + 1]
  BY <1>1, DropElements
<1>3. Once(r) /\ \A i \in DOMAIN r : r[i].pkt # queue[k].pkt
  BY <1>1, DropOnce
<1>4. \A p : Kept(r, p) <=> p # queue[k].pkt /\ Kept(queue, p)
  BY <1>1, KeptDrop
<1>5. /\ DOMAIN r = 1 .. Len(queue) - 1 /\ DOMAIN queue = 1 .. Len(queue)
      /\ Len(queue) \in Nat
  BY <1>2, LenProperties
<1>6. ASSUME NEW i \in DOMAIN r PROVE Owed(r[i])
  <2>1. i \in DOMAIN queue /\ i + 1 \in DOMAIN queue
    BY <1>5
  <2> HIDE DEF r
  <2>2. r[i] = queue[i] \/ r[i] = queue[i + 1]
    BY <1>2, <1>5
  <2> QED BY <2>1, <2>2 DEF Orderly
<1> HIDE DEF r
<1>7. Orderly(r)
  BY <1>3, <1>6 DEF Orderly
<1> QED BY <1>2, <1>3, <1>4, <1>5, <1>7 DEF r

\* What waits does not notice the copies of another packet.
LEMMA OthersOwed ==
    ASSUME NEW p \in Packet, NEW w \in Waiting, w.pkt # p, Owed(w),
           \A q \in Packet : q # p => sent'[q] = sent[q],
           routes' = routes, arrived \subseteq arrived'
    PROVE  Owed(w)'
<1>1. w.pkt \in Packet /\ sent'[w.pkt] = sent[w.pkt]
  BY DEF Waiting
<1> QED BY <1>1 DEF Owed, IsGateway

LEMMA HistoryGrows ==
    ASSUME LocalTypes, History,
           NEW p \in Packet, p \in InTransit, NEW ttl \in Nat, NEW n \in 0 .. 2,
           ttl = p.ttl - Len(sent[p]),
           \A k \in DOMAIN sent[p] : sent[p][k].to # Nowhere,
           ~IsLocal(p.src) => Len(sent[p]) = 0 /\ n <= 1,
           Grows(p, ttl, n),
           \A k \in 1 .. n : sent'[p][Len(sent[p]) + k].to = Nowhere => k = n,
           answers' = answers, arrived \subseteq arrived', p \in arrived'
    PROVE  History'
<1> USE StubForwardingAssumption
<1> DEFINE m == Len(sent[p])
<1>1. /\ m \in Nat /\ DOMAIN sent[p] = 1 .. m /\ p.ttl \in Nat
      /\ Len(sent'[p]) = m + n /\ DOMAIN sent'[p] = 1 .. m + n
  <2>1. sent[p] \in Seq(Copy) /\ sent'[p] \in Seq(Copy) /\ Len(sent'[p]) = m + n
    BY DEF LocalTypes, Grows
  <2> HIDE DEF m
  <2>2. Len(sent[p]) \in Nat /\ DOMAIN sent[p] = 1 .. Len(sent[p])
        /\ DOMAIN sent'[p] = 1 .. Len(sent'[p])
    BY <2>1, LenProperties
  <2> QED BY <2>1, <2>2 DEF PacketType, m
<1>2. \A q \in Packet : q # p => sent'[q] = sent[q]
  BY DEF Grows
<1>3. ASSUME NEW k \in 1 .. m + n
      PROVE  /\ sent'[p][k].ttl = p.ttl - k
             /\ sent'[p][k].to = Nowhere => k = m + n
  <2>1. CASE k <= m
    <3>1. sent'[p][k] = sent[p][k] /\ k \in DOMAIN sent[p]
      BY <1>1, <2>1 DEF Grows
    <3> QED BY <3>1 DEF History
  <2>2. CASE ~(k <= m)
    <3>1. \A j \in 1 .. n : sent'[p][m + j].ttl = ttl - j
      BY DEF Grows
    <3>2. \A j \in 1 .. n : sent'[p][m + j].to = Nowhere => j = n
      OBVIOUS
    <3> HIDE DEF m
    <3>3. PICK j \in 1 .. n : k = m + j
      <4>1. k - m \in 1 .. n /\ k = m + (k - m)
        BY <1>1, <2>2, SMTT(30)
      <4> QED BY <4>1
    <3>4. ttl = p.ttl - m
      BY DEF m
    <3>5. ttl - j = p.ttl - (m + j)
      BY <1>1, <3>4
    <3> QED BY <3>1, <3>2, <3>3, <3>5
  <2> QED BY <2>1, <2>2
<1>4. ASSUME NEW q \in Packet, q # p
      PROVE  /\ Len(sent'[q]) > 0 => q \in arrived' \cap InTransit
             /\ \A k \in DOMAIN sent'[q] :
                   /\ sent'[q][k].ttl = q.ttl - k
                   /\ sent'[q][k].to = Nowhere => k = Len(sent'[q])
             /\ ~IsLocal(q.src) => Len(sent'[q]) <= 1
             /\ answers'[q] # {} => q \in arrived' \ InTransit
  BY <1>2, <1>4 DEF History
<1>5. /\ Len(sent'[p]) > 0 => p \in arrived' \cap InTransit
      /\ ~IsLocal(p.src) => Len(sent'[p]) <= 1
      /\ answers'[p] # {} => p \in arrived' \ InTransit
  <2>1. answers'[p] = {}
    BY DEF History
  <2> HIDE DEF m
  <2>2. ~IsLocal(p.src) => m = 0 /\ n <= 1
    BY DEF m
  <2> QED BY <1>1, <2>1, <2>2
<1> QED BY <1>1, <1>3, <1>4, <1>5 DEF History

\* Routing a packet that has not been sent astray, over the orderly list "rest".
LEMMA RouteKeeps ==
    ASSUME LocalTypes, Orderly(queue), History,
           NEW p \in Packet, p \in InTransit, NEW ttl \in Nat, ttl > 1,
           ttl = p.ttl - Len(sent[p]),
           \A k \in DOMAIN sent[p] : sent[p][k].to # Nowhere,
           ~IsLocal(p.src) => Len(sent[p]) = 0,
           NEW rest \in Seq(Waiting), Orderly(rest),
           \A i \in DOMAIN rest : rest[i].pkt # p,
           RoutePacket(p, ttl, rest),
           routes' = routes, answers' = answers,
           arrived \subseteq arrived', arrived' \subseteq Packet, p \in arrived',
           crashed \in BOOLEAN
    PROVE  /\ crashed' \in BOOLEAN
           /\ queue' \in Seq(Waiting)
           /\ sent' \in [Packet -> Seq(Copy)]
           /\ unanswered' \in [IP -> 0 .. AskCap]
           /\ Orderly(queue)'
           /\ History'
           /\ (crashed' # crashed => NoEntry(p))
           /\ \/ queue' = queue /\ ~Running'
              \/ queue' = rest
              \/ \E w \in Waiting :
                    queue' = Append(rest, w) /\ w.pkt = p /\ unanswered'[w.awaits] > 0
           /\ \A h \in IP : unanswered[h] > 0 => unanswered'[h] > 0
<1> USE StubForwardingAssumption
<1>0. /\ routes \in Starts /\ sent \in [Packet -> Seq(Copy)] /\ unanswered \in [IP -> 0 .. AskCap]
      /\ p.ttl \in Nat /\ p.dst \in IP /\ Len(sent[p]) \in Nat
  BY LenProperties DEF LocalTypes, PacketType
<1>1. CASE Halts(p)
  <2>1. Orderly(queue)' /\ History'
    BY <1>1 DEF Halts, Orderly, Owed, IsGateway, History
  <2> QED BY <1>1, <2>1 DEF Halts, Running, LocalTypes
<1>2. ASSUME NEW n \in 0 .. 2, Grows(p, ttl, n)
      PROVE  \A i \in DOMAIN rest : Owed(rest[i])'
  <2> SUFFICES ASSUME NEW i \in DOMAIN rest PROVE Owed(rest[i])'
    OBVIOUS
  <2>1. rest[i] \in Waiting /\ Owed(rest[i]) /\ rest[i].pkt # p
    BY DEF Orderly
  <2>2. \A q \in Packet : q # p => sent'[q] = sent[q]
    BY <1>2 DEF Grows
  <2> QED BY <2>1, <2>2, OthersOwed
<1>3. CASE Goes(p, ttl, rest)
  <2>1. PICK n \in 1 .. 2 :
           /\ Grows(p, ttl, n)
           /\ \A k \in 1 .. n : sent'[p][Len(sent[p]) + k].to = Nowhere => k = n
           /\ ~IsLocal(p.src) => n = 1
    BY <1>3 DEF Goes
  <2>2. History'
    <3>1. n \in 0 .. 2 /\ (~IsLocal(p.src) => Len(sent[p]) = 0 /\ n <= 1)
      BY <2>1
    <3> QED BY <2>1, <3>1, HistoryGrows, Zenon
  <2>3. Orderly(queue)'
    <3>1. queue' = rest /\ \A i \in DOMAIN rest : Owed(rest[i])'
      BY <1>2, <1>3, <2>1 DEF Goes
    <3> QED BY <3>1 DEF Orderly, Once, Owed, IsGateway
  <2> QED BY <1>0, <1>3, <2>1, <2>2, <2>3 DEF Goes, Grows
<1>4. CASE Stays(p, ttl, rest)
  <2>1. PICK n \in 0 .. 1, hop \in IP :
           /\ Grows(p, ttl, n)
           /\ \A k \in 1 .. n : sent'[p][Len(sent[p]) + k].to # Nowhere
           /\ ~IsLocal(p.src) => n = 0
           /\ hop = p.dst \/ IsGateway(hop)
           /\ Wait(p, ttl - n, hop, rest)
    BY <1>4 DEF Stays
  <2>2. History'
    BY <2>1, HistoryGrows
  <2>3. /\ unanswered' \in [IP -> 0 .. AskCap] /\ unanswered'[hop] > 0
        /\ \A h \in IP : unanswered[h] > 0 => unanswered'[h] > 0
    BY <1>0, <2>1, SMTT(30) DEF Wait
  <2>4. PICK w : w = [pkt |-> p, ttl |-> ttl - n, forGateway |-> IsGateway(hop),
                      awaits |-> hop]
    OBVIOUS
  <2>5. w \in Waiting /\ queue' = Append(rest, w)
    BY <2>1, <2>4 DEF Waiting, IsGateway, Wait
  <2>6. Owed(w)'
    <3>1. /\ sent'[p] \in Seq(Copy) /\ Len(sent'[p]) = Len(sent[p]) + n
          /\ \A k \in 1 .. Len(sent[p]) : sent'[p][k] = sent[p][k]
      BY <2>1 DEF Grows
    <3>2. \A k \in DOMAIN sent'[p] : sent'[p][k].to # Nowhere
      <4>1. DOMAIN sent'[p] = 1 .. Len(sent[p]) + n /\ DOMAIN sent[p] = 1 .. Len(sent[p])
        BY <1>0, <3>1, LenProperties
      <4>2. ASSUME NEW k \in 1 .. Len(sent[p]) + n PROVE sent'[p][k].to # Nowhere
        <5>1. CASE k <= Len(sent[p])
          <6>1. k \in DOMAIN sent[p] /\ sent'[p][k] = sent[p][k]
            BY <1>0, <3>1, <4>1, <5>1
          <6> QED BY <6>1
        <5>2. CASE ~(k <= Len(sent[p]))
          <6>1. n = 1 /\ k = Len(sent[p]) + 1
            BY <1>0, <5>2
          <6> QED BY <2>1, <6>1
        <5> QED BY <5>1, <5>2
      <4> QED BY <4>1, <4>2
    <3>3. /\ ttl - n = p.ttl - Len(sent'[p]) /\ ttl - n >= 1
          /\ ~IsLocal(p.src) => Len(sent'[p]) = 0
      <4>1. Len(sent'[p]) = Len(sent[p]) + n /\ (~IsLocal(p.src) => n = 0)
        BY <2>1, <3>1
      <4>2. \A a, b, c \in Nat : ttl = a - b /\ c = b + n => ttl - n = a - c
        BY <2>1
      <4>3. ttl - n = p.ttl - Len(sent'[p])
        BY <1>0, <3>1, <4>1, <4>2, LenProperties, SMTT(30)
      <4>4. ttl - n >= 1
        BY <2>1
      <4>5. ~IsLocal(p.src) => Len(sent'[p]) = 0
        BY <1>0, <4>1
      <4> QED BY <4>3, <4>4, <4>5
    <3>4. hop = p.dst \/ (IsGateway(hop) /\ IsGateway(hop)')
      BY <2>1 DEF IsGateway
    <3> QED BY <2>4, <3>2, <3>3, <3>4 DEF Owed, IsGateway
  <2>7. w.pkt = p /\ w.awaits = hop
    BY <2>4
  <2>8. /\ DOMAIN queue' = 1 .. Len(rest) + 1 /\ DOMAIN rest = 1 .. Len(rest)
        /\ \A i \in 1 .. Len(rest) : queue'[i] = rest[i]
        /\ queue'[Len(rest) + 1] = w /\ queue' \in Seq(Waiting) /\ Len(rest) \in Nat
    BY <2>5, AppendProperties, LenProperties
  <2>9. Orderly(queue)'
    <3>1. \A i \in DOMAIN rest : Owed(rest[i])'
      BY <1>2, <2>1
    <3>2. \A i, j \in DOMAIN queue' : queue'[i].pkt = queue'[j].pkt => i = j
      BY <2>7, <2>8, SMTT(30) DEF Orderly, Once
    <3>3. ASSUME NEW i \in DOMAIN queue' PROVE Owed(queue[i])'
      <4>1. CASE i \in 1 .. Len(rest)
        <5>1. queue'[i] = rest[i] /\ Owed(rest[i])'
          BY <2>8, <3>1, <4>1
        <5> QED BY <5>1 DEF Owed, IsGateway
      <4>2. CASE i = Len(rest) + 1
        <5>1. queue'[i] = w
          BY <2>8, <4>2
        <5> QED BY <2>6, <5>1 DEF Owed, IsGateway
      <4> QED BY <2>8, <4>1, <4>2
    <3> QED BY <3>2, <3>3 DEF Orderly, Once
  <2>10. sent' \in [Packet -> Seq(Copy)] /\ crashed' = crashed
    BY <1>4, <2>1 DEF Grows, Stays
  <2> QED BY <2>2, <2>3, <2>4, <2>5, <2>7, <2>8, <2>9, <2>10
<1> QED BY <1>0, <1>1, <1>3, <1>4, RouteOutcome

-----------------------------------------------------------------------------
(* The cache within the router.                                               *)

LEMMA CacheConstants == Cache!CacheAssumption
BY StubForwardingAssumption DEF Cache!CacheAssumption

\* The names Arp and Cache give the same operation.
LEMMA SameLearning ==
    ASSUME NEW ip, NEW mac
    PROVE  Arp!LearnFromArp(ip, mac) <=> Cache!LearnFromArp(ip, mac)
BY DEF Arp!LearnFromArp, Cache!LearnFromArp, Arp!Store, Cache!Store, Arp!Refreshed,
       Cache!Refreshed, Arp!Examined, Cache!Examined, Arp!Found, Cache!Found,
       Arp!Answer, Cache!Answer, Arp!Answers, Cache!Answers, Arp!Passed, Cache!Passed,
       Arp!Elapsed, Cache!Elapsed, Arp!NewRecord, Cache!NewRecord, Arp!Slots, Cache!Slots

\* Every step of the router is one of the cache or leaves its array alone.
LEMMA CacheKept ==
    ASSUME Cache!IInv, [Next]_vars PROVE Cache!IInv'
<1> USE StubForwardingAssumption, CacheConstants
<1>1. ASSUME NEW ip \in DOMAIN MacsOf, NEW mac \in MacsOf[ip], Arp!LearnFromArp(ip, mac)
      PROVE  Cache!IInv'
  <2>1. ip \in IP /\ mac \in Mac
    OBVIOUS
  <2>2. Cache!Next
    BY <1>1, <2>1, SameLearning DEF Cache!Next
  <2> QED BY <2>2, Cache!NextKeepsIInv
<1>2. ASSUME UNCHANGED <<slots, freePos, now, born, lastArp>>, overrun' \in BOOLEAN
      PROVE  Cache!IInv'
  <2>1. now \in Cache!Time /\ now <= now
    BY DEF Cache!IInv, Cache!TypeOK, Cache!Time
  <2> QED BY <1>2, <2>1, Cache!SlotsUnchanged
<1>3. ASSUME Arp!Tick PROVE Cache!IInv'
  <2>1. Cache!Next
    BY <1>3 DEF Arp!Tick, Cache!Tick, Cache!Next
  <2> QED BY <2>1, Cache!NextKeepsIInv
<1>4. overrun \in BOOLEAN
  BY DEF Cache!IInv, Cache!TypeOK
<1>5. ASSUME NEW p, NEW ttl, NEW rest, RoutePacket(p, ttl, rest)
      PROVE  overrun' \in BOOLEAN
  BY <1>4, <1>5 DEF RoutePacket
<1>6. ASSUME NEW p \in Packet, ReceiveIp(p) PROVE Cache!IInv'
  BY <1>2, <1>4, <1>5, <1>6 DEF ReceiveIp
<1>7. ASSUME FlushStep PROVE Cache!IInv'
  BY <1>2, <1>4, <1>5, <1>7 DEF FlushStep
<1>8. CASE UNCHANGED vars
  BY <1>2, <1>4, <1>8 DEF vars, arpVars
<1> QED
  BY <1>1, <1>3, <1>6, <1>7, <1>8
     DEF Next, ReceiveArpRequest, ReceiveArpReply, CacheSender, Tick

\* Only hosts that spoke are recorded.
LEMMA ToldKept ==
    ASSUME Cache!IInv, Told, NEW ip \in DOMAIN MacsOf, NEW mac \in MacsOf[ip],
           CacheSender(ip, mac)
    PROVE  Told'
<1> USE CacheConstants
<1>1. PICK walked : Cache!Walked(walked, now) /\ Cache!Store(ip, mac, walked)
  BY SameLearning, Cache!RefreshedIsWalked DEF CacheSender, Cache!LearnFromArp, Cache!IInv
<1>2. ASSUME NEW j \in Cache!Slots, slots'[j].valid PROVE slots'[j].ip \in DOMAIN MacsOf
  <2>1. \/ slots'[j] = slots[j] \/ slots'[j] = walked[j]
        \/ slots'[j] = Cache!NewRecord(ip, mac)
    BY <1>1 DEF Cache!Store, Cache!Walked
  <2>2. Cache!NewRecord(ip, mac).ip = ip
    BY DEF Cache!NewRecord
  <2>3. walked[j].valid = slots[j].valid /\ walked[j].ip = slots[j].ip
    BY <1>1 DEF Cache!Walked
  <2> QED BY <1>2, <2>1, <2>2, <2>3 DEF Told
<1> QED BY <1>2 DEF Told, Cache!Slots

LEMMA CrashIsStrange ==
    ASSUME Told, NEW p \in Packet, NoEntry(p)
    PROVE  /\ ~IsLocal(p.dst) \/ ~HasGateway
           /\ IsLocal(p.src) /\ HasGateway => p.dst \in DOMAIN MacsOf
<1>1. CASE Outbound(p)
  BY <1>1 DEF NoEntry
<1>2. CASE ~Outbound(p)
  <2>1. ASSUME Known(p.dst) PROVE p.dst \in DOMAIN MacsOf
    BY <2>1 DEF Told, Known, Arp!Found, Arp!Answer, Arp!Answers, Arp!Slots, Cache!Slots
  <2> QED BY <1>2, <2>1 DEF NoEntry, Outbound
<1> QED BY <1>1, <1>2

-----------------------------------------------------------------------------
(* The steps keep the rest of the invariant.                                  *)

\* A step that touches neither the list nor what it is about.
LEMMA QueueUntouched ==
    ASSUME Router, Told', ~crashed,
           UNCHANGED <<routes, queue, flushFor, current, crashed, arrived, sent,
                       answers, unanswered>>,
           Running' => Running
    PROVE  Router'
<1>1. LocalTypes' /\ History' /\ CrashNeedsStranger'
  BY DEF Router, LocalTypes, History, CrashNeedsStranger
<1>2. Orderly(queue)'
  BY DEF Router, Orderly, Owed, IsGateway
<1>3. Running' => Served'
  BY DEF Router, Served
<1> QED BY <1>1, <1>2, <1>3 DEF Router

\* Between two walks everything that waits is asked for or spent.
LEMMA NoneForgottenIdle ==
    ASSUME Router, Running, current = 0
    PROVE  \A i \in DOMAIN queue :
              queue[i].awaits \in IP /\ (unanswered[queue[i].awaits] > 0 \/ queue[i].ttl <= 1)
<1>1. Served
  BY DEF Router
<1>2. \A i \in DOMAIN queue : queue[i] \in Waiting
  BY DEF Router, LocalTypes
<1> QED BY <1>1, <1>2 DEF Served, Waiting

LEMMA ReceiveIpKeeps ==
    ASSUME Router, NEW p \in Packet, ReceiveIp(p) PROVE Router'
<1> USE StubForwardingAssumption
<1>0. /\ Running /\ current = 0 /\ p \notin arrived /\ arrived' = arrived \cup {p}
      /\ ~crashed /\ p.ttl \in Nat
      /\ UNCHANGED <<slots, routes, flushFor, current>>
  BY DEF ReceiveIp, Idle, Running, PacketType
<1>t. Told'
  BY <1>0 DEF Router, Told
<1>1. CASE /\ ForRouter(p) \/ p.ttl <= 1
           /\ answers' = [answers EXCEPT ![p] = AnswersTo(p)]
           /\ UNCHANGED <<overrun, crashed, queue, sent, unanswered>>
  <2>1. AnswersTo(p) \in SUBSET Answer
    BY DEF AnswersTo, Answer
  <2>2. LocalTypes'
    BY <1>0, <1>1, <2>1 DEF Router, LocalTypes
  <2>3. Orderly(queue)'
    BY <1>0, <1>1 DEF Router, Orderly, Owed, IsGateway
  <2>4. p \notin InTransit
    BY <1>0, <1>1 DEF InTransit
  <2>5. History'
    BY <1>0, <1>1, <2>4 DEF Router, LocalTypes, History
  <2>6. (Running' => Served') /\ CrashNeedsStranger'
    BY <1>0, <1>1 DEF Router, Served, CrashNeedsStranger, Running
  <2> QED BY <1>t, <2>2, <2>3, <2>5, <2>6 DEF Router
<1>2. CASE /\ ~ForRouter(p) /\ p.ttl > 1
           /\ RoutePacket(p, p.ttl, queue)
           /\ UNCHANGED answers
  <2>1. /\ p \in InTransit /\ Len(sent[p]) = 0 /\ DOMAIN sent[p] = {}
        /\ queue \in Seq(Waiting) /\ \A i \in DOMAIN queue : queue[i].pkt # p
    <3>1. Len(sent[p]) \in Nat /\ DOMAIN sent[p] = 1 .. Len(sent[p])
      BY LenProperties DEF Router, LocalTypes
    <3>2. ~(Len(sent[p]) > 0)
      BY <1>0 DEF Router, History
    <3>3. \A i \in DOMAIN queue : queue[i].pkt # p
      BY <1>0 DEF Router, Orderly, Owed
    <3> QED BY <1>2, <3>1, <3>2, <3>3 DEF InTransit, Router, LocalTypes
  <2>2. /\ crashed' \in BOOLEAN /\ queue' \in Seq(Waiting)
        /\ sent' \in [Packet -> Seq(Copy)]
        /\ unanswered' \in [IP -> 0 .. AskCap]
        /\ Orderly(queue)' /\ History'
        /\ (crashed' # crashed => NoEntry(p))
        /\ \/ queue' = queue /\ ~Running'
           \/ queue' = queue
           \/ \E w \in Waiting :
                 queue' = Append(queue, w) /\ w.pkt = p /\ unanswered'[w.awaits] > 0
        /\ \A h \in IP : unanswered[h] > 0 => unanswered'[h] > 0
    <3>1. arrived \subseteq arrived' /\ arrived' \subseteq Packet /\ p \in arrived'
      BY <1>0 DEF Router, LocalTypes
    <3>2. LocalTypes /\ Orderly(queue) /\ History /\ crashed \in BOOLEAN
      BY DEF Router, LocalTypes
    <3>3. p.ttl = p.ttl - Len(sent[p])
      BY <1>0, <2>1
    <3>4. \A k \in DOMAIN sent[p] : sent[p][k].to # Nowhere
      BY <2>1
    <3>5. p.ttl > 1 /\ routes' = routes /\ answers' = answers
          /\ RoutePacket(p, p.ttl, queue) /\ (~IsLocal(p.src) => Len(sent[p]) = 0)
      BY <1>0, <1>2, <2>1
    <3> QED BY <1>0, <2>1, <3>1, <3>2, <3>3, <3>4, <3>5, RouteKeeps
  <2>3. LocalTypes'
    BY <1>0, <1>2, <2>2 DEF Router, LocalTypes
  <2>4. Served'
    <3>1. \A i \in DOMAIN queue :
             queue[i].awaits \in IP /\ (unanswered[queue[i].awaits] > 0 \/ queue[i].ttl <= 1)
      BY <1>0, <2>1, NoneForgottenIdle
    <3>2. CASE queue' = queue
      BY <2>2, <3>1, <3>2 DEF Served
    <3>3. ASSUME NEW w \in Waiting, queue' = Append(queue, w), unanswered'[w.awaits] > 0
          PROVE  Served'
      <4>1. \A i \in 1 .. Len(queue) + 1 :
               queue'[i] = IF i = Len(queue) + 1 THEN w ELSE queue[i]
        BY <2>1, <3>3, AppendProperties
      <4>2. DOMAIN queue' = 1 .. Len(queue) + 1 /\ DOMAIN queue = 1 .. Len(queue)
        BY <2>1, <2>2, <3>3, AppendProperties, LenProperties
      <4>3. ASSUME NEW i \in DOMAIN queue'
            PROVE  unanswered'[queue'[i].awaits] > 0 \/ queue'[i].ttl <= 1
        <5>1. CASE i = Len(queue) + 1
          BY <3>3, <4>1, <4>2, <5>1
        <5>2. CASE i # Len(queue) + 1
          <6>1. i \in DOMAIN queue /\ queue'[i] = queue[i]
            BY <2>1, <4>1, <4>2, <5>2, LenProperties
          <6> QED BY <2>2, <3>1, <6>1
        <5> QED BY <5>1, <5>2
      <4> QED BY <4>3 DEF Served
    <3> QED BY <2>2, <3>2, <3>3
  <2>5. CrashNeedsStranger'
    <3>1. ASSUME crashed' PROVE crashed' # crashed
      BY <1>0, <3>1
    <3>2. crashed' => /\ ~IsLocal(p.dst) \/ ~HasGateway
                      /\ IsLocal(p.src) /\ HasGateway => p.dst \in DOMAIN MacsOf
      BY <2>2, <3>1, CrashIsStrange DEF Router
    <3> QED BY <1>0, <2>1, <3>2 DEF CrashNeedsStranger, HasGateway
  <2> QED BY <1>t, <2>2, <2>3, <2>4, <2>5 DEF Router
<1> QED BY <1>0, <1>1, <1>2 DEF ReceiveIp

\* A reply for an address makes the walk answer for all that wait for it.
LEMMA ReplyKeeps ==
    ASSUME Router, Told', NEW ip \in DOMAIN MacsOf, NEW mac \in MacsOf[ip],
           ReceiveArpReply(ip, mac)
    PROVE  Router'
<1> USE StubForwardingAssumption
<1>0. /\ ip \in IP /\ Running /\ current = 0 /\ queue \in Seq(Waiting)
      /\ unanswered' = [unanswered EXCEPT ![ip] = 0]
      /\ UNCHANGED <<routes, queue, crashed, arrived, sent, answers>>
  BY DEF ReceiveArpReply, Idle, Router, LocalTypes
<1>1. \/ queue # << >> /\ flushFor' = ip /\ current' = 1
      \/ queue = << >> /\ UNCHANGED <<flushFor, current>>
  BY DEF ReceiveArpReply
<1>2. LocalTypes'
  BY <1>0, <1>1, EmptySeq, LenProperties DEF Router, LocalTypes
<1>3. Orderly(queue)'
  BY <1>0 DEF Router, Orderly, Owed, IsGateway
<1>4. Served'
  <2>1. \A i \in DOMAIN queue :
           queue[i].awaits \in IP /\ (unanswered[queue[i].awaits] > 0 \/ queue[i].ttl <= 1)
    BY <1>0, NoneForgottenIdle
  <2> QED BY <1>0, <1>1, <2>1, LenProperties DEF Served, Router, LocalTypes
<1>5. History' /\ CrashNeedsStranger'
  BY <1>0 DEF Router, History, CrashNeedsStranger, Running
<1> QED BY <1>2, <1>3, <1>4, <1>5 DEF Router

\* What the walk leaves behind does not wait for the reply it answers, or is spent.
LEMMA FlushStepKeeps ==
    ASSUME Router, FlushStep PROVE Router'
<1> USE StubForwardingAssumption
<1> DEFINE k == current
           w == queue[current]
           p == queue[current].pkt
<1>0. /\ Running /\ ~crashed /\ k # 0 /\ k \in DOMAIN queue /\ k \in 1 .. Len(queue)
      /\ queue \in Seq(Waiting) /\ Len(queue) \in Nat /\ Served
      /\ UNCHANGED <<slots, routes, arrived, answers>>
  BY LenProperties DEF FlushStep, Idle, Running, Router, LocalTypes
<1>t. Told'
  BY <1>0 DEF Router, Told
<1>1. /\ w \in Waiting /\ p \in Packet /\ p \in arrived /\ p \in InTransit /\ Owed(w)
      /\ w.ttl \in Nat
  <2>1. w \in Waiting
    BY <1>0
  <2>2. Owed(w)
    BY <1>0 DEF Router, Orderly
  <2> QED BY <1>0, <2>1, <2>2 DEF Waiting, Owed
<1>2. flushFor' \in IP \cup {ZeroIP}
  BY DEF FlushStep, Router, LocalTypes
<1>3. CASE /\ Released(w)
           /\ RoutePacket(p, w.ttl, Without(k))
           /\ current' = IF WalkEnds THEN 0 ELSE k
  <2> DEFINE rest == Without(k)
  <2>1. /\ rest \in Seq(Waiting) /\ Len(rest) = Len(queue) - 1
        /\ DOMAIN rest = 1 .. Len(queue) - 1
        /\ \A i \in 1 .. Len(queue) - 1 :
              rest[i] = IF i < k THEN queue[i] ELSE queue[i + 1]
        /\ Orderly(rest) /\ \A i \in DOMAIN rest : rest[i].pkt # p
    BY <1>0, WithoutElements DEF Router
  <2>2. /\ crashed' \in BOOLEAN /\ queue' \in Seq(Waiting)
        /\ sent' \in [Packet -> Seq(Copy)]
        /\ unanswered' \in [IP -> 0 .. AskCap]
        /\ Orderly(queue)' /\ History'
        /\ (crashed' # crashed => NoEntry(p))
        /\ \/ queue' = queue /\ ~Running'
           \/ queue' = rest
           \/ \E a \in Waiting :
                 queue' = Append(rest, a) /\ a.pkt = p /\ unanswered'[a.awaits] > 0
        /\ \A h \in IP : unanswered[h] > 0 => unanswered'[h] > 0
    <3>2. arrived \subseteq arrived' /\ arrived' \subseteq Packet /\ p \in arrived'
      BY <1>0, <1>1 DEF Router, LocalTypes
    <3>3. LocalTypes /\ Orderly(queue) /\ History /\ crashed \in BOOLEAN
      BY DEF Router, LocalTypes
    <3>4. PICK pkt \in Packet, ttl \in Nat, left \in Seq(Waiting) :
             pkt = p /\ ttl = w.ttl /\ left = rest
      BY <1>1, <2>1
    <3>5. /\ ttl > 1 /\ ttl = pkt.ttl - Len(sent[pkt])
          /\ \A j \in DOMAIN sent[pkt] : sent[pkt][j].to # Nowhere
          /\ ~IsLocal(pkt.src) => Len(sent[pkt]) = 0
      BY <1>1, <1>3, <3>4 DEF Released, Owed
    <3>6. /\ RoutePacket(pkt, ttl, left) /\ routes' = routes /\ answers' = answers
          /\ pkt \in InTransit /\ pkt \in arrived'
          /\ Orderly(left) /\ \A i \in DOMAIN left : left[i].pkt # pkt
      BY <1>0, <1>1, <1>3, <2>1, <3>2, <3>4
    <3> HIDE DEF rest, p, w
    <3>7. /\ crashed' \in BOOLEAN /\ queue' \in Seq(Waiting)
          /\ sent' \in [Packet -> Seq(Copy)]
          /\ unanswered' \in [IP -> 0 .. AskCap]
          /\ Orderly(queue)' /\ History'
          /\ (crashed' # crashed => NoEntry(pkt))
          /\ \/ queue' = queue /\ ~Running'
             \/ queue' = left
             \/ \E a \in Waiting :
                   queue' = Append(left, a) /\ a.pkt = pkt /\ unanswered'[a.awaits] > 0
          /\ \A h \in IP : unanswered[h] > 0 => unanswered'[h] > 0
      BY <3>2, <3>3, <3>5, <3>6, RouteKeeps
    <3> QED BY <3>4, <3>7
  <2>3. ASSUME NEW i \in DOMAIN rest
        PROVE  \/ unanswered'[rest[i].awaits] > 0
               \/ rest[i].ttl <= 1
               \/ current' # 0 /\ current' <= i /\ rest[i].awaits = flushFor'
    <3>1. CASE i < k
      <4>1. rest[i] = queue[i] /\ i \in DOMAIN queue /\ ~(current <= i)
        BY <1>0, <2>1, <3>1
      <4>2. /\ queue[i].awaits \in IP
            /\ unanswered[queue[i].awaits] > 0 \/ queue[i].ttl <= 1
        <5>1. queue[i] \in Waiting
          BY <1>0, <4>1
        <5> QED BY <1>0, <4>1, <5>1 DEF Served, Waiting
      <4> QED BY <2>2, <4>1, <4>2
    <3>2. CASE ~(i < k)
      <4>1. rest[i] = queue[i + 1] /\ i + 1 \in DOMAIN queue /\ k <= i /\ ~WalkEnds
        BY <1>0, <2>1, <3>2 DEF WalkEnds
      <4>2. current' = current /\ flushFor' = flushFor
        BY <1>3, <4>1 DEF FlushStep
      <4>3. /\ queue[i + 1].awaits \in IP
            /\ \/ unanswered[queue[i + 1].awaits] > 0
               \/ queue[i + 1].ttl <= 1
               \/ queue[i + 1].awaits = flushFor
        <5>1. queue[i + 1] \in Waiting
          BY <1>0, <4>1
        <5> QED BY <1>0, <4>1, <5>1 DEF Served, Waiting
      <4> QED BY <1>0, <2>2, <4>1, <4>2, <4>3
    <3> QED BY <3>1, <3>2
  <2>4. Running' => Served'
    <3>1. CASE queue' = rest
      BY <2>3, <3>1 DEF Served
    <3>2. ASSUME NEW a \in Waiting, queue' = Append(rest, a), unanswered'[a.awaits] > 0
          PROVE  Served'
      <4> HIDE DEF rest
      <4>1. /\ DOMAIN queue' = 1 .. Len(rest) + 1 /\ DOMAIN rest = 1 .. Len(rest)
            /\ queue'[Len(rest) + 1] = a /\ Len(rest) \in Nat
            /\ \A i \in 1 .. Len(rest) : queue'[i] = rest[i]
        BY <2>1, <2>2, <3>2, AppendProperties, LenProperties
      <4>2. ASSUME NEW i \in DOMAIN queue'
            PROVE  \/ unanswered'[queue'[i].awaits] > 0
                   \/ queue'[i].ttl <= 1
                   \/ current' # 0 /\ current' <= i /\ queue'[i].awaits = flushFor'
        <5>1. CASE i = Len(rest) + 1
          BY <3>2, <4>1, <5>1
        <5>2. CASE i # Len(rest) + 1
          BY <2>3, <4>1, <5>2
        <5> QED BY <5>1, <5>2
      <4> QED BY <4>2 DEF Served
    <3> QED BY <2>2, <3>1, <3>2
  <2>5. current' \in 0 .. Len(queue')
    <3>1. Len(queue') >= Len(rest)
      BY <1>0, <2>1, <2>2, AppendProperties
    <3> QED BY <1>0, <1>3, <2>1, <2>2, <3>1, LenProperties DEF WalkEnds
  <2>6. LocalTypes'
    BY <1>0, <1>2, <2>2, <2>5 DEF Router, LocalTypes
  <2>7. CrashNeedsStranger'
    <3>1. ASSUME crashed' PROVE crashed' # crashed
      BY <1>0, <3>1
    <3>2. crashed' => /\ ~IsLocal(p.dst) \/ ~HasGateway
                      /\ IsLocal(p.src) /\ HasGateway => p.dst \in DOMAIN MacsOf
      BY <1>1, <2>2, <3>1, CrashIsStrange DEF Router
    <3> QED BY <1>0, <1>1, <3>2 DEF CrashNeedsStranger, HasGateway
  <2> QED BY <1>t, <2>2, <2>4, <2>6, <2>7 DEF Router
<1>4. CASE /\ ~Released(w)
           /\ current' = IF WalkEnds THEN 0 ELSE k + 1
           /\ UNCHANGED <<overrun, crashed, queue, sent, unanswered>>
  <2>1. LocalTypes'
    BY <1>0, <1>2, <1>4 DEF Router, LocalTypes, WalkEnds
  <2>2. Orderly(queue)'
    BY <1>0, <1>4 DEF Router, Orderly, Owed, IsGateway
  <2>3. w.awaits # flushFor \/ w.ttl <= 1
    <3>1. w.awaits = p.dst \/ (w.forGateway /\ IsGateway(w.awaits))
      BY <1>1 DEF Owed
    <3> QED BY <1>1, <1>4, <3>1 DEF Released
  <2>4. ASSUME NEW i \in DOMAIN queue
        PROVE  \/ unanswered[queue[i].awaits] > 0
               \/ queue[i].ttl <= 1
               \/ current' # 0 /\ current' <= i /\ queue[i].awaits = flushFor'
    <3>1. \/ unanswered[queue[i].awaits] > 0
          \/ queue[i].ttl <= 1
          \/ current <= i /\ queue[i].awaits = flushFor
      BY <1>0 DEF Served
    <3>2. CASE current <= i /\ queue[i].awaits = flushFor /\ ~(queue[i].ttl <= 1)
      <4>1. i # k /\ ~WalkEnds
        BY <1>0, <2>3, <3>2 DEF WalkEnds
      <4>2. current' = k + 1 /\ flushFor' = flushFor
        BY <1>4, <4>1 DEF FlushStep
      <4> QED BY <1>0, <3>2, <4>1, <4>2
    <3> QED BY <3>1, <3>2
  <2>5. History' /\ CrashNeedsStranger' /\ (Running' => Served')
    BY <1>0, <1>4, <2>4 DEF Router, History, CrashNeedsStranger, Running, Served
  <2> QED BY <1>t, <2>1, <2>2, <2>5 DEF Router
<1> QED BY <1>3, <1>4 DEF FlushStep

-----------------------------------------------------------------------------

LEMMA InitIInv == Init => Cache!IInv /\ Router
<1> SUFFICES ASSUME Init PROVE Cache!IInv /\ Router
  OBVIOUS
<1> USE StubForwardingAssumption
<1>1. Cache!IInv
  <2>1. Cache!Init
    BY DEF Init, Arp!Init, Cache!Init, Arp!Slots, Cache!Slots, Arp!Empty, Cache!Empty
  <2> QED BY <2>1, CacheConstants, Cache!InitIInv
<1>2. Told
  BY DEF Init, Arp!Init, Arp!Empty, Arp!Slots, Cache!Slots, Told
<1>3. DOMAIN queue = {} /\ queue \in Seq(Waiting) /\ Len(queue) = 0
  BY EmptySeq DEF Init
<1>4. \A p \in Packet : sent[p] = << >> /\ Len(sent[p]) = 0 /\ DOMAIN sent[p] = {}
  BY EmptySeq DEF Init
<1>5. LocalTypes
  <2>1. << >> \in Seq(Copy) /\ 0 \in 0 .. AskCap /\ {} \in SUBSET Answer
    BY EmptySeq
  <2>2. /\ sent \in [Packet -> Seq(Copy)] /\ answers \in [Packet -> SUBSET Answer]
        /\ unanswered \in [IP -> 0 .. AskCap]
    BY <2>1 DEF Init
  <2>3. arrived \subseteq Packet /\ crashed \in BOOLEAN /\ routes \in Starts
    BY DEF Init
  <2>4. flushFor \in IP \cup {ZeroIP} /\ current \in 0 .. Len(queue)
    BY <1>3 DEF Init
  <2> QED BY <1>3, <2>2, <2>3, <2>4 DEF LocalTypes
<1>6. Orderly(queue) /\ Served
  BY <1>3 DEF Orderly, Once, Served
<1>7. History /\ CrashNeedsStranger
  BY <1>4 DEF Init, History, CrashNeedsStranger
<1> QED BY <1>1, <1>2, <1>5, <1>6, <1>7 DEF Router

LEMMA NextKeepsIInv == Cache!IInv /\ Router /\ [Next]_vars => (Cache!IInv /\ Router)'
<1> SUFFICES ASSUME Cache!IInv, Router, [Next]_vars PROVE Cache!IInv' /\ Router'
  OBVIOUS
<1>1. Cache!IInv'
  BY CacheKept
<1>2. ASSUME NEW ip \in DOMAIN MacsOf, NEW mac \in MacsOf[ip],
             ReceiveArpRequest(ip, mac) \/ ReceiveArpReply(ip, mac)
      PROVE  Told'
  BY <1>2, ToldKept DEF Router, ReceiveArpRequest, ReceiveArpReply
<1>3. ASSUME NEW ip \in DOMAIN MacsOf, NEW mac \in MacsOf[ip], ReceiveArpRequest(ip, mac)
      PROVE  Router'
  BY <1>2, <1>3, QueueUntouched DEF ReceiveArpRequest, Running
<1>4. CASE Tick
  <2>1. /\ ~crashed /\ overrun' = overrun /\ slots' = slots
        /\ UNCHANGED <<routes, queue, flushFor, current, crashed, arrived, sent,
                       answers, unanswered>>
    BY <1>4 DEF Tick, Arp!Tick
  <2>2. (Running' => Running) /\ Told'
    BY <2>1 DEF Running, Router, Told
  <2> QED BY <1>1, <2>1, <2>2, QueueUntouched
<1>5. CASE UNCHANGED vars
  <2>1. LocalTypes' /\ History' /\ CrashNeedsStranger' /\ Told'
    BY <1>5 DEF Router, LocalTypes, History, CrashNeedsStranger, HasGateway, Told,
       vars, arpVars
  <2>2. Orderly(queue)'
    BY <1>5 DEF Router, Orderly, Owed, IsGateway, vars
  <2>3. Running' => Served'
    BY <1>5 DEF Router, Served, Running, vars, arpVars
  <2> QED BY <1>1, <2>1, <2>2, <2>3 DEF Router
<1> QED
  BY <1>1, <1>2, <1>3, <1>4, <1>5, ReceiveIpKeeps, ReplyKeeps, FlushStepKeeps DEF Next

LEMMA Invariance == Spec => [](Cache!IInv /\ Router)
<1> QED BY InitIInv, NextKeepsIInv, PTL DEF Spec

\* The list, the walk over it and the static table keep their types, with the
\* cache's (head_packet_cache, current_packet, routing_table).
THEOREM TypeCorrect == Spec => []TypeOK
<1>1. Cache!IInv /\ Router => TypeOK
  BY DEF Router, LocalTypes, TypeOK, Cache!IInv, Cache!TypeOK, Arp!TypeOK,
         Cache!Slots, Arp!Slots, Cache!Time, Arp!Time, Cache!Record, Arp!Record
<1> QED BY <1>1, Invariance, PTL

\* For any number of packets, routes and hosts, and any byte found in the dead
\* array: at most one copy of a packet is kept, and the TTL pays for each one sent
\* (sr_route_packet, add_packet_to_cache).
THEOREM CopiesArePaid == Spec => []TtlPaysForCopies
<1>1. Router => TtlPaysForCopies
  BY DEF Router, Orderly, Once, Owed, History, TtlPaysForCopies, Places
<1> QED BY <1>1, Invariance, PTL

\* A packet sent to a stray address is neither kept nor sent again.
THEOREM StrayCopiesAreLast == Spec => []StrayCopyIsLast
<1>1. Router => StrayCopyIsLast
  BY DEF Router, Orderly, Owed, History, StrayCopyIsLast, Places
<1> QED BY <1>1, Invariance, PTL

\* When send_cached_packet is done, what is left in the list is asked for or spent.
THEOREM NobodyForgotten == Spec => []WaitersAskedOrSpent
<1>1. Router => WaitersAskedOrSpent
  BY DEF Router, WaitersAskedOrSpent, Served, Idle
<1> QED BY <1>1, Invariance, PTL

\* The null routing entry is dereferenced only for a packet that is a stranger's.
THEOREM CrashesOverStrangers == Spec => []CrashNeedsStranger
<1>1. Router => CrashNeedsStranger
  BY DEF Router
<1> QED BY <1>1, Invariance, PTL

-----------------------------------------------------------------------------
(* Delivery.  A packet from elsewhere has at most one copy, so its fate can be *)
(* read off without counting.                                                 *)

Stage(p) ==
    IF Kept(queue, p) THEN "waiting"
    ELSE IF sent[p] # << >> THEN (IF sent[p][1].to = Nowhere THEN "astray" ELSE "forwarded")
    ELSE IF p \notin arrived THEN "unseen"
    ELSE IF answers[p] # {} THEN "answered" ELSE "ignored"

FatesAreStages == \A p \in Inbound : Fate(p) = Stage(p)

LEMMA InboundFates == Router => FatesAreStages
<1> SUFFICES ASSUME Router, NEW p \in Inbound PROVE Fate(p) = Stage(p)
  BY DEF FatesAreStages
<1>1. /\ p \in Packet /\ ~IsLocal(p.src) /\ sent[p] \in Seq(Copy)
      /\ Len(sent[p]) \in Nat /\ Len(sent[p]) <= 1
  BY LenProperties DEF Inbound, Router, LocalTypes, History
<1>2. Len(sent[p]) = 0 <=> sent[p] = << >>
  BY <1>1, EmptySeq
<1>3. CASE Kept(queue, p)
  <2>1. PICK i \in DOMAIN queue : queue[i].pkt = p
    BY <1>3 DEF Kept
  <2>2. Places(p) = {i}
    BY <2>1 DEF Router, Orderly, Once, Places
  <2>3. Len(sent[p]) = 0
    BY <1>1, <2>1 DEF Router, Orderly, Owed
  <2>4. Cardinality(Places(p)) = 1 /\ Places(p) # {}
    BY <2>2, FS_Singleton
  <2> QED BY <1>2, <1>3, <2>3, <2>4 DEF Fate, Stage
<1>4. CASE ~Kept(queue, p)
  <2>1. Places(p) = {}
    BY <1>4 DEF Kept, Places
  <2>2. Cardinality(Places(p)) = 0
    BY <2>1, FS_EmptySet
  <2>3. ~(Len(sent[p]) + Cardinality(Places(p)) > 1)
    BY <1>1, <2>2
  <2> QED BY <1>4, <2>1, <2>3 DEF Fate, Stage
<1> QED BY <1>3, <1>4

Fortune == [p \in Inbound |-> Fate(p)]

\* A step that moves no packet from elsewhere is a stutter, or the process going down.
LEMMA NothingMoves ==
    ASSUME FatesAreStages, FatesAreStages', Running,
           \A q \in Inbound : Stage(q)' = Stage(q)
    PROVE  [Abstract!Next]_<<Fortune, Running>>
<1>1. Fortune' = Fortune
  BY DEF Fortune, FatesAreStages
<1>2. CASE ~Running'
  <2>1. Running' = FALSE
    BY <1>2 DEF Running
  <2> QED BY <1>1, <2>1 DEF Abstract!Next, Abstract!Fail, Fortune, Running
<1>3. CASE Running'
  BY <1>1, <1>3 DEF Running
<1> QED BY <1>2, <1>3

\* One packet's stage changes: the map from packets to fates changes there.
LEMMA OneMoves ==
    ASSUME FatesAreStages, FatesAreStages', NEW p \in Inbound,
           \A q \in Inbound : q # p => Stage(q)' = Stage(q)
    PROVE  Fortune' = [Fortune EXCEPT ![p] = Stage(p)'] /\ Fortune[p] = Stage(p)
BY DEF Fortune, FatesAreStages

\* Routing a packet over the list without it moves no other one.
LEMMA RouteMoves ==
    ASSUME Router, Running, NEW p \in Packet, NEW ttl \in Nat, ttl > 1,
           NEW rest \in Seq(Waiting), \A q : Kept(rest, q) <=> q # p /\ Kept(queue, q),
           RoutePacket(p, ttl, rest), answers' = answers, arrived' = arrived \cup {p}
    PROVE  /\ \A q \in Packet : q # p => Stage(q)' = Stage(q)
           /\ \/ ~Running' /\ queue' = queue /\ sent' = sent
              \/ Running' /\ Stage(p)' \in {"waiting", "forwarded", "astray"}
<1>1. sent \in [Packet -> Seq(Copy)] /\ routes \in Starts
  BY DEF Router, LocalTypes
<1>2. CASE Halts(p)
  <2>1. queue' = queue /\ sent' = sent /\ ~Running'
    BY <1>2 DEF Halts, Running
  <2> QED BY <2>1 DEF Stage
<1>3. CASE Goes(p, ttl, rest)
  <2>1. PICK n \in 1 .. 2 : Grows(p, ttl, n)
    BY <1>3 DEF Goes
  <2>2. queue' = rest /\ Running' /\ \A q \in Packet : q # p => sent'[q] = sent[q]
    BY <1>3, <2>1 DEF Goes, Grows, Running
  <2>3. sent'[p] # << >>
    <3>1. Len(sent'[p]) = Len(sent[p]) + n /\ Len(sent[p]) \in Nat
      BY <1>1, <2>1, LenProperties DEF Grows
    <3> QED BY <3>1, EmptySeq
  <2>4. ASSUME NEW q \in Packet, q # p PROVE Kept(queue', q) <=> Kept(queue, q)
    BY <2>2, <2>4
  <2>5. ~Kept(queue', p)
    BY <2>2
  <2> QED BY <2>2, <2>3, <2>4, <2>5 DEF Stage
<1>4. CASE Stays(p, ttl, rest)
  <2>1. PICK n \in 0 .. 1, hop \in IP :
           Grows(p, ttl, n) /\ (hop = p.dst \/ IsGateway(hop)) /\ Wait(p, ttl - n, hop, rest)
    BY <1>4 DEF Stays
  <2>2. PICK w : w = [pkt |-> p, ttl |-> ttl - n, forGateway |-> IsGateway(hop),
                      awaits |-> hop]
    OBVIOUS
  <2>3. /\ queue' = Append(rest, w) /\ w \in Waiting /\ w.pkt = p
        /\ Running' /\ \A q \in Packet : q # p => sent'[q] = sent[q]
    <3>1. queue' = Append(rest, w) /\ Running'
      BY <1>4, <2>1, <2>2 DEF Wait, Stays, Running
    <3>2. w \in Waiting /\ w.pkt = p
      BY <2>1, <2>2 DEF Waiting, IsGateway
    <3> QED BY <2>1, <3>1, <3>2 DEF Grows
  <2>4. \A q : Kept(queue', q) <=> Kept(rest, q) \/ q = p
    BY <2>3, KeptAppend
  <2>5. Kept(queue', p) /\ \A q \in Packet : q # p => (Kept(queue', q) <=> Kept(queue, q))
    BY <2>4
  <2> QED BY <2>3, <2>5 DEF Stage
<1> QED BY <1>1, <1>2, <1>3, <1>4, RouteOutcome

LEMMA ReceiveIpDelivers ==
    ASSUME Router, FatesAreStages, FatesAreStages', NEW p \in Packet, ReceiveIp(p)
    PROVE  [Abstract!Next]_<<Fortune, Running>>
<1> USE StubForwardingAssumption
<1>1. /\ Running /\ p \notin arrived /\ arrived' = arrived \cup {p} /\ p.ttl \in Nat
      /\ answers[p] = {} /\ ~Kept(queue, p)
  BY DEF ReceiveIp, PacketType, Router, LocalTypes, History, Orderly, Owed, Kept
<1>2. sent[p] = << >>
  <2>1. sent[p] \in Seq(Copy) /\ ~(Len(sent[p]) > 0)
    BY <1>1 DEF Router, LocalTypes, History
  <2> QED BY <2>1, LenProperties, EmptySeq
<1>3. Stage(p) = "unseen"
  BY <1>1, <1>2 DEF Stage
<1>4. Inbound \subseteq Packet /\ (p \in Inbound <=> ~IsLocal(p.src))
  BY DEF Inbound
<1>5. CASE /\ ForRouter(p) \/ p.ttl <= 1
           /\ answers' = [answers EXCEPT ![p] = AnswersTo(p)]
           /\ UNCHANGED <<overrun, crashed, queue, sent, unanswered>>
  <2>1. \A q \in Packet : q # p => Stage(q)' = Stage(q)
    BY <1>1, <1>5 DEF Stage, Router, LocalTypes
  <2>2. p \notin InTransit
    BY <1>1, <1>5 DEF InTransit
  <2>3. Stage(p)' \in {"ignored", "answered"}
    BY <1>1, <1>2, <1>5 DEF Stage
  <2>4. Running' = Running
    BY <1>5 DEF Running
  <2>5. CASE p \in Inbound
    <3>1. Abstract!Receive(p)
      BY <1>1, <1>3, <1>4, <2>1, <2>2, <2>3, <2>4, <2>5, OneMoves
         DEF Abstract!Receive, Abstract!Fates, Fortune
    <3> QED BY <2>5, <3>1 DEF Abstract!Next
  <2>6. CASE p \notin Inbound
    BY <1>1, <1>4, <2>1, <2>6, NothingMoves
  <2> QED BY <2>5, <2>6
<1>6. CASE /\ ~ForRouter(p) /\ p.ttl > 1
           /\ RoutePacket(p, p.ttl, queue)
           /\ UNCHANGED answers
  <2>1. /\ \A q \in Packet : q # p => Stage(q)' = Stage(q)
        /\ \/ ~Running' /\ queue' = queue /\ sent' = sent
           \/ Running' /\ Stage(p)' \in {"waiting", "forwarded", "astray"}
    <3>1. queue \in Seq(Waiting) /\ \A q : Kept(queue, q) <=> q # p /\ Kept(queue, q)
      BY <1>1 DEF Router, LocalTypes
    <3> QED BY <1>1, <1>6, <3>1, RouteMoves
  <2>2. p \in InTransit
    BY <1>6 DEF InTransit
  <2>3. CASE p \notin Inbound
    BY <1>1, <1>4, <2>1, <2>3, NothingMoves
  <2>4. ASSUME p \in Inbound
        PROVE  Fortune' = [Fortune EXCEPT ![p] = Stage(p)'] /\ Fortune[p] = "unseen"
    BY <1>3, <1>4, <2>1, <2>4, OneMoves
  <2>5. CASE p \in Inbound /\ Running' /\ Stage(p)' \in {"waiting", "forwarded", "astray"}
    <3>1. Running' = Running
      BY <1>1, <2>5 DEF Running
    <3>2. Abstract!Receive(p)
      BY <1>1, <2>2, <2>4, <2>5, <3>1
         DEF Abstract!Receive, Abstract!Fates, Abstract!Leaves, Fortune
    <3> QED BY <2>5, <3>2 DEF Abstract!Next
  <2>6. CASE p \in Inbound /\ ~Running' /\ queue' = queue /\ sent' = sent
    <3>1. Stage(p)' = "ignored"
      BY <1>1, <1>2, <1>6, <2>6 DEF Stage
    <3>2. Running' = FALSE
      BY <2>6 DEF Running
    <3>3. Abstract!Fail
      BY <1>1, <2>4, <2>6, <3>1, <3>2 DEF Abstract!Fail, Fortune
    <3> QED BY <3>3 DEF Abstract!Next
  <2> QED BY <1>4, <2>1, <2>3, <2>5, <2>6
<1>7. p.ttl > 1 <=> ~(p.ttl <= 1)
  BY <1>1
<1> QED BY <1>5, <1>6, <1>7 DEF ReceiveIp

LEMMA FlushStepDelivers ==
    ASSUME Router, FatesAreStages, FatesAreStages', FlushStep
    PROVE  [Abstract!Next]_<<Fortune, Running>>
<1> DEFINE k == current
<1>1. /\ Running /\ k \in DOMAIN queue /\ queue \in Seq(Waiting)
      /\ arrived' = arrived /\ answers' = answers
  BY LenProperties DEF FlushStep, Idle, Router, LocalTypes
<1>2. PICK p \in Packet, ttl \in Nat :
         p = queue[k].pkt /\ ttl = queue[k].ttl /\ p \in arrived /\ Kept(queue, p)
  <2>1. queue[k] \in Waiting /\ Owed(queue[k])
    BY <1>1 DEF Router, Orderly
  <2> QED BY <1>1, <2>1 DEF Waiting, Owed, Kept
<1>3. CASE ttl > 1 /\ RoutePacket(p, ttl, Without(k))
  <2>1. Without(k) \in Seq(Waiting) /\ \A q : Kept(Without(k), q) <=> q # p /\ Kept(queue, q)
    BY <1>1, <1>2, WithoutElements DEF Router
  <2>2. /\ \A q \in Packet : q # p => Stage(q)' = Stage(q)
        /\ \/ ~Running' /\ queue' = queue /\ sent' = sent
           \/ Running' /\ Stage(p)' \in {"waiting", "forwarded", "astray"}
    <3>1. arrived' = arrived \cup {p}
      BY <1>1, <1>2
    <3>2. PICK rest : rest = Without(k)
      OBVIOUS
    <3> QED BY <1>1, <1>3, <2>1, <3>1, <3>2, RouteMoves
  <2>3. Stage(p) = "waiting" /\ Inbound \subseteq Packet /\ (p \in Inbound <=> ~IsLocal(p.src))
    BY <1>2 DEF Stage, Inbound
  <2>4. CASE p \notin Inbound
    BY <1>1, <2>2, <2>3, <2>4, NothingMoves
  <2>5. CASE ~Running' /\ queue' = queue /\ sent' = sent
    <3>1. Stage(p)' = Stage(p)
      BY <1>1, <2>5 DEF Stage
    <3> QED BY <1>1, <2>2, <2>3, <3>1, NothingMoves
  <2>6. CASE Running' /\ Stage(p)' = "waiting"
    BY <1>1, <2>2, <2>3, <2>6, NothingMoves
  <2>7. CASE p \in Inbound /\ Running' /\ Stage(p)' \in {"forwarded", "astray"}
    <3>1. Fortune' = [Fortune EXCEPT ![p] = Stage(p)'] /\ Fortune[p] = "waiting"
      BY <2>2, <2>3, <2>7, OneMoves
    <3>2. Running' = Running
      BY <1>1, <2>7 DEF Running
    <3>3. Abstract!SendOn(p)
      BY <1>1, <2>7, <3>1, <3>2 DEF Abstract!SendOn, Abstract!Leaves, Fortune
    <3> QED BY <2>7, <3>3 DEF Abstract!Next
  <2> QED BY <2>2, <2>3, <2>4, <2>5, <2>6, <2>7
<1>4. CASE UNCHANGED <<overrun, crashed, queue, sent, unanswered>>
  BY <1>1, <1>4, NothingMoves DEF Stage
<1> QED BY <1>2, <1>3, <1>4 DEF FlushStep, Released

\* Seen from a packet from elsewhere the dead array does no other harm than to send
\* it to nobody: it is kept once and leaves once, whatever the packets of the
\* router's own subnets suffer.
THEOREM InboundDelivered == Spec => InboundDelivery
<1>1. Init => Abstract!Init
  <2> SUFFICES ASSUME Init PROVE Abstract!Init
    OBVIOUS
  <2>1. Router /\ Running
    BY InitIInv DEF Init, Arp!Init, Running
  <2>2. ASSUME NEW p \in Inbound PROVE Fate(p) = "unseen"
    <3>1. Stage(p) = "unseen"
      BY EmptySeq DEF Init, Stage, Kept, Inbound
    <3> QED BY <2>1, <3>1, InboundFates DEF FatesAreStages
  <2> QED BY <2>1, <2>2 DEF Abstract!Init, Running
<1>2. Router' => FatesAreStages'
  BY InboundFates, PTL
<1>3. Router /\ Router' /\ [Next]_vars => [Abstract!Next]_<<Fortune, Running>>
  <2> SUFFICES ASSUME Router, Router', [Next]_vars
               PROVE  [Abstract!Next]_<<Fortune, Running>>
    OBVIOUS
  <2>0. FatesAreStages /\ FatesAreStages'
    BY <1>2, InboundFates
  <2>1. ASSUME Running, UNCHANGED <<queue, arrived, sent, answers>>
        PROVE  [Abstract!Next]_<<Fortune, Running>>
    BY <2>0, <2>1, NothingMoves DEF Stage
  <2>2. CASE UNCHANGED vars
    BY <2>0, <2>2 DEF vars, arpVars, Fortune, FatesAreStages, Stage, Running
  <2>3. ASSUME Tick PROVE [Abstract!Next]_<<Fortune, Running>>
    BY <2>1, <2>3 DEF Tick, Arp!Tick, Running
  <2>4. ASSUME NEW ip, NEW mac, ReceiveArpRequest(ip, mac) \/ ReceiveArpReply(ip, mac)
        PROVE  [Abstract!Next]_<<Fortune, Running>>
    BY <2>1, <2>4 DEF ReceiveArpRequest, ReceiveArpReply
  <2> QED BY <2>0, <2>2, <2>3, <2>4, ReceiveIpDelivers, FlushStepDelivers DEF Next
<1>4. [Abstract!Next]_<<Fortune, Running>>
        <=> [Abstract!Next]_<<[p \in Inbound |-> Fate(p)], Running>>
  BY DEF Fortune
<1> QED
  BY <1>1, <1>3, <1>4, Invariance, PTL DEF Spec, InboundDelivery, Abstract!Spec
=============================================================================
