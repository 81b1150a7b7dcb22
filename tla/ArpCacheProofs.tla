--------------------------- MODULE ArpCacheProofs ---------------------------
(* Proofs about ArpCache: the records of one address are appended at least    *)
(* Limit apart, and an answer that is older needs recent ARP traffic.         *)
EXTENDS ArpCache, SharedLemmas, FiniteSetTheorems, TLAPS

-----------------------------------------------------------------------------
(* The inductive invariant.  BornApart alone is not inductive: that an        *)
(* unanswered walk leaves every record of its address expired needs the       *)
(* records to fill a prefix of the array, and that an expired record was born *)
(* long ago needs its stamp not to precede its birth.                         *)

Prefix == \A j \in Slots : slots[j].valid <=> j < freePos

Stamped ==
    \A j \in Slots : slots[j].valid =>
        /\ born[j] <= slots[j].entryTime
        /\ slots[j].entryTime <= now
        /\ slots[j].entryTime = born[j] \/ slots[j].entryTime <= lastArp

IInv == TypeOK /\ Prefix /\ Stamped /\ lastArp <= now /\ BornApart

-----------------------------------------------------------------------------

\* A walk that finds nothing has seen every record of its address expired.
LEMMA MissMeansExpired ==
    ASSUME TypeOK, Prefix, NEW ip, Regular(ip), ~Found(ip),
           NEW j \in Slots, slots[j].valid, slots[j].ip = ip
    PROVE  Elapsed(j) >= Limit
<1> USE CacheAssumption
<1> SUFFICES ASSUME Elapsed(j) < Limit PROVE FALSE
  BY DEF Elapsed, TypeOK, Time, Record
<1> DEFINE T == {i \in Slots : Answers(i, ip)}
<1>1. j \in T
  BY DEF Answers
<1>2. PICK i \in T : \A k \in T : i <= k
  <2>1. T \subseteq Nat /\ T # {}
    BY <1>1 DEF Slots
  <2> HIDE DEF T
  <2> QED BY <2>1, LeastNumber
<1>3. i \in Slots /\ Answers(i, ip) /\ slots[i].valid /\ i < freePos
  BY DEF Answers, Prefix
<1>4. ASSUME NEW k \in 0 .. i - 1 PROVE Passed(k, ip)
  <2>1. k \in Slots /\ k < freePos /\ ~Answers(k, ip)
    BY <1>2, <1>3 DEF Slots, TypeOK
  <2> QED BY <2>1 DEF Passed, Prefix, Regular
<1>5. slots[0].valid /\ slots[0].ip # ZeroIP
  BY <1>3 DEF Slots, Prefix, Regular, TypeOK
<1>6. i \in Answer(ip)
  BY <1>3, <1>4, <1>5 DEF Answer, Examined
<1>7. slots[i].mac \notin ZeroLead
  BY <1>3 DEF Answers, Regular
<1> QED BY <1>6, <1>7 DEF Found

\* Of a regular address, what is found is what is stored and not expired.
FoundIffLive ==
    \A ip \in IP : Regular(ip) => (Found(ip) <=> \E j \in Slots : Answers(j, ip))

LEMMA IInvFoundIffLive == IInv => FoundIffLive
<1> SUFFICES ASSUME TypeOK, Prefix, NEW ip \in IP, Regular(ip)
             PROVE  Found(ip) <=> \E j \in Slots : Answers(j, ip)
  BY DEF FoundIffLive, IInv
<1>1. Found(ip) => \E j \in Slots : Answers(j, ip)
  BY DEF Found, Answer
<1>2. ASSUME NEW j \in Slots, Answers(j, ip) PROVE Found(ip)
  <2> SUFFICES ASSUME ~Found(ip) PROVE FALSE
    OBVIOUS
  <2>1. Elapsed(j) >= Limit
    BY <1>2, MissMeansExpired DEF Answers
  <2> QED BY <1>2, <2>1, CacheAssumption DEF Answers, Elapsed, TypeOK, Time, Record
<1> QED BY <1>1, <1>2

\* What either walk may do to the array before the store: leave a record alone,
\* or restamp it in a step that handles an ARP packet.
Walked(walked, arp) ==
    /\ walked \in [Slots -> Record]
    /\ \A j \in Slots :
          /\ walked[j].ip = slots[j].ip
          /\ walked[j].mac = slots[j].mac
          /\ walked[j].valid = slots[j].valid
          /\ \/ walked[j].entryTime = slots[j].entryTime
             \/ slots[j].valid /\ walked[j].entryTime = now /\ arp = now

LEMMA RefreshedIsWalked ==
    ASSUME TypeOK, NEW ip PROVE Walked(Refreshed(ip), now)
<1>1. ASSUME NEW j \in Slots
      PROVE  /\ Refreshed(ip)[j] \in Record
             /\ Refreshed(ip)[j].ip = slots[j].ip
             /\ Refreshed(ip)[j].mac = slots[j].mac
             /\ Refreshed(ip)[j].valid = slots[j].valid
             /\ \/ Refreshed(ip)[j].entryTime = slots[j].entryTime
                \/ slots[j].valid /\ Refreshed(ip)[j].entryTime = now
  <2>1. slots[j] \in Record /\ now \in Time
    BY DEF TypeOK
  <2>2. \/ Refreshed(ip)[j] = slots[j]
        \/ slots[j].valid /\ Refreshed(ip)[j] = [slots[j] EXCEPT !.entryTime = now]
    BY DEF Refreshed
  <2> QED BY <2>1, <2>2 DEF Record
<1>2. Refreshed(ip) = [j \in Slots |-> Refreshed(ip)[j]]
  BY DEF Refreshed
<1> QED BY <1>1, <1>2 DEF Walked

\* A store over a walked array keeps the invariant.
LEMMA StoreKeepsIInv ==
    ASSUME IInv, NEW ip \in IP, NEW mac \in Mac, NEW walked,
           Walked(walked, lastArp'), Store(ip, mac, walked),
           now' = now, lastArp' \in {lastArp, now}
    PROVE  IInv'
<1> USE CacheAssumption
<1> USE DEF IInv
<1>0. lastArp <= lastArp' /\ lastArp' <= now /\ lastArp' \in Time
  BY DEF TypeOK, Time
<1>f. \A j \in Slots :
        /\ walked[j].ip = slots[j].ip
        /\ walked[j].mac = slots[j].mac
        /\ walked[j].valid = slots[j].valid
        /\ \/ walked[j].entryTime = slots[j].entryTime
           \/ slots[j].valid /\ walked[j].entryTime = now /\ lastArp' = now
  BY DEF Walked
<1>1. CASE /\ Found(ip)
           /\ slots' = walked
           /\ UNCHANGED <<freePos, overrun, born>>
  <2>1. TypeOK'
    BY <1>0, <1>1 DEF TypeOK, Walked
  <2>2. Prefix'
    BY <1>1, <1>f DEF Prefix
  <2>3. Stamped'
    BY <1>0, <1>1, <1>f DEF Stamped, TypeOK, Time, Record, Slots
  <2>4. BornApart'
    BY <1>1, <1>f DEF BornApart, Regular
  <2> QED BY <1>0, <2>1, <2>2, <2>3, <2>4
<1>2. CASE /\ ~Found(ip)
           /\ freePos < Size
           /\ slots' = [walked EXCEPT ![freePos] = NewRecord(ip, mac)]
           /\ born' = [born EXCEPT ![freePos] = now]
           /\ freePos' = freePos + 1
           /\ UNCHANGED overrun
  <2>0. /\ freePos \in Slots /\ freePos \in Nat /\ ~slots[freePos].valid
        /\ slots'[freePos] = NewRecord(ip, mac) /\ born'[freePos] = now
        /\ \A j \in Slots : j # freePos =>
              slots'[j] = walked[j] /\ born'[j] = born[j]
    BY <1>2 DEF Slots, TypeOK, Prefix, Walked
  <2>n. /\ NewRecord(ip, mac).ip = ip /\ NewRecord(ip, mac).valid = TRUE
        /\ NewRecord(ip, mac).mac = mac /\ NewRecord(ip, mac).entryTime = now
    BY DEF NewRecord
  <2>1. TypeOK'
    <3>1. NewRecord(ip, mac) \in Record
      BY DEF NewRecord, Record, TypeOK
    <3> QED BY <1>0, <1>2, <2>0, <3>1 DEF TypeOK, Walked, Slots
  <2>2. Prefix'
    BY <1>2, <1>f, <2>0, <2>n DEF Prefix, Slots
  <2>3. Stamped'
    BY <1>0, <1>2, <1>f, <2>0, <2>n, SMTT(30) DEF Stamped, TypeOK, Time, Record, Slots
  <2>4. BornApart'
    <3> SUFFICES ASSUME NEW i \in Slots, NEW j \in Slots, i < j,
                        slots'[j].valid, slots'[i].ip = slots'[j].ip,
                        Regular(slots[i].ip)'
                 PROVE  born'[j] - born'[i] >= Limit
      BY DEF BornApart
    <3>1. j <= freePos /\ i # freePos
      BY <1>2, <2>2, <2>0 DEF Prefix, Slots
    <3>2. slots'[i].ip = slots[i].ip /\ born'[i] = born[i] /\ slots[i].valid
      BY <1>f, <2>0, <3>1 DEF Prefix, Slots
    <3>3. Regular(slots[i].ip)
      <4> SUFFICES ASSUME NEW k \in Slots, slots[k].valid
                   PROVE  /\ slots[k].ip # ZeroIP
                          /\ slots[k].ip = slots[i].ip => slots[k].mac \notin ZeroLead
        BY DEF Regular
      <4>1. k # freePos
        BY <2>0
      <4>2. slots'[k].valid /\ slots'[k].ip = slots[k].ip /\ slots'[k].mac = slots[k].mac
        BY <1>f, <2>0, <4>1
      <4> QED BY <3>2, <4>2 DEF Regular
    <3>4. CASE j = freePos
      <4>1. slots[i].ip = ip
        BY <2>0, <2>n, <3>2, <3>4
      <4>2. Elapsed(i) >= Limit
        BY <1>2, <3>2, <3>3, <4>1, MissMeansExpired
      <4>3. born[i] <= slots[i].entryTime
        BY <3>2 DEF Stamped
      <4> QED
        BY <2>0, <3>2, <3>4, <4>2, <4>3 DEF Elapsed, TypeOK, Time, Record
    <3>5. CASE j # freePos
      <4>1. slots[j].valid /\ slots[j].ip = slots[i].ip /\ born'[j] = born[j]
        BY <1>f, <2>0, <3>2, <3>5
      <4> QED BY <3>2, <3>3, <4>1 DEF BornApart
    <3> QED BY <3>4, <3>5
  <2> QED BY <1>0, <2>1, <2>2, <2>3, <2>4
<1>3. CASE /\ ~Found(ip)
           /\ freePos = Size
           /\ overrun' = TRUE
           /\ UNCHANGED <<slots, freePos, born>>
  <2>1. TypeOK'
    BY <1>0, <1>3 DEF TypeOK
  <2>2. Prefix' /\ BornApart'
    BY <1>3 DEF Prefix, BornApart, Regular
  <2>3. Stamped'
    BY <1>0, <1>3 DEF Stamped, TypeOK, Time, Record
  <2> QED BY <1>0, <2>1, <2>2, <2>3
<1> QED BY <1>1, <1>2, <1>3 DEF Store

LEMMA SlotsUnchanged ==
    ASSUME IInv, UNCHANGED <<slots, freePos, born, lastArp>>,
           now' \in Time, now <= now', overrun' \in BOOLEAN
    PROVE  IInv'
<1>1. TypeOK'
  BY DEF IInv, TypeOK
<1>2. Prefix' /\ BornApart'
  BY DEF IInv, Prefix, BornApart, Regular
<1>3. Stamped' /\ lastArp' <= now'
  BY DEF IInv, Stamped, TypeOK, Time, Record
<1> QED BY <1>1, <1>2, <1>3 DEF IInv

LEMMA InitIInv == Init => IInv
<1> SUFFICES ASSUME Init PROVE IInv
  OBVIOUS
<1> USE CacheAssumption
<1>1. \A j \in Slots : slots[j] = Empty /\ ~slots[j].valid
  BY DEF Init, Empty
<1>2. TypeOK
  <2>1. 0 \in Time /\ 0 \in 0 .. Size /\ Empty \in Record
    BY DEF Time, Empty, Record
  <2> QED BY <2>1 DEF Init, TypeOK
<1>3. Prefix /\ Stamped /\ BornApart
  BY <1>1 DEF Init, Prefix, Stamped, BornApart, Slots
<1> QED BY <1>2, <1>3 DEF Init, IInv

LEMMA NextKeepsIInv == IInv /\ [Next]_vars => IInv'
<1> SUFFICES ASSUME IInv, [Next]_vars PROVE IInv'
  OBVIOUS
<1> USE CacheAssumption
<1>1. ASSUME NEW ip \in IP, NEW mac \in Mac, LearnFromArp(ip, mac) PROVE IInv'
  <2>1. Walked(Refreshed(ip), lastArp')
    BY <1>1, RefreshedIsWalked DEF LearnFromArp, IInv
  <2> QED BY <1>1, <2>1, StoreKeepsIInv DEF LearnFromArp
<1>2. ASSUME NEW ip \in IP, NEW mac \in Mac, LearnFromHello(ip, mac) PROVE IInv'
  <2>1. Walked(slots, lastArp')
    BY DEF Walked, IInv, TypeOK
  <2> QED BY <1>2, <2>1, StoreKeepsIInv DEF LearnFromHello
<1>3. ASSUME NEW ip \in IP, LookupRunsOff(ip) PROVE IInv'
  BY <1>3, SlotsUnchanged DEF LookupRunsOff, IInv, TypeOK, Time
<1>4. ASSUME Tick PROVE IInv'
  BY <1>4, SlotsUnchanged DEF Tick, IInv, TypeOK, Time
<1>5. ASSUME UNCHANGED vars PROVE IInv'
  BY <1>5, SlotsUnchanged DEF vars, IInv, TypeOK, Time
<1> QED BY <1>1, <1>2, <1>3, <1>4, <1>5 DEF Next

-----------------------------------------------------------------------------
(* What a step does to the answers.                                           *)

\* A record that answers goes on answering while the clock stands still.
LEMMA LiveStaysLive ==
    ASSUME IInv, Next, now' = now, ~overrun', NEW ip \in IP,
           NEW j \in Slots, Answers(j, ip)
    PROVE  Answers(j, ip)'
<1> USE CacheAssumption
<1>1. ASSUME NEW arp, NEW walked, NEW iq \in IP, NEW mac \in Mac,
             Walked(walked, arp), Store(iq, mac, walked)
      PROVE  Answers(j, ip)'
  <2>1. walked[j].valid /\ walked[j].ip = ip /\ now - walked[j].entryTime < Limit
    BY <1>1 DEF Walked, Answers, Elapsed, IInv, TypeOK, Time
  <2>2. slots'[j] = walked[j]
    <3>1. ~(overrun' = TRUE)
      BY Zenon
    <3>2. j # freePos
      BY DEF Answers, IInv, Prefix, TypeOK
    <3> QED BY <1>1, <3>1, <3>2 DEF Store, Walked, IInv, TypeOK
  <2> QED BY <2>1, <2>2 DEF Answers, Elapsed
<1>2. ASSUME NEW iq \in IP, NEW mac \in Mac, LearnFromArp(iq, mac)
      PROVE  Answers(j, ip)'
  BY <1>1, <1>2, RefreshedIsWalked DEF LearnFromArp, IInv
<1>3. ASSUME NEW iq \in IP, NEW mac \in Mac, LearnFromHello(iq, mac)
      PROVE  Answers(j, ip)'
  <2>1. Walked(slots, now)
    BY DEF Walked, IInv, TypeOK
  <2> QED BY <1>1, <1>3, <2>1 DEF LearnFromHello
<1>4. ~Tick /\ \A iq \in IP : ~LookupRunsOff(iq)
  BY DEF Tick, LookupRunsOff, IInv, TypeOK, Time
<1> QED BY <1>2, <1>3, <1>4 DEF Next

\* The address a handler learns has a live record afterwards.
LEMMA LearnedIsLive ==
    ASSUME IInv, ~overrun', NEW ip \in IP, NEW mac \in Mac, Regular(ip)',
           LearnFromArp(ip, mac) \/ LearnFromHello(ip, mac)
    PROVE  \E j \in Slots : Answers(j, ip)'
<1> USE CacheAssumption
<1>1. now' = now /\ Next
  BY DEF LearnFromArp, LearnFromHello, Next
<1>2. CASE Found(ip)
  <2>1. PICK j \in Slots : Answers(j, ip)
    BY <1>2 DEF Found, Answer
  <2> QED BY <1>1, <2>1, LiveStaysLive
<1>3. CASE ~Found(ip)
  <2>1. PICK walked : Walked(walked, now) /\ Store(ip, mac, walked)
    <3>1. Walked(slots, now)
      BY DEF Walked, IInv, TypeOK
    <3> QED BY <3>1, RefreshedIsWalked DEF LearnFromArp, LearnFromHello, IInv
  <2>2. PICK k \in Slots : k = freePos /\ slots'[k] = NewRecord(ip, mac)
    <3>1. ~(overrun' = TRUE)
      BY Zenon
    <3> QED BY <1>3, <2>1, <3>1 DEF Store, Walked, IInv, TypeOK, Slots
  <2>3. slots'[k].valid /\ slots'[k].ip = ip /\ slots'[k].entryTime = now
    BY <2>2 DEF NewRecord
  <2>4. now' - slots'[k].entryTime < Limit
    BY <1>1, <2>3 DEF IInv, TypeOK, Time
  <2> QED BY <2>3, <2>4 DEF Answers, Elapsed
<1> QED BY <1>2, <1>3

LEMMA Invariance == Spec => []IInv
<1> QED BY InitIInv, NextKeepsIInv, PTL DEF Spec

-----------------------------------------------------------------------------
(* How soon the array runs over.                                              *)

\* Nothing leaves the array before it is full.
Filled == overrun => freePos = Size /\ IP # {}

LEMMA StoreKeepsFilled ==
    ASSUME NEW ip \in IP, NEW mac, NEW walked, ~overrun, Store(ip, mac, walked)
    PROVE  Filled'
<1>1. CASE overrun' = overrun
  BY <1>1 DEF Filled
<1>2. CASE ~Found(ip) /\ freePos = Size /\ UNCHANGED <<slots, freePos, born>>
  BY <1>2 DEF Filled
<1> QED BY <1>1, <1>2 DEF Store

LEMMA NextKeepsFilled == IInv /\ Filled /\ [Next]_vars => Filled'
<1> SUFFICES ASSUME IInv, Filled, [Next]_vars PROVE Filled'
  OBVIOUS
<1> USE CacheAssumption
<1>1. ASSUME NEW ip \in IP, NEW mac \in Mac, LearnFromArp(ip, mac) \/ LearnFromHello(ip, mac)
      PROVE  Filled'
  <2>1. ~overrun /\ \E walked : Store(ip, mac, walked)
    BY <1>1 DEF LearnFromArp, LearnFromHello
  <2> QED BY <2>1, StoreKeepsFilled
<1>2. ASSUME NEW ip \in IP, LookupRunsOff(ip) PROVE Filled'
  <2>1. Size - 1 \in Slots /\ slots[Size - 1].valid
    BY <1>2 DEF LookupRunsOff, RunsOff, Passed, Slots
  <2>2. freePos = Size
    BY <2>1 DEF IInv, Prefix, TypeOK
  <2> QED BY <1>2, <2>2 DEF LookupRunsOff, Filled
<1>3. CASE Tick
  BY <1>3 DEF Tick, Filled
<1>4. CASE UNCHANGED vars
  BY <1>4 DEF vars, Filled
<1> QED BY <1>1, <1>2, <1>3, <1>4 DEF Next

\* Times a whole limit apart have different quotients.
LEMMA QuotientsDiffer ==
    ASSUME NEW l \in Nat \ {0}, NEW x \in Nat, NEW y \in Nat, y - x >= l
    PROVE  x \div l # y \div l
OBVIOUS

LEMMA QuotientsGrow ==
    ASSUME NEW l \in Nat \ {0}, NEW x \in Nat, NEW y \in Nat, x <= y
    PROVE  x \div l \in 0 .. y \div l /\ y \div l \in Nat
OBVIOUS

\* Records are told apart by their address and by the Limit they were born in.
LEMMA RecordsFitTheTime ==
    ASSUME IInv, Filled, overrun, IsFiniteSet(IP), \A ip \in IP : Regular(ip)
    PROVE  Size <= Cardinality(IP \ {ZeroIP}) * (now \div Limit + 1)
<1> USE CacheAssumption
<1> DEFINE Hosts == IP \ {ZeroIP}
           Spans == 0 .. now \div Limit
           f == [j \in Slots |-> <<slots[j].ip, born[j] \div Limit>>]
<1>1. \A j \in Slots : slots[j].valid /\ slots[j].ip \in Hosts
  <2>1. PICK ip \in IP : Regular(ip)
    BY DEF Filled
  <2>2. ASSUME NEW j \in Slots PROVE slots[j].valid /\ slots[j].ip \in Hosts
    <3>1. slots[j].valid
      BY DEF Filled, IInv, Prefix, Slots
    <3>2. slots[j] \in Record /\ slots[j].ip # ZeroIP
      BY <2>1, <3>1 DEF Regular, IInv, TypeOK
    <3> QED BY <3>1, <3>2 DEF Record
  <2> QED BY <2>2
<1>2. now \in Nat /\ \A j \in Slots : born[j] \in Nat /\ born[j] <= now
  BY <1>1 DEF IInv, Stamped, TypeOK, Time, Record
<1>3. \A j \in Slots : born[j] \div Limit \in Spans
  BY <1>2, QuotientsGrow
<1>4. f \in Injection(Slots, Hosts \X Spans)
  <2>1. f \in [Slots -> Hosts \X Spans]
    BY <1>1, <1>3
  <2>2. ASSUME NEW i \in Slots, NEW j \in Slots, i < j, slots[i].ip = slots[j].ip
        PROVE  born[i] \div Limit # born[j] \div Limit
    <3>1. slots[i].ip \in IP
      BY <1>1
    <3>2. born[j] - born[i] >= Limit
      BY <1>1, <2>2, <3>1 DEF IInv, BornApart
    <3> QED BY <1>2, <3>2, QuotientsDiffer
  <2>3. ASSUME NEW i \in Slots, NEW j \in Slots, f[i] = f[j] PROVE i = j
    <3>1. slots[i].ip = slots[j].ip /\ born[i] \div Limit = born[j] \div Limit
      BY <2>3
    <3>2. ~(i < j) /\ ~(j < i)
      BY <2>2, <3>1
    <3> QED BY <3>2 DEF Slots
  <2> QED BY <2>1, <2>3 DEF Injection, IsInjective
<1>5. IsFiniteSet(Hosts) /\ Cardinality(Hosts) \in Nat
  BY FS_RemoveElement, FS_CardinalityType
<1>6. IsFiniteSet(Spans) /\ Cardinality(Spans) = now \div Limit + 1
  <2>1. now \div Limit \in Nat
    BY <1>2, QuotientsGrow
  <2> HIDE DEF Spans
  <2>2. IsFiniteSet(0 .. now \div Limit) /\ Cardinality(0 .. now \div Limit) = now \div Limit - 0 + 1
    BY <2>1, FS_Interval
  <2> QED BY <2>1, <2>2 DEF Spans
<1>7. Cardinality(Slots) = Size
  BY FS_Interval DEF Slots
<1> HIDE DEF f, Hosts, Spans
<1>8. IsFiniteSet(Hosts \X Spans)
      /\ Cardinality(Hosts \X Spans) = Cardinality(Hosts) * Cardinality(Spans)
  BY <1>5, <1>6, FS_Product
<1>9. Cardinality(Slots) <= Cardinality(Hosts \X Spans)
  BY <1>4, <1>8, FS_Injection
<1> QED BY <1>6, <1>7, <1>8, <1>9 DEF Hosts

-----------------------------------------------------------------------------

\* The array, its fill position and the clock keep their types
\* (cached_mac_addresses, free_pos_for_caching).
THEOREM TypeCorrect == Spec => []TypeOK
<1>1. IInv => TypeOK
  BY DEF IInv
<1> QED BY <1>1, Invariance, PTL

\* However many hosts there are, and however their packets and the clock
\* interleave, records of one address are appended at least Limit apart.
THEOREM RecordsBornApart == Spec => []BornApart
<1>1. IInv => BornApart
  BY DEF IInv
<1> QED BY <1>1, Invariance, PTL

\* An answer older than the limit means that does_mac_address_exist restamped
\* its record in a walk for an ARP packet handled less than Limit ago.
THEOREM StaleAnswersNeedArp == Spec => []StaleNeedsArp
<1>1. IInv => StaleNeedsArp
  <2> SUFFICES ASSUME IInv, NEW ip \in IP, NEW j \in Answer(ip),
                      now - born[j] >= Limit
               PROVE  now - lastArp < Limit
    BY DEF StaleNeedsArp
  <2>1. j \in Slots /\ slots[j].valid /\ now - slots[j].entryTime < Limit
    BY DEF Answer, Answers, Elapsed
  <2>2. slots[j].entryTime <= lastArp
    BY <2>1, CacheAssumption DEF IInv, Stamped, TypeOK, Time, Record
  <2> QED BY <2>1, <2>2, CacheAssumption DEF IInv, TypeOK, Time, Record
<1> QED BY <1>1, Invariance, PTL

\* Handling a packet never loses an answer, whatever records it restamps.
THEOREM AnswersOnlyAge == Spec => OnlyTimeForgets
<1> DEFINE OnlyAges == \A ip \in IP :
        (Found(ip) /\ now' = now /\ ~overrun' /\ Regular(ip)') => Found(ip)'
<1>1. IInv' => FoundIffLive'
  BY IInvFoundIffLive, PTL
<1>2. IInv /\ IInv' /\ [Next]_vars => [OnlyAges]_vars
  <2> SUFFICES ASSUME IInv, IInv', Next, NEW ip \in IP,
                      Found(ip), now' = now, ~overrun', Regular(ip)'
               PROVE  Found(ip)'
    OBVIOUS
  <2>1. PICK j \in Slots : Answers(j, ip)
    BY DEF Found, Answer
  <2>2. Answers(j, ip)'
    BY <2>1, LiveStaysLive
  <2> QED BY <1>1, <2>2 DEF FoundIffLive
<1> QED BY <1>2, Invariance, PTL DEF Spec, OnlyTimeForgets

\* The sender of an ARP packet or HELLO is found once its handler is done.
THEOREM SenderIsFound == Spec => LearnedIsFound
<1> DEFINE Learned == \A ip \in IP :
        (/\ \E mac \in Mac : LearnFromArp(ip, mac) \/ LearnFromHello(ip, mac)
         /\ ~overrun' /\ Regular(ip)') => Found(ip)'
<1>1. IInv' => FoundIffLive'
  BY IInvFoundIffLive, PTL
<1>2. IInv /\ IInv' /\ [Next]_vars => [Learned]_vars
  <2> SUFFICES ASSUME IInv, IInv', NEW ip \in IP, NEW mac \in Mac,
                      LearnFromArp(ip, mac) \/ LearnFromHello(ip, mac),
                      ~overrun', Regular(ip)'
               PROVE  Found(ip)'
    OBVIOUS
  <2>1. \E j \in Slots : Answers(j, ip)'
    BY LearnedIsLive
  <2> QED BY <1>1, <2>1 DEF FoundIffLive
<1> QED BY <1>2, Invariance, PTL DEF Spec, LearnedIsFound

\* The 100 slots are not used up before every host can have been stored once in
\* each 15 seconds: with n hosts, not within the first 100/n - 1 timeouts, however
\* often they speak (free_pos_for_caching).
THEOREM ArrayLasts == ASSUME IsFiniteSet(IP) PROVE Spec => []NoEarlyOverrun
<1>1. Init => Filled
  BY DEF Init, Filled
<1>2. IInv /\ Filled => NoEarlyOverrun
  BY RecordsFitTheTime DEF NoEarlyOverrun
<1> QED
  BY <1>1, <1>2, NextKeepsFilled, Invariance, PTL DEF Spec
=============================================================================
