--------------------------- MODULE LinkStateProofs ---------------------------
(***************************************************************************)
(* Theorems about LinkState, for every number of interfaces, topology, width  *)
(* of the round number and count of restarts.                                *)
(***************************************************************************)
EXTENDS LinkState, SharedLemmas, TLAPS

\* The entries are written in one order, and only the entry of the HELLO being
\* handled is incomplete with a router.
Ordered ==
    /\ \A i \in Iface : neighbour[i].ip \/ neighbour[i].netMask => neighbour[i].routerId # NoRouter
    /\ main \in {"ip", "netMask"} => neighbour[current].routerId # NoRouter

\* An entry has gained but not lost or changed since the LSU was begun.
Grown(new, old) ==
    /\ old.routerId # NoRouter => new.routerId = old.routerId
    /\ old.ip => new.ip
    /\ old.netMask => new.netMask

OnlyGrown == \A i \in Iface : Grown(neighbour[i], before[i])

\* What the LSU thread has found out before it asks for the default route.
Searching ==
    /\ looking => owner = "lsu" /\ Len(advs) < N /\ ~Complete(before[Len(advs)])
    /\ owner # "lsu" => out = 0 /\ advs = << >>

\* The LSU of this round has been sent on the interfaces before "out".
Counted ==
    restarts = 0 /\ ~wrapped => \A i \in Iface : i < out => seen[i] <= seq

ReadInv == TypeOK /\ Ordered /\ OnlyGrown /\ Searching /\ RegularReads /\ FalseDefaultIsTorn

CountInv == TypeOK /\ Searching /\ Counted /\ NewsUnlessRestarted

-----------------------------------------------------------------------------

LEMMA IfaceFacts == 0 \in Iface /\ Iface \subseteq Int
BY LinkStateAssumption DEF Iface

LEMMA TypeInit == Init => TypeOK
<1> SUFFICES ASSUME Init PROVE TypeOK
  OBVIOUS
<1> USE LinkStateAssumption, IfaceFacts
<1>1. Fresh \in [Iface -> Entry]
  BY DEF Fresh, Nobody, Entry
<1>2. seen \in [Iface -> 0 .. Wrap - 1] /\ learnt \in [Iface -> SUBSET Iface] /\ seq \in 0 .. Wrap - 1
  BY DEF Init
<1>3. advs \in Seq(Adv) /\ Len(advs) <= N
  BY DEF Init
<1> QED BY <1>1, <1>2, <1>3 DEF Init, TypeOK

\* What the LSU thread reads is a router or nobody.
LEMMA NamedType ==
    ASSUME TypeOK, NEW i \in Iface
    PROVE  /\ Named(i) \in Router \cup {NoRouter}
           /\ Named(i) # NoRouter => Complete(neighbour[i]) /\ Named(i) = neighbour[i].routerId
           /\ Complete(neighbour[i]) => Named(i) = neighbour[i].routerId
BY DEF TypeOK, Entry, Named, Complete

\* The link the thread reads next.
LEMMA NextLink == ASSUME TypeOK, Len(advs) < N PROVE Len(advs) \in Iface
BY LinkStateAssumption DEF TypeOK, Iface

LEMMA NextNumber == ASSUME TypeOK
                    PROVE  /\ NextSeq \in 0 .. Wrap - 1
                           /\ seq # Wrap - 1 => NextSeq = seq + 1
<1> USE LinkStateAssumption DEF TypeOK, NextSeq
<1>1. CASE seq = Wrap - 1
  BY <1>1
<1>2. CASE seq # Wrap - 1
  <2>1. seq + 1 \in 0 .. Wrap - 1
    BY <1>2
  <2> QED BY <2>1, SmallRemainder
<1> QED BY <1>1, <1>2

\* The assignments of handleHelloPackets: an entry stays an entry and gains.
LEMMA RouterIdWrite ==
    ASSUME NEW e \in Entry, NEW s \in Router
    PROVE  LET f == [e EXCEPT !.routerId = s]
           IN  f \in Entry /\ f.routerId = s /\ f.ip = e.ip /\ f.netMask = e.netMask
<1>1. [e EXCEPT !.routerId = s] \in Entry
  BY Zenon DEF Entry
<1> QED BY <1>1 DEF Entry

LEMMA IpWrite ==
    ASSUME NEW e \in Entry
    PROVE  LET f == [e EXCEPT !.ip = TRUE]
           IN  f \in Entry /\ f.routerId = e.routerId /\ f.ip /\ f.netMask = e.netMask
<1>1. [e EXCEPT !.ip = TRUE] \in Entry
  BY Zenon DEF Entry
<1> QED BY <1>1 DEF Entry

LEMMA NetMaskWrite ==
    ASSUME NEW e \in Entry
    PROVE  LET f == [e EXCEPT !.netMask = TRUE]
           IN  f \in Entry /\ f.routerId = e.routerId /\ f.ip = e.ip /\ f.netMask
<1>1. [e EXCEPT !.netMask = TRUE] \in Entry
  BY Zenon DEF Entry
<1> QED BY <1>1 DEF Entry

LEMMA TypeStep == TypeOK /\ Searching /\ [Next]_vars => TypeOK'
<1> SUFFICES ASSUME TypeOK, Searching, [Next]_vars PROVE TypeOK'
  OBVIOUS
<1> USE LinkStateAssumption, IfaceFacts
<1>1. ASSUME NEW i \in Iface, NEW s \in Router, Hello(i, s) PROVE TypeOK'
  <2>1. [neighbour[i] EXCEPT !.routerId = s] \in Entry
    BY RouterIdWrite DEF TypeOK
  <2>2. neighbour' \in [Iface -> Entry]
    BY <1>1, <2>1 DEF TypeOK, Hello
  <2> QED BY <1>1, <2>2 DEF TypeOK, Hello, roundVars, peerVars
<1>2. CASE HelloIp
  <2>1. [neighbour[current] EXCEPT !.ip = TRUE] \in Entry
    BY IpWrite DEF TypeOK
  <2>2. neighbour' \in [Iface -> Entry]
    BY <1>2, <2>1 DEF TypeOK, HelloIp
  <2> QED BY <1>2, <2>2 DEF TypeOK, HelloIp, roundVars, peerVars
<1>3. CASE HelloNetMask
  <2>1. [neighbour[current] EXCEPT !.netMask = TRUE] \in Entry
    BY NetMaskWrite DEF TypeOK
  <2>2. neighbour' \in [Iface -> Entry]
    BY <1>3, <2>1 DEF TypeOK, HelloNetMask
  <2> QED BY <1>3, <2>2 DEF TypeOK, HelloNetMask, roundVars, peerVars
<1>4. CASE LearnLsu \/ Populate \/ LockHellos \/ UnlockHellos
  BY <1>4 DEF TypeOK, LearnLsu, Populate, LockHellos, UnlockHellos, mainVars, roundVars, peerVars
<1>5. CASE BeginRound
  BY <1>5 DEF TypeOK, BeginRound, mainVars, peerVars
<1>6. CASE ReadLink
  <2>1. CASE Named(Len(advs)) = NoRouter
    BY <1>6, <2>1 DEF TypeOK, ReadLink, mainVars, peerVars
  <2>2. CASE Named(Len(advs)) # NoRouter
    <3>1. [rid |-> Named(Len(advs)), default |-> FALSE] \in Adv
      BY <1>6, NextLink, NamedType DEF ReadLink, Adv
    <3>2. advs' \in Seq(Adv) /\ Len(advs') <= N
      <4>1. advs' = Append(advs, [rid |-> Named(Len(advs)), default |-> FALSE])
        BY <1>6, <2>2 DEF ReadLink
      <4> QED BY <1>6, <4>1, <3>1 DEF TypeOK, ReadLink
    <3> QED BY <1>6, <2>2, <3>2 DEF TypeOK, ReadLink, mainVars, peerVars
  <2> QED BY <2>1, <2>2
<1>7. CASE AnnounceDefault
  <2>1. [rid |-> NoRouter, default |-> FirstUnknown = 0] \in Adv
    BY DEF Adv
  <2>2. advs' \in Seq(Adv) /\ Len(advs') <= N
    BY <1>7, <2>1 DEF TypeOK, AnnounceDefault, Searching
  <2> QED BY <1>7, <2>2 DEF TypeOK, AnnounceDefault, mainVars, peerVars
<1>8. CASE SendCopy
  <2>1. seen' \in [Iface -> 0 .. Wrap - 1] /\ learnt' \in [Iface -> SUBSET Iface]
    BY <1>8 DEF TypeOK, SendCopy, NamedLinks, peerVars
  <2>2. seq' \in 0 .. Wrap - 1 /\ out' \in Iface
    BY <1>8, NextNumber, SMTT(30) DEF TypeOK, SendCopy, Iface
  <2>3. wrapped' \in BOOLEAN
    BY <1>8, Zenon DEF TypeOK, SendCopy
  <2>4. owner' \in {"none", "hello", "lsu"} /\ advs' \in Seq(Adv) /\ Len(advs') <= N
    BY <1>8 DEF TypeOK, SendCopy
  <2> QED BY <1>8, <2>1, <2>2, <2>3, <2>4 DEF TypeOK, SendCopy, mainVars
<1>9. CASE Restart
  <2>1. Fresh \in [Iface -> Entry]
    BY DEF Fresh, Nobody, Entry
  <2>2. restarts' \in 0 .. MaxRestarts /\ advs' \in Seq(Adv) /\ Len(advs') <= N
    BY <1>9 DEF TypeOK, Restart
  <2>3. seq' \in 0 .. Wrap - 1
    BY <1>9 DEF Restart
  <2> QED BY <1>9, <2>1, <2>2, <2>3 DEF TypeOK, Restart, peerVars
<1>10. CASE UNCHANGED vars
  BY <1>10 DEF TypeOK, vars, mainVars, roundVars, peerVars
<1> QED BY <1>1, <1>2, <1>3, <1>4, <1>5, <1>6, <1>7, <1>8, <1>9, <1>10 DEF Next

-----------------------------------------------------------------------------
(* What is read of the neighbours.                                           *)

LEMMA ReadInit == Init => ReadInv
<1> SUFFICES ASSUME Init PROVE ReadInv
  OBVIOUS
<1>1. Ordered /\ OnlyGrown
  BY DEF Init, Fresh, Nobody, Ordered, OnlyGrown, Grown
<1>2. Searching /\ RegularReads /\ FalseDefaultIsTorn
  BY DEF Init, Searching, RegularReads, FalseDefaultIsTorn
<1> QED BY <1>1, <1>2, TypeInit DEF ReadInv

\* When eth0 is known and the search for an entry without a router ends there, it
\* has found none.
LEMMA NobodyUnknown ==
    ASSUME TypeOK, neighbour[0].routerId # NoRouter, FirstUnknown = 0
    PROVE  \A i \in Iface : neighbour[i].routerId # NoRouter
<1> DEFINE Open == {i \in Iface : neighbour[i].routerId = NoRouter}
<1> SUFFICES ASSUME Open # {} PROVE FALSE
  OBVIOUS
<1>1. PICK i \in Open : \A j \in Open : i <= j
  <2>1. Open \subseteq Nat
    BY LinkStateAssumption DEF Iface
  <2> HIDE DEF Open
  <2> QED BY <2>1, LeastNumber
<1>2. \A j \in 0 .. i - 1 : neighbour[j].routerId # NoRouter
  <2> SUFFICES ASSUME NEW j \in 0 .. i - 1, neighbour[j].routerId = NoRouter PROVE FALSE
    OBVIOUS
  <2>1. j \in Open /\ j < i
    BY LinkStateAssumption DEF Iface
  <2> QED BY <1>1, <2>1, IfaceFacts
<1>3. FirstUnknown \in Iface /\ neighbour[FirstUnknown].routerId = NoRouter
  BY <1>1, <1>2, Zenon DEF FirstUnknown
<1> QED BY <1>3

\* While entries only gain, what was read of them stays right.
LEMMA GainKeepsReads ==
    ASSUME ReadInv, UNCHANGED <<advs, before>>,
           \A i \in Iface : Grown(neighbour'[i], neighbour[i])
    PROVE  OnlyGrown' /\ RegularReads' /\ FalseDefaultIsTorn'
<1> USE DEF ReadInv, Grown
<1>1. OnlyGrown'
  BY DEF OnlyGrown
<1>2. \A k \in DOMAIN advs : k - 1 \in Iface
  BY LinkStateAssumption DEF TypeOK, Iface
<1>3. RegularReads'
  BY <1>2 DEF RegularReads, Complete
<1>4. FalseDefaultIsTorn'
  BY DEF FalseDefaultIsTorn, Complete
<1> QED BY <1>1, <1>3, <1>4

LEMMA ReadStep == ReadInv /\ [Next]_vars => ReadInv'
<1> SUFFICES ASSUME ReadInv, [Next]_vars PROVE ReadInv'
  OBVIOUS
<1> USE LinkStateAssumption, IfaceFacts
<1>0. TypeOK /\ TypeOK'
  BY TypeStep DEF ReadInv
<1>1. ASSUME NEW i \in Iface, NEW s \in Router, Hello(i, s) PROVE ReadInv'
  <2>1. neighbour' = [neighbour EXCEPT ![i].routerId = s] /\ neighbour[i].routerId = NoRouter
    BY <1>1 DEF Hello
  <2>2. \A j \in Iface : Grown(neighbour'[j], neighbour[j])
    <3>1. neighbour'[i] = [neighbour[i] EXCEPT !.routerId = s] /\ neighbour[i] \in Entry
      BY <1>0, <2>1 DEF TypeOK
    <3>2. \A j \in Iface : j # i => neighbour'[j] = neighbour[j]
      BY <1>0, <2>1 DEF TypeOK
    <3>3. neighbour'[i].ip = neighbour[i].ip /\ neighbour'[i].netMask = neighbour[i].netMask
      BY <3>1, RouterIdWrite
    <3> QED BY <2>1, <3>2, <3>3 DEF Grown
  <2>3. OnlyGrown' /\ RegularReads' /\ FalseDefaultIsTorn'
    BY <1>1, <2>2, GainKeepsReads DEF Hello, roundVars
  <2>4. Ordered'
    <3>1. neighbour'[i].routerId = s /\ current' = i /\ s # NoRouter
      <4>1. neighbour'[i] = [neighbour[i] EXCEPT !.routerId = s] /\ neighbour[i] \in Entry
        BY <1>0, <2>1 DEF TypeOK
      <4>2. neighbour'[i].routerId = s
        BY <4>1, RouterIdWrite
      <4>3. current' = i /\ s # NoRouter
        BY <1>1 DEF Hello
      <4> QED BY <4>2, <4>3
    <3>2. \A j \in Iface : j # i => neighbour'[j] = neighbour[j]
      BY <1>0, <2>1 DEF TypeOK
    <3> QED BY <3>1, <3>2 DEF Ordered, ReadInv
  <2>5. Searching'
    BY <1>1 DEF Hello, Searching, ReadInv, roundVars
  <2> QED BY <1>0, <2>3, <2>4, <2>5 DEF ReadInv
<1>2. CASE HelloIp \/ HelloNetMask
  <2>1. \A j \in Iface : Grown(neighbour'[j], neighbour[j]) /\ neighbour'[j].routerId = neighbour[j].routerId
    <3>0. current \in Iface /\ neighbour[current] \in Entry /\ neighbour \in [Iface -> Entry]
      BY <1>0 DEF TypeOK
    <3>1. CASE HelloIp
      <4>1. neighbour' = [neighbour EXCEPT ![current] = [neighbour[current] EXCEPT !.ip = TRUE]]
        BY <3>1 DEF HelloIp
      <4>2. PICK f : f = [neighbour[current] EXCEPT !.ip = TRUE] /\ f.ip
                     /\ f.routerId = neighbour[current].routerId
                     /\ f.netMask = neighbour[current].netMask
        BY <3>0, IpWrite
      <4> QED BY <3>0, <4>1, <4>2 DEF Grown
    <3>2. CASE HelloNetMask
      <4>1. neighbour' = [neighbour EXCEPT ![current] = [neighbour[current] EXCEPT !.netMask = TRUE]]
        BY <3>2 DEF HelloNetMask
      <4>2. PICK f : f = [neighbour[current] EXCEPT !.netMask = TRUE] /\ f.netMask
                     /\ f.routerId = neighbour[current].routerId
                     /\ f.ip = neighbour[current].ip
        BY <3>0, NetMaskWrite
      <4> QED BY <3>0, <4>1, <4>2 DEF Grown
    <3> QED BY <1>2, <3>1, <3>2
  <2>2. OnlyGrown' /\ RegularReads' /\ FalseDefaultIsTorn'
    BY <1>2, <2>1, GainKeepsReads DEF HelloIp, HelloNetMask, roundVars
  <2>3. Ordered'
    <3>1. main \in {"ip", "netMask"} /\ UNCHANGED current /\ current \in Iface
      BY <1>0, <1>2 DEF HelloIp, HelloNetMask, TypeOK
    <3>2. \A j \in Iface : j # current => neighbour'[j] = neighbour[j]
      BY <1>0, <1>2 DEF HelloIp, HelloNetMask, TypeOK
    <3> QED BY <2>1, <3>1, <3>2 DEF Ordered, ReadInv
  <2>4. Searching'
    BY <1>2 DEF HelloIp, HelloNetMask, Searching, ReadInv, roundVars
  <2> QED BY <1>0, <2>2, <2>3, <2>4 DEF ReadInv
<1>3. CASE LearnLsu \/ Populate \/ LockHellos \/ UnlockHellos \/ UNCHANGED vars
  <2>1. UNCHANGED <<neighbour, current, advs, before, out, looking>>
    BY <1>3 DEF LearnLsu, Populate, LockHellos, UnlockHellos, vars, mainVars, roundVars
  <2>2. OnlyGrown' /\ RegularReads' /\ FalseDefaultIsTorn'
    BY <2>1, GainKeepsReads DEF Grown
  <2>3. Ordered' /\ Searching'
    BY <1>3, <2>1 DEF LearnLsu, Populate, LockHellos, UnlockHellos, vars, mainVars, roundVars,
                      Ordered, Searching, ReadInv
  <2> QED BY <1>0, <2>2, <2>3 DEF ReadInv
<1>4. CASE BeginRound \/ SendCopy \/ Restart
  <2>1. advs' = << >> /\ OnlyGrown'
    <3>1. advs' = << >> /\ before' = neighbour'
      BY <1>4 DEF BeginRound, SendCopy, Restart, mainVars
    <3> QED BY <3>1 DEF OnlyGrown, Grown
  <2>2. RegularReads' /\ FalseDefaultIsTorn'
    BY <2>1 DEF RegularReads, FalseDefaultIsTorn
  <2>3. Ordered'
    <3>1. CASE BeginRound \/ SendCopy
      BY <3>1 DEF BeginRound, SendCopy, mainVars, ReadInv, Ordered
    <3>2. CASE Restart
      BY <3>2 DEF Restart, Fresh, Nobody, Ordered
    <3> QED BY <1>4, <3>1, <3>2
  <2>4. Searching'
    BY <1>4, <2>1 DEF BeginRound, SendCopy, Restart, ReadInv, Searching
  <2> QED BY <1>0, <2>1, <2>2, <2>3, <2>4 DEF ReadInv
<1>5. ASSUME NEW a \in Adv, advs' = Append(advs, a), Len(advs) < N,
             UNCHANGED <<mainVars, before, out, owner>>, owner = "lsu", ~looking',
             a.rid # NoRouter => /\ Complete(neighbour[Len(advs)])
                                 /\ a.rid = neighbour[Len(advs)].routerId,
             Complete(before[Len(advs)]) => a.rid = before[Len(advs)].routerId,
             a.default /\ before[0].routerId # NoRouter =>
                 /\ ~Complete(before[Len(advs)])
                 /\ \A i \in Iface : neighbour[i].routerId # NoRouter
      PROVE ReadInv'
  <2>1. /\ DOMAIN advs' = 1 .. Len(advs) + 1
        /\ \A k \in DOMAIN advs : advs'[k] = advs[k]
        /\ advs'[Len(advs) + 1] = a
    <3>1. advs \in Seq(Adv)
      BY <1>0 DEF TypeOK
    <3> QED BY <1>5, <3>1
  <2>2. \A k \in DOMAIN advs' : k \in DOMAIN advs \/ (k = Len(advs) + 1 /\ k - 1 = Len(advs))
    <3>1. advs \in Seq(Adv)
      BY <1>0 DEF TypeOK
    <3>2. DOMAIN advs = 1 .. Len(advs) /\ Len(advs) \in Nat
      BY <3>1
    <3> QED BY <2>1, <3>2
  <2>3. RegularReads'
    BY <1>5, <2>1, <2>2 DEF RegularReads, ReadInv, mainVars, Complete
  <2>4. FalseDefaultIsTorn'
    BY <1>5, <2>1, <2>2 DEF FalseDefaultIsTorn, ReadInv, mainVars, Complete
  <2>5. Ordered' /\ OnlyGrown' /\ Searching'
    BY <1>5 DEF Ordered, OnlyGrown, Searching, ReadInv, mainVars
  <2> QED BY <1>0, <2>3, <2>4, <2>5 DEF ReadInv
<1>6. CASE ReadLink
  <2> DEFINE k == Len(advs)
  <2>1. k \in Iface /\ k < N
    BY <1>0, <1>6, NextLink DEF ReadLink
  <2>2. Grown(neighbour[k], before[k])
    BY <2>1 DEF ReadInv, OnlyGrown
  <2>3. Complete(before[k]) => Named(k) = before[k].routerId /\ Named(k) # NoRouter
    BY <1>0, <2>1, <2>2, NamedType DEF Grown, Complete
  <2>4. CASE Named(k) = NoRouter
    <3>1. UNCHANGED <<mainVars, owner, advs, before, out>> /\ owner = "lsu"
      BY <1>6, <2>4 DEF ReadLink
    <3>2. OnlyGrown' /\ RegularReads' /\ FalseDefaultIsTorn'
      BY <3>1, GainKeepsReads DEF Grown, mainVars
    <3>3. Ordered' /\ Searching'
      BY <2>1, <2>3, <2>4, <3>1 DEF Ordered, Searching, ReadInv, mainVars
    <3> QED BY <1>0, <3>2, <3>3 DEF ReadInv
  <2>5. CASE Named(k) # NoRouter
    <3> DEFINE a == [rid |-> Named(k), default |-> FALSE]
    <3>1. a \in Adv /\ a.rid = Named(k) /\ a.default = FALSE
      BY <1>0, <2>1, NamedType DEF Adv
    <3>2. /\ advs' = Append(advs, a) /\ UNCHANGED <<mainVars, before, out, owner>>
          /\ owner = "lsu" /\ ~looking'
      BY <1>6, <2>5 DEF ReadLink
    <3>3. Named(k) # NoRouter => Complete(neighbour[k]) /\ Named(k) = neighbour[k].routerId
      BY <1>0, <2>1, NamedType
    <3> QED BY <1>5, <2>1, <2>3, <3>1, <3>2, <3>3
  <2> QED BY <2>4, <2>5
<1>7. CASE AnnounceDefault
  <2> DEFINE a == [rid |-> NoRouter, default |-> FirstUnknown = 0]
  <2>1. a \in Adv /\ a.rid = NoRouter /\ (a.default <=> FirstUnknown = 0)
    BY DEF Adv
  <2>2. /\ advs' = Append(advs, a) /\ UNCHANGED <<mainVars, before, out, owner>>
        /\ owner = "lsu" /\ ~looking' /\ looking
    BY <1>7 DEF AnnounceDefault
  <2>3. Len(advs) < N /\ ~Complete(before[Len(advs)])
    BY <2>2 DEF ReadInv, Searching
  <2>4. before[0].routerId # NoRouter => neighbour[0].routerId # NoRouter
    BY DEF ReadInv, OnlyGrown, Grown, TypeOK, Entry
  <2>5. a.default /\ before[0].routerId # NoRouter =>
            \A i \in Iface : neighbour[i].routerId # NoRouter
    BY <1>0, <2>1, <2>4, NobodyUnknown
  <2> QED BY <1>5, <2>1, <2>2, <2>3, <2>5
<1> QED BY <1>1, <1>2, <1>3, <1>4, <1>6, <1>7 DEF Next

\* RegularReads and FalseDefaultIsTorn: whatever the HELLO handler writes between
\* two reads of the LSU thread, an LSU names those neighbours and no others whose HELLO
\* is stored, and once eth0 is known a false default route has one cause.
THEOREM ReadsRight == Spec => [](TypeOK /\ RegularReads /\ FalseDefaultIsTorn)
<1>1. ReadInv => TypeOK /\ RegularReads /\ FalseDefaultIsTorn
  BY DEF ReadInv
<1> QED BY <1>1, ReadInit, ReadStep, PTL DEF Spec

\* FalseDefaultIsTorn: once the neighbour on eth0 has been heard, an LSU claims the
\* default route of a router that has none only if the HELLO handler wrote between two
\* of its reads.  While eth0 is unknown, an LSU read in one piece does so too.
THEOREM FalseDefaultsAreTorn == Spec => []FalseDefaultIsTorn
<1> QED BY ReadsRight, PTL

-----------------------------------------------------------------------------
(* The numbers of the rounds.                                                *)

LEMMA CountInit == Init => CountInv
<1> SUFFICES ASSUME Init PROVE CountInv
  OBVIOUS
<1>1. Searching
  BY DEF Init, Searching
<1>2. Counted /\ NewsUnlessRestarted
  BY LinkStateAssumption DEF Init, Counted, NewsUnlessRestarted, Accepts, Iface
<1> QED BY <1>1, <1>2, TypeInit DEF CountInv

LEMMA CountStep == ReadInv /\ CountInv /\ [Next]_vars => CountInv'
<1> SUFFICES ASSUME ReadInv, CountInv, [Next]_vars PROVE CountInv'
  OBVIOUS
<1>0. TypeOK /\ TypeOK' /\ Searching /\ Searching'
  BY ReadStep DEF ReadInv
<1>1. SUFFICES ASSUME restarts' = 0, ~wrapped', NEW i \in Iface
               PROVE  /\ i < out' => seen'[i] <= seq'
                      /\ i >= out' => seen'[i] < seq'
  BY <1>0 DEF CountInv, Counted, NewsUnlessRestarted, Accepts
<1> USE LinkStateAssumption, IfaceFacts
<1>2. ASSUME UNCHANGED <<restarts, wrapped>>
      PROVE  /\ i < out => seen[i] <= seq
             /\ i >= out => seen[i] < seq
  BY <1>1, <1>2 DEF CountInv, Counted, NewsUnlessRestarted, Accepts
<1>3. CASE SendCopy
  <2>1. restarts = 0 /\ ~wrapped
    BY <1>1, <1>3 DEF SendCopy
  <2>2. /\ i < out => seen[i] <= seq
        /\ i >= out => seen[i] < seq
    BY <2>1 DEF CountInv, Counted, NewsUnlessRestarted, Accepts
  <2>3. seen'[i] = IF i = out THEN seq ELSE seen[i]
    <3>1. Accepts(out)
      BY <1>0, <2>1 DEF CountInv, NewsUnlessRestarted, TypeOK, Iface
    <3> QED BY <1>0, <1>3, <3>1 DEF SendCopy, TypeOK
  <2>4. CASE out < N - 1
    BY <1>0, <1>3, <2>2, <2>3, <2>4 DEF SendCopy, TypeOK, Iface
  <2>5. CASE ~(out < N - 1)
    <3>1. out' = 0 /\ seq' = NextSeq /\ seq # Wrap - 1
      BY <1>1, <1>3, <2>5 DEF SendCopy
    <3>2. seq' = seq + 1
      BY <1>0, <3>1, NextNumber
    <3> QED BY <1>0, <2>2, <2>3, <2>5, <3>1, <3>2, SMTT(30) DEF TypeOK, Iface
  <2> QED BY <2>4, <2>5
<1>4. CASE Restart
  BY <1>0, <1>1, <1>4 DEF Restart, TypeOK
<1>5. CASE BeginRound
  BY <1>0, <1>2, <1>5 DEF BeginRound, Searching, peerVars
<1>6. CASE \/ \E j \in Iface, s \in Router : Hello(j, s)
           \/ HelloIp \/ HelloNetMask \/ LearnLsu \/ Populate
           \/ LockHellos \/ UnlockHellos \/ UNCHANGED vars
  BY <1>2, <1>6 DEF Hello, HelloIp, HelloNetMask, LearnLsu, Populate, LockHellos, UnlockHellos,
                    vars, roundVars, peerVars
<1>7. CASE ReadLink \/ AnnounceDefault
  BY <1>2, <1>7 DEF ReadLink, AnnounceDefault, peerVars
<1> QED BY <1>3, <1>4, <1>5, <1>6, <1>7 DEF Next

\* NewsUnlessRestarted: only a restart, or numbers that have begun anew, make the
\* comparison with seqNbrSeen drop a round that is news.
THEOREM RoundsAreNews == Spec => []NewsUnlessRestarted
<1>1. CountInv => NewsUnlessRestarted
  BY DEF CountInv
<1> QED BY <1>1, ReadInit, ReadStep, CountInit, CountStep, PTL DEF Spec
=============================================================================
