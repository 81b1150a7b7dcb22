------------------------------ MODULE ArpCache ------------------------------
(***************************************************************************)
(* The ARP cache of the router: the array cached_mac_addresses of          *)
(* sr_router.c, the walk does_mac_address_exist makes over it and the two   *)
(* handlers that store into it.  An ARP request or reply goes through       *)
(* cache_mac_address, whose walk also refreshes what it finds expired; a    *)
(* PWOSPF HELLO goes through cacheMACForIp, whose walk does not.  Records   *)
(* are appended and never removed or reused.                               *)
(*                                                                         *)
(* Only the thread that runs sr_handlepacket touches the cache, so each     *)
(* handler is one step; the clock moves between steps.                      *)
(***************************************************************************)
EXTENDS Integers, FiniteSets

CONSTANTS
    IP,         \* addresses that appear as a sender in ARP or HELLO packets
    Mac,        \* hardware addresses
    ZeroLead,   \* those whose first byte is zero, which the code reads as "none"
    NoMac,      \* the all-zero answer of a walk that finds nothing
    ZeroIP,     \* 0.0.0.0, the address of a slot never written
    Limit,      \* ARP_CACHE_TIME_LIMIT, in ticks
    Size,       \* slots of the array
    MaxTime     \* bound on the clock

ASSUME CacheAssumption ==
    /\ ZeroLead \subseteq Mac
    /\ NoMac \notin Mac
    /\ Limit \in Nat \ {0}
    /\ Size \in Nat \ {0}
    /\ MaxTime \in Nat

VARIABLES
    slots,      \* cached_mac_addresses
    freePos,    \* free_pos_for_caching
    overrun,    \* the array was read or written past its end: anything may follow
    now,        \* gettimeofday
    born,       \* history: when the record of each slot was appended
    lastArp     \* history: when an ARP packet was last handled

vars == <<slots, freePos, overrun, now, born, lastArp>>

Slots == 0 .. Size - 1
Time == 0 .. MaxTime

Record == [ip : IP \cup {ZeroIP}, mac : Mac \cup {NoMac},
           entryTime : Time, valid : BOOLEAN]

Empty == [ip |-> ZeroIP, mac |-> NoMac, entryTime |-> 0, valid |-> FALSE]

TypeOK ==
    /\ slots \in [Slots -> Record]
    /\ freePos \in 0 .. Size
    /\ overrun \in BOOLEAN
    /\ now \in Time
    /\ born \in [Slots -> Time]
    /\ lastArp \in Time

Init ==
    /\ slots = [j \in Slots |-> Empty]
    /\ freePos = 0
    /\ overrun = FALSE
    /\ now = 0
    /\ born = [j \in Slots |-> 0]
    /\ lastArp = 0

-----------------------------------------------------------------------------
(* The walk.  Record j is examined when no earlier record answered and every *)
(* earlier one let the loop go on; a valid record of 0.0.0.0 stops it.       *)

Elapsed(j) == now - slots[j].entryTime

Answers(j, ip) == slots[j].valid /\ slots[j].ip = ip /\ Elapsed(j) < Limit

Passed(j, ip) == slots[j].valid /\ slots[j].ip # ZeroIP /\ ~Answers(j, ip)

\* The loop tests the record before the one it examines, and the first record
\* against itself.
Examined(j, ip) ==
    /\ slots[0].valid /\ slots[0].ip # ZeroIP
    /\ \A i \in 0 .. j - 1 : Passed(i, ip)

Answer(ip) == {j \in Slots : Examined(j, ip) /\ Answers(j, ip)}

\* What the caller sees: it takes a first byte of zero for a miss.
Found(ip) == \E j \in Answer(ip) : slots[j].mac \notin ZeroLead

Lookup(ip) ==
    IF Found(ip) THEN slots[CHOOSE j \in Answer(ip) : TRUE].mac ELSE NoMac

\* A walk that neither answers nor stops goes on behind the array.
RunsOff(ip) == \A j \in Slots : Passed(j, ip)

\* Fault: the record is restamped with the age instead of the time.
RefreshedToAge(ip) ==
    [j \in Slots |->
        IF slots[j].valid /\ Examined(j, ip)
        THEN [slots[j] EXCEPT !.entryTime = Elapsed(j)]
        ELSE slots[j]]

\* The refreshing walk restamps every expired record it examines, of any
\* address.  (It also stamps the free slot behind the last record, which the
\* append then overwrites.)
Refreshed(ip) ==
    [j \in Slots |->
        IF slots[j].valid /\ Examined(j, ip) /\ Elapsed(j) > Limit
        THEN [slots[j] EXCEPT !.entryTime = now]
        ELSE slots[j]]

\* Fault: the record is kept without the time it arrived.
NewRecordUntimed(ip, mac) ==
    [ip |-> ip, mac |-> mac, entryTime |-> 0, valid |-> TRUE]

NewRecord(ip, mac) ==
    [ip |-> ip, mac |-> mac, entryTime |-> now, valid |-> TRUE]

\* Fault: no look at what the walk found.
StoreAlways(ip, mac, walked) ==
    \/ /\ freePos < Size
       /\ slots' = [walked EXCEPT ![freePos] = NewRecord(ip, mac)]
       /\ born' = [born EXCEPT ![freePos] = now]
       /\ freePos' = freePos + 1
       /\ UNCHANGED overrun
    \/ /\ freePos = Size
       /\ overrun' = TRUE
       /\ UNCHANGED <<slots, freePos, born>>

\* Store ip -> mac unless the walk found something, over the array "walked"
\* the walk left behind.
Store(ip, mac, walked) ==
    \/ /\ Found(ip)
       /\ slots' = walked
       /\ UNCHANGED <<freePos, overrun, born>>
    \/ /\ ~Found(ip)
       /\ freePos < Size
       /\ slots' = [walked EXCEPT ![freePos] = NewRecord(ip, mac)]
       /\ born' = [born EXCEPT ![freePos] = now]
       /\ freePos' = freePos + 1
       /\ UNCHANGED overrun
    \/ /\ ~Found(ip)
       /\ freePos = Size
       /\ overrun' = TRUE
       /\ UNCHANGED <<slots, freePos, born>>

-----------------------------------------------------------------------------

\* cache_mac_address: the sender of an ARP request or reply.
LearnFromArp(ip, mac) ==
    /\ ~overrun
    /\ Store(ip, mac, Refreshed(ip))
    /\ lastArp' = now
    /\ UNCHANGED now

\* Fault: the walk of a HELLO restamps as well.
LearnFromHelloRestamping(ip, mac) ==
    /\ ~overrun
    /\ Store(ip, mac, Refreshed(ip))
    /\ UNCHANGED <<now, lastArp>>

\* cacheMACForIp: the sender of a HELLO.
LearnFromHello(ip, mac) ==
    /\ ~overrun
    /\ Store(ip, mac, slots)
    /\ UNCHANGED <<now, lastArp>>

\* A lookup of the forwarding code only changes something when it runs off.
LookupRunsOff(ip) ==
    /\ ~overrun
    /\ RunsOff(ip)
    /\ overrun' = TRUE
    /\ UNCHANGED <<slots, freePos, now, born, lastArp>>

Tick ==
    /\ ~overrun
    /\ now < MaxTime
    /\ now' = now + 1
    /\ UNCHANGED <<slots, freePos, overrun, born, lastArp>>

Next ==
    \/ \E ip \in IP, mac \in Mac : LearnFromArp(ip, mac) \/ LearnFromHello(ip, mac)
    \/ \E ip \in IP : LookupRunsOff(ip)
    \/ Tick

Spec == Init /\ [][Next]_vars

-----------------------------------------------------------------------------
(* Properties.  A regular address is one the walk can be trusted about: no   *)
(* record of 0.0.0.0 stops it and no record of the address reads as a miss.  *)

Regular(ip) ==
    \A j \in Slots : slots[j].valid =>
        slots[j].ip # ZeroIP /\ (slots[j].ip = ip => slots[j].mac \notin ZeroLead)

\* Two records of one address were appended at least Limit apart: while a
\* record is live the handlers never append a second one, however the walks of
\* other addresses restamp the array (the check in cache_mac_address and
\* cacheMACForIp before they store).
BornApart ==
    \A i, j \in Slots :
        (/\ i < j /\ slots[j].valid
         /\ slots[i].ip = slots[j].ip /\ Regular(slots[i].ip))
        => born[j] - born[i] >= Limit

\* A record older than the limit still answers only if an ARP packet, of any
\* host, was handled less than Limit ago: the restamping in
\* does_mac_address_exist is the one way a stale record comes back.
StaleNeedsArp ==
    \A ip \in IP : \A j \in Answer(ip) :
        now - born[j] >= Limit => now - lastArp < Limit

\* How soon the array of 100 can run over: not before every address seen can
\* have been appended once per Limit (free_pos_for_caching has no bound check
\* and expired slots are not reused).
NoEarlyOverrun ==
    (overrun /\ \A ip \in IP : Regular(ip))
        => Size <= Cardinality(IP \ {ZeroIP}) * (now \div Limit + 1)

\* After an ARP or HELLO handler the sender is found, whatever expired records
\* of it the walk passed or restamped: the flush of waiting packets that
\* follows an ARP reply relies on it.
LearnedIsFound ==
    [][\A ip \in IP :
          (/\ \E mac \in Mac : LearnFromArp(ip, mac) \/ LearnFromHello(ip, mac)
           /\ ~overrun' /\ Regular(ip)')
          => Found(ip)']_vars

\* Only the clock makes an address unknown: handling a packet of one host, and
\* restamping the records it passes, never loses the answer for another.
OnlyTimeForgets ==
    [][\A ip \in IP :
          (Found(ip) /\ now' = now /\ ~overrun' /\ Regular(ip)') => Found(ip)']_vars

\* The timeout the README promises: an answer comes from a record younger than
\* the limit, or one as young as that says the same.
NoStaleAnswer ==
    \A ip \in IP : \A j \in Answer(ip) : \E k \in Slots :
        /\ slots[k].valid /\ slots[k].ip = ip /\ slots[k].mac = slots[j].mac
        /\ now - born[k] < Limit
=============================================================================
