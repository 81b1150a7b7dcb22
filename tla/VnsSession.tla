----------------------------- MODULE VnsSession -----------------------------
(***************************************************************************)
(* The life of one router process (main() of sr_main.c): load a routing       *)
(* table, connect to the VNS server, authenticate, open a host or a template, *)
(* then read commands until one of them fails (sr_vns_comm.c).  The hardware  *)
(* information builds the interface list (sr_if.c) and starts PWOSPF, whose   *)
(* threads then send on every interface and whose LSUs add to the table.      *)
(*                                                                         *)
(* The server is outside: it may send any command at any time and close the   *)
(* session.  One command is read and handled in one step of the main thread,  *)
(* but for the hardware information: the list it extends is walked by the     *)
(* threads of an earlier one, so it is told entry by entry.                   *)
(***************************************************************************)
EXTENDS Integers, Sequences

Sequence == INSTANCE SequencesExt

CONSTANTS
    Name,       \* interfaces, by the digit of their names: 0 is eth0
    Mac,        \* hardware addresses, as integers
    Ip,         \* IP addresses, as the integers the code compares
    Host,       \* virtual hosts
    DefaultHost,
    Unset,      \* an address of a new record, not or not wholly told: what malloc left
    NoFile,
    Files,      \* contents of routing table files: one interface per line
    Hardware,   \* contents of VNSHWINFO commands
    MaxInits,   \* bound on the VNSHWINFO commands of a session
    MaxRoutes   \* bound on a table that LSUs add to

\* Lines that are no route: an empty one, and one with an address inet_aton refuses.
Blank == -1
Garbled == -2

Entry == [key : {"name"}, value : Name] \cup [key : {"ip"}, value : Ip]
            \cup [key : {"addr"}, value : Mac]

\* The server names an interface, then gives it both its addresses, in either order.
Orderly(h) ==
    /\ h \in Seq(Entry) /\ Len(h) % 3 = 0
    /\ \A i \in DOMAIN h : /\ h[i].key = "name" <=> i % 3 = 1
                           /\ i % 3 = 2 => h[i + 1].key # h[i].key

ASSUME VnsSessionAssumption ==
    /\ Name \subseteq 0 .. 9 /\ DefaultHost \in Host
    /\ Ip \subseteq Nat \ {0} /\ Mac \subseteq Nat /\ Unset \in Nat \ (Ip \cup Mac)
    /\ Files \subseteq Seq(Name \cup {Blank, Garbled})
    /\ NoFile \notin Files
    /\ \A h \in Hardware : Orderly(h)
    /\ MaxInits \in Nat /\ MaxRoutes \in Nat

VARIABLES
    phase,      \* where the main thread is
    template,   \* whether the program was started with -T
    host,       \* its virtual host, -v
    file,       \* the files rtable.<host> of the working directory
    offered,    \* the table the server sent while connecting, and the host it named
    rt,         \* the interfaces of routing_table, in order
    dynamic,    \* isDynamicMode
    hw,         \* the hardware information being handled
    told,       \* how many of its entries have been
    ifList,     \* if_list
    inits,      \* calls of pwospf_init
    ifaceCount,
    routerId,   \* routerIdDup
    asked,      \* ARP requests handed to the router: interface, target address
    sent        \* frames sent: interface, source address

vars == <<phase, template, host, file, offered, rt, dynamic, hw, told, ifList, inits,
          ifaceCount, routerId, asked, sent>>

started == <<template, host>>
table == <<file, offered, rt>>
telling == <<hw, told>>
hardware == <<telling, ifList, inits, ifaceCount, routerId>>
traffic == <<asked, sent>>

Interface == [name : Name, ip : Ip, addr : Mac]
Record == [name : Name, ip : Ip \cup {Unset}, addr : Mac \cup {Unset}]

Phase == {"start", "request", "status", "rtable", "loop", "hwinfo", "ended"}

TypeOK ==
    /\ phase \in Phase
    /\ template \in BOOLEAN /\ host \in Host /\ dynamic \in BOOLEAN
    /\ file \in [Host -> Files \cup {NoFile}]
    /\ offered \in [host : Host, table : Files] \cup {NoFile}
    /\ rt \in Seq(Name)
    /\ hw \in Hardware \cup {<<>>} /\ told \in 0 .. Len(hw)
    /\ ifList \in Seq(Record)
    /\ phase = "loop" => ifList \in Seq(Interface)
    /\ inits \in Nat /\ ifaceCount \in Nat
    /\ routerId \in Ip \cup {0}
    /\ asked \subseteq Name \X Ip
    /\ sent \subseteq Name \X (Mac \cup {Unset})

-----------------------------------------------------------------------------
(* Routing table files.                                                      *)

\* An empty line stops the reading: sscanf returns EOF.
Lines(f) ==
    IF Blank \in Sequence!Range(f)
    THEN SubSeq(f, 1, Sequence!SelectInSeq(f, LAMBDA line : line = Blank) - 1)
    ELSE f

Loads(f) == f # NoFile /\ Garbled \notin Sequence!Range(Lines(f))

-----------------------------------------------------------------------------
(* The interface list.                                                       *)

\* Fault: the last record of a name.
LookupLast(name) == Sequence!SelectLastInSeq(ifList, LAMBDA i : i.name = name)

\* The record a name stands for: the first in the list.
Lookup(name) == Sequence!SelectInSeq(ifList, LAMBDA i : i.name = name)

\* Fault: the keys describe the first interface.
SetFirst(list, key, value) == [list EXCEPT ![1] = [@ EXCEPT ![key] = value]]

\* The keys describe the interface that was added last (its mask too).
Set(list, key, value) == [list EXCEPT ![Len(list)] = [@ EXCEPT ![key] = value]]

Add(list, name) == Append(list, [name |-> name, ip |-> Unset, addr |-> Unset])

Tell(list, entry) ==
    IF entry.key = "name" THEN Add(list, entry.value) ELSE Set(list, entry.key, entry.value)

\* Fault: one route on an interface is enough.
VerifiedSome(list, routes) ==
    list = <<>> \/ routes = <<>>
        \/ \E n \in Sequence!Range(routes) : \E i \in DOMAIN list : list[i].name = n

\* Every route is on an interface; an empty list or table passes.
Verified(list, routes) ==
    list = <<>> \/ routes = <<>>
        \/ \A n \in Sequence!Range(routes) : \E i \in DOMAIN list : list[i].name = n

-----------------------------------------------------------------------------
(* PWOSPF as far as the session sets it up.                                  *)

\* Fault: the mode is that of the table as it is now.
ModeByTable(routes) == Len(routes) <= 1

\* Nothing ever leaves the dynamic mode.
Mode(routes) == dynamic \/ Len(routes) <= 1

SmallestIp(list) ==
    LET id[k \in 0 .. Len(list)] ==
            IF k = 0 THEN 0
            ELSE IF id[k - 1] = 0 \/ list[k].ip < id[k - 1] THEN list[k].ip
            ELSE id[k - 1]
    IN  id[Len(list)]

\* Fault: routerIdDup is not reset, so only the first call counts.
CountedFirst(list) == IF routerId = 0 THEN Len(list) ELSE ifaceCount

\* The interfaces are counted on top of those of an earlier call.
Counted(list) == ifaceCount + Len(list)

PwospfInit(list) ==
    /\ inits' = inits + 1
    /\ dynamic' = Mode(rt)
    /\ IF dynamic'
       THEN /\ ifaceCount' = Counted(list)
            /\ routerId' = SmallestIp(list)
            /\ rt' = rt \o [i \in DOMAIN list |-> list[i].name]
       ELSE UNCHANGED <<ifaceCount, routerId, rt>>

-----------------------------------------------------------------------------
(* The main thread.                                                          *)

Init ==
    /\ phase = "start"
    /\ template \in BOOLEAN /\ host \in Host
    /\ file \in [Host -> Files \cup {NoFile}]
    /\ offered = NoFile
    /\ rt = <<>> /\ dynamic = FALSE
    /\ hw = <<>> /\ told = 0
    /\ ifList = <<>> /\ inits = 0 /\ ifaceCount = 0 /\ routerId = 0
    /\ asked = {} /\ sent = {}

Running == phase \in {"request", "status", "rtable", "loop", "hwinfo"}

\* sr_load_rt. Without -T the table is that of -r, which the README names after the host.
Start ==
    /\ phase = "start"
    /\ \/ template /\ phase' = "request" /\ UNCHANGED rt
       \/ /\ ~template /\ Loads(file[host])
          /\ rt' = Lines(file[host])
          /\ phase' = "request"
       \/ /\ ~template /\ ~Loads(file[host])
          /\ phase' = "ended" /\ UNCHANGED rt
    /\ UNCHANGED <<started, file, offered, dynamic, hardware, traffic>>

\* sr_init decides on the mode before the first command of the loop.
EnterLoop(routes) ==
    /\ phase' = "loop"
    /\ rt' = routes
    /\ dynamic' = Mode(routes)

\* Connecting, sending or a command fails, the server closes the session or goes
\* away, or a command comes that is not the one expected; or another thread follows
\* the next field of a record before sr_add_interface has set it.
End ==
    /\ Running
    /\ phase' = "ended"
    /\ UNCHANGED <<started, table, dynamic, hardware, traffic>>

\* VNS_AUTH_REQUEST: the key file is read and the reply sent.  In the loop this and
\* an accepted VNS_AUTH_STATUS change nothing.
AuthRequest ==
    /\ phase = "request"
    /\ phase' = "status"
    /\ UNCHANGED <<started, table, dynamic, hardware, traffic>>

\* VNS_AUTH_STATUS, accepted; the host or template is opened.
AuthStatus ==
    /\ phase = "status"
    /\ IF template THEN phase' = "rtable" /\ UNCHANGED <<rt, dynamic>> ELSE EnterLoop(rt)
    /\ UNCHANGED <<started, file, offered, hardware, traffic>>

\* Fault: the file is read before the new one is written.
RtableReadFirst(f, id) ==
    /\ phase \in {"rtable", "loop"}
    /\ file' = [file EXCEPT ![id] = f]
    /\ \/ phase = "loop" /\ UNCHANGED <<phase, offered, rt, dynamic>>
       \/ /\ phase = "rtable"
          /\ offered' = [host |-> id, table |-> f]
          /\ IF Loads(file[DefaultHost])
             THEN EnterLoop(Lines(file[DefaultHost]))
             ELSE phase' = "ended" /\ UNCHANGED <<rt, dynamic>>
    /\ UNCHANGED <<started, hardware, traffic>>

\* VNS_RTABLE: the table is written under the host the command names; when connecting
\* to a template, the file of the default host is then read, whether it was that one
\* or not.
Rtable(f, id) ==
    /\ phase \in {"rtable", "loop"}
    /\ file' = [file EXCEPT ![id] = f]
    /\ \/ phase = "loop" /\ UNCHANGED <<phase, offered, rt, dynamic>>
       \/ /\ phase = "rtable"
          /\ offered' = [host |-> id, table |-> f]
          /\ IF Loads(file'[DefaultHost])
             THEN EnterLoop(Lines(file'[DefaultHost]))
             ELSE phase' = "ended" /\ UNCHANGED <<rt, dynamic>>
    /\ UNCHANGED <<started, hardware, traffic>>

\* VNSHWINFO is read, ...
HwInfo(h) ==
    /\ phase = "loop" /\ inits < MaxInits
    /\ phase' = "hwinfo" /\ hw' = h /\ told' = 0
    /\ UNCHANGED <<started, table, dynamic, ifList, inits, ifaceCount, routerId, traffic>>

\* ... the list grows by one entry after another, ...
TellEntry ==
    /\ phase = "hwinfo" /\ told < Len(hw)
    /\ told' = told + 1
    /\ ifList' = Tell(ifList, hw[told + 1])
    /\ UNCHANGED <<phase, started, table, dynamic, hw, inits, ifaceCount, routerId, traffic>>

\* ... it is checked against the table, and PWOSPF starts.
Verify ==
    /\ phase = "hwinfo" /\ told = Len(hw)
    /\ hw' = <<>> /\ told' = 0
    /\ IF Verified(ifList, rt)
       THEN PwospfInit(ifList) /\ phase' = "loop"
       ELSE phase' = "ended" /\ UNCHANGED <<rt, dynamic, inits, ifaceCount, routerId>>
    /\ UNCHANGED <<started, file, offered, ifList, traffic>>

\* VNSPACKET, an LSU: populateRoutingTable adds routes by the names in neighbour[],
\* whose entry k is called eth k.  The entry is that of the router the subnet was
\* learnt through, heard on an interface that has been told, or else entry 0.
LearnRoutes(names) ==
    /\ phase = "loop" /\ dynamic /\ inits > 0 /\ ifList # <<>>
    /\ Len(rt) + Len(names) <= MaxRoutes
    /\ \A n \in Sequence!Range(names) : n < ifaceCount /\ (n = 0 \/ Lookup(n) # 0)
    /\ rt' = rt \o names
    /\ UNCHANGED <<phase, started, file, offered, dynamic, hardware, traffic>>

\* VNSPACKET, an ARP request: handed on if it asks for the interface it came in on;
\* a name nobody has told aborts the process (assert).
ArpRequest(name, ip) ==
    /\ phase = "loop"
    /\ LET i == Lookup(name) IN
        \/ i = 0 /\ phase' = "ended" /\ UNCHANGED asked
        \/ i # 0 /\ ip = ifList[i].ip /\ asked' = asked \cup {<<name, ip>>} /\ UNCHANGED phase
    /\ UNCHANGED <<started, table, dynamic, hardware, sent>>

\* Fault: the address of any interface will do.
MatchesSome(i) == \E j \in DOMAIN ifList : ifList[j].addr = ifList[i].addr

\* sr_send_packet refuses a frame whose source is not the address of the interface
\* it names.
Matches(i) == ifList[Lookup(ifList[i].name)].addr = ifList[i].addr

\* The HELLO and the LSU thread walk the list and send a frame on each record, also
\* while the main thread extends it.
SendHello(i) ==
    /\ dynamic /\ inits > 0 /\ phase \in {"loop", "hwinfo"}
    /\ Matches(i)
    /\ sent' = sent \cup {<<ifList[i].name, ifList[i].addr>>}
    /\ UNCHANGED <<phase, started, table, dynamic, hardware, asked>>

Next ==
    \/ Start \/ End \/ AuthRequest \/ AuthStatus \/ TellEntry \/ Verify
    \/ \E f \in Files, id \in Host : Rtable(f, id)
    \/ \E h \in Hardware : HwInfo(h)
    \/ \E names \in Sequence!SeqOf(Name, MaxRoutes) : LearnRoutes(names)
    \/ \E name \in Name, ip \in Ip : ArpRequest(name, ip)
    \/ \E i \in DOMAIN ifList : SendHello(i)

Spec == Init /\ [][Next]_vars

-----------------------------------------------------------------------------

\* The router never forwards by a table that names an interface it does not have:
\* table, hardware and LSUs come from three sources, in any order.  A dynamic router
\* needs an eth0 for that: routes learnt through nobody go out there, told or not.
TableOnInterfaces ==
    phase = "loop" /\ inits > 0 /\ ifList # <<>> /\ (dynamic => Lookup(0) # 0) =>
        \A n \in Sequence!Range(rt) : Lookup(n) # 0

\* The router stays static or dynamic once its loop has begun, though the table
\* the mode is read from grows and is read again by every pwospf_init.
ModeStays == [][phase = "loop" \/ phase = "hwinfo" => dynamic' = dynamic]_vars

\* Once PWOSPF runs, the digit of an interface's name is an index into neighbour[],
\* as handleHelloPackets takes it to be, if no lower digit is left out (eth1 alone is
\* beyond the one entry the router then makes); and the router is known by an address
\* of its own ("You may assume that the interfaces have been created and initialized
\* by this point", pwospf_init).
ReadyForPwospf ==
    phase = "loop" /\ dynamic /\ inits > 0 =>
        /\ \A n \in Name : (\A m \in 0 .. n : Lookup(m) # 0) => n < ifaceCount
        /\ ifList # <<>> => \E i \in DOMAIN ifList : ifList[i].ip = routerId

\* An interface speaks with one hardware address, whatever later hardware information
\* says of its name, and it is the address the router finds it by; but for the frames
\* sent on a new interface before its address was told.
OneSource == \A f \in sent : f[2] \in {Unset, ifList[Lookup(f[1])].addr}

\* An ARP request that reached the router asked for the address the router still
\* answers for on that interface.
ArpForOwnAddress == \A a \in asked : ifList[Lookup(a[1])].ip = a[2]

\* With a template the router uses the table it was sent in this session, not the one
\* an earlier session left in the directory, if the server names the default host.
OwnTableUsed ==
    phase = "loop" /\ template =>
        (offered.host = DefaultHost => Sequence!IsPrefix(Lines(offered.table), rt))
=============================================================================
