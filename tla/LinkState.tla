------------------------------ MODULE LinkState ------------------------------
(***************************************************************************)
(* Inside one router of sr_pwospf.c in dynamic mode: the main thread, which   *)
(* runs the HELLO and LSU handlers, the HELLO thread and the LSU thread, and  *)
(* the one mutex between them.  The LSU thread holds the mutex for a whole    *)
(* round and the HELLO handler never takes it, so each assignment of the      *)
(* handler and each read of the round is a step here.  (The build does not    *)
(* optimise and x86 keeps the order of stores, so no reordering is added.)    *)
(*                                                                         *)
(* At the other ends of the links are routers that compare the number of a    *)
(* round, 16 bits on the wire, with the last one they have seen of us.  What  *)
(* they do with an LSU, and what happens on the way, is PwospfNetwork.        *)
(***************************************************************************)
EXTENDS Integers, Sequences, FiniteSets

CONSTANTS
    N,          \* ifaceCount
    Router,     \* router ids of others
    NoRouter,   \* the router id 0: nobody
    Topologies, \* for every interface the routers whose HELLOs arrive there
    Agreeing,   \* routers that use our netmask and HELLO interval
    Wrap,       \* 2^16: the numbers of rounds fit in 16 bits
    MaxRestarts \* bound on restarts of the process

Iface == 0 .. N - 1

ASSUME LinkStateAssumption ==
    /\ N \in Nat \ {0}
    /\ NoRouter \notin Router
    /\ Topologies \subseteq [Iface -> SUBSET Router]
    /\ Agreeing \subseteq Router
    /\ Wrap \in Nat \ {0, 1}
    /\ MaxRestarts \in Nat

VARIABLES
    far,        \* who is out there
    neighbour,  \* neighbour[]; of ip and netMask only whether they are written
    main,       \* the main thread: idle, the assignment of a HELLO that is next,
                \* or waiting for the mutex at the end of an LSU
    current,    \* the interface of the HELLO being handled
    owner,      \* who holds ospf_subsys->lock
    out,        \* the interface the round builds an LSU for
    advs,       \* that LSU so far
    before,     \* history: neighbour when that LSU was begun
    looking,    \* the LSU thread has found nobody on the next link
    seq,        \* seqCountLsu as it goes on the wire
    seen,       \* seqNbrSeen of us, at the far end of every interface
    learnt,     \* the links that end knows our neighbours of
    wrapped,    \* history: the number has passed the last one
    restarts    \* history: restarts so far

mainVars == <<neighbour, main, current>>
roundVars == <<out, advs, before, looking>>
peerVars == <<seen, learnt>>
vars == <<far, mainVars, owner, roundVars, seq, peerVars, wrapped, restarts>>

Entry == [routerId : Router \cup {NoRouter}, ip : BOOLEAN, netMask : BOOLEAN]

\* One advertised link: default is set where it is announced as 0.0.0.0/0.
Adv == [rid : Router \cup {NoRouter}, default : BOOLEAN]

Nobody == [routerId |-> NoRouter, ip |-> FALSE, netMask |-> FALSE]

Complete(e) == e.routerId # NoRouter /\ e.ip /\ e.netMask

TypeOK ==
    /\ far \in Topologies
    /\ neighbour \in [Iface -> Entry] /\ before \in [Iface -> Entry]
    /\ main \in {"idle", "ip", "netMask", "lock"}
    /\ current \in Iface
    /\ owner \in {"none", "hello", "lsu"}
    /\ out \in Iface
    /\ advs \in Seq(Adv) /\ Len(advs) <= N
    /\ looking \in BOOLEAN
    /\ seq \in 0 .. Wrap - 1
    /\ seen \in [Iface -> 0 .. Wrap - 1]
    /\ learnt \in [Iface -> SUBSET Iface]
    /\ wrapped \in BOOLEAN
    /\ restarts \in 0 .. MaxRestarts

\* pwospf_init and initializeAllValues: the state of a process that has just
\* started.
Fresh == [i \in Iface |-> Nobody]

Init ==
    /\ far \in Topologies
    /\ neighbour = Fresh /\ main = "idle" /\ current = 0
    /\ owner = "none"
    /\ out = 0 /\ advs = << >> /\ before = Fresh /\ looking = FALSE
    /\ seq = 1
    /\ seen = [i \in Iface |-> 0]
    /\ learnt = [i \in Iface |-> {}]
    /\ wrapped = FALSE
    /\ restarts = 0

-----------------------------------------------------------------------------
(* The main thread.                                                          *)

\* handleHelloPackets takes the first router it hears with our mask and interval;
\* routerId is assigned first.  A later HELLO only touches a time stamp nobody
\* reads.
Hello(i, s) ==
    /\ main = "idle"
    /\ s \in far[i] \cap Agreeing
    /\ neighbour[i].routerId = NoRouter
    /\ neighbour' = [neighbour EXCEPT ![i].routerId = s]
    /\ main' = "ip" /\ current' = i
    /\ UNCHANGED <<far, owner, roundVars, seq, peerVars, wrapped, restarts>>

HelloIp ==
    /\ main = "ip"
    /\ neighbour' = [neighbour EXCEPT ![current].ip = TRUE]
    /\ main' = "netMask"
    /\ UNCHANGED <<far, current, owner, roundVars, seq, peerVars, wrapped, restarts>>

HelloNetMask ==
    /\ main = "netMask"
    /\ neighbour' = [neighbour EXCEPT ![current].netMask = TRUE]
    /\ main' = "idle"
    /\ UNCHANGED <<far, current, owner, roundVars, seq, peerVars, wrapped, restarts>>

\* handleLsuPacket has learnt an LSU and wants the mutex for the routing table.
LearnLsu ==
    /\ main = "idle"
    /\ main' = "lock"
    /\ UNCHANGED <<far, neighbour, current, owner, roundVars, seq, peerVars, wrapped, restarts>>

\* It gets the mutex, runs populateRoutingTable and returns it.
Populate ==
    /\ main = "lock" /\ owner = "none"
    /\ main' = "idle"
    /\ UNCHANGED <<far, neighbour, current, owner, roundVars, seq, peerVars, wrapped, restarts>>

-----------------------------------------------------------------------------
(* The HELLO thread and the LSU thread.                                       *)

\* sendHellos: one round of HELLOs.
LockHellos ==
    /\ owner = "none" /\ owner' = "hello"
    /\ UNCHANGED <<far, mainVars, roundVars, seq, peerVars, wrapped, restarts>>

UnlockHellos ==
    /\ owner = "hello" /\ owner' = "none"
    /\ UNCHANGED <<far, mainVars, roundVars, seq, peerVars, wrapped, restarts>>

\* sendLSUPacket wakes up and begins the LSU for the first interface.
BeginRound ==
    /\ owner = "none" /\ owner' = "lsu"
    /\ out' = 0 /\ advs' = << >> /\ before' = neighbour
    /\ UNCHANGED <<far, mainVars, looking, seq, peerVars, wrapped, restarts>>

\* Fault: the far end is named as soon as its routerId is there.
NamedByRouterId(i) == neighbour[i].routerId

\* Fault: the last entry is not compared.
NamedButLast(i) ==
    IF i < N - 1 /\ neighbour[i].ip /\ neighbour[i].netMask
    THEN neighbour[i].routerId ELSE NoRouter

\* findRouterIdForNeighbourFromSubNet on the subnet of interface i: the entry
\* whose ip and netMask give that subnet.
Named(i) == IF neighbour[i].ip /\ neighbour[i].netMask THEN neighbour[i].routerId ELSE NoRouter

\* One turn of the loop over the links.
ReadLink ==
    /\ owner = "lsu" /\ Len(advs) < N /\ ~looking
    /\ IF Named(Len(advs)) = NoRouter
       THEN looking' = TRUE /\ UNCHANGED advs
       ELSE /\ advs' = Append(advs, [rid |-> Named(Len(advs)), default |-> FALSE])
            /\ UNCHANGED looking
    /\ UNCHANGED <<far, mainVars, owner, out, before, seq, peerVars, wrapped, restarts>>

\* Fault: the last entry is not looked at.
FirstUnknownButLast ==
    IF \E i \in 0 .. N - 2 : neighbour[i].routerId = NoRouter
    THEN CHOOSE i \in 0 .. N - 2 :
            neighbour[i].routerId = NoRouter /\ \A j \in 0 .. i - 1 : neighbour[j].routerId # NoRouter
    ELSE 0

\* findNeighborUsingRouterId(0): the first entry without a router, or 0.
FirstUnknown ==
    IF \E i \in Iface : neighbour[i].routerId = NoRouter
    THEN CHOOSE i \in Iface :
            neighbour[i].routerId = NoRouter /\ \A j \in 0 .. i - 1 : neighbour[j].routerId # NoRouter
    ELSE 0

\* A link to nobody is announced as the default route when the first entry
\* without a router is that of eth0.
AnnounceDefault ==
    /\ owner = "lsu" /\ looking
    /\ advs' = Append(advs, [rid |-> NoRouter, default |-> FirstUnknown = 0])
    /\ looking' = FALSE
    /\ UNCHANGED <<far, mainVars, owner, out, before, seq, peerVars, wrapped, restarts>>

\* What the handleLsuPacket at the other end does not drop.
Accepts(i) == seen[i] < seq

NamedLinks == {i \in Iface : advs[i + 1].rid # NoRouter}

\* Fault: the number is not counted on.
NextSeqKept == seq

NextSeq == (seq + 1) % Wrap

\* The LSU goes out and arrives; the next one is begun, or the round is over: the
\* mutex is returned and the number counted on.
SendCopy ==
    /\ owner = "lsu" /\ Len(advs) = N
    /\ IF Accepts(out)
       THEN /\ seen' = [seen EXCEPT ![out] = seq]
            /\ learnt' = [learnt EXCEPT ![out] = @ \cup NamedLinks]
       ELSE UNCHANGED peerVars
    /\ advs' = << >> /\ before' = neighbour
    /\ IF out < N - 1
       THEN out' = out + 1 /\ UNCHANGED <<owner, seq, wrapped>>
       ELSE /\ out' = 0 /\ owner' = "none"
            /\ seq' = NextSeq
            /\ wrapped' = (wrapped \/ seq = Wrap - 1)
    /\ UNCHANGED <<far, mainVars, looking, restarts>>

-----------------------------------------------------------------------------

\* The process is started again; the others keep what they know.
Restart ==
    /\ restarts < MaxRestarts
    /\ restarts' = restarts + 1
    /\ neighbour' = Fresh /\ main' = "idle" /\ current' = 0
    /\ owner' = "none"
    /\ out' = 0 /\ advs' = << >> /\ before' = Fresh /\ looking' = FALSE
    /\ seq' = 1
    /\ UNCHANGED <<far, peerVars, wrapped>>

Next ==
    \/ \E i \in Iface, s \in Router : Hello(i, s)
    \/ HelloIp \/ HelloNetMask
    \/ LearnLsu \/ Populate
    \/ LockHellos \/ UnlockHellos
    \/ BeginRound \/ ReadLink \/ AnnounceDefault \/ SendCopy
    \/ Restart

\* Every thread goes on.  HELLOs keep coming and wait in the socket until the main
\* thread reads them, and whoever waits for the mutex gets it in the end: the
\* other threads sleep for seconds without it.
Fairness ==
    /\ \A i \in Iface : SF_vars(\E s \in Router : Hello(i, s))
    /\ WF_vars(HelloIp) /\ WF_vars(HelloNetMask)
    /\ SF_vars(Populate)
    /\ WF_vars(UnlockHellos)
    /\ SF_vars(BeginRound)
    /\ WF_vars(ReadLink) /\ WF_vars(AnnounceDefault) /\ WF_vars(SendCopy)

Spec == Init /\ [][Next]_vars /\ Fairness

-----------------------------------------------------------------------------
(* Properties.                                                               *)

\* However a HELLO is being stored meanwhile, the LSU being built names, for each
\* link read so far, a router whose HELLO has been stored by now, and misses none
\* that was stored when it was begun: no half-written entry is named
\* (handleHelloPackets against sendLSUPacket).
RegularReads ==
    \A k \in DOMAIN advs :
        /\ advs[k].rid # NoRouter =>
              Complete(neighbour[k - 1]) /\ advs[k].rid = neighbour[k - 1].routerId
        /\ Complete(before[k - 1]) => advs[k].rid = before[k - 1].routerId

\* A half-written entry can still be mistaken for a link to the firewall, but only
\* so: once the neighbour on eth0 has been heard, a link is announced as the
\* default route only if its own HELLO was being stored during the LSU and all
\* other neighbours have been heard (lines 797 to 803 against 871 to 875).
FalseDefaultIsTorn ==
    \A k \in DOMAIN advs :
        advs[k].default /\ before[0].routerId # NoRouter =>
            /\ ~Complete(before[k - 1])
            /\ \A i \in Iface : neighbour[i].routerId # NoRouter

\* A round is news to a router that has not had its LSU yet, unless this process
\* was started again or its numbers have begun anew: only these two make
\* seqNbrSeen >= seq drop what it should not.
NewsUnlessRestarted ==
    restarts = 0 /\ ~wrapped =>
        \A i \in Iface : i >= out => Accepts(i)

\* The links on which a router sends HELLOs we take.
Heard == {i \in Iface : far[i] \cap Agreeing # {}}

\* The last number there is is still to come and news to everybody.
NumbersLeft ==
    /\ owner = "lsu" => seq < Wrap - 1
    /\ \A i \in Iface : seen[i] < Wrap - 1

\* Every neighbour is stored in the end: the main thread is not blocked for good by
\* those that hold the mutex.  And then all others come to know all our neighbours as
\* long as the numbers do not run out: whatever was read half-written, and also
\* after a restart, when they drop our rounds until our numbers pass what they
\* have seen.  A later round makes up for what one missed.
AllLearnt ==
    /\ <>[](\A i \in Heard : Complete(neighbour[i]))
    /\ \A k \in 0 .. MaxRestarts :
        (restarts = k /\ NumbersLeft /\ \A i \in Heard : Complete(neighbour[i]))
            ~> (restarts # k \/ \A i \in Iface : learnt[i] = Heard)
=============================================================================
