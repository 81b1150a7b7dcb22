\* Three slots; a record lives for one tick, and the clock ticks once.
SPECIFICATION Spec
CONSTANTS
    C = C
    G = G
    S = S
    R = R
    mg = mg
    ms = ms
    m0 = m0
    IP = {C, G, S, R}
    Mac = {mg, ms, m0}
    ZeroLead = {m0}
    NoMac = noMac
    ZeroIP = zeroIP
    Limit = 1
    Size = 3
    MaxTime = 1
    Packet <- MCPacket
    Own = {R}
    Local = {S}
    MacsOf <- MCMacs
    Starts <- MCStarts
    AskCap = 1
CHECK_DEADLOCK FALSE
INVARIANTS TypeOK TtlPaysForCopies StrayCopyIsLast WaitersAskedOrSpent CrashNeedsStranger
PROPERTIES InboundDelivery FlushEndsWhileKnown
