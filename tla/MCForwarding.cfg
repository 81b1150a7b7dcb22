SPECIFICATION Spec
CONSTANTS
    C = C
    G = G
    S = S
    N = N
    T = T
    R = R
    mg = mg
    ms = ms
    mn = mn
    m0 = m0
    IP = {C, G, S, N, T, R}
    Mac = {mg, ms, mn, m0}
    ZeroLead = {m0}
    NoMac = noMac
    ZeroIP = zeroIP
    Nowhere = nowhere
    Limit = 2
    Size = 3
    MaxTime = 2
    Packet <- MixedPackets
    Own = {R}
    MacsOf <- OneGatewayMacs
    Neighbors = {G}
    Starts <- OneGatewayStart
    Learnable <- NoRoutes
    AskCap = 2
CHECK_DEADLOCK FALSE
INVARIANTS NoForgottenWaiter
PROPERTIES DeliverySpec ArpSpec FlushEndsWhileKnown
