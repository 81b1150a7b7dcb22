SPECIFICATION Spec
CONSTANTS
    C = C
    G = G
    S = S
    N = N
    T = T
    R = R
    mg = mg
    ms = ms
    mn = mn
    m0 = m0
    IP = {C, G, S, N, T, R}
    Mac = {mg, ms, mn, m0}
    ZeroLead = {m0}
    NoMac = noMac
    ZeroIP = zeroIP
    Nowhere = nowhere
    Limit = 1
    Size = 4
    MaxTime = 1
    Packet <- TransitPackets
    Own = {R}
    MacsOf <- TwoGatewayMacs
    Neighbors = {N}
    Starts <- BothStarts
    Learnable <- LearntLater
    AskCap = 1
CHECK_DEADLOCK FALSE
INVARIANTS NoForgottenWaiter CrashNeedsGap
