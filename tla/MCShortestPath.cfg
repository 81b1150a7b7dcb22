SPECIFICATION TurnByTurn
CONSTANTS
    r1 = r1
    r2 = r2
    r3 = r3
    r4 = r4
    r5 = r5
    n1 = n1
    n2 = n2
    Router = {r1, r2, r3, r4, r5}
    Subnet = {n0, n1, n2}
    NoRouter = noRouter
    DefaultNet = n0
    Far = 3
    Self = r1
    Graphs <- AllTopologies
CHECK_DEADLOCK FALSE
INVARIANTS Settled Relaxed ParentsLead
