\* Two links, numbers of rounds from 0 to 3, one restart.
SPECIFICATION Spec
CONSTANTS
    a = a
    b = b
    odd = odd
    zero = zero
    N = 2
    Router <- MCRouter
    NoRouter = zero
    Topologies <- MCTopologies
    Agreeing = {a, b}
    Wrap = 4
    MaxRestarts = 1
INVARIANTS RegularReads FalseDefaultIsTorn NewsUnlessRestarted
PROPERTY AllLearnt
