SPECIFICATION Spec
CONSTANTS
    IP = {a, b}
    Mac = {m1}
    ZeroLead = {}
    NoMac = noMac
    ZeroIP = zeroIP
    Limit = 2
    Size = 3
    MaxTime = 5
SYMMETRY Symmetry
CHECK_DEADLOCK FALSE
INVARIANT NoStaleAnswer
