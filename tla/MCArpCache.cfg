SPECIFICATION Spec
CONSTANTS
    IP = {a, b, zeroIP}
    Mac = {m0, m1}
    ZeroLead = {m0}
    NoMac = noMac
    ZeroIP = zeroIP
    Limit = 2
    Size = 3
    MaxTime = 5
SYMMETRY Symmetry
CHECK_DEADLOCK FALSE
INVARIANTS BornApart StaleNeedsArp NoEarlyOverrun
PROPERTIES LearnedIsFound OnlyTimeForgets
