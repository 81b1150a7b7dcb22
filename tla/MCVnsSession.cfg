CONSTANTS
    Name = {0, 1}
    Mac = {10, 11}
    Ip = {1, 2, 3}
    Host = {"vrhost", "vhost1"}
    DefaultHost = "vrhost"
    Unset = 99
    NoFile = NoFile
    Files <- MCFiles
    Hardware <- MCHardware
    MaxInits = 2
    MaxRoutes = 4
SPECIFICATION Spec
INVARIANTS
    TypeOK
    TableOnInterfaces
    ReadyForPwospf
    OneSource
    ArpForOwnAddress
    OwnTableUsed
PROPERTY
    ModeStays
CHECK_DEADLOCK FALSE
