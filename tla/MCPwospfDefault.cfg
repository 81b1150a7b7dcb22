\* Two routers send a round before they hear their neighbours.
SPECIFICATION Spec
CONSTANTS
    vhost1 = vhost1
    vhost2 = vhost2
    vhost3 = vhost3
    zero = zero
    net0 = net0
    gate = gate
    n12 = n12
    n13 = n13
    n23 = n23
    srv2 = srv2
    srv3 = srv3
    Router <- MCRouter
    Subnet <- MCSubnet
    NoRouter <- MCNoRouter
    DefaultNet <- MCDefaultNet
    Far = 7
    Links <- MCLinks
    Primary <- MCPrimary
    Leavers <- NoLeavers
    Rounds <- TwoEarly
INVARIANT NoDefaultLoop
CHECK_DEADLOCK FALSE
