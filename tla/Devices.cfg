\* One peer that may change its address, an event channel of one, two failures.
SPECIFICATION DevicesSpec
CONSTANTS
    p1 = p1
    x1 = x1
    y1 = y1
    None = None
    Peers = {p1}
    Addresses = {x1, y1}
    Multicast = TRUE
    AlwaysScan = FALSE
    MaxAddresses = 2
    Capacity = 1
    MaxFailures = 2
    MaxEvents = 2
CHECK_DEADLOCK FALSE
INVARIANTS
    DevicesTypeOK
    ShownIsNoted
PROPERTIES
    RoundFinds
    ListFollows
