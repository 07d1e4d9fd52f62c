SPECIFICATION FairSpec
CONSTANTS
    Clients = {c1}
    Addresses = {a1, a2}
    SendCap = 1
    BroadcastCap = 1
    Registers = TRUE
INVARIANTS TypeOK RegisteredIsOpen
PROPERTIES Served BroadcastDrains EvictedHangsUp
CHECK_DEADLOCK FALSE
