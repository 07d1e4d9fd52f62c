SPECIFICATION FairSpec
CONSTANTS
    Clients = {c1}
    Addresses = {a1}
    SendCap = 1
    BroadcastCap = 1
    Registers = FALSE
PROPERTIES Served
CHECK_DEADLOCK FALSE
