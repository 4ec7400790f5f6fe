\* The broadcast loop after it has been overtaken.
SPECIFICATION FairSpec
CONSTANTS
    Clients = {a}
    RingCap = 1
    FrameCap = 1
    MaxEvents = 3
    Stalled = {}
PROPERTY BroadcastToAll
CHECK_DEADLOCK FALSE
