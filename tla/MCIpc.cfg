\* Two calls and an event over channels of one place; two clients, one of
\* which may stop reading.
SPECIFICATION IpcSpec
CONSTANTS
    None = None
    Event = Event
    Calls = {c1, c2}
    ReqCap = 1
    WireCap = 1
    FrameCap = 1
    MaxEvents = 1
    Clients = {a, b}
    RingCap = 1
    ClientCap = 1
    MaxPublished = 2
    Stalled = {a}
INVARIANTS CallInv EventInv
PROPERTIES AbstractCall CallsEnd StalledClientHoldsUpNobody
CHECK_DEADLOCK FALSE
