\* A command and a restart, with a fault; a run every event of
\* which may be lost, and answers in any order.
SPECIFICATION DesktopSpec
CONSTANTS
    None = None
    Relay = relay
    Callers = {c1}
    Restarts = {r1}
    MaxTries = 1
    MaxFaults = 1
    MaxClients = 4
    Reordering = TRUE
    Lossy = TRUE
    MaxOutputs = 0
    MaxClicks = 1
INVARIANT DesktopInv
PROPERTIES StoredIsShared RelayListens AgentComesBack DrawerCatchesUp
CHECK_DEADLOCK FALSE
