\* Three agents and two desktops; six path updates; three changes of two
\* interfaces; three endpoints; a switch of the mode with one restart; a run
\* with a chunk of output and two clicks.
SPECIFICATION PartsSpec
CONSTANTS
    None = None
    Procs = {p1, p2, p3}
    Clients = {c1, c2}
    NamedPipe = FALSE
    ChannelCap = 2
    MaxFrames = 6
    Wired = {eth}
    Wifi = {wlan}
    MaxChanges = 3
    MaxTasks = 3
    Endpoints = 3
    PhaseTimeout = 15
    AttemptTimeout = 30
    Window = 70
    Pause = 5
    MaxRestarts = 1
    MaxOutputs = 1
    MaxClicks = 2
INVARIANTS ProcessSafe ReportsMatch ProbesAreRight LoginItemSurvives SettledIsExact
PROPERTIES OnlyLeaversUnlink SuccessReachesMode DrawerNeverRegresses
CHECK_DEADLOCK FALSE
