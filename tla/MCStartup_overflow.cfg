\* More AgentStarted tasks than both channels hold.
SPECIFICATION FairSpec
CONSTANTS
    NumTasks = 4
    MaxStarted = 4
    CmdCap = 2
    EventCap = 1
PROPERTIES
    StartupCompletes
CHECK_DEADLOCK FALSE
