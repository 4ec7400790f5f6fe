\* Two requests on a task, a restart and a network event; a start with up to
\* three AgentStarted tasks, which is what the event channel holds.
SPECIFICATION TasksSpec
CONSTANTS
    None = None
    Tasks = {t1}
    Handlers = {h1, h2}
    TaskDefs <- Defs
    NetEvents <- Connect
    CmdCap = 1
    EventCap = 1
    MaxStarts = 2
    MaxNet = 1
    NumTasks = 6
    MaxStarted = 3
    BootCmdCap = 2
    BootEventCap = 3
INVARIANT SyncInv
PROPERTIES CommittedIsAnswered StartedTasksRun
CHECK_DEADLOCK FALSE
