\* Occurrences while the wall clock does not run backwards.
SPECIFICATION Spec
CONSTANTS
    None = None
    DayLength = 4
    WeekLength = 2
    Zones <- TimeZones
    GapStep = 1
    GapTries = 2
    CronStep = 1
    CronTries = 10
    Tasks = {1}
    Triggers = {1, 2}
    TaskDefs <- CalendarDefs
    Requests = {c1, c2}
    CmdCap = 1
    EventCap = 1
    DriftLimit = 1
    WallSteps <- Forward
    MaxTime = 9
    MaxDrift = 2
SYMMETRY Symmetry
INVARIANTS NoRefire OncePerWindow NeverEarly
CHECK_DEADLOCK FALSE
