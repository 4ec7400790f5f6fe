\* Structure of the queue under every clock movement.
SPECIFICATION Spec
CONSTANTS
    None = None
    DayLength = 3
    WeekLength = 2
    Zones <- TimeZones
    GapStep = 1
    GapTries = 2
    CronStep = 1
    CronTries = 10
    Tasks = {1}
    Triggers = {1, 2}
    TaskDefs <- MixedDefs
    Requests = {c1, c2, c3}
    CmdCap = 1
    EventCap = 1
    DriftLimit = 1
    WallSteps <- BothWays
    MaxTime = 2
    MaxDrift = 2
SYMMETRY Symmetry
INVARIANTS TypeOK OneEntryPerTrigger ValidItemsAreLive RecurringStaysQueued
CHECK_DEADLOCK FALSE
