\* Due items fire, requests are answered, the queue implements the table of next fire times.
SPECIFICATION FairSpec
CONSTANTS
    None = None
    DayLength = 3
    WeekLength = 2
    Zones <- TimeZones
    GapStep = 1
    GapTries = 2
    CronStep = 1
    CronTries = 10
    Tasks = {1, 2}
    Triggers = {1, 2}
    TaskDefs <- PairDefs
    Requests = {c1, c2}
    CmdCap = 1
    EventCap = 1
    DriftLimit = 1
    WallSteps <- Forward
    MaxTime = 2
    MaxDrift = 2
PROPERTIES TableSpec DueItemsFire RequestsSettle
CHECK_DEADLOCK FALSE
