\* Every run and every shutdown ends.
SPECIFICATION FairSpec
CONSTANTS
    None = None
    Tasks = {t1}
    Runs = {r1, r2}
    Policies = {"SkipIfRunning"}
    MaxConcurrent = 1
    MaxActions = 1
    MaxBoots = 1
    DbErrors = {"create_run"}
PROPERTIES
    RunsEnd
    ShutdownEnds
CHECK_DEADLOCK FALSE
