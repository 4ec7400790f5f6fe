\* Two runs of one task, from the dispatcher or from handlers, with two actions
\* each; the agent crashes, is shut down and restarts.
SPECIFICATION Spec
CONSTANTS
    None = None
    Tasks = {t1}
    Runs = {r1, r2}
    Policies = {"SkipIfRunning"}
    MaxConcurrent = 2
    MaxActions = 2
    MaxBoots = 2
    DbErrors = {"find_by_id", "create_run", "update_run"}
SYMMETRY Symmetry
INVARIANTS
    Accounting
    PolicyRespected
    FinishedIsStored
    NoGhostRuns
    CancelStops
    DrainedDispatch
PROPERTIES
    RowLifecycle
CHECK_DEADLOCK FALSE
