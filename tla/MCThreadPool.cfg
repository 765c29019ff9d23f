CONSTANTS
    Jobs = {j1, j2, j3}
    NumWorkers = 2
    CanShutdown = TRUE
    None = None
SPECIFICATION FairSpec
INVARIANTS TypeOK EveryJobHeldOnce ReadyHasResult
PROPERTIES JobCompletes DropReturns
CHECK_DEADLOCK FALSE
