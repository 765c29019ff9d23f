CONSTANTS
    Tasks = {t1, t2}
    Clients = {c1}
    NumWorkers = 1
    Capacity = 2
    TaskOps = {}
    None = None
SPECIFICATION FairSpec
PROPERTIES CancelSettles QueuedIsTaken CancelShutdownReturns DrainReturns JoinReturns
CHECK_DEADLOCK FALSE
