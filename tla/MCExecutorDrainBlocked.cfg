CONSTANTS
    Tasks = {t1, t2}
    Clients = {c1}
    NumWorkers = 1
    Capacity = 2
    TaskOps = {"spawn"}
    None = None
SPECIFICATION FairSpec
PROPERTIES DrainReturns
CHECK_DEADLOCK FALSE
