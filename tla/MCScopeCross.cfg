CONSTANTS
    c1 = c1
    t1 = t1
    t2 = t2
    t3 = t3
    Tasks = {t1, t2, t3}
    Clients = {c1}
    NumWorkers = 2
    Capacity = 3
    TaskOps = {"spawn", "cancel", "join"}
    None = None
    Parent <- Chain
    Detached = {t1}
    Shared = FALSE
    AwaitInScope = FALSE
    MayPanic = FALSE
SPECIFICATION FairScopeSpec
PROPERTIES ScopeCloses
CHECK_DEADLOCK FALSE
