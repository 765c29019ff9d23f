CONSTANTS
    c1 = c1
    t1 = t1
    t2 = t2
    t3 = t3
    Tasks = {t1, t2, t3}
    Clients = {c1}
    NumWorkers = 1
    Capacity = 3
    TaskOps = {"spawn", "cancel", "join"}
    None = None
    Parent <- Chain
    Detached = {t1}
    Shared = TRUE
    AwaitInScope = TRUE
    MayPanic = TRUE
SPECIFICATION FairScopeSpec
INVARIANTS ScopeTypeOK NoChildEscapes InFlightScopeStays SummaryHonest
PROPERTIES ScopeClosesOrCircular
CHECK_DEADLOCK FALSE
