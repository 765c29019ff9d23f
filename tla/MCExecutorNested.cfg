CONSTANTS
    Tasks = {t1, t2, t3}
    Clients = {c1}
    NumWorkers = 1
    Capacity = 2
    TaskOps = {"spawn", "cancel", "join", "shutdown"}
    None = None
SPECIFICATION Spec
SYMMETRY Symmetry
INVARIANTS TypeOK HeldExactlyOnce ActiveCounts ReleasedOnce
CHECK_DEADLOCK FALSE
