CONSTANTS
    Tasks = {t1, t2}
    Clients = {c1, c2}
    NumWorkers = 2
    Capacity = 2
    TaskOps = {"spawn", "cancel", "join", "shutdown"}
    None = None
SPECIFICATION Spec
SYMMETRY Symmetry
INVARIANTS NoLostWakeup NoTaskStranded
PROPERTIES ImplementsLifecycle
CHECK_DEADLOCK FALSE
