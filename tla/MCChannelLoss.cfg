CONSTANTS
    Payloads = {p1, p2}
    Receives = {r1}
    Capacity = 1
    MaxSenders = 1
    None = None
    Error = Error
SPECIFICATION FairSpec
PROPERTIES CancelLosesNothing
CHECK_DEADLOCK FALSE
