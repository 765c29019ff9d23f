CONSTANTS
    Payloads = {p1, p2, p3}
    Receives = {r1, r2}
    Capacity = 2
    MaxSenders = 2
    None = None
    Error = Error
SPECIFICATION FairSpec
INVARIANTS TypeOK ExactOwnership HandedOutInOrder SendersCounted
PROPERTIES CloseWakesReceivers DropWakesSenders
CHECK_DEADLOCK FALSE
