CONSTANTS
    Slots = {s1, s2, s3}
    Values = {v1, v2}
    MaxWaiters = 4
    AbandonsGrant = TRUE
SPECIFICATION FairSpec
INVARIANTS TypeOK CountCoversWaiters
PROPERTIES ImplementsGuardedValue CloseWakesWaiters ReleasedLockIsTaken
CHECK_DEADLOCK FALSE
