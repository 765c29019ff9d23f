CONSTANTS
    Slots = {s1, s2}
    Values = {v1}
    MaxId = 3
    AbandonsGrant = TRUE
SPECIFICATION Spec
INVARIANT EveryGuardHasOneOwner
CHECK_DEADLOCK FALSE
