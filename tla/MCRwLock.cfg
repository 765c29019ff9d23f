CONSTANTS
    Slots = {s1, s2, s3}
    Values = {v1, v2}
    MaxId = 3
    AbandonsGrant = FALSE
SPECIFICATION FairSpec
INVARIANTS TypeOK CountersMatchGuards EveryGuardHasOneOwner WaitersAgree
PROPERTIES WriterNotOvertaken ImplementsGuardedValue WaiterLeaves
CHECK_DEADLOCK FALSE
