SPECIFICATION Spec
CONSTANTS
    HoldBack = 1
    Scripts <- MCScripts
    KeyOrders <- MCKeyOrders
    MaxFrames = 4
    MaxFails = 1
INVARIANTS
    NothingIsLost
    FieldsMatchWhole
    NoTextAfterEnd
    ClosedArgumentsDelivered
    SequenceNumbersIncrease
    RepeatsAgreeWithDeltas
    AuditedAsReceived
