SPECIFICATION FairSpec
CONSTANTS
    Requests = {q1, q2, q3}
    Calls = {c1}
    Slots = 2
INVARIANTS
    TypeOK
    SlotsAccounted
    NothingLostAtClose
PROPERTIES
    AuditNeverBlocks
    
