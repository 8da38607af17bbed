SPECIFICATION Spec
CONSTANTS
    s1 = s1
    s2 = s2
    k1 = k1
    k2 = k2
    c1 = c1
    c2 = c2
    v1 = v1
    v2 = v2
    t1 = t1
    Plain = Plain
    None = None
    Ids = {1, 2, 3, 4, 5}
    States = {s1, s2}
    Codecs = {Plain, k1, k2}
    Texts = {t1}
    Nanos = {0, 2, 3, 5}
    NanosPerMicro = 2
    RuleIds = {c1, c2}
    Contents = {v1, v2}
    Values = {s1, s2}
    MaskingTTL = 2
    AuditTTL = 2
    AuditMaxEntries = 3
    AuditListMinBatch = 3
    DefaultAuditPageSize = 2
    MaxAuditPageSize = 3
    Limit = 2
    Matching = {1, 3, 4}
    Since = 0
    Until = 0
    NoExpiry = 99
    SlowUpdates = FALSE
    Workloads <- LateWorkloads
CHECK_DEADLOCK FALSE
INVARIANTS
    ListedOnce
