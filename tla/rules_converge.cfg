SPECIFICATION FairSpec
CONSTANTS
    p1 = p1
    p2 = p2
    r1 = r1
    r2 = r2
    Replicas = {r1, r2}
    Callers = {p1}
    At <- OnFirstReplica
    Builtins = {b}
    CustomIds = {c}
    Versions = {v, bad}
    Malformed = {bad}
    FileVersion = f
    NoRule = NoRule
    NoOne = NoOne
    MaxCustomRules = 1
    MaxOps = 1
    MaxFaults = 1
    MaxCrashes = 1
PROPERTIES
    Converges
