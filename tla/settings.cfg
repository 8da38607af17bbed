SPECIFICATION FairSpec
CONSTANTS
    r1 = r1
    r2 = r2
    p1 = p1
    p2 = p2
    Replicas = {r1, r2}
    Callers = {p1, p2}
    At <- Home
    DataTypes = {"keys", "ip"}
    Defaults <- EnvOfEach
    Preexisting <- Legacy
    Commands <- Requests
    None = None
    MaxUpdates = 2
    MaxFaults = 1
    MaxCrashes = 1
    MaxLosses = 1
INVARIANTS
    EnvironmentNeverOverridesApi
    BootAgreement
    NarrowOnly
PROPERTIES
    Converges
