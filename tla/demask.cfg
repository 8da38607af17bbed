SPECIFICATION Spec
CONSTANTS
    Originals <- Secrets
    Responses <- Answers
    MaxDrift = 1
    IndexLen = 2
    MaxErrors = 1
    MaxReloads = 1
INVARIANTS
    StreamMatchesWhole
    Lossless
    RunesWhole
    PendingBounded
    JsonStaysValid
