SPECIFICATION Spec
CONSTANTS
    Lowered <- MCLowered
    FoldOrbits <- MCFoldOrbits
    Regexes <- MCRegexes
    Height <- MCHeight
    Scenarios <- MCScenarios
    MaxMatches = 2
    MaxReloads = 1
INVARIANTS
    DetectedIsMasked
    OnePlaceholderPerOriginal
    
