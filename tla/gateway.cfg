SPECIFICATION Spec
CONSTANTS
    MaxDepth = 12
    Requests <- MCRequests
    Policies <- MCPolicies
    Configs <- MCConfigs
    Answers <- MCAnswers
    Paths <- MCPaths
    PathBases <- MCPathBases
    Rules <- MCRules
    PlaceholderOf <- MCPlaceholderOf
    EscapedOf <- MCEscapedOf
    DottedKeys <- MCDottedKeys
    StreamTexts <- MCStreamTexts
INVARIANTS
    
    
    UpstreamCalledOnce
    ClientGetsOriginals
    VerdictIsOurs
    AuditHoldsNoSecrets
