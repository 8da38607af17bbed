SPECIFICATION Spec
CONSTANTS
    HoldBack = 1
    Scripts <- MCScripts
    KeyOrders <- MCKeyOrders
    MaxFrames = 2
    MaxFails = 0
INVARIANTS
    FlushedWhenUpstreamDies
