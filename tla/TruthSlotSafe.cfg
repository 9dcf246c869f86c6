SPECIFICATION Spec
CONSTANTS
    Episodes = {1, 2, 3}
    Statements <- Mixed
    Unsaid = Unsaid
    GateLower = TRUE
    Severe = TRUE
    Recency = FALSE
    Margin = 1
    Required = 2
    Retention = 1
    Ages = FALSE
    Restorers = {}
    OneProcess = TRUE
    EarlyCommits = TRUE
    MaxTime = 3
    MaxRows = 3
    MaxRepeats = 0
    MaxFaults = 0
    MaxForgets = 0
INVARIANTS
    TypeOK
    
    LineageAcyclic
    FlipsAreCorroborated
    PermanentTruthReturns
PROPERTIES
    TruthGivesWayToBetter
    ResolutionIsFinal
    
