SPECIFICATION FairSpec
CONSTANTS
    Episodes = {1, 2}
    Statements <- Few
    Unsaid = Unsaid
    GateLower = TRUE
    Severe = TRUE
    Recency = TRUE
    Margin = 2
    Required = 2
    Retention = 1
    Ages = TRUE
    Restorers = {"retrieval", "curation"}
    OneProcess = FALSE
    EarlyCommits = TRUE
    MaxTime = 2
    MaxRows = 2
    MaxRepeats = 0
    MaxFaults = 1
    MaxForgets = 1
PROPERTIES
    SlotSettles
    ElapsedTruthRetires
    
