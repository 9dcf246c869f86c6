SPECIFICATION Spec
CONSTANTS
    Episodes = {1, 2, 3}
    Statements <- Equals
    Unsaid = Unsaid
    GateLower = TRUE
    Severe = TRUE
    Recency = FALSE
    Margin = 3
    Required = 2
    Retention = 1
    Ages = FALSE
    Restorers = {}
    OneProcess = TRUE
    EarlyCommits = TRUE
    MaxTime = 3
    MaxRows = 3
    MaxRepeats = 0
    MaxFaults = 1
    MaxForgets = 0
PROPERTIES
    EpisodesCommitWhole
