SPECIFICATION FairSpec
CONSTANTS
    Runs = {1, 2}
    Kind <- Pair
    OneProcess = TRUE
    EarlyCommits = TRUE
    MaxReceipts = 2
    MaxClock = 1
    MaxSilent = 1
    MaxFaults = 1
INVARIANTS
    TypeOK
    SealsHold
    AuditIsSound
    AuditAccepts

    
