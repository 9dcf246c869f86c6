SPECIFICATION Spec
CONSTANTS
    Runs = {1, 2}
    Kind <- Pair
    OneProcess = TRUE
    EarlyCommits = TRUE
    MaxReceipts = 2
    MaxClock = 0
    MaxSilent = 0
    MaxFaults = 1
INVARIANTS
    OutagesAreAttested
