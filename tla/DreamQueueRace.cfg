SPECIFICATION FairSpec
CONSTANTS
    Workers = {a, b}
    Resident = {a}
    Episodes = {1, 2}
    Jobs = {1, 2, 3}
    Kind <- EveryKind
    Consumers = {beam}
    Consumer <- OneConsumer
    Denied = {1}
    Cadence = 1
    MaxItems = 2
    StaleAfter = 2
    MaxRun = 1
    MaxCycle = 1
    MaxFaults = 1
    Free = free
    Gone = gone
INVARIANTS
    TypeOK
    NoDoubleWork
    ClaimsHaveAnOwner
    FormedOncePerFailure
PROPERTIES
    ImplementsDreamWork
    
