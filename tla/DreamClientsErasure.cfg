SPECIFICATION FairClientSpec
CONSTANTS
    Workers = {a}
    Resident = {a}
    Episodes = {1, 2, 3, 4}
    Jobs = {1, 2}
    Kind <- CoherenceThenFormation
    Consumers = {beam}
    Consumer <- OneConsumer
    Denied = {}
    Cadence = 1
    MaxItems = 2
    StaleAfter = 2
    MaxRun = 1
    MaxCycle = 1
    MaxFaults = 1
    Free = free
    Gone = gone
    NoEpisode = none
    Direct = {3}
    Sealed = {1, 2}
PROPERTIES
    TakenItemsAreOpen
    ErasureSparesTheRest
