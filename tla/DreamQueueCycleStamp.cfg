SPECIFICATION Spec
CONSTANTS
    Workers = {a, b}
    Resident = {a, b}
    Episodes = {1}
    Jobs = {1, 2}
    Kind <- FormationThenScope
    Consumers = {1, 2}
    Consumer <- OwnConsumer
    Denied = {}
    Cadence = 1
    MaxItems = 1
    StaleAfter = 2
    MaxRun = 1
    MaxCycle = 3
    MaxFaults = 0
    Free = free
    Gone = gone
INVARIANTS NoDoubleWork
