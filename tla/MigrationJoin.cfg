SPECIFICATION FairSpec
CONSTANTS
    f1 = f1
    f3 = f3
    f4 = f4
    a = a
    b = b
    f2 = f2
    t = t
    Facts = {f1, f3}
    Agents = {a}
    Tenant = t
    Home <- Homes
    Members = {a}
    Jobs <- AllJobs
    MaxJoins = 1
    MaxFaults = 1
PROPERTIES
    NoSilentLoss
CHECK_DEADLOCK FALSE
