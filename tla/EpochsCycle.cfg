SPECIFICATION Spec
CONSTANTS
    Episodes = {a, b}
    a = a
    b = b
    Groups <- Apart
    Tiers = {"A", "C"}
    Claims <- Contrary
    home = home
    work = work
    yes = yes
    no = no
    Operators = {1}
    Misuse = {}
    OneProcess = TRUE
    MaxEpochs = 3
    MaxRows = 3
    MaxRetires = 1
INVARIANTS
    TypeOK
    OnlyAdoptedIsRead
    OneHead
PROPERTIES
    AdoptInstallsTheBranch
    
    
CHECK_DEADLOCK FALSE
SYMMETRY Symmetric
