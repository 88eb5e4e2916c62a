SPECIFICATION Spec
CONSTANTS
    Callers = {c1, c2}
    Calls = {"query"}
    MayUpgrade = FALSE
    Capacity = 3
    PublicCapacity = 2
    Tokens = {1}
    RpcTimeout = 1
    LeaseTimeout = 2
    Grants = {2}
    TimeModulus = 16
    MaxRequests = 4
    MaxTime = 2
INVARIANTS RpcOwnsSlot
PROPERTIES ImplementsQueue ResultsStable NoEarlyTimeout
SYMMETRY CallerSymmetry
CHECK_DEADLOCK FALSE
