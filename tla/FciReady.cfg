SPECIFICATION Spec
CONSTANTS
    Callers = {c1}
    Calls = {"acquire"}
    MayUpgrade = FALSE
    Capacity = 3
    PublicCapacity = 2
    Tokens = {1}
    RpcTimeout = 1
    LeaseTimeout = 2
    Grants = {2}
    TimeModulus = 16
    MaxRequests = 3
    MaxTime = 4
INVARIANTS ReadyHoldsLease
CHECK_DEADLOCK FALSE
