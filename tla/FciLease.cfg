SPECIFICATION FairSpec
CONSTANTS
    Callers = {c1}
    Calls = {"acquire", "release"}
    MayUpgrade = TRUE
    Capacity = 2
    PublicCapacity = 1
    Tokens = {1}
    RpcTimeout = 1
    LeaseTimeout = 2
    Grants = {2}
    TimeModulus = 16
    MaxRequests = 3
    MaxTime = 2
INVARIANTS StoppedIsSettled RenewalFindsSlot BusyLeaseHasRequest
PROPERTIES DeadlineEnforced StopCompletes UpgradeEndsControl
CHECK_DEADLOCK FALSE
