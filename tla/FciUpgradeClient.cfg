\* Any sequence of calls, restarts of the endpoint and a departing device.
SPECIFICATION FairSpec
CONSTANTS
    TimeModulus = 16
    Timeout = 1
    MaxCalls = 2
    MaxStarts = 2
    MaxTime = 2
INVARIANTS TypeOK UploadEndIsTrue RebootIsTrue BootAnswersOwnCall
PROPERTIES UpgradeSettles
CHECK_DEADLOCK FALSE
