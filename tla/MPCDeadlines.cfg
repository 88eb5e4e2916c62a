\* One write, and time for its target and its plans to expire.
SPECIFICATION FairSpec
CONSTANTS
    Callers = {c1}
    PlanningPeriod = 1
    OutputPeriod = 1
    StateTimeout = 2
    TargetTimeout = 2
    PlanTimeout = 2
    LatenessLimit = 1
    MaxWrites = 1
    MaxTime = 5
PROPERTIES NoBursts CommandsAreFresh TargetWatchdog PlanWatchdog
CHECK_DEADLOCK FALSE
