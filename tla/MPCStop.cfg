\* Two callers that write and stop while the workers start and run.
SPECIFICATION FairSpec
CONSTANTS
    Callers = {c1, c2}
    PlanningPeriod = 2
    OutputPeriod = 1
    StateTimeout = 2
    TargetTimeout = 3
    PlanTimeout = 3
    LatenessLimit = 1
    MaxWrites = 2
    MaxTime = 3
INVARIANTS TypeOK WorkersWaitForTarget StopIsFinal
PROPERTIES StopReturns
CHECK_DEADLOCK FALSE
