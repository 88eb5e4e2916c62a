\* Three receivers and a count mask of 2, so that the count saturates; three
\* calls of set() or clear() by two updaters.
CONSTANTS
    Receivers = {r1, r2, r3}
    Updaters = {u1, u2}
    CountMask = 2
    MaxRegistrations = 3
SPECIFICATION FairSpec
CHECK_DEADLOCK FALSE
INVARIANTS
    TypeOK
    RunsRegisteredPair
    Quiescent
PROPERTIES
    UpdateReturns
