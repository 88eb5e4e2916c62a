\* Three senders race two invalidations: enough for one thread to be caught
\* between the checks, one inside a submission and one leaving.
CONSTANTS
    Senders = {s1, s2, s3}
    MaxGeneration = 3
SPECIFICATION FairSpec
CHECK_DEADLOCK FALSE
INVARIANTS
    NoExpiredSubmission
PROPERTIES
    InvalidateReturns
    ImplementsBarrier
