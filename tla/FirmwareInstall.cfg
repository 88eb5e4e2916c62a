\* Any sequence of calls while the device restarts up to twice.
SPECIFICATION FairSpec
CONSTANTS
    Images <- MCImages
    Nobody = "nobody"
    Expected = 2
    Slots = {1, 2}
    MaxBoots = 3
INVARIANTS InfoIsOfItsSession OneOutstandingQuery InstallIsTrue
PROPERTIES InstallReturns
CHECK_DEADLOCK FALSE
