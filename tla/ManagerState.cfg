CONSTANTS
    MaxCalc = 1
    MaxEnv = 2
    Versioned = {1}
    BufCap = 1
    Reason <- Terminal
SPECIFICATION FairSpec
INVARIANTS
    DegradedHasRecord
PROPERTIES
    IdleIsProjected
    DegradedRecovers
CHECK_DEADLOCK FALSE
