SPECIFICATION Spec
CONSTANTS
    Order <- BucketOrder
    Reconciled = {"handoff"}
    EnterThreshold = 1
    ExitThreshold = 1
    KVErrorThreshold = 2
    KVErrorWindow = 1
    RecoveryGracePeriod = 1
    MaxGen = 2
    MaxOutages = 2
    Part = {p1, p2}
    Keep = {p1}
    MaxRuns = 2
    MaxChanges = 2
    MaxOperatorFaults = 1
    MaxMishaps = 1
    MaxLag = 2
    Retries = 2
    MaxSeq = 2
    MaxInc = 3
    MaxAttempts = 2
    MaxPullFaults = 3
    Threshold = 2
INVARIANTS VerifiedAgeHolds ApplyLeavesNothingToPlan
PROPERTIES GatesAreExact TableWriteIsPlanned StatusIsTrue 
CHECK_DEADLOCK FALSE
