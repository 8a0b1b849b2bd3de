SPECIFICATION Spec
CONSTANTS
    Worker = {w1, w2, w3}
    WorkerLabel = {"a", "b"}
    TTL = 2
    EmergencyGrace = 2
    ConfirmCount = 2
    ShrinkPct = 80
    MaxLife = 2
    MaxFaults = 1
    Member = {m1}
    Label = {"a", "b"}
    Labelled = {q1}
    policy = "dedicated"
    SpillGrace = 2
    MaxChanges = 2
    MaxErrors = 1
    Node = {1, 2, 3}
    Placed = {1, 2, 3}
    Ring = 3
    Weights = {0, 4}
    Overload = 120
    Extreme = 150
    MinCount = 100
    Sourced = {q1}
    MaxRev = 2
    MaxInc = 2
    UpdateRetries = 2
    MaxAttempts = 2
    MaxOps = 1
PROPERTIES
    LossIsConfirmed LossIsNoticed
    SpillWaitsForGrace ParkedIsPlaced
    AssignMeetsGoals
    CopyNeverGoesBack CopyFollowsBucket
CHECK_DEADLOCK FALSE
