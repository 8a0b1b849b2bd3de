CONSTANTS
    p1 = p1
    p2 = p2
    Proc <- TwoProcs
    WorkerOf <- OwnIDs
    MaxSeq = 3
    MaxWire = 1
    Running <- Second
SPECIFICATION Spec
PROPERTY ReleaseKeepsOthersLease
CHECK_DEADLOCK FALSE
