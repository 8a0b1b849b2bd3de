CONSTANTS
    p1 = p1
    p2 = p2
    Proc <- TwoProcs
    WorkerOf <- OwnIDs
    MaxSeq = 2
    MaxWire = 1
    Running <- Second
SPECIFICATION FairSpec
INVARIANTS
    NoCalculatorAfterStop
PROPERTIES
    TermsAreFenced
    DeposedLearns
CHECK_DEADLOCK FALSE
