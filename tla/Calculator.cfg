CONSTANTS
    w1 = w1
    w2 = w2
    t1 = t1
    t2 = t2
    Peer <- TwoWorkers
    Timer <- OneTimer
    MaxEvents = 3
    MaxFailures = 1
    Faults <- AllFaults
SPECIFICATION FairCalculatorSpec
PROPERTIES
    PublishedSourceMonotone
    
    
CHECK_DEADLOCK FALSE
