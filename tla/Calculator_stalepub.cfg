CONSTANTS
    w1 = w1
    w2 = w2
    t1 = t1
    t2 = t2
    Peer <- TwoWorkers
    Timer <- TwoTimers
    MaxEvents = 3
    MaxFailures = 1
    Faults <- NoFaults
SPECIFICATION FairCalculatorSpec
PROPERTY FleetConverges
CHECK_DEADLOCK FALSE
