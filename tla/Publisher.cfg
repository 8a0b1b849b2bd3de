CONSTANTS
    Content = {a, b}
    MaxTerm = 2
    MaxBatch = 3
    MaxPay = 2
SPECIFICATION Spec
INVARIANTS
    CommittedPayloadExists
PROPERTY
    CommitsFormChain
CHECK_DEADLOCK FALSE
SYMMETRY Symmetry
