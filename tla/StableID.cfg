SPECIFICATION FairSpec
CONSTANTS
    c1 = c1
    c2 = c2
    Claimer <- TwoClaimers
    MaxID = 1
    MaxSeq = 4
    MaxWire = 1
PROPERTIES
    FreshKeyIsOwners
    SupersededNeverWrites
    SupersededLearns
CHECK_DEADLOCK FALSE
