SPECIFICATION SumSpec
CONSTANTS
    MaxCommits = 3
    MaxTakeovers = 1
    Hash = {"a"}
    MaxAttempts = 2
    MaxFaults = 1
    MaxBreaks = 1
    MaxPlans = 2
    MaxVer = 2
    MaxTerm = 2
    MaxEvents = 3
    MaxRefresh = 1
    NoOne = NoOne
    Worker = {w1, w2}
    MaxRetries = 1
    BackstopEvery = 2
    MaxSkips = 1
    MaxWrites = 1
    MaxSeq = 2
    watcherMaxAttempts = 1
    gateMaxSkips = 1
    MaxStalls = 1
    MaxLosses = 3
INVARIANTS BurstKeepsShuffles AcceptedTargetPursued ReapIsVouched
PROPERTIES LiveEntryHandled TargetsOnlyAdvance RemovalAfterTakeover HandoffCompletes SweepHeals CacheFollowsBucket
CHECK_DEADLOCK FALSE
