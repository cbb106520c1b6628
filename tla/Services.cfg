SPECIFICATION ServicesSpec
CONSTANTS
    k1 = k1
    k2 = k2
    d1 = d1
    d2 = d2
    s1 = s1
    s2 = s2
    o1 = o1
    o2 = o2
    o3 = o3
    DefaultSteps = 3
    DefaultCalls = 4
    Extension = 2
    HardCap = 6
    MaxAttempts = 3
    MaxBatch = 3
    NoToken = NoToken
    Tokens <- TwoTokens
    Deciders <- TwoDeciders
    PendingTtl = 1
    Retention = 2
    Stretches <- TwoStretches
    MaxEvents = 3
    Operations <- ThreeOperations
INVARIANTS
    TurnTypeOK HistoryClosed SpentWithinGrant RetriedOnce RefusedHonestly
    ConfTypeOK AnswerIsTrue
    EventTypeOK EventOnce
    HelperTypeOK RunningHasWorker
PROPERTIES
    FinishEnds FrozenOnce ParkedIsTold HelperSettles
CHECK_DEADLOCK FALSE
