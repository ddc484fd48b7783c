SPECIFICATION FairSpec
CONSTANTS
    HardFailureThreshold = 2
    HardFailureCooldown = 4
    RateLimitCooldown = 1
    Requests = {r1, r2}
    Kinds = {"read"}
    Total = 2
    Latency <- MCLatency
    RequestTimeout = 1
    DeadlineFactor = 2
    MinDeadline = 2
    RetrySleep = 0
    MinCoolSleep = 1
    MaxSoftRetries = 2
    MaxInFlight = 1
    MaxTime = 5
    Second = 2
    Disturbances = {}
    StoredDeaths = {2}
    LearntCoverages = {"Unknown"}
CHECK_DEADLOCK FALSE
INVARIANT DeathLasts
PROPERTIES
    DeadAreNotAsked
    NoEarlySurrender
    EveryStepCounts
    EveryRequestAnswered
