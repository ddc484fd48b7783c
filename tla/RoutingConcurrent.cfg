SPECIFICATION Spec
CONSTANTS
    HardFailureThreshold = 2
    HardFailureCooldown = 4
    RateLimitCooldown = 1
    Requests = {r1, r2, r3}
    Kinds = {"read"}
    Total = 1
    Latency <- MCLatency
    RequestTimeout = 1
    DeadlineFactor = 2
    MinDeadline = 2
    RetrySleep = 0
    MinCoolSleep = 1
    MaxSoftRetries = 2
    MaxInFlight = 2
    MaxTime = 5
    Second = 2
    Disturbances = {"restart", "hangup", "disk"}
    StoredDeaths = {2}
    LearntCoverages = {"Unknown"}
SYMMETRY Symmetry
INVARIANTS
    TypeOK
    BoundedRetries
    DeadIsStored
PROPERTIES
    ServesInTime
    OnlyAnswersRevive
