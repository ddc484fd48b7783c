SPECIFICATION Spec
CONSTANTS
    HardFailureThreshold = 2
    HardFailureCooldown = 4
    RateLimitCooldown = 1
    Requests = {r1, r2}
    Kinds = {"pinned", "head", "submit"}
    Total = 2
    Latency <- MCLatency
    RequestTimeout = 1
    DeadlineFactor = 2
    MinDeadline = 2
    RetrySleep = 0
    MinCoolSleep = 1
    MaxSoftRetries = 2
    MaxInFlight = 1
    MaxTime = 3
    Second = 2
    Disturbances = {}
    StoredDeaths = {}
    LearntCoverages = {"Covered", "Unknown", "Liar"}
SYMMETRY Symmetry
CHECK_DEADLOCK FALSE
PROPERTY NoEarlySurrender
