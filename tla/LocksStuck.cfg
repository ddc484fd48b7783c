SPECIFICATION FairSpec
CONSTANTS
    HardFailureThreshold = 2
    HardFailureCooldown = 2
    RateLimitCooldown = 1
    Threads = {t1, t2}
    Replies = {"fail", "limit"}
    MaxTime = 3
CHECK_DEADLOCK FALSE
PROPERTY MethodsReturn
