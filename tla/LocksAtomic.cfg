SPECIFICATION Spec
CONSTANTS
    HardFailureThreshold = 3
    HardFailureCooldown = 2
    RateLimitCooldown = 1
    Threads = {t1, t2, t3}
    Replies = {"fail", "limit", "clear", "reset"}
    MaxTime = 4
SYMMETRY Symmetry
CHECK_DEADLOCK FALSE
INVARIANT TypeOK
PROPERTY MethodsAreAtomic
