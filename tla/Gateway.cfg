SPECIFICATION FairGatewaySpec
CONSTANTS
    HardFailureThreshold = 2
    HardFailureCooldown = 2
    RateLimitCooldown = 1
    c1 = c1
    c2 = c2
    Clients = {c1, c2}
    Keys = {"1", "10", "solana"}
    EvmKeys = {"1", "10"}
    Upstreams <- MCUpstreams
    MaxTime = 1
    Visits <- MCVisits
    Statuses = {"ok", "400", "429"}
    Bodies <- MCBodies
CHECK_DEADLOCK FALSE
INVARIANTS
    TypeOK
    ReportIsJustified
    BodiesJudgedWhole
PROPERTIES
    FanOutsAnswered
