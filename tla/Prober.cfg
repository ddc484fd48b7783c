SPECIFICATION FairProberSpec
CONSTANTS
    pruned = pruned
    odd = odd
    Endpoints = {pruned, odd}
    CapabilityTTL = 2
    ProbeFailureTTL = 1
    MaxBlock = 3
    Heads <- MCHeads
    MaxTime = 1
    WalkBack = 1
    Callers = {c1}
    Background = {b1}
    MinVerified = 1
    MaxHeadLag = 0
    Concurrency = 1
    Asked <- MCAsked
    TxBlocks <- MCTxBlocks
    MayBe <- MCMayBe
    Window <- MCWindow
    Lag <- MCLag
INVARIANTS ProberTypeOK InFlightIsExact LiarsAreTold ProbedServe PrunedNearMark
PROPERTY CallsReturn
VIEW View
