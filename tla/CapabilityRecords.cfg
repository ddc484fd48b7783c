SPECIFICATION Spec
CONSTANTS
    Endpoints = {e1}
    CapabilityTTL = 2
    ProbeFailureTTL = 1
    MaxBlock = 2
    Heads <- MCHeads
    MaxTime = 2
INVARIANTS
    TypeOK
    MarksConsistent
    ObservationsHonoured
    NewerIsNoWorse
    FileIsNotBehind
VIEW View
PROPERTY LiarsStay
