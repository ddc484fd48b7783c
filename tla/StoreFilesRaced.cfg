SPECIFICATION Spec
CONSTANTS
    Writers = {w1, w2}
    MaxChanges = 3
    Faults = {}
INVARIANT DeathsAreSaved
