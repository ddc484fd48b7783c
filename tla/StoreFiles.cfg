SPECIFICATION Spec
CONSTANTS
    Writers = {w1, w2, w3}
    MaxChanges = 4
    Faults = {"disk", "crash"}
SYMMETRY Symmetry
INVARIANTS TypeOK StateIsSaved
PROPERTIES StateFileIsDurable LoneWriteHeals
