SPECIFICATION Spec
CONSTANTS
    k1 = k1
    k2 = k2
    v1 = v1
    Keys = {k1, k2}
    Values = {v1}
    NoRecord = NoRecord
    NoKey = NoKey
    NoFile = NoFile
    Durabilities = {"standard"}
    Layouts = {FALSE}
    Faults = {"crash"}
    MaxLog = 2
    MaxBatch = 1
SYMMETRY MCSymmetry
INVARIANTS
    WritesAfterATornTailSurvive
CHECK_DEADLOCK FALSE
