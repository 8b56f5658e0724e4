SPECIFICATION Spec
CONSTANTS
    k1 = k1
    k2 = k2
    v1 = v1
    Keys = {k1, k2}
    Values = {v1}
    NoRecord = NoRecord
    NoKey = NoKey
    NoFile = NoFile
    Durabilities = {"standard", "relaxed", "ephemeral"}
    Layouts = {TRUE, FALSE}
    Faults = {"crash", "io", "power"}
    MaxLog = 4
    MaxBatch = 3
CONSTRAINT InScope
SYMMETRY MCSymmetry
INVARIANTS
    MemoryIsWhatWasAcknowledged
    RecoverySound
    DiskMatchesMemory
    AlwaysReadable
PROPERTIES
    CheckpointIsInvisible
    IsAtomicStore
CHECK_DEADLOCK FALSE
