SPECIFICATION ReplaySpec
CONSTANTS
    k1 = k1
    k2 = k2
    v1 = v1
    Keys <- MCKeys
    Values <- MCValues
    NoRecord = NoRecord
    NoKey = NoKey
    MaxWritten = 5
INVARIANTS
    ReplayIsRecover
    WindowsAllOrNothing
PROPERTIES
    ReplayMonotone
CHECK_DEADLOCK FALSE
