SPECIFICATION Spec
CONSTANTS
    h1 = h1
    h2 = h2
    h3 = h3
    Handles = {h1, h2, h3}
    NoHandle = NoHandle
    Ids = {1, 2}
    d2 = d2
    d3 = d3
    Dims = {d2, d3}
    NoDim = NoDim
    Modes = {"read_write", "read_only"}
    MaxOpens = 4
    Faults = {"crash", "io"}
SYMMETRY MCSymmetry
INVARIANTS
    NothingIsLost
    OpenHandlesAreCurrent
    LocksAreHeldInUse
PROPERTIES
    OnlyTheLockHolderWrites
\* With no call of open() left there is nothing more to do.
CHECK_DEADLOCK FALSE
