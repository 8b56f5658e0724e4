SPECIFICATION FairSpec
CONSTANTS
    k1 = k1
    k2 = k2
    v1 = v1
    v2 = v2
    A = A
    B = B
    t1 = t1
    t2 = t2
    t3 = t3
    Keys = {k1, k2}
    Values = {v1}
    NoRecord = NoRecord
    NoKey = NoKey
    NoThread = NoThread
    Threads = {t1, t2, t3}
    Collections = {A, B}
    CollectionOf <- Apart
    Repertoire <- Everyone
    Batches <- TwoBatches
    MaxCalls <- FiveCalls
    Faults = {"io"}
INVARIANTS
    RecoveryIsAcknowledged
    MemoryIsAcknowledged
    QuietDiskMatchesMemory
PROPERTIES
    EveryCallReturns
    ClosedIsFinal
