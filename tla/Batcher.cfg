SPECIFICATION FairSpec
CONSTANTS
    q1 = q1
    q2 = q2
    q3 = q3
    f1 = f1
    w = w
    Queries = {q1, q2, q3}
    Flushers = {f1}
    Worker = w
    Depths = {1, 2}
    DepthOf <- MCDepthOf
    MaxBatch = 2
    MaxStarts = 2
    MaxFlushes = 2
INVARIANTS
    NoQueryIsLost
PROPERTIES
    AnsweredOnce
    RunningMeansAnswered
    StopReturns
\* The owner may never start the batcher, or destroy it.
CHECK_DEADLOCK FALSE
