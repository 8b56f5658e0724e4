SPECIFICATION TrainingSpec
CONSTANTS
    Ids = {1, 2}
    PlacesOf <- MCPlacesOf
    NoPlace = NoPlace
    Payloads <- MCPayloads
    Coded <- MCCoded
    NoRecord = NoRecord
    NoThreshold = NoThreshold
    NaN = NaN
    Within <- MCWithin
    SixDigits = 10
    Nodes <- MCNodes
    Everything = Everything
    NoConstraints = NoConstraints
    SmallCollection = 2
    CandidateFactor = 1
    CandidateFloor = 1
    FetchFactor = 1
    FetchFloor = 1
    Widening = 2
    MaxLog = 3
INVARIANTS
    NoPartialQuantize
    RecoveredIsTheCollection
    TrainingIsDurable
\* With a full log no write is left.
CHECK_DEADLOCK FALSE
