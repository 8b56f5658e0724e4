SPECIFICATION HybridSpec
CONSTANTS
    Ids = {1, 2, 3, 4}
    PlacesOf <- MCPlacesOf
    NoPlace = NoPlace
    Batches <- MCBatches
    RequestedLists = 3
    NProbe = 1
    Iterations = 2
INVARIANTS
    ListsAgree
    HybridAnswers
