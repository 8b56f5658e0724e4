SPECIFICATION Spec
CONSTANTS
    b1 = b1
    b2 = b2
    b3 = b3
    Handles = {b1, b2, b3}
    NoBuffer = NoBuffer
    Sizes = {0, 3, 255}
    Alignments = {0, 2}
    Bases = {4, 8}
    PoolSizes = {6, 64}
    WordSize = 256
SYMMETRY MCSymmetry
CONSTRAINT MCSmallWrapped
INVARIANTS
    BlocksAreApart
    GrantsAreExclusive
    NoByteIsLost
