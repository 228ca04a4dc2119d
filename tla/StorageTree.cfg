\* Two programs, twelve calls, three buckets, one request that fails, and
\* four calls on open files.
SPECIFICATION FileSpec
CONSTANTS
    Callers = {p1, p2}
    Tokens <- MCTokens
    Order <- MCOrder
    Buckets <- MCBuckets
    Tasks <- MCTasks
    Matching <- MCMatching
    Pieces <- MCPieces
    Written <- MCWritten
    Names = {n1, n2}
    Faults = 1
    MaxCalls = 4
SYMMETRY Symmetry
INVARIANTS
    FileTypeOK
    NothingLost
    CopyIsComplete
    DeletedIsGone
    CloseSavesWrites
    ReadsOneVersion
    PropertiesAccumulate
PROPERTIES
    OnlyInside
