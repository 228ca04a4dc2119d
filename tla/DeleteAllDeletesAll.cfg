\* One program, no request that fails.
SPECIFICATION FileSpec
CONSTANTS
    Callers = {p1}
    Tokens <- MCTokens
    Order <- MCOrder
    Buckets <- MCBuckets
    Tasks <- MCTasks
    Matching <- MCMatching
    Pieces <- MCPieces
    Written <- MCWritten
    Names = {n1, n2}
    MaxCalls = 0
    Faults = 0
INVARIANTS
    DeleteAllDeletesAll
