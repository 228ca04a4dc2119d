\* Two goroutines, one secret, a CacheTTL of 0.
SPECIFICATION Spec
CONSTANTS
    Clients = {g1, g2}
    Keys = {k1}
    CacheTTL = 0
    MaxVersion = 1
    NoOne = NoOne
INVARIANTS
    ZeroTTLMeansNoCaching
