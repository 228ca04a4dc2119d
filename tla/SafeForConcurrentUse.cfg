\* Two goroutines, one secret, one version.
SPECIFICATION Spec
CONSTANTS
    Clients = {g1, g2}
    Keys = {k1}
    CacheTTL = 1
    MaxVersion = 1
    NoOne = NoOne
INVARIANTS
    SafeForConcurrentUse
