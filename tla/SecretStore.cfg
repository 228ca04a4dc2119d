\* Two goroutines, one secret, three versions, entries that expire, fair
\* scheduling.
SPECIFICATION FairSpec
CONSTANTS
    Clients = {g1, g2}
    Keys = {k1}
    CacheTTL = 1
    MaxVersion = 3
    NoOne = NoOne
INVARIANTS
    TypeOK
    NoStaleRead
    NoGoingBack
    CacheCoherent
PROPERTIES
    CallsReturn
