\* One Receive and one ReceiveBatch of two compete for three messages.
SPECIFICATION FairSpec
CONSTANTS
    Singles = {r1}
    Batchers = {b1}
    Messages = {m1, m2, m3}
    BatchSize = 2
    NoOne = NoOne
INVARIANTS
    TypeOK
    CallbackNeverBlocks
    ReceiveTakesOne
PROPERTIES
    CallsReturn
    WorkersEnd
