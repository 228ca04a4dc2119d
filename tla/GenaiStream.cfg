\* Streams of up to five responses through a buffer of two, and conversations
\* through every conversion, with an int32 of four bits and float32s that are
\* exact up to 8, then 2 and 4 apart.
SPECIFICATION FairSpec
CONSTANTS
    Capacity = 2
    HalfInt32 = 8
    ExactFloat = 8
    Spacings = {1, 2, 4}
    Schemas <- MCSchemas
    Sessions <- MCSessions
INVARIANTS
    TypeOK
    NoSilentTruncation
    RequestSaysItAll
    HistorySurvives
PROPERTIES
    ImplementsStream
    DrainingCallerFinishes
    ErrorFirstFinishesWithinCapacity
