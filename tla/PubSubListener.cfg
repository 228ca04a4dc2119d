\* Two AddListener calls, two Close calls, one message, fair scheduling.
SPECIFICATION FairSpec
CONSTANTS
    Listeners = {l1, l2}
    Closers = {c1, c2}
    Messages = {m1}
    MaxOutstanding = 1
    NoOne = NoOne
INVARIANTS
    TypeOK
    EveryLiveListenerIsStoppable
    ClientLifecycle
    NothingLostUnhandled
PROPERTIES
    NothingAcceptedAfterCancel
    CloseCancelsAll
    ImplementsGroup
    OverListenersStop
    CloseReturns
