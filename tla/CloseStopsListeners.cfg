\* One AddListener call, one Close call.
SPECIFICATION FairSpec
CONSTANTS
    Listeners = {l1}
    Closers = {c1}
    Messages = {m1}
    MaxOutstanding = 1
    NoOne = NoOne
PROPERTY
    CloseStopsListeners
