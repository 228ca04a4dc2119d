\* One goroutine: six events, among them the registrations of others, and
\* up to two messages in a batch.
SPECIFICATION Spec
CONSTANTS
    Callers = {s1}
    Requests <- MCRequests
    RegistryKeys <- MCRegistryKeys
    Projects <- MCProjects
    Locations <- MCLocations
    Options <- MCOptions
    MaxEvents = 6
    MaxOptions = 1
    HeaderKeys <- MCHeaderKeys
    HeaderValues <- MCHeaderValues
    MaxMessages = 2
INVARIANTS
    TypeOK
    LookupIsJustified
    ErrorNamesFirstFailure
    IdsTellWhatWasPublished
    OrderedBatchIsPrefix
PROPERTIES
    HeadersArrive
CHECK_DEADLOCK FALSE
