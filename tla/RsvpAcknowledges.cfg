\* One Receive, one message.
SPECIFICATION Spec
CONSTANTS
    Singles = {r1}
    Batchers = {}
    Messages = {m1}
    BatchSize = 1
    NoOne = NoOne
PROPERTIES
    RsvpAcknowledges
