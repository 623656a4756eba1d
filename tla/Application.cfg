CONSTANTS
    Handlers = {h1, h2}
    MaxRequests = 4
SPECIFICATION Spec
INVARIANTS
    NothingOutlived
    LogComplete
PROPERTIES
    ShutdownEnds
CHECK_DEADLOCK FALSE
