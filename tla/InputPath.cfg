CONSTANTS
    Handlers = {h1, h2}
    Browsers = {b1}
    N = 2
    Width = 2
    Wrap = 3
    Room = 1
    MaxRequests = 3
    MaxLosses = 1

SPECIFICATION FairPathSpec

INVARIANTS
    WritesHold
    BytesFresh

PROPERTIES
    ShownInTheEnd
