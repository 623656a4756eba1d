CONSTANTS
    Peers = {p1, p2}
    Greeters = {p1, p2}
    Readers = {p1, p2}
    Room = 1
    None = None

SPECIFICATION FairSpec

INVARIANTS
    OneOwner
    StopReleasesAll

PROPERTIES
    
    PeerAnswered
