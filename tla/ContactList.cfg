SPECIFICATION FairListSpec
CONSTANTS
    a = a
    b = b
    NoPeer = NoPeer
    Peers <- PeerSet
    Calls <- Few
INVARIANTS
    EveryContactShown
    StateShown
    MarkedIsRead
PROPERTIES
    EventuallyShown
CHECK_DEADLOCK FALSE
