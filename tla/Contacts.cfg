SPECIFICATION ContactSpec
CONSTANTS
    a = a
    b = b
    c = c
    s1 = s1
    s2 = s2
    s3 = s3
    NoPeer = NoPeer
    NoSid = NoSid
    Peers <- PeerSet
    Sids <- SidSet
    MAX_SESSIONS = 2
    YieldsTo <- Lower
    Calls <- Few
    Overlap = 3
INVARIANTS
    ContactTypeOK
    SessionIsOfContact
    SessionWatched
    SessionHasRow
    ListedIsKnown
    Consistent
    Bounded
SYMMETRY Symmetry
CHECK_DEADLOCK FALSE
