SPECIFICATION FairSpec
CONSTANTS
    p1 = p1
    p2 = p2
    Peers = {p1}
    NumMsgs = 1
    To <- ToOne
    MaxSid = 2
    MaxRetries = 2
    Budget <- RecvRestart
INVARIANT TypeOK
INVARIANT SavedBeforeAcked
INVARIANT LoggedInOrder
PROPERTY SettlesOrDisconnects
CHECK_DEADLOCK FALSE
