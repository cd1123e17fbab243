SPECIFICATION Spec
CONSTANTS
    p1 = p1
    p2 = p2
    Peers = {p1}
    NumMsgs = 2
    To <- ToOne
    MaxSid = 2
    MaxRetries = 1
    Budget <- Reconnect
INVARIANT NumbersOnce
CHECK_DEADLOCK FALSE
