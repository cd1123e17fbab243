SPECIFICATION Spec
CONSTANTS
    p1 = p1
    p2 = p2
    Peers = {p1}
    NumMsgs = 2
    To <- ToOne
    MaxSid = 2
    MaxRetries = 1
    Budget <- SendRestart
INVARIANT SavedBeforeSent
INVARIANT NumbersOnce
INVARIANT FreshNumbersAccepted
CONSTRAINT SixPackets
CHECK_DEADLOCK FALSE
