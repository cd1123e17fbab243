SPECIFICATION Spec
CONSTANTS
    p1 = p1
    p2 = p2
    Peers = {p1}
    NumMsgs = 2
    To <- ToOne
    MaxSid = 1
    MaxRetries = 2
    Budget <- Quiet
INVARIANT NumbersOnce
INVARIANT AcknowledgedIsLogged
INVARIANT AttemptsBounded
PROPERTY ServiceSpec
CONSTRAINT EightPackets
CHECK_DEADLOCK FALSE
