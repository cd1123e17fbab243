SPECIFICATION Spec
CONSTANTS
    p1 = p1
    p2 = p2
    Peers = {p1, p2}
    NumMsgs = 2
    To <- ToTwo
    MaxSid = 1
    MaxRetries = 1
    Budget <- Quiet
INVARIANT DeliveredIsReceived
CHECK_DEADLOCK FALSE
