SPECIFICATION Spec
CONSTANTS
    MaxAttempts = 7
    MaxMissed = 6
    SuspectMissed = 3
    MaxHello = 4
    MaxSid = 3
    Budgets <- BothSend
    Prompt = TRUE
INVARIANT
    OneSucceeds
CHECK_DEADLOCK FALSE
