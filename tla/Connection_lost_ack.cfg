SPECIFICATION FairSpec
CONSTANTS
    MaxAttempts = 7
    MaxMissed = 6
    SuspectMissed = 3
    MaxHello = 4
    MaxSid = 3
    Budgets <- AckLost
    Prompt = TRUE
PROPERTY
    Reconnects
CHECK_DEADLOCK FALSE
