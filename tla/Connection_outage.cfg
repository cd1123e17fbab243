SPECIFICATION Spec
CONSTANTS
    MaxAttempts = 2
    MaxMissed = 2
    SuspectMissed = 1
    MaxHello = 2
    MaxSid = 2
    Budgets <- Outages
    Prompt = FALSE
INVARIANTS
    TypeOK
    SameSessionSameKey
    WatchedSession
    
PROPERTY
    NotGivenUp
CHECK_DEADLOCK FALSE
