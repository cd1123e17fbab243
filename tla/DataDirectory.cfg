SPECIFICATION DirectorySpec
CONSTANTS
    h1 = h1
    h2 = h2
    NoPlace = NoPlace
    Places <- Hosts
    Home = h1
    MaxVersion = 3
    MaxObserved = 1
    MaxRestarts = 1
    MaxStoring = 2
    MAX_ROTATIONS = 3
    LIMIT = 3
    MayCrash = TRUE
    ShortWrites = FALSE
    MaxEntries = 10
    Keys = {"first", "second"}
    Networks = {"default", "other"}
    Nicknames = {"default", "short", "long"}
    TooLong = {"long"}
    Default = "default"
    Messages = {"old", "new"}
    Legacy = {"old"}
    MaxEdits = 2
    MaxDialogs = 2
    MaxFailures = 2
INVARIANTS
    TypeOK
    RowNotAhead
    NeverHalfWritten
    RetainedIsTail
    IdentityKept
    QueuedIsRestored
CHECK_DEADLOCK FALSE
