SPECIFICATION Spec
CONSTANTS
    BACKOFF_SCHEDULE <- ShortSchedule
    ARCHIVE_AFTER = 20
    ARCHIVE_RETRY = 12
    LOOP = 2
    RESOLVE_TIMEOUT = 1
    OTHERS = 1
    HELLO_TIME = 3
INVARIANTS
    TriedWithinLongest
    AgeIsAbsence
CHECK_DEADLOCK FALSE
