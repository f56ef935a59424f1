SPECIFICATION FairSpec
CONSTANTS
    Period = 2
    MaxCount = 1
    MaxHistory = 2
    MaxTime = 6
    MaxAge = 3
    MaxEdits = 1
    MaxFaults = 1
    MaxOutdated = 1
INVARIANTS
    TypeOK
    CountedOnce
    OneAtATime
    RetentionEnforced
PROPERTIES
    RetentionKeeps
    ActiveResolved
