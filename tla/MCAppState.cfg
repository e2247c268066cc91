CONSTANTS
    MaxRequest = 3
    MaxFail = 2
    MaxChange = 2
    MaxQueue = 2
SPECIFICATION FairSpec
INVARIANTS
    TypeOK
    FirstWaits
    SavedIsUnderWay
PROPERTIES
    NothingOverwritten
    StrandedByClose
    SavedOrTold
CHECK_DEADLOCK FALSE
