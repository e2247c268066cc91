CONSTANTS
    MaxRequest = 2
    MaxFail = 1
    MaxChange = 1
    MaxQueue = 1
SPECIFICATION Spec
INVARIANTS
    ConflictIsForeign
CHECK_DEADLOCK FALSE
