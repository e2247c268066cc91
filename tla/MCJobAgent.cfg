CONSTANTS
    Job = {j1, j2}
    Analysis = {2}
    Io = {1, 3}
    Runs = {2, 3}
    MaxFault = 1
    MaxRetry = 2
    None = None
SPECIFICATION Spec
SYMMETRY Symmetry
INVARIANTS
    TypeOK
    OneFastcgi
    LastLineIsRead
    NoUpdateAfterCancel
    NoneForgotten
PROPERTIES
    FullForReason
CHECK_DEADLOCK FALSE
