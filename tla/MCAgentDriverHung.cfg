CONSTANTS
    Kinds = {TRUE}
    Hangs = TRUE
    Sender = {s1}
    Free = {f1, f2}
    Agent = {a1, a2}
    MaxLost = 0
    MaxDied = 0
    None = None
SPECIFICATION FairSpec
PROPERTIES
    HungStartIsCanceled
