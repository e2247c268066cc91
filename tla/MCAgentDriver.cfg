CONSTANTS
    Kinds = {TRUE, FALSE}
    Hangs = FALSE
    Sender = {s1, s2}
    Free = {f1}
    Agent = {a1, a2}
    MaxLost = 1
    MaxDied = 1
    None = None
SPECIFICATION FairSpec
INVARIANTS
    TypeOK
    AgentBehind
PROPERTIES
    StartsOverTimedOutOnly
    FreeEnds
