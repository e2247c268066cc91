CONSTANTS
    Panels = {p1, p2}
    Simulations = {s1, s2}
    MaxItem = 3
    MaxClick = 2
SPECIFICATION Spec
INVARIANTS
    TypeOK
    OneTransient
    LatestItemShown
PROPERTIES
    Followed
    LooseByCallback
    StatusIsLoaded
CHECK_DEADLOCK FALSE
