CONSTANTS
    Panels = {p1}
    Simulations = {s1}
    MaxItem = 2
    MaxClick = 1
SPECIFICATION Spec
INVARIANTS
    DataIsCurrent
CHECK_DEADLOCK FALSE
