CONSTANTS
    Op = {o1, o2, o3, o4}
    MaxSize = 2
    Nobody = Nobody
SPECIFICATION FairSpec
INVARIANTS
    TypeOK
    MutualExclusion
    NoSlotLost
    NoIdleSlot
    DestroyedKeepsNothing
PROPERTIES
    EveryWaiterResumes
    ImplementsFairSlots
CHECK_DEADLOCK FALSE
