CONSTANTS
    Job = {j1}
    Parallel = {}
    Sbatch = {}
    Hash = {h1}
    Apis = {"api_runSimulation", "api_runCancel", "api_downloadRunFile"}
    Req = {r1, r2}
    Timer = {}
    MaxOp = 3
    MaxClock = 2
    CpuSlots = 1
    None = None
SPECIFICATION Spec
SYMMETRY Symmetry
INVARIANTS
    TypeOK
    OneController
    NoSlotLeak
    RunDirExclusive
PROPERTIES
    RunOutcomeIsCurrent
    ImplementsRunLifecycle
CHECK_DEADLOCK FALSE
