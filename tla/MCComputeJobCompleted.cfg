CONSTANTS
    Job = {j1}
    Parallel = {}
    Sbatch = {}
    Hash = {h1}
    Apis = {"api_runSimulation", "api_analysisJob"}
    Req = {r1}
    Timer = {t1}
    MaxOp = 3
    MaxClock = 1
    CpuSlots = 1
    None = None
SPECIFICATION Spec
SYMMETRY Symmetry
PROPERTY
    CompletedIsFinal
CHECK_DEADLOCK FALSE
