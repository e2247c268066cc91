CONSTANTS
    Job = {j1}
    Parallel = {}
    Sbatch = {}
    Hash = {h1}
    Apis = {"api_runSimulation", "api_runStatus", "api_simulationFrame", "api_downloadRunFile", "api_analysisJob", "api_runCancel"}
    Req = {r1}
    Timer = {t1}
    MaxOp = 3
    MaxClock = 1
    CpuSlots = 1
    None = None
SPECIFICATION FairSpec
INVARIANTS
    NoSlotLeak
PROPERTIES
    EveryRequestReplies
CHECK_DEADLOCK FALSE
