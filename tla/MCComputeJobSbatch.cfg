CONSTANTS
    Job = {j1}
    Parallel = {j1}
    Sbatch = {j1}
    Hash = {h1}
    Apis = {"api_runSimulation", "api_runStatus", "api_simulationFrame"}
    Req = {r1, r2}
    Timer = {}
    MaxOp = 3
    MaxClock = 2
    CpuSlots = 1
    None = None
SPECIFICATION Spec
SYMMETRY Symmetry
INVARIANTS
    OneController
    NoOrphanOp
PROPERTIES
    ImplementsRunLifecycle
CHECK_DEADLOCK FALSE
