SPECIFICATION Spec
CONSTANTS
    MaxIds = 2
    Pids = {p1, p2}
    cores = cores
    memory = memory
    Resources <- MCResources
    Total <- MCTotal
    Reserved <- MCReserved
    Budget <- MCBudget
    AdmissionEnabled = TRUE
    MaxSessions = 0
    TimeoutCount = 1
    MaxRestarts = 2
    LateReports = TRUE
    ReduceFpsPct = 85
    TileOnlyPct = 90
    ReduceQualityPct = 95
    SuspendPct = 95
    HysteresisPct = 5
    RecoveryHoldSec = 1
    CpuLoads = {0, 95}
PROPERTIES
    NoResurrection
