SPECIFICATION Spec
CONSTANTS
    MaxIds = 3
    Pids = {p1, p2}
    cores = cores
    memory = memory
    Resources <- MCResources
    Total <- MCTotal
    Reserved <- MCReserved
    Budget <- MCBudget
    AdmissionEnabled = TRUE
    MaxSessions = 0
    TimeoutCount = 2
    MaxRestarts = 2
    LateReports = FALSE
    ReduceFpsPct = 85
    TileOnlyPct = 90
    ReduceQualityPct = 95
    SuspendPct = 95
    HysteresisPct = 5
    RecoveryHoldSec = 1
    CpuLoads = {0, 85}
INVARIANTS
    TypeOK
    WatchedIffActive
    WithinCapacity
    ChildrenAccounted
    CrashBudget
PROPERTIES
    DeadDetected
    NoResurrection
