SPECIFICATION PacedSpec
CONSTANTS
    ReduceFpsPct = 85
    TileOnlyPct = 90
    ReduceQualityPct = 95
    SuspendPct = 95
    HysteresisPct = 5
    RecoveryHoldSec = 5
    CpuLoads <- MCLoads
PROPERTIES
    RecoveryPaced
    PressureAnswered
    RecoversFully
