------------------------------ MODULE Downgrade ------------------------------
(***************************************************************************)
(* Automatic downgrade under host CPU pressure: DowngradeManager of        *)
(* liquide-supervisor/src/downgrade.rs, driven by the periodic tick of     *)
(* SupervisorRuntime and by the host metrics it samples.                   *)
(*                                                                         *)
(* The levels are ordered, so they are numbers.  Loads and thresholds are  *)
(* percentages that the code only compares, so they are naturals.  An      *)
(* Instant is modelled by the seconds elapsed since it, counted up to      *)
(* RecoveryHoldSec: the code only asks whether that many have passed.      *)
(***************************************************************************)
EXTENDS Integers

CONSTANTS
    ReduceFpsPct,      \* load at which FPS is reduced
    TileOnlyPct,       \* load at which tile-only mode is forced
    ReduceQualityPct,  \* load at which quality is reduced
    SuspendPct,        \* load at which least-active sessions are suspended
    HysteresisPct,     \* distance kept below a threshold before recovering
    RecoveryHoldSec,   \* seconds the load must stay low before one step down
    CpuLoads           \* the loads the host can report

ASSUME DowngradeAssumption ==
    /\ {ReduceFpsPct, TileOnlyPct, ReduceQualityPct, SuspendPct} \subseteq Nat
    /\ HysteresisPct \in Nat
    /\ RecoveryHoldSec \in Nat
    /\ CpuLoads \subseteq Nat
    /\ 0 \in CpuLoads

VARIABLES
    cpu,         \* host_metrics.cpu_pct of the resource monitor
    level,       \* current_level of the downgrade manager
    recovery     \* seconds since recovery_start, or NoTimer

downgradeVars == <<cpu, level, recovery>>

NoDowngrade        == 0
ReduceFps          == 1
TileOnly           == 2
ReduceQuality      == 3
SuspendLeastActive == 4
Levels == NoDowngrade .. SuspendLeastActive

NoTimer == -1

DowngradeInit ==
    /\ cpu = 0
    /\ level = NoDowngrade
    /\ recovery = NoTimer

-----------------------------------------------------------------------------
(* The load at which each level above NoDowngrade is called for. *)
Threshold == <<ReduceFpsPct, TileOnlyPct, ReduceQualityPct, SuspendPct>>

Reaches(load, l) == l = NoDowngrade \/ load >= Threshold[l]

(* Mutant of PressureLevel: the thresholds are tried from the lowest. *)
PressureLevelLowestFirst(load) == IF Reaches(load, ReduceFps) THEN ReduceFps ELSE NoDowngrade

(* The level a load calls for: the thresholds are tried from the highest. *)
PressureLevel(load) ==
    CHOOSE l \in Levels :
        /\ Reaches(load, l)
        /\ \A k \in Levels : k > l => ~Reaches(load, k)

(* The load below which a level may be left. *)
RecoveryThreshold(l) ==
    IF l \in {SuspendLeastActive, ReduceQuality}
    THEN TileOnlyPct - HysteresisPct
    ELSE ReduceFpsPct - HysteresisPct

-----------------------------------------------------------------------------
Escalates == PressureLevel(cpu) > level

(* Mutant of RecoveryAfterEvaluate: the timer is cleared in every tick. *)
RecoveryAfterEvaluateCleared == NoTimer

(* evaluate_host_load raises the level and clears the recovery timer;      *)
(* try_recover, called next in the same tick, sees that raised level.      *)
LevelAfterEvaluate    == IF Escalates THEN PressureLevel(cpu) ELSE level
RecoveryAfterEvaluate == IF Escalates THEN NoTimer ELSE recovery

(* Mutant of TryRecover: a load above the threshold leaves the timer on. *)
TryRecoverKeepingTimer(l, r) ==
    IF l # NoDowngrade /\ cpu < RecoveryThreshold(l)
    THEN /\ level' = IF r # NoTimer /\ r >= RecoveryHoldSec THEN l - 1 ELSE l
         /\ recovery' = IF r = NoTimer THEN 0
                        ELSE IF r >= RecoveryHoldSec THEN NoTimer ELSE r
    ELSE level' = l /\ recovery' = r

(* try_recover on the level and timer that evaluate_host_load left. *)
TryRecover(l, r) ==
    \/ /\ l = NoDowngrade
       /\ level' = l
       /\ recovery' = r
    \/ /\ l # NoDowngrade
       /\ cpu >= RecoveryThreshold(l)
       /\ level' = l
       /\ recovery' = NoTimer
    \/ /\ l # NoDowngrade
       /\ cpu < RecoveryThreshold(l)
       /\ \/ /\ r = NoTimer
             /\ level' = l
             /\ recovery' = 0
          \/ /\ r # NoTimer
             /\ r < RecoveryHoldSec
             /\ level' = l
             /\ recovery' = r
          \/ /\ r # NoTimer
             /\ r >= RecoveryHoldSec
             /\ level' = l - 1
             /\ recovery' = NoTimer

(* The part of tick() that looks at the host load. *)
DowngradeTick ==
    /\ TryRecover(LevelAfterEvaluate, RecoveryAfterEvaluate)
    /\ UNCHANGED cpu

(* The resource monitor is given fresh host metrics. *)
UpdateHostMetrics(load) ==
    /\ cpu' = load
    /\ UNCHANGED <<level, recovery>>

(* One second passes on a running recovery timer. *)
Elapse ==
    /\ recovery # NoTimer
    /\ recovery < RecoveryHoldSec
    /\ recovery' = recovery + 1
    /\ UNCHANGED <<cpu, level>>

(* The manager on its own: its tick, its clock and the metrics it samples. *)
DowngradeNext ==
    \/ DowngradeTick
    \/ Elapse
    \/ \E load \in CpuLoads : UpdateHostMetrics(load)

-----------------------------------------------------------------------------
(* Types: the level is one of the five, and the recovery timer is off or   *)
(* has run for at most the hold time that is compared with it.             *)
DowngradeTypeOK ==
    /\ cpu \in CpuLoads
    /\ level \in Levels
    /\ recovery \in {NoTimer} \cup 0 .. RecoveryHoldSec

(* Under load that stays at the highest threshold the manager ends up at   *)
(* the highest level, whatever recovery was under way when it rose.        *)
PressureAnswered ==
    (cpu >= SuspendPct) ~> (level = SuspendLeastActive \/ cpu < SuspendPct)

(* Once the load is low enough for every level's recovery threshold and    *)
(* stays so, every downgrade is undone, one hold time after another, and   *)
(* none comes back.                                                        *)
CalmLoad ==
    /\ cpu < ReduceFpsPct - HysteresisPct
    /\ cpu < TileOnlyPct - HysteresisPct

RecoversFully == <>[]CalmLoad => <>[](level = NoDowngrade)
=============================================================================
