------------------------------ MODULE MCDowngrade ------------------------------
(* The downgrade manager for TLC, with a history variable that remembers   *)
(* how long the load has been low, apart from the manager's own timer.     *)
EXTENDS Downgrade

(* One load in every band the thresholds 85, 90 and 95 and the recovery    *)
(* thresholds 80 and 85 cut the scale into.                                *)
MCLoads == {0, 80, 85, 90, 95}

\* Seconds passed since the last step that changed the level, or the last
\* tick that sampled a load at or above the recovery threshold of the level
\* it left in force; counted up to the hold time it is compared with.
VARIABLE calm

pacedVars == <<downgradeVars, calm>>

TickSawPressure == DowngradeTick /\ cpu >= RecoveryThreshold(level')

PacedInit == DowngradeInit /\ calm = 0

PacedNext ==
    /\ DowngradeNext
    /\ calm' = IF level' # level \/ TickSawPressure THEN 0
               ELSE IF Elapse /\ calm < RecoveryHoldSec THEN calm + 1
               ELSE calm

PacedSpec ==
    /\ PacedInit
    /\ [][PacedNext]_pacedVars
    /\ WF_downgradeVars(DowngradeTick)
    /\ WF_downgradeVars(Elapse)

(* A level is left one at a time, and only after a whole hold time in      *)
(* which every tick sampled a load below its recovery threshold: the level *)
(* never flaps, and after each change the hold starts again.               *)
RecoveryPaced ==
    [][level' < level => level' = level - 1 /\ calm >= RecoveryHoldSec]_pacedVars
=============================================================================
