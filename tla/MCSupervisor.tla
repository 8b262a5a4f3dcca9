---------------------------- MODULE MCSupervisor ----------------------------
(* Instances of Supervisor for TLC. *)
EXTENDS Supervisor, TLC

CONSTANTS cores, memory   \* the two resources admission looks at

MCResources == {cores, memory}

(* Default budgets scaled down: memory is the tighter resource, and two    *)
(* sessions fill the host.                                                 *)
MCTotal    == (cores :> 8) @@ (memory :> 5)
MCReserved == (cores :> 2) @@ (memory :> 1)
MCBudget   == (cores :> 2) @@ (memory :> 2)
=============================================================================
