--------------------------- MODULE SessionServices ---------------------------
(***************************************************************************)
(* The services of a desktop session (liquide-session-manager/src/         *)
(* lifecycle.rs and registry.rs): a registry with the state of each        *)
(* service, the child processes, and the timers of pending restarts.       *)
(*                                                                         *)
(* One action is one call; the calls are serialised (&mut self), while     *)
(* processes exit and timers ripen between them.  Starting and Stopping    *)
(* are left again before the call that enters them returns.                *)
(***************************************************************************)
EXTENDS Integers, FiniteSets, Sequences, SequencesExt

CONSTANTS
    Services,    \* the registered services
    Names,       \* the ids that a depends_on may list
    Deps,        \* service -> its depends_on, a sequence of names
    Order,       \* startup_order() of the registry
    BuiltIn,     \* services without an executable
    AutoStart,
    Policy,      \* service -> "never", "always" or "onFailure"
    MaxRetries   \* service -> max_retries of its policy

(* startup_order sorts topologically: the registry has no cycle.  Nothing  *)
(* checks that a name is registered; where one is not, it is passed over.  *)
ASSUME ServicesAssumption ==
    /\ IsFiniteSet(Services) /\ Services \subseteq Names
    /\ BuiltIn \subseteq Services /\ AutoStart \subseteq Services
    /\ Deps \in [Services -> Seq(Names)]
    /\ Order \in Seq(Services) /\ ToSet(Order) = Services /\ IsInjective(Order)
    /\ \A i \in DOMAIN Order :
          ToSet(Deps[Order[i]]) \cap Services \subseteq ToSet(SubSeq(Order, 1, i - 1))
    /\ Policy \in [Services -> {"never", "always", "onFailure"}]
    /\ MaxRetries \in [Services -> Nat]

VARIABLES
    state,     \* service -> ServiceState
    pids,      \* services whose entry holds a pid
    procs,     \* service -> "alive", "clean" or "failed": the children
    timers,    \* service -> "waiting" or "ripe": restart_timers
    restarts   \* service -> restart_count

vars == <<state, pids, procs, timers, restarts>>

ServiceState == {"Stopped", "Running", "Failed", "Restarting", "Disabled"}

Now == [state |-> state, pids |-> pids, procs |-> procs, timers |-> timers, restarts |-> restarts]

Becomes(s) ==
    /\ state' = s.state
    /\ pids' = s.pids
    /\ procs' = s.procs
    /\ timers' = s.timers
    /\ restarts' = s.restarts

Init ==
    /\ state \in [Services -> {"Stopped", "Disabled"}]
    /\ pids = {}
    /\ procs = << >>
    /\ timers = << >>
    /\ restarts = [x \in Services |-> 0]

(* The dependencies that a call sees: those the registry has. *)
DependsOn(x) == ToSet(Deps[x]) \cap Services
Dependents(x) == {y \in Services : x \in DependsOn(y)}

WithState(s, xs, st) == [s EXCEPT !.state = [y \in Services |-> IF y \in xs THEN st ELSE @[y]]]

Without(f, xs) == [y \in DOMAIN f \ xs |-> f[y]]

-----------------------------------------------------------------------------
(* start_service                                                           *)

(* The services the recursion reaches, in the order they start: those not  *)
(* running that x needs, each after its own, and x.  A name that is not    *)
(* registered is passed over.  A disabled service ends the call before its *)
(* own dependencies are looked at.  One that two others need comes twice,  *)
(* and is running the second time.                                         *)
Visits(st, x) ==
    LET visits[y \in Services] ==
            LET of(d) == IF d \in Services THEN visits[d] ELSE << >>
            IN  IF st[y] = "Running" THEN << >>
                ELSE IF st[y] = "Disabled" THEN <<y>>
                ELSE Append(FlattenSeq([i \in DOMAIN Deps[y] |-> of(Deps[y][i])]), y)
    IN  visits[x]

(* Mutant of Started: a built-in service is spawned too. *)
StartedSpawningAll(s, xs) ==
    [WithState(s, xs, "Running") EXCEPT
        !.pids = @ \cup xs,
        !.procs = [y \in DOMAIN @ \cup xs |-> IF y \in xs THEN "alive" ELSE @[y]]]

Started(s, xs) ==
    LET spawned == xs \ BuiltIn
    IN  [WithState(s, xs, "Running") EXCEPT
            !.pids = @ \cup spawned,
            !.procs = [y \in DOMAIN @ \cup spawned |-> IF y \in spawned THEN "alive" ELSE @[y]]]

(* Mutant of StartOutcomes: dependencies are left alone. *)
StartOutcomesAlone(s, x) ==
    IF s.state[x] \in {"Running", "Disabled"} THEN {s} ELSE {Started(s, {x})}

(* Every way the call can end: everything started, or the first that is    *)
(* disabled or cannot be spawned ends it, and what started before it goes  *)
(* on running.                                                             *)
StartOutcomes(s, x) ==
    LET visits == Visits(s.state, x)
        earlier(k) == {visits[j] : j \in 1 .. k - 1}
        disabled == {k \in DOMAIN visits : s.state[visits[k]] = "Disabled"}
        reached == {k \in DOMAIN visits : \A j \in disabled : k <= j}
        spawned == {k \in reached \ disabled : visits[k] \notin BuiltIn \cup earlier(k)}
    IN  {Started(s, earlier(k)) : k \in disabled \cap reached}
        \cup {WithState(Started(s, earlier(k)), {visits[k]}, "Failed") : k \in spawned}
        \cup (IF disabled = {} THEN {Started(s, ToSet(visits))} ELSE {})

StartService(x) == \E s \in StartOutcomes(Now, x) : Becomes(s)

(* One start after another, each from what the one before has left; a      *)
(* service in another state than those in from[x] is passed over.          *)
StartEach(s, xs, from) ==
    LET outs[n \in 0 .. Len(xs)] ==
            IF n = 0 THEN {s}
            ELSE UNION {IF o.state[xs[n]] \in from[xs[n]] THEN StartOutcomes(o, xs[n]) ELSE {o} :
                           o \in outs[n - 1]}
    IN  outs[Len(xs)]

StartAll ==
    LET wanted == [x \in Services |-> IF x \in AutoStart THEN {"Stopped"} ELSE {}]
    IN  \E s \in StartEach(Now, Order, wanted) : Becomes(s)

-----------------------------------------------------------------------------
(* stop_service                                                            *)

(* x, and what runs on top of it. *)
StopSet(st, xs) ==
    LET up[n \in 0 .. Cardinality(Services)] ==
            IF n = 0 THEN xs
            ELSE up[n - 1] \cup {y \in UNION {Dependents(x) : x \in up[n - 1]} : st[y] = "Running"}
    IN  up[Cardinality(Services)]

(* Mutant of Stopped: the child is not removed. *)
StoppedUnkilled(s, xs) ==
    LET all == StopSet(s.state, xs)
    IN  [WithState(s, all, "Stopped") EXCEPT !.pids = @ \ all]

(* The processes are killed and reaped, the pids forgotten; a restart that *)
(* is pending stays pending.                                               *)
Stopped(s, xs) ==
    LET all == StopSet(s.state, xs)
    IN  [WithState(s, all, "Stopped") EXCEPT !.pids = @ \ all, !.procs = Without(@, all)]

StopService(x) == Becomes(Stopped(Now, {x}))

RestartService(x) == \E s \in StartOutcomes(Stopped(Now, {x}), x) : Becomes(s)

(* Each running service in turn; the others are passed over. *)
StopAll == Becomes(Stopped(Now, {x \in Services : state[x] = "Running"}))

-----------------------------------------------------------------------------
(* tick                                                                    *)

Exited == {x \in DOMAIN procs : procs[x] # "alive"}

Restartable(x) ==
    /\ restarts[x] < MaxRetries[x]
    /\ \/ Policy[x] = "always"
       \/ Policy[x] = "onFailure" /\ procs[x] = "failed"

(* Mutants of Reaped: the timer is forgotten; the pid is kept. *)
ReapedUntimed ==
    LET again == {x \in Exited : Restartable(x)}
    IN  [Now EXCEPT
            !.procs = Without(@, Exited),
            !.pids = @ \ Exited,
            !.restarts = [x \in Services |-> IF x \in again THEN @[x] + 1 ELSE @[x]],
            !.state = [x \in Services |-> IF x \in again THEN "Restarting" ELSE @[x]]]

ReapedLeaving ==
    LET again == {x \in Exited : Restartable(x)}
    IN  [Now EXCEPT
            !.pids = @ \ again,
            !.procs = Without(@, again),
            !.timers = [x \in DOMAIN @ \cup again |-> IF x \in again THEN "waiting" ELSE @[x]],
            !.restarts = [x \in Services |-> IF x \in again THEN @[x] + 1 ELSE @[x]],
            !.state = [x \in Services |-> IF x \in again THEN "Restarting" ELSE @[x]]]

(* The first half: exited children are removed, and restarted later or     *)
(* given up.                                                               *)
Reaped ==
    LET again == {x \in Exited : Restartable(x)}
    IN  [state |-> [x \in Services |->
                       CASE x \in again -> "Restarting"
                         [] x \in Exited \ again -> IF procs[x] = "clean" THEN "Stopped" ELSE "Failed"
                         [] OTHER -> state[x]],
         pids |-> pids \ Exited,
         procs |-> Without(procs, Exited),
         timers |-> [x \in DOMAIN timers \cup again |-> IF x \in again THEN "waiting" ELSE timers[x]],
         restarts |-> [x \in Services |-> IF x \in again THEN restarts[x] + 1 ELSE restarts[x]]]

(* The second half: the timers that are ripe are removed and their         *)
(* services started, in any order.                                         *)
Tick ==
    LET s == Reaped
        ripe == {x \in DOMAIN s.timers : s.timers[x] = "ripe"}
        any == [x \in Services |-> ServiceState]
    IN  \E xs \in SetToSeqs(ripe) :
          \E o \in StartEach([s EXCEPT !.timers = Without(@, ripe)], xs, any) : Becomes(o)

-----------------------------------------------------------------------------
(* A poll that fails counts as an exit without a code: the child is in the *)
(* table until it is reaped here, so the call fails only for a process     *)
(* that is not there to be waited for, and that is a failed exit.          *)
ProcessExits(x) ==
    /\ x \in DOMAIN procs /\ procs[x] = "alive"
    /\ \E code \in {"clean", "failed"} : procs' = [procs EXCEPT ![x] = code]
    /\ UNCHANGED <<state, pids, timers, restarts>>

BackoffElapses(x) ==
    /\ x \in DOMAIN timers /\ timers[x] = "waiting"
    /\ timers' = [timers EXCEPT ![x] = "ripe"]
    /\ UNCHANGED <<state, pids, procs, restarts>>

Next ==
    \/ \E x \in Services :
          \/ StartService(x) \/ StopService(x) \/ RestartService(x)
          \/ ProcessExits(x) \/ BackoffElapses(x)
    \/ StartAll \/ StopAll \/ Tick

(* The session manager's owner ticks; time passes. *)
Fairness == WF_vars(Tick) /\ \A x \in Services : WF_vars(BackoffElapses(x))

Spec == Init /\ [][Next]_vars /\ Fairness

-----------------------------------------------------------------------------
TypeOK ==
    /\ state \in [Services -> ServiceState]
    /\ pids \subseteq Services
    /\ DOMAIN procs \subseteq Services \ BuiltIn
    /\ DOMAIN timers \subseteq Services
    /\ restarts \in [Services -> Nat]

(* A running service that has an executable has a child and its pid, and   *)
(* no other service has: whatever mixture of starts, stops, failures and   *)
(* restarts, nothing runs unseen and no state lies.                        *)
ProcessesTracked ==
    /\ DOMAIN procs = {x \in Services \ BuiltIn : state[x] = "Running"}
    /\ pids = DOMAIN procs

(* A service that waits for its restart and needs no other service has a   *)
(* timer that will bring it back: no call takes it away.  One that needs   *)
(* others may be left without: the tick that finds its timer ripe removes  *)
(* the timer, and a dependency that cannot be started ends the call.       *)
RestartScheduled == \A x \in Services :
    state[x] = "Restarting" /\ DependsOn(x) = {} => x \in DOMAIN timers

(* Whichever call starts a service, a tick included, and however deep in   *)
(* the recursion, each registered service that it depends on runs by then. *)
DependenciesFirst ==
    [][\A x \in Services : state[x] # "Running" /\ state'[x] = "Running"
          => \A d \in DependsOn(x) : state'[d] = "Running"]_vars

(* service.rs:64 says of depends_on, without an exception, "Services that  *)
(* must be running before this one starts".  It is not so of a name that   *)
(* nobody has registered: start_service passes over it and goes on.        *)
EveryNameFirst ==
    [][\A x \in Services : state[x] # "Running" /\ state'[x] = "Running"
          => \A d \in ToSet(Deps[x]) : d \in Services /\ state'[d] = "Running"]_vars

(* A crash is answered: a process that has exited is found by a tick, and  *)
(* the restart it is given is attempted when its timer is ripe.  With      *)
(* RestartScheduled, one that no dependency can abort has then an end.     *)
CrashAnswered == \A x \in Services :
    x \in Exited \cup DOMAIN timers ~> x \notin Exited \cup DOMAIN timers
=============================================================================
