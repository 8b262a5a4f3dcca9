------------------------------ MODULE Supervisor ------------------------------
(***************************************************************************)
(* SupervisorRuntime of liquide-supervisor: the session registry, the      *)
(* spawner that owns the session processes, heartbeat tracking, admission  *)
(* control, crash handling with the restart policy, the control commands   *)
(* and the periodic tick.  Around it, what the runtime does not control:   *)
(* session processes that send heartbeats, hang or exit, and an operating  *)
(* system that hands out process ids, and may hand out one again once its  *)
(* process has been reaped.                                                *)
(*                                                                         *)
(* The daemon is one event loop over one &mut SupervisorRuntime, so every  *)
(* method is one action.  The HashMaps are functions with a finite domain. *)
(***************************************************************************)
EXTENDS Downgrade, FiniteSets, Functions

CONSTANTS
    MaxIds,          \* bound of the model: session ids given out
    Pids,            \* process ids of the operating system
    Resources,       \* resource kinds admission looks at (cpu cores, memory)
    Total,           \* host capacity per resource kind
    Reserved,        \* capacity kept back for the supervisor and the OS
    Budget,          \* budget of one session (ResourceDefaults)
    AdmissionEnabled, \* AdmissionConfig.enabled
    MaxSessions,     \* AdmissionConfig.max_sessions, 0 = no limit
    TimeoutCount,    \* HeartbeatConfig.timeout_count
    MaxRestarts,     \* RestartPolicy.max_restarts
    LateReports      \* may a crash be reported of a session that has ended?

ASSUME SupervisorAssumption ==
    /\ MaxIds \in Nat
    /\ {Total, Reserved, Budget} \subseteq [Resources -> Nat]
    /\ AdmissionEnabled \in BOOLEAN
    /\ MaxSessions \in Nat
    /\ TimeoutCount \in Nat
    /\ MaxRestarts \in Nat
    /\ LateReports \in BOOLEAN

VARIABLES
    sessions,   \* session_registry: id -> [state, pid, restarts]
    nextId,     \* next_session_id
    hb,         \* heartbeat_tracker.entries: id -> missed_count
    children,   \* spawner.children: pid -> the session it was started for
    alive       \* pids of the children whose process still runs

sessionVars == <<sessions, nextId, hb, children, alive>>
vars == <<sessions, nextId, hb, children, alive, cpu, level, recovery>>

Ids == 1 .. MaxIds

SessionState == {"Spawning", "Running", "Locked", "Disconnected",
                 "Suspended", "Crashed", "Failed", "Terminated"}

SessionRecord == [state : SessionState, pid : Pids, restarts : Nat]

(* The states whose budget admission and active_count leave out. *)
Ended == {"Failed", "Terminated"}

(* HashMap::insert and HashMap::remove. *)
Insert(f, x, v) == [y \in DOMAIN f \cup {x} |-> IF y = x THEN v ELSE f[y]]
Drop(f, x) == Restrict(f, DOMAIN f \ {x})

Active(sess) == {s \in DOMAIN sess : sess[s].state \notin Ended}

Init ==
    /\ sessions = << >>
    /\ nextId = 1
    /\ hb = << >>
    /\ children = << >>
    /\ alive = {}
    /\ DowngradeInit

-----------------------------------------------------------------------------
(* Admission control.  Every session has the same default budget.          *)

(* queue_size is set to 0 by new() and by nothing else. *)
QueueSize == 0

(* Mutant of Available: only Running sessions count as used. *)
AvailableToRunning(sess, r) ==
    LET running == {s \in DOMAIN sess : sess[s].state = "Running"}
        left    == Total[r] - Reserved[r] - Cardinality(running) * Budget[r]
    IN  IF left > 0 THEN left ELSE 0

(* total - reserved - used, saturating at zero. *)
Available(sess, r) ==
    LET left == Total[r] - Reserved[r] - Cardinality(Active(sess)) * Budget[r]
    IN  IF left > 0 THEN left ELSE 0

(* compute_available_resources followed by check_admission.  A request     *)
(* that is queued and one that is rejected are the same error to spawn.    *)
Accepted(sess) ==
    \/ ~AdmissionEnabled
    \/ /\ ~(MaxSessions > 0 /\ QueueSize >= MaxSessions)
       /\ \A r \in Resources : Available(sess, r) >= Budget[r]

-----------------------------------------------------------------------------
(* Spawning, on the registry, heartbeats and children given: the command   *)
(* that restarts a session spawns on what terminating it left.             *)

Rejected(sess, beats, kids, live) ==
    /\ ~Accepted(sess)
    /\ sessions' = sess
    /\ hb' = beats
    /\ children' = kids
    /\ alive' = live
    /\ UNCHANGED nextId

(* The OS could not start the process, or it had exited at the first poll: *)
(* the id is used up and nothing is recorded.                              *)
SpawnFails(sess, beats, kids, live) ==
    /\ Accepted(sess)
    /\ nextId \in Ids
    /\ nextId' = nextId + 1
    /\ sessions' = sess
    /\ hb' = beats
    /\ children' = kids
    /\ alive' = live

NewRecord(p) == [state |-> "Running", pid |-> p, restarts |-> 0]

(* A pid is free unless a live or unreaped child still holds it. *)
SpawnSucceeds(sess, beats, kids, live, p) ==
    /\ Accepted(sess)
    /\ nextId \in Ids
    /\ p \notin DOMAIN kids
    /\ nextId' = nextId + 1
    /\ sessions' = Insert(sess, nextId, NewRecord(p))
    /\ hb' = Insert(beats, nextId, 0)
    /\ children' = Insert(kids, p, nextId)
    /\ alive' = live \cup {p}

SpawnOn(sess, beats, kids, live) ==
    \/ Rejected(sess, beats, kids, live)
    \/ SpawnFails(sess, beats, kids, live)
    \/ \E p \in Pids : SpawnSucceeds(sess, beats, kids, live, p)

SpawnSession ==
    /\ SpawnOn(sessions, hb, children, alive)
    /\ UNCHANGED downgradeVars

-----------------------------------------------------------------------------
(* Terminating: the state, then kill_session on the recorded pid, which    *)
(* removes whatever child has that pid, then the heartbeat entry.          *)

WithState(sess, s, st) == [sess EXCEPT ![s].state = st]

(* Mutants: the child is never looked up; its handle is dropped and the    *)
(* process left running.                                                   *)
TerminatedChildrenKept(s)  == children
TerminatedAliveUnkilled(s) == alive

(* Mutant of TerminatedBeats: a terminated session stays watched.          *)
TerminatedBeatsKept(s) == hb

TerminatedSessions(s) == WithState(sessions, s, "Terminated")
TerminatedBeats(s)    == Drop(hb, s)
TerminatedChildren(s) == Drop(children, sessions[s].pid)
TerminatedAlive(s)    == alive \ {sessions[s].pid}

TerminateSession(s) ==
    /\ sessions' = TerminatedSessions(s)
    /\ hb' = TerminatedBeats(s)
    /\ children' = TerminatedChildren(s)
    /\ alive' = TerminatedAlive(s)
    /\ UNCHANGED <<nextId, downgradeVars>>

(* ControlCommand::RestartSession: terminate, then spawn a new session. *)
RestartSession(s) ==
    /\ SpawnOn(TerminatedSessions(s), TerminatedBeats(s),
               TerminatedChildren(s), TerminatedAlive(s))
    /\ UNCHANGED downgradeVars

(* The four commands that move a session between two states. *)
ControlTransition(s, from, to) ==
    /\ sessions[s].state = from
    /\ sessions' = WithState(sessions, s, to)
    /\ UNCHANGED <<nextId, hb, children, alive, downgradeVars>>

LockSession(s)    == ControlTransition(s, "Running", "Locked")
UnlockSession(s)  == ControlTransition(s, "Locked", "Running")
SuspendSession(s) == ControlTransition(s, "Running", "Suspended")
ResumeSession(s)  == ControlTransition(s, "Suspended", "Running")

-----------------------------------------------------------------------------
(* Crashes.  handle_crash looks at no state before it marks the record:    *)
(* Crashed and then, in the same call, Running or Failed.                  *)

(* Mutant of EntersFailed: one restart too many. *)
EntersFailedLate(n) == n > MaxRestarts

EntersFailed(n) == n >= MaxRestarts

(* Mutant of AfterCrash: the count never goes up. *)
AfterCrashUncounted(rec) ==
    [rec EXCEPT !.state = IF EntersFailed(rec.restarts + 1) THEN "Failed" ELSE "Running"]

AfterCrash(rec) ==
    [state    |-> IF EntersFailed(rec.restarts + 1) THEN "Failed" ELSE "Running",
     pid      |-> rec.pid,
     restarts |-> rec.restarts + 1]

CrashedSessions(crashed) ==
    [s \in DOMAIN sessions |->
        IF s \in crashed THEN AfterCrash(sessions[s]) ELSE sessions[s]]

(* Mutant of GivenUp: a failed session stays watched. *)
GivenUpNever(crashed) == {}

(* The crashed sessions that exhaust their restarts are no longer watched. *)
GivenUp(crashed) ==
    {s \in crashed : EntersFailed(sessions[s].restarts + 1)}

HandleCrash(s) ==
    /\ sessions' = CrashedSessions({s})
    /\ hb' = Restrict(hb, DOMAIN hb \ GivenUp({s}))
    /\ UNCHANGED <<nextId, children, alive, downgradeVars>>

(* A crash reported by another than the tick: handle_crash is public and   *)
(* looks at no state.  The repository has no such caller but its tests,    *)
(* which report sessions that run; with LateReports the report may come    *)
(* after the session has ended.  Bound of the model: a session of which    *)
(* more crashes are counted than restarts are allowed is not reported      *)
(* again; only the count would change.                                     *)
CrashReported(s) ==
    /\ LateReports \/ s \in Active(sessions)
    /\ sessions[s].restarts <= MaxRestarts
    /\ HandleCrash(s)

-----------------------------------------------------------------------------
(* Heartbeats and the tick.                                                *)

(* A count past the timeout is as good as the timeout: it is compared with *)
(* nothing else.                                                           *)
Missed(n) == IF n + 1 >= TimeoutCount THEN TimeoutCount ELSE n + 1

TimedOut == {s \in DOMAIN hb : Missed(hb[s]) >= TimeoutCount}

(* tick(): every entry misses one more beat, each one that times out is    *)
(* handled as a crash, and then the host load is looked at.                *)
Tick ==
    /\ sessions' = CrashedSessions(TimedOut)
    /\ hb' = [s \in DOMAIN hb \ GivenUp(TimedOut) |-> Missed(hb[s])]
    /\ DowngradeTick
    /\ UNCHANGED <<nextId, children, alive>>

RecordHeartbeat(s) ==
    /\ s \in DOMAIN hb
    /\ hb' = [hb EXCEPT ![s] = 0]
    /\ UNCHANGED <<sessions, nextId, children, alive, downgradeVars>>

(* A heartbeat comes from the session's own process, while it lives. *)
OwnAlive(s) == \E p \in alive : children[p] = s

HeartbeatArrives(s) == OwnAlive(s) /\ RecordHeartbeat(s)

-----------------------------------------------------------------------------
(* The session processes.                                                  *)

(* is_session_process_alive polls the recorded pid and reaps an exited     *)
(* child, after which its pid is free.  A poll that fails drops the handle *)
(* as well: the kernel refuses only when it knows no such child any more   *)
(* (ECHILD), so the process has gone in that case, too.                    *)
PollAlive(s) ==
    /\ LET p == sessions[s].pid
       IN  /\ p \in DOMAIN children
           /\ p \notin alive
           /\ children' = Drop(children, p)
    /\ UNCHANGED <<sessions, nextId, hb, alive, downgradeVars>>

(* A session process exits by itself; nothing tells the supervisor. *)
ProcessExits(p) ==
    /\ alive' = alive \ {p}
    /\ UNCHANGED <<sessions, nextId, hb, children, downgradeVars>>

MetricsArrive(load) ==
    /\ UpdateHostMetrics(load)
    /\ UNCHANGED sessionVars

SecondPasses ==
    /\ Elapse
    /\ UNCHANGED sessionVars

-----------------------------------------------------------------------------
Next ==
    \/ SpawnSession
    \/ \E s \in DOMAIN sessions :
          \/ TerminateSession(s)
          \/ RestartSession(s)
          \/ LockSession(s)
          \/ UnlockSession(s)
          \/ SuspendSession(s)
          \/ ResumeSession(s)
          \/ CrashReported(s)
          \/ PollAlive(s)
    \/ \E s \in DOMAIN hb : HeartbeatArrives(s)
    \/ \E p \in alive : ProcessExits(p)
    \/ \E load \in CpuLoads : MetricsArrive(load)
    \/ SecondPasses
    \/ Tick

(* main.rs runs tick() on a tokio interval for as long as the daemon       *)
(* lives; nothing else is owed to anybody.                                 *)
Fairness == WF_vars(Tick)

Spec == Init /\ [][Next]_vars /\ Fairness

-----------------------------------------------------------------------------
(* Types of the runtime's state, and the alive processes are children. *)
TypeOK ==
    /\ DOMAIN sessions \subseteq Ids
    /\ sessions \in [DOMAIN sessions -> SessionRecord]
    /\ nextId \in 1 .. MaxIds + 1
    /\ \A s \in DOMAIN sessions : s < nextId
    /\ hb \in [DOMAIN hb -> 0 .. TimeoutCount]
    /\ DOMAIN children \subseteq Pids
    /\ children \in [DOMAIN children -> Ids]
    /\ alive \subseteq DOMAIN children
    /\ DowngradeTypeOK

(* The heartbeat tracker watches exactly the sessions the registry counts  *)
(* as active: spawn, terminate, restart, timeout and crash reports each    *)
(* change both maps, on different lines and in a different order.  A late  *)
(* report would make an ended session active and leave it unwatched.       *)
WatchedIffActive == DOMAIN hb = Active(sessions)

(* Admission keeps its promise over any history of terminations, crashes   *)
(* and restarts: the budgets of the active sessions and the reserve fit    *)
(* the host, in every resource.  A late report brings a session back past  *)
(* admission: this, too, needs callers that report none.                   *)
WithinCapacity ==
    AdmissionEnabled =>
        \A r \in Resources :
            \/ Active(sessions) = {}
            \/ Reserved[r] + Cardinality(Active(sessions)) * Budget[r] <= Total[r]
            \/ Budget[r] = 0

(* A session that goes on has crashed fewer times than the restart policy  *)
(* allows, counting the crash that is being handled, and one that failed   *)
(* has used the policy up.                                                 *)
CrashBudget ==
    \A s \in DOMAIN sessions :
        /\ s \in Active(sessions) => sessions[s].restarts = 0 \/ sessions[s].restarts < MaxRestarts
        /\ sessions[s].state = "Failed" => sessions[s].restarts >= MaxRestarts

(* No process outlives the termination of its session, and every child the *)
(* spawner holds can be killed through the record of the session it was    *)
(* started for.                                                            *)
ChildrenAccounted ==
    \A p \in DOMAIN children :
        /\ children[p] \in DOMAIN sessions
        /\ sessions[children[p]].pid = p
        /\ sessions[children[p]].state # "Terminated"

(* What has ended comes back, if at all, by a report of a crash and by     *)
(* nothing else: no tick, restart or late command revives it.  Such a      *)
(* report counts against the restarts, so that a session which has used    *)
(* them up, and each failed one has, never comes back.                     *)
NoResurrection ==
    [][\A s \in DOMAIN sessions \ Active(sessions) :
          /\ s \in DOMAIN sessions'
          /\ s \in Active(sessions') =>
                /\ CrashReported(s)
                /\ sessions[s].state = "Terminated"
                /\ sessions'[s].restarts = sessions[s].restarts + 1
                /\ sessions'[s].restarts < MaxRestarts]_vars

(* A session whose process has gone does not stay active for ever: the     *)
(* missed heartbeats use up its restarts, or somebody terminates it.  As   *)
(* no id is used twice and a behaviour has MaxIds sessions, this is to say *)
(* that it happens again and again that each watched session is alive.     *)
DeadDetected == []<>(\A s \in DOMAIN hb : OwnAlive(s))

(* "Returns `true` if the underlying OS process for the session is alive", *)
(* says is_session_process_alive: if the process that the poll finds under *)
(* the recorded pid runs, it is the session's.  It need not be: the pid of *)
(* a reaped process may have gone to another session's since.              *)
AliveMeansOwn ==
    \A s \in DOMAIN sessions : sessions[s].pid \in alive => children[sessions[s].pid] = s
=============================================================================
