------------------------------- MODULE Gateway -------------------------------
(***************************************************************************)
(* The gateway daemon (liquide-gateway): it accepts clients, takes each    *)
(* through TLS, hello, login and routing, and relays it to one of the      *)
(* backend servers registered at the start.                                *)
(*                                                                         *)
(* The daemon is one select! loop over one &mut GatewayRuntime, and the    *)
(* arm that accepts a client awaits its whole handshake: ticks wait, only  *)
(* the clock and the detached relay tasks go on.  One action is the code   *)
(* between two awaits.  Audit events, session tokens and traffic counters  *)
(* decide nothing here and are left out.                                   *)
(***************************************************************************)
EXTENDS Integers, FiniteSets, Functions

CONSTANTS
    Addrs,               \* client addresses
    Servers,             \* backends registered at the start
    NoServer,            \* a connection's server_id None
    Reporting,           \* servers somebody calls record_heartbeat for
    Strategies,          \* the routing strategy is one of these
    Rate,                \* per_ip_rate_per_sec
    BanThreshold,        \* auth_failure_ban_threshold
    BanDuration,         \* ban_duration_sec
    Window,              \* auth_failure_window_sec
    CheckInterval,       \* interval_sec of the health checks
    UnhealthyThreshold,  \* unhealthy_threshold
    MaxRelays,           \* max_relay_sessions, 0 when relays are disabled
    MaxConns, MaxTime    \* bounds of the model

ASSUME GatewayAssumption ==
    /\ IsFiniteSet(Servers) /\ NoServer \notin Servers
    /\ "" \notin Servers \cup {NoServer}
    /\ Reporting \subseteq Servers
    /\ Strategies \subseteq {"leastLoad", "sticky", "direct"}
    /\ {Rate, Window} \subseteq Nat \ {0}
    /\ {BanThreshold, BanDuration, CheckInterval, MaxRelays} \subseteq Nat
    /\ UnhealthyThreshold \in Nat \ {0}
    /\ {MaxConns, MaxTime} \subseteq Nat

VARIABLES
    now,        \* SystemTime, in seconds
    strategy,   \* Router.strategy
    entries,    \* RateLimiter.entries: address -> [tokens, refilled, failures]
    bans,       \* RateLimiter.bans: address -> expires_at
    conns,      \* ConnectionTracker: id -> [addr, state, server, since]
    accepted,   \* ConnectionTracker.counter
    serving,    \* the connection the loop awaits, or Nobody
    sticky,     \* Router.sticky_bindings: address -> server
    routes,     \* ClusterState.session_routing: connection -> server
    relays,     \* active sessions of RelayManager: connection -> server
    streams,    \* connections whose forwarding task runs
    healthy,    \* the servers the registry holds as Healthy
    heartbeat,  \* server -> last_heartbeat
    status      \* HealthChecker.statuses: server -> [healthy, failures]

limits == <<entries, bans>>
backends == <<healthy, heartbeat, status>>
relaying == <<routes, relays, streams, sticky>>
vars == <<now, strategy, limits, conns, accepted, serving, relaying, backends>>

Nobody == 0
Ids == 1 .. MaxConns
Time == 0 .. MaxTime

ConnectionState == {"Connecting", "Authenticating", "Routing", "Established", "Terminated"}

Entry == [tokens : Nat, refilled : Time, failures : Nat]
Connection == [addr : Addrs, state : ConnectionState, server : Servers \cup {NoServer}, since : Time]
Status == [healthy : BOOLEAN, failures : 0 .. UnhealthyThreshold]

(* HashMap::insert. *)
Insert(f, x, v) == [y \in DOMAIN f \cup {x} |-> IF y = x THEN v ELSE f[y]]

(* main registers the backends and marks them healthy. *)
Init ==
    /\ now = 0
    /\ strategy \in Strategies
    /\ entries = << >> /\ bans = << >>
    /\ conns = << >> /\ accepted = 0 /\ serving = Nobody
    /\ sticky = << >> /\ routes = << >> /\ relays = << >> /\ streams = {}
    /\ healthy = Servers
    /\ heartbeat = [s \in Servers |-> 0]
    /\ status = [s \in Servers |-> [healthy |-> TRUE, failures |-> 0]]

-----------------------------------------------------------------------------
(* Rate limits *)

Banned(a) == a \in DOMAIN bans /\ now < bans[a]

Known(a, at) ==
    IF a \in DOMAIN entries THEN entries[a] ELSE [tokens |-> Rate, refilled |-> at, failures |-> 0]

Least(x, y) == IF x <= y THEN x ELSE y

(* A second fills Rate tokens in; the bucket holds two seconds' worth. *)
Refilled(e) ==
    [tokens   |-> Least(e.tokens + (now - e.refilled) * Rate, 2 * Rate),
     refilled |-> now,
     failures |-> e.failures]

(* Mutant of HasToken: the last token is spent twice. *)
HasTokenLate(e) == e.tokens >= 0

HasToken(e) == e.tokens >= 1

Spend(e) == [e EXCEPT !.tokens = @ - 1]

(* An address that is banned is turned away without a trace; one without a *)
(* token is, too, but its bucket has been refilled.                        *)
TurnAway(a) ==
    /\ serving = Nobody
    /\ ~Banned(a)
    /\ ~HasToken(Refilled(Known(a, now)))
    /\ entries' = Insert(entries, a, Refilled(Known(a, now)))
    /\ UNCHANGED <<now, strategy, bans, conns, accepted, serving, relaying, backends>>

Accept(a) ==
    /\ serving = Nobody /\ accepted < MaxConns
    /\ ~Banned(a)
    /\ HasToken(Refilled(Known(a, now)))
    /\ entries' = Insert(entries, a, Spend(Refilled(Known(a, now))))
    /\ accepted' = accepted + 1
    /\ conns' = Insert(conns, accepted', [addr |-> a, state |-> "Connecting",
                                          server |-> NoServer, since |-> now])
    /\ serving' = accepted'
    /\ UNCHANGED <<now, strategy, bans, relaying, backends>>

(* The time of a failure is the one the connection was accepted at. *)
FailureCounted(a, at) ==
    LET e == Known(a, at)
    IN  IF e.failures + 1 >= BanThreshold
        THEN /\ bans' = Insert(bans, a, at + BanDuration)
             /\ entries' = Insert(entries, a, [e EXCEPT !.failures = 0])
        ELSE /\ entries' = Insert(entries, a, [e EXCEPT !.failures = @ + 1])
             /\ UNCHANGED bans

-----------------------------------------------------------------------------
(* The handshake of the connection that is served *)

In(states) == serving # Nobody /\ conns[serving].state \in states

Moved(st) == conns' = [conns EXCEPT ![serving] = [@ EXCEPT !.state = st]]

(* TLS, a hello or a login that cannot be read, an incompatible version,   *)
(* or an authentication that is neither granted nor denied.                *)
BreakOff ==
    /\ In({"Connecting", "Authenticating"})
    /\ Moved("Terminated")
    /\ serving' = Nobody
    /\ UNCHANGED <<now, strategy, limits, accepted, relaying, backends>>

(* A hello, a prompt or a login's answer that cannot be sent: the handler  *)
(* returns and the connection stays as it is.                              *)
SendFails ==
    /\ In({"Connecting", "Authenticating"})
    /\ serving' = Nobody
    /\ UNCHANGED <<now, strategy, limits, conns, accepted, relaying, backends>>

Hello ==
    /\ In({"Connecting"})
    /\ Moved("Authenticating")
    /\ UNCHANGED <<now, strategy, limits, accepted, serving, relaying, backends>>

Deny ==
    /\ In({"Authenticating"})
    /\ Moved("Terminated")
    /\ FailureCounted(conns[serving].addr, conns[serving].since)
    /\ serving' = Nobody
    /\ UNCHANGED <<now, strategy, accepted, relaying, backends>>

Login ==
    /\ In({"Authenticating"})
    /\ Moved("Routing")
    /\ UNCHANGED <<now, strategy, limits, accepted, serving, relaying, backends>>

(* Which of the healthy servers it is depends on the order of a HashMap. A *)
(* binding of the sticky strategy is followed whatever the server's health.*)
Targets(a) ==
    CASE strategy = "sticky" /\ a \in DOMAIN sticky -> {sticky[a]}
      [] strategy = "direct" -> {}
      [] OTHER -> healthy

RouteFails ==
    /\ In({"Routing"})
    /\ Targets(conns[serving].addr) = {}
    /\ serving' = Nobody
    /\ UNCHANGED <<now, strategy, limits, conns, accepted, relaying, backends>>

Routed(s, st) ==
    /\ In({"Routing"})
    /\ s \in Targets(conns[serving].addr)
    /\ conns' = [conns EXCEPT ![serving] = [@ EXCEPT !.state = st, !.server = s]]
    /\ sticky' = IF strategy = "sticky" THEN Insert(sticky, conns[serving].addr, s) ELSE sticky
    /\ routes' = Insert(routes, serving, s)
    /\ serving' = Nobody
    /\ UNCHANGED <<now, strategy, limits, accepted, backends>>

BackendUnreachable(s) ==
    /\ Routed(s, "Terminated")
    /\ UNCHANGED <<relays, streams>>

(* Mutant of RelayRefused: the limit is compared one too late. *)
RelayRefusedLate == Cardinality(DOMAIN relays) > MaxRelays

RelayRefused == Cardinality(DOMAIN relays) >= MaxRelays

(* Without a relay session the connection stays Established, but its       *)
(* streams are dropped.                                                    *)
BackendConnected(s) ==
    /\ Routed(s, "Established")
    /\ IF RelayRefused
       THEN UNCHANGED <<relays, streams>>
       ELSE /\ relays' = Insert(relays, serving, s)
            /\ streams' = streams \cup {serving}

(* The task of a relay ends with its streams.  It tells nobody. *)
StreamEnds(c) ==
    /\ c \in streams
    /\ streams' = streams \ {c}
    /\ UNCHANGED <<now, strategy, limits, conns, accepted, serving, routes, relays, sticky, backends>>

-----------------------------------------------------------------------------
(* Ticks *)

(* Mutant of Checked: the threshold is compared one too late. *)
CheckedPatient(s) ==
    IF now - heartbeat[s] < 3 * CheckInterval
    THEN [healthy |-> TRUE, failures |-> 0]
    ELSE LET n == Least(status[s].failures + 1, UnhealthyThreshold)
         IN  [healthy |-> status[s].healthy /\ n <= UnhealthyThreshold, failures |-> n]

(* The count saturates at the threshold: nothing tells it from a larger    *)
(* one.                                                                    *)
Checked(s) ==
    IF now - heartbeat[s] < 3 * CheckInterval
    THEN [healthy |-> TRUE, failures |-> 0]
    ELSE LET n == Least(status[s].failures + 1, UnhealthyThreshold)
         IN  [healthy |-> status[s].healthy /\ n < UnhealthyThreshold, failures |-> n]

HealthCheckTick ==
    /\ serving = Nobody
    /\ status' = [s \in Servers |-> Checked(s)]
    /\ healthy' = {s \in Servers : Checked(s).healthy}
    /\ UNCHANGED <<now, strategy, limits, conns, accepted, serving, relaying, heartbeat>>

(* connections_for_server(""): no server has that id. *)
Stale == {c \in DOMAIN conns :
    conns[c].server = "" /\ conns[c].state = "Terminated" /\ now - conns[c].since > 60}

(* Mutants: a ban ends a second early; the bucket of a busy address is     *)
(* forgotten.                                                              *)
BanRunsShort(a) == now + 1 < bans[a]
FreshNever(a) == FALSE

BanRuns(a) == now < bans[a]
Fresh(a) == now - entries[a].refilled < 2 * Window

CleanupTick ==
    /\ serving = Nobody
    /\ bans' = Restrict(bans, {a \in DOMAIN bans : BanRuns(a)})
    /\ entries' = Restrict(entries, {a \in DOMAIN entries : Fresh(a)})
    /\ conns' = Restrict(conns, DOMAIN conns \ Stale)
    /\ UNCHANGED <<now, strategy, accepted, serving, relaying, backends>>

-----------------------------------------------------------------------------
RecordHeartbeat(s) ==
    /\ serving = Nobody
    /\ heartbeat' = [heartbeat EXCEPT ![s] = now]
    /\ UNCHANGED <<now, strategy, limits, conns, accepted, serving, relaying, healthy, status>>

SecondPasses ==
    /\ now < MaxTime
    /\ now' = now + 1
    /\ UNCHANGED <<strategy, limits, conns, accepted, serving, relaying, backends>>

Handshake ==
    \/ BreakOff \/ SendFails \/ Hello \/ Deny \/ Login \/ RouteFails
    \/ \E s \in Servers : BackendUnreachable(s) \/ BackendConnected(s)

Next ==
    \/ \E a \in Addrs : TurnAway(a) \/ Accept(a)
    \/ Handshake
    \/ \E c \in Ids : StreamEnds(c)
    \/ HealthCheckTick \/ CleanupTick
    \/ \E s \in Reporting : RecordHeartbeat(s)
    \/ SecondPasses

(* select! takes each arm that is ready again and again, even if a client  *)
(* is ready each time; the clock runs.  Nothing is assumed of the clients: *)
(* the handshake has no time-out, and the one being served may stay silent.*)
Fairness ==
    /\ SF_vars(HealthCheckTick)
    /\ WF_vars(SecondPasses)

Spec == Init /\ [][Next]_vars /\ Fairness

-----------------------------------------------------------------------------
TypeOK ==
    /\ now \in Time
    /\ strategy \in Strategies
    /\ DOMAIN entries \subseteq Addrs /\ entries \in [DOMAIN entries -> Entry]
    /\ DOMAIN bans \subseteq Addrs /\ bans \in [DOMAIN bans -> Nat]
    /\ accepted \in 0 .. MaxConns
    /\ conns \in [1 .. accepted -> Connection]
    /\ serving \in 0 .. accepted
    /\ DOMAIN sticky \subseteq Addrs /\ sticky \in [DOMAIN sticky -> Servers]
    /\ streams \subseteq DOMAIN relays
    /\ healthy \subseteq Servers
    /\ heartbeat \in [Servers -> Time]
    /\ status \in [Servers -> Status]

Admitted(a, from, to) == {c \in DOMAIN conns : conns[c].addr = a /\ conns[c].since \in from .. to}

(* The bucket keeps its promise over every stretch of time, not only now:  *)
(* an address gets at most two seconds' worth of connections and Rate more *)
(* per second that passes, also when its entry is forgotten in between.    *)
RateBounded == \A a \in Addrs, from \in Time : \A to \in from .. MaxTime :
    Cardinality(Admitted(a, from, to)) <= Rate * (2 + to - from)

(* A route is held for each connection that was given a server, that       *)
(* server, and for no other; an active relay is one between an established *)
(* connection and its server, and they are never more than allowed.        *)
RelaysAccounted ==
    /\ DOMAIN routes = {c \in DOMAIN conns : conns[c].server # NoServer}
    /\ \A c \in DOMAIN routes : conns[c].server = routes[c]
    /\ DOMAIN relays \subseteq {c \in DOMAIN routes : conns[c].state = "Established"}
    /\ \A c \in DOMAIN relays : relays[c] = routes[c]
    /\ Cardinality(DOMAIN relays) <= MaxRelays

(* No client is routed to a server whose last checks failed as often as    *)
(* the threshold says, however long ago, unless it is bound to it.         *)
UnhealthyAvoided ==
    [][\A c \in DOMAIN conns :
          /\ conns[c].server = NoServer /\ conns'[c].server \in Servers
          /\ strategy # "sticky"
          => status[conns'[c].server].failures < UnhealthyThreshold]_vars

(* A ban is never lifted or shortened before it has expired. *)
BanServed ==
    [][\A a \in DOMAIN bans : now < bans[a] => a \in DOMAIN bans' /\ bans'[a] >= bans[a]]_vars

(* If each client answers or hangs up in the end, so that the loop is back *)
(* at its select again and again, a server nobody reports for is given up, *)
(* however often clients come between the ticks, and not taken back.       *)
SilentDropped ==
    ([]<>(serving = Nobody)) => \A s \in Servers \ Reporting : <>[](s \notin healthy)

(* main.rs:116 promises without that premise: "subsequent health-check     *)
(* ticks maintain this based on heartbeats".  A client that stays silent   *)
(* in its handshake keeps the ticks from running, and the server stays.    *)
HealthMaintained == \A s \in Servers \ Reporting : <>[](s \notin healthy)

(* active_count is documented as the "Number of active relay sessions",    *)
(* and a relay forwards "until either side closes" (relay.rs:25): so each  *)
(* active session should have a task that forwards.                        *)
ActiveRelaysForward == DOMAIN relays = streams
=============================================================================
