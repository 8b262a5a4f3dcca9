# LiquiDE in TLA+

A verification development kept beside the sources of LiquiDE, a modular desktop
environment and remote desktop stack in Rust (about 150 crates under
`src/crates/liquide-*`). It models parts of the system that are concurrent or long-lived
enough for tests to miss their mistakes, checks them with TLC on small instances, and
proves, with TLAPS and for every value of the parameters, each invariant that a passing
run checks.

Contents: 1 the system, 2 the modules, 3 the runs, 4 the proofs, 5 what the code does
not keep, 6 what is not modelled, 7 the plan.

## 1. The system

The parts in **bold** are modelled, as far as section 6 says.

| Part | State it keeps | Operations | Hard behaviour | What makes it correct |
|---|---|---|---|---|
| **Supervisor** (`liquide-supervisor`) | session registry, child processes by pid, heartbeat table, admission figures, downgrade level | spawn, terminate, restart, lock/unlock, suspend/resume, crash report, tick, control commands | processes die or hang by themselves, pids are reused, four tables change in different methods | tables agree; the host is not oversubscribed; ended sessions stay ended; dead sessions are noticed; downgrades follow load and do not flap |
| **Render threads** (`liquide-render-thread`) | coordinator, two thread handles, two message and two completion channels, pending pair, damage backlog | request_frame, poll_completions, resize, shutdown, attach, worker loop | two workers and the UI thread interleave; workers panic; sends fail between two calls | a pair shows one scene; one frame in flight; nothing waits for ever |
| **Render worker pool** (`liquide-render-coordinator`) | calls of its clients, a bounded channel each way per worker, heaps, pending outputs | submit, poll, wait, drop; worker loop with respawn | clients that call at the same time, bounded channels in both directions, panics, an output that comes while another is waited for | every task is in one place; what is accepted is answered; workers end with the coordinator |
| **Desktop message queue** (`liquide-session/src/desktop/lockfree_queue.rs`) | atomic list head, wake flag, counters | push (many producers), drain (one consumer) | compare-and-swap races, reuse of freed nodes | FIFO, nothing lost or freed twice, sleepers woken |
| **Window message queue** (`liquide-message-queue`) | posted and sent messages, coalesced input, wake bits, timers, focus | post, send, get, peek, pump, clear | a reply late for its time-out; kinds of work merged and kept apart again by retrieval | wake bits tell the truth; windows are told the truth about the focus; sends are served |
| Message bus (`liquide-message-queue`) | connections, names | route | – | a message goes to the owner of its name |
| **Session manager: services** (`liquide-session-manager`) | service states, pids, children, restart timers | start and stop with dependencies, tick | a service stops while its restart timer runs; a start fails half way | no service starts without its dependencies; no process is untracked; a crash is answered |
| Session manager: sessions and shutdown | session states, inhibitors, phase | shutdown | inhibitors that do not answer | shutdown waits for inhibitors only so long |
| Session process (`liquide-session`) | worker states, heartbeat, resume tokens | worker crash, resume | crash during resume | a token is used once |
| Protocol, client (`liquide-protocol`, `liquide-client`) | connection state, fragments, channels | handshake, reassembly, disconnect | lost or reordered fragments, errors in mid handshake | no message from parts of two; a failed connection can be made again |
| **Transport: send buffers** (`liquide-transport/src/sendbuf.rs`) | two atomic counters, free lists per size class | alloc, dealloc, drop | checks against counters that others change before the claim; two ways to give a buffer back | bytes are counted once; the reserve stays free for control traffic |
| Transport: the rest | FEC groups, connection pool, congestion estimates | send, ack, recover | loss, reordering | nothing acknowledged is resent |
| **Gateway** (`liquide-gateway`) | connections, routes, relays, servers and their health, buckets, bans | accept, handshake, route, relay, health check, clean up | entries forgotten while their address is limited; a server fails while chosen; a handshake that breaks off | limits hold; bans are served; relays are those of established connections |
| Service manager, scheduler | registries, dependency graph, tasks | start order, watchdog, run due tasks | restarts racing stops | start order respects dependencies |
| Auth, policy, clipboard, drag-and-drop, manager | providers, rules, offers | evaluate, transfer | mostly sequential | – |
| Compositor, renderers, encoder, UI toolkit, text, themes, shell, applications, platform | scenes, pixels, widgets | – | sequential data processing or I/O | tested by unit and visual tests |

How they meet: the gateway authenticates a client and relays it to a session process that
the supervisor spawned; the session process sends heartbeats to the supervisor and runs
the desktop, whose services the session manager keeps running and whose windows exchange
messages over the message queues and are drawn by the render threads and the worker pool;
frames are encoded and sent, from pooled buffers, over the transport with the wire
protocol.

## 2. The modules

### Downgrade

`DowngradeManager` of `liquide-supervisor/src/downgrade.rs`. State: `cpu` (the metrics the
resource monitor holds), `level`, and `recovery`, the seconds since `recovery_start`.
`DowngradeTick` is the second half of `tick()`: `evaluate_host_load` followed by
`try_recover` on what it left. Loads are naturals, as the code only compares them; an
`Instant` is counted up to the hold time it is compared with. Levels 0 to 4 are the
variants of `DowngradeLevel` in their derived order. The runtime changes these variables
only through the manager's own actions, which Supervisor reuses, so what the run
`downgrade_pressure` shows of the manager is also true inside the runtime.

### Supervisor

`SupervisorRuntime`, extending Downgrade. The daemon is one event loop that owns the
runtime, so every `&mut self` method is one action: `SpawnSession`, `TerminateSession`,
`RestartSession` (terminate, then spawn on what that left, which may be refused), the four
lock and suspend commands, `HandleCrash`, `Tick`, `RecordHeartbeat`, `PollAlive`. Each one
changes what its method changes: `TerminateSession`, for example, the registry, the
spawner's child table, the process and the heartbeat entry. `ShutdownSupervisor` and
`SetPolicy` only record an audit event and have no action. The environment is `ProcessExits`
(any process, at any time, unnoticed), `HeartbeatArrives` (sent by a live process of the
session), `CrashReported`, `MetricsArrive`, `SecondPasses`, and the operating system, which
gives a new process any pid that no live or unreaped child holds.

A heartbeat count above the timeout is kept at the timeout: nothing else is done with it.
`HandleCrash` is the handler without any guard, as in the code: a report about an ended
session makes it Running again (`runtime.rs:206`). Only the tick calls `handle_crash` in the
repository; who else may report, and how late, the code does not say. The constant
`LateReports` says whether reports may come after a session has ended. Properties that fail
if they may have the hypothesis `~LateReports` in their theorems, and `NoResurrection` says
what holds even then. `PollAlive` takes an error of `try_wait` for an exit, as the code
does: there is no such child any more. Heartbeats that are still on their way when a process
exits are not modelled: they could only put off the alert by one interval. The budgets are
in whole units, and each session carries the configured default, as in `spawn_session`. A
failed spawn uses an id up, as in the code.

### RenderPipeline

`RenderCoordinator`, `ChromeThread`, `ContentThread` and the two worker functions. A handle
is `[attached, state, frame, size]`; a frame's nodes are abstracted to the number of the
`request_frame` call that submitted them (`scene`), pixels to that number and the size
they were rendered at. What the code can do between two receives matters, so
`poll_completions` is a step that receives (`BeginPoll`) and one step for each turn of its
resync loop (`EmitPair`, `DropBehind`, `EmitSingle`, `EndPoll`); all other calls of the UI
thread are atomic, because workers touch nothing but the channels. `Submit` models the
order in which `request_frame` bumps the counter, marks the handle Rendering and then
sends, with chrome's failure ending the call before content is asked. `WorkerCrashes` is a
panic in a renderer; a renderer's `Err` still sends a completion and is part of
`WorkerStep`. `Attach` replaces a handle together with its channels; with `LateAttach`
false it happens once per side and before the first frame, as in the crate's tests, which
are the only callers of `attach_chrome` and `attach_content` in the repository.

### LockFreeQueue and FifoQueue

`LockFreeQueue` models `push` and `drain` one atomic operation at a time, with memory as a
small pool of addresses: `Collect` frees a node, and `Allocate` may take the same address
at once, so that a compare-and-swap can meet a pointer it has seen before. `CasFails`
covers the spurious failures of `compare_exchange_weak`. All atomics that pass data use
acquire and release orderings, so the model of the list is sequentially consistent; the
two counters are relaxed, and nothing is claimed of them but their values at rest. `FifoQueue` is
what the queue promises: enqueue, take all, deliver in order. The refinement mapping reads
the abstract queue off the list that head reaches (reversed) and the abstract batch off
what the drain has collected and what is left of its walk; an item is enqueued when its
compare-and-swap succeeds and taken when head is swapped.

### SendBufferPool

`SendBufferPool` and `PoolBuffer` of the transport. Threads share two atomic counters and
the free lists; `alloc` loads, decides and claims by compare-and-swap in a loop, so every
load, compare-and-swap and subtraction is an action of its own. `Handles` are the callers,
each at most at one buffer at a time. A buffer ends by `dealloc`, which returns it to its
list and zeroes its size before the drop, or by the drop alone, and the counters are given
back in the order of the code. The free list is chosen by the capacity the memory has when
it comes back, which its owner may have changed, as `data` is public (`PushToSlab`); nothing
limits a list but `MaxFree`, a bound of the model. Bytes are modelled as the set of pairs of
a handle and a number up to the size, so that a sum is a cardinality and can be reasoned
about without a recursion.

### SessionServices

`LifecycleManager` with the registry. A call is one action; processes exit and restart
timers ripen between calls. `Visits` is the order in which the recursion of
`start_service` reaches services (one that two others need is reached twice, and passed
over the second time, as it runs by then); `StartOutcomes` is every way the call can end:
all started, or stopped at one that is disabled or cannot be spawned, with what was started
before it running on. `Tick` reaps, gives up or schedules, then removes the ripe timers and starts
their services in any order (the code iterates over a hash map). The back-off is taken to
be positive: a timer set by a tick is not ripe in the same tick. `Deps` lists names, of which
some may be of no registered service, and these are passed over (`DependsOn`), as in the
code. It has no cycle, as `startup_order` requires of `start_all`; for the other calls see
section 5. A child that `try_wait` cannot ask about is taken for one that has exited, as
the tick takes it; its handle is dropped without a kill, so if the process were alive,
nobody could reach it.

### Gateway

`GatewayRuntime` as `main.rs` runs it: one task, whose `select!` takes one of accept,
health tick and clean-up tick, and inside accept awaits the whole handshake of that
client. `Accept` is the rate limiter and the bookkeeping before the first await,
`Handshake` what follows it, with every point at which it can break off, under
`serving`: the loop does nothing else in between, and as the code awaits the client without
a time-out, nothing says that the handshake comes to an end. `StreamEnds` is the end of a relay task
spawned by the handshake, the only other thread of control. Time is in seconds, as in the
rate limiter, so that a bucket holds whole tokens.

### RenderWorkers

`RenderCoordinator` of `liquide-render-coordinator`, its window pool and its specialised
threads, of which one (`Dock`) stands for all four. The coordinator serves one call at a
time; `submit`, `poll_outputs` and `wait_for_task` visit one thread a step, as workers run
meanwhile. A worker receives, drains its channel into its heap, renders, sends the output
(which blocks when the channel is full), and respawns after a panic up to a limit, losing
the task it had in hand. Which task the heap yields is left open: its comparison depends
on the clock. `answered` and `lost` are history variables.

### ThreadQueue

`ThreadQueue` of the message queue crate, with filter, sent messages, timers and pump.
Every method takes the queue exclusively and is one action, except `pump_one`: it swaps out the
sent messages (`TakeSent`), handles them one by one with the queue held (`HandleSent`),
and then retrieves and dispatches one message (`Dispatch`). The senders' ten seconds run
out at any time meanwhile, so that an answer may come late. `Peek` is the direct
retrieval, through a filter by windows, which does not touch sent messages. Moves, wheel
events, invalid regions and timers are kept in their coalesced form, as in the code, and
`Recomputed` says which wake bits are due to what is pending.

### MC modules and proof modules

`MCSupervisor`, `MCSessionServices`, `MCGateway`, `MCThreadQueue` and `MCSendBufferPool`
give constants values for TLC. `MCDowngrade` adds to the
downgrade manager a history variable, `calm`, that counts the seconds since the load last
reached the recovery threshold at a tick, independently of the manager's own timer.
`SupervisorProofs` (of Supervisor, Downgrade and MCDowngrade), `RenderProofs`,
`SendBufferProofs`, `GatewayProofs`, `WorkersProofs`, `LockFreeProofs`, `ThreadQueueProofs`
and `ServicesProofs` hold the theorems.

## 3. The runs

| Run | Shows | Bounds, and why they are enough |
|---|---|---|
| `supervisor_sessions` | types; `WatchedIffActive`, `WithinCapacity`, `ChildrenAccounted`, `CrashBudget`, `DeadDetected`, `NoResurrection` | 3 session ids, 2 pids, room for 2 sessions, timeout 2, 2 restarts, loads 0 and 85 (one level down and back): a session is refused, one is restarted into a third, and a pid is used by two sessions |
| `downgrade_pressure` | `RecoveryPaced`, `PressureAnswered`, `RecoversFully` of the manager alone | one load in each band that the default thresholds 85/90/95/95 and hysteresis 5 cut, hold time of 5 s |
| `render_lockstep` | types; `OneScene`, `OneInFlight`, `FramesComplete` | 2 sizes, 3 scenes, both workers may panic, 2 resize or shutdown messages waiting: enough for a pair that a resize broke, the resync and the next pair |
| `lockfree_queue` | types; `OwnedOnce`, `ImplementsFifo` | 2 producers with 2 pushes each, 3 addresses for 4 items: an address must be used twice |
| `send_buffer_pool` | types; `Accounted`, `ClaimsWithinLimit` | 3 handles, buffers of 1 and 2, capacity 4, reserve 2, thresholds 3 and 2: each limit is met exactly and by a third claim between the load and the claim of two others. Handles are symmetric |
| `session_services` | types; `ProcessesTracked`, `RestartScheduled`, `DependenciesFirst`, `CrashAnswered` | 3 services in a chain and a name that is not registered, one of them built in, one of each policy, two and one retries, any of them disabled from the start |
| `gateway` | types; `RateBounded`, `RelaysAccounted`, `BanServed`, `SilentDropped` | 1 address, 2 servers of which one reports, 1 connection a second, ban of 2 s after 2 failures, 1 relay, 3 connections in 4 s: the bucket empties and fills, its entry is forgotten and made anew, a ban ends |
| `render_workers` | types; `OnePlace`, `OutputsKept`, `Delivered`, `SubmitWaits`, `StopsClean` | 1 client, as under `ThreadedRenderCoordinator`, 2 pool threads and a specialised one, channels and pending map of 1, 4 tasks, two faulty threads that give up at their first panic: channels fill in both directions until a submission blocks, which takes 4 tasks, and a pool thread dies while the other serves on. More clients and respawns are in the proofs only, and in `wait_missed`. Deadlock is not checked, as the coordinator may be dropped or block |
| `thread_queue` | types; `WakeBitsHonest`, `HolderSettles`, `SentServed` | 2 windows, 1 timer, the focus, 1 sender, keys and paints, a FIFO of 2: each kind of pending work can be alone or beside any other |
| `lost_wake`, `submit_blocked`, `wait_missed` | section 5 | smallest instances that show it |

`MaxIds`, `MaxScenes`, `InboxBound`, `MaxPushes`, `MaxFree`, `MaxConns`, `MaxTime`, `MaxTasks`,
`Faulty` and `MaxPosted` are bounds of the models and not of the code.

Properties worth a word:

* `WatchedIffActive`: the heartbeat table and the registry are changed in five methods in
  different orders; a session that is active and unwatched could hang for ever, one that is
  watched and ended would be brought back by the next tick.
* `ChildrenAccounted` together with `DeadDetected`: every process can be reached and
  killed, and a session without a process is given up, one timeout after another.
* `CrashBudget` and `NoResurrection`: restarts are counted in one method and compared in
  another. The run has no reports about ended sessions, so there nothing brings one back;
  the proofs, and by hand `SupervisorLateReports.cfg`, allow such reports: one brings a
  terminated session back, but costs it a restart, and a failed one has none left.
* `RecoveryPaced` relates every step down to a history of ticks.
* `OneScene`: the two handles count frames separately, and the coordinator takes equal
  counts for one frame. That this is so depends on the skip rule, on which sends can fail,
  and on what a resize leaves in flight.
* `FramesComplete`: no handle stays Rendering while the workers live, in spite of half
  pairs left by a resize.
* `OwnedOnce`: the ABA situation is reachable, and harmless: the consumer takes the whole
  list, and a push relinks its node after each failure.
* `ClaimsWithinLimit`: an allocation decides on a figure that is old when it claims; the
  compare-and-swap makes the figure of the last load the one that counts.
* `ProcessesTracked` and `RestartScheduled` speak of seven calls that mix starts, stops,
  failures and restarts; the second is false for services with dependencies, see section 5.
* `DependenciesFirst` is about registered services: `EveryNameFirst`, which is what
  `service.rs:64` says, is violated, see section 5.
* `SilentDropped` has a premise: the loop is back at its select again and again. Without it
  the property is `HealthMaintained`, and false.
* `RateBounded` is about every stretch of time, also across the clean-up that forgets a
  bucket: it does so only when a new one holds no more.
* `OnePlace` follows every task through nine places and through panics and the drop of
  the coordinator; `OutputsKept` says of each lost task in which way it was: the end of one
  thread takes nothing of another's. `Delivered` names the place where an accepted task can
  stay unseen, the pending map, and `SubmitWaits` the only reason for which a submission
  hangs. `WaitNotMissed` is proved of one client, and fails for two (`wait_missed`).
* `WakeBitsHonest`: a bit is set or cleared in a dozen methods, each from its own view of
  what is left; the two exceptions it makes are in section 5. `HolderSettles` fails if
  retrieval may ask for message kinds as well as for windows, since a loss can then
  overtake a gain; no caller does so in the repository.

Fairness. Supervisor: `main.rs` runs `tick()` on a tokio interval as long as the daemon
lives; no command, heartbeat or exit is owed (and no second: the recovery of the level,
which needs time to pass, is checked in `downgrade_pressure`). RenderPipeline: the frame
loop of the window comes round to a request and to a poll again and again (strong for the
request, since a poll under way disables it), a call that has begun ends, and a live worker
handles its messages. LockFreeQueue: the consumer drains in a loop; producers owe nothing.
SessionServices: the owner calls `tick` again and again and the clock moves on. Gateway:
seconds pass, and the health tick is strongly fair, as `select!` chooses at random among the
arms that are ready; clients owe nothing, and that they answer or hang up in the end is the
premise of `SilentDropped`. RenderWorkers: a call that has
begun goes on, a worker that can move does, and the time-out of a wait is strongly fair;
nobody owes a submission or a poll, which `Delivered` takes as its premise. ThreadQueue: the
thread calls `pump_one` in a loop until Quit; nobody owes a post or a direct peek.

## 4. The proofs

`SupervisorProofs` proves, from `SupervisorAssumption` and `DowngradeAssumption` alone
(natural numbers and nothing about their sizes), that `Spec` implies always `TypeOK`,
`CrashBudget` and `ChildrenAccounted`, and the action property `NoResurrection`, all four
also when crashes are reported of ended sessions; and, if they are not (`~LateReports`),
always `WatchedIffActive` and `WithinCapacity`.

The argument. `RestartSession` spawns on the tables that a termination has just left, so
the inductive invariant `RuntimeOK` is a predicate over tables given as parameters, and
`IInv` applies it to the state. It adds to the five invariants what makes them inductive:

* ids in the registry are below `nextId`, so that a new record never overwrites one;
* a child's session is registered with that pid and is not terminated, so that killing by
  pid removes the right child of a terminated session, and no other session's entry;
* capacity for n sessions, `Fits`, is closed downwards (`FewerFit`), and an accepted
  request means that one more fits (`AcceptedFits`).

Lemmas prove that each kind of change keeps `RuntimeOK` for any tables: `TerminateOK`,
`SpawnOK`, `CrashOK`, `TransitionOK`; `DowngradeTickType` does it for the manager.
`StepIInv` puts them together, one step per action. `NoResurrection` follows from `IInv`
and one persistence lemma per kind of change: a tick cannot touch an ended session because
whatever is in the heartbeat table is active, and a report about one finds in its record
how many crashes it has had (`CrashesOK`): a failed session has used its restarts up.

`SpecRecoveryPaced` proves `RecoveryPaced` of the manager with its history variable
(`MCDowngrade`). The strengthening, `PacedInv`, relates the two clocks: `calm` is never less
than the manager's timer, because whatever resets `calm` also stops or restarts the timer;
at level 0 there is no timer. So a timer that has run out is a hold time without pressure.

`RenderProofs` proves, from `RenderAssumption`, for any set of sizes and any number of
frames, and with any of the workers panicking:

* `SpecTypeOK` and `SpecOneInFlight`, with threads attached and replaced at any time. The
  two are inductive together. The argument goes side by side: `SideOK` relates the
  messages to a worker, its completions and the state of its handle, and one lemma per kind
  of change (a request, a completion made, received, a message skipped, everything lost)
  keeps it.
* `SpecOneScene`, from the assumption that `LateAttach` is false. The strengthening is
  `PairInv`: every completion of a side, still to be made, sent, buffered or shown
  (`Known`), carries the number of its scene as its frame id, and none is of a later scene
  than the last (`NumbersOK`); two completions of one scene have one size, because both
  requests are sent at the same size (`SizesOK`); the sides a request can still reach, all
  but a content thread whose chrome worker has gone, have counted all scenes (`HandlesOK`).
  Completions are only ever made by a request; all other actions move or drop them, so
  `FewerKnown` disposes of them. Without the assumption the theorem is false: a thread
  attached late counts from 0, and equal frame ids are different scenes.

`SendBufferProofs` proves, for any number of threads and any sizes and thresholds that
`PoolAssumption` allows, `SpecTypeOK`, `SpecAccounted`, `SpecRegionsBounded` and
`SpecClaimsWithinLimit`. The invariant says per handle (`HandleOK`)
what its place in the loops implies, in particular that a remembered load is one under
which its claim fits, and of the counters that they are the bytes held. The core is the
lemma `Totals`: what one handle's step does to the bytes held by all. A claim succeeds only
if the counter still is the remembered load, so the bound holds of the new value.

`GatewayProofs` proves `SpecTypeOK`, `SpecRateBounded`, `SpecRelaysAccounted`,
`SpecUnhealthyAvoided` and `SpecBanServed` for any addresses, servers and limits. The
strengthening for the rate is `Budget`: from any moment on, what an address took and what
its bucket still holds are together no more than a full bucket and what has been refilled
since; forgetting an entry is harmless because it has been idle for so long that its bucket
would hold at least what a new one starts with.

`WorkersProofs` proves `SpecTypeOK`, `SpecOnePlace`, `SpecPendingBounded` and
`SpecOutputsKept` for any number of clients, threads and tasks, and `SpecWaitNotMissed`
under `OneCaller`, that there are no two clients. `Placed`
says that a submitted task is in exactly one place and another in none, `CallOK`,
`ThreadsOK` and `ChannelsOK` what a call and a thread hold at each of their steps, and one
lemma (`Moved`) that a task which leaves one place for another is in one place again; the
lemmas about the actions say which tasks they move.

`LockFreeProofs` proves `SpecTypeOK`, `SpecOwnedOnce` and `SpecImplementsFifo` for any
producers, any number of pushes and any finite set of addresses, down to a single one. The
invariant does not walk the memory: `Shape` says that there are two sequences of nodes, the
shared list and the one being drained, each linked through memory, which with the private
nodes are all that is allocated and share nothing. `ChainIs` shows that such a sequence is
what the recursive walk `ChainOf` finds. `Linked` is what makes the ABA case harmless: a
node about to be pushed points at the head its compare-and-swap expects, so that if the
swap succeeds the list is whole, whatever became of the address in between. `Stamped`, that
each item carries its producer and number, tells items apart. `SpecImplementsFifo` is the
safety part of `ImplementsFifo`: the initial state is one of `FifoQueue`, a successful
compare-and-swap is an enqueue (`CasEnqueues`), a swap of head takes all (`SwapTakesAll`),
a return delivers (`ReturnDelivers`), and everything else, in particular a step of the
drain's walk (`CollectUnseen`), leaves the abstract queue alone.

`ThreadQueueProofs` proves `SpecTypeOK`, `SpecWakeBitsHonest` and `SpecHolderSettles` for
any windows, timers, filters, senders and choice of posted kinds. `Picked`, what is left of
the FIFO after some messages are removed, is a recursive function; `PickedIs` says once what
the proofs need of it, that it is a subsequence with the positions in order. The wake bits
are then a matter of one bit at a time (`HonestNow`). For the focus, `Settled` is a
predicate of any FIFO and any holders: messages may go if none that stays becomes the last
of its window by that (`PickedSettled`), and may come if they tell each window concerned how
it now stands (`JoinedSettled`).

`ServicesProofs` proves `SpecTypeOK`, `SpecProcessesTracked`, `SpecRestartScheduled` and
`SpecDependenciesFirst` for any services, policies and dependencies that
`ServicesAssumption` allows, which lets `Deps` name services that are not registered.
Here the three invariants are inductive together, and the work
is in what a call does. `Visits` and `StartEach` are recursive functions; each is unfolded by
exhibiting a function that satisfies its equation, and `VisitsIs` shows by induction over
the start order that a service is reached after all it needs. From there every outcome of
a start is `Grown` from the state before: some services were started, each with what it
needs running, others may have failed, and nothing that ran stopped (`StartGrown`, `EachGrown`).
`StoppedIs` and `ReapedIs` say what a stop and the first half of a tick leave.

Some theorems have no passing run beside them: `SpecRegionsBounded`, `SpecUnhealthyAvoided`
and `SpecPendingBounded` state properties that the modules define and that hold for all
instances, and `SpecWaitNotMissed` one that holds of a single client.

Only model-checked: the liveness properties (`DeadDetected`, `PressureAnswered`,
`RecoversFully`, the fairness part of `ImplementsFifo`, `FramesComplete`, `CrashAnswered`,
`SilentDropped`, `Delivered`, `SubmitWaits`, `StopsClean`, `SentServed`), as liveness under
fairness is out of the prover's reach. Every invariant and every other action property that
a passing run checks is also proved.

## 5. What the code does not keep

The models violate nine statements of the sources. The first three are runs of the regular
check; the other configurations are kept beside it, to be run by hand with
`tlc -config <configuration> <MC module>`, and end with the violation as well.

| Run or configuration | Claim | What happens |
|---|---|---|
| `lost_wake` | `lockfree_queue.rs:199`: signaled if pushed since the last drain | a push between drain's swap and its clearing of the flag is not signaled |
| `submit_blocked` | `liquide-render-coordinator/src/lib.rs:47`: submission is non-blocking message passing | a submission waits for room in a task channel whose worker waits for room in its output channel, which only the submitter's thread empties |
| `wait_missed` | `liquide-render-coordinator/README.md:197`: all operations may be called concurrently | a wait looks into the pending map once, and another client's wait puts the output there afterwards |
| `SupervisorStalePid.cfg`: `AliveMeansOwn` | `runtime.rs:86`: `is_session_process_alive` tells whether the session's process is alive | an ended session keeps its pid, and a later session's process, which got the same, answers for it; `terminate` (`runtime.rs:91`) would kill it |
| `SendBufferGrowth.cfg`: `FixedCapacity` | `sendbuf.rs:96`: a fixed-capacity pool | buffers that grew while they were used go into another list, and the lists keep more than the capacity |
| `ServicesUnregistered.cfg`: `EveryNameFirst` | `service.rs:64`: what a service depends on must be running before it starts | a dependency that is not registered is passed over (`lifecycle.rs:42`, `registry.rs:70`) |
| `GatewaySilentClient.cfg`: `HealthMaintained` | `main.rs:116`: the ticks maintain health based on heartbeats | a client that says nothing in its handshake keeps the loop there, without a time-out (`runtime.rs:517`), and no tick runs |
| `GatewayEndedRelay.cfg`: `ActiveRelaysForward` | `relay.rs:255`: the number of active relay sessions | nobody calls `terminate_relay`, so ended relays count, also towards the limit of `config.rs:180` |
| `PaintUnannounced.cfg`: `PaintAnnounced` | `queue.rs:541`: `has_messages` counts paint among the pending work | the last posted Paint takes the paint bit with it (`queue.rs:431`) though a region is still to be painted |

The rest was seen while reading and modelling, and is what the models say the code does.

* Supervisor: a crash report about an ended session makes it Running, with neither a process
  nor an entry in the heartbeat table (`runtime.rs:206`). `max_sessions` (`config.rs:104`) is
  compared with a queue size that is always 0 (`admission.rs:75`).
* Render threads: a thread attached late counts frames from 0 and the streams are never
  resynced (`coordinator.rs:254`); `OneScene` needs the threads attached first. When
  content crashes, chrome's frames are skipped as well (`lib.rs:4`, `coordinator.rs:205`).
  `shutdown` (`coordinator.rs:383`) returns on chrome's send error before it tells content.
* Send buffers: "Even for high priority, don't exceed total capacity" (line 198), but
  claims from the reserve are added to `used` without a limit of its own (168-183).
* Services: `stop_service` and `stop_all` leave restart timers, so a stopped service can
  come back; `restart_service` leaves the dependents stopped and revives a disabled
  service; dependents stay Running when a dependency crashes; a cycle of dependencies is
  an unbounded recursion in `start_service`; a service whose ripe timer was removed and
  whose dependency cannot start stays Restarting.
* Gateway: only tests call `record_heartbeat`, so every server becomes unhealthy, though
  `main.rs:116` says that the ticks maintain health; connections are not removed
  (the clean-up asks for a server named ""), and one whose routing or sending failed stays in
  a live state; failures are counted without a window; sticky routing ignores health; a ban
  is checked only on accept, and runs from the time the connection was accepted, so that a
  long handshake shortens the ban it leads to, or ends it before it begins.
* Render worker pool: "Tasks past their deadline get highest priority" (`thread_pool.rs:54`),
  while the comparison that follows says the opposite, and changes while the task is in a
  heap; one dead thread makes every poll fail, and the outputs collected by it are dropped;
  `poll_outputs` does not look at the pending map; outputs that do not fit there are
  dropped; tasks left in a dead thread's channel vanish; `task_count` is counted twice
  (167 and 436).
* Window message queue: validating the last region (671), too, clears the paint bit though
  a posted Paint is pending; the timer bit is set by `check_timers` and nothing else, so a
  timer that falls due is not counted by `has_messages` before that call, and the bit is
  never cleared by a peek; a peek reschedules
  all due timers and returns one; retrieval does not process sent messages, which `queue.rs:372`
  says; `MessagePump::run` holds the queue, so nobody else can post; `clear` (691) keeps
  the focus and the timers and drops sent messages whose senders go on waiting.

## 6. What is not modelled

* Supervisor: audit events, crash reports and log texts; `restart_window_sec` and the
  back-off delay, which no code uses; `DowngradeManager::reset`, which the runtime does not
  call; per-session resource warnings.
* Render threads: window titles, scroll offsets, damage and frame statistics. Frame ids do
  not wrap: 2^64 frames are not drawn.
* Desktop message queue: `CoalescingSlot`, whose operations are single atomic swaps, and
  the two relaxed counters.
* Send buffers: the bytes themselves and `stats`. The free lists' mutex is held for one step.
* Services: the other tables of the session manager: sessions, shutdown phases, inhibitors.
* Gateway: `handle_client_connection`, which only tests use; session tokens, audit and
  traffic counters; the routing strategies but three, which choose among the same healthy
  servers.
* Render worker pool: what tasks draw, metrics, and priorities, as any order is allowed.
* Window message queue: mouse capture, ages of wake bits, `changed_bits`, paint rectangles
  and filters by message kind.

The other parts of section 1 and the reasons are in `PROJECT.json`. Most of the
repository's lines are layout, styling, painting, widgets and applications: sequential
transformations of large values, where a model would repeat the code.

## 7. The plan

Done: the eight parts in bold of section 1, with the proofs of section 4.

Next, in this order:

1. `Reassembly` (`protocol/src/fragment.rs`) over a channel that loses, repeats and
   reorders; then the handshake state machines of both ends.
2. `SessionShutdown`: phases and inhibitors, composed with SessionServices.
3. Proofs of these, and of what the models promise each other where they meet: a session
   that the gateway relays to is one that the supervisor has active.

Runs of new modules stay at 2 to 3 actors and a handful of messages each.
