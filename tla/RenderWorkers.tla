--------------------------- MODULE RenderWorkers ---------------------------
(***************************************************************************)
(* The render worker pool (liquide-render-coordinator): a coordinator      *)
(* hands tasks to worker threads over bounded channels and collects their  *)
(* outputs from bounded channels.  Its methods take &self, and any number  *)
(* of clients may be in a call at a time; ThreadedRenderCoordinator is     *)
(* the case of one client, the thread that makes every call.               *)
(*                                                                         *)
(* The threads 1 .. PoolSize are the window pool, which sorts its tasks in *)
(* a heap; Dock stands for the specialized threads (dock, status bar,      *)
(* background, wallpaper), which take them in order.  A task is its id.    *)
(* Which task the heap yields depends on priorities, creation times and    *)
(* deadlines that pass while it is in use: the model lets it be any.       *)
(***************************************************************************)
EXTENDS Integers, Sequences, FiniteSets

CONSTANTS
    Clients,       \* threads or async tasks that call the coordinator
    PoolSize,      \* config.window_threads
    Capacity,      \* config.queue_size, of every task and output channel
    MaxPending,    \* MAX_PENDING
    MaxRespawns,   \* MAX_RESPAWNS
    MaxTasks,      \* bound: tasks submitted in a behaviour
    Faulty         \* bound: threads whose loop may panic

ASSUME WorkersAssumption ==
    /\ {PoolSize, Capacity, MaxRespawns} \subseteq Nat \ {0}
    /\ {MaxPending, MaxTasks} \subseteq Nat

VARIABLES
    running,       \* the coordinator has not been dropped
    op,            \* client -> the call it is in
    submitted,     \* next_task_id - 1
    next,          \* next_thread, the pool thread the next submission starts at
    channel,       \* thread -> tasks in its task channel
    heap,          \* thread -> tasks in its priority queue
    pc,            \* thread -> where its loop is
    current,       \* thread -> the task it renders, or NoTask
    outputs,       \* thread -> outputs in its output channel
    panics,        \* thread -> panic_count
    pending,       \* pending_outputs
    answered,      \* history: tasks whose output or refusal a client received
    lost           \* history: tasks that can no longer be answered

clientVars == <<running, op, submitted, next, pending, answered>>
threadVars == <<heap, pc, current, panics>>
vars == <<clientVars, threadVars, channel, outputs, lost>>

Pool    == 1 .. PoolSize
Dock    == PoolSize + 1
Threads == 1 .. Dock
End     == Dock + 1          \* the poll has looked at every thread
Tasks   == 1 .. MaxTasks
NoTask  == 0

Steps == {"start", "receive", "drain", "render", "dead"}

Idle == [do |-> "idle", task |-> NoTask, at |-> 1, left |-> 0, got |-> {}]

Init ==
    /\ running = TRUE
    /\ op = [c \in Clients |-> Idle]
    /\ submitted = 0
    /\ next = 1
    /\ channel = [t \in Threads |-> << >>]
    /\ heap = [t \in Threads |-> {}]
    /\ pc = [t \in Threads |-> "start"]
    /\ current = [t \in Threads |-> NoTask]
    /\ outputs = [t \in Threads |-> << >>]
    /\ panics = [t \in Threads |-> 0]
    /\ pending = {}
    /\ answered = {}
    /\ lost = {}

Elements(seq) == {seq[i] : i \in DOMAIN seq}

-----------------------------------------------------------------------------
(* submit_task.  A send blocks while the channel is full and fails when    *)
(* the thread is dead; the pool then tries the next of its threads.  The   *)
(* id and the pool thread come from two counters: which of two submissions *)
(* at the same time has the smaller id is of no consequence.               *)

SubmitTask(c) ==
    /\ running
    /\ op[c].do = "idle"
    /\ submitted < MaxTasks
    /\ submitted' = submitted + 1
    /\ \/ /\ op' = [op EXCEPT ![c] = [Idle EXCEPT !.do = "submit", !.task = submitted + 1,
                                                 !.at = next, !.left = PoolSize]]
          /\ next' = (next % PoolSize) + 1
       \/ /\ op' = [op EXCEPT ![c] = [Idle EXCEPT !.do = "submit", !.task = submitted + 1,
                                                 !.at = Dock, !.left = 1]]
          /\ UNCHANGED next
    /\ UNCHANGED <<threadVars, running, channel, outputs, pending, answered, lost>>

(* Mutant: an unbounded channel. *)
SendTaskUnbounded(c) ==
    /\ op[c].do = "submit"
    /\ pc[op[c].at] # "dead"
    /\ channel' = [channel EXCEPT ![op[c].at] = Append(@, op[c].task)]
    /\ op' = [op EXCEPT ![c] = Idle]
    /\ UNCHANGED <<threadVars, running, submitted, next, outputs, pending, answered, lost>>

SendTask(c) ==
    /\ op[c].do = "submit"
    /\ pc[op[c].at] # "dead"
    /\ Len(channel[op[c].at]) < Capacity
    /\ channel' = [channel EXCEPT ![op[c].at] = Append(@, op[c].task)]
    /\ op' = [op EXCEPT ![c] = Idle]
    /\ UNCHANGED <<threadVars, running, submitted, next, outputs, pending, answered, lost>>

(* Mutant: a retry without a last attempt. *)
SendRefusedForever(c) ==
    /\ op[c].do = "submit"
    /\ pc[op[c].at] = "dead"
    /\ op' = [op EXCEPT ![c].at = IF @ \in Pool THEN (@ % PoolSize) + 1 ELSE @]
    /\ UNCHANGED <<threadVars, running, submitted, next, channel, outputs, pending, answered, lost>>

SendRefused(c) ==
    /\ op[c].do = "submit"
    /\ pc[op[c].at] = "dead"
    /\ IF op[c].left > 1
       THEN /\ op' = [op EXCEPT ![c] = [op[c] EXCEPT !.at = (@ % PoolSize) + 1, !.left = @ - 1]]
            /\ UNCHANGED answered
       ELSE /\ op' = [op EXCEPT ![c] = Idle]
            /\ answered' = answered \cup {op[c].task}
    /\ UNCHANGED <<threadVars, running, submitted, next, channel, outputs, pending, lost>>

-----------------------------------------------------------------------------
(* poll_outputs, called by a client or by the loop of wait_for_task: the   *)
(* threads in order, from the first pool thread again after each output of *)
(* the pool.  A thread that is dead and has no output left fails the call. *)

PollOutputs(c) ==
    /\ running
    /\ op[c].do = "idle"
    /\ op' = [op EXCEPT ![c] = [Idle EXCEPT !.do = "poll"]]
    /\ UNCHANGED <<threadVars, running, submitted, next, channel, outputs, pending, answered, lost>>

Polling(c) == op[c].do \in {"poll", "wait"}

TakeOutput(c) ==
    /\ Polling(c)
    /\ op[c].at \in Threads
    /\ outputs[op[c].at] # << >>
    /\ op' = [op EXCEPT ![c] = [op[c] EXCEPT !.got = @ \cup {Head(outputs[op[c].at])},
                                        !.at = IF @ \in Pool THEN 1 ELSE @]]
    /\ outputs' = [outputs EXCEPT ![op[c].at] = Tail(@)]
    /\ UNCHANGED <<threadVars, running, submitted, next, channel, pending, answered, lost>>

(* Mutant: the first thread without an output ends the poll. *)
NothingThereEnds(c) ==
    /\ Polling(c)
    /\ op[c].at \in Threads
    /\ outputs[op[c].at] = << >>
    /\ pc[op[c].at] # "dead"
    /\ op' = [op EXCEPT ![c].at = End]
    /\ UNCHANGED <<threadVars, running, submitted, next, channel, outputs, pending, answered, lost>>

NothingThere(c) ==
    /\ Polling(c)
    /\ op[c].at \in Threads
    /\ outputs[op[c].at] = << >>
    /\ pc[op[c].at] # "dead"
    /\ op' = [op EXCEPT ![c] = [op[c] EXCEPT !.at = @ + 1]]
    /\ UNCHANGED <<threadVars, running, submitted, next, channel, outputs, pending, answered, lost>>

(* The `?` on the receive error drops what was collected. *)
PollFails(c) ==
    /\ Polling(c)
    /\ op[c].at \in Threads
    /\ outputs[op[c].at] = << >>
    /\ pc[op[c].at] = "dead"
    /\ op' = [op EXCEPT ![c] = Idle]
    /\ lost' = lost \cup op[c].got
    /\ UNCHANGED <<threadVars, running, submitted, next, channel, outputs, pending, answered>>

PollReturns(c) ==
    /\ op[c].do = "poll"
    /\ op[c].at = End
    /\ op' = [op EXCEPT ![c] = Idle]
    /\ answered' = answered \cup op[c].got
    /\ UNCHANGED <<threadVars, running, submitted, next, channel, outputs, pending, lost>>

-----------------------------------------------------------------------------
(* wait_for_task, for a task that a submission has returned.               *)

Returned(x) == x <= submitted /\ \A d \in Clients : op[d].do = "submit" => op[d].task # x

WaitForTask(c, x) ==
    /\ running
    /\ op[c].do = "idle"
    /\ Returned(x)
    /\ IF x \in pending
       THEN /\ pending' = pending \ {x}
            /\ answered' = answered \cup {x}
            /\ UNCHANGED op
       ELSE /\ op' = [op EXCEPT ![c] = [Idle EXCEPT !.do = "wait", !.task = x]]
            /\ UNCHANGED <<pending, answered>>
    /\ UNCHANGED <<threadVars, running, submitted, next, channel, outputs, lost>>

Others(c) == op[c].got \ {op[c].task}

(* One round of the loop: outputs of other tasks are kept for later calls, *)
(* all or none of them, and the call returns when its own is there.        *)
KeepOthers(c) ==
    IF Cardinality(pending) + Cardinality(Others(c)) <= MaxPending
    THEN pending' = pending \cup Others(c) /\ UNCHANGED lost
    ELSE lost' = lost \cup Others(c) /\ UNCHANGED pending

WaitGathers(c) ==
    /\ op[c].do = "wait"
    /\ op[c].at = End
    /\ KeepOthers(c)
    /\ answered' = answered \cup (op[c].got \cap {op[c].task})
    /\ op' = [op EXCEPT ![c] = IF @.task \in @.got THEN Idle ELSE [@ EXCEPT !.at = 1, !.got = {}]]
    /\ UNCHANGED <<threadVars, running, submitted, next, channel, outputs>>

WaitTimesOut(c) ==
    /\ op[c].do = "wait"
    /\ op[c].at = 1
    /\ op[c].got = {}
    /\ op' = [op EXCEPT ![c] = Idle]
    /\ UNCHANGED <<threadVars, running, submitted, next, channel, outputs, pending, answered, lost>>

(* The last client drops the coordinator, after its calls: its ends of all *)
(* the channels go away.  Nobody joins the workers.                        *)
Shutdown ==
    /\ running
    /\ \A c \in Clients : op[c].do = "idle"
    /\ running' = FALSE
    /\ pending' = {}
    /\ outputs' = [t \in Threads |-> << >>]
    /\ lost' = lost \cup pending \cup UNION {Elements(outputs[t]) : t \in Threads}
    /\ UNCHANGED <<threadVars, op, submitted, next, channel, answered>>

-----------------------------------------------------------------------------
(* The workers                                                             *)

CreateRenderer(t) ==
    /\ pc[t] = "start"
    /\ pc' = [pc EXCEPT ![t] = "receive"]
    /\ UNCHANGED <<clientVars, heap, current, panics, channel, outputs, lost>>

(* A panic outside execute_task_safe: only making the renderer runs there. *)
(* The thread that gives up drops its receiver, and the tasks in it.       *)
LoopPanics(t) ==
    /\ t \in Faulty
    /\ pc[t] = "start"
    /\ panics' = [panics EXCEPT ![t] = @ + 1]
    /\ IF panics[t] + 1 >= MaxRespawns
       THEN /\ pc' = [pc EXCEPT ![t] = "dead"]
            /\ lost' = lost \cup Elements(channel[t])
            /\ channel' = [channel EXCEPT ![t] = << >>]
       ELSE UNCHANGED <<pc, lost, channel>>
    /\ UNCHANGED <<clientVars, heap, current, outputs>>

Receive(t) ==
    /\ pc[t] = "receive"
    /\ channel[t] # << >>
    /\ channel' = [channel EXCEPT ![t] = Tail(@)]
    /\ IF t \in Pool
       THEN /\ heap' = [heap EXCEPT ![t] = {Head(channel[t])}]
            /\ pc' = [pc EXCEPT ![t] = "drain"]
            /\ UNCHANGED current
       ELSE /\ current' = [current EXCEPT ![t] = Head(channel[t])]
            /\ pc' = [pc EXCEPT ![t] = "render"]
            /\ UNCHANGED heap
    /\ UNCHANGED <<clientVars, panics, outputs, lost>>

Drain(t) ==
    /\ pc[t] = "drain"
    /\ channel[t] # << >>
    /\ channel' = [channel EXCEPT ![t] = Tail(@)]
    /\ heap' = [heap EXCEPT ![t] = @ \cup {Head(channel[t])}]
    /\ UNCHANGED <<clientVars, pc, current, panics, outputs, lost>>

(* Mutant: peek() for pop(). *)
PopKept(t) ==
    /\ pc[t] = "drain"
    /\ channel[t] = << >>
    /\ \E x \in heap[t] : current' = [current EXCEPT ![t] = x]
    /\ pc' = [pc EXCEPT ![t] = "render"]
    /\ UNCHANGED <<clientVars, heap, panics, channel, outputs, lost>>

Pop(t) ==
    /\ pc[t] = "drain"
    /\ channel[t] = << >>
    /\ \E x \in heap[t] :
          /\ heap' = [heap EXCEPT ![t] = @ \ {x}]
          /\ current' = [current EXCEPT ![t] = x]
    /\ pc' = [pc EXCEPT ![t] = "render"]
    /\ UNCHANGED <<clientVars, panics, channel, outputs, lost>>

(* Mutant: try_send() for send(). *)
SendOutputTry(t) ==
    /\ pc[t] = "render"
    /\ IF running /\ Len(outputs[t]) < Capacity
       THEN /\ outputs' = [outputs EXCEPT ![t] = Append(@, current[t])]
            /\ UNCHANGED lost
       ELSE /\ lost' = lost \cup {current[t]}
            /\ UNCHANGED outputs
    /\ current' = [current EXCEPT ![t] = NoTask]
    /\ pc' = [pc EXCEPT ![t] = IF heap[t] # {} THEN "drain" ELSE "receive"]
    /\ UNCHANGED <<clientVars, heap, panics, channel>>

(* Mutant: a receiver outlives the coordinator. *)
SendOutputWaits(t) ==
    /\ pc[t] = "render"
    /\ Len(outputs[t]) < Capacity
    /\ outputs' = [outputs EXCEPT ![t] = Append(@, current[t])]
    /\ current' = [current EXCEPT ![t] = NoTask]
    /\ pc' = [pc EXCEPT ![t] = IF heap[t] # {} THEN "drain" ELSE "receive"]
    /\ UNCHANGED <<clientVars, heap, panics, channel, lost>>

(* The end of execute_task_safe: one output, a failure after a panic or a  *)
(* missed deadline.  The send blocks on a full channel while the           *)
(* coordinator lives and fails, with a log line, after it.                 *)
SendOutput(t) ==
    /\ pc[t] = "render"
    /\ IF running
       THEN /\ Len(outputs[t]) < Capacity
            /\ outputs' = [outputs EXCEPT ![t] = Append(@, current[t])]
            /\ UNCHANGED lost
       ELSE /\ lost' = lost \cup {current[t]}
            /\ UNCHANGED outputs
    /\ current' = [current EXCEPT ![t] = NoTask]
    /\ pc' = [pc EXCEPT ![t] = IF heap[t] # {} THEN "drain" ELSE "receive"]
    /\ UNCHANGED <<clientVars, heap, panics, channel>>

(* The task channel is disconnected and empty. *)
Stop(t) ==
    /\ pc[t] = "receive"
    /\ ~running
    /\ channel[t] = << >>
    /\ pc' = [pc EXCEPT ![t] = "dead"]
    /\ UNCHANGED <<clientVars, heap, current, panics, channel, outputs, lost>>

-----------------------------------------------------------------------------
Call(c) == SubmitTask(c) \/ PollOutputs(c) \/ \E x \in Tasks : WaitForTask(c, x)

Serve(c) ==
    \/ SendTask(c) \/ SendRefused(c)
    \/ TakeOutput(c) \/ NothingThere(c) \/ PollFails(c) \/ PollReturns(c)
    \/ WaitGathers(c)

Work(t) ==
    \/ CreateRenderer(t) \/ Receive(t) \/ Drain(t) \/ Pop(t) \/ SendOutput(t) \/ Stop(t)

Next ==
    \/ \E c \in Clients : Call(c) \/ Serve(c) \/ WaitTimesOut(c)
    \/ \E t \in Threads : Work(t) \/ LoopPanics(t)
    \/ Shutdown

(* Clients and workers are threads of their own; the clock passes a wait's *)
(* time-out however often its loop comes round before.                     *)
Fairness ==
    /\ \A c \in Clients : WF_vars(Serve(c)) /\ SF_vars(WaitTimesOut(c))
    /\ \A t \in Threads : WF_vars(Work(t))

Spec == Init /\ [][Next]_vars /\ Fairness

-----------------------------------------------------------------------------
(* Properties                                                              *)

Calls == [do : {"idle", "submit", "poll", "wait"}, task : Tasks \cup {NoTask},
          at : 1 .. End, left : 0 .. PoolSize, got : SUBSET Tasks]
Queues == {seq \in Seq(Tasks) : Len(seq) <= Capacity}

(* Every variable holds the values the threads and channels can hold, and  *)
(* no channel more than its capacity.                                      *)
TypeOK ==
    /\ running \in BOOLEAN
    /\ op \in [Clients -> Calls]
    /\ submitted \in 0 .. MaxTasks
    /\ next \in Pool
    /\ channel \in [Threads -> Queues]
    /\ heap \in [Threads -> SUBSET Tasks]
    /\ pc \in [Threads -> Steps]
    /\ current \in [Threads -> Tasks \cup {NoTask}]
    /\ outputs \in [Threads -> Queues]
    /\ panics \in [Threads -> 0 .. MaxRespawns]
    /\ pending \subseteq Tasks /\ answered \subseteq Tasks /\ lost \subseteq Tasks

Kinds == {"call", "channel", "heap", "hands", "outputs", "got", "pending", "answered", "lost"}

(* Task x is in the place of kind k, the one of thread or client u where   *)
(* each has one.                                                           *)
At(x, k, u) ==
    \/ /\ u \in Threads
       /\ \/ k = "channel" /\ x \in Elements(channel[u])
          \/ k = "heap" /\ x \in heap[u]
          \/ k = "hands" /\ x = current[u]
          \/ k = "outputs" /\ x \in Elements(outputs[u])
    \/ /\ u \in Clients
       /\ \/ k = "call" /\ op[u].do = "submit" /\ x = op[u].task
          \/ k = "got" /\ x \in op[u].got
    \/ /\ u = 0
       /\ \/ k = "pending" /\ x \in pending
          \/ k = "answered" /\ x \in answered
          \/ k = "lost" /\ x \in lost

Places(x) == {p \in Kinds \X ((0 .. Dock) \cup Clients) : At(x, p[1], p[2])}

(* Every task handed to submit_task is in exactly one place: a call, one   *)
(* thread's channel, heap, hands or outputs, a poll in progress, the       *)
(* pending map, its client, or gone.  None is rendered or answered twice,  *)
(* whatever the interleaving of the calls with each other and the workers, *)
(* their panics and the shutdown.                                          *)
OnePlace == \A x \in 1 .. submitted : \E p \in Places(x) : Places(x) = {p}

(* A wait is never for an output that is already in the pending map, where *)
(* the polls of its loop would not find it: wait_for_task looks there only *)
(* once, before the loop.  It holds when one client makes all the calls;   *)
(* README.md:197 of the crate says "All coordinator operations are thread- *)
(* safe and can be called from multiple tasks concurrently".               *)
WaitNotMissed == \A c \in Clients : op[c].do = "wait" => op[c].task \notin pending

(* The pending map stays within MAX_PENDING, whole batches of outputs      *)
(* being put into it by wait_for_task.                                     *)
PendingBounded == Cardinality(pending) <= MaxPending

(* The ways a task is lost: its thread gives up with it in the channel, a  *)
(* poll that has collected it comes to a dead thread, its output is none   *)
(* that the wait collecting it is for, and too many for the pending map,   *)
(* or the coordinator is gone.                                             *)
Dropped(x, t) == x \in Elements(channel[t]) /\ panics'[t] = MaxRespawns
PolledWith(x, c) == x \in op[c].got /\ op[c].at \in Threads /\ pc[op[c].at] = "dead"
Overflows(x, c) ==
    op[c].do = "wait" /\ x \in Others(c) /\ Cardinality(pending \cup op[c].got) > MaxPending

(* An accepted task, whose submitter has an id and no error, gets lost in  *)
(* these ways only, and one thread's end takes nothing of another's.       *)
OutputsKept ==
    [][\A x \in lost' \ lost :
          \/ \E t \in Threads : Dropped(x, t)
          \/ \E c \in Clients : PolledWith(x, c) \/ Overflows(x, c)
          \/ ~running']_vars

Blocked(t) == running /\ pc[t] = "render" /\ Len(outputs[t]) = Capacity

(* When polls keep succeeding, every task a submission has returned for    *)
(* reaches a client, unless it is lost or a wait for another task has      *)
(* put it into the pending map, where poll_outputs does not look.  As a    *)
(* behaviour has MaxTasks tasks, this is to say that it happens again and  *)
(* again that none is owed.                                                *)
Delivered ==
    []<>(\E c \in Clients : op[c].do = "poll" /\ op[c].at = End)
       => []<>(\A x \in Tasks : Returned(x) => x \in answered \cup lost \cup pending)

(* A submission that never returns waits for a worker that is blocked on   *)
(* its own full output channel: nothing else, a dead thread in particular, *)
(* holds it for ever.                                                      *)
SubmitWaits ==
    \A c \in Clients :
       <>[](op[c].do = "submit") => <>[](op[c].do = "submit" /\ Blocked(op[c].at))

(* After the coordinator is dropped every worker ends, with its tasks      *)
(* rendered or given up and no send waiting for a receiver.                *)
StopsClean == ~running ~> \A t \in Threads : pc[t] = "dead"

(* What liquide-render-coordinator/src/lib.rs:47 says of the calls that    *)
(* submit: "non-blocking message passing".                                 *)
SubmitReturns == \A c \in Clients : op[c].do = "submit" ~> op[c].do # "submit"
=============================================================================
