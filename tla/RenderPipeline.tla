---------------------------- MODULE RenderPipeline ----------------------------
(***************************************************************************)
(* The threaded rendering of one window: RenderCoordinator, its chrome and *)
(* content thread handles, the mpsc channels, and the two worker threads   *)
(* (liquide-render-thread).  The owner of the coordinator requests frames, *)
(* polls completions, resizes and shuts down on the UI thread, while the   *)
(* workers take one message after another and may panic in a renderer.     *)
(*                                                                         *)
(* The nodes of a request are abstracted to the number of the scene they   *)
(* were split from, a completion's pixels to that number and the window    *)
(* size it was rendered at.  A renderer's error still completes the frame, *)
(* as a dropped one, and is not told apart from success.                   *)
(*                                                                         *)
(* poll_completions is two kinds of step, what it receives first and each  *)
(* turn of its resync loop, so that workers complete frames in between.    *)
(***************************************************************************)
EXTENDS Integers, Sequences

CONSTANTS
    Sizes,        \* the sizes the window can have
    MaxScenes,    \* bound of the model: frames submitted
    InboxBound,   \* bound of the model: messages waiting at one worker
    MayCrash,     \* the sides whose worker may panic
    LateAttach    \* whether a thread is replaced, or attached after the first frame

Sides == {"chrome", "content"}
Other(s) == IF s = "chrome" THEN "content" ELSE "chrome"

ASSUME RenderAssumption ==
    /\ Sizes # {}
    /\ MaxScenes \in Nat
    /\ InboxBound \in Nat \ {0}
    /\ MayCrash \subseteq Sides
    /\ LateAttach \in BOOLEAN

VARIABLES
    ui,        \* where the UI thread is: "ready" or in the "resync" loop
    size,      \* width and height of the coordinator
    handle,    \* side -> [attached, state, frame, size] of the thread handle
    pending,   \* side -> buffered completion, a sequence of at most one
    backlog,   \* side -> damage waits for the next request
    inbox,     \* side -> messages sent to the worker and not yet handled
    outbox,    \* side -> completions sent by the worker, not yet received
    worker,    \* side -> "running", "stopped" or "crashed"
    scene,     \* number of the last scene submitted
    shown,     \* side -> the last completion handed to the owner, if any
    stopping   \* the owner has called shutdown

vars == <<ui, size, handle, pending, backlog, inbox, outbox, worker, scene,
          shown, stopping>>

Frames == 0 .. MaxScenes
HandleState == {"Idle", "Rendering", "Shutdown"}
Handle == [attached : BOOLEAN, state : HandleState, frame : Frames, size : Sizes]
Completion == [frame : Frames, scene : 1 .. MaxScenes, size : Sizes]
Message == [kind : {"render"}, done : Completion] \cup [kind : {"resize", "shutdown"}]

Fresh(sz) == [attached |-> TRUE, state |-> "Idle", frame |-> 0, size |-> sz]
Detached(sz) == [Fresh(sz) EXCEPT !.attached = FALSE]

Init ==
    /\ ui = "ready"
    /\ size \in Sizes
    /\ handle = [s \in Sides |-> Detached(size)]
    /\ pending = [s \in Sides |-> << >>]
    /\ backlog = [s \in Sides |-> FALSE]
    /\ inbox = [s \in Sides |-> << >>]
    /\ outbox = [s \in Sides |-> << >>]
    /\ worker = [s \in Sides |-> "running"]
    /\ scene = 0
    /\ shown = [s \in Sides |-> << >>]
    /\ stopping = FALSE

Attached == {s \in Sides : handle[s].attached}
Running == {s \in Sides : worker[s] = "running"}
Busy(s) == handle[s].state = "Rendering"

-----------------------------------------------------------------------------
(* A new handle, its channels and its worker; a handle it replaces takes   *)
(* its own channels and worker away.  What is pending or owed stays.       *)
Attach(s) ==
    /\ ui = "ready"
    /\ LateAttach \/ (scene = 0 /\ s \notin Attached)
    /\ handle' = [handle EXCEPT ![s] = Fresh(size)]
    /\ inbox' = [inbox EXCEPT ![s] = << >>]
    /\ outbox' = [outbox EXCEPT ![s] = << >>]
    /\ worker' = [worker EXCEPT ![s] = "running"]
    /\ UNCHANGED <<ui, size, pending, backlog, scene, shown, stopping>>

-----------------------------------------------------------------------------
(* The request_frame of a handle: the counter and the state change before  *)
(* the send, which fails when the worker has gone.                         *)
Requested(h) == [h EXCEPT !.state = "Rendering", !.frame = h.frame + 1]

RenderMessage(h) ==
    [kind |-> "render",
     done |-> [frame |-> h.frame + 1, scene |-> scene + 1, size |-> h.size]]

(* The handles whose request_frame is called; the sends that succeed. *)
Submit(called) ==
    /\ scene < MaxScenes
    /\ scene' = scene + 1
    /\ handle' = [s \in Sides |-> IF s \in called THEN Requested(handle[s]) ELSE handle[s]]
    /\ inbox' = [s \in Sides |->
                    IF s \in called \cap Running
                    THEN Append(inbox[s], RenderMessage(handle[s]))
                    ELSE inbox[s]]

(* With both threads, one that is busy holds back the frame of both. *)
RequestSkipped ==
    /\ Attached = Sides
    /\ \E s \in Sides : Busy(s)
    /\ backlog' = [s \in Sides |-> TRUE]
    /\ UNCHANGED <<scene, handle, inbox>>

(* The chrome request comes first, and its error ends the call. *)
RequestBoth ==
    /\ Attached = Sides
    /\ \A s \in Sides : ~Busy(s)
    /\ backlog' = [s \in Sides |-> FALSE]
    /\ Submit(IF "chrome" \in Running THEN Sides ELSE {"chrome"})

(* With one thread, its handle ignores a request while it is busy. *)
RequestSingle(s) ==
    /\ Attached = {s}
    /\ backlog' = [backlog EXCEPT ![s] = FALSE]
    /\ IF Busy(s) THEN UNCHANGED <<scene, handle, inbox>> ELSE Submit({s})

RequestFrame ==
    /\ ui = "ready"
    /\ \/ RequestSkipped
       \/ RequestBoth
       \/ \E s \in Sides : RequestSingle(s)
    /\ UNCHANGED <<ui, size, pending, outbox, worker, shown, stopping>>

-----------------------------------------------------------------------------
(* poll_completions.                                                       *)

(* Mutant of Receive: the slot is not looked at first. *)
ReceiveAnyway(sides, slot) ==
    LET got == {s \in sides : s \in Attached /\ outbox[s] # << >>}
    IN  /\ pending' = [s \in Sides |->
                          IF s \in got THEN Append(slot[s], Head(outbox[s])) ELSE slot[s]]
        /\ outbox' = [s \in Sides |-> IF s \in got THEN Tail(outbox[s]) ELSE outbox[s]]
        /\ handle' = [s \in Sides |->
                         IF s \in got THEN [handle[s] EXCEPT !.state = "Idle"] ELSE handle[s]]

(* The sides whose next completion try_recv_completion takes into the      *)
(* empty slot; a handle that receives one is Idle, whatever it was.        *)
Receive(sides, slot) ==
    LET got == {s \in sides : s \in Attached /\ slot[s] = << >> /\ outbox[s] # << >>}
    IN  /\ pending' = [s \in Sides |-> IF s \in got THEN <<Head(outbox[s])>> ELSE slot[s]]
        /\ outbox' = [s \in Sides |-> IF s \in got THEN Tail(outbox[s]) ELSE outbox[s]]
        /\ handle' = [s \in Sides |->
                         IF s \in got THEN [handle[s] EXCEPT !.state = "Idle"] ELSE handle[s]]

BeginPoll ==
    /\ ui = "ready"
    /\ ui' = "resync"
    /\ Receive(Sides, pending)
    /\ UNCHANGED <<size, backlog, inbox, worker, scene, shown, stopping>>

Paired == \A s \in Sides : pending[s] # << >>

(* The pair is handed over, or in single-thread mode the one completion. *)
Emit(sides) ==
    /\ ui' = "ready"
    /\ shown' = [s \in Sides |-> IF s \in sides THEN pending[s] ELSE shown[s]]
    /\ pending' = [s \in Sides |-> IF s \in sides THEN << >> ELSE pending[s]]
    /\ UNCHANGED <<size, handle, backlog, inbox, outbox, worker, scene, stopping>>

(* Mutant of EmitPair: whatever is pending makes a pair. *)
EmitPairUnmatched ==
    /\ ui = "resync"
    /\ Attached = Sides
    /\ Paired
    /\ Emit(Sides)

EmitPair ==
    /\ ui = "resync"
    /\ Attached = Sides
    /\ Paired
    /\ pending["chrome"][1].frame = pending["content"][1].frame
    /\ Emit(Sides)

EmitSingle(s) ==
    /\ ui = "resync"
    /\ Attached = {s}
    /\ pending[s] # << >>
    /\ Emit({s})

(* The completion of the side that is behind is dropped, its damage is     *)
(* owed, and the next completion of that side takes its place if there is  *)
(* one: otherwise the call ends.                                           *)
DropBehind(s) ==
    /\ ui = "resync"
    /\ Attached = Sides
    /\ Paired
    /\ pending[s][1].frame < pending[Other(s)][1].frame
    /\ backlog' = [backlog EXCEPT ![s] = TRUE]
    /\ Receive({s}, [pending EXCEPT ![s] = << >>])
    /\ ui' = IF outbox[s] # << >> THEN "resync" ELSE "ready"
    /\ UNCHANGED <<size, inbox, worker, scene, shown, stopping>>

(* Nothing to pair: the call returns with what it has kept. *)
EndPoll ==
    /\ ui = "resync"
    /\ IF Attached = Sides THEN ~Paired ELSE \A s \in Attached : pending[s] = << >>
    /\ ui' = "ready"
    /\ UNCHANGED <<size, handle, pending, backlog, inbox, outbox, worker, scene,
                   shown, stopping>>

Resync ==
    \/ EmitPair
    \/ \E s \in Sides : EmitSingle(s) \/ DropBehind(s)
    \/ EndPoll

-----------------------------------------------------------------------------
(* Sending a message that is not a frame request to the sides given. *)
Notify(sides, kind) ==
    inbox' = [s \in Sides |->
                 IF s \in sides \cap Running THEN Append(inbox[s], [kind |-> kind]) ELSE inbox[s]]

(* Messages that are not counted by MaxScenes are bounded here. *)
RoomFor(sides) == \A s \in sides : Len(inbox[s]) < InboxBound

(* The sides a call that goes to chrome first reaches, of those attached.  *)
ChromeFirst == IF "chrome" \in Attached \ Running THEN {"chrome"} ELSE Attached

(* Mutant of Resize: both handles are made Idle as well. *)
ResizeToIdle(sz) ==
    /\ ui = "ready"
    /\ RoomFor({"chrome"})
    /\ size' = sz
    /\ pending' = [s \in Sides |-> << >>]
    /\ backlog' = [s \in Sides |-> FALSE]
    /\ handle' = [s \in Sides |-> [handle[s] EXCEPT !.size = sz, !.state = "Idle"]]
    /\ Notify(Attached \cap {"chrome"}, "resize")
    /\ UNCHANGED <<ui, outbox, worker, scene, shown, stopping>>

(* Pending pairs and owed damage are forgotten.  Only chrome is sent a     *)
(* message; if that fails the content handle keeps the old size.           *)
Resize(sz) ==
    /\ ui = "ready"
    /\ RoomFor({"chrome"})
    /\ size' = sz
    /\ pending' = [s \in Sides |-> << >>]
    /\ backlog' = [s \in Sides |-> FALSE]
    /\ handle' = [s \in Sides |->
                     IF s \in ChromeFirst THEN [handle[s] EXCEPT !.size = sz] ELSE handle[s]]
    /\ Notify(Attached \cap {"chrome"}, "resize")
    /\ UNCHANGED <<ui, outbox, worker, scene, shown, stopping>>

(* Shutdown of both threads, chrome first: its error ends the call. *)
Shutdown ==
    /\ ui = "ready"
    /\ RoomFor(Attached)
    /\ handle' = [s \in Sides |->
                     IF s \in ChromeFirst THEN [handle[s] EXCEPT !.state = "Shutdown"]
                     ELSE handle[s]]
    /\ Notify(ChromeFirst, "shutdown")
    /\ stopping' = TRUE
    /\ UNCHANGED <<ui, size, pending, backlog, outbox, worker, scene, shown>>

-----------------------------------------------------------------------------
(* The worker threads.                                                     *)

(* Mutant of WorkerStep: a failed render sends no completion. *)
WorkerStepSilent(s) ==
    /\ s \in Running
    /\ inbox[s] # << >>
    /\ LET m == Head(inbox[s])
       IN  /\ \/ m.kind = "render" /\ outbox' = [outbox EXCEPT ![s] = Append(@, m.done)]
              \/ UNCHANGED outbox
           /\ inbox' = [inbox EXCEPT ![s] = IF m.kind = "shutdown" THEN << >> ELSE Tail(@)]
           /\ worker' = IF m.kind = "shutdown"
                        THEN [worker EXCEPT ![s] = "stopped"] ELSE worker
    /\ UNCHANGED <<ui, size, handle, pending, backlog, scene, shown, stopping>>

(* One turn of the worker's loop: a frame is rendered and its completion   *)
(* sent, a resize drops the frame buffer, a shutdown ends the thread and   *)
(* whatever was sent after it is lost.                                     *)
WorkerStep(s) ==
    /\ s \in Running
    /\ inbox[s] # << >>
    /\ LET m == Head(inbox[s])
       IN  /\ outbox' = IF m.kind = "render"
                        THEN [outbox EXCEPT ![s] = Append(@, m.done)] ELSE outbox
           /\ inbox' = [inbox EXCEPT ![s] = IF m.kind = "shutdown" THEN << >> ELSE Tail(@)]
           /\ worker' = IF m.kind = "shutdown"
                        THEN [worker EXCEPT ![s] = "stopped"] ELSE worker
    /\ UNCHANGED <<ui, size, handle, pending, backlog, scene, shown, stopping>>

(* The renderer panics on a frame: both channel ends of the worker drop,   *)
(* and the completions it had sent can still be received.                  *)
WorkerCrashes(s) ==
    /\ s \in MayCrash \cap Running
    /\ inbox[s] # << >>
    /\ Head(inbox[s]).kind = "render"
    /\ worker' = [worker EXCEPT ![s] = "crashed"]
    /\ inbox' = [inbox EXCEPT ![s] = << >>]
    /\ UNCHANGED <<ui, size, handle, pending, backlog, outbox, scene, shown, stopping>>

-----------------------------------------------------------------------------
Next ==
    \/ RequestFrame
    \/ BeginPoll
    \/ Resync
    \/ Shutdown
    \/ \E sz \in Sizes : Resize(sz)
    \/ \E s \in Sides : Attach(s) \/ WorkerStep(s) \/ WorkerCrashes(s)

(* The owner's frame loop comes round to a request and to a poll again and *)
(* again (strong for the request, which a poll under way disables), a call *)
(* it is in ends, and a worker that has a message handles it.  Nobody has  *)
(* to resize, attach, shut down or crash.                                  *)
Fairness ==
    /\ SF_vars(RequestFrame)
    /\ WF_vars(BeginPoll)
    /\ WF_vars(Resync)
    /\ \A s \in Sides : WF_vars(WorkerStep(s))

Spec == Init /\ [][Next]_vars /\ Fairness

-----------------------------------------------------------------------------
(* Types; at most one completion is buffered per side, and no handle has   *)
(* counted more frames than there were submissions.                        *)
TypeOK ==
    /\ ui \in {"ready", "resync"}
    /\ size \in Sizes
    /\ handle \in [Sides -> Handle]
    /\ \A s \in Sides : handle[s].frame <= scene
    /\ pending \in [Sides -> {<< >>} \cup {<<c>> : c \in Completion}]
    /\ backlog \in [Sides -> BOOLEAN]
    /\ inbox \in [Sides -> Seq(Message)]
    /\ outbox \in [Sides -> Seq(Completion)]
    /\ worker \in [Sides -> {"running", "stopped", "crashed"}]
    /\ scene \in 0 .. MaxScenes
    /\ shown \in [Sides -> {<< >>} \cup {<<c>> : c \in Completion}]
    /\ stopping \in BOOLEAN

(* What poll_completions hands over as a pair was submitted by one call of *)
(* request_frame, at one window size: frame ids are counted by each handle *)
(* on its own, through skips, failed sends, discarded completions and      *)
(* resizes, and equal ids are taken for the same frame.                    *)
OneScene ==
    Attached = Sides /\ (\A s \in Sides : shown[s] # << >>) =>
        /\ shown["chrome"][1].scene = shown["content"][1].scene
        /\ shown["chrome"][1].size = shown["content"][1].size

RendersIn(q) == {i \in DOMAIN q : q[i].kind = "render"}

(* The back-pressure works: until the owner shuts down, a thread has at    *)
(* most one frame that was submitted and not yet received, and its handle  *)
(* says so; no resize, error or resync lets a second one in.               *)
OneInFlight ==
    ~stopping => \A s \in Sides :
        /\ \A i, j \in RendersIn(inbox[s]) : i = j
        /\ RendersIn(inbox[s]) # {} => outbox[s] = << >> /\ Busy(s)
        /\ outbox[s] # << >> => Len(outbox[s]) = 1 /\ Busy(s)

(* No thread is Rendering for ever while the workers of the window live: a *)
(* frame that was accepted is received, through skips, resyncs and pairs   *)
(* that a resize broke.                                                    *)
FramesComplete ==
    \A s \in Sides : Busy(s) ~> (~Busy(s) \/ ~(Attached \subseteq Running))

==============================================================================
