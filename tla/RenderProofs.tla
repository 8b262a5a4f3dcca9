----------------------------- MODULE RenderProofs -----------------------------
(* Theorems about RenderPipeline, for every set of window sizes, every     *)
(* number of scenes, with panics of either worker and replaced handles.    *)
EXTENDS RenderPipeline, Functions, SequenceTheorems, TLAPS

(* OneInFlight of one side: what is queued for its worker, what the worker *)
(* has completed, and the state of its handle.                             *)
SideOK(in, out, state) ==
    /\ \A i, j \in RendersIn(in) : i = j
    /\ RendersIn(in) # {} => out = << >> /\ state = "Rendering"
    /\ out # << >> => Len(out) = 1 /\ state = "Rendering"

(* The inductive invariant. *)
IInv == TypeOK /\ OneInFlight

LEMMA OneInFlightBySide ==
    OneInFlight <=>
        (~stopping => \A s \in Sides : SideOK(inbox[s], outbox[s], handle[s].state))
  BY DEF OneInFlight, SideOK, Busy

-----------------------------------------------------------------------------
(* What each kind of step does to one side.                                *)

LEMMA RendersAppend ==
    ASSUME NEW q \in Seq(Message), NEW m \in Message
    PROVE  RendersIn(Append(q, m)) =
               RendersIn(q) \cup (IF m.kind = "render" THEN {Len(q) + 1} ELSE {})
  <1>1. /\ Append(q, m) \in Seq(Message)
        /\ DOMAIN Append(q, m) = 1 .. Len(q) + 1
        /\ DOMAIN q = 1 .. Len(q)
        /\ Len(q) \in Nat
        /\ \A i \in 1 .. Len(q) : Append(q, m)[i] = q[i]
        /\ Append(q, m)[Len(q) + 1] = m
    OBVIOUS
  <1>2. QED
    BY <1>1 DEF RendersIn

LEMMA RendersTail ==
    ASSUME NEW q \in Seq(Message), q # << >>
    PROVE  /\ \A i \in RendersIn(Tail(q)) : i + 1 \in RendersIn(q)
           /\ \A i \in RendersIn(Tail(q)) : i \in Nat \ {0}
           /\ Head(q).kind = "render" => 1 \in RendersIn(q)
  <1>1. /\ DOMAIN q = 1 .. Len(q)
        /\ Len(q) \in Nat \ {0}
        /\ DOMAIN Tail(q) = 1 .. Len(q) - 1
        /\ \A i \in 1 .. Len(q) - 1 : Tail(q)[i] = q[i + 1]
        /\ Head(q) = q[1]
    OBVIOUS
  <1>2. QED
    BY <1>1 DEF RendersIn

LEMMA RendersEmpty == RendersIn(<< >>) = {}
  BY DEF RendersIn

(* A frame is sent, or its send fails. *)
LEMMA SubmitSide ==
    ASSUME NEW in \in Seq(Message), NEW out, NEW state, NEW m \in Message,
           SideOK(in, out, state), state # "Rendering"
    PROVE  /\ SideOK(Append(in, m), out, "Rendering")
           /\ SideOK(in, out, "Rendering")
  <1>1. RendersIn(in) = {} /\ out = << >>
    BY DEF SideOK
  <1>2. \A i, j \in RendersIn(Append(in, m)) : i = j
    BY <1>1, RendersAppend
  <1>3. QED
    BY <1>1, <1>2 DEF SideOK

(* Another message is sent. *)
LEMMA NotifySide ==
    ASSUME NEW in \in Seq(Message), NEW out, NEW state, NEW m \in Message,
           SideOK(in, out, state), m.kind # "render"
    PROVE  SideOK(Append(in, m), out, state)
  <1>1. RendersIn(Append(in, m)) = RendersIn(in)
    BY RendersAppend
  <1>2. QED
    BY <1>1 DEF SideOK

(* The worker completes a frame. *)
LEMMA CompleteSide ==
    ASSUME NEW in \in Seq(Message), NEW out, NEW state, NEW c,
           SideOK(in, out, state), in # << >>, Head(in).kind = "render"
    PROVE  SideOK(Tail(in), Append(out, c), state)
  <1>1. 1 \in RendersIn(in) /\ out = << >> /\ state = "Rendering"
    BY RendersTail DEF SideOK
  <1>2. RendersIn(Tail(in)) = {}
    <2> SUFFICES ASSUME NEW i \in RendersIn(Tail(in)) PROVE FALSE
      OBVIOUS
    <2>1. i + 1 \in RendersIn(in) /\ i \in Nat \ {0}
      BY RendersTail
    <2>2. i + 1 = 1
      BY <1>1, <2>1 DEF SideOK
    <2>3. QED
      BY <2>1, <2>2
  <1>3. Len(Append(out, c)) = 1
    BY <1>1
  <1>4. QED
    BY <1>1, <1>2, <1>3 DEF SideOK

(* The worker takes a message that is not a frame. *)
LEMMA SkipSide ==
    ASSUME NEW in \in Seq(Message), NEW out, NEW state,
           SideOK(in, out, state), in # << >>
    PROVE  SideOK(Tail(in), out, state)
  <1>1. RendersIn(Tail(in)) # {} => RendersIn(in) # {}
    BY RendersTail
  <1>2. ASSUME NEW i \in RendersIn(Tail(in)), NEW j \in RendersIn(Tail(in)) PROVE i = j
    <2>1. /\ i + 1 \in RendersIn(in) /\ j + 1 \in RendersIn(in)
          /\ i \in Nat /\ j \in Nat
      BY RendersTail
    <2>2. i + 1 = j + 1
      BY <2>1 DEF SideOK
    <2>3. QED
      BY <2>1, <2>2
  <1>3. QED
    BY <1>1, <1>2 DEF SideOK

(* The worker is gone, with what was queued for it. *)
LEMMA EmptySide ==
    ASSUME NEW in, NEW out, NEW state, SideOK(in, out, state)
    PROVE  SideOK(<< >>, out, state)
  BY RendersEmpty DEF SideOK

(* The one completion is received. *)
LEMMA ReceiveSide ==
    ASSUME NEW in, NEW out \in Seq(Completion), NEW state,
           SideOK(in, out, state), out # << >>
    PROVE  SideOK(in, Tail(out), "Idle")
  <1>1. Len(out) = 1 /\ RendersIn(in) = {}
    BY DEF SideOK
  <1>2. Tail(out) = << >>
    <2>1. Tail(out) \in Seq(Completion) /\ Len(Tail(out)) = 0
      BY <1>1, HeadTailProperties
    <2>2. QED
      BY <2>1, EmptySeq
  <1>3. QED
    BY <1>1, <1>2 DEF SideOK

-----------------------------------------------------------------------------
(* Every call and every turn of a worker keeps the inductive invariant.    *)

LEMMA InitIInv == Init => IInv
  <1> SUFFICES ASSUME Init PROVE IInv
    OBVIOUS
  <1>1. handle \in [Sides -> Handle] /\ \A s \in Sides : handle[s].frame = 0
    <2>1. Fresh(size) \in Handle /\ Fresh(size).frame = 0
      BY RenderAssumption DEF Init, Fresh, Handle, HandleState, Frames, RenderAssumption
    <2>2. Detached(size) \in Handle /\ Detached(size).frame = 0
      BY <2>1 DEF Detached, Handle
    <2>3. QED
      BY <2>2 DEF Init
  <1>2. TypeOK
    <2>1. << >> \in Seq(Message) /\ << >> \in Seq(Completion)
      BY EmptySeq
    <2>2. inbox \in [Sides -> Seq(Message)] /\ outbox \in [Sides -> Seq(Completion)]
      BY <2>1 DEF Init
    <2>3. scene = 0 /\ scene \in 0 .. MaxScenes
      BY RenderAssumption DEF Init, RenderAssumption
    <2>4. \A s \in Sides : handle[s].frame <= scene
      BY <1>1, <2>3
    <2>5. QED
      BY <1>1, <2>2, <2>3, <2>4 DEF Init, TypeOK
  <1>3. OneInFlight
    BY RendersEmpty, OneInFlightBySide DEF Init, SideOK
  <1>4. QED
    BY <1>2, <1>3 DEF IInv

(* A frame is submitted to handles that are not busy. *)
LEMMA SubmitOK ==
    ASSUME IInv, NEW called \in SUBSET Sides, \A s \in called : ~Busy(s),
           Submit(called), UNCHANGED <<outbox, stopping>>
    PROVE  /\ handle' \in [Sides -> Handle]
           /\ \A s \in Sides : handle'[s].frame <= scene'
           /\ inbox' \in [Sides -> Seq(Message)]
           /\ scene' \in 0 .. MaxScenes
           /\ OneInFlight'
  <1>1. scene \in 0 .. MaxScenes /\ scene' = scene + 1 /\ scene' \in 0 .. MaxScenes
    BY RenderAssumption DEF IInv, TypeOK, Submit, RenderAssumption
  <1>2. \A s \in Sides : handle[s] \in Handle /\ handle[s].frame <= scene
    BY DEF IInv, TypeOK
  <1>3. \A s \in Sides :
          /\ Requested(handle[s]) \in Handle
          /\ Requested(handle[s]).frame <= scene'
          /\ Requested(handle[s]).state = "Rendering"
    <2> TAKE s \in Sides
    <2> DEFINE h == handle[s]
    <2>1. /\ h \in Handle
          /\ h.frame \in Frames /\ h.attached \in BOOLEAN /\ h.size \in Sizes
      BY <1>2 DEF Handle
    <2>2. h.frame + 1 \in Frames /\ h.frame + 1 <= scene'
      BY <1>1, <1>2, <2>1, RenderAssumption DEF Frames, RenderAssumption
    <2> HIDE DEF h
    <2>3. Requested(h) \in Handle
      BY <2>1, <2>2 DEF Requested, Handle, HandleState
    <2>4. Requested(h).frame = h.frame + 1 /\ Requested(h).state = "Rendering"
      BY <2>1 DEF Requested, Handle
    <2>5. QED
      BY <2>2, <2>3, <2>4 DEF h
  <1>4. \A s \in Sides :
          RenderMessage(handle[s]) \in Message /\ RenderMessage(handle[s]).kind = "render"
    BY <1>1, <1>2, RenderAssumption
       DEF RenderMessage, Message, Completion, Handle, Frames, RenderAssumption
  <1>5. handle' \in [Sides -> Handle] /\ \A s \in Sides : handle'[s].frame <= scene'
    BY <1>1, <1>2, <1>3 DEF Submit, Handle, Frames
  <1>6. inbox \in [Sides -> Seq(Message)]
    BY DEF IInv, TypeOK
  <1>7. inbox' \in [Sides -> Seq(Message)]
    BY <1>4, <1>6 DEF Submit
  <1>8. ASSUME ~stopping, NEW s \in Sides
        PROVE  SideOK(inbox'[s], outbox[s], handle'[s].state)
    <2>1. SideOK(inbox[s], outbox[s], handle[s].state)
      BY <1>8, OneInFlightBySide DEF IInv
    <2>2. CASE s \notin called
      BY <2>1, <2>2 DEF Submit
    <2>3. CASE s \in called
      <3>1. handle[s].state # "Rendering"
        BY <2>3 DEF Busy
      <3>2. /\ SideOK(Append(inbox[s], RenderMessage(handle[s])), outbox[s], "Rendering")
            /\ SideOK(inbox[s], outbox[s], "Rendering")
        BY <1>4, <1>6, <2>1, <3>1, SubmitSide
      <3>3. handle'[s].state = "Rendering"
        BY <1>3, <2>3 DEF Submit
      <3>4. inbox'[s] = Append(inbox[s], RenderMessage(handle[s])) \/ inbox'[s] = inbox[s]
        BY DEF Submit
      <3>5. QED
        BY <3>2, <3>3, <3>4
    <2>4. QED
      BY <2>2, <2>3
  <1>9. OneInFlight'
    BY <1>8 DEF OneInFlight, SideOK, Busy
  <1>10. QED
    BY <1>1, <1>5, <1>7, <1>9

LEMMA RequestOK == ASSUME IInv, RequestFrame PROVE IInv'
  <1> USE DEF IInv
  <1>1. CASE RequestSkipped
    BY <1>1 DEF RequestFrame, RequestSkipped, TypeOK, OneInFlight, Busy
  <1>2. CASE RequestBoth
    <2>1. PICK called \in SUBSET Sides : Submit(called)
      BY <1>2 DEF RequestBoth, Sides
    <2>2. \A s \in called : ~Busy(s)
      BY <1>2 DEF RequestBoth
    <2>3. backlog' \in [Sides -> BOOLEAN]
      BY <1>2 DEF RequestBoth
    <2>4. QED
      BY <2>1, <2>2, <2>3, SubmitOK DEF RequestFrame, TypeOK
  <1>3. ASSUME NEW s \in Sides, RequestSingle(s) PROVE IInv'
    <2>1. backlog' \in [Sides -> BOOLEAN]
      BY <1>3 DEF RequestSingle, TypeOK
    <2>2. CASE Busy(s)
      BY <1>3, <2>1, <2>2 DEF RequestFrame, RequestSingle, TypeOK, OneInFlight, Busy
    <2>3. CASE ~Busy(s)
      <3>1. Submit({s})
        BY <1>3, <2>3 DEF RequestSingle
      <3>2. QED
        BY <2>1, <2>3, <3>1, SubmitOK DEF RequestFrame, TypeOK
    <2>4. QED
      BY <2>2, <2>3
  <1>4. QED
    BY <1>1, <1>2, <1>3 DEF RequestFrame

(* Completions are received into the slots given. *)
LEMMA ReceiveOK ==
    ASSUME IInv, NEW sides \in SUBSET Sides, NEW slot,
           slot \in [Sides -> {<< >>} \cup {<<c>> : c \in Completion}],
           Receive(sides, slot), UNCHANGED <<inbox, scene, stopping>>
    PROVE  /\ pending' \in [Sides -> {<< >>} \cup {<<c>> : c \in Completion}]
           /\ outbox' \in [Sides -> Seq(Completion)]
           /\ handle' \in [Sides -> Handle]
           /\ \A s \in Sides : handle'[s].frame <= scene
           /\ OneInFlight'
  <1> DEFINE got == {s \in sides : s \in Attached /\ slot[s] = << >> /\ outbox[s] # << >>}
  <1>1. /\ pending' = [s \in Sides |-> IF s \in got THEN <<Head(outbox[s])>> ELSE slot[s]]
        /\ outbox' = [s \in Sides |-> IF s \in got THEN Tail(outbox[s]) ELSE outbox[s]]
        /\ handle' = [s \in Sides |->
                         IF s \in got THEN [handle[s] EXCEPT !.state = "Idle"] ELSE handle[s]]
    BY DEF Receive
  <1>2. \A s \in got : s \in Sides /\ outbox[s] # << >>
    OBVIOUS
  <1> HIDE DEF got
  <1>3. /\ outbox \in [Sides -> Seq(Completion)]
        /\ \A s \in Sides : handle[s] \in Handle /\ handle[s].frame <= scene
    BY DEF IInv, TypeOK
  <1>4. \A s \in got : Head(outbox[s]) \in Completion /\ Tail(outbox[s]) \in Seq(Completion)
    BY <1>2, <1>3, HeadTailProperties
  <1>5. \A s \in Sides :
          LET h == [handle[s] EXCEPT !.state = "Idle"]
          IN  h \in Handle /\ h.frame = handle[s].frame /\ h.state = "Idle"
    BY <1>3 DEF Handle, HandleState
  <1>6. pending' \in [Sides -> {<< >>} \cup {<<c>> : c \in Completion}]
    BY <1>1, <1>4
  <1>7. outbox' \in [Sides -> Seq(Completion)]
    BY <1>1, <1>3, <1>4
  <1>8. handle' \in [Sides -> Handle] /\ \A s \in Sides : handle'[s].frame <= scene
    BY <1>1, <1>3, <1>5
  <1>9. ASSUME ~stopping, NEW s \in Sides
        PROVE  SideOK(inbox[s], outbox'[s], handle'[s].state)
    <2>1. SideOK(inbox[s], outbox[s], handle[s].state)
      BY <1>9, OneInFlightBySide DEF IInv
    <2>2. CASE s \in got
      <3>1. outbox'[s] = Tail(outbox[s]) /\ handle'[s].state = "Idle"
        BY <1>1, <1>5, <2>2
      <3>2. QED
        BY <1>2, <1>3, <2>1, <2>2, <3>1, ReceiveSide
    <2>3. CASE s \notin got
      BY <1>1, <2>1, <2>3
    <2>4. QED
      BY <2>2, <2>3
  <1>10. OneInFlight'
    BY <1>9 DEF OneInFlight, SideOK, Busy
  <1>11. QED
    BY <1>6, <1>7, <1>8, <1>10

LEMMA BeginPollOK == ASSUME IInv, BeginPoll PROVE IInv'
  <1>1. pending \in [Sides -> {<< >>} \cup {<<c>> : c \in Completion}]
    BY DEF IInv, TypeOK
  <1>2. Receive(Sides, pending) /\ UNCHANGED <<inbox, scene, stopping>>
    BY DEF BeginPoll
  <1>3. QED
    BY <1>1, <1>2, ReceiveOK DEF BeginPoll, IInv, TypeOK

LEMMA DropBehindOK == ASSUME IInv, NEW s \in Sides, DropBehind(s) PROVE IInv'
  <1> DEFINE slot == [pending EXCEPT ![s] = << >>]
  <1>1. slot \in [Sides -> {<< >>} \cup {<<c>> : c \in Completion}]
    BY DEF IInv, TypeOK
  <1>2. Receive({s}, slot) /\ UNCHANGED <<inbox, scene, stopping>>
    BY DEF DropBehind
  <1> HIDE DEF slot
  <1>3. /\ pending' \in [Sides -> {<< >>} \cup {<<c>> : c \in Completion}]
        /\ outbox' \in [Sides -> Seq(Completion)]
        /\ handle' \in [Sides -> Handle]
        /\ \A t \in Sides : handle'[t].frame <= scene
        /\ OneInFlight'
    BY <1>1, <1>2, ReceiveOK
  <1>4. ui' \in {"ready", "resync"} /\ backlog' \in [Sides -> BOOLEAN]
    BY DEF DropBehind, IInv, TypeOK
  <1>5. QED
    BY <1>3, <1>4 DEF DropBehind, IInv, TypeOK

(* Handing completions over changes neither a handle nor a channel. *)
LEMMA EmitOK == ASSUME IInv, NEW sides, Emit(sides) PROVE IInv'
  <1>1. OneInFlight'
    BY DEF Emit, IInv, OneInFlight, Busy
  <1>2. TypeOK'
    BY DEF Emit, IInv, TypeOK
  <1>3. QED
    BY <1>1, <1>2 DEF IInv

LEMMA ResyncOK == ASSUME IInv, Resync PROVE IInv'
  <1>1. CASE EmitPair
    BY <1>1, EmitOK DEF EmitPair
  <1>2. ASSUME NEW s \in Sides, EmitSingle(s) PROVE IInv'
    BY <1>2, EmitOK DEF EmitSingle
  <1>3. ASSUME NEW s \in Sides, DropBehind(s) PROVE IInv'
    BY <1>3, DropBehindOK
  <1>4. CASE EndPoll
    BY <1>4 DEF EndPoll, IInv, TypeOK, OneInFlight, Busy
  <1>5. QED
    BY <1>1, <1>2, <1>3, <1>4 DEF Resync

LEMMA AttachOK == ASSUME IInv, NEW s \in Sides, Attach(s) PROVE IInv'
  <1>1. Fresh(size) \in Handle /\ Fresh(size).frame = 0
    BY RenderAssumption DEF Fresh, Handle, HandleState, Frames, IInv, TypeOK, RenderAssumption
  <1>2. scene \in 0 .. MaxScenes /\ 0 <= scene
    BY DEF IInv, TypeOK
  <1>3. << >> \in Seq(Message) /\ << >> \in Seq(Completion)
    BY EmptySeq
  <1>4. TypeOK'
    BY <1>1, <1>2, <1>3 DEF Attach, IInv, TypeOK
  <1>5. ASSUME ~stopping, NEW t \in Sides
        PROVE  SideOK(inbox'[t], outbox'[t], handle'[t].state)
    <2>1. SideOK(inbox[t], outbox[t], handle[t].state)
      BY <1>5, OneInFlightBySide DEF IInv
    <2>2. CASE t = s
      <3>1. inbox'[t] = << >> /\ outbox'[t] = << >>
        BY <2>2 DEF Attach, IInv, TypeOK
      <3>2. QED
        BY <3>1, RendersEmpty DEF SideOK
    <2>3. CASE t # s
      BY <2>1, <2>3 DEF Attach, IInv, TypeOK
    <2>4. QED
      BY <2>2, <2>3
  <1>6. OneInFlight'
    BY <1>5 DEF Attach, OneInFlight, SideOK, Busy
  <1>7. QED
    BY <1>4, <1>6 DEF IInv

(* Messages that are not frames, to any sides that live. *)
LEMMA NotifyOK ==
    ASSUME IInv, NEW sides, NEW kind \in {"resize", "shutdown"}, Notify(sides, kind)
    PROVE  /\ inbox' \in [Sides -> Seq(Message)]
           /\ \A s \in Sides : \A out, state :
                 SideOK(inbox[s], out, state) => SideOK(inbox'[s], out, state)
  <1>1. [kind |-> kind] \in Message /\ [kind |-> kind].kind # "render"
    BY DEF Message
  <1>2. inbox \in [Sides -> Seq(Message)]
    BY DEF IInv, TypeOK
  <1>3. \A s \in Sides : inbox'[s] = Append(inbox[s], [kind |-> kind]) \/ inbox'[s] = inbox[s]
    BY DEF Notify
  <1>4. inbox' \in [Sides -> Seq(Message)]
    BY <1>1, <1>2 DEF Notify
  <1>5. ASSUME NEW s \in Sides, NEW out, NEW state, SideOK(inbox[s], out, state)
        PROVE  SideOK(inbox'[s], out, state)
    <2>1. SideOK(Append(inbox[s], [kind |-> kind]), out, state)
      BY <1>1, <1>2, <1>5, NotifySide
    <2>2. QED
      BY <1>3, <1>5, <2>1
  <1>6. QED
    BY <1>4, <1>5

LEMMA ResizeOK == ASSUME IInv, NEW sz \in Sizes, Resize(sz) PROVE IInv'
  <1>1. Notify(Attached \cap {"chrome"}, "resize")
    BY DEF Resize
  <1>2. /\ inbox' \in [Sides -> Seq(Message)]
        /\ \A s \in Sides : \A out, state :
              SideOK(inbox[s], out, state) => SideOK(inbox'[s], out, state)
    BY <1>1, NotifyOK
  <1>3. \A s \in Sides :
          LET h == [handle[s] EXCEPT !.size = sz]
          IN  /\ handle[s] \in Handle /\ handle[s].frame <= scene
              /\ h \in Handle /\ h.frame = handle[s].frame /\ h.state = handle[s].state
    BY DEF IInv, TypeOK, Handle
  <1>4. /\ handle' \in [Sides -> Handle]
        /\ \A s \in Sides : handle'[s].frame <= scene /\ handle'[s].state = handle[s].state
    BY <1>3 DEF Resize
  <1>5. TypeOK'
    BY <1>2, <1>4 DEF Resize, IInv, TypeOK
  <1>6. ~stopping => \A s \in Sides : SideOK(inbox'[s], outbox[s], handle'[s].state)
    BY <1>2, <1>4, OneInFlightBySide DEF IInv
  <1>7. OneInFlight'
    BY <1>6 DEF Resize, OneInFlight, SideOK, Busy
  <1>8. QED
    BY <1>5, <1>7 DEF IInv

(* After a shutdown nothing is promised of what is in flight. *)
LEMMA ShutdownOK == ASSUME IInv, Shutdown PROVE IInv'
  <1>1. Notify(ChromeFirst, "shutdown")
    BY DEF Shutdown
  <1>2. inbox' \in [Sides -> Seq(Message)]
    BY <1>1, NotifyOK
  <1>3. \A s \in Sides :
          LET h == [handle[s] EXCEPT !.state = "Shutdown"]
          IN  /\ handle[s] \in Handle /\ handle[s].frame <= scene
              /\ h \in Handle /\ h.frame = handle[s].frame
    BY DEF IInv, TypeOK, Handle, HandleState
  <1>4. handle' \in [Sides -> Handle] /\ \A s \in Sides : handle'[s].frame <= scene
    BY <1>3 DEF Shutdown
  <1>5. TypeOK' /\ OneInFlight'
    BY <1>2, <1>4 DEF Shutdown, IInv, TypeOK, OneInFlight
  <1>6. QED
    BY <1>5 DEF IInv

LEMMA WorkerStepOK == ASSUME IInv, NEW s \in Sides, WorkerStep(s) PROVE IInv'
  <1> DEFINE m == Head(inbox[s])
  <1>1. /\ inbox \in [Sides -> Seq(Message)]
        /\ outbox \in [Sides -> Seq(Completion)]
        /\ inbox[s] # << >>
    BY DEF WorkerStep, IInv, TypeOK
  <1>2. m \in Message /\ Tail(inbox[s]) \in Seq(Message)
    BY <1>1, HeadTailProperties
  <1>3. m.kind = "render" => m.done \in Completion
    BY <1>2 DEF Message
  <1>4. /\ outbox' = IF m.kind = "render"
                      THEN [outbox EXCEPT ![s] = Append(outbox[s], m.done)] ELSE outbox
        /\ inbox' = [inbox EXCEPT ![s] = IF m.kind = "shutdown" THEN << >> ELSE Tail(inbox[s])]
        /\ worker' = IF m.kind = "shutdown"
                      THEN [worker EXCEPT ![s] = "stopped"] ELSE worker
        /\ UNCHANGED <<ui, size, handle, pending, backlog, scene, shown, stopping>>
    BY DEF WorkerStep
  <1> HIDE DEF m
  <1>5. inbox' \in [Sides -> Seq(Message)]
    BY <1>1, <1>2, <1>4, EmptySeq
  <1>6. outbox' \in [Sides -> Seq(Completion)]
    BY <1>1, <1>3, <1>4
  <1>7. worker' \in [Sides -> {"running", "stopped", "crashed"}]
    BY <1>4 DEF IInv, TypeOK
  <1>8. TypeOK'
    BY <1>4, <1>5, <1>6, <1>7 DEF IInv, TypeOK
  <1>9. ASSUME ~stopping, NEW t \in Sides
        PROVE  SideOK(inbox'[t], outbox'[t], handle[t].state)
    <2>1. SideOK(inbox[t], outbox[t], handle[t].state)
      BY <1>9, OneInFlightBySide DEF IInv
    <2>2. CASE t # s
      BY <1>1, <1>4, <2>1, <2>2
    <2>3. CASE t = s /\ m.kind = "render"
      <3>1. inbox'[t] = Tail(inbox[t]) /\ outbox'[t] = Append(outbox[t], m.done)
        BY <1>1, <1>4, <2>3
      <3>2. SideOK(Tail(inbox[t]), Append(outbox[t], m.done), handle[t].state)
        BY <1>1, <2>1, <2>3, CompleteSide DEF m
      <3>3. QED
        BY <3>1, <3>2
    <2>4. CASE t = s /\ m.kind # "render"
      <3>1. outbox'[t] = outbox[t] /\ inbox'[t] \in {<< >>, Tail(inbox[t])}
        BY <1>1, <1>4, <2>4
      <3>2. /\ SideOK(Tail(inbox[t]), outbox[t], handle[t].state)
            /\ SideOK(<< >>, outbox[t], handle[t].state)
        BY <1>1, <2>1, <2>4, SkipSide, EmptySide
      <3>3. QED
        BY <3>1, <3>2
    <2>5. QED
      BY <2>2, <2>3, <2>4
  <1>10. OneInFlight'
    BY <1>4, <1>9 DEF OneInFlight, SideOK, Busy
  <1>11. QED
    BY <1>8, <1>10 DEF IInv

LEMMA WorkerCrashesOK == ASSUME IInv, NEW s \in Sides, WorkerCrashes(s) PROVE IInv'
  <1>1. TypeOK'
    BY EmptySeq DEF WorkerCrashes, IInv, TypeOK
  <1>2. ASSUME ~stopping, NEW t \in Sides
        PROVE  SideOK(inbox'[t], outbox[t], handle[t].state)
    <2>1. SideOK(inbox[t], outbox[t], handle[t].state)
      BY <1>2, OneInFlightBySide DEF IInv
    <2>2. inbox'[t] = inbox[t] \/ inbox'[t] = << >>
      BY DEF WorkerCrashes, IInv, TypeOK
    <2>3. QED
      BY <2>1, <2>2, EmptySide
  <1>3. OneInFlight'
    BY <1>2 DEF WorkerCrashes, OneInFlight, SideOK, Busy
  <1>4. QED
    BY <1>1, <1>3 DEF IInv

LEMMA StepIInv == IInv /\ [Next]_vars => IInv'
  <1> SUFFICES ASSUME IInv, [Next]_vars PROVE IInv'
    OBVIOUS
  <1>1. CASE UNCHANGED vars
    BY <1>1 DEF vars, IInv, TypeOK, OneInFlight, Busy
  <1>2. QED
    BY <1>1, RequestOK, BeginPollOK, ResyncOK, ShutdownOK, ResizeOK, AttachOK,
       WorkerStepOK, WorkerCrashesOK
       DEF Next

-----------------------------------------------------------------------------
(* The inductive invariant holds in every reachable state. *)
THEOREM SpecIInv == Spec => []IInv
  <1>1. Init => IInv
    BY InitIInv
  <1>2. IInv /\ [Next]_vars => IInv'
    BY StepIInv
  <1>3. QED
    BY <1>1, <1>2, PTL DEF Spec

(* Type correctness: at most one completion is buffered per side, and no   *)
(* handle counts more frames than were submitted.                          *)
THEOREM SpecTypeOK == Spec => []TypeOK
  BY SpecIInv, PTL DEF IInv

(* Back-pressure: until the owner shuts down, each thread has at most one  *)
(* frame in flight, through panics, resizes and replaced handles.          *)
THEOREM SpecOneInFlight == Spec => []OneInFlight
  BY SpecIInv, PTL DEF IInv

-----------------------------------------------------------------------------
(* Pairing.  As long as no thread is attached after the first frame, the   *)
(* counters of the handles and the number of the scene agree wherever a    *)
(* completion can still come from, so equal frames are equal scenes.       *)

DonesIn(q) == {q[i].done : i \in RendersIn(q)}

(* Every completion of a side: still to be made, sent, buffered or shown. *)
Known(s) ==
    DonesIn(inbox[s]) \cup Range(outbox[s]) \cup Range(pending[s]) \cup Range(shown[s])

(* A frame's number is its scene's, and nothing is of a later scene. *)
NumbersOK ==
    \A s \in Sides : \A d \in Known(s) :
        d.frame = d.scene /\ d.scene \in Int /\ 1 <= d.scene /\ d.scene <= scene

(* What the two sides render of one scene has one size. *)
SizesOK ==
    \A c \in Known("chrome"), x \in Known("content") : c.scene = x.scene => c.size = x.size

(* The sides that a request can still send a frame to. *)
InStep(s) == s = "chrome" \/ "chrome" \notin Attached \/ "chrome" \in Running

HandlesOK ==
    \A s \in Attached : InStep(s) => handle[s].frame = scene /\ handle[s].size = size

ShownOK ==
    Attached = Sides =>
        \/ \A s \in Sides : shown[s] = << >>
        \/ /\ \A s \in Sides : shown[s] # << >>
           /\ shown["chrome"][1].scene = shown["content"][1].scene

PairInv == NumbersOK /\ SizesOK /\ HandlesOK /\ ShownOK

LEMMA RangeAppend ==
    ASSUME NEW S, NEW q \in Seq(S), NEW e \in S
    PROVE  Range(Append(q, e)) = Range(q) \cup {e}
  <1>1. /\ DOMAIN Append(q, e) = 1 .. Len(q) + 1
        /\ DOMAIN q = 1 .. Len(q)
        /\ Len(q) \in Nat
        /\ \A i \in 1 .. Len(q) : Append(q, e)[i] = q[i]
        /\ Append(q, e)[Len(q) + 1] = e
    OBVIOUS
  <1>2. QED
    BY <1>1 DEF Range

LEMMA RangeTail ==
    ASSUME NEW S, NEW q \in Seq(S), q # << >>
    PROVE  Range(Tail(q)) \subseteq Range(q) /\ Head(q) \in Range(q)
  <1>1. /\ DOMAIN q = 1 .. Len(q)
        /\ Len(q) \in Nat \ {0}
        /\ DOMAIN Tail(q) = 1 .. Len(q) - 1
        /\ \A i \in 1 .. Len(q) - 1 : Tail(q)[i] = q[i + 1]
        /\ Head(q) = q[1]
    OBVIOUS
  <1>2. \A i \in 1 .. Len(q) - 1 : i + 1 \in 1 .. Len(q)
    BY <1>1
  <1>3. QED
    BY <1>1, <1>2 DEF Range

LEMMA RangeSmall ==
    /\ Range(<< >>) = {}
    /\ \A e : Range(<<e>>) = {e}
  BY DEF Range

LEMMA DonesAppend ==
    ASSUME NEW q \in Seq(Message), NEW m \in Message
    PROVE  DonesIn(Append(q, m)) =
               DonesIn(q) \cup (IF m.kind = "render" THEN {m.done} ELSE {})
  <1>1. RendersIn(Append(q, m)) =
            RendersIn(q) \cup (IF m.kind = "render" THEN {Len(q) + 1} ELSE {})
    BY RendersAppend
  <1>2. /\ \A i \in RendersIn(q) : Append(q, m)[i] = q[i]
        /\ Append(q, m)[Len(q) + 1] = m
    BY DEF RendersIn
  <1>3. QED
    BY <1>1, <1>2 DEF DonesIn

LEMMA DonesTail ==
    ASSUME NEW q \in Seq(Message), q # << >>
    PROVE  /\ DonesIn(Tail(q)) \subseteq DonesIn(q)
           /\ Head(q).kind = "render" => Head(q).done \in DonesIn(q)
  <1>1. \A i \in RendersIn(Tail(q)) : i + 1 \in RendersIn(q) /\ Tail(q)[i] = q[i + 1]
    <2>1. /\ DOMAIN Tail(q) = 1 .. Len(q) - 1
          /\ \A i \in 1 .. Len(q) - 1 : Tail(q)[i] = q[i + 1]
      OBVIOUS
    <2>2. QED
      BY <2>1, RendersTail DEF RendersIn
  <1>2. Head(q) = q[1]
    OBVIOUS
  <1>3. QED
    BY <1>1, <1>2, RendersTail DEF DonesIn

LEMMA DonesEmpty == DonesIn(<< >>) = {}
  BY RendersEmpty DEF DonesIn

(* Fewer completions and the same scene keep the numbers and the sizes. *)
LEMMA FewerKnown ==
    ASSUME NumbersOK, SizesOK, \A s \in Sides : Known(s)' \subseteq Known(s), scene' = scene
    PROVE  NumbersOK' /\ SizesOK'
  BY DEF NumbersOK, SizesOK, Sides

(* Handles and workers that stay as they are, stay in step. *)
LEMMA SameHandles ==
    ASSUME HandlesOK, UNCHANGED <<scene, size>>,
           \A s \in Sides : /\ handle'[s].attached = handle[s].attached
                            /\ handle'[s].frame = handle[s].frame
                            /\ handle'[s].size = handle[s].size,
           \A s \in Running' : s \in Running
    PROVE  HandlesOK' /\ Attached' = Attached
  BY DEF HandlesOK, InStep, Attached

LEMMA InitPair == Init => PairInv
  <1> SUFFICES ASSUME Init PROVE PairInv
    OBVIOUS
  <1>1. \A s \in Sides : Known(s) = {}
    BY DonesEmpty, RangeSmall DEF Init, Known
  <1>2. Attached = {}
    BY DEF Init, Attached, Detached, Fresh
  <1>3. QED
    BY <1>1, <1>2 DEF PairInv, NumbersOK, SizesOK, HandlesOK, ShownOK, Sides

(* A new frame gets its scene's number on every side it is sent to. *)
LEMMA SubmitPair ==
    ASSUME IInv, PairInv, NEW called \in SUBSET Attached, \A s \in called : InStep(s),
           \A s \in Attached : InStep(s) => s \in called,
           Submit(called), UNCHANGED <<size, pending, outbox, worker, shown>>
    PROVE  PairInv'
  <1>1. /\ handle \in [Sides -> Handle] /\ inbox \in [Sides -> Seq(Message)]
        /\ scene \in Int /\ 0 <= scene /\ scene' = scene + 1
        /\ called \subseteq Sides
    BY DEF IInv, TypeOK, Submit, Attached
  <1>2. \A s \in called :
          LET m == RenderMessage(handle[s])
          IN  /\ m \in Message /\ m.kind = "render"
              /\ m.done.frame = scene + 1 /\ m.done.scene = scene + 1 /\ m.done.size = size
    <2> TAKE s \in called
    <2>1. handle[s].frame = scene /\ handle[s].size = size
      BY DEF PairInv, HandlesOK
    <2>2. scene + 1 \in Frames /\ scene + 1 \in 1 .. MaxScenes /\ size \in Sizes
      BY RenderAssumption DEF Submit, IInv, TypeOK, Frames, RenderAssumption
    <2>3. QED
      BY <2>1, <2>2 DEF RenderMessage, Message, Completion
  <1>3. ASSUME NEW s \in Sides, NEW d \in Known(s)'
        PROVE  \/ d \in Known(s)
               \/ d.frame = scene + 1 /\ d.scene = scene + 1 /\ d.size = size
    <2>1. CASE inbox'[s] = inbox[s]
      BY <1>3, <2>1 DEF Known
    <2>2. CASE s \in called /\ inbox'[s] = Append(inbox[s], RenderMessage(handle[s]))
      <3>1. DonesIn(inbox'[s]) = DonesIn(inbox[s]) \cup {RenderMessage(handle[s]).done}
        BY <1>1, <1>2, <2>2, DonesAppend
      <3>2. QED
        BY <1>2, <1>3, <2>2, <3>1 DEF Known
    <2>3. QED
      BY <2>1, <2>2 DEF Submit
  <1>4. NumbersOK'
    BY <1>1, <1>3 DEF PairInv, NumbersOK
  <1>5. SizesOK'
    <2> SUFFICES ASSUME NEW c \in Known("chrome")', NEW x \in Known("content")', c.scene = x.scene
                 PROVE  c.size = x.size
      BY DEF SizesOK
    <2>1. /\ c \in Known("chrome") \/ (c.scene = scene + 1 /\ c.size = size)
          /\ x \in Known("content") \/ (x.scene = scene + 1 /\ x.size = size)
      BY <1>3 DEF Sides
    <2>2. /\ c \in Known("chrome") => c.scene \in Int /\ c.scene <= scene
          /\ x \in Known("content") => x.scene \in Int /\ x.scene <= scene
      BY DEF PairInv, NumbersOK, Sides
    <2>3. QED
      BY <1>1, <2>1, <2>2 DEF PairInv, SizesOK
  <1>6. \A s \in Sides : handle'[s].attached = handle[s].attached /\ handle'[s].size = handle[s].size
    BY <1>1 DEF Submit, Requested, Handle
  <1>7. \A s \in called : handle'[s].frame = handle[s].frame + 1
    BY <1>1 DEF Submit, Requested, Handle
  <1>8. Attached' = Attached
    BY <1>6 DEF Attached
  <1>9. HandlesOK'
    BY <1>1, <1>6, <1>7, <1>8 DEF PairInv, HandlesOK, InStep, Running, Attached
  <1>10. ShownOK'
    BY <1>8 DEF PairInv, ShownOK
  <1>11. QED
    BY <1>4, <1>5, <1>9, <1>10 DEF PairInv

LEMMA RequestPair == ASSUME IInv, PairInv, RequestFrame PROVE PairInv'
  <1>1. UNCHANGED <<size, pending, outbox, worker, shown>>
    BY DEF RequestFrame
  <1>2. CASE UNCHANGED <<scene, handle, inbox>>
    BY <1>1, <1>2 DEF PairInv, NumbersOK, SizesOK, HandlesOK, ShownOK, Known, InStep,
                      Attached, Running
  <1>3. CASE RequestBoth
    <2> DEFINE called == IF "chrome" \in Running THEN Sides ELSE {"chrome"}
    <2>1. Submit(called) /\ Attached = Sides
      BY <1>3 DEF RequestBoth
    <2>2. /\ called \in SUBSET Attached
          /\ \A s \in called : InStep(s)
          /\ \A s \in Attached : InStep(s) => s \in called
      BY <2>1 DEF InStep, Sides
    <2> HIDE DEF called
    <2>3. QED
      BY <1>1, <2>1, <2>2, SubmitPair
  <1>4. ASSUME NEW s \in Sides, RequestSingle(s), Submit({s}) PROVE PairInv'
    <2>1. Attached = {s}
      BY <1>4 DEF RequestSingle
    <2>2. InStep(s)
      BY <2>1 DEF InStep
    <2>3. QED
      BY <1>1, <1>4, <2>1, <2>2, SubmitPair
  <1>5. QED
    BY <1>2, <1>3, <1>4 DEF RequestFrame, RequestSkipped, RequestSingle

(* What is received moves from one place to another. *)
LEMMA ReceivePair ==
    ASSUME IInv, PairInv, NEW sides \in SUBSET Sides, NEW slot,
           \A s \in Sides : Range(slot[s]) \subseteq Range(pending[s]),
           Receive(sides, slot), UNCHANGED <<size, inbox, worker, scene, shown>>
    PROVE  PairInv'
  <1> DEFINE got == {s \in sides : s \in Attached /\ slot[s] = << >> /\ outbox[s] # << >>}
  <1>1. /\ pending' = [s \in Sides |-> IF s \in got THEN <<Head(outbox[s])>> ELSE slot[s]]
        /\ outbox' = [s \in Sides |-> IF s \in got THEN Tail(outbox[s]) ELSE outbox[s]]
        /\ handle' = [s \in Sides |->
                         IF s \in got THEN [handle[s] EXCEPT !.state = "Idle"] ELSE handle[s]]
    BY DEF Receive
  <1>2. \A s \in got : s \in Sides /\ outbox[s] # << >>
    OBVIOUS
  <1> HIDE DEF got
  <1>3. outbox \in [Sides -> Seq(Completion)] /\ handle \in [Sides -> Handle]
    BY DEF IInv, TypeOK
  <1>4. ASSUME NEW s \in Sides PROVE Known(s)' \subseteq Known(s)
    <2>1. CASE s \in got
      <3>1. Range(outbox'[s]) \subseteq Range(outbox[s]) /\ Head(outbox[s]) \in Range(outbox[s])
        BY <1>1, <1>2, <1>3, <2>1, RangeTail
      <3>2. Range(pending'[s]) \subseteq Range(outbox[s])
        BY <1>1, <2>1, <3>1, RangeSmall
      <3>3. QED
        BY <3>1, <3>2 DEF Known
    <2>2. CASE s \notin got
      BY <1>1, <2>2 DEF Known
    <2>3. QED
      BY <2>1, <2>2
  <1>5. NumbersOK' /\ SizesOK'
    BY <1>4, FewerKnown DEF PairInv
  <1>6. \A s \in Sides : /\ handle'[s].attached = handle[s].attached
                         /\ handle'[s].frame = handle[s].frame
                         /\ handle'[s].size = handle[s].size
    BY <1>1, <1>3 DEF Handle
  <1>7. HandlesOK' /\ Attached' = Attached
    BY <1>6, SameHandles DEF PairInv, Running
  <1>8. ShownOK'
    BY <1>7 DEF PairInv, ShownOK
  <1>9. QED
    BY <1>5, <1>7, <1>8 DEF PairInv

LEMMA EmitKnown ==
    ASSUME IInv, NEW sides, Emit(sides)
    PROVE  \A s \in Sides : Known(s)' \subseteq Known(s)
  <1> TAKE s \in Sides
  <1>1. /\ shown'[s] = IF s \in sides THEN pending[s] ELSE shown[s]
        /\ pending'[s] = IF s \in sides THEN << >> ELSE pending[s]
        /\ inbox' = inbox /\ outbox' = outbox
    BY DEF Emit
  <1>2. QED
    BY <1>1, RangeSmall DEF Known

LEMMA ResyncPair == ASSUME IInv, PairInv, Resync PROVE PairInv'
  <1>1. ASSUME NEW sides, Emit(sides), ShownOK' PROVE PairInv'
    <2>1. NumbersOK' /\ SizesOK'
      BY <1>1, EmitKnown, FewerKnown DEF PairInv, Emit
    <2>2. HandlesOK'
      BY <1>1 DEF Emit, PairInv, HandlesOK, InStep, Attached, Running
    <2>3. QED
      BY <1>1, <2>1, <2>2 DEF PairInv
  <1>2. CASE EmitPair
    <2> DEFINE c == pending["chrome"][1]
               x == pending["content"][1]
    <2>1. \A s \in Sides : \E e : pending[s] = <<e>>
      BY <1>2 DEF EmitPair, Paired, IInv, TypeOK
    <2>2. c \in Known("chrome") /\ x \in Known("content")
      <3>1. pending["chrome"] = <<c>> /\ pending["content"] = <<x>>
        BY <2>1 DEF Sides
      <3> HIDE DEF c, x
      <3>2. c \in Range(pending["chrome"]) /\ x \in Range(pending["content"])
        BY <3>1, RangeSmall
      <3>3. QED
        BY <3>2 DEF Known
    <2>3. c.scene = x.scene
      BY <1>2, <2>2 DEF PairInv, NumbersOK, EmitPair, Sides
    <2>4. shown' = pending
      BY <1>2 DEF EmitPair, Emit, IInv, TypeOK
    <2>5. ShownOK'
      BY <1>2, <2>3, <2>4 DEF EmitPair, Paired, ShownOK
    <2>6. QED
      BY <1>1, <1>2, <2>5 DEF EmitPair
  <1>3. ASSUME NEW s \in Sides, EmitSingle(s) PROVE PairInv'
    <2>1. Attached' = {s} /\ {s} # Sides
      BY <1>3 DEF EmitSingle, Emit, Attached, Sides
    <2>2. ShownOK'
      BY <2>1 DEF ShownOK
    <2>3. QED
      BY <1>1, <1>3, <2>2 DEF EmitSingle
  <1>4. ASSUME NEW s \in Sides, DropBehind(s) PROVE PairInv'
    <2> DEFINE slot == [pending EXCEPT ![s] = << >>]
    <2>1. \A t \in Sides : Range(slot[t]) \subseteq Range(pending[t])
      BY RangeSmall DEF IInv, TypeOK
    <2>2. Receive({s}, slot) /\ UNCHANGED <<size, inbox, worker, scene, shown>>
      BY <1>4 DEF DropBehind
    <2> HIDE DEF slot
    <2>3. QED
      BY <2>1, <2>2, ReceivePair
  <1>5. CASE EndPoll
    BY <1>5 DEF EndPoll, PairInv, NumbersOK, SizesOK, HandlesOK, ShownOK, Known, InStep,
                Attached, Running
  <1>6. QED
    BY <1>2, <1>3, <1>4, <1>5 DEF Resync

LEMMA NotifyKnown ==
    ASSUME IInv, NEW sides, NEW kind \in {"resize", "shutdown"}, Notify(sides, kind),
           NEW s \in Sides
    PROVE  DonesIn(inbox'[s]) = DonesIn(inbox[s])
  <1>1. [kind |-> kind] \in Message /\ [kind |-> kind].kind # "render"
    BY DEF Message
  <1>2. inbox[s] \in Seq(Message)
    BY DEF IInv, TypeOK
  <1>3. DonesIn(Append(inbox[s], [kind |-> kind])) = DonesIn(inbox[s])
    BY <1>1, <1>2, DonesAppend
  <1>4. QED
    BY <1>3 DEF Notify

LEMMA ResizePair == ASSUME IInv, PairInv, NEW sz \in Sizes, Resize(sz) PROVE PairInv'
  <1>1. Notify(Attached \cap {"chrome"}, "resize")
    BY DEF Resize
  <1>2. ASSUME NEW s \in Sides PROVE Known(s)' \subseteq Known(s)
    <2>1. DonesIn(inbox'[s]) = DonesIn(inbox[s])
      BY <1>1, NotifyKnown
    <2>2. pending'[s] = << >> /\ outbox' = outbox /\ shown' = shown
      BY DEF Resize
    <2>3. QED
      BY <2>1, <2>2, RangeSmall DEF Known
  <1>3. NumbersOK' /\ SizesOK'
    BY <1>2, FewerKnown DEF PairInv, Resize
  <1>4. \A s \in Sides :
          /\ handle'[s].attached = handle[s].attached
          /\ handle'[s].frame = handle[s].frame
          /\ s \in ChromeFirst => handle'[s].size = sz
    BY DEF Resize, IInv, TypeOK, Handle
  <1>5. Attached' = Attached /\ Running' = Running
    BY <1>4 DEF Attached, Running, Resize
  <1>6. ASSUME NEW s \in Attached, InStep(s) PROVE s \in ChromeFirst
    BY <1>6 DEF InStep, ChromeFirst
  <1>7. HandlesOK'
    BY <1>4, <1>5, <1>6 DEF PairInv, HandlesOK, InStep, Resize, Attached
  <1>8. ShownOK'
    BY <1>5 DEF PairInv, ShownOK, Resize
  <1>9. QED
    BY <1>3, <1>7, <1>8 DEF PairInv

LEMMA ShutdownPair == ASSUME IInv, PairInv, Shutdown PROVE PairInv'
  <1>1. Notify(ChromeFirst, "shutdown")
    BY DEF Shutdown
  <1>2. ASSUME NEW s \in Sides PROVE Known(s)' \subseteq Known(s)
    <2>1. DonesIn(inbox'[s]) = DonesIn(inbox[s])
      BY <1>1, NotifyKnown
    <2>2. QED
      BY <2>1 DEF Known, Shutdown
  <1>3. NumbersOK' /\ SizesOK'
    BY <1>2, FewerKnown DEF PairInv, Shutdown
  <1>4. \A s \in Sides : /\ handle'[s].attached = handle[s].attached
                         /\ handle'[s].frame = handle[s].frame
                         /\ handle'[s].size = handle[s].size
    BY DEF Shutdown, IInv, TypeOK, Handle
  <1>5. HandlesOK' /\ Attached' = Attached
    BY <1>4, SameHandles DEF PairInv, Shutdown, Running
  <1>6. ShownOK'
    BY <1>5 DEF PairInv, ShownOK, Shutdown
  <1>7. QED
    BY <1>3, <1>5, <1>6 DEF PairInv
LEMMA AttachPair == ASSUME IInv, PairInv, ~LateAttach, NEW s \in Sides, Attach(s) PROVE PairInv'
  <1>1. scene = 0 /\ s \notin Attached /\ scene' = scene
    BY DEF Attach
  <1>2. ASSUME NEW t \in Sides PROVE Known(t) = {}
    BY <1>1 DEF PairInv, NumbersOK
  <1>3. ASSUME NEW t \in Sides PROVE Known(t)' \subseteq Known(t)
    <2>1. /\ pending'[t] = pending[t] /\ shown'[t] = shown[t]
          /\ inbox'[t] = inbox[t] \/ inbox'[t] = << >>
          /\ outbox'[t] = outbox[t] \/ outbox'[t] = << >>
      BY DEF Attach, IInv, TypeOK
    <2>2. QED
      BY <2>1, DonesEmpty, RangeSmall DEF Known
  <1>4. NumbersOK' /\ SizesOK'
    BY <1>1, <1>3, FewerKnown DEF PairInv
  <1>5. \A t \in Sides : /\ t = s => handle'[t] = Fresh(size) /\ worker'[t] = "running"
                         /\ t # s => handle'[t] = handle[t] /\ worker'[t] = worker[t]
    BY DEF Attach, IInv, TypeOK
  <1>6. HandlesOK'
    <2> SUFFICES ASSUME NEW t \in Attached', InStep(t)'
                 PROVE  handle'[t].frame = scene /\ handle'[t].size = size
      BY DEF HandlesOK, Attach
    <2>1. CASE t = s
      BY <1>1, <1>5, <2>1 DEF Fresh
    <2>2. CASE t # s
      <3>1. t \in Attached /\ handle'[t] = handle[t]
        BY <1>5, <2>2 DEF Attached
      <3>2. CASE InStep(t)
        BY <3>1, <3>2 DEF PairInv, HandlesOK
      <3>3. CASE ~InStep(t)
        BY <1>1, <1>5, <2>2, <3>3 DEF InStep, Attached, Running, Sides
      <3>4. QED
        BY <3>2, <3>3
    <2>3. QED
      BY <2>1, <2>2
  <1>7. \A t \in Sides : shown'[t] = << >>
    <2> TAKE t \in Sides
    <2>1. shown'[t] = shown[t]
      BY DEF Attach
    <2>2. Range(shown[t]) = {}
      BY <1>2 DEF Known
    <2>3. shown[t] = << >> \/ \E c : shown[t] = <<c>>
      BY DEF IInv, TypeOK
    <2>4. QED
      BY <2>1, <2>2, <2>3, RangeSmall
  <1>8. ShownOK'
    BY <1>7 DEF ShownOK
  <1>9. QED
    BY <1>4, <1>6, <1>8 DEF PairInv

(* A worker that stops leaves fewer completions and fewer sides in step. *)
LEMMA WorkerPair ==
    ASSUME IInv, PairInv, \A s \in Sides : Known(s)' \subseteq Known(s), Running' \subseteq Running,
           UNCHANGED <<size, handle, scene, shown>>
    PROVE  PairInv'
  <1>1. NumbersOK' /\ SizesOK'
    BY FewerKnown DEF PairInv
  <1>2. HandlesOK' /\ Attached' = Attached
    BY SameHandles DEF PairInv
  <1>3. QED
    BY <1>1, <1>2 DEF PairInv, ShownOK

LEMMA WorkerStepPair == ASSUME IInv, PairInv, NEW s \in Sides, WorkerStep(s) PROVE PairInv'
  <1> DEFINE m == Head(inbox[s])
  <1>1. /\ inbox \in [Sides -> Seq(Message)]
        /\ outbox \in [Sides -> Seq(Completion)]
        /\ worker \in [Sides -> {"running", "stopped", "crashed"}]
        /\ inbox[s] # << >>
    BY DEF WorkerStep, IInv, TypeOK
  <1>2. m \in Message /\ (m.kind = "render" => m.done \in Completion)
    BY <1>1, HeadTailProperties DEF Message
  <1>3. /\ outbox' = IF m.kind = "render"
                      THEN [outbox EXCEPT ![s] = Append(outbox[s], m.done)] ELSE outbox
        /\ inbox' = [inbox EXCEPT ![s] = IF m.kind = "shutdown" THEN << >> ELSE Tail(inbox[s])]
        /\ worker' = IF m.kind = "shutdown" THEN [worker EXCEPT ![s] = "stopped"] ELSE worker
        /\ UNCHANGED <<size, handle, pending, scene, shown>>
    BY DEF WorkerStep
  <1>4. /\ DonesIn(Tail(inbox[s])) \subseteq DonesIn(inbox[s])
        /\ m.kind = "render" => m.done \in DonesIn(inbox[s])
    BY <1>1, DonesTail
  <1> HIDE DEF m
  <1>5. ASSUME NEW t \in Sides PROVE Known(t)' \subseteq Known(t)
    <2>1. CASE t # s
      BY <1>1, <1>3, <2>1 DEF Known
    <2>2. CASE t = s
      <3>1. DonesIn(inbox'[s]) \subseteq DonesIn(inbox[s])
        BY <1>1, <1>3, <1>4, DonesEmpty
      <3>2. Range(outbox'[s]) \subseteq Range(outbox[s]) \cup DonesIn(inbox[s])
        <4>1. CASE m.kind = "render"
          <5>1. outbox'[s] = Append(outbox[s], m.done) /\ outbox[s] \in Seq(Completion)
            BY <1>1, <1>3, <4>1
          <5>2. Range(Append(outbox[s], m.done)) = Range(outbox[s]) \cup {m.done}
            BY <1>2, <4>1, <5>1, RangeAppend
          <5>3. QED
            BY <1>4, <4>1, <5>1, <5>2
        <4>2. CASE m.kind # "render"
          BY <1>3, <4>2
        <4>3. QED
          BY <4>1, <4>2
      <3>3. QED
        BY <1>3, <2>2, <3>1, <3>2 DEF Known
    <2>3. QED
      BY <2>1, <2>2
  <1>6. Running' \subseteq Running
    BY <1>1, <1>3 DEF Running
  <1>7. QED
    BY <1>3, <1>5, <1>6, WorkerPair

LEMMA WorkerCrashesPair == ASSUME IInv, PairInv, NEW s \in Sides, WorkerCrashes(s) PROVE PairInv'
  <1>1. ASSUME NEW t \in Sides PROVE Known(t)' \subseteq Known(t)
    <2>1. inbox'[t] = inbox[t] \/ inbox'[t] = << >>
      BY DEF WorkerCrashes, IInv, TypeOK
    <2>2. QED
      BY <2>1, DonesEmpty DEF Known, WorkerCrashes
  <1>2. Running' \subseteq Running
    BY DEF WorkerCrashes, Running, IInv, TypeOK
  <1>3. QED
    BY <1>1, <1>2, WorkerPair DEF WorkerCrashes

LEMMA BeginPollPair == ASSUME IInv, PairInv, BeginPoll PROVE PairInv'
  BY ReceivePair DEF BeginPoll

LEMMA StepPair == ~LateAttach => (IInv /\ PairInv /\ [Next]_vars => PairInv')
  <1> SUFFICES ASSUME ~LateAttach, IInv, PairInv, [Next]_vars PROVE PairInv'
    OBVIOUS
  <1>1. CASE UNCHANGED vars
    BY <1>1 DEF vars, PairInv, NumbersOK, SizesOK, HandlesOK, ShownOK, Known, InStep,
                Attached, Running
  <1>2. QED
    BY <1>1, RequestPair, BeginPollPair, ResyncPair, ShutdownPair, ResizePair, AttachPair,
       WorkerStepPair, WorkerCrashesPair
       DEF Next

(* Two completions of one scene have one size, and the shown are known. *)
LEMMA PairOneScene == IInv /\ PairInv => OneScene
  <1> SUFFICES ASSUME IInv, PairInv, Attached = Sides, \A s \in Sides : shown[s] # << >>
               PROVE  /\ shown["chrome"][1].scene = shown["content"][1].scene
                      /\ shown["chrome"][1].size = shown["content"][1].size
    BY DEF OneScene
  <1>1. "chrome" \in Sides /\ "content" \in Sides
    BY DEF Sides
  <1>2. PICK c : shown["chrome"] = <<c>>
    BY <1>1 DEF IInv, TypeOK
  <1>3. PICK x : shown["content"] = <<x>>
    BY <1>1 DEF IInv, TypeOK
  <1>4. c \in Known("chrome") /\ x \in Known("content")
    <2>1. c \in Range(shown["chrome"]) /\ x \in Range(shown["content"])
      BY <1>2, <1>3, RangeSmall
    <2>2. QED
      BY <2>1 DEF Known
  <1>5. c.scene = x.scene
    BY <1>1, <1>2, <1>3 DEF PairInv, ShownOK
  <1>6. QED
    BY <1>2, <1>3, <1>4, <1>5 DEF PairInv, SizesOK

(* What is handed over as a pair is one scene at one size, for any number  *)
(* of frames and whichever worker panics, as long as no thread is attached *)
(* after the first frame.                                                  *)
THEOREM SpecOneScene == ASSUME ~LateAttach PROVE Spec => []OneScene
  <1>1. Init => IInv /\ PairInv
    BY InitIInv, InitPair
  <1>2. IInv /\ PairInv /\ [Next]_vars => (IInv /\ PairInv)'
    BY StepIInv, StepPair
  <1>3. IInv /\ PairInv => OneScene
    BY PairOneScene
  <1>4. QED
    BY <1>1, <1>2, <1>3, PTL DEF Spec
=============================================================================
