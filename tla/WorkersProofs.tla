---------------------------- MODULE WorkersProofs ----------------------------
(***************************************************************************)
(* Proofs about the render worker pool, for any clients, any number of     *)
(* threads, any capacities and any number of tasks: every task is in       *)
(* exactly one place, the pending map stays within its limit and, when one *)
(* client makes all the calls, hides no output from a wait, and each lost  *)
(* output is lost in a way that the code has.                              *)
(***************************************************************************)
EXTENDS RenderWorkers, FiniteSetTheorems, TLAPS

(* A poll has collected nothing while no poll runs, and a submission has a *)
(* task and a thread.                                                      *)
ClientOK(c) ==
    /\ op[c].do \in {"idle", "submit"} => op[c].got = {}
    /\ op[c].do = "submit" =>
          op[c].task \in Tasks /\ op[c].task <= submitted /\ op[c].at \in Threads

CallOK == \A c \in Clients : ClientOK(c)

(* ThreadedRenderCoordinator: one thread makes every call. *)
OneCaller == \A c, d \in Clients : c = d

(* A worker has a task in hands exactly while it renders one, a heap only  *)
(* on the way to and from a rendering, and panics left while it starts.    *)
ThreadsOK == \A t \in Threads :
    /\ current[t] # NoTask <=> pc[t] = "render"
    /\ heap[t] # {} => pc[t] \in {"drain", "render"}
    /\ pc[t] = "start" => panics[t] < MaxRespawns

Distinct(seq) == \A i, j \in DOMAIN seq : seq[i] = seq[j] => i = j

ChannelsOK == \A t \in Threads : Distinct(channel[t]) /\ Distinct(outputs[t])

(* A task is in one place once submitted, and in none before. *)
Sole(x)    == \E k, t : \A j, u : At(x, j, u) <=> (j = k /\ u = t)
Nowhere(x) == \A j, u : ~At(x, j, u)
Placed     == \A x \in Tasks : IF x <= submitted THEN Sole(x) ELSE Nowhere(x)

(* The inductive invariant. *)
IInv ==
    /\ TypeOK
    /\ CallOK
    /\ ThreadsOK
    /\ ChannelsOK
    /\ Placed
    /\ OneCaller => WaitNotMissed
    /\ PendingBounded

-----------------------------------------------------------------------------
(* Constants and sequences. *)

LEMMA Constants ==
    /\ PoolSize \in Nat /\ PoolSize >= 1
    /\ Capacity \in Nat /\ Capacity >= 1
    /\ MaxRespawns \in Nat /\ MaxRespawns >= 1
    /\ MaxPending \in Nat /\ MaxTasks \in Nat
  <1>1. {PoolSize, Capacity, MaxRespawns} \subseteq Nat \ {0} /\ {MaxPending, MaxTasks} \subseteq Nat
    BY WorkersAssumption
  <1>2. PoolSize \in Nat \ {0} /\ Capacity \in Nat \ {0} /\ MaxRespawns \in Nat \ {0}
    BY <1>1
  <1>3. MaxPending \in Nat /\ MaxTasks \in Nat
    BY <1>1
  <1> QED
    BY <1>2, <1>3

LEMMA ThreadNumbers ==
    /\ Pool \subseteq Threads /\ Dock \in Threads /\ 1 \in Pool
    /\ Dock \in Nat /\ 0 \notin Threads
    /\ Threads \subseteq 1 .. End /\ End \in 1 .. End
    /\ \A t \in Threads : t + 1 \in 1 .. End
    /\ \A t \in Nat : (t % PoolSize) + 1 \in Pool
  <1>1. PoolSize \in Nat /\ PoolSize >= 1
    BY Constants
  <1>2. \A t \in Nat : t % PoolSize \in 0 .. PoolSize - 1
    BY <1>1
  <1>3. \A t \in Nat : (t % PoolSize) + 1 \in Pool
    BY <1>1, <1>2 DEF Pool
  <1> QED
    BY <1>1, <1>3 DEF Pool, Dock, Threads, End

LEMMA NoTaskIsNone == NoTask \notin Tasks /\ \A x \in Tasks : x \in Nat
  BY Constants DEF NoTask, Tasks

LEMMA ElementsAppend ==
    ASSUME NEW S, NEW s \in Seq(S), NEW x \in S
    PROVE  Elements(Append(s, x)) = Elements(s) \cup {x}
  <1>1. DOMAIN s = 1 .. Len(s) /\ DOMAIN Append(s, x) = 1 .. Len(s) + 1 /\ Len(s) \in Nat
    OBVIOUS
  <1>2. \A i \in 1 .. Len(s) : Append(s, x)[i] = s[i]
    OBVIOUS
  <1>3. Append(s, x)[Len(s) + 1] = x
    OBVIOUS
  <1>4. 1 .. Len(s) + 1 = (1 .. Len(s)) \cup {Len(s) + 1}
    BY <1>1
  <1> QED
    BY <1>1, <1>2, <1>3, <1>4 DEF Elements

LEMMA ElementsEmpty == Elements(<< >>) = {}
  BY DEF Elements

LEMMA TailFacts ==
    ASSUME NEW S, NEW s \in Seq(S), s # << >>, Distinct(s)
    PROVE  /\ Head(s) \in S /\ Head(s) \in Elements(s)
           /\ Tail(s) \in Seq(S) /\ Len(Tail(s)) = Len(s) - 1
           /\ Elements(Tail(s)) = Elements(s) \ {Head(s)}
           /\ Distinct(Tail(s))
  <1>1. Len(s) \in Nat /\ Len(s) >= 1 /\ DOMAIN s = 1 .. Len(s) /\ Head(s) = s[1]
    OBVIOUS
  <1>2. Tail(s) \in Seq(S) /\ Len(Tail(s)) = Len(s) - 1 /\ DOMAIN Tail(s) = 1 .. Len(s) - 1
    BY <1>1
  <1>3. \A i \in 1 .. Len(s) - 1 : Tail(s)[i] = s[i + 1]
    BY <1>1
  <1>4. Distinct(Tail(s))
    <2> SUFFICES ASSUME NEW i \in 1 .. Len(s) - 1, NEW j \in 1 .. Len(s) - 1, Tail(s)[i] = Tail(s)[j]
                 PROVE  i = j
      BY <1>2 DEF Distinct
    <2>1. s[i + 1] = s[j + 1] /\ i + 1 \in DOMAIN s /\ j + 1 \in DOMAIN s
      BY <1>1, <1>3
    <2>2. i + 1 = j + 1
      BY <2>1 DEF Distinct
    <2> QED
      BY <2>2, <1>1
  <1>5. \A y : y \in Elements(Tail(s)) <=> y \in Elements(s) \ {Head(s)}
    <2> TAKE y
    <2>1. ASSUME y \in Elements(Tail(s)) PROVE y \in Elements(s) \ {Head(s)}
      <3>1. PICK i \in 1 .. Len(s) - 1 : y = Tail(s)[i]
        BY <2>1, <1>2 DEF Elements
      <3>2. y = s[i + 1] /\ i + 1 \in DOMAIN s /\ 1 \in DOMAIN s /\ i + 1 # 1
        BY <3>1, <1>1, <1>3
      <3>3. y # s[1]
        BY <3>2 DEF Distinct
      <3> QED
        BY <3>2, <3>3, <1>1 DEF Elements
    <2>2. ASSUME y \in Elements(s), y # Head(s) PROVE y \in Elements(Tail(s))
      <3>1. PICK i \in DOMAIN s : y = s[i]
        BY <2>2 DEF Elements
      <3>2. i # 1 /\ i \in 1 .. Len(s)
        BY <3>1, <2>2, <1>1
      <3>3. i - 1 \in 1 .. Len(s) - 1
        BY <3>2, <1>1
      <3>4. Tail(s)[i - 1] = s[(i - 1) + 1] /\ (i - 1) + 1 = i
        BY <3>2, <3>3, <1>3
      <3> QED
        BY <3>1, <3>3, <3>4, <1>2 DEF Elements
    <2> QED
      BY <2>1, <2>2
  <1>6. Head(s) \in Elements(s) /\ Head(s) \in S
    BY <1>1 DEF Elements
  <1> QED
    BY <1>2, <1>4, <1>5, <1>6

LEMMA AppendFacts ==
    ASSUME NEW S, NEW s \in Seq(S), NEW x \in S, Distinct(s), x \notin Elements(s)
    PROVE  /\ Append(s, x) \in Seq(S) /\ Len(Append(s, x)) = Len(s) + 1
           /\ Distinct(Append(s, x))
  <1>1. DOMAIN s = 1 .. Len(s) /\ DOMAIN Append(s, x) = 1 .. Len(s) + 1 /\ Len(s) \in Nat
    OBVIOUS
  <1>2. \A i \in 1 .. Len(s) : Append(s, x)[i] = s[i]
    OBVIOUS
  <1>3. Append(s, x)[Len(s) + 1] = x
    OBVIOUS
  <1>4. \A i \in 1 .. Len(s) : s[i] # x
    BY <1>1 DEF Elements
  <1>5. \A i \in 1 .. Len(s) + 1 : i \in 1 .. Len(s) \/ i = Len(s) + 1
    BY <1>1
  <1>6. Distinct(Append(s, x))
    BY <1>1, <1>2, <1>3, <1>4, <1>5 DEF Distinct
  <1> QED
    BY <1>1, <1>6


-----------------------------------------------------------------------------
(* Type correctness. *)

LEMMA IdleIsCall == Idle \in Calls
  BY Constants, ThreadNumbers DEF Idle, Calls

LEMMA CallFields ==
    ASSUME NEW c \in Calls
    PROVE  /\ c.do \in {"idle", "submit", "poll", "wait"} /\ c.task \in Tasks \cup {NoTask}
           /\ c.at \in 1 .. End /\ c.left \in 0 .. PoolSize /\ c.got \subseteq Tasks
  BY DEF Calls

LEMMA NoQueue == << >> \in Queues /\ Elements(<< >>) = {} /\ Distinct(<< >>)
  BY Constants DEF Queues, Elements, Distinct

LEMMA QueueIsSeq ==
    ASSUME NEW s \in Queues
    PROVE  s \in Seq(Tasks) /\ Len(s) \in Nat /\ Elements(s) \subseteq Tasks
  BY DEF Queues, Elements

(* What taking the first task of a channel, and adding one to it, does. *)
LEMMA Taken ==
    ASSUME NEW s \in Queues, s # << >>, Distinct(s)
    PROVE  /\ Head(s) \in Tasks /\ Tail(s) \in Queues
           /\ Head(s) \in Elements(s) /\ Elements(Tail(s)) = Elements(s) \ {Head(s)}
           /\ Distinct(Tail(s))
  <1>1. Tail(s) \in Seq(Tasks) /\ Len(Tail(s)) = Len(s) - 1 /\ Len(s) \in Nat
    BY TailFacts, QueueIsSeq
  <1>2. Tail(s) \in Queues
    BY <1>1, Constants DEF Queues
  <1> QED
    BY <1>2, TailFacts, QueueIsSeq

LEMMA Added ==
    ASSUME NEW s \in Queues, NEW x \in Tasks, Len(s) < Capacity
    PROVE  /\ Append(s, x) \in Queues
           /\ Elements(Append(s, x)) = Elements(s) \cup {x}
           /\ Distinct(s) /\ x \notin Elements(s) => Distinct(Append(s, x))
  <1>1. s \in Seq(Tasks) /\ Len(s) \in Nat /\ Append(s, x) \in Seq(Tasks)
          /\ Len(Append(s, x)) = Len(s) + 1
    BY QueueIsSeq
  <1>2. Append(s, x) \in Queues
    BY <1>1, Constants DEF Queues
  <1> QED
    BY <1>1, <1>2, ElementsAppend, AppendFacts

(* A step of one client's call leaves the other calls alone. *)
LEMMA OneCall ==
    ASSUME op \in [Clients -> Calls], NEW c \in Clients, NEW r, op' = [op EXCEPT ![c] = r]
    PROVE  /\ op'[c] = r
           /\ \A d \in Clients : d # c => op'[d] = op[d]
           /\ r \in Calls => op' \in [Clients -> Calls]
  OBVIOUS

LEMMA TypeCalls ==
    ASSUME TypeOK, CallOK, NEW c \in Clients, SubmitTask(c) \/ SendTask(c) \/ SendRefused(c)
    PROVE  TypeOK'
  <1> USE DEF threadVars
  <1>0. op \in [Clients -> Calls] /\ op[c] \in Calls
    BY DEF TypeOK
  <1>1. CASE SubmitTask(c)
    <2>0. submitted \in 0 .. MaxTasks /\ submitted < MaxTasks /\ MaxTasks \in Nat
      BY <1>1, Constants DEF SubmitTask, TypeOK
    <2>1. submitted + 1 \in Tasks /\ submitted + 1 \in 0 .. MaxTasks
      BY <2>0 DEF Tasks
    <2>2. /\ next \in 1 .. End /\ next \in Nat /\ Dock \in 1 .. End
          /\ PoolSize \in 0 .. PoolSize /\ 1 \in 0 .. PoolSize
      BY Constants, ThreadNumbers DEF TypeOK, Pool
    <2>3. op' \in [Clients -> Calls]
      <3>1. \A a \in 1 .. End, n \in 0 .. PoolSize :
               [Idle EXCEPT !.do = "submit", !.task = submitted + 1, !.at = a, !.left = n] \in Calls
        BY <2>1 DEF Idle, Calls
      <3> QED
        BY <1>0, <1>1, <2>2, <3>1, OneCall DEF SubmitTask
    <2>4. next' \in Pool
      BY <1>1, <2>2, ThreadNumbers DEF SubmitTask, TypeOK
    <2> QED
      BY <1>1, <2>1, <2>3, <2>4 DEF SubmitTask, TypeOK
  <1>2. CASE SendTask(c)
    <2>1. op[c].at \in Threads /\ op[c].task \in Tasks
      BY <1>2 DEF SendTask, CallOK, ClientOK
    <2>2. Append(channel[op[c].at], op[c].task) \in Queues
      BY <1>2, <2>1, Added DEF SendTask, TypeOK
    <2>3. op' \in [Clients -> Calls]
      BY <1>0, <1>2, IdleIsCall, OneCall DEF SendTask
    <2> QED
      BY <1>2, <2>1, <2>2, <2>3 DEF SendTask, TypeOK
  <1>3. CASE SendRefused(c)
    <2>1. op[c].at \in Threads /\ op[c].task \in Tasks /\ op[c].at \in Nat
      BY <1>3 DEF SendRefused, CallOK, ClientOK, Threads
    <2>2. op[c] \in Calls /\ (op[c].at % PoolSize) + 1 \in 1 .. End
      BY <2>1, ThreadNumbers DEF TypeOK
    <2>3. op' \in [Clients -> Calls]
      <3>1. CASE op[c].left > 1
        <4>1. op[c].left - 1 \in 0 .. PoolSize
          BY <3>1, <2>2, CallFields, Constants
        <4>2. [op[c] EXCEPT !.at = (op[c].at % PoolSize) + 1, !.left = op[c].left - 1] \in Calls
          BY <2>2, <4>1 DEF Calls
        <4> QED
          BY <1>0, <1>3, <3>1, <4>2, OneCall DEF SendRefused
      <3>2. CASE ~(op[c].left > 1)
        BY <1>0, <1>3, <3>2, IdleIsCall, OneCall DEF SendRefused
      <3> QED
        BY <3>1, <3>2
    <2>4. answered' \subseteq Tasks
      BY <1>3, <2>1 DEF SendRefused, TypeOK
    <2> QED
      BY <1>3, <2>3, <2>4 DEF SendRefused, TypeOK
  <1> QED
    BY <1>1, <1>2, <1>3

LEMMA TypePolls ==
    ASSUME TypeOK, ChannelsOK, NEW c \in Clients,
           PollOutputs(c) \/ TakeOutput(c) \/ NothingThere(c) \/ PollFails(c) \/ PollReturns(c)
    PROVE  TypeOK'
  <1> USE DEF threadVars
  <1>0. op \in [Clients -> Calls] /\ op[c] \in Calls /\ op[c].got \subseteq Tasks
    BY CallFields DEF TypeOK
  <1>1. CASE PollOutputs(c)
    <2>1. [Idle EXCEPT !.do = "poll"] \in Calls
      BY IdleIsCall DEF Calls
    <2>2. op' \in [Clients -> Calls]
      BY <1>0, <1>1, <2>1, OneCall DEF PollOutputs
    <2> QED
      BY <1>1, <2>2 DEF PollOutputs, TypeOK
  <1>2. CASE TakeOutput(c)
    <2>1. /\ op[c].at \in Threads /\ Distinct(outputs[op[c].at]) /\ outputs[op[c].at] # << >>
          /\ outputs[op[c].at] \in Queues
      BY <1>2 DEF TakeOutput, ChannelsOK, TypeOK
    <2>2. Head(outputs[op[c].at]) \in Tasks /\ Tail(outputs[op[c].at]) \in Queues
      BY <2>1, Taken
    <2>3. op' \in [Clients -> Calls]
      <3>1. /\ op[c].got \cup {Head(outputs[op[c].at])} \in SUBSET Tasks
            /\ (IF op[c].at \in Pool THEN 1 ELSE op[c].at) \in 1 .. End
        BY <1>0, <2>2, CallFields, ThreadNumbers
      <3>2. [op[c] EXCEPT !.got = op[c].got \cup {Head(outputs[op[c].at])},
                          !.at = IF op[c].at \in Pool THEN 1 ELSE op[c].at] \in Calls
        BY <1>0, <3>1 DEF Calls
      <3> QED
        BY <1>0, <1>2, <3>2, OneCall DEF TakeOutput
    <2> QED
      BY <1>2, <2>1, <2>2, <2>3 DEF TakeOutput, TypeOK
  <1>3. CASE NothingThere(c)
    <2>1. op[c].at + 1 \in 1 .. End
      BY <1>3, ThreadNumbers DEF NothingThere
    <2>2. [op[c] EXCEPT !.at = op[c].at + 1] \in Calls
      BY <1>0, <2>1 DEF Calls
    <2>3. op' \in [Clients -> Calls]
      BY <1>0, <1>3, <2>2, OneCall DEF NothingThere
    <2> QED
      BY <1>3, <2>3 DEF NothingThere, TypeOK
  <1>4. CASE PollFails(c)
    <2>1. op' \in [Clients -> Calls]
      BY <1>0, <1>4, IdleIsCall, OneCall DEF PollFails
    <2> QED
      BY <1>0, <1>4, <2>1 DEF PollFails, TypeOK
  <1>5. CASE PollReturns(c)
    <2>1. op' \in [Clients -> Calls]
      BY <1>0, <1>5, IdleIsCall, OneCall DEF PollReturns
    <2> QED
      BY <1>0, <1>5, <2>1 DEF PollReturns, TypeOK
  <1> QED
    BY <1>1, <1>2, <1>3, <1>4, <1>5

LEMMA TypeWaits ==
    ASSUME TypeOK, NEW c \in Clients,
           WaitGathers(c) \/ WaitTimesOut(c) \/ \E x \in Tasks : WaitForTask(c, x)
    PROVE  TypeOK'
  <1> USE DEF threadVars
  <1>0. op \in [Clients -> Calls] /\ op[c] \in Calls /\ op[c].got \subseteq Tasks
    BY CallFields DEF TypeOK
  <1>1. CASE WaitGathers(c)
    <2>1. answered' \subseteq Tasks
      BY <1>0, <1>1 DEF WaitGathers, TypeOK
    <2>2. op' \in [Clients -> Calls]
      <3>1. 1 \in 1 .. End
        BY ThreadNumbers
      <3>2. [op[c] EXCEPT !.at = 1, !.got = {}] \in Calls
        BY <1>0, <3>1 DEF Calls
      <3> QED
        BY <1>0, <1>1, <3>2, IdleIsCall, OneCall DEF WaitGathers
    <2>3. Others(c) \subseteq Tasks
      BY <1>0 DEF Others
    <2>4. pending' \subseteq Tasks /\ lost' \subseteq Tasks
      BY <1>1, <2>3 DEF WaitGathers, KeepOthers, TypeOK
    <2> QED
      BY <1>1, <2>1, <2>2, <2>4 DEF WaitGathers, TypeOK
  <1>2. CASE WaitTimesOut(c)
    <2>1. op' \in [Clients -> Calls]
      BY <1>0, <1>2, IdleIsCall, OneCall DEF WaitTimesOut
    <2> QED
      BY <1>2, <2>1 DEF WaitTimesOut, TypeOK
  <1>3. CASE \E x \in Tasks : WaitForTask(c, x)
    <2>1. PICK x \in Tasks : WaitForTask(c, x)
      BY <1>3
    <2>2. [Idle EXCEPT !.do = "wait", !.task = x] \in Calls
      BY IdleIsCall DEF Calls
    <2>3. op' \in [Clients -> Calls]
      BY <1>0, <2>1, <2>2, OneCall DEF WaitForTask
    <2> QED
      BY <2>1, <2>3 DEF WaitForTask, TypeOK
  <1> QED
    BY <1>1, <1>2, <1>3

LEMMA TypeShutdown ==
    ASSUME TypeOK, Shutdown
    PROVE  TypeOK'
  <1>1. \A t \in Threads : Elements(outputs[t]) \subseteq Tasks
    BY QueueIsSeq DEF TypeOK
  <1>2. lost' \subseteq Tasks
    BY <1>1 DEF Shutdown, TypeOK
  <1> QED
    BY <1>2, NoQueue DEF Shutdown, TypeOK, threadVars

LEMMA TypeWorkers ==
    ASSUME TypeOK, ThreadsOK, ChannelsOK, NEW t \in Threads, Work(t) \/ LoopPanics(t)
    PROVE  TypeOK'
  <1> USE DEF threadVars, clientVars
  <1>0. "start" \in Steps /\ "receive" \in Steps /\ "drain" \in Steps /\ "render" \in Steps
          /\ "dead" \in Steps
    BY DEF Steps
  <1>1. CASE CreateRenderer(t)
    BY <1>0, <1>1 DEF CreateRenderer, TypeOK
  <1>2. CASE Receive(t)
    <2>1. Head(channel[t]) \in Tasks /\ Tail(channel[t]) \in Queues
      BY <1>2, Taken DEF Receive, ChannelsOK, TypeOK
    <2>2. CASE t \in Pool
      <3>1. {Head(channel[t])} \in SUBSET Tasks
        BY <2>1
      <3> QED
        BY <1>0, <1>2, <2>1, <2>2, <3>1 DEF Receive, TypeOK
    <2>3. CASE t \notin Pool
      BY <1>0, <1>2, <2>1, <2>3 DEF Receive, TypeOK
    <2> QED
      BY <2>2, <2>3
  <1>3. CASE Drain(t)
    <2>1. Head(channel[t]) \in Tasks /\ Tail(channel[t]) \in Queues
      BY <1>3, Taken DEF Drain, ChannelsOK, TypeOK
    <2>2. heap[t] \cup {Head(channel[t])} \in SUBSET Tasks
      BY <2>1 DEF TypeOK
    <2> QED
      BY <1>3, <2>1, <2>2 DEF Drain, TypeOK
  <1>4. CASE Pop(t)
    <2>1. PICK x \in heap[t] : /\ heap' = [heap EXCEPT ![t] = @ \ {x}]
                               /\ current' = [current EXCEPT ![t] = x]
      BY <1>4 DEF Pop
    <2>2. x \in Tasks /\ heap[t] \ {x} \in SUBSET Tasks
      BY DEF TypeOK
    <2>3. heap' \in [Threads -> SUBSET Tasks] /\ current' \in [Threads -> Tasks \cup {NoTask}]
      BY <2>1, <2>2 DEF TypeOK
    <2>4. /\ pc' = [pc EXCEPT ![t] = "render"]
          /\ UNCHANGED <<clientVars, panics, channel, outputs, lost>>
      BY <1>4 DEF Pop
    <2> QED
      BY <1>0, <2>3, <2>4 DEF TypeOK
  <1>5. CASE SendOutput(t)
    <2>1. current[t] \in Tasks
      BY <1>5 DEF SendOutput, ThreadsOK, TypeOK
    <2>2. running => Append(outputs[t], current[t]) \in Queues
      BY <1>5, <2>1, Added DEF SendOutput, TypeOK
    <2>3. outputs' \in [Threads -> Queues]
      BY <1>5, <2>2 DEF SendOutput, TypeOK
    <2>4. lost' \subseteq Tasks
      BY <1>5, <2>1 DEF SendOutput, TypeOK
    <2> QED
      BY <1>0, <1>5, <2>3, <2>4 DEF SendOutput, TypeOK
  <1>6. CASE Stop(t)
    BY <1>0, <1>6 DEF Stop, TypeOK
  <1>7. CASE LoopPanics(t)
    <2>1. Elements(channel[t]) \subseteq Tasks
      BY QueueIsSeq DEF TypeOK
    <2>2. lost' \subseteq Tasks /\ channel' \in [Threads -> Queues]
      BY <1>7, <2>1, NoQueue DEF LoopPanics, TypeOK
    <2>3. pc' \in [Threads -> Steps]
      BY <1>0, <1>7 DEF LoopPanics, TypeOK
    <2>4. panics' \in [Threads -> 0 .. MaxRespawns]
      <3>1. panics[t] + 1 \in 0 .. MaxRespawns
        BY <1>7, Constants DEF LoopPanics, ThreadsOK, TypeOK
      <3> QED
        BY <1>7, <3>1 DEF LoopPanics, TypeOK
    <2> QED
      BY <1>7, <2>2, <2>3, <2>4 DEF LoopPanics, TypeOK
  <1> QED
    BY <1>1, <1>2, <1>3, <1>4, <1>5, <1>6, <1>7 DEF Work

-----------------------------------------------------------------------------
(* The parts of the invariant about one call and one thread. *)

LEMMA CallsStep ==
    ASSUME TypeOK, CallOK, NEW c \in Clients, Call(c) \/ Serve(c) \/ WaitTimesOut(c)
    PROVE  CallOK'
  <1> USE DEF threadVars
  <1>0. /\ op \in [Clients -> Calls] /\ op[c] \in Calls /\ ClientOK(c)
        /\ submitted \in 0 .. MaxTasks /\ MaxTasks \in Nat
    BY Constants DEF TypeOK, CallOK
  <1>1. submitted' \in {submitted, submitted + 1}
    BY DEF Call, Serve, SubmitTask, SendTask, SendRefused, PollOutputs, TakeOutput, NothingThere,
       PollFails, PollReturns, WaitForTask, WaitGathers, WaitTimesOut
  <1>2. ASSUME NEW r, op' = [op EXCEPT ![c] = r], ClientOK(c)' PROVE CallOK'
    <2>1. ASSUME NEW d \in Clients, d # c PROVE ClientOK(d)'
      <3>1. op'[d] = op[d] /\ ClientOK(d)
        BY <1>0, <1>2, <2>1, OneCall DEF CallOK
      <3>2. op[d].do = "submit" => op[d].task <= submitted'
        BY <1>0, <1>1, <3>1 DEF ClientOK, Tasks
      <3> QED
        BY <3>1, <3>2 DEF ClientOK
    <2> QED
      BY <1>2, <2>1 DEF CallOK
  <1>3. ASSUME op' = [op EXCEPT ![c] = Idle] PROVE CallOK'
    <2>1. op'[c] = Idle
      BY <1>0, <1>3, OneCall
    <2>2. ClientOK(c)'
      BY <2>1 DEF ClientOK, Idle
    <2> QED
      BY <1>2, <1>3, <2>2
  <1>4. ASSUME NEW r, op' = [op EXCEPT ![c] = r], r.do \in {"poll", "wait"} PROVE CallOK'
    <2>1. op'[c] = r
      BY <1>0, <1>4, OneCall
    <2>2. ClientOK(c)'
      BY <1>4, <2>1 DEF ClientOK
    <2> QED
      BY <1>2, <1>4, <2>2
  <1>5. CASE SubmitTask(c)
    <2>1. submitted + 1 \in Tasks /\ submitted' = submitted + 1 /\ submitted + 1 <= submitted'
      BY <1>0, <1>5 DEF SubmitTask, Tasks
    <2>2. PICK a \in {next, Dock}, n \in {1, PoolSize} :
             op' = [op EXCEPT ![c] = [Idle EXCEPT !.do = "submit", !.task = submitted + 1,
                                                  !.at = a, !.left = n]]
      BY <1>5 DEF SubmitTask
    <2>3. op'[c] = [Idle EXCEPT !.do = "submit", !.task = submitted + 1, !.at = a, !.left = n]
      BY <1>0, <2>2, OneCall
    <2>4. op'[c].do = "submit" /\ op'[c].task = submitted + 1 /\ op'[c].got = {} /\ op'[c].at = a
      BY <2>3 DEF Idle
    <2>5. a \in Threads
      BY <2>2, ThreadNumbers DEF TypeOK
    <2>6. ClientOK(c)'
      BY <2>1, <2>4, <2>5 DEF ClientOK
    <2> QED
      BY <1>2, <2>2, <2>6
  <1>6. CASE SendRefused(c)
    <2>1. submitted' = submitted /\ op[c].do = "submit"
      BY <1>6 DEF SendRefused
    <2>2. CASE op[c].left > 1
      <3> DEFINE r == [op[c] EXCEPT !.at = (op[c].at % PoolSize) + 1, !.left = op[c].left - 1]
      <3>1. op' = [op EXCEPT ![c] = r]
        BY <1>6, <2>2 DEF SendRefused
      <3>2. op[c].at \in Nat
        BY <1>0, <2>1 DEF ClientOK, Threads
      <3>3. (op[c].at % PoolSize) + 1 \in Threads
        BY <3>2, ThreadNumbers
      <3>4. r.do = op[c].do /\ r.task = op[c].task /\ r.got = op[c].got /\ r.at \in Threads
        BY <1>0, <3>3 DEF Calls
      <3> HIDE DEF r
      <3>5. op'[c] = r
        BY <1>0, <3>1, OneCall
      <3>6. ClientOK(c)'
        BY <1>0, <2>1, <3>4, <3>5 DEF ClientOK
      <3> QED
        BY <1>2, <3>1, <3>6
    <2>3. CASE ~(op[c].left > 1)
      BY <1>3, <1>6, <2>3 DEF SendRefused
    <2> QED
      BY <2>2, <2>3
  <1>7. CASE PollOutputs(c)
    <2>1. [Idle EXCEPT !.do = "poll"].do = "poll"
      BY DEF Idle
    <2> QED
      BY <1>4, <1>7, <2>1 DEF PollOutputs
  <1>8. CASE TakeOutput(c) \/ NothingThere(c)
    <2>1. PICK r : op' = [op EXCEPT ![c] = r] /\ r.do = op[c].do
      <3>1. CASE TakeOutput(c)
        <4> DEFINE r == [op[c] EXCEPT !.got = op[c].got \cup {Head(outputs[op[c].at])},
                                      !.at = IF op[c].at \in Pool THEN 1 ELSE op[c].at]
        <4>1. op' = [op EXCEPT ![c] = r]
          BY <3>1 DEF TakeOutput
        <4>2. r.do = op[c].do
          BY <1>0 DEF Calls
        <4> QED
          BY <4>1, <4>2
      <3>2. CASE NothingThere(c)
        <4> DEFINE r == [op[c] EXCEPT !.at = op[c].at + 1]
        <4>1. op' = [op EXCEPT ![c] = r]
          BY <3>2 DEF NothingThere
        <4>2. r.do = op[c].do
          BY <1>0 DEF Calls
        <4> QED
          BY <4>1, <4>2
      <3> QED
        BY <1>8, <3>1, <3>2
    <2>2. op[c].do \in {"poll", "wait"}
      BY <1>8 DEF TakeOutput, NothingThere, Polling
    <2> QED
      BY <1>4, <2>1, <2>2
  <1>9. CASE \E x \in Tasks : WaitForTask(c, x)
    <2>1. PICK x \in Tasks : WaitForTask(c, x)
      BY <1>9
    <2>2. CASE x \in pending
      BY <2>1, <2>2 DEF WaitForTask, CallOK, ClientOK
    <2>3. CASE x \notin pending
      <3>1. [Idle EXCEPT !.do = "wait", !.task = x].do = "wait"
        BY DEF Idle
      <3> QED
        BY <1>4, <2>1, <2>3, <3>1 DEF WaitForTask
    <2> QED
      BY <2>2, <2>3
  <1>10. CASE WaitGathers(c)
    <2>1. \/ op' = [op EXCEPT ![c] = Idle]
          \/ op' = [op EXCEPT ![c] = [op[c] EXCEPT !.at = 1, !.got = {}]]
      BY <1>10 DEF WaitGathers
    <2>2. [op[c] EXCEPT !.at = 1, !.got = {}].do = "wait"
      BY <1>0, <1>10 DEF WaitGathers, Calls
    <2> QED
      BY <1>3, <1>4, <2>1, <2>2
  <1>11. CASE SendTask(c) \/ PollFails(c) \/ PollReturns(c) \/ WaitTimesOut(c)
    BY <1>3, <1>11 DEF SendTask, PollFails, PollReturns, WaitTimesOut
  <1> QED
    BY <1>5, <1>6, <1>7, <1>8, <1>9, <1>10, <1>11 DEF Call, Serve

LEMMA CallStep ==
    ASSUME TypeOK, CallOK, Next
    PROVE  CallOK'
  <1> USE DEF threadVars, clientVars
  <1>1. ASSUME op' = op, submitted' = submitted PROVE CallOK'
    BY <1>1 DEF CallOK, ClientOK
  <1>2. CASE Shutdown
    BY <1>1, <1>2 DEF Shutdown
  <1>3. ASSUME NEW t \in Threads, Work(t) \/ LoopPanics(t) PROVE CallOK'
    BY <1>1, <1>3 DEF Work, CreateRenderer, Receive, Drain, Pop, SendOutput, Stop, LoopPanics
  <1> QED
    BY <1>2, <1>3, CallsStep DEF Next

LEMMA ThreadsStep ==
    ASSUME TypeOK, ThreadsOK, ChannelsOK, Next
    PROVE  ThreadsOK'
  <1> USE DEF threadVars, clientVars
  <1>1. ASSUME UNCHANGED threadVars PROVE ThreadsOK'
    BY <1>1 DEF ThreadsOK
  <1>2. ASSUME NEW c \in Clients, Call(c) \/ Serve(c) \/ WaitTimesOut(c) PROVE ThreadsOK'
    <2>1. UNCHANGED threadVars
      BY <1>2 DEF Call, Serve, SubmitTask, SendTask, SendRefused, PollOutputs, TakeOutput, NothingThere,
           PollFails, PollReturns, WaitForTask, WaitGathers, WaitTimesOut
    <2> QED
      BY <1>1, <2>1
  <1>3. ASSUME NEW t \in Threads, Work(t) \/ LoopPanics(t) PROVE ThreadsOK'
    <2>1. CASE CreateRenderer(t)
      BY <2>1 DEF CreateRenderer, ThreadsOK, TypeOK
    <2>2. CASE Receive(t)
      <3>1. Head(channel[t]) \in Tasks
        BY <2>2, Taken DEF Receive, ChannelsOK, TypeOK
      <3>2. Head(channel[t]) # NoTask
        BY <3>1, NoTaskIsNone
      <3>3. CASE t \in Pool
        BY <2>2, <3>3 DEF Receive, ThreadsOK, TypeOK
      <3>4. CASE t \notin Pool
        <4>1. /\ pc' = [pc EXCEPT ![t] = "render"]
              /\ current' = [current EXCEPT ![t] = Head(channel[t])]
              /\ heap' = heap /\ panics' = panics
              /\ pc[t] = "receive"
          BY <2>2, <3>4 DEF Receive
        <4> QED
          BY <3>2, <4>1 DEF ThreadsOK, TypeOK
      <3> QED
        BY <3>3, <3>4
    <2>3. CASE Drain(t)
      BY <2>3 DEF Drain, ThreadsOK, TypeOK
    <2>4. CASE Pop(t)
      <3>1. PICK x \in heap[t] : /\ heap' = [heap EXCEPT ![t] = @ \ {x}]
                                 /\ current' = [current EXCEPT ![t] = x]
        BY <2>4 DEF Pop
      <3>2. x # NoTask
        BY NoTaskIsNone DEF TypeOK
      <3>3. pc' = [pc EXCEPT ![t] = "render"] /\ panics' = panics
        BY <2>4 DEF Pop
      <3> QED
        BY <3>1, <3>2, <3>3 DEF ThreadsOK, TypeOK
    <2>5. CASE SendOutput(t)
      BY <2>5 DEF SendOutput, ThreadsOK, TypeOK
    <2>6. CASE Stop(t)
      BY <2>6 DEF Stop, ThreadsOK, TypeOK
    <2>7. CASE LoopPanics(t)
      <3>1. CASE panics[t] + 1 >= MaxRespawns
        BY <2>7, <3>1 DEF LoopPanics, ThreadsOK, TypeOK
      <3>2. CASE ~(panics[t] + 1 >= MaxRespawns)
        <4>1. panics[t] + 1 < MaxRespawns
          BY <3>2, Constants DEF TypeOK
        <4> QED
          BY <2>7, <3>2, <4>1 DEF LoopPanics, ThreadsOK, TypeOK
      <3> QED
        BY <3>1, <3>2
    <2> QED
      BY <1>3, <2>1, <2>2, <2>3, <2>4, <2>5, <2>6, <2>7 DEF Work
  <1>4. CASE Shutdown
    BY <1>1, <1>4 DEF Shutdown
  <1> QED
    BY <1>2, <1>3, <1>4 DEF Next

-----------------------------------------------------------------------------
(* One place for every task. *)

LEMMA InOnePlace ==
    ASSUME Placed, NEW x \in Tasks, NEW k, NEW t, At(x, k, t)
    PROVE  \A j, u : At(x, j, u) <=> (j = k /\ u = t)
  <1>1. Sole(x)
    BY DEF Placed, Nowhere
  <1> QED
    BY <1>1 DEF Sole

(* A step that leaves some tasks where they are and gives each of the      *)
(* others one new place keeps every task in one place.                     *)
LEMMA Carried ==
    ASSUME Placed, submitted' = submitted,
           \A x \in Tasks :
              \/ \A j, u : At(x, j, u)' <=> At(x, j, u)
              \/ /\ \E j, u : At(x, j, u)
                 /\ \E k, t : \A j, u : At(x, j, u)' <=> (j = k /\ u = t)
    PROVE  Placed'
  <1> SUFFICES ASSUME NEW x \in Tasks
               PROVE  (IF x <= submitted THEN Sole(x) ELSE Nowhere(x))'
    BY DEF Placed
  <1>1. IF x <= submitted THEN Sole(x) ELSE Nowhere(x)
    BY DEF Placed
  <1>2. CASE \A j, u : At(x, j, u)' <=> At(x, j, u)
    <2>1. CASE x <= submitted
      <3>1. PICK k, t : \A j, u : At(x, j, u) <=> (j = k /\ u = t)
        BY <1>1, <2>1 DEF Sole
      <3>2. \A j, u : At(x, j, u)' <=> (j = k /\ u = t)
        BY <1>2, <3>1
      <3> QED
        BY <2>1, <3>2 DEF Sole
    <2>2. CASE ~(x <= submitted)
      BY <1>1, <1>2, <2>2 DEF Nowhere
    <2> QED
      BY <2>1, <2>2
  <1>3. CASE /\ \E j, u : At(x, j, u)
             /\ \E k, t : \A j, u : At(x, j, u)' <=> (j = k /\ u = t)
    <2>1. x <= submitted
      BY <1>1, <1>3 DEF Nowhere
    <2>2. Sole(x)'
      BY <1>3 DEF Sole
    <2> QED
      BY <2>1, <2>2
  <1> QED
    BY <1>2, <1>3

LEMMA Moved ==
    ASSUME Placed, submitted' = submitted,
           NEW y \in Tasks, NEW k, NEW t, At(y, k, t), NEW l, NEW v,
           \A x \in Tasks : x # y => \A j, u : At(x, j, u)' <=> At(x, j, u),
           \A x \in Tasks : x = y => \A j, u : At(x, j, u)' <=> (j = l /\ u = v)
    PROVE  Placed'
  <1>1. \A x \in Tasks :
              \/ \A j, u : At(x, j, u)' <=> At(x, j, u)
              \/ /\ \E j, u : At(x, j, u)
                 /\ \E m, n : \A j, u : At(x, j, u)' <=> (j = m /\ u = n)
    <2> TAKE x \in Tasks
    <2>1. CASE x = y
      <3>1. At(x, k, t)
        BY <2>1
      <3>2. \A j, u : At(x, j, u)' <=> (j = l /\ u = v)
        BY <2>1
      <3>3. \E m, n : \A j, u : At(x, j, u)' <=> (j = m /\ u = n)
        <4> WITNESS l, v
        <4> QED
          BY <3>2
      <3> QED
        BY <3>1, <3>3
    <2>2. CASE x # y
      BY <2>2
    <2> QED
      BY <2>1, <2>2
  <1> QED
    BY <1>1, Carried

LEMMA PlacedCalls ==
    ASSUME IInv, NEW c \in Clients, SubmitTask(c) \/ SendTask(c) \/ SendRefused(c)
    PROVE  Placed' /\ ChannelsOK'
  <1> USE DEF threadVars
  <1>0. Placed /\ TypeOK /\ CallOK /\ ChannelsOK /\ op \in [Clients -> Calls]
    BY DEF IInv, TypeOK
  <1>1. CASE SubmitTask(c)
    <2>1. PICK y \in Tasks : y = submitted + 1
      BY <1>0, <1>1, Constants DEF SubmitTask, TypeOK, Tasks
    <2>2. /\ op'[c].do = "submit" /\ op'[c].task = y /\ op'[c].got = {}
          /\ op[c].do = "idle" /\ op[c].got = {}
          /\ \A d \in Clients : d # c => op'[d] = op[d]
          /\ UNCHANGED <<channel, heap, current, outputs, pending, answered, lost>>
      BY <1>0, <1>1, <2>1 DEF SubmitTask, Idle, CallOK, ClientOK
    <2>3. \A x \in Tasks : x # y => \A j, u : At(x, j, u)' <=> At(x, j, u)
      BY <2>2 DEF At
    <2>4. submitted \in Nat /\ submitted' = y
      BY <1>0, <1>1, <2>1, Constants DEF TypeOK, SubmitTask
    <2>5. Nowhere(y)
      BY <1>0, <2>1, <2>4 DEF Placed
    <2>6. \A j, u : At(y, j, u)' <=> (j = "call" /\ u = c)
      BY <2>2, <2>5 DEF At, Nowhere
    <2>7. Placed'
      <3> SUFFICES ASSUME NEW x \in Tasks
                   PROVE  (IF x <= submitted THEN Sole(x) ELSE Nowhere(x))'
        BY DEF Placed
      <3>1. CASE x = y
        BY <2>4, <2>6, <3>1 DEF Sole, Tasks
      <3>2. CASE x # y
        <4>1. x <= submitted' <=> x <= submitted
          BY <2>1, <2>4, <3>2 DEF Tasks
        <4>2. \A j, u : At(x, j, u)' <=> At(x, j, u)
          BY <2>3, <3>2
        <4>3. IF x <= submitted THEN Sole(x) ELSE Nowhere(x)
          BY <1>0 DEF Placed
        <4>4. ASSUME Sole(x) PROVE Sole(x)'
          <5>1. PICK k, t : \A j, u : At(x, j, u) <=> (j = k /\ u = t)
            BY <4>4 DEF Sole
          <5>2. \A j, u : At(x, j, u)' <=> (j = k /\ u = t)
            BY <4>2, <5>1
          <5> QED
            BY <5>2 DEF Sole
        <4>5. Nowhere(x) => Nowhere(x)'
          BY <4>2 DEF Nowhere
        <4> QED
          BY <4>1, <4>3, <4>4, <4>5
      <3> QED
        BY <3>1, <3>2
    <2> QED
      BY <1>0, <2>2, <2>7 DEF ChannelsOK
  <1>2. CASE SendTask(c)
    <2>1. PICK a \in Threads, y \in Tasks : a = op[c].at /\ y = op[c].task
      BY <1>0, <1>2 DEF SendTask, CallOK, ClientOK
    <2>2. /\ op[c].do = "submit" /\ op[c].got = {} /\ op'[c].do = "idle" /\ op'[c].got = {}
          /\ \A d \in Clients : d # c => op'[d] = op[d]
          /\ channel' = [channel EXCEPT ![a] = Append(channel[a], y)]
          /\ Len(channel[a]) < Capacity
          /\ UNCHANGED <<submitted, heap, current, outputs, pending, answered, lost>>
      BY <1>0, <1>2, <2>1 DEF SendTask, Idle, CallOK, ClientOK
    <2>3. At(y, "call", c)
      BY <2>1, <2>2 DEF At
    <2>4. \A j, u : At(y, j, u) <=> (j = "call" /\ u = c)
      BY <1>0, <2>3, InOnePlace
    <2>5. channel[a] \in Queues /\ Distinct(channel[a]) /\ y \notin Elements(channel[a])
      <3>1. ~At(y, "channel", a)
        BY <2>4
      <3> QED
        BY <1>0, <3>1 DEF TypeOK, ChannelsOK, At
    <2>6. /\ Elements(Append(channel[a], y)) = Elements(channel[a]) \cup {y}
          /\ Distinct(Append(channel[a], y))
      BY <2>2, <2>5, Added
    <2>7. /\ \A t \in Threads : t # a => channel'[t] = channel[t]
          /\ channel'[a] = Append(channel[a], y)
      BY <1>0, <2>2 DEF TypeOK
    <2>8. \A x \in Tasks : x # y => \A j, u : At(x, j, u)' <=> At(x, j, u)
      BY <2>1, <2>2, <2>6, <2>7 DEF At
    <2>9. \A x \in Tasks : x = y => \A j, u : At(x, j, u)' <=> (j = "channel" /\ u = a)
      <3>1. /\ \A u \in Threads : /\ y \notin Elements(channel[u]) /\ y \notin heap[u]
                                  /\ y # current[u] /\ y \notin Elements(outputs[u])
            /\ \A d \in Clients : d # c => ~(op[d].do = "submit" /\ y = op[d].task)
            /\ \A d \in Clients : y \notin op[d].got
            /\ y \notin pending /\ y \notin answered /\ y \notin lost
        BY <2>4 DEF At
      <3>2. \A u \in Threads : y \in Elements(channel'[u]) <=> u = a
        BY <2>6, <2>7, <3>1
      <3> QED
        BY <2>1, <2>2, <3>1, <3>2 DEF At
    <2>10. Placed'
      <3>1. submitted' = submitted
        BY <2>2
      <3> QED
        BY <1>0, <2>3, <2>8, <2>9, <3>1, Moved
    <2>11. ChannelsOK'
      BY <1>0, <2>2, <2>6, <2>7 DEF ChannelsOK
    <2> QED
      BY <2>10, <2>11
  <1>3. CASE SendRefused(c)
    <2>0. /\ op[c] \in Calls /\ op[c].do = "submit" /\ op[c].got = {}
          /\ UNCHANGED <<submitted, channel, heap, current, outputs, pending, lost>>
      BY <1>0, <1>3 DEF SendRefused, CallOK, ClientOK, TypeOK
    <2>1. CASE op[c].left > 1
      <3>0. /\ op' = [op EXCEPT ![c] = [op[c] EXCEPT !.at = (@ % PoolSize) + 1, !.left = @ - 1]]
            /\ answered' = answered
            /\ op \in [Clients -> Calls]
        BY <1>0, <1>3, <2>1 DEF SendRefused, TypeOK
      <3>1. /\ op'[c].do = op[c].do /\ op'[c].task = op[c].task /\ op'[c].got = op[c].got
            /\ \A d \in Clients : d # c => op'[d] = op[d]
            /\ answered' = answered
        BY <2>0, <3>0 DEF Calls
      <3>2. \A x \in Tasks : \A j, u : At(x, j, u)' <=> At(x, j, u)
        BY <2>0, <3>1 DEF At
      <3> QED
        BY <1>0, <2>0, <3>2, Carried DEF ChannelsOK
    <2>2. CASE ~(op[c].left > 1)
      <3>1. PICK y \in Tasks : y = op[c].task
        BY <1>0, <2>0 DEF CallOK, ClientOK
      <3>2. /\ op'[c].do = "idle" /\ op'[c].got = {} /\ answered' = answered \cup {y}
            /\ \A d \in Clients : d # c => op'[d] = op[d]
        BY <1>0, <1>3, <2>2, <3>1 DEF SendRefused, Idle
      <3>3. At(y, "call", c)
        BY <2>0, <3>1 DEF At
      <3>4. \A j, u : At(y, j, u) <=> (j = "call" /\ u = c)
        BY <1>0, <3>3, InOnePlace
      <3>5. \A x \in Tasks : x # y => \A j, u : At(x, j, u)' <=> At(x, j, u)
        BY <2>0, <3>1, <3>2 DEF At
      <3>6. \A x \in Tasks : x = y => \A j, u : At(x, j, u)' <=> (j = "answered" /\ u = 0)
        BY <2>0, <3>1, <3>2, <3>4 DEF At
      <3>7. Placed'
        BY <1>0, <2>0, <3>3, <3>5, <3>6, Moved
      <3> QED
        BY <1>0, <2>0, <3>7 DEF ChannelsOK
    <2> QED
      BY <2>1, <2>2
  <1> QED
    BY <1>1, <1>2, <1>3

(* What a poll has collected is nowhere else. *)
LEMMA CollectedOnly ==
    ASSUME Placed, NEW c \in Clients, NEW x \in Tasks, x \in op[c].got
    PROVE  /\ \A u \in Threads : /\ x \notin Elements(channel[u]) /\ x \notin heap[u]
                                 /\ x # current[u] /\ x \notin Elements(outputs[u])
           /\ \A d \in Clients : d # c => x \notin op[d].got
           /\ \A d \in Clients : op[d].do = "submit" => x # op[d].task
           /\ x \notin pending /\ x \notin answered /\ x \notin lost
  <1>1. At(x, "got", c)
    BY DEF At
  <1>2. \A j, u : At(x, j, u) <=> (j = "got" /\ u = c)
    BY <1>1, InOnePlace
  <1> QED
    BY <1>2 DEF At

LEMMA PlacedPolls ==
    ASSUME IInv, NEW c \in Clients,
           \/ PollOutputs(c) \/ TakeOutput(c) \/ NothingThere(c)
           \/ PollFails(c) \/ PollReturns(c) \/ WaitTimesOut(c)
    PROVE  Placed' /\ ChannelsOK'
  <1> USE DEF threadVars
  <1>0. /\ Placed /\ TypeOK /\ CallOK /\ ChannelsOK
        /\ op \in [Clients -> Calls] /\ op[c] \in Calls
    BY DEF IInv, TypeOK
  <1>1. CASE PollOutputs(c) \/ NothingThere(c) \/ WaitTimesOut(c)
    <2>1. /\ op[c].do # "submit" /\ op'[c].do # "submit" /\ op'[c].got = op[c].got
          /\ \A d \in Clients : d # c => op'[d] = op[d]
          /\ UNCHANGED <<submitted, channel, heap, current, outputs, pending, answered, lost>>
      <3>1. CASE PollOutputs(c)
        BY <1>0, <3>1 DEF PollOutputs, Idle, CallOK, ClientOK
      <3>2. CASE NothingThere(c)
        BY <1>0, <3>2 DEF NothingThere, Polling, Calls
      <3>3. CASE WaitTimesOut(c)
        BY <1>0, <3>3 DEF WaitTimesOut, Idle
      <3> QED
        BY <1>1, <3>1, <3>2, <3>3
    <2>2. \A x \in Tasks : \A j, u : At(x, j, u)' <=> At(x, j, u)
      BY <2>1 DEF At
    <2>3. submitted' = submitted
      BY <2>1
    <2>4. Placed'
      BY <1>0, <2>2, <2>3, Carried
    <2> QED
      BY <1>0, <2>1, <2>4 DEF ChannelsOK
  <1>2. CASE TakeOutput(c)
    <2>1. PICK a \in Threads : a = op[c].at
      BY <1>2 DEF TakeOutput
    <2>2. outputs[a] \in Queues /\ Distinct(outputs[a]) /\ outputs[a] # << >>
      BY <1>0, <1>2, <2>1 DEF TakeOutput, TypeOK, ChannelsOK
    <2>3. PICK y \in Tasks : y = Head(outputs[a])
      BY <2>2, Taken
    <2>4. /\ y \in Elements(outputs[a])
          /\ Elements(Tail(outputs[a])) = Elements(outputs[a]) \ {y}
          /\ Distinct(Tail(outputs[a]))
      BY <2>2, <2>3, Taken
    <2>5. /\ op[c].do # "submit" /\ op'[c].do = op[c].do /\ op'[c].got = op[c].got \cup {y}
          /\ \A d \in Clients : d # c => op'[d] = op[d]
          /\ UNCHANGED <<submitted, channel, heap, current, pending, answered, lost>>
      BY <1>0, <1>2, <2>1, <2>3 DEF TakeOutput, Polling, Calls
    <2>6. /\ \A t \in Threads : t # a => outputs'[t] = outputs[t]
          /\ outputs'[a] = Tail(outputs[a])
      BY <1>0, <1>2, <2>1 DEF TakeOutput, TypeOK
    <2>7. At(y, "outputs", a)
      BY <2>4 DEF At
    <2>8. \A j, u : At(y, j, u) <=> (j = "outputs" /\ u = a)
      BY <1>0, <2>7, InOnePlace
    <2>9. /\ \A u \in Threads : y \notin Elements(channel[u]) /\ y \notin heap[u] /\ y # current[u]
          /\ \A d \in Clients : y \notin op[d].got /\ (op[d].do = "submit" => y # op[d].task)
          /\ \A u \in Threads : u # a => y \notin Elements(outputs[u])
          /\ y \notin pending /\ y \notin answered /\ y \notin lost
      BY <2>8 DEF At
    <2>10. \A x \in Tasks : x # y => \A j, u : At(x, j, u)' <=> At(x, j, u)
      BY <2>4, <2>5, <2>6 DEF At
    <2>11. \A x \in Tasks : x = y => \A j, u : At(x, j, u)' <=> (j = "got" /\ u = c)
      <3>1. \A u \in Threads : y \notin Elements(outputs'[u])
        BY <2>4, <2>6, <2>9
      <3> QED
        BY <2>5, <2>9, <3>1 DEF At
    <2>12. Placed'
      <3>1. submitted' = submitted
        BY <2>5
      <3> QED
        BY <1>0, <2>7, <2>10, <2>11, <3>1, Moved
    <2> QED
      BY <1>0, <2>4, <2>5, <2>6, <2>12 DEF ChannelsOK
  <1>3. ASSUME op[c].do # "submit", NEW k \in {"answered", "lost"},
               \A x \in Tasks : x \notin op[c].got => \A j, u : At(x, j, u)' <=> At(x, j, u),
               \A x \in Tasks : x \in op[c].got => \A j, u : At(x, j, u)' <=> (j = k /\ u = 0),
               submitted' = submitted
        PROVE  Placed'
    <2>1. \A x \in Tasks :
              \/ \A j, u : At(x, j, u)' <=> At(x, j, u)
              \/ /\ \E j, u : At(x, j, u)
                 /\ \E m, n : \A j, u : At(x, j, u)' <=> (j = m /\ u = n)
      <3> TAKE x \in Tasks
      <3>1. CASE x \in op[c].got
        <4>1. At(x, "got", c)
          BY <3>1 DEF At
        <4>2. \A j, u : At(x, j, u)' <=> (j = k /\ u = 0)
          BY <1>3, <3>1
        <4>3. \E m, n : \A j, u : At(x, j, u)' <=> (j = m /\ u = n)
          <5> WITNESS k, 0
          <5> QED
            BY <4>2
        <4> QED
          BY <4>1, <4>3
      <3>2. CASE x \notin op[c].got
        BY <1>3, <3>2
      <3> QED
        BY <3>1, <3>2
    <2> QED
      BY <1>0, <1>3, <2>1, Carried
  <1>4. \A x \in Tasks : x \in op[c].got =>
           /\ \A u \in Threads : /\ x \notin Elements(channel[u]) /\ x \notin heap[u]
                                 /\ x # current[u] /\ x \notin Elements(outputs[u])
           /\ \A d \in Clients : d # c => x \notin op[d].got
           /\ \A d \in Clients : op[d].do = "submit" => x # op[d].task
           /\ x \notin pending /\ x \notin answered /\ x \notin lost
    BY <1>0, CollectedOnly
  <1>5. CASE PollFails(c)
    <2>1. /\ op[c].do # "submit" /\ op'[c].do = "idle" /\ op'[c].got = {}
          /\ \A d \in Clients : d # c => op'[d] = op[d]
          /\ lost' = lost \cup op[c].got
          /\ UNCHANGED <<submitted, channel, heap, current, outputs, pending, answered>>
      BY <1>0, <1>5 DEF PollFails, Polling, Idle
    <2>2. \A x \in Tasks : x \notin op[c].got => \A j, u : At(x, j, u)' <=> At(x, j, u)
      BY <2>1 DEF At
    <2>3. \A x \in Tasks : x \in op[c].got => \A j, u : At(x, j, u)' <=> (j = "lost" /\ u = 0)
      BY <1>4, <2>1 DEF At
    <2>4. Placed'
      BY <1>3, <2>1, <2>2, <2>3
    <2> QED
      BY <1>0, <2>1, <2>4 DEF ChannelsOK
  <1>6. CASE PollReturns(c)
    <2>1. /\ op[c].do # "submit" /\ op'[c].do = "idle" /\ op'[c].got = {}
          /\ \A d \in Clients : d # c => op'[d] = op[d]
          /\ answered' = answered \cup op[c].got
          /\ UNCHANGED <<submitted, channel, heap, current, outputs, pending, lost>>
      BY <1>0, <1>6 DEF PollReturns, Idle
    <2>2. \A x \in Tasks : x \notin op[c].got => \A j, u : At(x, j, u)' <=> At(x, j, u)
      BY <2>1 DEF At
    <2>3. \A x \in Tasks : x \in op[c].got => \A j, u : At(x, j, u)' <=> (j = "answered" /\ u = 0)
      BY <1>4, <2>1 DEF At
    <2>4. Placed'
      BY <1>3, <2>1, <2>2, <2>3
    <2> QED
      BY <1>0, <2>1, <2>4 DEF ChannelsOK
  <1> QED
    BY <1>1, <1>2, <1>5, <1>6

LEMMA PlacedGathers ==
    ASSUME IInv, NEW c \in Clients, WaitGathers(c)
    PROVE  Placed' /\ ChannelsOK'
  <1> USE DEF threadVars
  <1>0. Placed /\ TypeOK /\ ChannelsOK /\ op \in [Clients -> Calls] /\ op[c] \in Calls
    BY DEF IInv, TypeOK
  <1>1. /\ op[c].do = "wait" /\ op'[c].do # "submit" /\ op'[c].got = {}
        /\ \A d \in Clients : d # c => op'[d] = op[d]
        /\ UNCHANGED <<submitted, channel, heap, current, outputs>>
    BY <1>0 DEF WaitGathers, Idle, Calls
  <1>2. PICK k \in {"pending", "lost"} :
           /\ pending' = IF k = "pending" THEN pending \cup Others(c) ELSE pending
           /\ lost' = IF k = "lost" THEN lost \cup Others(c) ELSE lost
    <2>1. KeepOthers(c)
      BY DEF WaitGathers
    <2> QED
      BY <2>1 DEF KeepOthers
  <1>3. answered' = answered \cup (op[c].got \cap {op[c].task})
    BY DEF WaitGathers
  <1>4. \A x \in Tasks :
            \/ \A j, u : At(x, j, u)' <=> At(x, j, u)
            \/ /\ \E j, u : At(x, j, u)
               /\ \E m, n : \A j, u : At(x, j, u)' <=> (j = m /\ u = n)
    <2> TAKE x \in Tasks
    <2>1. CASE x \notin op[c].got
      <3>1. x \notin Others(c) /\ x \notin op[c].got \cap {op[c].task}
        BY <2>1 DEF Others
      <3>2. (x \in pending' <=> x \in pending) /\ (x \in lost' <=> x \in lost)
              /\ (x \in answered' <=> x \in answered)
        BY <1>2, <1>3, <3>1
      <3> QED
        BY <1>1, <2>1, <3>2 DEF At
    <2>2. CASE x \in op[c].got
      <3>1. At(x, "got", c)
        BY <2>2 DEF At
      <3>2. /\ \A u \in Threads : /\ x \notin Elements(channel[u]) /\ x \notin heap[u]
                                  /\ x # current[u] /\ x \notin Elements(outputs[u])
            /\ \A d \in Clients : d # c => x \notin op[d].got
            /\ \A d \in Clients : op[d].do = "submit" => x # op[d].task
            /\ x \notin pending /\ x \notin answered /\ x \notin lost
        BY <1>0, <2>2, CollectedOnly
      <3>3. \E m, n : \A j, u : At(x, j, u)' <=> (j = m /\ u = n)
        <4>1. CASE x = op[c].task
          <5>1. x \in answered' /\ x \notin pending' /\ x \notin lost'
            BY <1>2, <1>3, <2>2, <3>2, <4>1 DEF Others
          <5>2. \A j, u : At(x, j, u)' <=> (j = "answered" /\ u = 0)
            BY <1>1, <3>2, <5>1 DEF At
          <5> WITNESS "answered", 0
          <5> QED
            BY <5>2
        <4>2. CASE x # op[c].task
          <5>1. x \notin answered' /\ (x \in pending' <=> k = "pending") /\ (x \in lost' <=> k = "lost")
            BY <1>2, <1>3, <2>2, <3>2, <4>2 DEF Others
          <5>2. \A j, u : At(x, j, u)' <=> (j = k /\ u = 0)
            BY <1>1, <1>2, <3>2, <5>1 DEF At
          <5> WITNESS k, 0
          <5> QED
            BY <5>2
        <4> QED
          BY <4>1, <4>2
      <3> QED
        BY <3>1, <3>3
    <2> QED
      BY <2>1, <2>2
  <1>5. submitted' = submitted
    BY <1>1
  <1>6. Placed'
    BY <1>0, <1>4, <1>5, Carried
  <1> QED
    BY <1>0, <1>1, <1>6 DEF ChannelsOK

LEMMA PlacedWaitFor ==
    ASSUME IInv, NEW c \in Clients, NEW y \in Tasks, WaitForTask(c, y)
    PROVE  Placed' /\ ChannelsOK'
  <1> USE DEF threadVars
  <1>0. Placed /\ TypeOK /\ CallOK /\ ChannelsOK /\ op \in [Clients -> Calls]
    BY DEF IInv, TypeOK
  <1>1. /\ op[c].do = "idle" /\ op[c].got = {} /\ op'[c].do # "submit" /\ op'[c].got = {}
        /\ \A d \in Clients : d # c => op'[d] = op[d]
        /\ UNCHANGED <<submitted, channel, heap, current, outputs, lost>>
    BY <1>0 DEF WaitForTask, Idle, CallOK, ClientOK
  <1>2. submitted' = submitted
    BY <1>1
  <1>3. CASE y \notin pending
    <2>1. pending' = pending /\ answered' = answered
      BY <1>3 DEF WaitForTask
    <2>2. \A x \in Tasks : \A j, u : At(x, j, u)' <=> At(x, j, u)
      BY <1>1, <2>1 DEF At
    <2>3. Placed'
      BY <1>0, <1>2, <2>2, Carried
    <2> QED
      BY <1>0, <1>1, <2>3 DEF ChannelsOK
  <1>4. CASE y \in pending
    <2>1. pending' = pending \ {y} /\ answered' = answered \cup {y}
      BY <1>4 DEF WaitForTask
    <2>2. At(y, "pending", 0)
      BY <1>4 DEF At
    <2>3. \A j, u : At(y, j, u) <=> (j = "pending" /\ u = 0)
      BY <1>0, <2>2, InOnePlace
    <2>4. /\ \A u \in Threads : /\ y \notin Elements(channel[u]) /\ y \notin heap[u]
                                /\ y # current[u] /\ y \notin Elements(outputs[u])
          /\ \A d \in Clients : y \notin op[d].got /\ (op[d].do = "submit" => y # op[d].task)
          /\ y \notin answered /\ y \notin lost
      BY <2>3 DEF At
    <2>5. \A x \in Tasks : x # y => \A j, u : At(x, j, u)' <=> At(x, j, u)
      BY <1>1, <2>1 DEF At
    <2>6. \A x \in Tasks : x = y => \A j, u : At(x, j, u)' <=> (j = "answered" /\ u = 0)
      BY <1>1, <2>1, <2>4 DEF At
    <2>7. Placed'
      BY <1>0, <1>2, <2>2, <2>5, <2>6, Moved
    <2> QED
      BY <1>0, <1>1, <2>7 DEF ChannelsOK
  <1> QED
    BY <1>3, <1>4

LEMMA PlacedShutdown ==
    ASSUME IInv, Shutdown
    PROVE  Placed' /\ ChannelsOK'
  <1> USE DEF threadVars
  <1>0. Placed /\ TypeOK /\ CallOK /\ ChannelsOK
    BY DEF IInv
  <1> DEFINE Left == pending \cup UNION {Elements(outputs[t]) : t \in Threads}
  <1>1. /\ UNCHANGED <<op, submitted, channel, heap, current, answered>>
        /\ pending' = {} /\ lost' = lost \cup Left
        /\ \A t \in Threads : Elements(outputs'[t]) = {} /\ Distinct(outputs'[t])
    BY NoQueue DEF Shutdown
  <1>2. \A x : x \in Left <=> (x \in pending \/ \E t \in Threads : x \in Elements(outputs[t]))
    OBVIOUS
  <1> HIDE DEF Left
  <1>3. \A x \in Tasks :
            \/ \A j, u : At(x, j, u)' <=> At(x, j, u)
            \/ /\ \E j, u : At(x, j, u)
               /\ \E m, n : \A j, u : At(x, j, u)' <=> (j = m /\ u = n)
    <2> TAKE x \in Tasks
    <2>1. CASE x \notin Left
      <3>1. x \notin pending /\ \A t \in Threads : x \notin Elements(outputs[t])
        BY <1>2, <2>1
      <3> QED
        BY <1>1, <2>1, <3>1 DEF At
    <2>2. CASE x \in Left
      <3>1. PICK k, t : At(x, k, t) /\ k \in {"pending", "outputs"}
        BY <1>2, <2>2 DEF At
      <3>2. \A j, u : At(x, j, u) <=> (j = k /\ u = t)
        BY <1>0, <3>1, InOnePlace
      <3>3. /\ \A u \in Threads : x \notin Elements(channel[u]) /\ x \notin heap[u] /\ x # current[u]
            /\ x \notin answered
            /\ \A c \in Clients : x \notin op[c].got /\ (op[c].do = "submit" => x # op[c].task)
        BY <3>1, <3>2 DEF At
      <3>4. \A j, u : At(x, j, u)' <=> (j = "lost" /\ u = 0)
        BY <1>1, <2>2, <3>3 DEF At
      <3>5. \E m, n : \A j, u : At(x, j, u)' <=> (j = m /\ u = n)
        <4> WITNESS "lost", 0
        <4> QED
          BY <3>4
      <3> QED
        BY <3>1, <3>5
    <2> QED
      BY <2>1, <2>2
  <1>4. submitted' = submitted
    BY <1>1
  <1>5. Placed'
    BY <1>0, <1>3, <1>4, Carried
  <1> QED
    BY <1>0, <1>1, <1>5 DEF ChannelsOK

LEMMA PlacedReceives ==
    ASSUME IInv, NEW t \in Threads, Receive(t) \/ Drain(t)
    PROVE  Placed' /\ ChannelsOK'
  <1> USE DEF threadVars, clientVars
  <1>0. Placed /\ TypeOK /\ ThreadsOK /\ ChannelsOK
    BY DEF IInv
  <1>1. channel[t] \in Queues /\ Distinct(channel[t]) /\ channel[t] # << >>
    BY <1>0 DEF Receive, Drain, TypeOK, ChannelsOK
  <1>2. PICK y \in Tasks : y = Head(channel[t])
    BY <1>1, Taken
  <1>3. /\ y \in Elements(channel[t])
        /\ Elements(Tail(channel[t])) = Elements(channel[t]) \ {y}
        /\ Distinct(Tail(channel[t]))
    BY <1>1, <1>2, Taken
  <1>4. /\ \A u \in Threads : u # t => channel'[u] = channel[u]
        /\ channel'[t] = Tail(channel[t])
        /\ UNCHANGED <<op, submitted, outputs, pending, answered, lost>>
    BY <1>0 DEF Receive, Drain, TypeOK
  <1>5. At(y, "channel", t)
    BY <1>3 DEF At
  <1>6. \A j, u : At(y, j, u) <=> (j = "channel" /\ u = t)
    BY <1>0, <1>5, InOnePlace
  <1>7. /\ \A u \in Threads : y \notin heap[u] /\ y # current[u] /\ y \notin Elements(outputs[u])
        /\ \A u \in Threads : u # t => y \notin Elements(channel[u])
        /\ y \notin pending /\ y \notin answered /\ y \notin lost
        /\ \A c \in Clients : y \notin op[c].got /\ (op[c].do = "submit" => y # op[c].task)
    BY <1>6 DEF At
  <1>8. \A u \in Threads : y \notin Elements(channel'[u])
    BY <1>3, <1>4, <1>7
  <1>9. submitted' = submitted
    BY <1>4
  <1>10. ChannelsOK'
    BY <1>0, <1>3, <1>4 DEF ChannelsOK
  <1>11. ASSUME heap' = [heap EXCEPT ![t] = heap[t] \cup {y}], current' = current
         PROVE  Placed'
    <2>1. \A x \in Tasks : x # y => \A j, u : At(x, j, u)' <=> At(x, j, u)
      <3>1. \A x \in Tasks : x # y => \A u \in Threads : x \in heap'[u] <=> x \in heap[u]
        BY <1>0, <1>11 DEF TypeOK
      <3>2. \A x \in Tasks : x # y =>
               \A u \in Threads : x \in Elements(channel'[u]) <=> x \in Elements(channel[u])
        BY <1>3, <1>4
      <3> QED
        BY <1>4, <1>11, <3>1, <3>2 DEF At
    <2>2. \A x \in Tasks : x = y => \A j, u : At(x, j, u)' <=> (j = "heap" /\ u = t)
      <3>1. \A u \in Threads : y \in heap'[u] <=> u = t
        BY <1>0, <1>7, <1>11 DEF TypeOK
      <3> QED
        BY <1>4, <1>7, <1>8, <1>11, <3>1 DEF At
    <2> QED
      BY <1>0, <1>5, <1>9, <2>1, <2>2, Moved
  <1>12. CASE Drain(t)
    BY <1>2, <1>10, <1>11, <1>12 DEF Drain
  <1>13. CASE Receive(t)
    <2>1. heap[t] = {} /\ current[t] = NoTask
      BY <1>0, <1>13 DEF Receive, ThreadsOK
    <2>2. CASE t \in Pool
      <3>1. heap' = [heap EXCEPT ![t] = heap[t] \cup {y}] /\ current' = current
        BY <1>2, <1>13, <2>1, <2>2 DEF Receive
      <3> QED
        BY <1>10, <1>11, <3>1
    <2>3. CASE t \notin Pool
      <3>1. heap' = heap /\ current' = [current EXCEPT ![t] = y]
        BY <1>2, <1>13, <2>3 DEF Receive
      <3>2. /\ \A u \in Threads : u # t => current'[u] = current[u]
            /\ current'[t] = y
        BY <1>0, <3>1 DEF TypeOK
      <3>3. \A x \in Tasks : x # y => \A u \in Threads : x = current'[u] <=> x = current[u]
        BY <2>1, <3>2, NoTaskIsNone
      <3>4. \A x \in Tasks : x # y => \A j, u : At(x, j, u)' <=> At(x, j, u)
        <4>1. \A x \in Tasks : x # y =>
                 \A u \in Threads : x \in Elements(channel'[u]) <=> x \in Elements(channel[u])
          BY <1>3, <1>4
        <4> QED
          BY <1>4, <3>1, <3>3, <4>1 DEF At
      <3>5. \A x \in Tasks : x = y => \A j, u : At(x, j, u)' <=> (j = "hands" /\ u = t)
        <4>1. \A u \in Threads : y = current'[u] <=> u = t
          BY <1>7, <3>2
        <4> QED
          BY <1>4, <1>7, <1>8, <3>1, <4>1 DEF At
      <3>6. Placed'
        BY <1>0, <1>5, <1>9, <3>4, <3>5, Moved
      <3> QED
        BY <1>10, <3>6
    <2> QED
      BY <2>2, <2>3
  <1> QED
    BY <1>12, <1>13

LEMMA PlacedPop ==
    ASSUME IInv, NEW t \in Threads, Pop(t)
    PROVE  Placed' /\ ChannelsOK'
  <1> USE DEF threadVars, clientVars
  <1>0. Placed /\ TypeOK /\ ThreadsOK /\ ChannelsOK
    BY DEF IInv
  <1>1. PICK y \in heap[t] : /\ heap' = [heap EXCEPT ![t] = @ \ {y}]
                             /\ current' = [current EXCEPT ![t] = y]
    BY DEF Pop
  <1>2. y \in Tasks /\ current[t] = NoTask
    BY <1>0 DEF Pop, ThreadsOK, TypeOK
  <1>3. UNCHANGED <<op, submitted, channel, outputs, pending, answered, lost>>
    BY DEF Pop
  <1>4. /\ \A u \in Threads : u # t => heap'[u] = heap[u] /\ current'[u] = current[u]
        /\ heap'[t] = heap[t] \ {y} /\ current'[t] = y
    BY <1>0, <1>1 DEF TypeOK
  <1>5. At(y, "heap", t)
    BY DEF At
  <1>6. \A j, u : At(y, j, u) <=> (j = "heap" /\ u = t)
    BY <1>0, <1>2, <1>5, InOnePlace
  <1>7. /\ \A u \in Threads : y \notin Elements(channel[u]) /\ y # current[u] /\ y \notin Elements(outputs[u])
        /\ \A u \in Threads : u # t => y \notin heap[u]
        /\ y \notin pending /\ y \notin answered /\ y \notin lost
        /\ \A c \in Clients : y \notin op[c].got /\ (op[c].do = "submit" => y # op[c].task)
    BY <1>6 DEF At
  <1>8. \A x \in Tasks : x # y => \A j, u : At(x, j, u)' <=> At(x, j, u)
    <2>1. \A x \in Tasks : x # y =>
             \A u \in Threads : (x = current'[u] <=> x = current[u]) /\ (x \in heap'[u] <=> x \in heap[u])
      BY <1>2, <1>4, NoTaskIsNone
    <2> QED
      BY <1>3, <2>1 DEF At
  <1>9. \A x \in Tasks : x = y => \A j, u : At(x, j, u)' <=> (j = "hands" /\ u = t)
    <2>1. \A u \in Threads : (y = current'[u] <=> u = t) /\ y \notin heap'[u]
      BY <1>4, <1>7
    <2> QED
      BY <1>3, <1>7, <2>1 DEF At
  <1>10. submitted' = submitted
    BY <1>3
  <1>11. Placed'
    BY <1>0, <1>2, <1>5, <1>8, <1>9, <1>10, Moved
  <1> QED
    BY <1>0, <1>3, <1>11 DEF ChannelsOK

LEMMA PlacedSends ==
    ASSUME IInv, NEW t \in Threads, SendOutput(t)
    PROVE  Placed' /\ ChannelsOK'
  <1> USE DEF threadVars, clientVars
  <1>0. Placed /\ TypeOK /\ ThreadsOK /\ ChannelsOK
    BY DEF IInv
  <1>1. PICK y \in Tasks : y = current[t]
    BY <1>0 DEF SendOutput, ThreadsOK, TypeOK
  <1>2. /\ UNCHANGED <<op, submitted, channel, heap, pending, answered>>
        /\ \A u \in Threads : u # t => current'[u] = current[u]
        /\ current'[t] = NoTask
    BY <1>0 DEF SendOutput, TypeOK
  <1>3. At(y, "hands", t)
    BY <1>1 DEF At
  <1>4. \A j, u : At(y, j, u) <=> (j = "hands" /\ u = t)
    BY <1>0, <1>3, InOnePlace
  <1>5. /\ \A u \in Threads : y \notin Elements(channel[u]) /\ y \notin heap[u] /\ y \notin Elements(outputs[u])
        /\ \A u \in Threads : u # t => y # current[u]
        /\ y \notin pending /\ y \notin answered /\ y \notin lost
        /\ \A c \in Clients : y \notin op[c].got /\ (op[c].do = "submit" => y # op[c].task)
    BY <1>4 DEF At
  <1>6. /\ \A x \in Tasks : x # y => \A u \in Threads : x = current'[u] <=> x = current[u]
        /\ \A u \in Threads : y # current'[u]
    BY <1>1, <1>2, <1>5, NoTaskIsNone
  <1>7. submitted' = submitted
    BY <1>2
  <1>8. CASE running
    <2>1. outputs[t] \in Queues /\ Distinct(outputs[t]) /\ Len(outputs[t]) < Capacity
      BY <1>0, <1>8 DEF SendOutput, TypeOK, ChannelsOK
    <2>2. /\ Elements(Append(outputs[t], y)) = Elements(outputs[t]) \cup {y}
          /\ Distinct(Append(outputs[t], y))
      BY <1>5, <2>1, Added
    <2>3. /\ \A u \in Threads : u # t => outputs'[u] = outputs[u]
          /\ outputs'[t] = Append(outputs[t], y)
          /\ lost' = lost
      BY <1>0, <1>1, <1>8 DEF SendOutput, TypeOK
    <2>4. \A x \in Tasks : x # y => \A j, u : At(x, j, u)' <=> At(x, j, u)
      <3>1. \A x \in Tasks : x # y =>
               \A u \in Threads : x \in Elements(outputs'[u]) <=> x \in Elements(outputs[u])
        BY <2>2, <2>3
      <3> QED
        BY <1>2, <1>6, <2>3, <3>1 DEF At
    <2>5. \A x \in Tasks : x = y => \A j, u : At(x, j, u)' <=> (j = "outputs" /\ u = t)
      <3>1. \A u \in Threads : y \in Elements(outputs'[u]) <=> u = t
        BY <1>5, <2>2, <2>3
      <3> QED
        BY <1>2, <1>5, <1>6, <2>3, <3>1 DEF At
    <2>6. Placed'
      BY <1>0, <1>3, <1>7, <2>4, <2>5, Moved
    <2> QED
      BY <1>0, <1>2, <2>2, <2>3, <2>6 DEF ChannelsOK
  <1>9. CASE ~running
    <2>1. lost' = lost \cup {y} /\ outputs' = outputs
      BY <1>1, <1>9 DEF SendOutput
    <2>2. \A x \in Tasks : x # y => \A j, u : At(x, j, u)' <=> At(x, j, u)
      BY <1>2, <1>6, <2>1 DEF At
    <2>3. \A x \in Tasks : x = y => \A j, u : At(x, j, u)' <=> (j = "lost" /\ u = 0)
      BY <1>2, <1>5, <1>6, <2>1 DEF At
    <2>4. Placed'
      BY <1>0, <1>3, <1>7, <2>2, <2>3, Moved
    <2> QED
      BY <1>0, <1>2, <2>1, <2>4 DEF ChannelsOK
  <1> QED
    BY <1>8, <1>9

LEMMA PlacedRest ==
    ASSUME IInv, NEW t \in Threads, CreateRenderer(t) \/ Stop(t) \/ LoopPanics(t)
    PROVE  Placed' /\ ChannelsOK'
  <1> USE DEF threadVars, clientVars
  <1>0. Placed /\ TypeOK /\ ChannelsOK
    BY DEF IInv
  <1>1. UNCHANGED <<op, submitted, heap, current, outputs, pending, answered>>
    BY DEF CreateRenderer, Stop, LoopPanics
  <1>2. submitted' = submitted
    BY <1>1
  <1>3. CASE channel' = channel /\ lost' = lost
    <2>1. \A x \in Tasks : \A j, u : At(x, j, u)' <=> At(x, j, u)
      BY <1>1, <1>3 DEF At
    <2>2. Placed'
      BY <1>0, <1>2, <2>1, Carried
    <2> QED
      BY <1>0, <1>1, <1>3, <2>2 DEF ChannelsOK
  <1>4. CASE ~(channel' = channel /\ lost' = lost)
    <2>1. /\ channel' = [channel EXCEPT ![t] = << >>]
          /\ lost' = lost \cup Elements(channel[t])
      BY <1>4 DEF CreateRenderer, Stop, LoopPanics
    <2>2. /\ \A u \in Threads : u # t => channel'[u] = channel[u]
          /\ channel'[t] = << >>
      BY <1>0, <2>1 DEF TypeOK
    <2>3. Elements(channel'[t]) = {} /\ Distinct(channel'[t])
      BY <2>2, NoQueue
    <2>4. \A x \in Tasks :
            \/ \A j, u : At(x, j, u)' <=> At(x, j, u)
            \/ /\ \E j, u : At(x, j, u)
               /\ \E m, n : \A j, u : At(x, j, u)' <=> (j = m /\ u = n)
      <3> TAKE x \in Tasks
      <3>1. CASE x \notin Elements(channel[t])
        <4>1. \A u \in Threads : x \in Elements(channel'[u]) <=> x \in Elements(channel[u])
          BY <2>2, <2>3, <3>1
        <4> QED
          BY <1>1, <2>1, <3>1, <4>1 DEF At
      <3>2. CASE x \in Elements(channel[t])
        <4>1. At(x, "channel", t)
          BY <3>2 DEF At
        <4>2. \A j, u : At(x, j, u) <=> (j = "channel" /\ u = t)
          BY <1>0, <4>1, InOnePlace
        <4>3. /\ \A u \in Threads : x \notin heap[u] /\ x # current[u] /\ x \notin Elements(outputs[u])
              /\ \A u \in Threads : u # t => x \notin Elements(channel[u])
              /\ x \notin pending /\ x \notin answered
              /\ \A c \in Clients : x \notin op[c].got /\ (op[c].do = "submit" => x # op[c].task)
          BY <4>2 DEF At
        <4>4. \A u \in Threads : x \notin Elements(channel'[u])
          BY <2>2, <2>3, <4>3
        <4>5. \A j, u : At(x, j, u)' <=> (j = "lost" /\ u = 0)
          BY <1>1, <2>1, <3>2, <4>3, <4>4 DEF At
        <4>6. \E m, n : \A j, u : At(x, j, u)' <=> (j = m /\ u = n)
          <5> WITNESS "lost", 0
          <5> QED
            BY <4>5
        <4> QED
          BY <4>1, <4>6
      <3> QED
        BY <3>1, <3>2
    <2>5. Placed'
      BY <1>0, <1>2, <2>4, Carried
    <2> QED
      BY <1>0, <1>1, <2>2, <2>3, <2>5 DEF ChannelsOK
  <1> QED
    BY <1>3, <1>4

-----------------------------------------------------------------------------
(* The pending map. *)

LEMMA TasksFinite == \A S : S \subseteq Tasks => IsFiniteSet(S) /\ Cardinality(S) \in Nat
  <1>1. IsFiniteSet(Tasks)
    BY Constants, FS_Interval DEF Tasks
  <1> QED
    BY <1>1, FS_Subset, FS_CardinalityType

LEMMA PendingGathers ==
    ASSUME IInv, NEW c \in Clients, WaitGathers(c)
    PROVE  (OneCaller => WaitNotMissed') /\ PendingBounded'
  <1>0. /\ TypeOK /\ PendingBounded /\ op \in [Clients -> Calls] /\ op[c] \in Calls
        /\ op[c].do = "wait"
    BY DEF IInv, TypeOK, WaitGathers
  <1>1. Others(c) \subseteq Tasks /\ pending \subseteq Tasks /\ op[c].task \notin Others(c)
    BY <1>0, CallFields DEF Others, TypeOK
  <1>2. ASSUME OneCaller PROVE WaitNotMissed'
    <2>0. WaitNotMissed
      BY <1>2 DEF IInv
    <2>1. op[c].task \notin pending'
      BY <1>0, <1>1, <2>0 DEF WaitNotMissed, WaitGathers, KeepOthers
    <2>2. op'[c] = Idle \/ op'[c] = [op[c] EXCEPT !.at = 1, !.got = {}]
      BY <1>0 DEF WaitGathers
    <2>3. op'[c].do = "idle" \/ op'[c].task = op[c].task
      <3>1. Idle.do = "idle"
        BY DEF Idle
      <3>2. [op[c] EXCEPT !.at = 1, !.got = {}].task = op[c].task
        BY <1>0 DEF Calls
      <3> QED
        BY <2>2, <3>1, <3>2
    <2>4. \A d \in Clients : d = c
      BY <1>2 DEF OneCaller
    <2> QED
      BY <2>1, <2>3, <2>4 DEF WaitNotMissed
  <1>3. PendingBounded'
    <2>1. CASE Cardinality(pending) + Cardinality(Others(c)) <= MaxPending
      <3>1. pending' = pending \cup Others(c)
        BY <2>1 DEF WaitGathers, KeepOthers
      <3>2. /\ IsFiniteSet(pending) /\ IsFiniteSet(Others(c))
            /\ Cardinality(pending \cap Others(c)) \in Nat
            /\ Cardinality(pending) \in Nat /\ Cardinality(Others(c)) \in Nat
        <4>1. pending \cap Others(c) \subseteq Tasks
          BY <1>1
        <4> QED
          BY <1>1, <4>1, TasksFinite
      <3>3. Cardinality(pending \cup Others(c))
              = Cardinality(pending) + Cardinality(Others(c)) - Cardinality(pending \cap Others(c))
        BY <3>2, FS_Union
      <3>4. Cardinality(pending \cup Others(c)) <= MaxPending
        BY <2>1, <3>2, <3>3, Constants
      <3> QED
        BY <3>1, <3>4 DEF PendingBounded
    <2>2. CASE ~(Cardinality(pending) + Cardinality(Others(c)) <= MaxPending)
      BY <1>0, <2>2 DEF PendingBounded, WaitGathers, KeepOthers
    <2> QED
      BY <2>1, <2>2
  <1> QED
    BY <1>2, <1>3

LEMMA PendingWaitFor ==
    ASSUME IInv, NEW c \in Clients, NEW y \in Tasks, WaitForTask(c, y)
    PROVE  (OneCaller => WaitNotMissed') /\ PendingBounded'
  <1>0. TypeOK /\ (OneCaller => WaitNotMissed) /\ PendingBounded
    BY DEF IInv
  <1>1. CASE y \in pending
    <2>1. pending' = pending \ {y} /\ op' = op
      BY <1>1 DEF WaitForTask
    <2>2. Cardinality(pending') <= Cardinality(pending)
      <3>1. IsFiniteSet(pending)
        BY <1>0, TasksFinite DEF TypeOK
      <3> QED
        BY <2>1, <3>1, FS_Subset
    <2>3. /\ Cardinality(pending) \in Nat /\ Cardinality(pending') \in Nat
      <3>1. pending \subseteq Tasks /\ pending' \subseteq Tasks
        BY <1>0, <2>1 DEF TypeOK
      <3> QED
        BY <3>1, TasksFinite
    <2> QED
      BY <1>0, <2>1, <2>2, <2>3, Constants DEF WaitNotMissed, PendingBounded
  <1>2. CASE y \notin pending
    <2>1. pending' = pending /\ op'[c].task = y
      BY <1>0, <1>2 DEF WaitForTask, Idle, TypeOK
    <2>2. OneCaller => \A d \in Clients : d = c
      BY DEF OneCaller
    <2> QED
      BY <1>0, <1>2, <2>1, <2>2 DEF WaitNotMissed, PendingBounded
  <1> QED
    BY <1>1, <1>2

LEMMA PendingCalls ==
    ASSUME IInv, NEW c \in Clients,
           \/ SubmitTask(c) \/ SendTask(c) \/ SendRefused(c) \/ PollOutputs(c) \/ TakeOutput(c)
           \/ NothingThere(c) \/ PollFails(c) \/ PollReturns(c) \/ WaitTimesOut(c)
    PROVE  (OneCaller => WaitNotMissed') /\ PendingBounded'
  <1> USE DEF threadVars
  <1>0. /\ (OneCaller => WaitNotMissed) /\ PendingBounded
        /\ op \in [Clients -> Calls] /\ op[c] \in Calls
    BY DEF IInv, TypeOK
  <1>1. ASSUME pending' = pending, op'[c].do = "wait" => op[c].do = "wait" /\ op'[c].task = op[c].task
        PROVE  (OneCaller => WaitNotMissed') /\ PendingBounded'
    <2>1. OneCaller => \A d \in Clients : d = c
      BY DEF OneCaller
    <2> QED
      BY <1>0, <1>1, <2>1 DEF WaitNotMissed, PendingBounded
  <1>2. CASE SubmitTask(c) \/ PollOutputs(c)
    <2>1. pending' = pending /\ op'[c].do # "wait"
      BY <1>0, <1>2 DEF SubmitTask, PollOutputs, Idle
    <2> QED
      BY <1>1, <2>1
  <1>3. CASE SendTask(c) \/ PollFails(c) \/ PollReturns(c) \/ WaitTimesOut(c)
    <2>1. pending' = pending /\ op'[c].do # "wait"
      BY <1>0, <1>3 DEF SendTask, PollFails, PollReturns, WaitTimesOut, Idle
    <2> QED
      BY <1>1, <2>1
  <1>4. CASE SendRefused(c)
    <2>1. op[c].do = "submit" /\ pending' = pending
      BY <1>4 DEF SendRefused
    <2>2. \/ op'[c] = Idle
          \/ op'[c] = [op[c] EXCEPT !.at = (op[c].at % PoolSize) + 1, !.left = op[c].left - 1]
      BY <1>0, <1>4 DEF SendRefused
    <2>3. op'[c].do \in {"idle", "submit"}
      <3>1. Idle.do = "idle"
        BY DEF Idle
      <3>2. [op[c] EXCEPT !.at = (op[c].at % PoolSize) + 1, !.left = op[c].left - 1].do = op[c].do
        BY <1>0 DEF Calls
      <3> QED
        BY <2>1, <2>2, <3>1, <3>2
    <2> QED
      BY <1>1, <2>1, <2>3
  <1>5. CASE TakeOutput(c) \/ NothingThere(c)
    <2>1. pending' = pending /\ op'[c].do = op[c].do /\ op'[c].task = op[c].task
      <3>1. CASE TakeOutput(c)
        BY <1>0, <3>1 DEF TakeOutput, Calls
      <3>2. CASE NothingThere(c)
        BY <1>0, <3>2 DEF NothingThere, Calls
      <3> QED
        BY <1>5, <3>1, <3>2
    <2> QED
      BY <1>1, <2>1
  <1> QED
    BY <1>2, <1>3, <1>4, <1>5

LEMMA PendingStep ==
    ASSUME IInv, Next
    PROVE  (OneCaller => WaitNotMissed') /\ PendingBounded'
  <1> USE DEF threadVars, clientVars
  <1>0. (OneCaller => WaitNotMissed) /\ PendingBounded
    BY DEF IInv
  <1>1. CASE Shutdown
    <2>1. pending' = {} /\ op' = op
      BY <1>1 DEF Shutdown
    <2>2. Cardinality({}) = 0
      BY FS_EmptySet
    <2> QED
      BY <2>1, <2>2, Constants DEF WaitNotMissed, PendingBounded
  <1>2. ASSUME NEW t \in Threads, Work(t) \/ LoopPanics(t)
        PROVE  (OneCaller => WaitNotMissed') /\ PendingBounded'
    <2>1. pending' = pending /\ op' = op
      BY <1>2 DEF Work, CreateRenderer, Receive, Drain, Pop, SendOutput, Stop, LoopPanics
    <2> QED
      BY <1>0, <2>1 DEF WaitNotMissed, PendingBounded
  <1>3. ASSUME NEW c \in Clients, Call(c) \/ Serve(c) \/ WaitTimesOut(c)
        PROVE  (OneCaller => WaitNotMissed') /\ PendingBounded'
    BY <1>3, PendingCalls, PendingGathers, PendingWaitFor DEF Call, Serve
  <1> QED
    BY <1>1, <1>2, <1>3 DEF Next

-----------------------------------------------------------------------------
(* The inductive invariant and what follows from it. *)

LEMMA InitIInv ==
    ASSUME Init
    PROVE  IInv
  <1>1. TypeOK
    BY IdleIsCall, NoQueue, ThreadNumbers, Constants DEF Init, TypeOK, Steps
  <1>2. CallOK
    BY DEF Init, Idle, CallOK, ClientOK
  <1>3. ThreadsOK
    BY Constants DEF Init, ThreadsOK
  <1>4. ChannelsOK
    BY NoQueue DEF Init, ChannelsOK
  <1>5. Placed
    <2> SUFFICES ASSUME NEW x \in Tasks
                 PROVE  ~(x <= submitted) /\ Nowhere(x)
      BY DEF Placed
    <2>1. x # NoTask /\ ~(x <= submitted)
      BY NoTaskIsNone DEF Init, Tasks
    <2>2. \A t \in Threads : Elements(channel[t]) = {} /\ Elements(outputs[t]) = {}
      BY NoQueue DEF Init
    <2>3. Nowhere(x)
      BY <2>1, <2>2 DEF Init, Idle, At, Nowhere
    <2> QED
      BY <2>1, <2>3
  <1>6. (OneCaller => WaitNotMissed) /\ PendingBounded
    BY FS_EmptySet, Constants DEF Init, Idle, WaitNotMissed, PendingBounded
  <1> QED
    BY <1>1, <1>2, <1>3, <1>4, <1>5, <1>6 DEF IInv

LEMMA NextIInv ==
    ASSUME IInv, Next
    PROVE  IInv'
  <1>0. TypeOK /\ CallOK /\ ThreadsOK /\ ChannelsOK
    BY DEF IInv
  <1>1. TypeOK' /\ Placed' /\ ChannelsOK'
    <2>1. ASSUME NEW c \in Clients, SubmitTask(c) \/ SendTask(c) \/ SendRefused(c)
          PROVE  TypeOK' /\ Placed' /\ ChannelsOK'
      BY <1>0, <2>1, TypeCalls, PlacedCalls
    <2>2. ASSUME NEW c \in Clients,
                 \/ PollOutputs(c) \/ TakeOutput(c) \/ NothingThere(c)
                 \/ PollFails(c) \/ PollReturns(c)
          PROVE  TypeOK' /\ Placed' /\ ChannelsOK'
      BY <1>0, <2>2, TypePolls, PlacedPolls
    <2>3. ASSUME NEW c \in Clients, WaitTimesOut(c) PROVE TypeOK' /\ Placed' /\ ChannelsOK'
      BY <1>0, <2>3, TypeWaits, PlacedPolls
    <2>4. ASSUME NEW c \in Clients, WaitGathers(c) PROVE TypeOK' /\ Placed' /\ ChannelsOK'
      BY <1>0, <2>4, TypeWaits, PlacedGathers
    <2>5. CASE Shutdown
      BY <1>0, <2>5, TypeShutdown, PlacedShutdown
    <2>6. ASSUME NEW c \in Clients, NEW x \in Tasks, WaitForTask(c, x)
          PROVE  TypeOK' /\ Placed' /\ ChannelsOK'
      BY <1>0, <2>6, TypeWaits, PlacedWaitFor
    <2>7. ASSUME NEW t \in Threads, Work(t) \/ LoopPanics(t)
          PROVE  TypeOK' /\ Placed' /\ ChannelsOK'
      BY <1>0, <2>7, TypeWorkers, PlacedReceives, PlacedPop, PlacedSends, PlacedRest DEF Work
    <2> QED
      BY <2>1, <2>2, <2>3, <2>4, <2>5, <2>6, <2>7 DEF Next, Call, Serve
  <1> QED
    BY <1>0, <1>1, CallStep, ThreadsStep, PendingStep DEF IInv, OneCaller

LEMMA StutterIInv ==
    ASSUME IInv, UNCHANGED vars
    PROVE  IInv'
  <1> USE DEF vars, clientVars, threadVars
  <1>1. /\ TypeOK' /\ CallOK' /\ ThreadsOK' /\ ChannelsOK' /\ PendingBounded'
        /\ OneCaller => WaitNotMissed'
    BY DEF IInv, TypeOK, CallOK, ClientOK, ThreadsOK, ChannelsOK, WaitNotMissed, PendingBounded
  <1>2. \A x \in Tasks : \A j, u : At(x, j, u)' <=> At(x, j, u)
    BY DEF At
  <1>3. submitted' = submitted /\ Placed
    BY DEF IInv
  <1>4. Placed'
    BY <1>2, <1>3, Carried
  <1> QED
    BY <1>1, <1>4 DEF IInv, OneCaller

(* The invariant holds in every reachable state. *)
THEOREM SpecIInv == Spec => []IInv
  <1>1. Init => IInv
    BY InitIInv
  <1>2. IInv /\ [Next]_vars => IInv'
    BY NextIInv, StutterIInv
  <1> QED
    BY <1>1, <1>2, PTL DEF Spec

(* The variables keep their types, and no channel outgrows its capacity.   *)
THEOREM SpecTypeOK == Spec => []TypeOK
  <1>1. IInv => TypeOK
    BY DEF IInv
  <1> QED
    BY <1>1, SpecIInv, PTL

(* Every submitted task is in exactly one place of the calls and the       *)
(* workers: no step of either loses track of one or duplicates it, however *)
(* many clients call at a time.                                            *)
THEOREM SpecOnePlace == Spec => []OnePlace
  <1>1. IInv => OnePlace
    <2> SUFFICES ASSUME IInv, NEW x \in 1 .. submitted
                 PROVE  \E p \in Places(x) : Places(x) = {p}
      BY DEF OnePlace
    <2>1. x \in Tasks /\ x <= submitted
      BY Constants DEF IInv, TypeOK, Tasks
    <2>2. PICK k, t : \A j, u : At(x, j, u) <=> (j = k /\ u = t)
      BY <2>1 DEF IInv, Placed, Sole
    <2>3. At(x, k, t)
      BY <2>2
    <2>4. k \in Kinds /\ t \in (0 .. Dock) \cup Clients
      <3>1. t \in Threads \/ t \in Clients \/ t = 0
        BY <2>3 DEF At
      <3>2. t \in (0 .. Dock) \cup Clients
        BY <3>1, Constants DEF Threads, Dock
      <3> QED
        BY <2>3, <3>2 DEF At, Kinds
    <2>5. <<k, t>> \in Places(x)
      BY <2>3, <2>4 DEF Places
    <2>6. \A p \in Places(x) : p = <<k, t>>
      BY <2>2 DEF Places
    <2> QED
      BY <2>5, <2>6
  <1> QED
    BY <1>1, SpecIInv, PTL

(* Under ThreadedRenderCoordinator, whose one thread makes every call, a   *)
(* wait never misses an output that lies for it in the pending map.  With  *)
(* two callers it may: the premise cannot be left out.                     *)
THEOREM SpecWaitNotMissed == OneCaller => (Spec => []WaitNotMissed)
  <1> SUFFICES ASSUME OneCaller PROVE Spec => []WaitNotMissed
    OBVIOUS
  <1>1. IInv => WaitNotMissed
    BY DEF IInv
  <1> QED
    BY <1>1, SpecIInv, PTL

(* The pending map never holds more than MAX_PENDING outputs. *)
THEOREM SpecPendingBounded == Spec => []PendingBounded
  <1>1. IInv => PendingBounded
    BY DEF IInv
  <1> QED
    BY <1>1, SpecIInv, PTL

LEMMA KeptStep ==
    ASSUME IInv, Next, NEW x \in lost' \ lost
    PROVE  \/ \E t \in Threads : Dropped(x, t)
           \/ \E c \in Clients : PolledWith(x, c) \/ Overflows(x, c)
           \/ ~running'
  <1> USE DEF threadVars, clientVars
  <1>0. Placed /\ TypeOK /\ ThreadsOK /\ op \in [Clients -> Calls]
    BY DEF IInv, TypeOK
  <1>1. ASSUME NEW c \in Clients, PollFails(c)
        PROVE  PolledWith(x, c)
    BY <1>1 DEF PollFails, PolledWith
  <1>2. CASE Shutdown
    BY <1>2 DEF Shutdown
  <1>3. ASSUME NEW t \in Threads, SendOutput(t)
        PROVE  ~running'
    BY <1>3 DEF SendOutput
  <1>4. ASSUME NEW t \in Threads, LoopPanics(t)
        PROVE  Dropped(x, t)
    <2>1. panics[t] + 1 >= MaxRespawns /\ x \in Elements(channel[t])
      BY <1>4 DEF LoopPanics
    <2>2. panics[t] < MaxRespawns /\ panics[t] \in 0 .. MaxRespawns
      BY <1>0, <1>4 DEF LoopPanics, ThreadsOK, TypeOK
    <2>3. panics'[t] = panics[t] + 1
      BY <1>0, <1>4 DEF LoopPanics, TypeOK
    <2> QED
      BY <2>1, <2>2, <2>3, Constants DEF Dropped
  <1>5. ASSUME NEW c \in Clients, WaitGathers(c)
        PROVE  Overflows(x, c)
    <2>1. /\ ~(Cardinality(pending) + Cardinality(Others(c)) <= MaxPending)
          /\ op[c].do = "wait" /\ x \in Others(c)
      BY <1>5 DEF WaitGathers, KeepOthers
    <2>2. Others(c) \subseteq Tasks /\ pending \subseteq Tasks /\ op[c].got \subseteq Tasks
      BY <1>0, CallFields DEF Others, TypeOK
    <2>3. pending \cap Others(c) = {}
      BY <1>0, <2>2, CollectedOnly DEF Others
    <2>4. /\ IsFiniteSet(pending) /\ IsFiniteSet(Others(c)) /\ IsFiniteSet(pending \cup op[c].got)
          /\ Cardinality(pending) \in Nat /\ Cardinality(Others(c)) \in Nat
          /\ Cardinality(pending \cup op[c].got) \in Nat /\ Cardinality(pending \cup Others(c)) \in Nat
      <3>1. pending \cup op[c].got \subseteq Tasks /\ pending \cup Others(c) \subseteq Tasks
        BY <2>2
      <3> QED
        BY <2>2, <3>1, TasksFinite
    <2>5. Cardinality(pending \cup Others(c)) = Cardinality(pending) + Cardinality(Others(c))
      <3>1. Cardinality(pending \cup Others(c))
              = Cardinality(pending) + Cardinality(Others(c)) - Cardinality(pending \cap Others(c))
        BY <2>4, FS_Union
      <3>2. Cardinality(pending \cap Others(c)) = 0
        BY <2>3, FS_EmptySet
      <3> QED
        BY <2>4, <3>1, <3>2
    <2>6. Cardinality(pending \cup Others(c)) <= Cardinality(pending \cup op[c].got)
      <3>1. pending \cup Others(c) \subseteq pending \cup op[c].got
        BY DEF Others
      <3> QED
        BY <2>4, <3>1, FS_Subset
    <2> QED
      BY <2>1, <2>4, <2>5, <2>6, Constants DEF Overflows
  <1>6. ASSUME NEW c \in Clients,
               \/ SubmitTask(c) \/ PollOutputs(c) \/ (\E y \in Tasks : WaitForTask(c, y)) \/ SendTask(c)
               \/ SendRefused(c) \/ TakeOutput(c) \/ NothingThere(c) \/ PollReturns(c) \/ WaitTimesOut(c)
        PROVE  FALSE
    BY <1>6 DEF SubmitTask, PollOutputs, WaitForTask, SendTask, SendRefused, TakeOutput, NothingThere,
       PollReturns, WaitTimesOut
  <1>7. ASSUME NEW t \in Threads,
               CreateRenderer(t) \/ Receive(t) \/ Drain(t) \/ Pop(t) \/ Stop(t)
        PROVE  FALSE
    BY <1>7 DEF CreateRenderer, Receive, Drain, Pop, Stop
  <1> QED
    BY <1>1, <1>2, <1>3, <1>4, <1>5, <1>6, <1>7 DEF Next, Call, Serve, Work

(* Each lost task was in the channel of a thread that has just given up,   *)
(* collected by a poll that met a dead thread, one of too many others for  *)
(* the pending map, or there after the shutdown.                           *)
THEOREM SpecOutputsKept == Spec => OutputsKept
  <1>1. IInv /\ [Next]_vars =>
          [\A x \in lost' \ lost :
             \/ \E t \in Threads : Dropped(x, t)
             \/ \E c \in Clients : PolledWith(x, c) \/ Overflows(x, c)
             \/ ~running']_vars
    BY KeptStep
  <1> QED
    BY <1>1, SpecIInv, PTL DEF Spec, OutputsKept
=============================================================================
