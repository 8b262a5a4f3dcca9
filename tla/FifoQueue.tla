------------------------------- MODULE FifoQueue -------------------------------
(***************************************************************************)
(* What the lock-free queue of the desktop session promises: items are     *)
(* enqueued one by one, a drain takes everything that is queued and hands  *)
(* it to the consumer in the order of the enqueues, once each.             *)
(***************************************************************************)
EXTENDS Sequences, SequencesExt

CONSTANT Items

VARIABLES
    queue,      \* enqueued and not yet taken, oldest first
    batch,      \* taken by the drain under way
    received    \* returned to the consumer by the drains so far

fifoVars == <<queue, batch, received>>

Seen == ToSet(queue) \cup ToSet(batch) \cup ToSet(received)

Init ==
    /\ queue = << >>
    /\ batch = << >>
    /\ received = << >>

(* An item is enqueued once. *)
Enqueue(v) ==
    /\ v \notin Seen
    /\ queue' = Append(queue, v)
    /\ UNCHANGED <<batch, received>>

TakeAll ==
    /\ batch = << >>
    /\ batch' = queue
    /\ queue' = << >>
    /\ UNCHANGED received

Deliver ==
    /\ received' = received \o batch
    /\ batch' = << >>
    /\ UNCHANGED queue

Next == (\E v \in Items : Enqueue(v)) \/ TakeAll \/ Deliver

(* The consumer keeps draining. *)
Spec == Init /\ [][Next]_fifoVars /\ WF_fifoVars(TakeAll) /\ WF_fifoVars(Deliver)
=============================================================================
