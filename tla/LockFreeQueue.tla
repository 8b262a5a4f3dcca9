----------------------------- MODULE LockFreeQueue -----------------------------
(***************************************************************************)
(* LockFreeQueue of the desktop session (liquide-session/src/desktop/      *)
(* lockfree_queue.rs): a Treiber stack that many producers push to with a  *)
(* compare-and-swap and that one consumer swaps out whole, walks, frees    *)
(* and reverses; a wake flag beside it, and two statistics counters.       *)
(*                                                                         *)
(* One step is one atomic operation.  Memory is a small pool of addresses, *)
(* and a node that drain frees can be allocated again at once, so that a   *)
(* compare-and-swap may meet an address it has seen before.                *)
(***************************************************************************)
EXTENDS Integers, FiniteSets, Sequences, SequencesExt

CONSTANTS
    Producers,   \* threads that push
    Addrs,       \* addresses nodes are allocated at
    Null,        \* the null pointer
    MaxPushes    \* bound of the model: pushes of one producer

ASSUME QueueAssumption ==
    /\ IsFiniteSet(Addrs)
    /\ Null \notin Addrs
    /\ MaxPushes \in Nat

VARIABLES
    head,      \* AtomicPtr to the last node pushed
    wake,      \* AtomicBool
    mem,       \* the allocated nodes: address -> [value, next]
    enqueued,  \* enqueue_count
    drained,   \* drain_count
    prod,      \* producer -> [pc, node, expected, sent] of its push
    cons,      \* [pc, current, items] of the consumer's drain
    received   \* what the drains have returned so far, one after another

vars == <<head, wake, mem, enqueued, drained, prod, cons, received>>

Items == Producers \X (1 .. MaxPushes)
Pointers == Addrs \cup {Null}

Idle(sent) == [pc |-> "idle", node |-> Null, expected |-> Null, sent |-> sent]

Init ==
    /\ head = Null
    /\ wake = FALSE
    /\ mem = << >>
    /\ enqueued = 0
    /\ drained = 0
    /\ prod = [p \in Producers |-> Idle(0)]
    /\ cons = [pc |-> "idle", current |-> Null, items |-> << >>]
    /\ received = << >>

-----------------------------------------------------------------------------
(* push                                                                    *)

(* Box::into_raw of a new node, at any address that is not in use. *)
Allocate(p) ==
    /\ prod[p].pc = "idle"
    /\ prod[p].sent < MaxPushes
    /\ \E a \in Addrs \ DOMAIN mem :
          /\ mem' = [b \in DOMAIN mem \cup {a} |->
                        IF b = a THEN [value |-> <<p, prod[p].sent + 1>>, next |-> Null]
                        ELSE mem[b]]
          /\ prod' = [prod EXCEPT ![p] = [pc |-> "load", node |-> a, expected |-> Null,
                                          sent |-> prod[p].sent + 1]]
    /\ UNCHANGED <<head, wake, enqueued, drained, cons, received>>

(* head.load, and the link of the node that nobody else can reach yet. *)
LoadHead(p) ==
    /\ prod[p].pc = "load"
    /\ mem' = [mem EXCEPT ![prod[p].node].next = head]
    /\ prod' = [prod EXCEPT ![p].pc = "cas", ![p].expected = head]
    /\ UNCHANGED <<head, wake, enqueued, drained, cons, received>>

CasSucceeds(p) ==
    /\ prod[p].pc = "cas"
    /\ head = prod[p].expected
    /\ head' = prod[p].node
    /\ prod' = [prod EXCEPT ![p].pc = "count"]
    /\ UNCHANGED <<wake, mem, enqueued, drained, cons, received>>

(* Mutant of CasFails: the retry takes the new head but does not relink. *)
CasRetriesUnlinked(p) ==
    /\ prod[p].pc = "cas"
    /\ prod' = [prod EXCEPT ![p].expected = head]
    /\ UNCHANGED <<head, wake, mem, enqueued, drained, cons, received>>

(* The head has moved, or compare_exchange_weak failed for no reason. *)
CasFails(p) ==
    /\ prod[p].pc = "cas"
    /\ prod' = [prod EXCEPT ![p].pc = "load"]
    /\ UNCHANGED <<head, wake, mem, enqueued, drained, cons, received>>

CountPush(p) ==
    /\ prod[p].pc = "count"
    /\ enqueued' = enqueued + 1
    /\ prod' = [prod EXCEPT ![p].pc = "signal"]
    /\ UNCHANGED <<head, wake, mem, drained, cons, received>>

Signal(p) ==
    /\ prod[p].pc = "signal"
    /\ wake' = TRUE
    /\ prod' = [prod EXCEPT ![p] = Idle(prod[p].sent)]
    /\ UNCHANGED <<head, mem, enqueued, drained, cons, received>>

Push(p) ==
    \/ Allocate(p)
    \/ LoadHead(p)
    \/ CasSucceeds(p)
    \/ CasFails(p)
    \/ CountPush(p)
    \/ Signal(p)

-----------------------------------------------------------------------------
(* drain                                                                   *)

(* Mutant of SwapHead: the head is loaded and left where it was. *)
LoadOnly ==
    /\ cons.pc = "idle"
    /\ cons' = [cons EXCEPT !.pc = "clear", !.current = head]
    /\ UNCHANGED <<head, wake, mem, enqueued, drained, prod, received>>

SwapHead ==
    /\ cons.pc = "idle"
    /\ cons' = [cons EXCEPT !.pc = "clear", !.current = head]
    /\ head' = Null
    /\ UNCHANGED <<wake, mem, enqueued, drained, prod, received>>

ClearWake ==
    /\ cons.pc = "clear"
    /\ wake' = FALSE
    /\ cons' = [cons EXCEPT !.pc = IF cons.current = Null THEN "idle" ELSE "walk"]
    /\ UNCHANGED <<head, mem, enqueued, drained, prod, received>>

(* One node of the walk: its value is kept, the node is freed. *)
Collect ==
    /\ cons.pc = "walk"
    /\ cons.current # Null
    /\ cons' = [cons EXCEPT !.current = mem[cons.current].next,
                            !.items = Append(cons.items, mem[cons.current].value)]
    /\ mem' = [b \in DOMAIN mem \ {cons.current} |-> mem[b]]
    /\ UNCHANGED <<head, wake, enqueued, drained, prod, received>>

(* Mutant of Return: the stack's order is kept. *)
ReturnUnreversed ==
    /\ cons.pc = "walk"
    /\ cons.current = Null
    /\ received' = received \o cons.items
    /\ drained' = drained + Len(cons.items)
    /\ cons' = [cons EXCEPT !.pc = "idle", !.items = << >>]
    /\ UNCHANGED <<head, wake, mem, enqueued, prod>>

Return ==
    /\ cons.pc = "walk"
    /\ cons.current = Null
    /\ received' = received \o Reverse(cons.items)
    /\ drained' = drained + Len(cons.items)
    /\ cons' = [cons EXCEPT !.pc = "idle", !.items = << >>]
    /\ UNCHANGED <<head, wake, mem, enqueued, prod>>

Drain == SwapHead \/ ClearWake \/ Collect \/ Return

-----------------------------------------------------------------------------
Next == (\E p \in Producers : Push(p)) \/ Drain

(* The consumer thread drains in a loop; producers owe nothing. *)
Spec == Init /\ [][Next]_vars /\ WF_vars(Drain)

-----------------------------------------------------------------------------
(* The nodes that can be reached in memory m from a pointer, the last      *)
(* pushed first.                                                           *)
ChainOf(m, a) ==
    LET walk[i \in 0 .. Cardinality(Addrs)] ==
            IF i = 0 THEN [at |-> a, seen |-> << >>]
            ELSE LET w == walk[i - 1]
                 IN  IF w.at \notin DOMAIN m THEN w
                     ELSE [at |-> m[w.at].next, seen |-> Append(w.seen, w.at)]
    IN  walk[Cardinality(Addrs)].seen

ValuesOf(m, chain) == [i \in DOMAIN chain |-> m[chain[i]].value]

(* What is queued, and what the drain under way has taken, oldest first. *)
Queued == Reverse(ValuesOf(mem, ChainOf(mem, head)))
Taken  == Reverse(cons.items \o ValuesOf(mem, ChainOf(mem, cons.current)))

Private == {p \in Producers : prod[p].pc \in {"load", "cas"}}

(* Types; the pointers the threads may follow, head and the drain's        *)
(* current, never point at freed memory.                                   *)
TypeOK ==
    /\ DOMAIN mem \subseteq Addrs
    /\ mem \in [DOMAIN mem -> [value : Items, next : Pointers]]
    /\ head \in DOMAIN mem \cup {Null}
    /\ wake \in BOOLEAN
    /\ {enqueued, drained} \subseteq Nat
    /\ prod \in [Producers -> [pc : {"idle", "load", "cas", "count", "signal"},
                               node : Pointers, expected : Pointers,
                               sent : 0 .. MaxPushes]]
    /\ cons \in [pc : {"idle", "clear", "walk"}, current : DOMAIN mem \cup {Null},
                 items : Seq(Items)]
    /\ received \in Seq(Items)

(* "Ownership is transferred exactly once": every allocated node is either *)
(* private to one push, or in the shared list once, or in the list being   *)
(* drained once.  Nothing is leaked, freed twice or in two lists, although *)
(* addresses are reused while a push still expects the old node there.     *)
OwnedOnce ==
    LET lists == ChainOf(mem, head) \o ChainOf(mem, cons.current)
        private == {prod[p].node : p \in Private}
    IN  /\ IsInjective(lists)
        /\ Cardinality(private) = Cardinality(Private)
        /\ private \cap ToSet(lists) = {}
        /\ DOMAIN mem = private \cup ToSet(lists)

Quiet == cons.pc = "idle" /\ \A p \in Producers : prod[p].pc = "idle"

(* The queue is a FIFO queue that is drained whole: an item is enqueued    *)
(* when its compare-and-swap succeeds and taken when the head is swapped.  *)
(* Everything enqueued is received in the end, in order, once.             *)
Fifo == INSTANCE FifoQueue WITH queue <- Queued, batch <- Taken

ImplementsFifo == Fifo!Spec

-----------------------------------------------------------------------------
(* A claim of the documentation that the code does not keep.               *)

(* is_signaled "Returns true if at least one push has occurred since the   *)
(* last drain": when no call is under way, a queue that holds something is *)
(* signaled.  The consumer's poll loop is told to rely on it.              *)
SignaledWhenQueued == Quiet /\ head # Null => wake
=============================================================================
