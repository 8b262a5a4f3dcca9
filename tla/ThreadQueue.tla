------------------------------ MODULE ThreadQueue ------------------------------
(***************************************************************************)
(* The message queue of a GUI thread (liquide-message-queue/src/queue.rs,  *)
(* with filter.rs, sent.rs, pump.rs and timer.rs).                         *)
(*                                                                         *)
(* Posted messages are a FIFO; of the pointer moves only the last is kept, *)
(* wheel events of one gesture add up, invalid regions become one Paint    *)
(* per window and timers one Timer message per period.  Wake bits say what *)
(* kinds of work are pending.  Other threads send messages and wait, 10 s  *)
(* at most, for the answer.                                                *)
(*                                                                         *)
(* Every method takes the queue by exclusive reference, so it is one step, *)
(* but for pump_one, which holds the queue while the handlers of the sent  *)
(* messages run one after another: the senders' clocks do not stop then.   *)
(***************************************************************************)
EXTENDS Integers, Sequences, FiniteSets, SequencesExt

CONSTANTS
    Windows,      \* windows of the thread
    Broadcast,    \* WINDOW_BROADCAST, the target of Quit
    None,
    Posts,        \* kinds of message the clients post, besides the ones below
    Directions,   \* directions of the wheel
    Roles,        \* "focus" and "active": what a window of the queue can hold
    Timed,        \* windows that may set a timer
    Filters,      \* the targets a direct peek may ask for: sets of targets
    Calls,        \* messages other threads send, each of them once
    MaxRepeats,   \* argument of thin_key_repeats, after its max(1)
    MaxPosted     \* bound of the model: length of the FIFO

Targets == Windows \cup {Broadcast}

(* The messages of a change of holder, the kinds that can be in the FIFO,  *)
(* and the wake bit of each kind. *)
Gained == [focus |-> "focusGained", active |-> "activate"]
Lost == [focus |-> "focusLost", active |-> "deactivate"]

Kinds == Posts \cup {"wheel", "quit", "focusGained", "activate", "focusLost", "deactivate"}

Bit(kind) ==
    CASE kind = "paint" -> "paint"
      [] kind = "timer" -> "timer"
      [] kind = "button" -> "mouse"
      [] kind = "wheel" -> "scroll"
      [] kind \in {"down", "up"} -> "key"
      [] kind = "hotkey" -> "hotkey"
      [] OTHER -> "post"

Bits == {"paint", "timer", "mouse", "move", "scroll", "key", "hotkey", "post", "send"}

ASSUME ThreadQueueAssumption ==
    /\ Broadcast \notin Windows /\ None \notin Targets \cup (Windows \X Directions)
    /\ Posts \subseteq {"paint", "timer", "button", "down", "up", "hotkey", "other"}
    /\ Roles \subseteq {"focus", "active"}
    /\ Timed \subseteq Windows
    /\ Filters \subseteq SUBSET Targets
    /\ MaxRepeats \in Nat \ {0} /\ MaxPosted \in Nat

VARIABLES
    posted,     \* messages: FIFO of [win, kind]
    move,       \* last_mouse_move: its target
    scroll,     \* last_scroll: <<target, direction>>
    dirty,      \* invalid_regions: the windows that have one
    timers,     \* window -> its timer: off, armed or due
    holder,     \* role -> focus_window, active_window
    wake,       \* wake_bits
    sent,       \* sent_messages
    scratch,    \* sent_scratch: taken by the pump and not yet handled
    held,       \* pump_one is between its sent messages and its peek
    stopped,    \* the pump has met Quit
    call        \* call -> how it stands with its sender

input == <<posted, move, scroll>>
vars == <<posted, move, scroll, dirty, timers, holder, wake, sent, scratch, held, stopped, call>>

Init ==
    /\ posted = << >> /\ move = None /\ scroll = None
    /\ dirty = {}
    /\ timers = [w \in Timed |-> "off"]
    /\ holder = [r \in Roles |-> None]
    /\ wake = {}
    /\ sent = << >> /\ scratch = << >> /\ held = FALSE /\ stopped = FALSE
    /\ call = [c \in Calls |-> "new"]

Message(w, k) == [win |-> w, kind |-> k]
BitsOf(q) == {Bit(q[i].kind) : i \in DOMAIN q}
Due == {w \in Timed : timers[w] = "due"}
Rearmed == [w \in Timed |-> IF w \in Due THEN "armed" ELSE timers[w]]

(* recompute_wake_bits, from the sources of pending work. *)
Recomputed(q, mv, sc, dt, tm, sn) ==
    BitsOf(q) \cup {b \in Bits :
        \/ b = "send" /\ sn # << >>
        \/ b = "move" /\ mv # None
        \/ b = "scroll" /\ sc # None
        \/ b = "paint" /\ dt # {}
        \/ b = "timer" /\ \E w \in DOMAIN tm : tm[w] = "due"}

-----------------------------------------------------------------------------
(* What clients do with the queue, while the pump does not hold it         *)

Free == ~held

(* post_message of the kinds that neither coalesce nor stop the pump; of   *)
(* Quit; and of the messages of a change of focus. *)
PostAll(ms) ==
    /\ Len(posted) + Len(ms) <= MaxPosted
    /\ posted' = posted \o ms
    /\ wake' = wake \cup BitsOf(ms)
    /\ UNCHANGED <<move, scroll, dirty, timers, sent, scratch, held, stopped, call>>

Post(w, k) == Free /\ PostAll(<<Message(w, k)>>) /\ UNCHANGED holder
PostQuit == Free /\ PostAll(<<Message(Broadcast, "quit")>>) /\ UNCHANGED holder

PostMove(w) ==
    /\ Free
    /\ move' = w /\ wake' = wake \cup {"move"}
    /\ UNCHANGED <<posted, scroll, dirty, timers, holder, sent, scratch, held, stopped, call>>

(* post_scroll_message: a wheel event that does not continue the gesture   *)
(* pushes the one held back into the FIFO. *)
PostWheel(w, d) ==
    LET flushed == IF scroll \in {None, <<w, d>>} THEN << >>
                   ELSE <<Message(scroll[1], "wheel")>>
    IN  /\ Free
        /\ Len(posted) + Len(flushed) <= MaxPosted
        /\ posted' = posted \o flushed
        /\ scroll' = <<w, d>> /\ wake' = wake \cup {"scroll"}
        /\ UNCHANGED <<move, dirty, timers, holder, sent, scratch, held, stopped, call>>

(* Mutant: the window that loses the focus is not told. *)
SetHolderSilent(r, w) ==
    /\ Free /\ holder[r] # w
    /\ holder' = [holder EXCEPT ![r] = w]
    /\ PostAll(<<Message(w, Gained[r])>>)

(* set_focus_window and set_active_window. *)
SetHolder(r, w) ==
    /\ Free /\ holder[r] # w
    /\ holder' = [holder EXCEPT ![r] = w]
    /\ PostAll((IF holder[r] = None THEN << >> ELSE <<Message(holder[r], Lost[r])>>)
               \o <<Message(w, Gained[r])>>)

(* clear_focus_window and clear_active_window. *)
ClearHolder(r) ==
    /\ Free /\ holder[r] # None
    /\ holder' = [holder EXCEPT ![r] = None]
    /\ PostAll(<<Message(holder[r], Lost[r])>>)

Invalidate(w) ==
    /\ Free
    /\ dirty' = dirty \cup {w} /\ wake' = wake \cup {"paint"}
    /\ UNCHANGED <<input, timers, holder, sent, scratch, held, stopped, call>>

Validate(w) ==
    /\ Free
    /\ dirty' = dirty \ {w}
    /\ wake' = IF dirty' = {} THEN wake \ {"paint"} ELSE wake
    /\ UNCHANGED <<input, timers, holder, sent, scratch, held, stopped, call>>

(* set_timer and kill_timer. *)
SetTimer(w, t) ==
    /\ Free
    /\ timers' = [timers EXCEPT ![w] = t]
    /\ UNCHANGED <<input, dirty, holder, wake, sent, scratch, held, stopped, call>>

(* check_timers, when some have fired; its messages go to the caller. *)
CheckTimers ==
    /\ Free /\ Due # {}
    /\ timers' = Rearmed /\ wake' = wake \cup {"timer"}
    /\ UNCHANGED <<input, dirty, holder, sent, scratch, held, stopped, call>>

(* What is left of q when only the messages at the positions D stay.       *)
Picked(q, D) ==
    LET left[n \in 0 .. Len(q)] ==
            IF n = 0 THEN << >>
            ELSE IF n \in D THEN Append(left[n - 1], q[n]) ELSE left[n - 1]
    IN  left[Len(q)]

(* The repeated key-downs of a window, counted since its last key-up.      *)
Repeats(i) ==
    LET w == posted[i].win
        Since(j) == \A k \in j .. i : posted[k] # Message(w, "up")
    IN  Cardinality({j \in 1 .. i : posted[j] = Message(w, "down") /\ Since(j)})

ThinKeyRepeats ==
    LET kept == {i \in DOMAIN posted : posted[i].kind = "down" => Repeats(i) <= MaxRepeats}
    IN  /\ Free /\ kept # DOMAIN posted
        /\ posted' = Picked(posted, kept)
        /\ wake' = Recomputed(posted', move, scroll, dirty, timers, sent)
        /\ UNCHANGED <<move, scroll, dirty, timers, holder, sent, scratch, held, stopped, call>>

(* purge_window, of a window that is destroyed. *)
PurgeWindow(w) ==
    /\ Free
    /\ posted' = Picked(posted, {i \in DOMAIN posted : posted[i].win # w})
    /\ move' = IF move = w THEN None ELSE move
    /\ scroll' = IF scroll # None /\ scroll[1] = w THEN None ELSE scroll
    /\ dirty' = dirty \ {w}
    /\ timers' = [x \in Timed |-> IF x = w THEN "off" ELSE timers[x]]
    /\ holder' = [r \in Roles |-> IF holder[r] = w THEN None ELSE holder[r]]
    /\ wake' = Recomputed(posted', move', scroll', dirty', timers', sent)
    /\ UNCHANGED <<sent, scratch, held, stopped, call>>

(* clear: the holders and the timers stay as they are, and nobody tells    *)
(* the senders whose messages go. *)
Clear ==
    /\ Free
    /\ posted' = << >> /\ move' = None /\ scroll' = None /\ dirty' = {}
    /\ sent' = << >> /\ wake' = {}
    /\ UNCHANGED <<timers, holder, scratch, held, stopped, call>>

-----------------------------------------------------------------------------
(* peek_message with removal: posted messages, then the move, the wheel,   *)
(* a Paint and a Timer, each only when none before it matches the filter   *)

Found(f) == {i \in DOMAIN posted : posted[i].win \in f}
First(f) == CHOOSE i \in Found(f) : \A j \in Found(f) : i <= j
Without(i) == Picked(posted, DOMAIN posted \ {i})

(* Mutant: the wheel event held back is forgotten. *)
TakePostedBlind(f) ==
    /\ Found(f) # {}
    /\ posted' = Without(First(f))
    /\ LET bit == Bit(posted[First(f)].kind)
       IN  wake' = IF bit \in BitsOf(posted') THEN wake ELSE wake \ {bit}
    /\ UNCHANGED <<move, scroll, dirty, timers>>

(* The bit goes with the last posted message of its kind, unless the       *)
(* wheel still holds an event; invalid regions are not looked at. *)
TakePosted(f) ==
    /\ Found(f) # {}
    /\ posted' = Without(First(f))
    /\ LET bit == Bit(posted[First(f)].kind)
       IN  wake' = IF bit \in BitsOf(posted') \/ (bit = "scroll" /\ scroll # None)
                   THEN wake ELSE wake \ {bit}
    /\ UNCHANGED <<move, scroll, dirty, timers>>

TakeMove(f) ==
    /\ Found(f) = {} /\ move \in f
    /\ move' = None /\ wake' = wake \ {"move"}
    /\ UNCHANGED <<posted, scroll, dirty, timers>>

Scrolled == IF scroll = None THEN {} ELSE {scroll[1]}

TakeScroll(f) ==
    /\ Found(f) = {} /\ move \notin f /\ Scrolled \cap f # {}
    /\ scroll' = None
    /\ wake' = IF "scroll" \in BitsOf(posted) THEN wake ELSE wake \ {"scroll"}
    /\ UNCHANGED <<posted, move, dirty, timers>>

(* The regions are a hash map: any of the windows asked for is next. *)
TakePaint(f) ==
    /\ Found(f) = {} /\ move \notin f /\ Scrolled \cap f = {}
    /\ \E w \in dirty \cap f : dirty' = dirty \ {w}
    /\ wake' = IF dirty' = {} THEN wake \ {"paint"} ELSE wake
    /\ UNCHANGED <<posted, move, scroll, timers>>

(* All timers that are due start over, although one is returned at most. *)
TakeTimer(f) ==
    /\ Found(f) = {} /\ move \notin f /\ (Scrolled \cup dirty) \cap f = {}
    /\ timers' = Rearmed
    /\ UNCHANGED <<posted, move, scroll, dirty, wake>>

Take(f) == TakePosted(f) \/ TakeMove(f) \/ TakeScroll(f) \/ TakePaint(f) \/ TakeTimer(f)

(* peek_message and get_message, which serve no sent message themselves;   *)
(* without removal only the timers can change. *)
Peek(f) ==
    /\ Free
    /\ Take(f)
    /\ UNCHANGED <<holder, sent, scratch, held, stopped, call>>

Look(f) ==
    /\ Free
    /\ TakeTimer(f)
    /\ UNCHANGED <<holder, sent, scratch, held, stopped, call>>

-----------------------------------------------------------------------------
(* Sent messages and the pump                                              *)

(* push_sent_message, and wait_for_reply begins. *)
Send(c) ==
    /\ Free /\ call[c] = "new"
    /\ call' = [call EXCEPT ![c] = "waiting"]
    /\ sent' = Append(sent, c) /\ wake' = wake \cup {"send"}
    /\ UNCHANGED <<input, dirty, timers, holder, scratch, held, stopped>>

(* wait_for_reply has waited REPLY_TIMEOUT. *)
WaitTimesOut(c) ==
    /\ call[c] = "waiting"
    /\ call' = [call EXCEPT ![c] = "timedOut"]
    /\ UNCHANGED <<input, dirty, timers, holder, wake, sent, scratch, held, stopped>>

(* Mutant: the list is copied and not swapped out. *)
TakeSentCopied ==
    /\ ~stopped /\ Free /\ sent # << >>
    /\ scratch' = sent /\ held' = TRUE
    /\ UNCHANGED <<input, dirty, timers, holder, wake, sent, stopped, call>>

(* pump_one: process_sent_messages swaps the list out, *)
TakeSent ==
    /\ ~stopped /\ Free /\ sent # << >>
    /\ scratch' = sent /\ sent' = << >> /\ held' = TRUE
    /\ UNCHANGED <<input, dirty, timers, holder, wake, stopped, call>>

(* the handler answers the first, for a sender that may be gone, *)
HandleSent ==
    /\ scratch # << >>
    /\ scratch' = Tail(scratch)
    /\ call' = [call EXCEPT ![Head(scratch)] = IF @ = "waiting" THEN "answered" ELSE @]
    /\ wake' = IF scratch' = << >> THEN wake \ {"send"} ELSE wake
    /\ UNCHANGED <<input, dirty, timers, holder, sent, held, stopped>>

(* Mutant: posted messages need not wait for the sent ones. *)
DispatchFirst ==
    /\ ~stopped
    /\ scratch = << >>
    /\ Take(Targets)
    /\ stopped' = (posted # << >> /\ Head(posted).kind = "quit")
    /\ held' = FALSE
    /\ UNCHANGED <<holder, sent, scratch, call>>

(* and one message is taken and dispatched. *)
Dispatch ==
    /\ ~stopped
    /\ IF held THEN scratch = << >> ELSE sent = << >>
    /\ Take(Targets)
    /\ stopped' = (posted # << >> /\ Head(posted).kind = "quit")
    /\ held' = FALSE
    /\ UNCHANGED <<holder, sent, scratch, call>>

PumpOne == TakeSent \/ HandleSent \/ Dispatch

(* An interval of a timer passes. *)
TimerElapses(w) ==
    /\ timers[w] = "armed"
    /\ timers' = [timers EXCEPT ![w] = "due"]
    /\ UNCHANGED <<input, dirty, holder, wake, sent, scratch, held, stopped, call>>

Next ==
    \/ \E w \in Windows :
          \/ \E k \in Posts : Post(w, k)
          \/ PostMove(w)
          \/ \E d \in Directions : PostWheel(w, d)
          \/ \E r \in Roles : SetHolder(r, w)
          \/ Invalidate(w) \/ Validate(w) \/ PurgeWindow(w)
    \/ \E r \in Roles : ClearHolder(r)
    \/ \E w \in Timed : SetTimer(w, "armed") \/ SetTimer(w, "off") \/ TimerElapses(w)
    \/ \E f \in Filters : Peek(f) \/ Look(f)
    \/ \E c \in Calls : Send(c) \/ WaitTimesOut(c)
    \/ PostQuit \/ CheckTimers \/ ThinKeyRepeats \/ Clear \/ PumpOne

(* The thread calls pump_one in its loop, until Quit. *)
Spec == Init /\ [][Next]_vars /\ WF_vars(PumpOne)

-----------------------------------------------------------------------------
(* Properties                                                              *)

Outstanding == Range(sent) \cup Range(scratch)

(* Types; a sent message is in one place once, was sent, and the queue is  *)
(* not given back while some that the pump took are not handled, nor are   *)
(* others sent then.                                                       *)
TypeOK ==
    /\ posted \in Seq([win : Targets, kind : Kinds]) /\ Len(posted) <= MaxPosted
    /\ move \in Windows \cup {None}
    /\ scroll \in (Windows \X Directions) \cup {None}
    /\ dirty \subseteq Windows
    /\ timers \in [Timed -> {"off", "armed", "due"}]
    /\ holder \in [Roles -> Windows \cup {None}]
    /\ wake \subseteq Bits
    /\ call \in [Calls -> {"new", "waiting", "answered", "timedOut"}]
    /\ held \in BOOLEAN /\ stopped \in BOOLEAN
    /\ sent \in Seq(Calls) /\ scratch \in Seq(Calls) /\ IsInjective(sent \o scratch)
    /\ \A c \in Outstanding : call[c] \in {"waiting", "timedOut"}
    /\ scratch # << >> => held
    /\ held => sent = << >>

(* has_messages reads the wake bits only: through coalescing, flushing,    *)
(* filtered retrieval, purging and clearing, a bit is set exactly while    *)
(* work of its kind is pending.  Two bits are weaker in the code: the last *)
(* posted Paint, or the last region, takes the paint bit with it though    *)
(* the other is pending (PaintAnnounced); and the timer bit is set by      *)
(* check_timers alone, so that it is missing from the moment a timer falls *)
(* due until the owner of the queue calls that method, though has_messages *)
(* (queue.rs:541) counts timers among the pending work, and no peek clears *)
(* it.                                                                     *)
WakeBitsHonest ==
    LET pending == Recomputed(posted, move, scroll, dirty, timers, sent \o scratch)
    IN  /\ wake \subseteq pending \cup {"timer"}
        /\ pending \subseteq wake \cup {"timer", "paint"}

(* What has_messages is documented to tell ("Returns `true` if there is    *)
(* any pending work (posted, sent, paint, timer, or mouse-move)",          *)
(* queue.rs:541): a queue with a region to paint is not without work.      *)
PaintAnnounced == dirty # {} => wake # {}

(* A window that is told of the focus is told right: whatever mixture of   *)
(* changes, retrievals by window and purges came before, the last message  *)
(* about a role that is pending for a window agrees with the queue's own   *)
(* focus_window or active_window, so the handlers end up believing what    *)
(* the queue does.                                                         *)
HolderSettles ==
    \A r \in Roles : \A i \in DOMAIN posted :
        LET w == posted[i].win
            last == \A j \in i + 1 .. Len(posted) :
                        ~(posted[j].win = w /\ posted[j].kind \in {Gained[r], Lost[r]})
        IN  last => /\ posted[i].kind = Gained[r] => holder[r] = w
                    /\ posted[i].kind = Lost[r] => holder[r] # w

(* Every sent message comes off the list, however fast others post, unless *)
(* the thread has left its loop: sent messages go before the posted ones.  *)
SentServed == \A c \in Calls : c \in Outstanding ~> c \notin Outstanding \/ stopped
=============================================================================
