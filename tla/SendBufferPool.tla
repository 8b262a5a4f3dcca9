--------------------------- MODULE SendBufferPool ---------------------------
(***************************************************************************)
(* The send buffer pool of a connection (liquide-transport/src/sendbuf.rs):*)
(* threads allocate buffers of a few size classes and give them back.      *)
(* Two atomic counters account for the bytes in use, the second one for    *)
(* those of the region reserved for the priorities P0 to P4; freed buffers *)
(* wait in per-class free lists behind a mutex.                            *)
(*                                                                         *)
(* A handle is one PoolBuffer: the call of alloc that makes it, the time   *)
(* it is held, and the call of dealloc or the drop that ends it.  One step *)
(* is one atomic operation or one critical section, so that handles of     *)
(* several threads interleave as the atomics allow.                        *)
(***************************************************************************)
EXTENDS Integers, FiniteSets

CONSTANTS
    Handles,       \* buffers that can exist, or be asked for, at the same time
    Sizes,         \* SIZE_CLASSES
    Capacity,      \* config.capacity
    Reserved,      \* config.reserved
    Backpressure,  \* bytes at which P5 is refused: capacity * backpressure_threshold
    Suspend,       \* bytes at which P6 is refused: capacity * suspend_threshold
    MaxFree        \* bound of the model: buffers in one free list

ASSUME PoolAssumption ==
    /\ IsFiniteSet(Handles)
    /\ Sizes \subseteq Nat \ {0}
    /\ {Capacity, Reserved, MaxFree} \subseteq Nat
    /\ {Backpressure, Suspend} \subseteq 0 .. Capacity

VARIABLES
    used,          \* bytes in use, reserved ones included
    reservedUsed,  \* bytes in use of the reserved region
    free,          \* size class -> buffers in its free list
    bufs           \* handle -> [pc, size, prio, reserved, seen]

vars == <<used, reservedUsed, free, bufs>>

Priorities == {"control", "graphics", "bulk"}     \* P0 to P4, P5, P6

(* Where a handle is: the loads and compare-and-swaps of alloc, the free   *)
(* list, the hands of its owner, the subtractions of dealloc and of drop.  *)
Steps == {"none", "reserve", "casReserve", "claim", "casClaim", "general", "casGeneral",
          "take", "held", "returnReserve", "push", "dropReserve"}

NoBuffer == [pc |-> "none", size |-> 0, prio |-> "bulk", reserved |-> FALSE, seen |-> 0]

Init ==
    /\ used = 0
    /\ reservedUsed = 0
    /\ free = [s \in Sizes |-> 0]
    /\ bufs = [h \in Handles |-> NoBuffer]

(* The most that may be in use after an allocation from the general pool. *)
Limit(prio) ==
    CASE prio = "control"  -> Capacity
      [] prio = "graphics" -> Backpressure
      [] prio = "bulk"     -> Suspend

-----------------------------------------------------------------------------
(* alloc                                                                   *)

Requested(s, p) ==
    [pc |-> IF p = "control" THEN "reserve" ELSE "general",
     size |-> s, prio |-> p, reserved |-> FALSE, seen |-> 0]

Alloc(h) ==
    /\ bufs[h].pc = "none"
    /\ \E s \in Sizes, p \in Priorities :
          bufs' = [bufs EXCEPT ![h] = Requested(s, p)]
    /\ UNCHANGED <<used, reservedUsed, free>>

(* The load of reserved_used; a full reserve sends the call to the general *)
(* pool.                                                                   *)
LoadReserve(h) ==
    /\ bufs[h].pc = "reserve"
    /\ bufs' = [bufs EXCEPT ![h] =
          IF reservedUsed + bufs[h].size > Reserved
          THEN [@ EXCEPT !.pc = "general"]
          ELSE [@ EXCEPT !.pc = "casReserve", !.seen = reservedUsed]]
    /\ UNCHANGED <<used, reservedUsed, free>>

CasReserve(h) ==
    /\ bufs[h].pc = "casReserve"
    /\ reservedUsed = bufs[h].seen
    /\ reservedUsed' = bufs[h].seen + bufs[h].size
    /\ bufs' = [bufs EXCEPT ![h].pc = "claim", ![h].seen = 0, ![h].reserved = TRUE]
    /\ UNCHANGED <<used, free>>

(* The claim of reserved bytes from used has no limit. *)
LoadClaim(h) ==
    /\ bufs[h].pc = "claim"
    /\ bufs' = [bufs EXCEPT ![h].seen = used, ![h].pc = "casClaim"]
    /\ UNCHANGED <<used, reservedUsed, free>>

CasClaim(h) ==
    /\ bufs[h].pc = "casClaim"
    /\ used = bufs[h].seen
    /\ used' = bufs[h].seen + bufs[h].size
    /\ bufs' = [bufs EXCEPT ![h].pc = "take", ![h].seen = 0]
    /\ UNCHANGED <<reservedUsed, free>>

(* The load of used for the general pool: None above the limit. *)
LoadGeneral(h) ==
    /\ bufs[h].pc = "general"
    /\ bufs' = [bufs EXCEPT ![h] =
          IF used + bufs[h].size > Limit(bufs[h].prio)
          THEN NoBuffer
          ELSE [@ EXCEPT !.pc = "casGeneral", !.seen = used]]
    /\ UNCHANGED <<used, reservedUsed, free>>

(* Mutant of CasGeneral: a plain addition after the check. *)
AddGeneral(h) ==
    /\ bufs[h].pc = "casGeneral"
    /\ used' = used + bufs[h].size
    /\ bufs' = [bufs EXCEPT ![h].pc = "take", ![h].seen = 0]
    /\ UNCHANGED <<reservedUsed, free>>

CasGeneral(h) ==
    /\ bufs[h].pc = "casGeneral"
    /\ used = bufs[h].seen
    /\ used' = bufs[h].seen + bufs[h].size
    /\ bufs' = [bufs EXCEPT ![h].pc = "take", ![h].seen = 0]
    /\ UNCHANGED <<reservedUsed, free>>

(* The counter has moved, or compare_exchange_weak failed for no reason:   *)
(* the loop loads again.                                                   *)
Again(h, cas, load) ==
    /\ bufs[h].pc = cas
    /\ bufs' = [bufs EXCEPT ![h].pc = load, ![h].seen = 0]

CasFails(h) ==
    /\ \/ Again(h, "casReserve", "reserve")
       \/ Again(h, "casClaim", "claim")
       \/ Again(h, "casGeneral", "general")
    /\ UNCHANGED <<used, reservedUsed, free>>

(* take_from_slab: a buffer of the free list, or a new one. *)
TakeFromSlab(h) ==
    /\ bufs[h].pc = "take"
    /\ free' = [free EXCEPT ![bufs[h].size] = IF @ = 0 THEN 0 ELSE @ - 1]
    /\ bufs' = [bufs EXCEPT ![h].pc = "held"]
    /\ UNCHANGED <<used, reservedUsed>>

-----------------------------------------------------------------------------
(* dealloc and drop                                                        *)

(* used.fetch_sub of dealloc; the buffer goes back to its free list last.  *)
Dealloc(h) ==
    /\ bufs[h].pc = "held"
    /\ used' = used - bufs[h].size
    /\ bufs' = [bufs EXCEPT ![h].pc = IF bufs[h].reserved THEN "returnReserve" ELSE "push"]
    /\ UNCHANGED <<reservedUsed, free>>

(* Mutant of DropBuffer: only dealloc gives the reserve back. *)
DropUsedOnly(h) ==
    /\ bufs[h].pc = "held"
    /\ used' = used - bufs[h].size
    /\ bufs' = [bufs EXCEPT ![h] = NoBuffer]
    /\ UNCHANGED <<reservedUsed, free>>

(* used.fetch_sub of Drop; the memory goes back to the allocator. *)
DropBuffer(h) ==
    /\ bufs[h].pc = "held"
    /\ used' = used - bufs[h].size
    /\ bufs' = [bufs EXCEPT ![h] = IF @.reserved THEN [@ EXCEPT !.pc = "dropReserve"]
                                                  ELSE NoBuffer]
    /\ UNCHANGED <<reservedUsed, free>>

(* reserved_used.fetch_sub of either. *)
ReleaseReserve(h) ==
    /\ bufs[h].pc \in {"returnReserve", "dropReserve"}
    /\ reservedUsed' = reservedUsed - bufs[h].size
    /\ bufs' = [bufs EXCEPT ![h] =
          IF @.pc = "returnReserve" THEN [@ EXCEPT !.pc = "push", !.reserved = FALSE]
                                    ELSE NoBuffer]
    /\ UNCHANGED <<used, free>>

(* Mutant of PushToSlab: Drop, which runs after the push as it did before,  *)
(* subtracts again because the size was not zeroed.                         *)
PushThenDrop(h) ==
    /\ bufs[h].pc = "push"
    /\ free' \in {free} \cup {[free EXCEPT ![s] = @ + 1] : s \in {t \in Sizes : free[t] < MaxFree}}
    /\ used' = used - bufs[h].size
    /\ bufs' = [bufs EXCEPT ![h] = NoBuffer]
    /\ UNCHANGED reservedUsed

(* The size is 0 by now, so the drop of the handle changes no counter.     *)
(* dealloc goes by the capacity the memory has now.  The owner may have    *)
(* made it grow, or put other memory in its place, as data is public: it   *)
(* joins the list of the class whose size it has, whichever class it was   *)
(* asked from, and is not kept if it has none.                             *)
PushToSlab(h) ==
    /\ bufs[h].pc = "push"
    /\ \/ free' = free
       \/ \E s \in Sizes :
             /\ free[s] < MaxFree
             /\ free' = [free EXCEPT ![s] = @ + 1]
    /\ bufs' = [bufs EXCEPT ![h] = NoBuffer]
    /\ UNCHANGED <<used, reservedUsed>>

-----------------------------------------------------------------------------
AllocStep(h) ==
    \/ LoadReserve(h) \/ CasReserve(h)
    \/ LoadClaim(h) \/ CasClaim(h)
    \/ LoadGeneral(h) \/ CasGeneral(h)
    \/ TakeFromSlab(h)

FreeStep(h) == ReleaseReserve(h) \/ PushToSlab(h)

Next == \E h \in Handles :
    Alloc(h) \/ AllocStep(h) \/ CasFails(h) \/ Dealloc(h) \/ DropBuffer(h) \/ FreeStep(h)

Spec == Init /\ [][Next]_vars

-----------------------------------------------------------------------------
(* The handles a counter stands for, and their bytes. *)
InUse == {h \in Handles : bufs[h].pc \in {"take", "held"}}
InReserve == {h \in Handles : bufs[h].reserved}
InGeneral == InUse \ InReserve
Bytes(hs) == {b \in hs \X (1 .. Capacity + Reserved) : b[2] <= bufs[b[1]].size}

(* Types; the loads remembered by the loops are values the counters can    *)
(* have, and only buffers of control priority are reserved.                *)
TypeOK ==
    /\ {used, reservedUsed} \subseteq 0 .. Capacity + Reserved
    /\ free \in [Sizes -> 0 .. MaxFree]
    /\ bufs \in [Handles -> [pc : Steps, size : Sizes \cup {0}, prio : Priorities,
                             reserved : BOOLEAN, seen : 0 .. Capacity + Reserved]]
    /\ \A h \in InReserve :
          /\ bufs[h].prio = "control"
          /\ bufs[h].pc \in {"claim", "casClaim", "take", "held", "returnReserve", "dropReserve"}

(* The two counters are the bytes of the buffers they stand for, at every  *)
(* step of every thread: a buffer is counted once however it ends, by      *)
(* dealloc (which zeroes its size before the drop) or by the drop alone.   *)
Accounted ==
    /\ used = Cardinality(Bytes(InUse))
    /\ reservedUsed = Cardinality(Bytes(InReserve))

(* The reserve is never overdrawn, and what the others take never exceeds  *)
(* the capacity, so that nothing they do can take the reserve away.  Both  *)
(* are checked by a load that other threads can outdate at once.           *)
RegionsBounded ==
    /\ Cardinality(Bytes(InReserve)) <= Reserved
    /\ Cardinality(Bytes(InGeneral)) <= Capacity

(* "Backpressure" and "Suspended": an allocation of graphics or bulk never *)
(* leaves more in use than its threshold, whatever was allocated between   *)
(* its check and its claim; one of control priority outside the reserve    *)
(* never more than the capacity.                                           *)
ClaimsWithinLimit ==
    [][\A h \in Handles : h \in InGeneral' \ InGeneral => used' <= Limit(bufs[h].prio)]_vars
=============================================================================
