-------------------------- MODULE SendBufferProofs --------------------------
(***************************************************************************)
(* Proofs about the send buffer pool, for any number of handles, any size  *)
(* classes and any configuration: the counters account for the buffers,    *)
(* and the regions are bounded.  The core is Totals: a step that changes   *)
(* one handle changes each total by that handle's bytes, and by nothing    *)
(* else.                                                                   *)
(***************************************************************************)
EXTENDS SendBufferPool, FiniteSetTheorems, TLAPS

Records == [pc : Steps, size : Sizes \cup {0}, prio : Priorities,
            reserved : BOOLEAN, seen : Nat]

(* The totals as functions of the handles. *)
UseOf(b) == {h \in Handles : b[h].pc \in {"take", "held"}}
ReserveOf(b) == {h \in Handles : b[h].reserved}
GeneralOf(b) == UseOf(b) \ ReserveOf(b)
BytesOf(b, hs) == {x \in hs \X (1 .. Capacity + Reserved) : x[2] <= b[x[1]].size}
Count(b, hs) == Cardinality(BytesOf(b, hs))

(* What one handle contributes to the bytes of a set of handles. *)
Share(b, hs, h) == IF h \in hs THEN b[h].size ELSE 0

(* What a handle's step says of its flag, its size and its last load. *)
HandleOK(r) ==
    /\ r.reserved => /\ r.prio = "control"
                     /\ r.pc \in {"claim", "casClaim", "take", "held",
                                  "returnReserve", "dropReserve"}
    /\ r.pc \in {"claim", "casClaim", "returnReserve", "dropReserve"} => r.reserved
    /\ r.pc \in {"reserve", "casReserve"} => r.prio = "control"
    /\ r.pc # "none" => r.size \in Sizes
    /\ r.reserved \/ r.pc \in {"take", "held"} => r.size <= Capacity + Reserved
    /\ r.pc = "casReserve" => r.seen + r.size <= Reserved
    /\ r.pc = "casGeneral" => r.seen + r.size <= Limit(r.prio)
    /\ r.seen <= Capacity + Reserved

(* The inductive invariant: a loop remembers a load under which its claim  *)
(* fits, and a compare-and-swap succeeds only while the load is true.      *)
IInv ==
    /\ free \in [Sizes -> 0 .. MaxFree]
    /\ bufs \in [Handles -> Records]
    /\ \A h \in Handles : HandleOK(bufs[h])
    /\ used = Count(bufs, UseOf(bufs))
    /\ reservedUsed = Count(bufs, ReserveOf(bufs))
    /\ Count(bufs, ReserveOf(bufs)) <= Reserved
    /\ Count(bufs, GeneralOf(bufs)) <= Capacity

-----------------------------------------------------------------------------
(* Counting bytes.                                                         *)

LEMMA LimitBounded ==
    ASSUME NEW p \in Priorities
    PROVE  Limit(p) \in Nat /\ Limit(p) <= Capacity
  BY PoolAssumption DEF Limit, Priorities

LEMMA BytesFinite ==
    ASSUME NEW b, NEW hs \in SUBSET Handles
    PROVE  IsFiniteSet(BytesOf(b, hs)) /\ Count(b, hs) \in Nat
  <1>1. IsFiniteSet(hs)
    BY FS_Subset, PoolAssumption
  <1>2. IsFiniteSet(1 .. Capacity + Reserved)
    BY FS_Interval, PoolAssumption
  <1>3. IsFiniteSet(hs \X (1 .. Capacity + Reserved))
    BY <1>1, <1>2, FS_Product
  <1>4. BytesOf(b, hs) \in SUBSET (hs \X (1 .. Capacity + Reserved))
    BY DEF BytesOf
  <1>5. IsFiniteSet(BytesOf(b, hs))
    BY <1>3, <1>4, FS_Subset
  <1> QED
    BY <1>5, FS_CardinalityType DEF Count

LEMMA RecordTyped ==
    ASSUME NEW r \in Records
    PROVE  r.size \in Nat /\ r.seen \in Nat /\ r.prio \in Priorities /\ r.pc \in Steps
  <1>1. r.size \in Sizes \cup {0} /\ r.seen \in Nat /\ r.prio \in Priorities /\ r.pc \in Steps
    BY DEF Records
  <1>2. Sizes \cup {0} \subseteq Nat
    BY PoolAssumption
  <1> QED
    BY <1>1, <1>2

(* One more handle adds its size. *)
LEMMA CountAdd ==
    ASSUME NEW b, NEW hs \in SUBSET Handles, NEW h \in Handles \ hs,
           NEW n \in Nat, n = b[h].size, n <= Capacity + Reserved
    PROVE  Count(b, hs \cup {h}) = Count(b, hs) + n
  <1> DEFINE own == {h} \X (1 .. n)
  <1>1. BytesOf(b, hs \cup {h}) = BytesOf(b, hs) \cup own
    <2>1. ASSUME NEW x \in BytesOf(b, hs \cup {h})
          PROVE  x \in BytesOf(b, hs) \cup own
      BY PoolAssumption DEF BytesOf
    <2>2. BytesOf(b, hs) \subseteq BytesOf(b, hs \cup {h})
      BY DEF BytesOf
    <2>3. ASSUME NEW x \in own
          PROVE  x \in BytesOf(b, hs \cup {h})
      BY PoolAssumption DEF BytesOf
    <2> QED
      BY <2>1, <2>2, <2>3
  <1>2. BytesOf(b, hs) \cap own = {}
    BY DEF BytesOf
  <1>3. IsFiniteSet(1 .. n) /\ Cardinality(1 .. n) = n
    BY FS_Interval
  <1>4. IsFiniteSet({h}) /\ Cardinality({h}) = 1
    BY FS_Singleton
  <1>5. IsFiniteSet(own) /\ Cardinality(own) = 1 * n
    BY <1>3, <1>4, FS_Product
  <1>6. IsFiniteSet(BytesOf(b, hs)) /\ Count(b, hs) \in Nat
    BY BytesFinite
  <1>7. Cardinality(BytesOf(b, hs) \cup own)
            = Cardinality(BytesOf(b, hs)) + Cardinality(own)
                - Cardinality(BytesOf(b, hs) \cap own)
    BY <1>5, <1>6, FS_Union
  <1>8. Cardinality(BytesOf(b, hs) \cap own) = 0
    BY <1>2, FS_EmptySet
  <1>9. Cardinality(BytesOf(b, hs) \cup own) = Cardinality(BytesOf(b, hs)) + n
    <2> HIDE DEF own
    <2>1. Cardinality(BytesOf(b, hs)) \in Nat
      BY <1>6 DEF Count
    <2> QED
      BY <2>1, <1>5, <1>7, <1>8
  <1> QED
    BY <1>1, <1>9 DEF Count

(* The bytes depend on the sizes alone. *)
LEMMA CountSame ==
    ASSUME NEW b, NEW c, NEW hs, \A k \in hs : c[k].size = b[k].size
    PROVE  Count(c, hs) = Count(b, hs)
  <1>1. BytesOf(c, hs) = BytesOf(b, hs)
    BY DEF BytesOf
  <1> QED
    BY <1>1 DEF Count

(* A set of handles counts what it counts without h, and the share of h. *)
LEMMA CountSplit ==
    ASSUME NEW b, NEW hs \in SUBSET Handles, NEW h \in Handles,
           h \in hs => b[h].size \in Nat /\ b[h].size <= Capacity + Reserved
    PROVE  Count(b, hs) = Count(b, hs \ {h}) + Share(b, hs, h)
  <1>1. CASE h \in hs
    <2>1. hs = (hs \ {h}) \cup {h} /\ h \in Handles \ (hs \ {h})
      BY <1>1
    <2>2. Count(b, (hs \ {h}) \cup {h}) = Count(b, hs \ {h}) + b[h].size
      <3>1. /\ hs \ {h} \in SUBSET Handles
            /\ b[h].size \in Nat
            /\ b[h].size <= Capacity + Reserved
        BY <1>1
      <3> QED
        BY <2>1, <3>1, CountAdd
    <2> QED
      BY <1>1, <2>1, <2>2 DEF Share
  <1>2. CASE h \notin hs
    <2>1. hs = hs \ {h}
      BY <1>2
    <2>2. Count(b, hs) \in Nat
      BY BytesFinite
    <2>3. Count(b, hs) = Count(b, hs \ {h})
      BY <2>1
    <2>4. Share(b, hs, h) = 0
      BY <1>2 DEF Share
    <2> QED
      BY <2>2, <2>3, <2>4
  <1> QED
    BY <1>1, <1>2

(* From b to c only handle h changes, and hs becomes ks. *)
Moves(b, c, h, hs, ks) ==
    /\ b \in [Handles -> Records] /\ c \in [Handles -> Records]
    /\ h \in Handles /\ \A k \in Handles \ {h} : c[k] = b[k]
    /\ hs \in SUBSET Handles /\ ks \in SUBSET Handles
    /\ hs \ {h} = ks \ {h}
    /\ h \in hs => b[h].size <= Capacity + Reserved
    /\ h \in ks => c[h].size <= Capacity + Reserved

(* The total changes by the share of the handle that changes. *)
LEMMA CountMoves ==
    ASSUME NEW b, NEW c, NEW h, NEW hs, NEW ks, Moves(b, c, h, hs, ks)
    PROVE  Count(c, ks) = Count(b, hs) - Share(b, hs, h) + Share(c, ks, h)
  <1> USE DEF Moves
  <1>1. b[h].size \in Nat /\ c[h].size \in Nat
    <2>1. b[h] \in Records /\ c[h] \in Records
      OBVIOUS
    <2> QED
      BY <2>1, RecordTyped
  <1>2. Count(b, hs) = Count(b, hs \ {h}) + Share(b, hs, h)
    BY <1>1, CountSplit
  <1>3. Count(c, ks) = Count(c, ks \ {h}) + Share(c, ks, h)
    BY <1>1, CountSplit
  <1>4. Count(c, ks \ {h}) = Count(b, ks \ {h})
    BY CountSame
  <1>5. Count(b, hs \ {h}) \in Nat
    BY BytesFinite
  <1>6. Share(b, hs, h) \in Nat /\ Share(c, ks, h) \in Nat
    BY <1>1 DEF Share
  <1>7. Count(b, ks \ {h}) = Count(b, hs \ {h})
    OBVIOUS
  <1>8. Count(c, ks) = Count(b, hs \ {h}) + Share(c, ks, h)
    BY <1>3, <1>4, <1>7
  <1> QED
    BY <1>2, <1>5, <1>6, <1>8

(* The share of a handle in each of the totals, from its record. *)
UseShare(r) == IF r.pc \in {"take", "held"} THEN r.size ELSE 0
ReserveShare(r) == IF r.reserved THEN r.size ELSE 0
GeneralShare(r) == IF r.pc \in {"take", "held"} /\ ~r.reserved THEN r.size ELSE 0

LEMMA Totals ==
    ASSUME NEW b \in [Handles -> Records], NEW h \in Handles, NEW r \in Records,
           HandleOK(b[h]), HandleOK(r), NEW c, c = [b EXCEPT ![h] = r]
    PROVE  /\ Count(c, UseOf(c)) = Count(b, UseOf(b)) - UseShare(b[h]) + UseShare(r)
           /\ Count(c, ReserveOf(c))
                = Count(b, ReserveOf(b)) - ReserveShare(b[h]) + ReserveShare(r)
           /\ Count(c, GeneralOf(c))
                = Count(b, GeneralOf(b)) - GeneralShare(b[h]) + GeneralShare(r)
  <1>1. c \in [Handles -> Records] /\ c[h] = r /\ \A k \in Handles \ {h} : c[k] = b[k]
    OBVIOUS
  <1>2. UseOf(b) \ {h} = UseOf(c) \ {h}
    BY <1>1 DEF UseOf
  <1>3. ReserveOf(b) \ {h} = ReserveOf(c) \ {h}
    BY <1>1 DEF ReserveOf
  <1>4. GeneralOf(b) \ {h} = GeneralOf(c) \ {h}
    BY <1>2, <1>3 DEF GeneralOf
  <1>5. /\ UseOf(b) \in SUBSET Handles /\ UseOf(c) \in SUBSET Handles
        /\ ReserveOf(b) \in SUBSET Handles /\ ReserveOf(c) \in SUBSET Handles
        /\ GeneralOf(b) \in SUBSET Handles /\ GeneralOf(c) \in SUBSET Handles
    BY DEF UseOf, ReserveOf, GeneralOf
  <1>6. /\ h \in UseOf(b) \/ h \in ReserveOf(b) \/ h \in GeneralOf(b)
              => b[h].size <= Capacity + Reserved
        /\ h \in UseOf(c) \/ h \in ReserveOf(c) \/ h \in GeneralOf(c)
              => c[h].size <= Capacity + Reserved
    BY <1>1 DEF UseOf, ReserveOf, GeneralOf, HandleOK
  <1>7. /\ Share(b, UseOf(b), h) = UseShare(b[h])
        /\ Share(c, UseOf(c), h) = UseShare(r)
    BY <1>1 DEF Share, UseShare, UseOf
  <1>8. /\ Share(b, ReserveOf(b), h) = ReserveShare(b[h])
        /\ Share(c, ReserveOf(c), h) = ReserveShare(r)
    BY <1>1 DEF Share, ReserveShare, ReserveOf
  <1>9. /\ Share(b, GeneralOf(b), h) = GeneralShare(b[h])
        /\ Share(c, GeneralOf(c), h) = GeneralShare(r)
    BY <1>1 DEF Share, GeneralShare, GeneralOf, UseOf, ReserveOf
  <1>10. Count(c, UseOf(c)) = Count(b, UseOf(b)) - UseShare(b[h]) + UseShare(r)
    <2>1. h \in UseOf(b) => b[h].size <= Capacity + Reserved
      BY <1>6
    <2>2. h \in UseOf(c) => c[h].size <= Capacity + Reserved
      BY <1>6
    <2>3. Moves(b, c, h, UseOf(b), UseOf(c))
      BY <1>1, <1>2, <1>5, <2>1, <2>2 DEF Moves
    <2>4. Count(c, UseOf(c))
            = Count(b, UseOf(b)) - Share(b, UseOf(b), h) + Share(c, UseOf(c), h)
      BY <2>3, CountMoves
    <2> QED
      BY <2>4, <1>7
  <1>11. Count(c, ReserveOf(c))
            = Count(b, ReserveOf(b)) - ReserveShare(b[h]) + ReserveShare(r)
    <2>1. h \in ReserveOf(b) => b[h].size <= Capacity + Reserved
      BY <1>6
    <2>2. h \in ReserveOf(c) => c[h].size <= Capacity + Reserved
      BY <1>6
    <2>3. Moves(b, c, h, ReserveOf(b), ReserveOf(c))
      BY <1>1, <1>3, <1>5, <2>1, <2>2 DEF Moves
    <2>4. Count(c, ReserveOf(c))
            = Count(b, ReserveOf(b)) - Share(b, ReserveOf(b), h) + Share(c, ReserveOf(c), h)
      BY <2>3, CountMoves
    <2> QED
      BY <2>4, <1>8
  <1>12. Count(c, GeneralOf(c))
            = Count(b, GeneralOf(b)) - GeneralShare(b[h]) + GeneralShare(r)
    <2>1. h \in GeneralOf(b) => b[h].size <= Capacity + Reserved
      BY <1>6
    <2>2. h \in GeneralOf(c) => c[h].size <= Capacity + Reserved
      BY <1>6
    <2>3. Moves(b, c, h, GeneralOf(b), GeneralOf(c))
      BY <1>1, <1>4, <1>5, <2>1, <2>2 DEF Moves
    <2>4. Count(c, GeneralOf(c))
            = Count(b, GeneralOf(b)) - Share(b, GeneralOf(b), h) + Share(c, GeneralOf(c), h)
      BY <2>3, CountMoves
    <2> QED
      BY <2>4, <1>9
  <1> QED
    BY <1>10, <1>11, <1>12

(* What is in use is general or reserved. *)
LEMMA UseCovered ==
    ASSUME NEW b
    PROVE  /\ Count(b, UseOf(b)) <= Count(b, GeneralOf(b)) + Count(b, ReserveOf(b))
           /\ Count(b, GeneralOf(b)) <= Count(b, UseOf(b))
           /\ {Count(b, UseOf(b)), Count(b, GeneralOf(b)), Count(b, ReserveOf(b))} \subseteq Nat
  <1> DEFINE G == BytesOf(b, GeneralOf(b))
             R == BytesOf(b, ReserveOf(b))
             U == BytesOf(b, UseOf(b))
  <1>1. /\ UseOf(b) \in SUBSET Handles
        /\ ReserveOf(b) \in SUBSET Handles
        /\ GeneralOf(b) \in SUBSET Handles
    BY DEF UseOf, ReserveOf, GeneralOf
  <1>2. /\ IsFiniteSet(G) /\ Cardinality(G) \in Nat
        /\ IsFiniteSet(R) /\ Cardinality(R) \in Nat
        /\ IsFiniteSet(U) /\ Cardinality(U) \in Nat
    BY <1>1, BytesFinite DEF Count
  <1>3. U \in SUBSET (G \cup R)
    BY DEF BytesOf, GeneralOf
  <1>4. /\ IsFiniteSet(G \cup R)
        /\ Cardinality(G \cup R) = Cardinality(G) + Cardinality(R) - Cardinality(G \cap R)
    BY <1>2, FS_Union
  <1>5. Cardinality(G \cap R) \in Nat
    BY <1>2, FS_Intersection, FS_CardinalityType
  <1>6. Cardinality(U) <= Cardinality(G \cup R)
    BY <1>3, <1>4, FS_Subset
  <1>7. Cardinality(U) <= Cardinality(G) + Cardinality(R)
    BY <1>2, <1>4, <1>5, <1>6
  <1>8. G \in SUBSET U
    BY DEF BytesOf, GeneralOf
  <1>9. Cardinality(G) <= Cardinality(U)
    BY <1>2, <1>8, FS_Subset
  <1> QED
    BY <1>2, <1>7, <1>9 DEF Count

-----------------------------------------------------------------------------
(* A step of one handle keeps the invariant when its new record is allowed *)
(* and the counters change by its shares.                                  *)
StepOf(h, r) ==
    /\ h \in Handles /\ r \in Records /\ HandleOK(r)
    /\ bufs' = [bufs EXCEPT ![h] = r]
    /\ free' \in [Sizes -> 0 .. MaxFree]
    /\ used' = used - UseShare(bufs[h]) + UseShare(r)
    /\ reservedUsed' = reservedUsed - ReserveShare(bufs[h]) + ReserveShare(r)
    /\ reservedUsed' <= Reserved
    /\ GeneralShare(r) <= GeneralShare(bufs[h]) \/ used' <= Capacity

LEMMA StepKeeps ==
    ASSUME IInv, NEW h, NEW r, StepOf(h, r)
    PROVE  IInv'
  <1>1. bufs \in [Handles -> Records] /\ h \in Handles /\ r \in Records
    BY DEF IInv, StepOf
  <1>2. HandleOK(bufs[h]) /\ HandleOK(r) /\ bufs' = [bufs EXCEPT ![h] = r]
    BY DEF IInv, StepOf
  <1>3. /\ Count(bufs', UseOf(bufs'))
              = Count(bufs, UseOf(bufs)) - UseShare(bufs[h]) + UseShare(r)
        /\ Count(bufs', ReserveOf(bufs'))
              = Count(bufs, ReserveOf(bufs)) - ReserveShare(bufs[h]) + ReserveShare(r)
        /\ Count(bufs', GeneralOf(bufs'))
              = Count(bufs, GeneralOf(bufs)) - GeneralShare(bufs[h]) + GeneralShare(r)
    BY <1>1, <1>2, Totals
  <1>4. used' = Count(bufs', UseOf(bufs')) /\ reservedUsed' = Count(bufs', ReserveOf(bufs'))
    BY <1>3 DEF IInv, StepOf
  <1>5. Count(bufs', ReserveOf(bufs')) <= Reserved
    BY <1>4 DEF StepOf
  <1>6. Count(bufs', GeneralOf(bufs')) <= Capacity
    <2>1. CASE used' <= Capacity
      <3>1. Count(bufs', GeneralOf(bufs')) <= Count(bufs', UseOf(bufs'))
        BY UseCovered
      <3>2. {Count(bufs', GeneralOf(bufs')), Count(bufs', UseOf(bufs'))} \subseteq Nat
        BY UseCovered
      <3> QED
        BY <2>1, <3>1, <3>2, <1>4, PoolAssumption
    <2>2. CASE GeneralShare(r) <= GeneralShare(bufs[h])
      <3>1. Count(bufs, GeneralOf(bufs)) \in Nat /\ Count(bufs, GeneralOf(bufs)) <= Capacity
        BY UseCovered DEF IInv
      <3>2. GeneralShare(r) \in Nat /\ GeneralShare(bufs[h]) \in Nat
        <4>1. r.size \in Nat /\ bufs[h].size \in Nat
          BY <1>1, RecordTyped
        <4> QED
          BY <4>1 DEF GeneralShare
      <3> QED
        BY <2>2, <3>1, <3>2, <1>3, PoolAssumption
    <2> QED
      BY <2>1, <2>2 DEF StepOf
  <1>7. bufs' \in [Handles -> Records]
    BY <1>1, <1>2
  <1>8. \A k \in Handles : HandleOK(bufs'[k])
    BY <1>1, <1>2 DEF IInv
  <1>9. free' \in [Sizes -> 0 .. MaxFree]
    BY DEF StepOf
  <1> QED
    BY <1>4, <1>5, <1>6, <1>7, <1>8, <1>9 DEF IInv

(* What a step may use of the handle it moves. *)
LEMMA HandleFacts ==
    ASSUME IInv, NEW h \in Handles
    PROVE  /\ bufs[h] \in Records /\ HandleOK(bufs[h])
           /\ bufs[h].size \in Nat /\ bufs[h].seen \in Nat
           /\ bufs[h].prio \in Priorities /\ bufs[h].pc \in Steps
           /\ bufs[h].reserved \in BOOLEAN
           /\ used \in Nat /\ used <= Capacity + Reserved
           /\ reservedUsed \in Nat /\ reservedUsed <= Reserved
           /\ Capacity \in Nat /\ Reserved \in Nat
           /\ Limit(bufs[h].prio) \in Nat /\ Limit(bufs[h].prio) <= Capacity
  <1>1. bufs[h] \in Records /\ HandleOK(bufs[h])
    BY DEF IInv
  <1>2. /\ bufs[h].size \in Nat /\ bufs[h].seen \in Nat
        /\ bufs[h].prio \in Priorities /\ bufs[h].pc \in Steps
    BY <1>1, RecordTyped
  <1>3. bufs[h].reserved \in BOOLEAN
    BY <1>1 DEF Records
  <1>4. /\ used = Count(bufs, UseOf(bufs))
        /\ reservedUsed = Count(bufs, ReserveOf(bufs))
        /\ Count(bufs, ReserveOf(bufs)) <= Reserved
        /\ Count(bufs, GeneralOf(bufs)) <= Capacity
    BY DEF IInv
  <1>5. /\ Count(bufs, UseOf(bufs)) <= Count(bufs, GeneralOf(bufs)) + Count(bufs, ReserveOf(bufs))
        /\ {Count(bufs, UseOf(bufs)), Count(bufs, GeneralOf(bufs)),
            Count(bufs, ReserveOf(bufs))} \subseteq Nat
    BY UseCovered
  <1>6. Capacity \in Nat /\ Reserved \in Nat
    BY PoolAssumption
  <1>7. used \in Nat /\ used <= Capacity + Reserved /\ reservedUsed \in Nat /\ reservedUsed <= Reserved
    BY <1>4, <1>5, <1>6
  <1>8. Limit(bufs[h].prio) \in Nat /\ Limit(bufs[h].prio) <= Capacity
    BY <1>2, LimitBounded
  <1> QED
    BY <1>1, <1>2, <1>3, <1>6, <1>7, <1>8

-----------------------------------------------------------------------------
(* One lemma per action. *)

LEMMA LoadReserveKeeps ==
    ASSUME IInv, NEW h \in Handles, LoadReserve(h)
    PROVE  IInv'
  <1> DEFINE old == bufs[h]
  <1>1. /\ old \in Records /\ HandleOK(old)
        /\ old.size \in Nat /\ old.seen \in Nat
        /\ used \in Nat /\ used <= Capacity + Reserved
        /\ reservedUsed \in Nat /\ reservedUsed <= Reserved
        /\ Capacity \in Nat /\ Reserved \in Nat
        /\ Limit(old.prio) \in Nat /\ Limit(old.prio) <= Capacity
    BY HandleFacts
  <1>2. bufs \in [Handles -> Records] /\ free \in [Sizes -> 0 .. MaxFree]
    BY DEF IInv
  <1>3. CASE reservedUsed + old.size > Reserved
    <2> DEFINE r == [old EXCEPT !.pc = "general"]
    <2>1. r \in Records
      BY <1>1, <1>3 DEF Records, LoadReserve, Steps, Priorities, NoBuffer
    <2>2. HandleOK(r)
      BY <1>1, <1>3, PoolAssumption DEF HandleOK, LoadReserve, NoBuffer
    <2>3. bufs' = [bufs EXCEPT ![h] = r] /\ free' \in [Sizes -> 0 .. MaxFree]
      BY <1>1, <1>2, <1>3 DEF LoadReserve, HandleOK
    <2>4. /\ used' = used - UseShare(old) + UseShare(r)
          /\ reservedUsed' = reservedUsed - ReserveShare(old) + ReserveShare(r)
      BY <1>1, <1>3 DEF LoadReserve, UseShare, ReserveShare, GeneralShare, HandleOK, NoBuffer
    <2>5. reservedUsed' <= Reserved
      BY <1>1, <1>3 DEF LoadReserve, HandleOK
    <2>6. GeneralShare(r) <= GeneralShare(old) \/ used' <= Capacity
      BY <1>1, <1>3 DEF LoadReserve, UseShare, ReserveShare, GeneralShare, HandleOK, NoBuffer
    <2> QED
      BY <2>1, <2>2, <2>3, <2>4, <2>5, <2>6, StepKeeps DEF StepOf
  <1>4. CASE ~(reservedUsed + old.size > Reserved)
    <2> DEFINE r == [old EXCEPT !.pc = "casReserve", !.seen = reservedUsed]
    <2>1. r \in Records
      BY <1>1, <1>4 DEF Records, LoadReserve, Steps, Priorities, NoBuffer
    <2>2. HandleOK(r)
      BY <1>1, <1>4, PoolAssumption DEF HandleOK, LoadReserve, NoBuffer
    <2>3. bufs' = [bufs EXCEPT ![h] = r] /\ free' \in [Sizes -> 0 .. MaxFree]
      BY <1>1, <1>2, <1>4 DEF LoadReserve, HandleOK
    <2>4. /\ used' = used - UseShare(old) + UseShare(r)
          /\ reservedUsed' = reservedUsed - ReserveShare(old) + ReserveShare(r)
      BY <1>1, <1>4 DEF LoadReserve, UseShare, ReserveShare, GeneralShare, HandleOK, NoBuffer
    <2>5. reservedUsed' <= Reserved
      BY <1>1, <1>4 DEF LoadReserve, HandleOK
    <2>6. GeneralShare(r) <= GeneralShare(old) \/ used' <= Capacity
      BY <1>1, <1>4 DEF LoadReserve, UseShare, ReserveShare, GeneralShare, HandleOK, NoBuffer
    <2> QED
      BY <2>1, <2>2, <2>3, <2>4, <2>5, <2>6, StepKeeps DEF StepOf
  <1> QED
    BY <1>3, <1>4

LEMMA CasReserveKeeps ==
    ASSUME IInv, NEW h \in Handles, CasReserve(h)
    PROVE  IInv'
  <1> DEFINE old == bufs[h]
  <1>1. /\ old \in Records /\ HandleOK(old)
        /\ old.size \in Nat /\ old.seen \in Nat
        /\ used \in Nat /\ used <= Capacity + Reserved
        /\ reservedUsed \in Nat /\ reservedUsed <= Reserved
        /\ Capacity \in Nat /\ Reserved \in Nat
        /\ Limit(old.prio) \in Nat /\ Limit(old.prio) <= Capacity
    BY HandleFacts
  <1>2. bufs \in [Handles -> Records] /\ free \in [Sizes -> 0 .. MaxFree]
    BY DEF IInv
  <1>3. IInv'
    <2> DEFINE r == [old EXCEPT !.pc = "claim", !.seen = 0, !.reserved = TRUE]
    <2>1. r \in Records
      BY <1>1 DEF Records, CasReserve, Steps, Priorities, NoBuffer
    <2>2. HandleOK(r)
      BY <1>1, PoolAssumption DEF HandleOK, CasReserve, NoBuffer
    <2>3. bufs' = [bufs EXCEPT ![h] = r] /\ free' \in [Sizes -> 0 .. MaxFree]
      BY <1>1, <1>2 DEF CasReserve, HandleOK
    <2>4. /\ used' = used - UseShare(old) + UseShare(r)
          /\ reservedUsed' = reservedUsed - ReserveShare(old) + ReserveShare(r)
      BY <1>1 DEF CasReserve, UseShare, ReserveShare, GeneralShare, HandleOK, NoBuffer
    <2>5. reservedUsed' <= Reserved
      BY <1>1 DEF CasReserve, HandleOK
    <2>6. GeneralShare(r) <= GeneralShare(old) \/ used' <= Capacity
      BY <1>1 DEF CasReserve, UseShare, ReserveShare, GeneralShare, HandleOK, NoBuffer
    <2> QED
      BY <2>1, <2>2, <2>3, <2>4, <2>5, <2>6, StepKeeps DEF StepOf
  <1> QED
    BY <1>3

LEMMA LoadClaimKeeps ==
    ASSUME IInv, NEW h \in Handles, LoadClaim(h)
    PROVE  IInv'
  <1> DEFINE old == bufs[h]
  <1>1. /\ old \in Records /\ HandleOK(old)
        /\ old.size \in Nat /\ old.seen \in Nat
        /\ used \in Nat /\ used <= Capacity + Reserved
        /\ reservedUsed \in Nat /\ reservedUsed <= Reserved
        /\ Capacity \in Nat /\ Reserved \in Nat
        /\ Limit(old.prio) \in Nat /\ Limit(old.prio) <= Capacity
    BY HandleFacts
  <1>2. bufs \in [Handles -> Records] /\ free \in [Sizes -> 0 .. MaxFree]
    BY DEF IInv
  <1>3. IInv'
    <2> DEFINE r == [old EXCEPT !.pc = "casClaim", !.seen = used]
    <2>1. r \in Records
      BY <1>1 DEF Records, LoadClaim, Steps, Priorities, NoBuffer
    <2>2. HandleOK(r)
      BY <1>1, PoolAssumption DEF HandleOK, LoadClaim, NoBuffer
    <2>3. bufs' = [bufs EXCEPT ![h] = r] /\ free' \in [Sizes -> 0 .. MaxFree]
      BY <1>1, <1>2 DEF LoadClaim, HandleOK
    <2>4. /\ used' = used - UseShare(old) + UseShare(r)
          /\ reservedUsed' = reservedUsed - ReserveShare(old) + ReserveShare(r)
      BY <1>1 DEF LoadClaim, UseShare, ReserveShare, GeneralShare, HandleOK, NoBuffer
    <2>5. reservedUsed' <= Reserved
      BY <1>1 DEF LoadClaim, HandleOK
    <2>6. GeneralShare(r) <= GeneralShare(old) \/ used' <= Capacity
      BY <1>1 DEF LoadClaim, UseShare, ReserveShare, GeneralShare, HandleOK, NoBuffer
    <2> QED
      BY <2>1, <2>2, <2>3, <2>4, <2>5, <2>6, StepKeeps DEF StepOf
  <1> QED
    BY <1>3

LEMMA CasClaimKeeps ==
    ASSUME IInv, NEW h \in Handles, CasClaim(h)
    PROVE  IInv'
  <1> DEFINE old == bufs[h]
  <1>1. /\ old \in Records /\ HandleOK(old)
        /\ old.size \in Nat /\ old.seen \in Nat
        /\ used \in Nat /\ used <= Capacity + Reserved
        /\ reservedUsed \in Nat /\ reservedUsed <= Reserved
        /\ Capacity \in Nat /\ Reserved \in Nat
        /\ Limit(old.prio) \in Nat /\ Limit(old.prio) <= Capacity
    BY HandleFacts
  <1>2. bufs \in [Handles -> Records] /\ free \in [Sizes -> 0 .. MaxFree]
    BY DEF IInv
  <1>3. IInv'
    <2> DEFINE r == [old EXCEPT !.pc = "take", !.seen = 0]
    <2>1. r \in Records
      BY <1>1 DEF Records, CasClaim, Steps, Priorities, NoBuffer
    <2>2. HandleOK(r)
      BY <1>1, PoolAssumption DEF HandleOK, CasClaim, NoBuffer
    <2>3. bufs' = [bufs EXCEPT ![h] = r] /\ free' \in [Sizes -> 0 .. MaxFree]
      BY <1>1, <1>2 DEF CasClaim, HandleOK
    <2>4. /\ used' = used - UseShare(old) + UseShare(r)
          /\ reservedUsed' = reservedUsed - ReserveShare(old) + ReserveShare(r)
      BY <1>1 DEF CasClaim, UseShare, ReserveShare, GeneralShare, HandleOK, NoBuffer
    <2>5. reservedUsed' <= Reserved
      BY <1>1 DEF CasClaim, HandleOK
    <2>6. GeneralShare(r) <= GeneralShare(old) \/ used' <= Capacity
      BY <1>1 DEF CasClaim, UseShare, ReserveShare, GeneralShare, HandleOK, NoBuffer
    <2> QED
      BY <2>1, <2>2, <2>3, <2>4, <2>5, <2>6, StepKeeps DEF StepOf
  <1> QED
    BY <1>3

LEMMA LoadGeneralKeeps ==
    ASSUME IInv, NEW h \in Handles, LoadGeneral(h)
    PROVE  IInv'
  <1> DEFINE old == bufs[h]
  <1>1. /\ old \in Records /\ HandleOK(old)
        /\ old.size \in Nat /\ old.seen \in Nat
        /\ used \in Nat /\ used <= Capacity + Reserved
        /\ reservedUsed \in Nat /\ reservedUsed <= Reserved
        /\ Capacity \in Nat /\ Reserved \in Nat
        /\ Limit(old.prio) \in Nat /\ Limit(old.prio) <= Capacity
    BY HandleFacts
  <1>2. bufs \in [Handles -> Records] /\ free \in [Sizes -> 0 .. MaxFree]
    BY DEF IInv
  <1>3. CASE used + old.size > Limit(old.prio)
    <2> DEFINE r == NoBuffer
    <2>1. r \in Records
      BY <1>1, <1>3 DEF Records, LoadGeneral, Steps, Priorities, NoBuffer
    <2>2. HandleOK(r)
      BY <1>1, <1>3, PoolAssumption DEF HandleOK, LoadGeneral, NoBuffer
    <2>3. bufs' = [bufs EXCEPT ![h] = r] /\ free' \in [Sizes -> 0 .. MaxFree]
      BY <1>1, <1>2, <1>3 DEF LoadGeneral, HandleOK
    <2>4. /\ used' = used - UseShare(old) + UseShare(r)
          /\ reservedUsed' = reservedUsed - ReserveShare(old) + ReserveShare(r)
      BY <1>1, <1>3 DEF LoadGeneral, UseShare, ReserveShare, GeneralShare, HandleOK, NoBuffer
    <2>5. reservedUsed' <= Reserved
      BY <1>1, <1>3 DEF LoadGeneral, HandleOK
    <2>6. GeneralShare(r) <= GeneralShare(old) \/ used' <= Capacity
      BY <1>1, <1>3 DEF LoadGeneral, UseShare, ReserveShare, GeneralShare, HandleOK, NoBuffer
    <2> QED
      BY <2>1, <2>2, <2>3, <2>4, <2>5, <2>6, StepKeeps DEF StepOf
  <1>4. CASE ~(used + old.size > Limit(old.prio))
    <2> DEFINE r == [old EXCEPT !.pc = "casGeneral", !.seen = used]
    <2>1. r \in Records
      BY <1>1, <1>4 DEF Records, LoadGeneral, Steps, Priorities, NoBuffer
    <2>2. HandleOK(r)
      BY <1>1, <1>4, PoolAssumption DEF HandleOK, LoadGeneral, NoBuffer
    <2>3. bufs' = [bufs EXCEPT ![h] = r] /\ free' \in [Sizes -> 0 .. MaxFree]
      BY <1>1, <1>2, <1>4 DEF LoadGeneral, HandleOK
    <2>4. /\ used' = used - UseShare(old) + UseShare(r)
          /\ reservedUsed' = reservedUsed - ReserveShare(old) + ReserveShare(r)
      BY <1>1, <1>4 DEF LoadGeneral, UseShare, ReserveShare, GeneralShare, HandleOK, NoBuffer
    <2>5. reservedUsed' <= Reserved
      BY <1>1, <1>4 DEF LoadGeneral, HandleOK
    <2>6. GeneralShare(r) <= GeneralShare(old) \/ used' <= Capacity
      BY <1>1, <1>4 DEF LoadGeneral, UseShare, ReserveShare, GeneralShare, HandleOK, NoBuffer
    <2> QED
      BY <2>1, <2>2, <2>3, <2>4, <2>5, <2>6, StepKeeps DEF StepOf
  <1> QED
    BY <1>3, <1>4

LEMMA CasGeneralKeeps ==
    ASSUME IInv, NEW h \in Handles, CasGeneral(h)
    PROVE  IInv'
  <1> DEFINE old == bufs[h]
  <1>1. /\ old \in Records /\ HandleOK(old)
        /\ old.size \in Nat /\ old.seen \in Nat
        /\ used \in Nat /\ used <= Capacity + Reserved
        /\ reservedUsed \in Nat /\ reservedUsed <= Reserved
        /\ Capacity \in Nat /\ Reserved \in Nat
        /\ Limit(old.prio) \in Nat /\ Limit(old.prio) <= Capacity
    BY HandleFacts
  <1>2. bufs \in [Handles -> Records] /\ free \in [Sizes -> 0 .. MaxFree]
    BY DEF IInv
  <1>3. IInv'
    <2> DEFINE r == [old EXCEPT !.pc = "take", !.seen = 0]
    <2>1. r \in Records
      BY <1>1 DEF Records, CasGeneral, Steps, Priorities, NoBuffer
    <2>2. HandleOK(r)
      BY <1>1, PoolAssumption DEF HandleOK, CasGeneral, NoBuffer
    <2>3. bufs' = [bufs EXCEPT ![h] = r] /\ free' \in [Sizes -> 0 .. MaxFree]
      BY <1>1, <1>2 DEF CasGeneral, HandleOK
    <2>4. /\ used' = used - UseShare(old) + UseShare(r)
          /\ reservedUsed' = reservedUsed - ReserveShare(old) + ReserveShare(r)
      BY <1>1 DEF CasGeneral, UseShare, ReserveShare, GeneralShare, HandleOK, NoBuffer
    <2>5. reservedUsed' <= Reserved
      BY <1>1 DEF CasGeneral, HandleOK
    <2>6. GeneralShare(r) <= GeneralShare(old) \/ used' <= Capacity
      BY <1>1 DEF CasGeneral, UseShare, ReserveShare, GeneralShare, HandleOK, NoBuffer
    <2> QED
      BY <2>1, <2>2, <2>3, <2>4, <2>5, <2>6, StepKeeps DEF StepOf
  <1> QED
    BY <1>3

LEMMA CasFailsKeeps ==
    ASSUME IInv, NEW h \in Handles, CasFails(h)
    PROVE  IInv'
  <1> DEFINE old == bufs[h]
  <1>1. /\ old \in Records /\ HandleOK(old)
        /\ old.size \in Nat /\ old.seen \in Nat
        /\ used \in Nat /\ used <= Capacity + Reserved
        /\ reservedUsed \in Nat /\ reservedUsed <= Reserved
        /\ Capacity \in Nat /\ Reserved \in Nat
        /\ Limit(old.prio) \in Nat /\ Limit(old.prio) <= Capacity
    BY HandleFacts
  <1>2. bufs \in [Handles -> Records] /\ free \in [Sizes -> 0 .. MaxFree]
    BY DEF IInv
  <1>3. CASE old.pc = "casReserve"
    <2> DEFINE r == [old EXCEPT !.pc = "reserve", !.seen = 0]
    <2>1. r \in Records
      BY <1>1, <1>3 DEF Records, CasFails, Again, Steps, Priorities, NoBuffer
    <2>2. HandleOK(r)
      BY <1>1, <1>3, PoolAssumption DEF HandleOK, CasFails, Again, NoBuffer
    <2>3. bufs' = [bufs EXCEPT ![h] = r] /\ free' \in [Sizes -> 0 .. MaxFree]
      BY <1>1, <1>2, <1>3 DEF CasFails, Again
    <2>4. /\ used' = used - UseShare(old) + UseShare(r)
          /\ reservedUsed' = reservedUsed - ReserveShare(old) + ReserveShare(r)
      BY <1>1, <1>3 DEF CasFails, Again, UseShare, ReserveShare, GeneralShare, HandleOK, NoBuffer
    <2>5. reservedUsed' <= Reserved
      BY <1>1, <1>3 DEF CasFails, Again, HandleOK
    <2>6. GeneralShare(r) <= GeneralShare(old) \/ used' <= Capacity
      BY <1>1, <1>3 DEF CasFails, Again, UseShare, ReserveShare, GeneralShare, HandleOK, NoBuffer
    <2> QED
      BY <2>1, <2>2, <2>3, <2>4, <2>5, <2>6, StepKeeps DEF StepOf
  <1>4. CASE old.pc = "casClaim"
    <2> DEFINE r == [old EXCEPT !.pc = "claim", !.seen = 0]
    <2>1. r \in Records
      BY <1>1, <1>4 DEF Records, CasFails, Again, Steps, Priorities, NoBuffer
    <2>2. HandleOK(r)
      BY <1>1, <1>4, PoolAssumption DEF HandleOK, CasFails, Again, NoBuffer
    <2>3. bufs' = [bufs EXCEPT ![h] = r] /\ free' \in [Sizes -> 0 .. MaxFree]
      BY <1>1, <1>2, <1>4 DEF CasFails, Again
    <2>4. /\ used' = used - UseShare(old) + UseShare(r)
          /\ reservedUsed' = reservedUsed - ReserveShare(old) + ReserveShare(r)
      BY <1>1, <1>4 DEF CasFails, Again, UseShare, ReserveShare, GeneralShare, HandleOK, NoBuffer
    <2>5. reservedUsed' <= Reserved
      BY <1>1, <1>4 DEF CasFails, Again, HandleOK
    <2>6. GeneralShare(r) <= GeneralShare(old) \/ used' <= Capacity
      BY <1>1, <1>4 DEF CasFails, Again, UseShare, ReserveShare, GeneralShare, HandleOK, NoBuffer
    <2> QED
      BY <2>1, <2>2, <2>3, <2>4, <2>5, <2>6, StepKeeps DEF StepOf
  <1>5. CASE old.pc = "casGeneral"
    <2> DEFINE r == [old EXCEPT !.pc = "general", !.seen = 0]
    <2>1. r \in Records
      BY <1>1, <1>5 DEF Records, CasFails, Again, Steps, Priorities, NoBuffer
    <2>2. HandleOK(r)
      BY <1>1, <1>5, PoolAssumption DEF HandleOK, CasFails, Again, NoBuffer
    <2>3. bufs' = [bufs EXCEPT ![h] = r] /\ free' \in [Sizes -> 0 .. MaxFree]
      BY <1>1, <1>2, <1>5 DEF CasFails, Again
    <2>4. /\ used' = used - UseShare(old) + UseShare(r)
          /\ reservedUsed' = reservedUsed - ReserveShare(old) + ReserveShare(r)
      BY <1>1, <1>5 DEF CasFails, Again, UseShare, ReserveShare, GeneralShare, HandleOK, NoBuffer
    <2>5. reservedUsed' <= Reserved
      BY <1>1, <1>5 DEF CasFails, Again, HandleOK
    <2>6. GeneralShare(r) <= GeneralShare(old) \/ used' <= Capacity
      BY <1>1, <1>5 DEF CasFails, Again, UseShare, ReserveShare, GeneralShare, HandleOK, NoBuffer
    <2> QED
      BY <2>1, <2>2, <2>3, <2>4, <2>5, <2>6, StepKeeps DEF StepOf
  <1> QED
    BY <1>3, <1>4, <1>5 DEF CasFails, Again

LEMMA TakeFromSlabKeeps ==
    ASSUME IInv, NEW h \in Handles, TakeFromSlab(h)
    PROVE  IInv'
  <1> DEFINE old == bufs[h]
  <1>1. /\ old \in Records /\ HandleOK(old)
        /\ old.size \in Nat /\ old.seen \in Nat
        /\ used \in Nat /\ used <= Capacity + Reserved
        /\ reservedUsed \in Nat /\ reservedUsed <= Reserved
        /\ Capacity \in Nat /\ Reserved \in Nat
        /\ Limit(old.prio) \in Nat /\ Limit(old.prio) <= Capacity
    BY HandleFacts
  <1>2. bufs \in [Handles -> Records] /\ free \in [Sizes -> 0 .. MaxFree]
    BY DEF IInv
  <1>3. IInv'
    <2> DEFINE r == [old EXCEPT !.pc = "held"]
    <2>1. r \in Records
      BY <1>1 DEF Records, TakeFromSlab, Steps, Priorities, NoBuffer
    <2>2. HandleOK(r)
      BY <1>1, PoolAssumption DEF HandleOK, TakeFromSlab, NoBuffer
    <2>3. bufs' = [bufs EXCEPT ![h] = r] /\ free' \in [Sizes -> 0 .. MaxFree]
      <3>1. /\ bufs' = [bufs EXCEPT ![h].pc = "held"]
            /\ free' = [free EXCEPT ![bufs[h].size] = IF @ = 0 THEN 0 ELSE @ - 1]
        BY <1>1 DEF TakeFromSlab
      <3>2. \A n \in 0 .. MaxFree : (IF n = 0 THEN 0 ELSE n - 1) \in 0 .. MaxFree
        BY PoolAssumption DEF PoolAssumption
      <3>3. free' \in [Sizes -> 0 .. MaxFree]
        BY <1>2, <3>1, <3>2
      <3> QED
        BY <1>1, <1>2, <3>1, <3>3 DEF HandleOK
    <2>4. /\ used' = used - UseShare(old) + UseShare(r)
          /\ reservedUsed' = reservedUsed - ReserveShare(old) + ReserveShare(r)
      BY <1>1 DEF TakeFromSlab, UseShare, ReserveShare, GeneralShare, HandleOK, NoBuffer
    <2>5. reservedUsed' <= Reserved
      BY <1>1 DEF TakeFromSlab, HandleOK
    <2>6. GeneralShare(r) <= GeneralShare(old) \/ used' <= Capacity
      BY <1>1 DEF TakeFromSlab, UseShare, ReserveShare, GeneralShare, HandleOK, NoBuffer
    <2> QED
      BY <2>1, <2>2, <2>3, <2>4, <2>5, <2>6, StepKeeps DEF StepOf
  <1> QED
    BY <1>3

LEMMA DeallocKeeps ==
    ASSUME IInv, NEW h \in Handles, Dealloc(h)
    PROVE  IInv'
  <1> DEFINE old == bufs[h]
  <1>1. /\ old \in Records /\ HandleOK(old)
        /\ old.size \in Nat /\ old.seen \in Nat
        /\ used \in Nat /\ used <= Capacity + Reserved
        /\ reservedUsed \in Nat /\ reservedUsed <= Reserved
        /\ Capacity \in Nat /\ Reserved \in Nat
        /\ Limit(old.prio) \in Nat /\ Limit(old.prio) <= Capacity
    BY HandleFacts
  <1>2. bufs \in [Handles -> Records] /\ free \in [Sizes -> 0 .. MaxFree]
    BY DEF IInv
  <1>3. CASE old.reserved
    <2> DEFINE r == [old EXCEPT !.pc = "returnReserve"]
    <2>1. r \in Records
      BY <1>1, <1>3 DEF Records, Dealloc, Steps, Priorities, NoBuffer
    <2>2. HandleOK(r)
      BY <1>1, <1>3, PoolAssumption DEF HandleOK, Dealloc, NoBuffer
    <2>3. bufs' = [bufs EXCEPT ![h] = r] /\ free' \in [Sizes -> 0 .. MaxFree]
      BY <1>1, <1>2, <1>3 DEF Dealloc, HandleOK
    <2>4. /\ used' = used - UseShare(old) + UseShare(r)
          /\ reservedUsed' = reservedUsed - ReserveShare(old) + ReserveShare(r)
      BY <1>1, <1>3 DEF Dealloc, UseShare, ReserveShare, GeneralShare, HandleOK, NoBuffer
    <2>5. reservedUsed' <= Reserved
      BY <1>1, <1>3 DEF Dealloc, HandleOK
    <2>6. GeneralShare(r) <= GeneralShare(old) \/ used' <= Capacity
      BY <1>1, <1>3 DEF Dealloc, UseShare, ReserveShare, GeneralShare, HandleOK, NoBuffer
    <2> QED
      BY <2>1, <2>2, <2>3, <2>4, <2>5, <2>6, StepKeeps DEF StepOf
  <1>4. CASE ~old.reserved
    <2> DEFINE r == [old EXCEPT !.pc = "push"]
    <2>1. r \in Records
      BY <1>1, <1>4 DEF Records, Dealloc, Steps, Priorities, NoBuffer
    <2>2. HandleOK(r)
      BY <1>1, <1>4, PoolAssumption DEF HandleOK, Dealloc, NoBuffer
    <2>3. bufs' = [bufs EXCEPT ![h] = r] /\ free' \in [Sizes -> 0 .. MaxFree]
      BY <1>1, <1>2, <1>4 DEF Dealloc, HandleOK
    <2>4. /\ used' = used - UseShare(old) + UseShare(r)
          /\ reservedUsed' = reservedUsed - ReserveShare(old) + ReserveShare(r)
      BY <1>1, <1>4 DEF Dealloc, UseShare, ReserveShare, GeneralShare, HandleOK, NoBuffer
    <2>5. reservedUsed' <= Reserved
      BY <1>1, <1>4 DEF Dealloc, HandleOK
    <2>6. GeneralShare(r) <= GeneralShare(old) \/ used' <= Capacity
      BY <1>1, <1>4 DEF Dealloc, UseShare, ReserveShare, GeneralShare, HandleOK, NoBuffer
    <2> QED
      BY <2>1, <2>2, <2>3, <2>4, <2>5, <2>6, StepKeeps DEF StepOf
  <1> QED
    BY <1>3, <1>4

LEMMA DropBufferKeeps ==
    ASSUME IInv, NEW h \in Handles, DropBuffer(h)
    PROVE  IInv'
  <1> DEFINE old == bufs[h]
  <1>1. /\ old \in Records /\ HandleOK(old)
        /\ old.size \in Nat /\ old.seen \in Nat
        /\ used \in Nat /\ used <= Capacity + Reserved
        /\ reservedUsed \in Nat /\ reservedUsed <= Reserved
        /\ Capacity \in Nat /\ Reserved \in Nat
        /\ Limit(old.prio) \in Nat /\ Limit(old.prio) <= Capacity
    BY HandleFacts
  <1>2. bufs \in [Handles -> Records] /\ free \in [Sizes -> 0 .. MaxFree]
    BY DEF IInv
  <1>3. CASE old.reserved
    <2> DEFINE r == [old EXCEPT !.pc = "dropReserve"]
    <2>1. r \in Records
      BY <1>1, <1>3 DEF Records, DropBuffer, Steps, Priorities, NoBuffer
    <2>2. HandleOK(r)
      BY <1>1, <1>3, PoolAssumption DEF HandleOK, DropBuffer, NoBuffer
    <2>3. bufs' = [bufs EXCEPT ![h] = r] /\ free' \in [Sizes -> 0 .. MaxFree]
      BY <1>1, <1>2, <1>3 DEF DropBuffer, HandleOK
    <2>4. /\ used' = used - UseShare(old) + UseShare(r)
          /\ reservedUsed' = reservedUsed - ReserveShare(old) + ReserveShare(r)
      BY <1>1, <1>3 DEF DropBuffer, UseShare, ReserveShare, GeneralShare, HandleOK, NoBuffer
    <2>5. reservedUsed' <= Reserved
      BY <1>1, <1>3 DEF DropBuffer, HandleOK
    <2>6. GeneralShare(r) <= GeneralShare(old) \/ used' <= Capacity
      BY <1>1, <1>3 DEF DropBuffer, UseShare, ReserveShare, GeneralShare, HandleOK, NoBuffer
    <2> QED
      BY <2>1, <2>2, <2>3, <2>4, <2>5, <2>6, StepKeeps DEF StepOf
  <1>4. CASE ~old.reserved
    <2> DEFINE r == NoBuffer
    <2>1. r \in Records
      BY <1>1, <1>4 DEF Records, DropBuffer, Steps, Priorities, NoBuffer
    <2>2. HandleOK(r)
      BY <1>1, <1>4, PoolAssumption DEF HandleOK, DropBuffer, NoBuffer
    <2>3. bufs' = [bufs EXCEPT ![h] = r] /\ free' \in [Sizes -> 0 .. MaxFree]
      BY <1>1, <1>2, <1>4 DEF DropBuffer, HandleOK
    <2>4. /\ used' = used - UseShare(old) + UseShare(r)
          /\ reservedUsed' = reservedUsed - ReserveShare(old) + ReserveShare(r)
      BY <1>1, <1>4 DEF DropBuffer, UseShare, ReserveShare, GeneralShare, HandleOK, NoBuffer
    <2>5. reservedUsed' <= Reserved
      BY <1>1, <1>4 DEF DropBuffer, HandleOK
    <2>6. GeneralShare(r) <= GeneralShare(old) \/ used' <= Capacity
      BY <1>1, <1>4 DEF DropBuffer, UseShare, ReserveShare, GeneralShare, HandleOK, NoBuffer
    <2> QED
      BY <2>1, <2>2, <2>3, <2>4, <2>5, <2>6, StepKeeps DEF StepOf
  <1> QED
    BY <1>3, <1>4

LEMMA ReleaseReserveKeeps ==
    ASSUME IInv, NEW h \in Handles, ReleaseReserve(h)
    PROVE  IInv'
  <1> DEFINE old == bufs[h]
  <1>1. /\ old \in Records /\ HandleOK(old)
        /\ old.size \in Nat /\ old.seen \in Nat
        /\ used \in Nat /\ used <= Capacity + Reserved
        /\ reservedUsed \in Nat /\ reservedUsed <= Reserved
        /\ Capacity \in Nat /\ Reserved \in Nat
        /\ Limit(old.prio) \in Nat /\ Limit(old.prio) <= Capacity
    BY HandleFacts
  <1>2. bufs \in [Handles -> Records] /\ free \in [Sizes -> 0 .. MaxFree]
    BY DEF IInv
  <1>3. CASE old.pc = "returnReserve"
    <2> DEFINE r == [old EXCEPT !.pc = "push", !.reserved = FALSE]
    <2>1. r \in Records
      BY <1>1, <1>3 DEF Records, ReleaseReserve, Steps, Priorities, NoBuffer
    <2>2. HandleOK(r)
      BY <1>1, <1>3, PoolAssumption DEF HandleOK, ReleaseReserve, NoBuffer
    <2>3. bufs' = [bufs EXCEPT ![h] = r] /\ free' \in [Sizes -> 0 .. MaxFree]
      BY <1>1, <1>2, <1>3 DEF ReleaseReserve, HandleOK
    <2>4. /\ used' = used - UseShare(old) + UseShare(r)
          /\ reservedUsed' = reservedUsed - ReserveShare(old) + ReserveShare(r)
      BY <1>1, <1>3 DEF ReleaseReserve, UseShare, ReserveShare, GeneralShare, HandleOK, NoBuffer
    <2>5. reservedUsed' <= Reserved
      BY <1>1, <1>3 DEF ReleaseReserve, HandleOK
    <2>6. GeneralShare(r) <= GeneralShare(old) \/ used' <= Capacity
      BY <1>1, <1>3 DEF ReleaseReserve, UseShare, ReserveShare, GeneralShare, HandleOK, NoBuffer
    <2> QED
      BY <2>1, <2>2, <2>3, <2>4, <2>5, <2>6, StepKeeps DEF StepOf
  <1>4. CASE old.pc = "dropReserve"
    <2> DEFINE r == NoBuffer
    <2>1. r \in Records
      BY <1>1, <1>4 DEF Records, ReleaseReserve, Steps, Priorities, NoBuffer
    <2>2. HandleOK(r)
      BY <1>1, <1>4, PoolAssumption DEF HandleOK, ReleaseReserve, NoBuffer
    <2>3. bufs' = [bufs EXCEPT ![h] = r] /\ free' \in [Sizes -> 0 .. MaxFree]
      BY <1>1, <1>2, <1>4 DEF ReleaseReserve, HandleOK
    <2>4. /\ used' = used - UseShare(old) + UseShare(r)
          /\ reservedUsed' = reservedUsed - ReserveShare(old) + ReserveShare(r)
      BY <1>1, <1>4 DEF ReleaseReserve, UseShare, ReserveShare, GeneralShare, HandleOK, NoBuffer
    <2>5. reservedUsed' <= Reserved
      BY <1>1, <1>4 DEF ReleaseReserve, HandleOK
    <2>6. GeneralShare(r) <= GeneralShare(old) \/ used' <= Capacity
      BY <1>1, <1>4 DEF ReleaseReserve, UseShare, ReserveShare, GeneralShare, HandleOK, NoBuffer
    <2> QED
      BY <2>1, <2>2, <2>3, <2>4, <2>5, <2>6, StepKeeps DEF StepOf
  <1> QED
    BY <1>3, <1>4 DEF ReleaseReserve

LEMMA PushToSlabKeeps ==
    ASSUME IInv, NEW h \in Handles, PushToSlab(h)
    PROVE  IInv'
  <1> DEFINE old == bufs[h]
  <1>1. /\ old \in Records /\ HandleOK(old)
        /\ old.size \in Nat /\ old.seen \in Nat
        /\ used \in Nat /\ used <= Capacity + Reserved
        /\ reservedUsed \in Nat /\ reservedUsed <= Reserved
        /\ Capacity \in Nat /\ Reserved \in Nat
        /\ Limit(old.prio) \in Nat /\ Limit(old.prio) <= Capacity
    BY HandleFacts
  <1>2. bufs \in [Handles -> Records] /\ free \in [Sizes -> 0 .. MaxFree]
    BY DEF IInv
  <1>3. IInv'
    <2> DEFINE r == NoBuffer
    <2>1. r \in Records
      BY <1>1 DEF Records, PushToSlab, Steps, Priorities, NoBuffer
    <2>2. HandleOK(r)
      BY <1>1, PoolAssumption DEF HandleOK, PushToSlab, NoBuffer
    <2>3. bufs' = [bufs EXCEPT ![h] = r] /\ free' \in [Sizes -> 0 .. MaxFree]
      <3>1. ASSUME NEW s \in Sizes, free[s] < MaxFree, free' = [free EXCEPT ![s] = @ + 1]
            PROVE  free' \in [Sizes -> 0 .. MaxFree]
        <4>1. free[s] + 1 \in 0 .. MaxFree
          BY <1>2, <3>1, PoolAssumption DEF PoolAssumption
        <4> QED
          BY <1>2, <3>1, <4>1
      <3>2. free' \in [Sizes -> 0 .. MaxFree]
        BY <1>1, <1>2, <3>1 DEF PushToSlab
      <3> QED
        BY <1>1, <1>2, <3>2 DEF PushToSlab, HandleOK
    <2>4. /\ used' = used - UseShare(old) + UseShare(r)
          /\ reservedUsed' = reservedUsed - ReserveShare(old) + ReserveShare(r)
      BY <1>1 DEF PushToSlab, UseShare, ReserveShare, GeneralShare, HandleOK, NoBuffer
    <2>5. reservedUsed' <= Reserved
      BY <1>1 DEF PushToSlab, HandleOK
    <2>6. GeneralShare(r) <= GeneralShare(old) \/ used' <= Capacity
      BY <1>1 DEF PushToSlab, UseShare, ReserveShare, GeneralShare, HandleOK, NoBuffer
    <2> QED
      BY <2>1, <2>2, <2>3, <2>4, <2>5, <2>6, StepKeeps DEF StepOf
  <1> QED
    BY <1>3

LEMMA AllocKeeps ==
    ASSUME IInv, NEW h \in Handles, Alloc(h)
    PROVE  IInv'
  <1> DEFINE old == bufs[h]
  <1>1. /\ old \in Records /\ HandleOK(old) /\ old.pc = "none" /\ ~old.reserved
        /\ used \in Nat /\ reservedUsed \in Nat /\ reservedUsed <= Reserved
        /\ Capacity \in Nat /\ Reserved \in Nat
    BY HandleFacts DEF Alloc, HandleOK
  <1>2. bufs \in [Handles -> Records] /\ free \in [Sizes -> 0 .. MaxFree]
    BY DEF IInv
  <1>3. PICK s \in Sizes, p \in Priorities : bufs' = [bufs EXCEPT ![h] = Requested(s, p)]
    BY DEF Alloc
  <1> DEFINE r == Requested(s, p)
  <1>4. /\ r.pc \in {"reserve", "general"} /\ (r.pc = "reserve" => p = "control")
        /\ r.size = s /\ r.prio = p /\ r.reserved = FALSE /\ r.seen = 0
    BY DEF Requested
  <1>5. r \in Records
    BY DEF Records, Requested, Steps
  <1>6. HandleOK(r)
    <2> HIDE DEF r
    <2> QED
      BY <1>1, <1>3, <1>4 DEF HandleOK
  <1>7. UseShare(r) = 0 /\ ReserveShare(r) = 0 /\ GeneralShare(r) = 0
    BY <1>4 DEF UseShare, ReserveShare, GeneralShare
  <1>8. UseShare(old) = 0 /\ ReserveShare(old) = 0 /\ GeneralShare(old) = 0
    BY <1>1 DEF UseShare, ReserveShare, GeneralShare
  <1>9. used' = used /\ reservedUsed' = reservedUsed /\ free' = free
    BY DEF Alloc
  <1>10. StepOf(h, r)
    <2> HIDE DEF r
    <2> QED
      BY <1>1, <1>2, <1>3, <1>5, <1>6, <1>7, <1>8, <1>9 DEF StepOf, r
  <1> QED
    BY <1>10, StepKeeps

-----------------------------------------------------------------------------
LEMMA InitIInv == Init => IInv
  <1> SUFFICES ASSUME Init PROVE IInv
    OBVIOUS
  <1>1. NoBuffer \in Records /\ HandleOK(NoBuffer)
    BY PoolAssumption DEF NoBuffer, Records, Steps, Priorities, HandleOK
  <1>2. bufs \in [Handles -> Records] /\ \A h \in Handles : bufs[h] = NoBuffer
    BY <1>1 DEF Init
  <1>3. UseOf(bufs) = {} /\ ReserveOf(bufs) = {} /\ GeneralOf(bufs) = {}
    BY <1>2 DEF UseOf, ReserveOf, GeneralOf, NoBuffer
  <1>4. Count(bufs, {}) = 0
    <2>1. BytesOf(bufs, {}) = {}
      BY DEF BytesOf
    <2> QED
      BY <2>1, FS_EmptySet DEF Count
  <1> QED
    BY <1>1, <1>2, <1>3, <1>4, PoolAssumption DEF Init, IInv

LEMMA NextIInv == IInv /\ [Next]_vars => IInv'
  <1> SUFFICES ASSUME IInv, [Next]_vars PROVE IInv'
    OBVIOUS
  <1>1. CASE Next
    <2>1. PICK h \in Handles :
              Alloc(h) \/ AllocStep(h) \/ CasFails(h) \/ Dealloc(h) \/ DropBuffer(h) \/ FreeStep(h)
      BY <1>1 DEF Next
    <2>2. CASE AllocStep(h)
      BY <2>2, LoadReserveKeeps, CasReserveKeeps, LoadClaimKeeps, CasClaimKeeps,
         LoadGeneralKeeps, CasGeneralKeeps, TakeFromSlabKeeps DEF AllocStep
    <2>3. CASE FreeStep(h)
      BY <2>3, ReleaseReserveKeeps, PushToSlabKeeps DEF FreeStep
    <2> QED
      BY <2>1, <2>2, <2>3, AllocKeeps, CasFailsKeeps, DeallocKeeps, DropBufferKeeps
  <1>2. CASE UNCHANGED vars
    BY <1>2 DEF vars, IInv
  <1> QED
    BY <1>1, <1>2

(* The inductive invariant holds in every reachable state. *)
THEOREM SpecIInv == Spec => []IInv
  BY InitIInv, NextIInv, PTL DEF Spec

LEMMA IInvTypeOK == IInv => TypeOK
  <1> SUFFICES ASSUME IInv PROVE TypeOK
    OBVIOUS
  <1>1. {used, reservedUsed} \subseteq 0 .. Capacity + Reserved
    <2>1. /\ Count(bufs, UseOf(bufs)) <= Count(bufs, GeneralOf(bufs)) + Count(bufs, ReserveOf(bufs))
          /\ {Count(bufs, UseOf(bufs)), Count(bufs, GeneralOf(bufs)),
              Count(bufs, ReserveOf(bufs))} \subseteq Nat
      BY UseCovered
    <2> QED
      BY <2>1, PoolAssumption DEF IInv
  <1>2. ASSUME NEW h \in Handles
        PROVE  bufs[h] \in [pc : Steps, size : Sizes \cup {0}, prio : Priorities,
                             reserved : BOOLEAN, seen : 0 .. Capacity + Reserved]
    <2>1. bufs[h] \in Records /\ HandleOK(bufs[h])
      BY DEF IInv
    <2> QED
      BY <2>1, PoolAssumption DEF Records, HandleOK
  <1>3. \A h \in InReserve :
          /\ bufs[h].prio = "control"
          /\ bufs[h].pc \in {"claim", "casClaim", "take", "held", "returnReserve", "dropReserve"}
    BY DEF IInv, InReserve, HandleOK
  <1>4. bufs \in [Handles -> Records] /\ free \in [Sizes -> 0 .. MaxFree]
    BY DEF IInv
  <1> QED
    BY <1>1, <1>2, <1>3, <1>4 DEF TypeOK

LEMMA IInvAccounted == IInv => Accounted /\ RegionsBounded
  BY DEF IInv, Accounted, RegionsBounded, Count, BytesOf, Bytes, UseOf, InUse,
         ReserveOf, InReserve, GeneralOf, InGeneral

(* The counters stay within capacity and reserve, and every handle is in a *)
(* state alloc, dealloc or drop can leave it in.                           *)
THEOREM SpecTypeOK == Spec => []TypeOK
  BY SpecIInv, IInvTypeOK, PTL

(* The counters are at every step the bytes of the buffers they stand for, *)
(* however the atomics of any number of threads interleave.                *)
THEOREM SpecAccounted == Spec => []Accounted
  BY SpecIInv, IInvAccounted, PTL

(* No interleaving overdraws the reserve or the general pool. *)
THEOREM SpecRegionsBounded == Spec => []RegionsBounded
  BY SpecIInv, IInvAccounted, PTL

-----------------------------------------------------------------------------
(* Claims.                                                                 *)

(* No claim outside the reserve leaves more in use than its priority may:  *)
(* the handle that joins the general pool has just won the compare-and-    *)
(* swap against the value its check was made with.                         *)
LEMMA StepClaims ==
    ASSUME IInv, [Next]_vars, NEW h \in Handles, h \in InGeneral', h \notin InGeneral
    PROVE  used' <= Limit(bufs[h].prio)
  <1>1. bufs \in [Handles -> Records] /\ IInv'
    BY NextIInv DEF IInv
  <1>2. Next
    BY DEF vars, InGeneral, InUse, InReserve
  <1>3. PICK k \in Handles :
            Alloc(k) \/ AllocStep(k) \/ CasFails(k) \/ Dealloc(k) \/ DropBuffer(k) \/ FreeStep(k)
    BY <1>2 DEF Next
  <1>4. h = k
    <2> SUFFICES ASSUME h # k PROVE FALSE
      OBVIOUS
    <2>1. bufs'[h] = bufs[h]
      BY <1>1, <1>3 DEF Alloc, AllocStep, CasFails, Dealloc, DropBuffer, FreeStep, LoadReserve,
         CasReserve, LoadClaim, CasClaim, LoadGeneral, CasGeneral, TakeFromSlab, ReleaseReserve,
         PushToSlab, Again
    <2> QED
      BY <2>1 DEF InGeneral, InUse, InReserve
  <1>5. bufs'[h].pc \in {"take", "held"} /\ ~bufs'[h].reserved
    BY DEF InGeneral, InUse, InReserve
  <1>6. HandleOK(bufs[h]) /\ bufs[h].reserved \in BOOLEAN /\ bufs[h].size \in Nat
        /\ bufs[h].seen \in Nat /\ Limit(bufs[h].prio) \in Nat
    BY HandleFacts
  <1>7. ~(bufs[h].pc \in {"take", "held"} /\ ~bufs[h].reserved)
    BY DEF InGeneral, InUse, InReserve
  <1>8. CasGeneral(h)
    <2>1. ~Alloc(h)
      BY <1>1, <1>5 DEF Records, Alloc, Requested
    <2>2. ~CasFails(h)
      BY <1>1, <1>5 DEF Records, CasFails, Again
    <2>3. ~Dealloc(h)
      BY <1>1, <1>5 DEF Records, Dealloc
    <2>4. ~DropBuffer(h)
      BY <1>1, <1>5 DEF Records, DropBuffer, NoBuffer
    <2>5. ~ReleaseReserve(h)
      <3> SUFFICES ASSUME ReleaseReserve(h) PROVE FALSE
        OBVIOUS
      <3>1. CASE bufs[h].pc = "returnReserve"
        <4>1. bufs'[h] = [bufs[h] EXCEPT !.pc = "push", !.reserved = FALSE]
          BY <1>1, <3>1 DEF ReleaseReserve
        <4> QED
          BY <4>1, <1>1, <1>5 DEF Records, NoBuffer
      <3>2. CASE ~(bufs[h].pc = "returnReserve")
        <4>1. bufs'[h] = NoBuffer
          BY <1>1, <3>2 DEF ReleaseReserve
        <4> QED
          BY <4>1, <1>1, <1>5 DEF Records, NoBuffer
      <3> QED
        BY <3>1, <3>2
    <2>6. ~PushToSlab(h)
      BY <1>1, <1>5 DEF Records, PushToSlab, NoBuffer
    <2>7. ~LoadReserve(h)
      <3> SUFFICES ASSUME LoadReserve(h) PROVE FALSE
        OBVIOUS
      <3>1. CASE reservedUsed + bufs[h].size > Reserved
        <4>1. bufs'[h] = [bufs[h] EXCEPT !.pc = "general"]
          BY <1>1, <3>1 DEF LoadReserve
        <4> QED
          BY <4>1, <1>1, <1>5 DEF Records
      <3>2. CASE ~(reservedUsed + bufs[h].size > Reserved)
        <4>1. bufs'[h] = [bufs[h] EXCEPT !.pc = "casReserve", !.seen = reservedUsed]
          BY <1>1, <3>2 DEF LoadReserve
        <4> QED
          BY <4>1, <1>1, <1>5 DEF Records
      <3> QED
        BY <3>1, <3>2
    <2>8. ~CasReserve(h)
      BY <1>1, <1>5 DEF Records, CasReserve
    <2>9. ~LoadClaim(h)
      BY <1>1, <1>5 DEF Records, LoadClaim
    <2>10. ~LoadGeneral(h)
      <3> SUFFICES ASSUME LoadGeneral(h) PROVE FALSE
        OBVIOUS
      <3>1. CASE used + bufs[h].size > Limit(bufs[h].prio)
        <4>1. bufs'[h] = NoBuffer
          BY <1>1, <3>1 DEF LoadGeneral
        <4> QED
          BY <4>1, <1>1, <1>5 DEF Records, NoBuffer
      <3>2. CASE ~(used + bufs[h].size > Limit(bufs[h].prio))
        <4>1. bufs'[h] = [bufs[h] EXCEPT !.pc = "casGeneral", !.seen = used]
          BY <1>1, <3>2 DEF LoadGeneral
        <4> QED
          BY <4>1, <1>1, <1>5 DEF Records, NoBuffer
      <3> QED
        BY <3>1, <3>2
    <2>11. ~CasClaim(h)
      <3> SUFFICES ASSUME CasClaim(h) PROVE FALSE
        OBVIOUS
      <3>1. bufs[h] \in Records /\ bufs[h].reserved
        BY <1>1, <1>6 DEF CasClaim, HandleOK
      <3>2. bufs'[h] = [bufs[h] EXCEPT !.pc = "take", !.seen = 0]
        BY <1>1 DEF CasClaim
      <3>3. bufs'[h].reserved = bufs[h].reserved
        BY <3>1, <3>2 DEF Records
      <3> QED
        BY <3>1, <3>3, <1>5
    <2>12. ~TakeFromSlab(h)
      <3> SUFFICES ASSUME TakeFromSlab(h) PROVE FALSE
        OBVIOUS
      <3>1. bufs[h] \in Records /\ bufs[h].pc = "take"
        BY <1>1 DEF TakeFromSlab
      <3>2. bufs'[h] = [bufs[h] EXCEPT !.pc = "held"]
        BY <1>1 DEF TakeFromSlab
      <3>3. bufs'[h].reserved = bufs[h].reserved
        BY <3>1, <3>2 DEF Records
      <3> QED
        BY <3>1, <3>3, <1>5, <1>7
    <2> QED
      BY <2>1, <2>2, <2>3, <2>4, <2>5, <2>6, <2>7, <2>8, <2>9, <2>10, <2>11, <2>12,
         <1>3, <1>4 DEF AllocStep, FreeStep
  <1> QED
    BY <1>6, <1>8 DEF CasGeneral, HandleOK

(* The thresholds hold at the moment of every claim. *)
THEOREM SpecClaimsWithinLimit == Spec => ClaimsWithinLimit
  <1>1. IInv /\ [Next]_vars
            => [\A h \in Handles : h \in InGeneral' \ InGeneral => used' <= Limit(bufs[h].prio)]_vars
    BY StepClaims
  <1> QED
    BY <1>1, SpecIInv, PTL DEF Spec, ClaimsWithinLimit

=============================================================================
