-------------------------- MODULE ThreadQueueProofs --------------------------
(* Theorems about ThreadQueue, for all windows, roles, filters, calls and  *)
(* bounds.                                                                 *)
(*                                                                         *)
(* Everything that takes messages out of the FIFO does it through Picked,  *)
(* which is a recursion; PickedIs says once what it returns, and the       *)
(* theorems rest on that.                                                  *)
EXTENDS ThreadQueue, SequenceTheorems, WellFoundedInduction, NaturalsInduction, TLAPS

(* p holds the messages of q at those positions of D that are at most n,   *)
(* in the order of q: at says where each of them was.                      *)
Follows(p, q, D, n, at) ==
    /\ at \in [1 .. Len(p) -> {d \in D : d <= n}]
    /\ \A i \in 1 .. Len(p) : p[i] = q[at[i]]
    /\ \A i, j \in 1 .. Len(p) : i < j => at[i] < at[j]
    /\ \A d \in D : d <= n => \E i \in 1 .. Len(p) : at[i] = d

Selects(p, q, D, n) == Len(p) <= n /\ \E at : Follows(p, q, D, n, at)

-----------------------------------------------------------------------------
(* What Picked returns.                                                    *)

(* A set of natural numbers has a least element. *)
LEMMA Least ==
    ASSUME NEW T, T \subseteq Nat, T # {}
    PROVE  \E x \in T : \A y \in T : x <= y
  <1> DEFINE R == OpToRel(<, Nat)
  <1>1. IsWellFoundedOn(R, Nat)
    BY NatLessThanWellFounded
  <1> HIDE DEF R
  <1>2. PICK x \in T : \A y \in T : <<y, x>> \notin R
    BY <1>1, WFMin
  <1>3. \A y \in T : ~(y < x)
    BY <1>2 DEF R, OpToRel
  <1> QED
    BY <1>3

(* g is the recursion of Picked over the first n positions. *)
Grows(g, q, D, n, S) ==
    /\ g \in [0 .. n -> Seq(S)]
    /\ g[0] = << >>
    /\ \A i \in 1 .. n : g[i] = IF i \in D THEN Append(g[i - 1], q[i]) ELSE g[i - 1]

(* The recursion of Picked has a value at every position. *)
LEMMA PickedExists ==
    ASSUME NEW S, NEW q \in Seq(S), NEW D
    PROVE  \E g : Grows(g, q, D, Len(q), S)
  <1> DEFINE Bad == {n \in 0 .. Len(q) : ~ \E g : Grows(g, q, D, n, S)}
  <1>1. Len(q) \in Nat /\ \A i \in 1 .. Len(q) : q[i] \in S
    OBVIOUS
  <1>2. ASSUME Bad # {} PROVE FALSE
    <2>1. Bad \subseteq Nat
      BY <1>1
    <2> HIDE DEF Bad
    <2>2. PICK n \in Bad : \A m \in Bad : n <= m
      BY <1>2, <2>1, Least
    <2> USE DEF Bad
    <2>3. n # 0
      <3> DEFINE g == [i \in 0 .. 0 |-> << >>]
      <3>1. << >> \in Seq(S)
        OBVIOUS
      <3>2. Grows(g, q, D, 0, S)
        BY <3>1 DEF Grows
      <3> QED
        BY <2>2, <3>2
    <2>4. n \in 1 .. Len(q) /\ n - 1 \in 0 .. Len(q) /\ n - 1 \notin Bad
      <3>1. n \in 0 .. Len(q)
        OBVIOUS
      <3> HIDE DEF Bad
      <3> QED
        BY <1>1, <2>2, <2>3, <3>1
    <2>5. PICK g : Grows(g, q, D, n - 1, S)
      BY <2>4
    <2> DEFINE v == IF n \in D THEN Append(g[n - 1], q[n]) ELSE g[n - 1]
               h == [i \in 0 .. n |-> IF i = n THEN v ELSE g[i]]
    <2>6. g[n - 1] \in Seq(S) /\ q[n] \in S
      BY <1>1, <2>4, <2>5 DEF Grows
    <2>7. v \in Seq(S)
      BY <2>6
    <2>8. /\ h[0] = << >> /\ h[n] = v
          /\ \A i \in 0 .. n - 1 : h[i] = g[i]
      BY <2>4, <2>5 DEF Grows
    <2>9. h \in [0 .. n -> Seq(S)]
      <3> HIDE DEF v
      <3> QED
        BY <2>4, <2>5, <2>7 DEF Grows
    <2> HIDE DEF h
    <2>10. ASSUME NEW i \in 1 .. n
           PROVE  h[i] = IF i \in D THEN Append(h[i - 1], q[i]) ELSE h[i - 1]
      <3>1. h[i - 1] = g[i - 1]
        BY <2>4, <2>8
      <3>2. CASE i = n
        BY <2>8, <3>1, <3>2
      <3>3. CASE i # n
        <4>1. i \in 1 .. n - 1 /\ i \in 0 .. n - 1
          BY <2>4, <3>3
        <4> QED
          BY <2>5, <2>8, <3>1, <4>1 DEF Grows
      <3> QED
        BY <3>2, <3>3
    <2>11. Grows(h, q, D, n, S)
      BY <2>8, <2>9, <2>10 DEF Grows
    <2> QED
      BY <2>2, <2>11
  <1> QED
    BY <1>1, <1>2

(* One step of the recursion. *)
LEMMA SelectsOneMore ==
    ASSUME NEW S, NEW q \in Seq(S), NEW D, D \subseteq 1 .. Len(q),
           NEW n \in 1 .. Len(q), NEW p \in Seq(S), Selects(p, q, D, n - 1)
    PROVE  Selects(IF n \in D THEN Append(p, q[n]) ELSE p, q, D, n)
  <1>1. PICK at : Follows(p, q, D, n - 1, at)
    BY DEF Selects
  <1>2. /\ Len(p) \in Nat /\ Len(p) <= n - 1 /\ q[n] \in S
        /\ at \in [1 .. Len(p) -> {d \in D : d <= n - 1}]
    BY <1>1 DEF Selects, Follows
  <1>3. CASE n \notin D
    <2>1. {d \in D : d <= n - 1} = {d \in D : d <= n}
      <3>1. \A d \in D : d \in 1 .. Len(q) /\ d # n
        BY <1>3
      <3>2. \A d \in D : d <= n - 1 <=> d <= n
        BY <3>1
      <3> QED
        BY <3>2
    <2>2. Follows(p, q, D, n, at)
      BY <1>1, <2>1 DEF Follows
    <2> QED
      BY <1>2, <1>3, <2>2 DEF Selects
  <1>4. CASE n \in D
    <2> DEFINE r == Append(p, q[n])
               to == [i \in 1 .. Len(p) + 1 |-> IF i = Len(p) + 1 THEN n ELSE at[i]]
    <2>1. /\ Len(r) = Len(p) + 1 /\ r[Len(p) + 1] = q[n]
          /\ \A i \in 1 .. Len(p) : r[i] = p[i]
      BY <1>2
    <2>2. /\ to[Len(p) + 1] = n
          /\ \A i \in 1 .. Len(p) : to[i] = at[i] /\ at[i] \in D /\ at[i] <= n - 1 /\ at[i] \in Nat
      <3>1. to[Len(p) + 1] = n /\ \A i \in 1 .. Len(p) : to[i] = at[i]
        BY <1>2
      <3>2. \A i \in 1 .. Len(p) : at[i] \in D /\ at[i] <= n - 1
        BY <1>2
      <3> HIDE DEF to
      <3>3. \A d \in D : d \in Nat
        OBVIOUS
      <3> QED
        BY <3>1, <3>2, <3>3
    <2>3. to \in [1 .. Len(p) + 1 -> {d \in D : d <= n}]
      <3>1. \A i \in 1 .. Len(p) + 1 : to[i] \in D /\ to[i] <= n
        <4> HIDE DEF to
        <4> SUFFICES ASSUME NEW i \in 1 .. Len(p) + 1
                     PROVE  to[i] \in D /\ to[i] <= n
          OBVIOUS
        <4>1. i = Len(p) + 1 \/ i \in 1 .. Len(p)
          BY <1>2
        <4> QED
          BY <1>4, <2>2, <4>1
      <3>2. DOMAIN to = 1 .. Len(p) + 1 /\ to = [i \in 1 .. Len(p) + 1 |-> to[i]]
        OBVIOUS
      <3> HIDE DEF to
      <3> QED
        BY <3>1, <3>2
    <2> HIDE DEF r, to
    <2>4. \A i \in 1 .. Len(r) : r[i] = q[to[i]]
      <3> SUFFICES ASSUME NEW i \in 1 .. Len(p) + 1
                   PROVE  r[i] = q[to[i]]
        BY <2>1
      <3>1. CASE i = Len(p) + 1
        BY <2>1, <2>2, <3>1
      <3>2. CASE i # Len(p) + 1
        <4>1. i \in 1 .. Len(p)
          BY <1>2, <3>2
        <4> QED
          BY <1>1, <2>1, <2>2, <4>1 DEF Follows
      <3> QED
        BY <3>1, <3>2
    <2>5. \A i, j \in 1 .. Len(r) : i < j => to[i] < to[j]
      <3> SUFFICES ASSUME NEW i \in 1 .. Len(p) + 1, NEW j \in 1 .. Len(p) + 1, i < j
                   PROVE  to[i] < to[j]
        BY <2>1
      <3>1. i \in 1 .. Len(p)
        BY <1>2
      <3>2. CASE j = Len(p) + 1
        BY <2>2, <3>1, <3>2
      <3>3. CASE j # Len(p) + 1
        <4>1. j \in 1 .. Len(p)
          BY <1>2, <3>3
        <4> QED
          BY <1>1, <2>2, <3>1, <4>1 DEF Follows
      <3> QED
        BY <3>2, <3>3
    <2>6. \A d \in D : d <= n => \E i \in 1 .. Len(r) : to[i] = d
      <3> SUFFICES ASSUME NEW d \in D, d <= n
                   PROVE  \E i \in 1 .. Len(p) + 1 : to[i] = d
        BY <2>1
      <3>1. CASE d = n
        BY <1>2, <2>2, <3>1
      <3>2. CASE d # n
        <4>1. d <= n - 1
          BY <3>2
        <4>2. PICK i \in 1 .. Len(p) : at[i] = d
          BY <1>1, <4>1 DEF Follows
        <4> QED
          BY <1>2, <2>2, <4>2
      <3> QED
        BY <3>1, <3>2
    <2>7. Follows(r, q, D, n, to)
      BY <2>1, <2>3, <2>4, <2>5, <2>6 DEF Follows
    <2>8. Len(r) <= n
      BY <1>2, <2>1
    <2> QED
      BY <1>4, <2>7, <2>8 DEF Selects, r
  <1> QED
    BY <1>3, <1>4

(* Picked returns the messages at the positions D, in their order. *)
LEMMA PickedIs ==
    ASSUME NEW S, NEW q \in Seq(S), NEW D, D \subseteq DOMAIN q
    PROVE  Picked(q, D) \in Seq(S) /\ Selects(Picked(q, D), q, D, Len(q))
  <1> DEFINE N == Len(q)
             Step(n, w) == IF n \in D THEN Append(w, q[n]) ELSE w
             Body(g) == [n \in 0 .. N |-> IF n = 0 THEN << >> ELSE Step(n, g[n - 1])]
             W == CHOOSE g : g = Body(g)
  <1>1. Picked(q, D) = W[N]
    BY DEF Picked
  <1>2. N \in Nat /\ N = Len(q) /\ D \subseteq 1 .. N
    OBVIOUS
  <1>3. PICK g : Grows(g, q, D, N, S)
    BY PickedExists
  <1>4. g = Body(g)
    <2>1. g[0] = << >> /\ \A n \in 1 .. N : g[n] = Step(n, g[n - 1])
      BY <1>3 DEF Grows
    <2>2. g = [n \in 0 .. N |-> g[n]]
      BY <1>3 DEF Grows
    <2> HIDE DEF Step, N
    <2> QED
      BY <1>2, <2>1, <2>2
  <1>5. W = Body(W)
    BY <1>4
  <1> HIDE DEF W
  <1>6. W[0] = << >> /\ \A i \in 1 .. N : W[i] = Step(i, W[i - 1])
    <2> HIDE DEF Step, N
    <2> QED
      BY <1>2, <1>5
  <1> HIDE DEF N
  <1> DEFINE Bad == {n \in 0 .. N : ~(W[n] \in Seq(S) /\ Selects(W[n], q, D, n))}
  <1>7. ASSUME Bad # {} PROVE FALSE
    <2>1. Bad \subseteq Nat
      BY <1>2
    <2> HIDE DEF Bad
    <2>2. PICK n \in Bad : \A m \in Bad : n <= m
      BY <1>7, <2>1, Least
    <2> USE DEF Bad
    <2>3. W[0] \in Seq(S) /\ Selects(W[0], q, D, 0)
      <3>1. {d \in D : d <= 0} = {} /\ Len(<< >>) = 0 /\ << >> \in Seq(S)
        BY <1>2
      <3>2. Follows(<< >>, q, D, 0, << >>)
        BY <3>1 DEF Follows
      <3> QED
        BY <1>6, <3>1, <3>2 DEF Selects
    <2>4. n \in 1 .. N /\ n - 1 \in 0 .. N /\ n - 1 \notin Bad
      <3>1. n \in 0 .. N /\ n # 0
        BY <2>3
      <3> HIDE DEF Bad
      <3> QED
        BY <1>2, <2>2, <3>1
    <2>5. W[n - 1] \in Seq(S) /\ Selects(W[n - 1], q, D, n - 1) /\ q[n] \in S
      BY <1>2, <2>4
    <2>6. Selects(W[n], q, D, n)
      BY <1>2, <1>6, <2>4, <2>5, SelectsOneMore
    <2>7. W[n] \in Seq(S)
      <3>1. W[n] = Step(n, W[n - 1])
        BY <1>6, <2>4
      <3> QED
        BY <2>5, <3>1
    <2> QED
      BY <2>2, <2>6, <2>7
  <1> QED
    BY <1>1, <1>2, <1>7

-----------------------------------------------------------------------------
(* Types.                                                                  *)

Msgs == [win : Targets, kind : Kinds]

(* TypeOK in two halves: the queue's own contents, and the sent messages. *)
ContentsOK ==
    /\ posted \in Seq(Msgs) /\ Len(posted) <= MaxPosted
    /\ move \in Windows \cup {None}
    /\ scroll \in (Windows \X Directions) \cup {None}
    /\ dirty \subseteq Windows
    /\ timers \in [Timed -> {"off", "armed", "due"}]
    /\ holder \in [Roles -> Windows \cup {None}]
    /\ wake \subseteq Bits
    /\ stopped \in BOOLEAN

SentOK ==
    /\ call \in [Calls -> {"new", "waiting", "answered", "timedOut"}]
    /\ held \in BOOLEAN
    /\ sent \in Seq(Calls) /\ scratch \in Seq(Calls) /\ IsInjective(sent \o scratch)
    /\ \A c \in Outstanding : call[c] \in {"waiting", "timedOut"}
    /\ scratch # << >> => held
    /\ held => sent = << >>

LEMMA TypeHalves == TypeOK <=> ContentsOK /\ SentOK
  BY DEF TypeOK, ContentsOK, SentOK, Msgs

LEMMA TypeHalvesPrimed == TypeOK' <=> ContentsOK' /\ SentOK'
  BY DEF TypeOK, ContentsOK, SentOK, Msgs

LEMMA BitsAre == \A k : Bit(k) \in Bits \ {"send", "move"}
  BY DEF Bit, Bits

LEMMA BitsOfIn == \A q : BitsOf(q) \subseteq Bits \ {"send", "move"}
  BY BitsAre DEF BitsOf

LEMMA RecomputedIn == \A q, mv, sc, dt, tm, sn : Recomputed(q, mv, sc, dt, tm, sn) \subseteq Bits
  BY BitsOfIn DEF Recomputed

(* Messages and their kinds. *)
LEMMA MessageIs ==
    ASSUME NEW w \in Targets, NEW k \in Kinds
    PROVE  /\ <<Message(w, k)>> \in Seq(Msgs) /\ Len(<<Message(w, k)>>) = 1
           /\ <<Message(w, k)>>[1] = Message(w, k)
           /\ Message(w, k).win = w /\ Message(w, k).kind = k
  BY DEF Message, Msgs

(* The first message that matches a filter. *)
LEMMA FirstIs ==
    ASSUME posted \in Seq(Msgs), NEW f, Found(f) # {}
    PROVE  /\ First(f) \in DOMAIN posted /\ posted[First(f)].win \in f
           /\ \A j \in Found(f) : First(f) <= j
  <1>1. Found(f) \subseteq Nat
    BY DEF Found
  <1>2. \E i \in Found(f) : \A j \in Found(f) : i <= j
    BY <1>1, Least
  <1>3. First(f) \in Found(f) /\ \A j \in Found(f) : First(f) <= j
    BY <1>2 DEF First
  <1> QED
    BY <1>3 DEF Found

(* What Take does to each of the queue's contents. *)
LEMMA TakeContents ==
    ASSUME ContentsOK, NEW f, Take(f)
    PROVE  /\ posted' \in Seq(Msgs) /\ Len(posted') <= Len(posted)
           /\ move' \in {move, None} /\ scroll' \in {scroll, None} /\ dirty' \subseteq dirty
           /\ timers' \in [Timed -> {"off", "armed", "due"}]
           /\ wake' \subseteq wake
  <1>1. CASE TakePosted(f)
    <2>1. DOMAIN posted \ {First(f)} \subseteq DOMAIN posted
      OBVIOUS
    <2>2. posted' \in Seq(Msgs) /\ Len(posted') <= Len(posted)
      BY <1>1, <2>1, PickedIs DEF TakePosted, Without, ContentsOK, Selects
    <2>3. wake' \subseteq wake
      BY <1>1 DEF TakePosted
    <2> QED
      BY <1>1, <2>2, <2>3 DEF TakePosted, ContentsOK
  <1>2. CASE TakeMove(f) \/ TakeScroll(f) \/ TakePaint(f)
    <2>1. UNCHANGED <<posted, timers>>
      BY <1>2 DEF TakeMove, TakeScroll, TakePaint
    <2>2. Len(posted) <= Len(posted)
      BY DEF ContentsOK
    <2> QED
      BY <1>2, <2>1, <2>2 DEF TakeMove, TakeScroll, TakePaint, ContentsOK
  <1>3. CASE TakeTimer(f)
    <2>1. Rearmed \in [Timed -> {"off", "armed", "due"}]
      BY DEF Rearmed, ContentsOK
    <2>2. Len(posted) <= Len(posted)
      BY DEF ContentsOK
    <2> QED
      BY <1>3, <2>1, <2>2 DEF TakeTimer, ContentsOK
  <1> QED
    BY <1>1, <1>2, <1>3 DEF Take

LEMMA TakeKeepsContents ==
    ASSUME ContentsOK, NEW f, Take(f), UNCHANGED holder, stopped' \in BOOLEAN
    PROVE  ContentsOK'
  <1>1. Len(posted) \in Nat /\ Len(posted') \in Nat /\ MaxPosted \in Nat
    BY TakeContents, ThreadQueueAssumption DEF ContentsOK
  <1>2. Len(posted') <= MaxPosted
    BY <1>1, TakeContents DEF ContentsOK
  <1> QED
    BY <1>2, TakeContents DEF ContentsOK

(* The kinds of the messages of a change of holder. *)
LEMMA RoleKinds ==
    ASSUME NEW r \in Roles
    PROVE  /\ r \in {"focus", "active"}
           /\ Gained["focus"] = "focusGained" /\ Lost["focus"] = "focusLost"
           /\ Gained["active"] = "activate" /\ Lost["active"] = "deactivate"
           /\ Gained[r] \in Kinds /\ Lost[r] \in Kinds
  <1>1. r \in {"focus", "active"}
    BY ThreadQueueAssumption
  <1>2. /\ Gained["focus"] = "focusGained" /\ Lost["focus"] = "focusLost"
        /\ Gained["active"] = "activate" /\ Lost["active"] = "deactivate"
    BY DEF Gained, Lost
  <1>3. {"focusGained", "focusLost", "activate", "deactivate"} \subseteq Kinds
    BY DEF Kinds
  <1>4. Gained[r] \in Kinds /\ Lost[r] \in Kinds
    BY <1>1, <1>2, <1>3
  <1> QED
    BY <1>1, <1>2, <1>4

(* Two messages one after the other. *)
LEMMA TwoMessages ==
    ASSUME NEW S, NEW a \in S, NEW b \in S
    PROVE  <<a>> \o <<b>> = <<a, b>> /\ <<a, b>> \in Seq(S)
  <1>1. /\ <<a>> \o <<b>> \in Seq(S) /\ <<a, b>> \in Seq(S)
        /\ Len(<<a>> \o <<b>>) = 2 /\ Len(<<a, b>>) = 2
    OBVIOUS
  <1>2. /\ (<<a>> \o <<b>>)[1] = a /\ (<<a>> \o <<b>>)[2] = b
        /\ <<a, b>>[1] = a /\ <<a, b>>[2] = b
    OBVIOUS
  <1>3. \A i \in 1 .. 2 : i = 1 \/ i = 2
    OBVIOUS
  <1>4. \A i \in 1 .. Len(<<a>> \o <<b>>) : (<<a>> \o <<b>>)[i] = <<a, b>>[i]
    BY <1>1, <1>2, <1>3
  <1> QED
    BY <1>1, <1>4, SeqEqual

(* The messages of a change of holder. *)
HolderMsgs(r, w) ==
    (IF holder[r] = None THEN << >> ELSE <<Message(holder[r], Lost[r])>>)
        \o <<Message(w, Gained[r])>>

LEMMA HolderMsgsAre ==
    ASSUME ContentsOK, NEW r \in Roles, NEW w \in Windows
    PROVE  /\ HolderMsgs(r, w) \in Seq(Msgs)
           /\ holder[r] = None => HolderMsgs(r, w) = <<Message(w, Gained[r])>>
           /\ holder[r] # None => /\ holder[r] \in Windows
                                  /\ HolderMsgs(r, w) = <<Message(holder[r], Lost[r]),
                                                          Message(w, Gained[r])>>
           /\ Gained[r] \in Kinds /\ Lost[r] \in Kinds
  <1>1. Gained[r] \in Kinds /\ Lost[r] \in Kinds
    BY RoleKinds
  <1>2. holder[r] \in Windows \cup {None} /\ w \in Targets
    BY DEF ContentsOK, Targets
  <1>3. <<Message(w, Gained[r])>> \in Seq(Msgs)
    BY <1>1, <1>2, MessageIs
  <1>4. CASE holder[r] = None
    <2>1. HolderMsgs(r, w) = << >> \o <<Message(w, Gained[r])>>
      BY <1>4 DEF HolderMsgs
    <2> QED
      BY <1>1, <1>3, <1>4, <2>1, ConcatEmptySeq
  <1>5. CASE holder[r] # None
    <2>1. holder[r] \in Targets /\ holder[r] \in Windows
      BY <1>2, <1>5 DEF Targets
    <2>2. HolderMsgs(r, w) = <<Message(holder[r], Lost[r])>> \o <<Message(w, Gained[r])>>
      BY <1>5 DEF HolderMsgs
    <2>3. Message(holder[r], Lost[r]) \in Msgs /\ Message(w, Gained[r]) \in Msgs
      BY <1>1, <1>2, <2>1 DEF Message, Msgs
    <2>4. /\ HolderMsgs(r, w) = <<Message(holder[r], Lost[r]), Message(w, Gained[r])>>
          /\ HolderMsgs(r, w) \in Seq(Msgs)
      BY <2>2, <2>3, TwoMessages
    <2> QED
      BY <1>1, <1>5, <2>1, <2>4
  <1> QED
    BY <1>4, <1>5

(* Appending messages. *)
LEMMA PostAllContents ==
    ASSUME ContentsOK, NEW ms \in Seq(Msgs), PostAll(ms)
    PROVE  posted' \in Seq(Msgs) /\ Len(posted') <= MaxPosted /\ wake' \subseteq Bits
  <1>1. posted' = posted \o ms /\ Len(posted) + Len(ms) <= MaxPosted /\ posted \in Seq(Msgs)
    BY DEF PostAll, ContentsOK
  <1>2. posted' \in Seq(Msgs) /\ Len(posted') = Len(posted) + Len(ms)
    BY <1>1
  <1>3. wake' \subseteq Bits
    BY BitsOfIn DEF PostAll, ContentsOK
  <1> QED
    BY <1>1, <1>2, <1>3

LEMMA ContentsStep ==
    ASSUME ContentsOK, [Next]_vars
    PROVE  ContentsOK'
  <1>1. ASSUME NEW ms \in Seq(Msgs), PostAll(ms), holder' \in [Roles -> Windows \cup {None}]
        PROVE  ContentsOK'
    <2>1. UNCHANGED <<move, scroll, dirty, timers, stopped>>
      BY <1>1 DEF PostAll
    <2> QED
      BY <1>1, <2>1, PostAllContents DEF ContentsOK
  <1>2. ASSUME NEW w \in Windows, NEW k \in Posts, Post(w, k)
        PROVE  ContentsOK'
    <2>1. <<Message(w, k)>> \in Seq(Msgs)
      BY MessageIs DEF Targets, Kinds
    <2> QED
      BY <1>1, <1>2, <2>1 DEF Post, ContentsOK
  <1>3. ASSUME NEW w \in Windows, PostMove(w)
        PROVE  ContentsOK'
    BY <1>3 DEF PostMove, ContentsOK, Bits
  <1>4. ASSUME NEW w \in Windows, NEW d \in Directions, PostWheel(w, d)
        PROVE  ContentsOK'
    <2> DEFINE flushed == IF scroll \in {None, <<w, d>>} THEN << >>
                          ELSE <<Message(scroll[1], "wheel")>>
    <2>1. flushed \in Seq(Msgs)
      <3>1. CASE scroll \in {None, <<w, d>>}
        <4>1. << >> \in Seq(Msgs)
          OBVIOUS
        <4> QED
          BY <3>1, <4>1
      <3>2. CASE scroll \notin {None, <<w, d>>}
        <4>1. scroll[1] \in Targets /\ "wheel" \in Kinds
          BY <3>2 DEF ContentsOK, Targets, Kinds
        <4> QED
          BY <3>2, <4>1, MessageIs
      <3> QED
        BY <3>1, <3>2
    <2>2. /\ Len(posted) + Len(flushed) <= MaxPosted /\ posted' = posted \o flushed
          /\ scroll' = <<w, d>> /\ wake' = wake \cup {"scroll"}
          /\ UNCHANGED <<move, dirty, timers, holder, stopped>>
      BY <1>4 DEF PostWheel
    <2> HIDE DEF flushed
    <2>3. posted' \in Seq(Msgs) /\ Len(posted') <= MaxPosted
      BY <2>1, <2>2 DEF ContentsOK
    <2> QED
      BY <2>2, <2>3 DEF ContentsOK, Bits
  <1>5. ASSUME NEW r \in Roles, NEW w \in Windows, SetHolder(r, w)
        PROVE  ContentsOK'
    <2>1. PostAll(HolderMsgs(r, w)) /\ HolderMsgs(r, w) \in Seq(Msgs)
      BY <1>5, HolderMsgsAre DEF SetHolder, HolderMsgs
    <2>2. holder' \in [Roles -> Windows \cup {None}]
      BY <1>5 DEF SetHolder, ContentsOK
    <2> QED
      BY <1>1, <2>1, <2>2
  <1>6. ASSUME NEW w \in Windows, Invalidate(w) \/ Validate(w)
        PROVE  ContentsOK'
    BY <1>6 DEF Invalidate, Validate, ContentsOK, Bits, input
  <1>7. ASSUME NEW w \in Windows, PurgeWindow(w)
        PROVE  ContentsOK'
    <2>1. /\ Picked(posted, {i \in DOMAIN posted : posted[i].win # w}) \in Seq(Msgs)
          /\ Len(Picked(posted, {i \in DOMAIN posted : posted[i].win # w})) <= Len(posted)
      BY PickedIs DEF ContentsOK, Selects
    <2>2. posted' \in Seq(Msgs) /\ Len(posted') <= MaxPosted
      <3>1. posted' \in Seq(Msgs) /\ Len(posted') <= Len(posted)
        BY <1>7, <2>1 DEF PurgeWindow
      <3>2. Len(posted) \in Nat /\ Len(posted) <= MaxPosted /\ MaxPosted \in Nat
        BY ThreadQueueAssumption DEF ContentsOK
      <3> QED
        BY <3>1, <3>2
    <2>3. wake' \subseteq Bits
      BY <1>7, RecomputedIn DEF PurgeWindow
    <2>4. /\ timers' \in [Timed -> {"off", "armed", "due"}]
          /\ holder' \in [Roles -> Windows \cup {None}]
      BY <1>7 DEF PurgeWindow, ContentsOK
    <2>5. /\ move' \in Windows \cup {None} /\ scroll' \in (Windows \X Directions) \cup {None}
          /\ dirty' \subseteq Windows /\ stopped' \in BOOLEAN
      BY <1>7 DEF PurgeWindow, ContentsOK
    <2> QED
      BY <2>2, <2>3, <2>4, <2>5 DEF ContentsOK
  <1>8. ASSUME NEW r \in Roles, ClearHolder(r)
        PROVE  ContentsOK'
    <2>1. holder[r] \in Targets /\ Lost[r] \in Kinds
      BY <1>8, RoleKinds DEF ClearHolder, ContentsOK, Targets
    <2>2. <<Message(holder[r], Lost[r])>> \in Seq(Msgs) /\ PostAll(<<Message(holder[r], Lost[r])>>)
      BY <1>8, <2>1, MessageIs DEF ClearHolder
    <2>3. holder' \in [Roles -> Windows \cup {None}]
      BY <1>8 DEF ClearHolder, ContentsOK
    <2> QED
      BY <1>1, <2>2, <2>3
  <1>9. ASSUME NEW w \in Timed, SetTimer(w, "armed") \/ SetTimer(w, "off") \/ TimerElapses(w)
        PROVE  ContentsOK'
    BY <1>9 DEF SetTimer, TimerElapses, ContentsOK, input
  <1>10. ASSUME NEW f, Peek(f) \/ Look(f)
         PROVE  ContentsOK'
    <2>1. Take(f) /\ UNCHANGED <<holder, stopped>>
      BY <1>10 DEF Peek, Look, Take
    <2> QED
      BY <2>1, TakeKeepsContents DEF ContentsOK
  <1>11. ASSUME NEW c \in Calls, Send(c) \/ WaitTimesOut(c)
         PROVE  ContentsOK'
    BY <1>11 DEF Send, WaitTimesOut, ContentsOK, Bits, input
  <1>12. CASE PostQuit
    <2>1. <<Message(Broadcast, "quit")>> \in Seq(Msgs)
      BY MessageIs DEF Targets, Kinds
    <2> QED
      BY <1>1, <1>12, <2>1 DEF PostQuit, ContentsOK
  <1>13. CASE CheckTimers
    <2>1. Rearmed \in [Timed -> {"off", "armed", "due"}]
      BY DEF Rearmed, ContentsOK
    <2> QED
      BY <1>13, <2>1 DEF CheckTimers, ContentsOK, Bits, input
  <1>14. CASE ThinKeyRepeats
    <2>1. PICK D : D \subseteq DOMAIN posted /\ posted' = Picked(posted, D)
      BY <1>14 DEF ThinKeyRepeats
    <2>2. posted' \in Seq(Msgs) /\ Len(posted') <= MaxPosted
      <3>1. posted' \in Seq(Msgs) /\ Len(posted') <= Len(posted)
        BY <2>1, PickedIs DEF ContentsOK, Selects
      <3>2. Len(posted) \in Nat /\ Len(posted) <= MaxPosted /\ MaxPosted \in Nat
        BY ThreadQueueAssumption DEF ContentsOK
      <3> QED
        BY <3>1, <3>2
    <2>3. wake' \subseteq Bits /\ UNCHANGED <<move, scroll, dirty, timers, holder, stopped>>
      BY <1>14, RecomputedIn DEF ThinKeyRepeats
    <2> QED
      BY <2>2, <2>3 DEF ContentsOK
  <1>15. CASE Clear
    <2>1. << >> \in Seq(Msgs) /\ Len(<< >>) = 0 /\ 0 <= MaxPosted
      BY ThreadQueueAssumption
    <2> QED
      BY <1>15, <2>1 DEF Clear, ContentsOK
  <1>16. CASE TakeSent \/ HandleSent
    BY <1>16 DEF TakeSent, HandleSent, ContentsOK, input
  <1>17. CASE Dispatch
    <2>1. Take(Targets) /\ UNCHANGED holder /\ stopped' \in BOOLEAN
      BY <1>17 DEF Dispatch
    <2> QED
      BY <2>1, TakeKeepsContents
  <1>18. CASE UNCHANGED vars
    BY <1>18 DEF vars, ContentsOK
  <1> QED
    BY <1>2, <1>3, <1>4, <1>5, <1>6, <1>7, <1>8, <1>9, <1>10, <1>11, <1>12, <1>13, <1>14, <1>15,
       <1>16, <1>17, <1>18
    DEF Next, PumpOne

(* The sent messages are in one of the two lists, the other is empty. *)
SentLists ==
    /\ call \in [Calls -> {"new", "waiting", "answered", "timedOut"}]
    /\ held \in BOOLEAN
    /\ sent \in Seq(Calls) /\ scratch \in Seq(Calls)
    /\ \A i, j \in 1 .. Len(sent) : sent[i] = sent[j] => i = j
    /\ \A i, j \in 1 .. Len(scratch) : scratch[i] = scratch[j] => i = j
    /\ \A i \in 1 .. Len(sent) : call[sent[i]] \in {"waiting", "timedOut"}
    /\ \A i \in 1 .. Len(scratch) : call[scratch[i]] \in {"waiting", "timedOut"}
    /\ IF held THEN sent = << >> ELSE scratch = << >>

LEMMA SentHalves == SentOK <=> SentLists
  <1>1. ASSUME sent \in Seq(Calls), scratch \in Seq(Calls)
        PROVE  /\ (\A c \in Outstanding : call[c] \in {"waiting", "timedOut"})
                  <=> /\ \A i \in 1 .. Len(sent) : call[sent[i]] \in {"waiting", "timedOut"}
                      /\ \A i \in 1 .. Len(scratch) : call[scratch[i]] \in {"waiting", "timedOut"}
    BY <1>1 DEF Outstanding, Range
  <1>2. ASSUME NEW q \in Seq(Calls)
        PROVE  IsInjective(q) <=> \A i, j \in 1 .. Len(q) : q[i] = q[j] => i = j
    BY DEF IsInjective
  <1>3. ASSUME sent \in Seq(Calls), scratch \in Seq(Calls), sent = << >> \/ scratch = << >>
        PROVE  IsInjective(sent \o scratch) <=> IsInjective(sent) /\ IsInjective(scratch)
    <2>1. IsInjective(<< >>)
      BY DEF IsInjective
    <2>2. CASE sent = << >>
      <3>1. sent \o scratch = scratch
        BY <1>3, <2>2, ConcatEmptySeq
      <3> QED
        BY <2>1, <2>2, <3>1
    <2>3. CASE scratch = << >>
      <3>1. sent \o scratch = sent
        BY <1>3, <2>3, ConcatEmptySeq
      <3> QED
        BY <2>1, <2>3, <3>1
    <2> QED
      BY <1>3, <2>2, <2>3
  <1>4. ASSUME SentOK PROVE SentLists
    <2>1. IF held THEN sent = << >> ELSE scratch = << >>
      BY <1>4 DEF SentOK
    <2> QED
      BY <1>1, <1>2, <1>3, <1>4, <2>1 DEF SentOK, SentLists
  <1>5. ASSUME SentLists PROVE SentOK
    <2>1. (scratch # << >> => held) /\ (held => sent = << >>)
      BY <1>5 DEF SentLists
    <2> QED
      BY <1>1, <1>2, <1>3, <1>5, <2>1 DEF SentOK, SentLists
  <1> QED
    BY <1>4, <1>5

LEMMA SentHalvesPrimed == SentOK' <=> SentLists'
  BY SentHalves, PTL

LEMMA SentStep ==
    ASSUME SentLists, [Next]_vars
    PROVE  SentLists'
  <1>1. CASE UNCHANGED <<sent, scratch, held, call>>
    BY <1>1 DEF SentLists
  <1>2. ASSUME NEW c \in Calls, Send(c)
        PROVE  SentLists'
    <2>1. /\ scratch = << >> /\ held = FALSE /\ call[c] = "new"
          /\ sent' = Append(sent, c) /\ scratch' = scratch /\ held' = held
          /\ call' = [call EXCEPT ![c] = "waiting"]
      BY <1>2 DEF Send, Free, SentLists
    <2>2. /\ sent' \in Seq(Calls) /\ Len(sent') = Len(sent) + 1 /\ sent'[Len(sent) + 1] = c
          /\ \A i \in 1 .. Len(sent) : sent'[i] = sent[i] /\ sent[i] # c /\ sent[i] \in Calls
      BY <2>1 DEF SentLists
    <2>3. /\ call' \in [Calls -> {"new", "waiting", "answered", "timedOut"}]
          /\ call'[c] = "waiting" /\ \A d \in Calls \ {c} : call'[d] = call[d]
      BY <2>1 DEF SentLists
    <2>4. \A i \in 1 .. Len(sent') : i = Len(sent) + 1 \/ i \in 1 .. Len(sent)
      BY <2>2 DEF SentLists
    <2>5. \A i, j \in 1 .. Len(sent') : sent'[i] = sent'[j] => i = j
      BY <2>2, <2>4 DEF SentLists
    <2>6. \A i \in 1 .. Len(sent') : call'[sent'[i]] \in {"waiting", "timedOut"}
      BY <2>2, <2>3, <2>4 DEF SentLists
    <2> QED
      BY <2>1, <2>2, <2>3, <2>5, <2>6 DEF SentLists
  <1>3. ASSUME NEW c \in Calls, WaitTimesOut(c)
        PROVE  SentLists'
    <2>1. /\ call' \in [Calls -> {"new", "waiting", "answered", "timedOut"}]
          /\ \A d \in Calls : call[d] \in {"waiting", "timedOut"} => call'[d] \in {"waiting", "timedOut"}
          /\ UNCHANGED <<sent, scratch, held>>
      BY <1>3 DEF WaitTimesOut, SentLists
    <2>2. /\ \A i \in 1 .. Len(sent) : sent[i] \in Calls
          /\ \A i \in 1 .. Len(scratch) : scratch[i] \in Calls
      BY DEF SentLists
    <2> QED
      BY <2>1, <2>2 DEF SentLists
  <1>4. CASE TakeSent
    <2>1. /\ held = FALSE /\ held' = TRUE /\ scratch' = sent /\ sent' = << >> /\ call' = call
      BY <1>4 DEF TakeSent, Free, SentLists
    <2>2. << >> \in Seq(Calls) /\ Len(<< >>) = 0
      OBVIOUS
    <2> QED
      BY <2>1, <2>2 DEF SentLists
  <1>5. CASE HandleSent
    <2> DEFINE t == Tail(scratch)
               c == Head(scratch)
    <2>1. /\ scratch # << >> /\ held /\ sent = << >> /\ held' = held /\ sent' = sent
          /\ scratch' = t
          /\ call' = [call EXCEPT ![c] = IF @ = "waiting" THEN "answered" ELSE @]
      BY <1>5 DEF HandleSent, SentLists
    <2>2. /\ scratch \in Seq(Calls) /\ c = scratch[1] /\ c \in Calls /\ 1 \in 1 .. Len(scratch)
          /\ t \in Seq(Calls) /\ Len(t) = Len(scratch) - 1
          /\ \A i \in 1 .. Len(t) : t[i] = scratch[i + 1] /\ i + 1 \in 1 .. Len(scratch) /\ i + 1 # 1
      BY <2>1 DEF SentLists
    <2> HIDE DEF t, c
    <2>3. \A i \in 1 .. Len(t) : t[i] # c /\ t[i] \in Calls
      BY <2>2 DEF SentLists
    <2>4. /\ call' \in [Calls -> {"new", "waiting", "answered", "timedOut"}]
          /\ \A d \in Calls \ {c} : call'[d] = call[d]
      BY <2>1, <2>2 DEF SentLists
    <2>5. \A i, j \in 1 .. Len(t) : t[i] = t[j] => i = j
      <3> SUFFICES ASSUME NEW i \in 1 .. Len(t), NEW j \in 1 .. Len(t), t[i] = t[j]
                   PROVE  i + 1 = j + 1
        BY <2>2
      <3> QED
        BY <2>2 DEF SentLists
    <2>6. \A i \in 1 .. Len(t) : call'[t[i]] \in {"waiting", "timedOut"}
      BY <2>2, <2>3, <2>4 DEF SentLists
    <2> QED
      BY <2>1, <2>2, <2>4, <2>5, <2>6 DEF SentLists
  <1>6. CASE Dispatch
    <2>1. held' = FALSE /\ UNCHANGED <<sent, scratch, call>> /\ (held => scratch = << >>)
      BY <1>6 DEF Dispatch
    <2> QED
      BY <2>1 DEF SentLists
  <1>7. CASE Clear
    <2>1. held = FALSE /\ sent' = << >> /\ UNCHANGED <<scratch, held, call>>
      BY <1>7 DEF Clear, Free, SentLists
    <2>2. << >> \in Seq(Calls) /\ Len(<< >>) = 0
      OBVIOUS
    <2> QED
      BY <2>1, <2>2 DEF SentLists
  <1>8. CASE CheckTimers \/ ThinKeyRepeats \/ PostQuit
    BY <1>1, <1>8 DEF CheckTimers, ThinKeyRepeats, PostQuit, PostAll
  <1>9. ASSUME NEW w \in Windows,
               \/ \E k \in Posts : Post(w, k)
               \/ PostMove(w)
               \/ \E d \in Directions : PostWheel(w, d)
               \/ \E r \in Roles : SetHolder(r, w)
               \/ Invalidate(w) \/ Validate(w) \/ PurgeWindow(w)
        PROVE  SentLists'
    BY <1>1, <1>9 DEF Post, PostMove, PostWheel, SetHolder, Invalidate, Validate, PurgeWindow, PostAll
  <1>10. ASSUME NEW r \in Roles, ClearHolder(r)
         PROVE  SentLists'
    BY <1>1, <1>10 DEF ClearHolder, PostAll
  <1>11. ASSUME NEW w \in Timed, SetTimer(w, "armed") \/ SetTimer(w, "off") \/ TimerElapses(w)
         PROVE  SentLists'
    BY <1>1, <1>11 DEF SetTimer, TimerElapses
  <1>12. ASSUME NEW f, Peek(f) \/ Look(f)
         PROVE  SentLists'
    BY <1>1, <1>12 DEF Peek, Look
  <1>13. CASE UNCHANGED vars
    BY <1>1, <1>13 DEF vars
  <1> QED
    BY <1>2, <1>3, <1>4, <1>5, <1>6, <1>7, <1>8, <1>9, <1>10, <1>11, <1>12, <1>13 DEF Next, PumpOne

-----------------------------------------------------------------------------
(* Wake bits.                                                              *)

(* WakeBitsHonest, bit by bit: what is posted gives the bits B. *)
Honest(wk, B, mv, sc, dt, sn) ==
    /\ "send" \in wk <=> sn # << >>
    /\ "move" \in wk <=> mv # None
    /\ "scroll" \in wk <=> "scroll" \in B \/ sc # None
    /\ \A b \in {"mouse", "key", "hotkey", "post"} : b \in wk <=> b \in B
    /\ "paint" \in wk => "paint" \in B \/ dt # {}

LEMMA HonestIs ==
    ASSUME NEW wk, wk \subseteq Bits, NEW q, NEW mv, NEW sc, NEW dt, NEW tm, NEW sn
    PROVE  (/\ wk \subseteq Recomputed(q, mv, sc, dt, tm, sn) \cup {"timer"}
            /\ Recomputed(q, mv, sc, dt, tm, sn) \subseteq wk \cup {"timer", "paint"})
           <=> Honest(wk, BitsOf(q), mv, sc, dt, sn)
  <1> DEFINE P == Recomputed(q, mv, sc, dt, tm, sn)
             B == BitsOf(q)
  <1>1. B \subseteq Bits \ {"send", "move"} /\ P \subseteq Bits
    BY BitsOfIn, RecomputedIn
  <1>2. /\ "send" \in P <=> sn # << >>
        /\ "move" \in P <=> mv # None
        /\ "scroll" \in P <=> "scroll" \in B \/ sc # None
        /\ \A b \in {"mouse", "key", "hotkey", "post"} : b \in P <=> b \in B
        /\ "paint" \in P <=> "paint" \in B \/ dt # {}
    <2>1. \A b \in Bits :
              b \in P <=> (\/ b \in B
                           \/ b = "send" /\ sn # << >>
                           \/ b = "move" /\ mv # None
                           \/ b = "scroll" /\ sc # None
                           \/ b = "paint" /\ dt # {}
                           \/ b = "timer" /\ \E w \in DOMAIN tm : tm[w] = "due")
      BY DEF Recomputed
    <2> HIDE DEF P, B
    <2>2. {"send", "move", "scroll", "mouse", "key", "hotkey", "post", "paint"} \subseteq Bits
      BY DEF Bits
    <2> QED
      BY <1>1, <2>1, <2>2
  <1> HIDE DEF P, B
  <1>3. \A b \in Bits : b \in {"mouse", "key", "hotkey", "post"}
                       \/ b \in {"send", "move", "scroll", "paint", "timer"}
    BY DEF Bits
  <1>4. ASSUME wk \subseteq P \cup {"timer"}, P \subseteq wk \cup {"timer", "paint"}
        PROVE  Honest(wk, B, mv, sc, dt, sn)
    BY <1>2, <1>4 DEF Honest
  <1>5. ASSUME Honest(wk, B, mv, sc, dt, sn)
        PROVE  wk \subseteq P \cup {"timer"} /\ P \subseteq wk \cup {"timer", "paint"}
    BY <1>1, <1>2, <1>3, <1>5 DEF Honest
  <1> QED
    BY <1>4, <1>5 DEF P, B

HonestNow == Honest(wake, BitsOf(posted), move, scroll, dirty, sent \o scratch)

LEMMA WakeIs == ContentsOK => (WakeBitsHonest <=> HonestNow)
  BY HonestIs DEF ContentsOK, WakeBitsHonest, HonestNow

LEMMA WakeIsPrimed == ContentsOK' => (WakeBitsHonest' <=> HonestNow')
  BY WakeIs, PTL

(* The bits of a FIFO to which messages are appended, *)
LEMMA BitsOfJoined ==
    ASSUME NEW q \in Seq(Msgs), NEW ms \in Seq(Msgs)
    PROVE  BitsOf(q \o ms) = BitsOf(q) \cup BitsOf(ms)
  <1> DEFINE j == q \o ms
  <1>1. /\ Len(q) \in Nat /\ Len(ms) \in Nat
        /\ DOMAIN j = 1 .. Len(q) + Len(ms)
        /\ \A i \in 1 .. Len(q) : j[i] = q[i]
        /\ \A i \in Len(q) + 1 .. Len(q) + Len(ms) :
              i - Len(q) \in 1 .. Len(ms) /\ j[i] = ms[i - Len(q)]
    OBVIOUS
  <1>2. \A i \in 1 .. Len(ms) : j[Len(q) + i] = ms[i]
    OBVIOUS
  <1> HIDE DEF j
  <1>3. BitsOf(q) \subseteq BitsOf(j)
    BY <1>1 DEF BitsOf
  <1>4. BitsOf(ms) \subseteq BitsOf(j)
    <2> SUFFICES ASSUME NEW i \in 1 .. Len(ms)
                 PROVE  Bit(ms[i].kind) \in BitsOf(j)
      BY DEF BitsOf
    <2>1. Len(q) + i \in DOMAIN j /\ j[Len(q) + i] = ms[i]
      BY <1>1, <1>2
    <2> QED
      BY <2>1 DEF BitsOf
  <1>5. BitsOf(j) \subseteq BitsOf(q) \cup BitsOf(ms)
    <2> SUFFICES ASSUME NEW i \in 1 .. Len(q) + Len(ms)
                 PROVE  Bit(j[i].kind) \in BitsOf(q) \cup BitsOf(ms)
      BY <1>1 DEF BitsOf
    <2>1. CASE i <= Len(q)
      BY <1>1, <2>1 DEF BitsOf
    <2>2. CASE i > Len(q)
      <3>1. i - Len(q) \in DOMAIN ms /\ j[i] = ms[i - Len(q)]
        BY <1>1, <2>2
      <3> QED
        BY <3>1 DEF BitsOf
    <2> QED
      BY <1>1, <2>1, <2>2
  <1> QED
    BY <1>3, <1>4, <1>5 DEF j

(* and of one from which messages are taken. *)
LEMMA BitsOfPicked ==
    ASSUME NEW q \in Seq(Msgs), NEW D, D \subseteq DOMAIN q
    PROVE  BitsOf(Picked(q, D)) = {Bit(q[i].kind) : i \in D}
  <1> DEFINE p == Picked(q, D)
  <1>1. p \in Seq(Msgs) /\ Selects(p, q, D, Len(q))
    BY PickedIs
  <1> HIDE DEF p
  <1>2. PICK at : Follows(p, q, D, Len(q), at)
    BY <1>1 DEF Selects
  <1>3. \A i \in DOMAIN p : at[i] \in D /\ p[i] = q[at[i]]
    BY <1>1, <1>2 DEF Follows
  <1>4. \A d \in D : \E i \in DOMAIN p : at[i] = d
    <2>1. DOMAIN p = 1 .. Len(p)
      BY <1>1
    <2>2. \A d \in D : d <= Len(q)
      OBVIOUS
    <2> QED
      BY <1>2, <2>1, <2>2 DEF Follows
  <1>5. BitsOf(p) \subseteq {Bit(q[i].kind) : i \in D}
    BY <1>3 DEF BitsOf
  <1>6. {Bit(q[i].kind) : i \in D} \subseteq BitsOf(p)
    <2> SUFFICES ASSUME NEW d \in D
                 PROVE  Bit(q[d].kind) \in BitsOf(p)
      OBVIOUS
    <2>1. PICK i \in DOMAIN p : at[i] = d
      BY <1>4
    <2> QED
      BY <1>3, <2>1 DEF BitsOf
  <1> QED
    BY <1>5, <1>6 DEF p

LEMMA BitsOfWithout ==
    ASSUME posted \in Seq(Msgs), NEW i \in DOMAIN posted
    PROVE  /\ BitsOf(Without(i)) \subseteq BitsOf(posted)
           /\ BitsOf(posted) = BitsOf(Without(i)) \cup {Bit(posted[i].kind)}
  <1>1. BitsOf(Without(i)) = {Bit(posted[j].kind) : j \in DOMAIN posted \ {i}}
    BY BitsOfPicked DEF Without
  <1> QED
    BY <1>1 DEF BitsOf

LEMMA PendingSent ==
    SentLists => (sent \o scratch # << >> <=> sent # << >> \/ scratch # << >>)
  <1> SUFFICES ASSUME SentLists
               PROVE  sent \o scratch # << >> <=> sent # << >> \/ scratch # << >>
    OBVIOUS
  <1>1. sent \in Seq(Calls) /\ scratch \in Seq(Calls)
    BY DEF SentLists
  <1> QED
    BY <1>1, ConcatEqualIffEmpty

LEMMA PendingSentPrimed ==
    SentLists' => (sent' \o scratch' # << >> <=> sent' # << >> \/ scratch' # << >>)
  <1> SUFFICES ASSUME SentLists'
               PROVE  sent' \o scratch' # << >> <=> sent' # << >> \/ scratch' # << >>
    OBVIOUS
  <1>1. sent' \in Seq(Calls) /\ scratch' \in Seq(Calls)
    BY DEF SentLists
  <1> QED
    BY <1>1, ConcatEqualIffEmpty

(* Taking a message keeps the bits honest. *)
LEMMA TakeWake ==
    ASSUME ContentsOK, HonestNow, NEW f, Take(f), UNCHANGED <<sent, scratch>>
    PROVE  HonestNow'
  <1> DEFINE B == BitsOf(posted)
             C == BitsOf(posted')
             sn == sent \o scratch
  <1>1. Honest(wake, B, move, scroll, dirty, sn)
    BY DEF HonestNow
  <1> SUFFICES Honest(wake', C, move', scroll', dirty', sn)
    BY DEF HonestNow
  <1>2. B \subseteq Bits \ {"send", "move"} /\ C \subseteq Bits \ {"send", "move"}
    BY BitsOfIn
  <1> HIDE DEF sn
  <1>3. CASE TakePosted(f)
    <2> DEFINE bit == Bit(posted[First(f)].kind)
    <2>1. First(f) \in DOMAIN posted /\ posted \in Seq(Msgs)
      BY <1>3, FirstIs DEF TakePosted, ContentsOK
    <2>2. C \subseteq B /\ B = C \cup {bit}
      BY <1>3, <2>1, BitsOfWithout DEF TakePosted
    <2>3. /\ wake' = IF bit \in C \/ (bit = "scroll" /\ scroll # None) THEN wake ELSE wake \ {bit}
          /\ UNCHANGED <<move, scroll, dirty>>
      BY <1>3 DEF TakePosted
    <2> HIDE DEF bit, B, C
    <2>4. bit # "send" /\ bit # "move"
      BY <1>2, <2>2
    <2> QED
      BY <1>1, <2>2, <2>3, <2>4 DEF Honest
  <1>4. CASE TakeMove(f)
    <2>1. wake' = wake \ {"move"} /\ move' = None /\ C = B /\ UNCHANGED <<scroll, dirty>>
      BY <1>4 DEF TakeMove
    <2> HIDE DEF B, C
    <2> QED
      BY <1>1, <1>2, <2>1 DEF Honest
  <1>5. CASE TakeScroll(f)
    <2>1. /\ wake' = IF "scroll" \in B THEN wake ELSE wake \ {"scroll"}
          /\ scroll' = None /\ C = B /\ UNCHANGED <<move, dirty>> /\ scroll # None
      BY <1>5 DEF TakeScroll, Scrolled
    <2> HIDE DEF B, C
    <2> QED
      BY <1>1, <2>1 DEF Honest
  <1>6. CASE TakePaint(f)
    <2>1. /\ wake' = IF dirty' = {} THEN wake \ {"paint"} ELSE wake
          /\ C = B /\ UNCHANGED <<move, scroll>>
      BY <1>6 DEF TakePaint
    <2> HIDE DEF B, C
    <2> QED
      BY <1>1, <2>1 DEF Honest
  <1>7. CASE TakeTimer(f)
    <2>1. wake' = wake /\ C = B /\ UNCHANGED <<move, scroll, dirty>>
      BY <1>7 DEF TakeTimer
    <2> HIDE DEF B, C
    <2> QED
      BY <1>1, <2>1 DEF Honest
  <1> QED
    BY <1>3, <1>4, <1>5, <1>6, <1>7 DEF Take

LEMMA WakeStep ==
    ASSUME ContentsOK, SentLists, HonestNow, ContentsOK', SentLists', [Next]_vars
    PROVE  HonestNow'
  <1> DEFINE B == BitsOf(posted)
             C == BitsOf(posted')
             sn == sent \o scratch
             tn == sent' \o scratch'
  <1>1. Honest(wake, B, move, scroll, dirty, sn)
    BY DEF HonestNow
  <1>2. Honest(wake', C, move', scroll', dirty', tn) => HonestNow'
    BY DEF HonestNow
  <1>3. B \subseteq Bits \ {"send", "move"} /\ C \subseteq Bits \ {"send", "move"}
    BY BitsOfIn
  <1>4. /\ sn # << >> <=> sent # << >> \/ scratch # << >>
        /\ tn # << >> <=> sent' # << >> \/ scratch' # << >>
    BY PendingSent, PendingSentPrimed
  <1>5. (UNCHANGED <<sent, scratch>> => tn = sn) /\ (posted' = posted => C = B)
    OBVIOUS
  <1>6. Free => scratch = << >>
    BY DEF Free, SentLists
  <1> HIDE DEF B, C, sn, tn
  <1>7. ASSUME NEW ms \in Seq(Msgs), PostAll(ms)
        PROVE  HonestNow'
    <2>1. /\ C = B \cup BitsOf(ms) /\ wake' = wake \cup BitsOf(ms)
          /\ UNCHANGED <<move, scroll, dirty, sent, scratch>>
      BY <1>7, BitsOfJoined DEF PostAll, ContentsOK, B, C
    <2>2. BitsOf(ms) \subseteq Bits \ {"send", "move"}
      BY BitsOfIn
    <2> QED
      BY <1>1, <1>2, <1>5, <2>1, <2>2 DEF Honest
  <1>8. ASSUME NEW w \in Windows, NEW k \in Posts, Post(w, k)
        PROVE  HonestNow'
    <2>1. <<Message(w, k)>> \in Seq(Msgs)
      BY MessageIs DEF Targets, Kinds
    <2> QED
      BY <1>7, <1>8, <2>1 DEF Post
  <1>9. ASSUME NEW w \in Windows, PostMove(w)
        PROVE  HonestNow'
    <2>1. w # None /\ move' = w /\ wake' = wake \cup {"move"} /\ C = B /\ tn = sn
          /\ UNCHANGED <<scroll, dirty>>
      BY <1>5, <1>9, ThreadQueueAssumption DEF PostMove, Targets
    <2> QED
      BY <1>1, <1>2, <2>1 DEF Honest
  <1>10. ASSUME NEW w \in Windows, NEW d \in Directions, PostWheel(w, d)
         PROVE  HonestNow'
    <2>1. /\ <<w, d>> # None /\ scroll' = <<w, d>> /\ wake' = wake \cup {"scroll"}
          /\ tn = sn /\ UNCHANGED <<move, dirty>>
      BY <1>5, <1>10, ThreadQueueAssumption DEF PostWheel
    <2>2. B \subseteq C /\ C \subseteq B \cup {"scroll"}
      <3>1. CASE scroll \in {None, <<w, d>>}
        <4>1. posted' = posted \o << >> /\ posted \in Seq(Msgs)
          BY <1>10, <3>1 DEF PostWheel, ContentsOK
        <4> QED
          BY <1>5, <4>1, ConcatEmptySeq
      <3>2. CASE scroll \notin {None, <<w, d>>}
        <4> DEFINE m == Message(scroll[1], "wheel")
        <4>1. scroll[1] \in Targets /\ "wheel" \in Kinds
          BY <3>2 DEF ContentsOK, Targets, Kinds
        <4>2. <<m>> \in Seq(Msgs) /\ Len(<<m>>) = 1 /\ <<m>>[1].kind = "wheel"
          BY <4>1, MessageIs
        <4>3. posted' = posted \o <<m>> /\ posted \in Seq(Msgs)
          BY <1>10, <3>2 DEF PostWheel, ContentsOK
        <4> HIDE DEF m
        <4>4. C = B \cup BitsOf(<<m>>)
          BY <4>2, <4>3, BitsOfJoined DEF B, C
        <4>5. BitsOf(<<m>>) \subseteq {"scroll"}
          <5>1. \A i \in DOMAIN <<m>> : <<m>>[i].kind = "wheel"
            BY <4>2
          <5>2. Bit("wheel") = "scroll"
            BY DEF Bit
          <5> QED
            BY <5>1, <5>2 DEF BitsOf
        <4> QED
          BY <4>4, <4>5
      <3> QED
        BY <3>1, <3>2
    <2> QED
      BY <1>1, <1>2, <1>3, <2>1, <2>2 DEF Honest
  <1>11. ASSUME NEW r \in Roles, NEW w \in Windows, SetHolder(r, w)
         PROVE  HonestNow'
    <2>1. PostAll(HolderMsgs(r, w)) /\ HolderMsgs(r, w) \in Seq(Msgs)
      BY <1>11, HolderMsgsAre DEF SetHolder, HolderMsgs
    <2> QED
      BY <1>7, <2>1
  <1>12. ASSUME NEW w \in Windows, Invalidate(w)
         PROVE  HonestNow'
    <2>1. /\ dirty' # {} /\ wake' = wake \cup {"paint"} /\ C = B /\ tn = sn
          /\ UNCHANGED <<move, scroll>>
      BY <1>5, <1>12 DEF Invalidate, input
    <2> QED
      BY <1>1, <1>2, <2>1 DEF Honest
  <1>13. ASSUME NEW w \in Windows, Validate(w)
         PROVE  HonestNow'
    <2>1. /\ wake' = IF dirty' = {} THEN wake \ {"paint"} ELSE wake
          /\ C = B /\ tn = sn /\ UNCHANGED <<move, scroll>>
      BY <1>5, <1>13 DEF Validate, input
    <2> QED
      BY <1>1, <1>2, <2>1 DEF Honest
  <1>14. ASSUME NEW mv, NEW sc, NEW dt, NEW tm, UNCHANGED <<sent, scratch>>, Free,
                wake' = Recomputed(posted', mv, sc, dt, tm, sent),
                move' = mv, scroll' = sc, dirty' = dt
         PROVE  HonestNow'
    <2>1. wake' \subseteq Bits
      BY DEF ContentsOK
    <2>2. Honest(wake', BitsOf(posted'), mv, sc, dt, sent)
      BY <1>14, <2>1, HonestIs
    <2>3. sent # << >> <=> tn # << >>
      BY <1>4, <1>6, <1>14
    <2> QED
      BY <1>2, <1>14, <2>2, <2>3 DEF Honest, C
  <1>15. ASSUME NEW w \in Windows, PurgeWindow(w)
         PROVE  HonestNow'
    BY <1>14, <1>15 DEF PurgeWindow
  <1>16. CASE ThinKeyRepeats
    BY <1>14, <1>16 DEF ThinKeyRepeats
  <1>17. ASSUME NEW r \in Roles, ClearHolder(r)
         PROVE  HonestNow'
    <2>1. holder[r] \in Targets /\ Lost[r] \in Kinds
      BY <1>17, RoleKinds DEF ClearHolder, ContentsOK, Targets
    <2>2. <<Message(holder[r], Lost[r])>> \in Seq(Msgs) /\ PostAll(<<Message(holder[r], Lost[r])>>)
      BY <1>17, <2>1, MessageIs DEF ClearHolder
    <2> QED
      BY <1>7, <2>2
  <1>18. ASSUME NEW w \in Timed, SetTimer(w, "armed") \/ SetTimer(w, "off") \/ TimerElapses(w)
         PROVE  HonestNow'
    <2>1. C = B /\ tn = sn /\ UNCHANGED <<move, scroll, dirty, wake>>
      BY <1>5, <1>18 DEF SetTimer, TimerElapses, input
    <2> QED
      BY <1>1, <1>2, <2>1
  <1>19. ASSUME NEW f, Peek(f) \/ Look(f)
         PROVE  HonestNow'
    <2>1. Take(f) /\ UNCHANGED <<sent, scratch>>
      BY <1>19 DEF Peek, Look, Take
    <2> QED
      BY <2>1, TakeWake
  <1>20. ASSUME NEW c \in Calls, Send(c)
         PROVE  HonestNow'
    <2>1. /\ sent' # << >> /\ wake' = wake \cup {"send"}
          /\ C = B /\ UNCHANGED <<move, scroll, dirty>>
      BY <1>5, <1>20 DEF Send, input, SentLists
    <2> QED
      BY <1>1, <1>2, <1>4, <2>1 DEF Honest
  <1>21. ASSUME NEW c \in Calls, WaitTimesOut(c)
         PROVE  HonestNow'
    <2>1. C = B /\ tn = sn /\ UNCHANGED <<move, scroll, dirty, wake>>
      BY <1>5, <1>21 DEF WaitTimesOut, input
    <2> QED
      BY <1>1, <1>2, <2>1
  <1>22. CASE PostQuit
    <2>1. <<Message(Broadcast, "quit")>> \in Seq(Msgs)
      BY MessageIs DEF Targets, Kinds
    <2> QED
      BY <1>7, <1>22, <2>1 DEF PostQuit
  <1>23. CASE CheckTimers
    <2>1. C = B /\ tn = sn /\ UNCHANGED <<move, scroll, dirty>> /\ wake' = wake \cup {"timer"}
      BY <1>5, <1>23 DEF CheckTimers, input
    <2> QED
      BY <1>1, <1>2, <2>1 DEF Honest
  <1>24. CASE Clear
    <2>1. /\ posted' = << >> /\ move' = None /\ scroll' = None /\ dirty' = {} /\ wake' = {}
          /\ sent' = << >> /\ scratch' = << >>
      BY <1>6, <1>24 DEF Clear
    <2>2. C = {}
      BY <2>1 DEF C, BitsOf
    <2> QED
      BY <1>2, <1>4, <2>1, <2>2 DEF Honest
  <1>25. CASE TakeSent
    <2>1. /\ sent # << >> /\ scratch' = sent /\ C = B /\ UNCHANGED <<move, scroll, dirty, wake>>
      BY <1>5, <1>25 DEF TakeSent, input
    <2> QED
      BY <1>1, <1>2, <1>4, <2>1 DEF Honest
  <1>26. CASE HandleSent
    <2>1. /\ scratch # << >> /\ sent = << >> /\ sent' = sent
          /\ wake' = IF scratch' = << >> THEN wake \ {"send"} ELSE wake
          /\ C = B /\ UNCHANGED <<move, scroll, dirty>>
      BY <1>5, <1>26 DEF HandleSent, input, SentLists
    <2> QED
      BY <1>1, <1>2, <1>3, <1>4, <2>1 DEF Honest
  <1>27. CASE Dispatch
    <2>1. Take(Targets) /\ UNCHANGED <<sent, scratch>>
      BY <1>27 DEF Dispatch
    <2> QED
      BY <2>1, TakeWake
  <1>28. CASE UNCHANGED vars
    BY <1>28 DEF vars, HonestNow
  <1> QED
    BY <1>8, <1>9, <1>10, <1>11, <1>12, <1>13, <1>15, <1>16, <1>17, <1>18, <1>19, <1>20, <1>21,
       <1>22, <1>23, <1>24, <1>25, <1>26, <1>27, <1>28
    DEF Next, PumpOne

-----------------------------------------------------------------------------
(* The holders of the roles.                                               *)

About(m, r) == m.kind \in {Gained[r], Lost[r]}

(* The i-th message of q is the last about role r for its window. *)
LastAbout(q, i, r) == \A j \in i + 1 .. Len(q) : ~(q[j].win = q[i].win /\ About(q[j], r))

Agrees(m, r, h) ==
    /\ m.kind = Gained[r] => h[r] = m.win
    /\ m.kind = Lost[r] => h[r] # m.win

Settled(q, h) == \A r \in Roles : \A i \in 1 .. Len(q) : LastAbout(q, i, r) => Agrees(q[i], r, h)

LEMMA HolderIs == posted \in Seq(Msgs) => (HolderSettles <=> Settled(posted, holder))
  BY DEF HolderSettles, Settled, LastAbout, Agrees, About

LEMMA HolderIsPrimed == posted' \in Seq(Msgs) => (HolderSettles' <=> Settled(posted', holder'))
  BY DEF HolderSettles, Settled, LastAbout, Agrees, About

(* Messages may go, when none of those that stay becomes the last of its   *)
(* window by that, and when the holders change in no way that matters to   *)
(* those that stay.                                                        *)
LEMMA PickedSettled ==
    ASSUME NEW q \in Seq(Msgs), NEW D, D \subseteq DOMAIN q, NEW h, NEW k, Settled(q, h),
           \A r \in Roles : \A i \in D : \A j \in DOMAIN q \ D :
               j > i => ~(q[j].win = q[i].win /\ About(q[j], r)),
           \A r \in Roles : \A i \in D : Agrees(q[i], r, h) => Agrees(q[i], r, k)
    PROVE  Settled(Picked(q, D), k)
  <1> DEFINE p == Picked(q, D)
  <1>1. p \in Seq(Msgs) /\ Selects(p, q, D, Len(q))
    BY PickedIs
  <1> HIDE DEF p
  <1>2. PICK at : Follows(p, q, D, Len(q), at)
    BY <1>1 DEF Selects
  <1>3. /\ \A i \in 1 .. Len(p) : at[i] \in D /\ p[i] = q[at[i]]
        /\ \A i, j \in 1 .. Len(p) : i < j => at[i] < at[j]
        /\ \A d \in D : \E i \in 1 .. Len(p) : at[i] = d
        /\ D \subseteq 1 .. Len(q) /\ Len(p) \in Nat
    <2>1. D \subseteq 1 .. Len(q) /\ Len(p) \in Nat /\ Len(q) \in Nat
      BY <1>1
    <2>2. \A d \in D : d <= Len(q)
      BY <2>1
    <2>3. \A i \in 1 .. Len(p) : at[i] \in D
      BY <1>2 DEF Follows
    <2> QED
      BY <1>2, <2>1, <2>2, <2>3 DEF Follows
  <1> SUFFICES ASSUME NEW r \in Roles, NEW i \in 1 .. Len(p), LastAbout(p, i, r)
               PROVE  Agrees(p[i], r, k)
    BY DEF Settled, p
  <1>4. at[i] \in D /\ at[i] \in 1 .. Len(q) /\ p[i] = q[at[i]]
    BY <1>3
  <1>5. LastAbout(q, at[i], r)
    <2> SUFFICES ASSUME NEW j \in at[i] + 1 .. Len(q), q[j].win = q[at[i]].win, About(q[j], r)
                 PROVE  FALSE
      BY DEF LastAbout
    <2>1. j > at[i] /\ j \in DOMAIN q /\ j \in Nat
      BY <1>4
    <2>2. j \in D
      BY <1>4, <2>1
    <2>3. PICK l \in 1 .. Len(p) : at[l] = j
      BY <1>3, <2>2
    <2>4. l > i
      BY <1>3, <1>4, <2>1, <2>3
    <2>5. l \in i + 1 .. Len(p) /\ p[l] = q[j]
      BY <1>3, <2>3, <2>4
    <2> QED
      BY <1>4, <2>5 DEF LastAbout
  <1>6. Agrees(q[at[i]], r, h)
    BY <1>4, <1>5 DEF Settled
  <1> QED
    BY <1>4, <1>6

(* Messages may be appended, when the last of them say what the holders    *)
(* are now, and when a window whose holding changes is among those told.   *)
LEMMA JoinedSettled ==
    ASSUME NEW q \in Seq(Msgs), NEW ms \in Seq(Msgs), NEW h, NEW k, Settled(q, h),
           Settled(ms, k),
           \A r \in Roles : \A i \in 1 .. Len(q) :
               /\ \A j \in 1 .. Len(ms) : ~(ms[j].win = q[i].win /\ About(ms[j], r))
               /\ Agrees(q[i], r, h)
               => Agrees(q[i], r, k)
    PROVE  Settled(q \o ms, k)
  <1> DEFINE p == q \o ms
  <1>1. /\ Len(q) \in Nat /\ Len(ms) \in Nat /\ Len(p) = Len(q) + Len(ms)
        /\ \A i \in 1 .. Len(q) : p[i] = q[i]
        /\ \A i \in Len(q) + 1 .. Len(q) + Len(ms) :
              i - Len(q) \in 1 .. Len(ms) /\ p[i] = ms[i - Len(q)]
    OBVIOUS
  <1>2. \A j \in 1 .. Len(ms) : p[Len(q) + j] = ms[j]
    OBVIOUS
  <1> HIDE DEF p
  <1> SUFFICES ASSUME NEW r \in Roles, NEW i \in 1 .. Len(p), LastAbout(p, i, r)
               PROVE  Agrees(p[i], r, k)
    BY DEF Settled, p
  <1>3. CASE i <= Len(q)
    <2>1. i \in 1 .. Len(q) /\ p[i] = q[i]
      BY <1>1, <1>3
    <2>2. LastAbout(q, i, r)
      <3> SUFFICES ASSUME NEW j \in i + 1 .. Len(q)
                   PROVE  ~(q[j].win = q[i].win /\ About(q[j], r))
        BY DEF LastAbout
      <3>1. j \in i + 1 .. Len(p) /\ p[j] = q[j]
        BY <1>1, <2>1
      <3> QED
        BY <2>1, <3>1 DEF LastAbout
    <2>3. \A j \in 1 .. Len(ms) : ~(ms[j].win = q[i].win /\ About(ms[j], r))
      <3> SUFFICES ASSUME NEW j \in 1 .. Len(ms)
                   PROVE  ~(ms[j].win = q[i].win /\ About(ms[j], r))
        OBVIOUS
      <3>1. Len(q) + j \in i + 1 .. Len(p) /\ p[Len(q) + j] = ms[j]
        BY <1>1, <1>2, <2>1
      <3> QED
        BY <2>1, <3>1 DEF LastAbout
    <2>4. Agrees(q[i], r, h)
      BY <2>1, <2>2 DEF Settled
    <2> QED
      BY <2>1, <2>3, <2>4
  <1>4. CASE i > Len(q)
    <2> DEFINE n == i - Len(q)
    <2>1. n \in 1 .. Len(ms) /\ p[i] = ms[n]
      BY <1>1, <1>4
    <2>2. LastAbout(ms, n, r)
      <3> SUFFICES ASSUME NEW j \in n + 1 .. Len(ms)
                   PROVE  ~(ms[j].win = ms[n].win /\ About(ms[j], r))
        BY DEF LastAbout
      <3>1. Len(q) + j \in i + 1 .. Len(p) /\ p[Len(q) + j] = ms[j]
        BY <1>1, <1>2, <1>4
      <3> QED
        BY <2>1, <3>1 DEF LastAbout
    <2> QED
      BY <2>1, <2>2 DEF Settled
  <1> QED
    BY <1>1, <1>3, <1>4

(* What is not about a role says nothing of its holder. *)
LEMMA Indifferent ==
    ASSUME NEW ms \in Seq(Msgs), NEW h,
           \A j \in 1 .. Len(ms) : \A r \in Roles : ~About(ms[j], r)
    PROVE  /\ Settled(ms, h)
           /\ \A q \in Seq(Msgs) : Settled(q, h) => Settled(q \o ms, h)
  <1>1. Settled(ms, h)
    BY DEF Settled, Agrees, About
  <1> QED
    BY <1>1, JoinedSettled

LEMMA KindsApart ==
    ASSUME NEW r \in Roles, NEW m, About(m, r)
    PROVE  /\ m.kind \notin Posts \cup {"wheel", "quit", "down"}
           /\ \A s \in Roles : About(m, s) => s = r
           /\ Gained[r] # Lost[r]
  BY RoleKinds, ThreadQueueAssumption DEF About

LEMMA PostedFor ==
    ASSUME NEW q \in Seq(Msgs), NEW i \in DOMAIN q
    PROVE  q[i].win \in Targets
  <1>1. q[i] \in Msgs
    OBVIOUS
  <1> QED
    BY <1>1 DEF Msgs

(* A window gains a role. *)
LEMMA SetHolderSettled ==
    ASSUME ContentsOK, Settled(posted, holder), NEW r \in Roles, NEW w \in Windows, SetHolder(r, w)
    PROVE  Settled(posted', holder')
  <1> DEFINE ms == HolderMsgs(r, w)
             gained == Message(w, Gained[r])
             lost == Message(holder[r], Lost[r])
  <1>1. /\ ms \in Seq(Msgs) /\ posted' = posted \o ms /\ posted \in Seq(Msgs)
        /\ Gained[r] # Lost[r] /\ Gained[r] \in Kinds /\ Lost[r] \in Kinds
    BY HolderMsgsAre, RoleKinds DEF SetHolder, HolderMsgs, PostAll, ContentsOK
  <1>2. /\ holder'[r] = w /\ holder[r] # w /\ \A s \in Roles \ {r} : holder'[s] = holder[s]
    BY DEF SetHolder, ContentsOK
  <1>3. /\ gained.win = w /\ gained.kind = Gained[r]
        /\ lost.win = holder[r] /\ lost.kind = Lost[r]
    BY DEF Message
  <1>4. \/ holder[r] = None /\ Len(ms) = 1 /\ ms[1] = gained
        \/ Len(ms) = 2 /\ ms[1] = lost /\ ms[2] = gained
    <2>1. CASE holder[r] = None
      <3>1. ms = <<gained>>
        BY <2>1, HolderMsgsAre
      <3> QED
        BY <2>1, <3>1
    <2>2. CASE holder[r] # None
      <3>1. ms = <<lost, gained>>
        BY <2>2, HolderMsgsAre
      <3> QED
        BY <3>1
    <2> QED
      BY <2>1, <2>2
  <1> HIDE DEF ms, gained, lost
  <1>5. \A j \in 1 .. Len(ms) : ms[j] \in {lost, gained}
    <2>1. \A j \in 1 .. 2 : j = 1 \/ j = 2
      OBVIOUS
    <2>2. \A j \in 1 .. 1 : j = 1
      OBVIOUS
    <2> QED
      BY <1>4, <2>1, <2>2
  <1>6. About(lost, r) /\ About(gained, r) /\ \A s \in Roles \ {r} : ~About(lost, s) /\ ~About(gained, s)
    <2>1. About(lost, r) /\ About(gained, r)
      BY <1>3 DEF About
    <2> QED
      BY <2>1, KindsApart
  <1>7. Settled(ms, holder')
    <2> SUFFICES ASSUME NEW s \in Roles, NEW i \in 1 .. Len(ms)
                 PROVE  Agrees(ms[i], s, holder')
      BY DEF Settled
    <2>1. CASE s = r
      BY <1>1, <1>2, <1>3, <1>5, <2>1 DEF Agrees
    <2>2. CASE s # r
      BY <1>5, <1>6, <2>2 DEF Agrees, About
    <2> QED
      BY <2>1, <2>2
  <1>8. ASSUME NEW s \in Roles, NEW i \in 1 .. Len(posted),
               \A j \in 1 .. Len(ms) : ~(ms[j].win = posted[i].win /\ About(ms[j], s)),
               Agrees(posted[i], s, holder)
        PROVE  Agrees(posted[i], s, holder')
    <2>1. CASE s # r
      BY <1>2, <1>8, <2>1 DEF Agrees
    <2>2. CASE s = r
      <3>1. posted[i].win # w
        BY <1>3, <1>4, <1>6, <1>8, <2>2
      <3>2. posted[i].kind # Gained[r]
        <4> SUFFICES ASSUME posted[i].kind = Gained[r]
                     PROVE  FALSE
          OBVIOUS
        <4>1. holder[r] = posted[i].win
          BY <1>8, <2>2 DEF Agrees
        <4>2. posted[i].win \in Targets
          BY <1>1, PostedFor
        <4>3. Len(ms) = 2 /\ ms[1] = lost
          BY <1>4, <4>1, <4>2, ThreadQueueAssumption
        <4> QED
          BY <1>3, <1>6, <1>8, <2>2, <4>1, <4>3
      <3> QED
        BY <1>2, <2>2, <3>1, <3>2 DEF Agrees
    <2> QED
      BY <2>1, <2>2
  <1> QED
    BY <1>1, <1>7, <1>8, JoinedSettled

(* Nobody holds a role any more. *)
LEMMA ClearHolderSettled ==
    ASSUME ContentsOK, Settled(posted, holder), NEW r \in Roles, ClearHolder(r)
    PROVE  Settled(posted', holder')
  <1> DEFINE lost == Message(holder[r], Lost[r])
             ms == <<lost>>
  <1>1. /\ holder[r] \in Targets /\ Lost[r] \in Kinds /\ Gained[r] # Lost[r]
        /\ posted' = posted \o ms /\ posted \in Seq(Msgs)
    BY RoleKinds DEF ClearHolder, ContentsOK, Targets, PostAll
  <1>2. ms \in Seq(Msgs) /\ Len(ms) = 1 /\ ms[1] = lost /\ lost.win = holder[r] /\ lost.kind = Lost[r]
    BY <1>1, MessageIs
  <1>3. /\ holder'[r] = None /\ \A s \in Roles \ {r} : holder'[s] = holder[s]
    BY DEF ClearHolder, ContentsOK
  <1> HIDE DEF ms, lost
  <1>4. About(lost, r) /\ \A s \in Roles \ {r} : ~About(lost, s)
    <2>1. About(lost, r)
      BY <1>2 DEF About
    <2> QED
      BY <2>1, KindsApart
  <1>5. None \notin Targets
    BY ThreadQueueAssumption
  <1>6. Settled(ms, holder')
    <2> SUFFICES ASSUME NEW s \in Roles, NEW i \in 1 .. Len(ms)
                 PROVE  Agrees(ms[i], s, holder')
      BY DEF Settled
    <2>1. ms[i] = lost
      BY <1>2
    <2>2. CASE s = r
      BY <1>1, <1>2, <1>3, <1>5, <2>1, <2>2 DEF Agrees
    <2>3. CASE s # r
      BY <1>4, <2>1, <2>3 DEF Agrees, About
    <2> QED
      BY <2>2, <2>3
  <1>7. ASSUME NEW s \in Roles, NEW i \in 1 .. Len(posted),
               \A j \in 1 .. Len(ms) : ~(ms[j].win = posted[i].win /\ About(ms[j], s)),
               Agrees(posted[i], s, holder)
        PROVE  Agrees(posted[i], s, holder')
    <2>1. CASE s # r
      BY <1>3, <1>7, <2>1 DEF Agrees
    <2>2. CASE s = r
      <3>1. posted[i].win \in Targets
        BY <1>1, PostedFor
      <3>2. posted[i].win # holder[r]
        BY <1>2, <1>4, <1>7, <2>2
      <3>3. posted[i].kind # Gained[r]
        BY <1>7, <2>2, <3>2 DEF Agrees
      <3> QED
        BY <1>3, <1>5, <2>2, <3>1, <3>3 DEF Agrees
    <2> QED
      BY <2>1, <2>2
  <1> QED
    BY <1>1, <1>2, <1>6, <1>7, JoinedSettled

(* A window is destroyed: it holds nothing, and nothing is pending for it. *)
LEMMA PurgeSettled ==
    ASSUME ContentsOK, Settled(posted, holder), NEW w \in Windows, PurgeWindow(w)
    PROVE  Settled(posted', holder')
  <1> DEFINE D == {i \in DOMAIN posted : posted[i].win # w}
  <1>1. /\ posted \in Seq(Msgs) /\ D \subseteq DOMAIN posted
        /\ \A i \in D : posted[i].win # w /\ posted[i].win \in Targets
        /\ \A j \in DOMAIN posted \ D : posted[j].win = w
    BY PostedFor DEF ContentsOK
  <1>2. /\ posted' = Picked(posted, D)
        /\ \A r \in Roles : holder'[r] = IF holder[r] = w THEN None ELSE holder[r]
    BY DEF PurgeWindow
  <1>3. None \notin Targets
    BY ThreadQueueAssumption
  <1> HIDE DEF D
  <1>4. ASSUME NEW r \in Roles, NEW i \in D, Agrees(posted[i], r, holder)
        PROVE  Agrees(posted[i], r, holder')
    BY <1>1, <1>2, <1>3, <1>4 DEF Agrees
  <1>5. \A r \in Roles : \A i \in D : \A j \in DOMAIN posted \ D :
            j > i => ~(posted[j].win = posted[i].win /\ About(posted[j], r))
    BY <1>1
  <1> QED
    BY <1>1, <1>2, <1>4, <1>5, PickedSettled

(* Repeats of a held key go. *)
LEMMA ThinSettled ==
    ASSUME ContentsOK, Settled(posted, holder), ThinKeyRepeats
    PROVE  Settled(posted', holder')
  <1> DEFINE D == {i \in DOMAIN posted : posted[i].kind = "down" => Repeats(i) <= MaxRepeats}
  <1>1. /\ posted \in Seq(Msgs) /\ D \subseteq DOMAIN posted
        /\ \A j \in DOMAIN posted \ D : posted[j].kind = "down"
        /\ posted' = Picked(posted, D) /\ holder' = holder
    BY DEF ContentsOK, ThinKeyRepeats
  <1> HIDE DEF D
  <1>2. \A r \in Roles : \A j \in DOMAIN posted \ D : ~About(posted[j], r)
    BY <1>1, KindsApart
  <1> QED
    BY <1>1, <1>2, PickedSettled

(* The first message for some windows is taken: those before it are for    *)
(* others.                                                                 *)
LEMMA TakeSettled ==
    ASSUME ContentsOK, Settled(posted, holder), NEW f, Take(f), UNCHANGED holder
    PROVE  Settled(posted', holder')
  <1>1. CASE TakePosted(f)
    <2> DEFINE D == DOMAIN posted \ {First(f)}
    <2>1. /\ posted \in Seq(Msgs) /\ D \subseteq DOMAIN posted /\ posted' = Picked(posted, D)
          /\ Found(f) # {} /\ DOMAIN posted \ D = {First(f)}
      BY <1>1, FirstIs DEF ContentsOK, TakePosted, Without
    <2>2. /\ First(f) \in DOMAIN posted /\ posted[First(f)].win \in f
          /\ \A i \in D : posted[i].win \in f => First(f) <= i
      BY <2>1, FirstIs DEF Found
    <2>3. \A i \in DOMAIN posted : i \in Nat
      BY <2>1
    <2> HIDE DEF D
    <2>4. \A i \in D : First(f) > i => posted[i].win # posted[First(f)].win
      BY <2>1, <2>2, <2>3
    <2> QED
      BY <2>1, <2>4, PickedSettled
  <1>2. CASE TakeMove(f) \/ TakeScroll(f) \/ TakePaint(f) \/ TakeTimer(f)
    BY <1>2 DEF TakeMove, TakeScroll, TakePaint, TakeTimer
  <1> QED
    BY <1>1, <1>2 DEF Take

LEMMA HolderStep ==
    ASSUME ContentsOK, Settled(posted, holder), [Next]_vars
    PROVE  Settled(posted', holder')
  <1>1. CASE UNCHANGED <<posted, holder>>
    BY <1>1
  <1>2. ASSUME NEW k \in Posts \cup {"wheel", "quit"}, NEW w \in Targets,
               posted' = posted \o <<Message(w, k)>>, UNCHANGED holder
        PROVE  Settled(posted', holder')
    <2> DEFINE m == Message(w, k)
    <2>1. <<m>> \in Seq(Msgs) /\ Len(<<m>>) = 1 /\ <<m>>[1] = m /\ m.kind = k
      BY MessageIs DEF Kinds
    <2>2. posted' = posted \o <<m>> /\ posted \in Seq(Msgs)
      BY <1>2 DEF ContentsOK
    <2> HIDE DEF m
    <2>3. \A r \in Roles : ~About(m, r)
      BY <2>1, KindsApart
    <2>4. \A j \in 1 .. Len(<<m>>) : \A r \in Roles : ~About(<<m>>[j], r)
      BY <2>1, <2>3
    <2> QED
      BY <1>2, <2>1, <2>2, <2>4, Indifferent
  <1>3. ASSUME NEW w \in Windows, NEW k \in Posts, Post(w, k)
        PROVE  Settled(posted', holder')
    BY <1>2, <1>3 DEF Post, PostAll, Targets
  <1>4. CASE PostQuit
    BY <1>2, <1>4 DEF PostQuit, PostAll, Targets
  <1>5. ASSUME NEW w \in Windows, NEW d \in Directions, PostWheel(w, d)
        PROVE  Settled(posted', holder')
    <2>1. CASE scroll \in {None, <<w, d>>}
      <3>1. posted' = posted \o << >> /\ holder' = holder /\ posted \in Seq(Msgs)
        BY <1>5, <2>1 DEF PostWheel, ContentsOK
      <3>2. posted \o << >> = posted
        BY <3>1, ConcatEmptySeq
      <3> QED
        BY <1>1, <3>1, <3>2
    <2>2. CASE scroll \notin {None, <<w, d>>}
      <3>1. posted' = posted \o <<Message(scroll[1], "wheel")>> /\ holder' = holder
        BY <1>5, <2>2 DEF PostWheel
      <3>2. scroll[1] \in Targets
        BY <2>2 DEF ContentsOK, Targets
      <3> QED
        BY <1>2, <3>1, <3>2
    <2> QED
      BY <2>1, <2>2
  <1>6. ASSUME NEW w \in Windows, PostMove(w) \/ Invalidate(w) \/ Validate(w)
        PROVE  Settled(posted', holder')
    BY <1>1, <1>6 DEF PostMove, Invalidate, Validate, input
  <1>7. ASSUME NEW w \in Timed, SetTimer(w, "armed") \/ SetTimer(w, "off") \/ TimerElapses(w)
        PROVE  Settled(posted', holder')
    BY <1>1, <1>7 DEF SetTimer, TimerElapses, input
  <1>8. ASSUME NEW f, Peek(f) \/ Look(f)
        PROVE  Settled(posted', holder')
    BY <1>8, TakeSettled DEF Peek, Look, Take
  <1>9. ASSUME NEW c \in Calls, Send(c) \/ WaitTimesOut(c)
        PROVE  Settled(posted', holder')
    BY <1>1, <1>9 DEF Send, WaitTimesOut, input
  <1>10. CASE CheckTimers \/ TakeSent \/ HandleSent
    BY <1>1, <1>10 DEF CheckTimers, TakeSent, HandleSent, input
  <1>11. CASE Clear
    <2>1. posted' = << >>
      BY <1>11 DEF Clear
    <2> QED
      BY <2>1 DEF Settled
  <1>12. CASE Dispatch
    BY <1>12, TakeSettled DEF Dispatch
  <1>13. CASE UNCHANGED vars
    BY <1>1, <1>13 DEF vars
  <1> QED
    BY <1>3, <1>4, <1>5, <1>6, <1>7, <1>8, <1>9, <1>10, <1>11, <1>12, <1>13,
       SetHolderSettled, ClearHolderSettled, PurgeSettled, ThinSettled
    DEF Next, PumpOne

-----------------------------------------------------------------------------
(* The theorems.                                                           *)

IInv == ContentsOK /\ SentLists /\ HonestNow /\ Settled(posted, holder)

LEMMA InitInv == Init => IInv
  <1> SUFFICES ASSUME Init PROVE IInv
    OBVIOUS
  <1>1. /\ << >> \in Seq(Msgs) /\ << >> \in Seq(Calls) /\ Len(<< >>) = 0
        /\ << >> \o << >> = << >> /\ BitsOf(<< >>) = {}
    BY DEF BitsOf
  <1>2. ContentsOK
    <2>1. posted \in Seq(Msgs) /\ Len(posted) <= MaxPosted
      BY <1>1, ThreadQueueAssumption DEF Init
    <2>2. /\ timers \in [Timed -> {"off", "armed", "due"}]
          /\ holder \in [Roles -> Windows \cup {None}]
      BY DEF Init
    <2> QED
      BY <2>1, <2>2 DEF Init, ContentsOK
  <1>3. SentLists
    <2>1. call \in [Calls -> {"new", "waiting", "answered", "timedOut"}]
      BY DEF Init
    <2>2. sent \in Seq(Calls) /\ scratch \in Seq(Calls) /\ 1 .. Len(sent) = {} /\ 1 .. Len(scratch) = {}
      BY <1>1 DEF Init
    <2>3. held = FALSE /\ sent = << >> /\ scratch = << >>
      BY DEF Init
    <2> QED
      BY <2>1, <2>2, <2>3 DEF SentLists
  <1>4. HonestNow
    BY <1>1 DEF Init, HonestNow, Honest
  <1>5. Settled(posted, holder)
    BY <1>1 DEF Init, Settled
  <1> QED
    BY <1>2, <1>3, <1>4, <1>5 DEF IInv

LEMMA StepInv == IInv /\ [Next]_vars => IInv'
  <1> SUFFICES ASSUME IInv, [Next]_vars PROVE IInv'
    OBVIOUS
  <1>1. ContentsOK'
    BY ContentsStep DEF IInv
  <1>2. SentLists'
    BY SentStep DEF IInv
  <1>3. HonestNow'
    BY <1>1, <1>2, WakeStep DEF IInv
  <1>4. Settled(posted', holder')
    BY HolderStep DEF IInv
  <1> QED
    BY <1>1, <1>2, <1>3, <1>4 DEF IInv, Settled

LEMMA SpecIInv == Spec => []IInv
  BY InitInv, StepInv, PTL DEF Spec

(* The contents of the queue keep their types, the FIFO its bound, and a   *)
(* sent message is, while its sender may still be answered, in exactly one *)
(* of sent_messages and sent_scratch, once: push_sent_message cannot run   *)
(* while pump_one holds the queue, and pump_one swaps the list out.        *)
THEOREM SpecTypeOK == Spec => []TypeOK
  <1>1. IInv => TypeOK
    BY TypeHalves, SentHalves DEF IInv
  <1> QED
    BY <1>1, SpecIInv, PTL

(* The wake bits are set exactly while work of their kind is pending, but  *)
(* for the two that are weaker: has_messages, which looks at nothing else, *)
(* neither misses work nor reports any that is not there.                  *)
THEOREM SpecWakeBitsHonest == Spec => []WakeBitsHonest
  <1>1. IInv => WakeBitsHonest
    BY WakeIs DEF IInv
  <1> QED
    BY <1>1, SpecIInv, PTL

(* The last message about the focus or the activation that is pending for  *)
(* a window agrees with focus_window and active_window, through changes of *)
(* holder, retrieval by window, thinning of key repeats and purges.        *)
THEOREM SpecHolderSettles == Spec => []HolderSettles
  <1>1. IInv => HolderSettles
    BY HolderIs DEF IInv, ContentsOK
  <1> QED
    BY <1>1, SpecIInv, PTL
=============================================================================
