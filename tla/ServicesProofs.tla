---------------------------- MODULE ServicesProofs ----------------------------
(* Theorems about SessionServices, for every set of services, all          *)
(* dependencies without a cycle, policies and numbers of retries.          *)
(*                                                                         *)
(* A start may start others, and a tick may start many: the recursions     *)
(* are unfolded first, then one lemma says what any outcome of a start     *)
(* is, and the theorems rest on that.                                      *)
EXTENDS SessionServices, SequenceTheorems, FiniteSetTheorems, WellFoundedInduction,
        NaturalsInduction, TLAPS

-----------------------------------------------------------------------------
(* Recursion over natural numbers.                                         *)

(* What holds of 0, and of a number when of the one before, holds up to N. *)
LEMMA UpTo ==
    ASSUME NEW N \in Nat, NEW G, 0 \in G, \A n \in 1 .. N : n - 1 \in G => n \in G
    PROVE  \A n \in 0 .. N : n \in G
  <1> DEFINE R == OpToRel(<, Nat)
             T == (0 .. N) \ G
  <1> SUFFICES ASSUME T # {} PROVE FALSE
    OBVIOUS
  <1>1. IsWellFoundedOn(R, Nat)
    BY NatLessThanWellFounded
  <1>2. T \subseteq Nat
    OBVIOUS
  <1> HIDE DEF R, T
  <1>3. PICK x \in T : \A y \in T : <<y, x>> \notin R
    BY <1>1, <1>2, WFMin
  <1>4. \A y \in T : ~(y < x)
    BY <1>2, <1>3 DEF OpToRel, R
  <1>5. x \in 0 .. N /\ x \notin G
    BY DEF T
  <1>6. x # 0
    BY <1>5
  <1>7. x \in 1 .. N /\ x - 1 \in 0 .. N /\ x - 1 < x
    BY <1>5, <1>6
  <1>8. x - 1 \in G
    BY <1>4, <1>7 DEF T
  <1> QED
    BY <1>5, <1>7, <1>8

(* One start after another. *)
Following(outs, n, x, from) ==
    outs[n] = UNION {IF o.state[x] \in from[x] THEN StartOutcomes(o, x) ELSE {o} : o \in outs[n - 1]}

LEMMA StartEachIs ==
    ASSUME NEW S, NEW xs \in Seq(S), NEW s, NEW from
    PROVE  \E outs : /\ outs[0] = {s} /\ StartEach(s, xs, from) = outs[Len(xs)]
                     /\ \A n \in 1 .. Len(xs) : Following(outs, n, xs[n], from)
  <1> DEFINE N == Len(xs)
             Step(n, v) ==
                 UNION {IF o.state[xs[n]] \in from[xs[n]] THEN StartOutcomes(o, xs[n]) ELSE {o} : o \in v}
             Body(g) == [n \in 0 .. N |-> IF n = 0 THEN {s} ELSE Step(n, g[n - 1])]
             W == CHOOSE g : g = Body(g)
             Runs(g, n) == g[0] = {s} /\ \A i \in 1 .. n : g[i] = Step(i, g[i - 1])
             G == {n \in 0 .. N : \E g : Runs(g, n)}
  <1>1. StartEach(s, xs, from) = W[N] /\ N \in Nat
    BY DEF StartEach
  <1>2. ASSUME NEW g, NEW n \in 1 .. N
        PROVE  g[n] = Step(n, g[n - 1]) <=> Following(g, n, xs[n], from)
    BY DEF Following
  <1>3. N = Len(xs) /\ N \in Nat
    OBVIOUS
  <1> HIDE DEF Step, N
  <1>4. 0 \in G
    <2> DEFINE g == [i \in {0} |-> {s}]
    <2>1. g[0] = {s}
      OBVIOUS
    <2> HIDE DEF g
    <2>2. Runs(g, 0) /\ 0 \in 0 .. N
      BY <1>3, <2>1
    <2> QED
      BY <2>2
  <1>5. ASSUME NEW n \in 1 .. N, n - 1 \in G
        PROVE  n \in G
    <2>1. PICK g : Runs(g, n - 1)
      BY <1>5
    <2> DEFINE h == [i \in 0 .. n |-> IF i = n THEN Step(n, g[n - 1]) ELSE g[i]]
    <2>2. h[n] = Step(n, g[n - 1]) /\ \A i \in 0 .. n - 1 : h[i] = g[i]
      BY <1>1
    <2> HIDE DEF h
    <2>3. Runs(h, n)
      <3>1. h[0] = {s}
        BY <1>1, <2>1, <2>2
      <3>2. ASSUME NEW i \in 1 .. n PROVE h[i] = Step(i, h[i - 1])
        <4>1. h[i - 1] = g[i - 1]
          BY <1>1, <2>2
        <4>2. CASE i = n
          BY <2>2, <4>1, <4>2
        <4>3. CASE i # n
          <5>1. i \in 1 .. n - 1 /\ i \in 0 .. n - 1
            BY <1>1, <4>3
          <5> QED
            BY <2>1, <2>2, <4>1, <5>1
        <4> QED
          BY <4>2, <4>3
      <3> QED
        BY <3>1, <3>2
    <2>4. n \in 0 .. N
      BY <1>1
    <2> QED
      BY <2>3, <2>4
  <1>6. N \in G
    <2> HIDE DEF G
    <2>1. \A n \in 0 .. N : n \in G
      BY <1>1, <1>4, <1>5, UpTo
    <2> QED
      BY <1>1, <2>1
  <1>7. PICK g : Runs(g, N)
    BY <1>6
  <1> DEFINE h == [n \in 0 .. N |-> g[n]]
  <1>8. h = Body(h)
    <2>1. h = [n \in 0 .. N |-> h[n]] /\ \A n \in 0 .. N : h[n] = g[n]
      OBVIOUS
    <2> HIDE DEF h
    <2>2. h[0] = {s} /\ \A n \in 1 .. N : h[n] = Step(n, h[n - 1])
      BY <1>3, <1>7, <2>1
    <2> QED
      BY <1>3, <2>1, <2>2
  <1>9. W = Body(W)
    BY <1>8
  <1> HIDE DEF W
  <1>10. W[0] = {s} /\ \A n \in 1 .. N : W[n] = Step(n, W[n - 1])
    <2>1. N \in Nat
      BY <1>3
    <2>2. W[0] = {s}
      BY <1>9, <2>1
    <2>3. ASSUME NEW n \in 1 .. N PROVE W[n] = Step(n, W[n - 1])
      <3>1. n \in 0 .. N /\ n # 0
        BY <2>1
      <3> QED
        BY <1>9, <3>1
    <2> QED
      BY <2>2, <2>3
  <1> QED
    BY <1>1, <1>2, <1>3, <1>10

(* F holds the first n sequences of ss one after another: the i-th of them *)
(* begins after position off[i].                                           *)
Lays(F, ss, n, off) ==
    /\ \A i \in 1 .. n : off[i] \in Nat
    /\ \A i \in 1 .. n : \A j \in 1 .. Len(ss[i]) :
          off[i] + j \in 1 .. Len(F) /\ F[off[i] + j] = ss[i][j]
    /\ \A k \in 1 .. Len(F) : \E i \in 1 .. n : \E j \in 1 .. Len(ss[i]) : k = off[i] + j

LEMMA LaysOneMore ==
    ASSUME NEW S, NEW F \in Seq(S), NEW ss, NEW n \in Nat \ {0}, ss[n] \in Seq(S),
           \A i \in 1 .. n : ss[i] \in Seq(S),
           NEW off, Lays(F, ss, n - 1, off)
    PROVE  \E to : Lays(F \o ss[n], ss, n, to)
  <1> DEFINE H == F \o ss[n]
             to == [i \in 1 .. n |-> IF i = n THEN Len(F) ELSE off[i]]
  <1>1. /\ H \in Seq(S) /\ Len(H) = Len(F) + Len(ss[n]) /\ Len(F) \in Nat /\ Len(ss[n]) \in Nat
        /\ \A k \in 1 .. Len(F) : H[k] = F[k]
        /\ \A j \in 1 .. Len(ss[n]) : H[Len(F) + j] = ss[n][j]
    OBVIOUS
  <1>2. to[n] = Len(F) /\ \A i \in 1 .. n - 1 : to[i] = off[i]
    OBVIOUS
  <1>3. \A i \in 1 .. n : i = n \/ i \in 1 .. n - 1
    OBVIOUS
  <1> HIDE DEF H, to
  <1>4. \A i \in 1 .. n : to[i] \in Nat
    BY <1>1, <1>2, <1>3 DEF Lays
  <1>5. ASSUME NEW i \in 1 .. n, NEW j \in 1 .. Len(ss[i])
        PROVE  to[i] + j \in 1 .. Len(H) /\ H[to[i] + j] = ss[i][j]
    <2>1. CASE i = n
      <3>1. j \in 1 .. Len(ss[n]) /\ to[i] = Len(F)
        BY <1>2, <2>1
      <3>2. H[Len(F) + j] = ss[n][j]
        BY <1>1, <3>1
      <3>3. Len(F) + j \in 1 .. Len(H)
        BY <1>1, <3>1
      <3> QED
        BY <2>1, <3>1, <3>2, <3>3
    <2>2. CASE i # n
      <3>1. i \in 1 .. n - 1
        BY <1>3, <2>2
      <3>2. to[i] + j \in 1 .. Len(F) /\ F[to[i] + j] = ss[i][j]
        BY <1>2, <3>1 DEF Lays
      <3> QED
        BY <1>1, <3>2
    <2> QED
      BY <2>1, <2>2
  <1>6. ASSUME NEW k \in 1 .. Len(H)
        PROVE  \E i \in 1 .. n : \E j \in 1 .. Len(ss[i]) : k = to[i] + j
    <2>1. CASE k \in 1 .. Len(F)
      <3>1. PICK i \in 1 .. n - 1 : \E j \in 1 .. Len(ss[i]) : k = off[i] + j
        BY <2>1 DEF Lays
      <3>2. i \in 1 .. n
        OBVIOUS
      <3> QED
        BY <1>2, <3>1, <3>2
    <2>2. CASE k \notin 1 .. Len(F)
      <3>1. k - Len(F) \in 1 .. Len(ss[n]) /\ k = Len(F) + (k - Len(F)) /\ n \in 1 .. n
        BY <1>1, <2>2
      <3> QED
        BY <1>2, <3>1
    <2> QED
      BY <2>1, <2>2
  <1>7. Lays(H, ss, n, to)
    BY <1>4, <1>5, <1>6 DEF Lays
  <1> QED
    BY <1>7 DEF H

LEMMA FlattenIs ==
    ASSUME NEW S, NEW ss, NEW N \in Nat, ss \in [1 .. N -> Seq(S)]
    PROVE  FlattenSeq(ss) \in Seq(S) /\ \E off : Lays(FlattenSeq(ss), ss, N, off)
  <1> DEFINE Body(g) == [i \in 1 .. N |-> IF i = 1 THEN ss[i] ELSE g[i - 1] \o ss[i]]
             W == CHOOSE g : g = Body(g)
             Runs(g, n) == \A i \in 1 .. n : g[i] = IF i = 1 THEN ss[i] ELSE g[i - 1] \o ss[i]
             G == {n \in 0 .. N : \E g : Runs(g, n)}
  <1>1. ss \in Seq(Seq(S)) /\ Len(ss) = N /\ \A i \in 1 .. N : ss[i] \in Seq(S)
    OBVIOUS
  <1>2. CASE N = 0
    <2>1. ss = << >> /\ FlattenSeq(ss) = ss
      BY <1>1, <1>2 DEF FlattenSeq
    <2>2. << >> \in Seq(S) /\ Lays(<< >>, << >>, 0, << >>)
      BY DEF Lays
    <2> QED
      BY <1>2, <2>1, <2>2
  <1>3. CASE N # 0
    <2>1. FlattenSeq(ss) = W[N] /\ N \in 1 .. N
      BY <1>1, <1>3 DEF FlattenSeq
    <2>2. 0 \in G
      OBVIOUS
    <2>3. ASSUME NEW n \in 1 .. N, n - 1 \in G
          PROVE  n \in G
      <3>1. PICK g : Runs(g, n - 1)
        BY <2>3
      <3> DEFINE last == IF n = 1 THEN ss[n] ELSE g[n - 1] \o ss[n]
                 h == [i \in 1 .. n |-> IF i = n THEN last ELSE g[i]]
      <3>2. h[n] = last /\ \A i \in 1 .. n - 1 : h[i] = g[i]
        OBVIOUS
      <3> HIDE DEF h
      <3>3. ASSUME NEW i \in 1 .. n
            PROVE  h[i] = IF i = 1 THEN ss[i] ELSE h[i - 1] \o ss[i]
        <4>1. i # 1 => i - 1 \in 1 .. n - 1
          OBVIOUS
        <4>2. CASE i = n
          BY <3>2, <4>1, <4>2
        <4>3. CASE i # n
          <5>1. i \in 1 .. n - 1
            BY <4>3
          <5> QED
            BY <3>1, <3>2, <4>1, <5>1
        <4> QED
          BY <4>2, <4>3
      <3> QED
        BY <3>3
    <2>4. N \in G
      <3> HIDE DEF G
      <3>1. \A n \in 0 .. N : n \in G
        BY <2>2, <2>3, UpTo
      <3> QED
        BY <3>1
    <2>5. PICK g : Runs(g, N)
      BY <2>4
    <2> DEFINE h == [n \in 1 .. N |-> g[n]]
    <2>6. h = Body(h)
      <3>1. \A n \in 1 .. N : n # 1 => n - 1 \in 1 .. N
        OBVIOUS
      <3> QED
        BY <2>5, <3>1
    <2>7. W = Body(W)
      BY <2>6
    <2> HIDE DEF W
    <2>8. \A i \in 1 .. N : W[i] = IF i = 1 THEN ss[i] ELSE W[i - 1] \o ss[i]
      BY <2>7
    <2> DEFINE Q == {n \in 0 .. N : n # 0 => W[n] \in Seq(S) /\ \E off : Lays(W[n], ss, n, off)}
    <2>9. 0 \in Q
      OBVIOUS
    <2>10. ASSUME NEW n \in 1 .. N, n - 1 \in Q
           PROVE  n \in Q
      <3> DEFINE F == IF n = 1 THEN << >> ELSE W[n - 1]
      <3>1. W[n] = F \o ss[n] /\ ss[n] \in Seq(S)
        <4>1. << >> \o ss[n] = ss[n]
          BY <1>1, ConcatEmptySeq
        <4> QED
          BY <1>1, <2>8, <4>1
      <3>2. F \in Seq(S) /\ \E off : Lays(F, ss, n - 1, off)
        <4>1. CASE n = 1
          <5>1. << >> \in Seq(S) /\ Lays(<< >>, ss, 0, << >>)
            BY DEF Lays
          <5> QED
            BY <4>1, <5>1
        <4>2. CASE n # 1
          BY <2>10, <4>2
        <4> QED
          BY <4>1, <4>2
      <3> HIDE DEF F
      <3>3. \A i \in 1 .. n : ss[i] \in Seq(S)
        BY <1>1
      <3>4. \E off : Lays(F \o ss[n], ss, n, off)
        <4>1. n \in Nat \ {0}
          OBVIOUS
        <4>2. PICK off : Lays(F, ss, n - 1, off)
          BY <3>2
        <4> QED
          BY <3>1, <3>2, <3>3, <4>1, <4>2, LaysOneMore
      <3>5. F \o ss[n] \in Seq(S)
        BY <3>1, <3>2
      <3>6. n \in 0 .. N /\ W[n] \in Seq(S) /\ \E off : Lays(W[n], ss, n, off)
        BY <3>1, <3>4, <3>5
      <3> QED
        BY <3>6
    <2>11. N \in Q
      <3> HIDE DEF Q
      <3>1. \A n \in 0 .. N : n \in Q
        BY <2>9, <2>10, UpTo
      <3> QED
        BY <3>1
    <2> QED
      BY <1>3, <2>1, <2>11
  <1> QED
    BY <1>2, <1>3

-----------------------------------------------------------------------------
(* The services that a start reaches.                                      *)

(* Every service has a place in the order, after the services it depends on. *)
LEMMA OrderIs ==
    /\ Len(Order) \in Nat
    /\ \A i \in 1 .. Len(Order) : Order[i] \in Services
    /\ \A i, j \in 1 .. Len(Order) : Order[i] = Order[j] => i = j
    /\ \A y \in Services : \E i \in 1 .. Len(Order) : Order[i] = y
    /\ \A i \in 1 .. Len(Order) : \A k \in DOMAIN Deps[Order[i]] :
          Deps[Order[i]][k] \in Services => \E j \in 1 .. i - 1 : Deps[Order[i]][k] = Order[j]
  <1>1. /\ Order \in Seq(Services) /\ ToSet(Order) = Services /\ IsInjective(Order)
        /\ \A i \in DOMAIN Order :
              ToSet(Deps[Order[i]]) \cap Services \subseteq ToSet(SubSeq(Order, 1, i - 1))
    BY ServicesAssumption
  <1>2. Len(Order) \in Nat /\ DOMAIN Order = 1 .. Len(Order)
    BY <1>1
  <1>3. /\ \A i \in 1 .. Len(Order) : Order[i] \in Services
        /\ \A i, j \in 1 .. Len(Order) : Order[i] = Order[j] => i = j
        /\ \A y \in Services : \E i \in 1 .. Len(Order) : Order[i] = y
    BY <1>1, <1>2 DEF ToSet, IsInjective
  <1>4. ASSUME NEW i \in 1 .. Len(Order), NEW k \in DOMAIN Deps[Order[i]],
               Deps[Order[i]][k] \in Services
        PROVE  \E j \in 1 .. i - 1 : Deps[Order[i]][k] = Order[j]
    <2>1. Deps[Order[i]][k] \in ToSet(SubSeq(Order, 1, i - 1))
      BY <1>1, <1>2, <1>4 DEF ToSet
    <2>2. PICK j \in DOMAIN SubSeq(Order, 1, i - 1) : Deps[Order[i]][k] = SubSeq(Order, 1, i - 1)[j]
      BY <2>1 DEF ToSet
    <2>3. j \in 1 .. i - 1 /\ SubSeq(Order, 1, i - 1)[j] = Order[j]
      BY <1>1, <1>2, <2>2
    <2> QED
      BY <2>2, <2>3
  <1> QED
    BY <1>2, <1>3, <1>4

(* The recursion of Visits, one service deep; a name that is not          *)
(* registered adds nothing.                                                *)
Registered(g, d) == IF d \in Services THEN g[d] ELSE << >>

VisitsOf(g, st, y) ==
    IF st[y] = "Running" THEN << >>
    ELSE IF st[y] = "Disabled" THEN <<y>>
    ELSE Append(FlattenSeq([i \in DOMAIN Deps[y] |-> Registered(g, Deps[y][i])]), y)

LEMMA VisitsUnfold ==
    ASSUME NEW st
    PROVE  \E g : /\ \A y \in Services : g[y] = VisitsOf(g, st, y)
                  /\ \A y \in Services : Visits(st, y) = g[y]
  <1> DEFINE N == Len(Order)
             Partly(g, n) == \A i \in 1 .. n : g[Order[i]] = VisitsOf(g, st, Order[i])
             G == {n \in 0 .. N : \E g : Partly(g, n)}
             Body(g) == [y \in Services |-> VisitsOf(g, st, y)]
             W == CHOOSE g : g = Body(g)
  <1>1. 0 \in G /\ N \in Nat
    BY OrderIs
  <1>2. ASSUME NEW n \in 1 .. N, n - 1 \in G
        PROVE  n \in G
    <2>1. PICK g : Partly(g, n - 1)
      BY <1>2
    <2> DEFINE h == [y \in Services |-> IF y = Order[n] THEN VisitsOf(g, st, Order[n]) ELSE g[y]]
    <2>2. /\ h[Order[n]] = VisitsOf(g, st, Order[n])
          /\ \A i \in 1 .. n - 1 : h[Order[i]] = g[Order[i]]
      <3>1. \A i \in 1 .. n - 1 : i \in 1 .. N /\ i # n
        BY <1>1
      <3>2. \A i \in 1 .. n - 1 : Order[i] # Order[n] /\ Order[i] \in Services
        BY <3>1, OrderIs
      <3> QED
        BY <3>2, OrderIs
    <2> HIDE DEF h
    <2>3. ASSUME NEW i \in 1 .. n
          PROVE  VisitsOf(h, st, Order[i]) = VisitsOf(g, st, Order[i])
      <3>1. \A k \in DOMAIN Deps[Order[i]] :
               Registered(h, Deps[Order[i]][k]) = Registered(g, Deps[Order[i]][k])
        <4> SUFFICES ASSUME NEW k \in DOMAIN Deps[Order[i]], Deps[Order[i]][k] \in Services
                     PROVE  h[Deps[Order[i]][k]] = g[Deps[Order[i]][k]]
          BY DEF Registered
        <4>1. PICK j \in 1 .. i - 1 : Deps[Order[i]][k] = Order[j]
          BY <1>1, OrderIs
        <4>2. j \in 1 .. n - 1
          BY <1>1
        <4> QED
          BY <2>2, <4>1, <4>2
      <3>2. [k \in DOMAIN Deps[Order[i]] |-> Registered(h, Deps[Order[i]][k])]
            = [k \in DOMAIN Deps[Order[i]] |-> Registered(g, Deps[Order[i]][k])]
        BY <3>1
      <3> QED
        BY <3>2 DEF VisitsOf
    <2>4. ASSUME NEW i \in 1 .. n
          PROVE  h[Order[i]] = VisitsOf(h, st, Order[i])
      <3>1. CASE i = n
        BY <2>2, <2>3, <3>1
      <3>2. CASE i # n
        <4>1. i \in 1 .. n - 1
          BY <3>2
        <4> QED
          BY <2>1, <2>2, <2>3, <4>1
      <3> QED
        BY <3>1, <3>2
    <2>5. n \in 0 .. N /\ Partly(h, n)
      BY <1>1, <2>4
    <2> QED
      BY <2>5
  <1>3. N \in G
    <2> HIDE DEF G
    <2>1. \A n \in 0 .. N : n \in G
      BY <1>1, <1>2, UpTo
    <2> QED
      BY <1>1, <2>1
  <1>4. PICK g : Partly(g, N)
    BY <1>3
  <1>5. \A y \in Services : g[y] = VisitsOf(g, st, y)
    BY <1>4, OrderIs
  <1> DEFINE h == [y \in Services |-> g[y]]
  <1>6. h = Body(h)
    <2>1. \A y \in Services : VisitsOf(h, st, y) = VisitsOf(g, st, y)
      <3> SUFFICES ASSUME NEW y \in Services
                   PROVE  VisitsOf(h, st, y) = VisitsOf(g, st, y)
        OBVIOUS
      <3>1. \A d : Registered(h, d) = Registered(g, d)
        BY DEF Registered
      <3>2. [k \in DOMAIN Deps[y] |-> Registered(h, Deps[y][k])]
            = [k \in DOMAIN Deps[y] |-> Registered(g, Deps[y][k])]
        BY <3>1
      <3> HIDE DEF h
      <3> QED
        BY <3>2 DEF VisitsOf
    <2> QED
      BY <1>5, <2>1
  <1>7. W = Body(W)
    BY <1>6
  <1>8. \A y \in Services : Visits(st, y) = W[y]
    BY DEF Visits, VisitsOf, Registered
  <1> HIDE DEF W
  <1>9. \A y \in Services : W[y] = VisitsOf(W, st, y)
    BY <1>7
  <1> QED
    BY <1>8, <1>9

(* What a start of y reaches: services not running, y the last of them,    *)
(* and each after what it needs, unless it is disabled.                    *)
VisitsOK(v, st, y) ==
    /\ v \in Seq(Services)
    /\ \A k \in 1 .. Len(v) : st[v[k]] # "Running"
    /\ IF st[y] = "Running" THEN v = << >> ELSE Len(v) > 0 /\ v[Len(v)] = y
    /\ DependsOn(y) = {} => Len(v) <= 1
    /\ \A k \in 1 .. Len(v) : st[v[k]] # "Disabled" =>
          \A d \in DependsOn(v[k]) : st[d] = "Running" \/ \E j \in 1 .. k - 1 : v[j] = d

LEMMA VisitsOneMore ==
    ASSUME NEW g, NEW st, NEW y \in Services,
           \A k \in DOMAIN Deps[y] :
              Deps[y][k] \in Services => VisitsOK(g[Deps[y][k]], st, Deps[y][k])
    PROVE  VisitsOK(VisitsOf(g, st, y), st, y)
  <1> DEFINE ss == [i \in DOMAIN Deps[y] |-> Registered(g, Deps[y][i])]
             N == Len(Deps[y])
             F == FlattenSeq(ss)
             v == Append(F, y)
  <1>1. Deps[y] \in Seq(Names) /\ N \in Nat /\ DOMAIN Deps[y] = 1 .. N
    BY ServicesAssumption
  <1>2. CASE st[y] = "Running"
    <2>1. VisitsOf(g, st, y) = << >>
      BY <1>2 DEF VisitsOf
    <2>2. << >> \in Seq(Services) /\ Len(<< >>) = 0
      OBVIOUS
    <2> QED
      BY <1>2, <2>1, <2>2 DEF VisitsOK
  <1>3. CASE st[y] = "Disabled"
    <2>1. VisitsOf(g, st, y) = <<y>>
      BY <1>3 DEF VisitsOf
    <2>2. <<y>> \in Seq(Services) /\ Len(<<y>>) = 1 /\ \A k \in 1 .. Len(<<y>>) : <<y>>[k] = y
      OBVIOUS
    <2> QED
      BY <1>3, <2>1, <2>2 DEF VisitsOK
  <1>4. CASE st[y] \notin {"Running", "Disabled"}
    <2>1. VisitsOf(g, st, y) = v
      BY <1>4 DEF VisitsOf
    <2>2. /\ ss \in [1 .. N -> Seq(Services)]
          /\ \A i \in 1 .. N : ss[i] = Registered(g, Deps[y][i])
      <3>1. ASSUME NEW i \in 1 .. N PROVE Registered(g, Deps[y][i]) \in Seq(Services)
        <4>1. << >> \in Seq(Services)
          OBVIOUS
        <4> QED
          BY <1>1, <4>1 DEF VisitsOK, Registered
      <3> QED
        BY <1>1, <3>1
    <2>3. F \in Seq(Services) /\ \E off : Lays(F, ss, N, off)
      BY <1>1, <2>2, FlattenIs
    <2>4. PICK off : Lays(F, ss, N, off)
      BY <2>3
    <2>5. /\ \A i \in 1 .. N : Deps[y][i] \in Services => VisitsOK(ss[i], st, Deps[y][i])
          /\ \A i \in 1 .. N : Deps[y][i] \notin Services => ss[i] = << >>
      BY <1>1, <2>2 DEF Registered
    <2> HIDE DEF ss, F, N
    <2>6. /\ v \in Seq(Services) /\ Len(v) = Len(F) + 1 /\ v[Len(F) + 1] = y /\ Len(F) \in Nat
          /\ \A k \in 1 .. Len(F) : v[k] = F[k]
      BY <2>3
    <2> HIDE DEF v
    <2>7. \A k \in 1 .. Len(v) : k = Len(F) + 1 \/ k \in 1 .. Len(F)
      BY <2>6
    <2>8. ASSUME NEW k \in 1 .. Len(F)
          PROVE  /\ st[F[k]] # "Running"
                 /\ st[F[k]] # "Disabled" =>
                       \A d \in DependsOn(F[k]) : st[d] = "Running" \/ \E j \in 1 .. k - 1 : F[j] = d
      <3>0. PICK i \in 1 .. N : \E j \in 1 .. Len(ss[i]) : k = off[i] + j
        BY <2>4 DEF Lays
      <3>1. PICK j \in 1 .. Len(ss[i]) : k = off[i] + j
        BY <3>0
      <3>2. F[k] = ss[i][j] /\ off[i] \in Nat /\ VisitsOK(ss[i], st, Deps[y][i])
        <4>1. Deps[y][i] \in Services
          <5>1. Len(<< >>) = 0 /\ ss[i] # << >>
            BY <3>1
          <5> QED
            BY <2>5, <5>1
        <4> QED
          BY <2>4, <2>5, <3>1, <4>1 DEF Lays
      <3>3. st[F[k]] # "Running"
        BY <3>2 DEF VisitsOK
      <3>4. ASSUME st[F[k]] # "Disabled", NEW d \in DependsOn(F[k]), st[d] # "Running"
            PROVE  \E l \in 1 .. k - 1 : F[l] = d
        <4>1. PICK l \in 1 .. j - 1 : ss[i][l] = d
          BY <3>2, <3>4 DEF VisitsOK
        <4>2. l \in 1 .. Len(ss[i])
          BY <3>2 DEF VisitsOK
        <4>3. off[i] + l \in 1 .. Len(F) /\ F[off[i] + l] = d
          BY <2>4, <4>1, <4>2 DEF Lays
        <4>4. off[i] + l \in 1 .. k - 1
          BY <3>1, <3>2, <4>3
        <4> QED
          BY <4>3, <4>4
      <3> QED
        BY <3>3, <3>4
    <2>9. ASSUME NEW d \in DependsOn(y), st[d] # "Running"
          PROVE  \E l \in 1 .. Len(F) : F[l] = d
      <3>1. PICK i \in 1 .. N : Deps[y][i] = d /\ d \in Services
        BY <1>1, <2>9 DEF DependsOn, ToSet
      <3>2. ss[i] \in Seq(Services) /\ Len(ss[i]) > 0 /\ ss[i][Len(ss[i])] = d
        BY <2>5, <2>9, <3>1 DEF VisitsOK
      <3>3. Len(ss[i]) \in 1 .. Len(ss[i])
        BY <3>2
      <3> QED
        BY <2>4, <3>2, <3>3 DEF Lays
    <2>10. \A k \in 1 .. Len(v) : st[v[k]] # "Running"
      BY <1>4, <2>6, <2>7, <2>8
    <2>11. ASSUME NEW k \in 1 .. Len(v), st[v[k]] # "Disabled",
                  NEW d \in DependsOn(v[k]), st[d] # "Running"
           PROVE  \E j \in 1 .. k - 1 : v[j] = d
      <3>1. CASE k = Len(F) + 1
        <4>1. PICK l \in 1 .. Len(F) : F[l] = d
          BY <2>6, <2>9, <2>11, <3>1
        <4>2. l \in 1 .. k - 1 /\ v[l] = d
          BY <2>6, <3>1, <4>1
        <4> QED
          BY <4>2
      <3>2. CASE k \in 1 .. Len(F)
        <4>1. PICK j \in 1 .. k - 1 : F[j] = d
          BY <2>6, <2>8, <2>11, <3>2
        <4>2. j \in 1 .. Len(F)
          BY <2>6, <3>2
        <4> QED
          BY <2>6, <4>1, <4>2
      <3> QED
        BY <2>7, <3>1, <3>2
    <2>12. DependsOn(y) = {} => Len(v) <= 1
      <3> SUFFICES ASSUME DependsOn(y) = {} PROVE Len(F) = 0
        BY <2>6
      <3>1. \A i \in 1 .. N : ss[i] = << >>
        <4>1. \A i \in 1 .. N : Deps[y][i] \notin Services
          BY <1>1 DEF DependsOn, ToSet
        <4> QED
          BY <2>5, <4>1
      <3>2. \A k \in 1 .. Len(F) : FALSE
        <4>1. Len(<< >>) = 0
          OBVIOUS
        <4> QED
          BY <2>4, <3>1, <4>1 DEF Lays
      <3> QED
        BY <2>6, <3>2
    <2>13. Len(v) > 0 /\ v[Len(v)] = y
      BY <2>6
    <2> QED
      BY <1>4, <2>1, <2>6, <2>10, <2>11, <2>12, <2>13 DEF VisitsOK
  <1> QED
    BY <1>2, <1>3, <1>4

LEMMA VisitsIs ==
    ASSUME NEW st, NEW x \in Services
    PROVE  VisitsOK(Visits(st, x), st, x)
  <1> DEFINE N == Len(Order)
  <1>1. PICK g : /\ \A y \in Services : g[y] = VisitsOf(g, st, y)
                 /\ \A y \in Services : Visits(st, y) = g[y]
    BY VisitsUnfold
  <1> DEFINE G == {n \in 0 .. N : \A i \in 1 .. n : VisitsOK(g[Order[i]], st, Order[i])}
  <1>2. 0 \in G /\ N \in Nat
    BY OrderIs
  <1>3. ASSUME NEW n \in 1 .. N, n - 1 \in G
        PROVE  n \in G
    <2>1. \A i \in 1 .. n - 1 : VisitsOK(g[Order[i]], st, Order[i])
      BY <1>3
    <2>2. Order[n] \in Services /\ g[Order[n]] = VisitsOf(g, st, Order[n])
      BY <1>1, OrderIs
    <2>3. \A k \in DOMAIN Deps[Order[n]] :
             Deps[Order[n]][k] \in Services => VisitsOK(g[Deps[Order[n]][k]], st, Deps[Order[n]][k])
      <3> SUFFICES ASSUME NEW k \in DOMAIN Deps[Order[n]], Deps[Order[n]][k] \in Services
                   PROVE  VisitsOK(g[Deps[Order[n]][k]], st, Deps[Order[n]][k])
        OBVIOUS
      <3>1. PICK j \in 1 .. n - 1 : Deps[Order[n]][k] = Order[j]
        BY OrderIs
      <3> QED
        BY <2>1, <3>1
    <2>4. VisitsOK(g[Order[n]], st, Order[n])
      BY <2>2, <2>3, VisitsOneMore
    <2>5. \A i \in 1 .. n : i = n \/ i \in 1 .. n - 1
      OBVIOUS
    <2>6. \A i \in 1 .. n : VisitsOK(g[Order[i]], st, Order[i])
      BY <2>1, <2>4, <2>5
    <2> QED
      BY <1>2, <2>6
  <1>4. \A n \in 0 .. N : n \in G
    <2> HIDE DEF G
    <2> QED
      BY <1>2, <1>3, UpTo
  <1>5. N \in G
    BY <1>2, <1>4
  <1>6. \A y \in Services : VisitsOK(g[y], st, y)
    BY <1>5, OrderIs
  <1> QED
    BY <1>1, <1>6

-----------------------------------------------------------------------------
(* What an outcome of a start is.                                          *)

IsSnapshot(s) ==
    s = [state |-> s.state, pids |-> s.pids, procs |-> s.procs, timers |-> s.timers,
         restarts |-> s.restarts]

(* TypeOK and ProcessesTracked, of a snapshot. *)
SnapshotOK(s) ==
    /\ IsSnapshot(s)
    /\ s.state \in [Services -> ServiceState]
    /\ s.restarts \in [Services -> Nat]
    /\ DOMAIN s.timers \subseteq Services
    /\ DOMAIN s.procs = {x \in Services \ BuiltIn : s.state[x] = "Running"}
    /\ s.pids = DOMAIN s.procs

(* RestartScheduled, of a snapshot. *)
Scheduled(s) == \A x \in Services :
    s.state[x] = "Restarting" /\ DependsOn(x) = {} => x \in DOMAIN s.timers

(* From s to o services were started, or failed to, and nothing else; each *)
(* of them after what it needs.                                            *)
Grown(s, o) ==
    /\ SnapshotOK(o) /\ o.timers = s.timers
    /\ \A y \in Services : o.state[y] \in {s.state[y], "Running", "Failed"}
    /\ \A y \in Services : s.state[y] = "Running" => o.state[y] = "Running"
    /\ \A y \in Services : s.state[y] # "Running" /\ o.state[y] = "Running" =>
          \A d \in DependsOn(y) : o.state[d] = "Running"

LEMMA GrownItself == ASSUME NEW s, SnapshotOK(s) PROVE Grown(s, s)
  BY DEF Grown

(* What DependsOn names is in the registry. *)
LEMMA NeedsServices == ASSUME NEW y \in Services PROVE DependsOn(y) \subseteq Services
  BY DEF DependsOn

LEMMA GrownTwice ==
    ASSUME NEW s, NEW o, NEW p, Grown(s, o), Grown(o, p)
    PROVE  Grown(s, p)
  <1>1. SnapshotOK(p) /\ p.timers = s.timers
    BY DEF Grown
  <1>2. ASSUME NEW y \in Services
        PROVE  p.state[y] \in {s.state[y], "Running", "Failed"}
    BY DEF Grown
  <1>3. ASSUME NEW y \in Services, s.state[y] = "Running"
        PROVE  p.state[y] = "Running"
    BY <1>3 DEF Grown
  <1>4. ASSUME NEW y \in Services, s.state[y] # "Running", p.state[y] = "Running", NEW d \in DependsOn(y)
        PROVE  p.state[d] = "Running"
    <2>1. d \in Services
      BY NeedsServices
    <2> QED
      BY <1>4, <2>1 DEF Grown
  <1> QED
    BY <1>1, <1>2, <1>3, <1>4 DEF Grown

(* The services ys run now, and those of zs could not be spawned. *)
Outcome(s, ys, zs) ==
    LET up == ys \ BuiltIn
    IN  [state |-> [y \in Services |-> IF y \in zs THEN "Failed"
                                      ELSE IF y \in ys THEN "Running" ELSE s.state[y]],
         pids |-> s.pids \cup up,
         procs |-> [y \in DOMAIN s.procs \cup up |-> IF y \in up THEN "alive" ELSE s.procs[y]],
         timers |-> s.timers,
         restarts |-> s.restarts]

LEMMA WithStateIs ==
    ASSUME NEW s, IsSnapshot(s), NEW xs, NEW v
    PROVE  WithState(s, xs, v) =
              [state |-> [y \in Services |-> IF y \in xs THEN v ELSE s.state[y]],
               pids |-> s.pids, procs |-> s.procs, timers |-> s.timers, restarts |-> s.restarts]
  <1> DEFINE st == s.state
             pd == s.pids
             pr == s.procs
             tm == s.timers
             rs == s.restarts
  <1>1. s = [state |-> st, pids |-> pd, procs |-> pr, timers |-> tm, restarts |-> rs]
    BY DEF IsSnapshot
  <1> HIDE DEF st, pd, pr, tm, rs
  <1> QED
    BY <1>1 DEF WithState

LEMMA StartedIs ==
    ASSUME NEW s, IsSnapshot(s), NEW ys
    PROVE  Started(s, ys) = Outcome(s, ys, {})
  <1> DEFINE st == [y \in Services |-> IF y \in ys THEN "Running" ELSE s.state[y]]
             pd == s.pids
             pr == s.procs
             tm == s.timers
             rs == s.restarts
             up == ys \ BuiltIn
  <1>1. WithState(s, ys, "Running") =
            [state |-> st, pids |-> pd, procs |-> pr, timers |-> tm, restarts |-> rs]
    BY WithStateIs
  <1>2. st = [y \in Services |-> IF y \in {} THEN "Failed"
                                 ELSE IF y \in ys THEN "Running" ELSE s.state[y]]
    OBVIOUS
  <1>3. Outcome(s, ys, {}) =
            [state |-> st, pids |-> pd \cup up,
             procs |-> [y \in DOMAIN pr \cup up |-> IF y \in up THEN "alive" ELSE pr[y]],
             timers |-> tm, restarts |-> rs]
    BY <1>2 DEF Outcome
  <1> HIDE DEF st, pd, pr, tm, rs
  <1>4. Started(s, ys) =
            [[state |-> st, pids |-> pd, procs |-> pr, timers |-> tm, restarts |-> rs] EXCEPT
                !.pids = @ \cup up,
                !.procs = [y \in DOMAIN @ \cup up |-> IF y \in up THEN "alive" ELSE @[y]]]
    BY <1>1 DEF Started
  <1> DEFINE fn == [y \in DOMAIN pr \cup up |-> IF y \in up THEN "alive" ELSE pr[y]]
  <1>5. Started(s, ys) =
            [[state |-> st, pids |-> pd, procs |-> pr, timers |-> tm, restarts |-> rs] EXCEPT
                !.pids = pd \cup up, !.procs = fn]
    BY <1>4
  <1>6. Outcome(s, ys, {}) =
            [state |-> st, pids |-> pd \cup up, procs |-> fn, timers |-> tm, restarts |-> rs]
    BY <1>3
  <1> HIDE DEF fn, up
  <1> QED
    BY <1>5, <1>6

LEMMA FailedIs ==
    ASSUME NEW s, IsSnapshot(s), NEW ys, NEW z
    PROVE  WithState(Started(s, ys), {z}, "Failed") = Outcome(s, ys, {z})
  <1> DEFINE o == Outcome(s, ys, {})
  <1>1. Started(s, ys) = o /\ IsSnapshot(o)
    BY StartedIs DEF Outcome, IsSnapshot
  <1>2. /\ o.pids = Outcome(s, ys, {z}).pids /\ o.procs = Outcome(s, ys, {z}).procs
        /\ o.timers = Outcome(s, ys, {z}).timers /\ o.restarts = Outcome(s, ys, {z}).restarts
        /\ \A y \in Services : o.state[y] = IF y \in ys THEN "Running" ELSE s.state[y]
    BY DEF Outcome
  <1> HIDE DEF o
  <1>3. WithState(o, {z}, "Failed") =
            [state |-> [y \in Services |-> IF y \in {z} THEN "Failed" ELSE o.state[y]],
             pids |-> o.pids, procs |-> o.procs, timers |-> o.timers, restarts |-> o.restarts]
    BY <1>1, WithStateIs
  <1>4. [y \in Services |-> IF y \in {z} THEN "Failed" ELSE o.state[y]] = Outcome(s, ys, {z}).state
    BY <1>2 DEF Outcome
  <1>5. Outcome(s, ys, {z}) =
            [state |-> Outcome(s, ys, {z}).state, pids |-> Outcome(s, ys, {z}).pids,
             procs |-> Outcome(s, ys, {z}).procs, timers |-> Outcome(s, ys, {z}).timers,
             restarts |-> Outcome(s, ys, {z}).restarts]
    BY DEF Outcome
  <1> QED
    BY <1>1, <1>2, <1>3, <1>4, <1>5

(* Services that did not run are started, each after what it needs, and    *)
(* perhaps one fails.                                                      *)
LEMMA OutcomeGrown ==
    ASSUME NEW s, SnapshotOK(s), NEW ys \in SUBSET Services, NEW zs \in SUBSET (Services \ BuiltIn),
           ys \cap zs = {}, \A z \in zs : s.state[z] # "Running",
           \A y \in ys : \A d \in DependsOn(y) : s.state[d] = "Running" \/ d \in ys
    PROVE  Grown(s, Outcome(s, ys, zs))
  <1> DEFINE o == Outcome(s, ys, zs)
  <1>1. /\ IsSnapshot(o) /\ o.timers = s.timers /\ o.restarts = s.restarts
        /\ o.pids = s.pids \cup (ys \ BuiltIn)
        /\ DOMAIN o.procs = DOMAIN s.procs \cup (ys \ BuiltIn)
    BY DEF Outcome, IsSnapshot
  <1>2. /\ DOMAIN o.state = Services
        /\ o.state = [y \in Services |-> o.state[y]]
        /\ \A y \in Services : o.state[y] = IF y \in zs THEN "Failed"
                                          ELSE IF y \in ys THEN "Running" ELSE s.state[y]
    BY DEF Outcome
  <1> HIDE DEF o
  <1>3. /\ "Failed" \in ServiceState /\ "Running" \in ServiceState
        /\ \A y \in Services : s.state[y] \in ServiceState
    BY DEF SnapshotOK, ServiceState
  <1>4. o.state \in [Services -> ServiceState]
    BY <1>2, <1>3
  <1>5. DOMAIN o.procs = {x \in Services \ BuiltIn : o.state[x] = "Running"}
    <2>1. \A x \in Services : o.state[x] = "Running" <=> s.state[x] = "Running" \/ x \in ys
      BY <1>2
    <2> QED
      BY <1>1, <2>1 DEF SnapshotOK
  <1>6. SnapshotOK(o)
    BY <1>1, <1>4, <1>5 DEF SnapshotOK
  <1>7. ASSUME NEW y \in Services, s.state[y] # "Running", o.state[y] = "Running", NEW d \in DependsOn(y)
        PROVE  o.state[d] = "Running"
    <2>1. y \in ys /\ d \in Services
      BY <1>2, <1>7, NeedsServices
    <2>2. s.state[d] = "Running" \/ d \in ys
      BY <2>1
    <2> QED
      BY <1>2, <2>1, <2>2
  <1> QED
    BY <1>1, <1>2, <1>6, <1>7 DEF Grown, o

LEMMA StartGrown ==
    ASSUME NEW s, SnapshotOK(s), NEW x \in Services, NEW o \in StartOutcomes(s, x)
    PROVE  Grown(s, o) /\ (DependsOn(x) = {} => o.state[x] # "Restarting")
  <1> DEFINE v == Visits(s.state, x)
             earlier(k) == {v[j] : j \in 1 .. k - 1}
             disabled == {k \in DOMAIN v : s.state[v[k]] = "Disabled"}
             reached == {k \in DOMAIN v : \A j \in disabled : k <= j}
  <1>1. VisitsOK(v, s.state, x)
    BY VisitsIs
  <1>2. \/ \E k \in disabled \cap reached : o = Started(s, earlier(k))
        \/ \E k \in reached \ disabled :
              /\ v[k] \notin BuiltIn \cup earlier(k)
              /\ o = WithState(Started(s, earlier(k)), {v[k]}, "Failed")
        \/ disabled = {} /\ o = Started(s, ToSet(v))
    BY DEF StartOutcomes
  <1>3. v \in Seq(Services) /\ Len(v) \in Nat /\ DOMAIN v = 1 .. Len(v) /\ IsSnapshot(s)
    BY <1>1 DEF VisitsOK, SnapshotOK
  <1> HIDE DEF v
  <1>4. ASSUME NEW k \in 1 .. Len(v) + 1, \A j \in 1 .. k - 1 : s.state[v[j]] # "Disabled"
        PROVE  /\ earlier(k) \in SUBSET Services
               /\ \A y \in earlier(k) : \A d \in DependsOn(y) : s.state[d] = "Running" \/ d \in earlier(k)
    <2>1. \A j \in 1 .. k - 1 : j \in 1 .. Len(v)
      BY <1>3
    <2>2. earlier(k) \in SUBSET Services
      BY <1>3, <2>1
    <2>3. ASSUME NEW j \in 1 .. k - 1, NEW d \in DependsOn(v[j]), s.state[d] # "Running"
          PROVE  d \in earlier(k)
      <3>1. PICK i \in 1 .. j - 1 : v[i] = d
        BY <1>1, <1>4, <2>1, <2>3 DEF VisitsOK
      <3>2. i \in 1 .. k - 1
        BY <1>3
      <3> QED
        BY <3>1, <3>2
    <2> QED
      BY <2>2, <2>3
  <1>5. ASSUME NEW k \in reached
        PROVE  k \in 1 .. Len(v) + 1 /\ \A j \in 1 .. k - 1 : s.state[v[j]] # "Disabled"
    BY <1>3
  <1>6. ASSUME DependsOn(x) = {}
        PROVE  \/ s.state[x] = "Running" /\ v = << >>
               \/ s.state[x] # "Running" /\ Len(v) = 1 /\ v[1] = x
    BY <1>1, <1>3, <1>6 DEF VisitsOK
  <1>7. ASSUME NEW k \in disabled \cap reached, o = Started(s, earlier(k))
        PROVE  Grown(s, o) /\ (DependsOn(x) = {} => o.state[x] # "Restarting")
    <2>1. o = Outcome(s, earlier(k), {}) /\ {} \in SUBSET (Services \ BuiltIn)
      BY <1>3, <1>7, StartedIs
    <2>2. /\ earlier(k) \in SUBSET Services
          /\ \A y \in earlier(k) : \A d \in DependsOn(y) : s.state[d] = "Running" \/ d \in earlier(k)
      BY <1>4, <1>5
    <2>3. DependsOn(x) = {} => k = 1 /\ s.state[x] = "Disabled"
      BY <1>3, <1>6
    <2>4. o.state[x] = IF x \in earlier(k) THEN "Running" ELSE s.state[x]
      BY <2>1 DEF Outcome
    <2> HIDE DEF earlier
    <2>5. Grown(s, o)
      BY <2>1, <2>2, OutcomeGrown
    <2> QED
      BY <2>3, <2>4, <2>5
  <1>8. ASSUME NEW k \in reached \ disabled, v[k] \notin BuiltIn \cup earlier(k),
               o = WithState(Started(s, earlier(k)), {v[k]}, "Failed")
        PROVE  Grown(s, o) /\ (DependsOn(x) = {} => o.state[x] # "Restarting")
    <2>1. o = Outcome(s, earlier(k), {v[k]})
      BY <1>3, <1>8, FailedIs
    <2>2. /\ earlier(k) \in SUBSET Services
          /\ \A y \in earlier(k) : \A d \in DependsOn(y) : s.state[d] = "Running" \/ d \in earlier(k)
      BY <1>4, <1>5
    <2>3. v[k] \in Services /\ s.state[v[k]] # "Running" /\ k \in 1 .. Len(v)
      BY <1>1, <1>3 DEF VisitsOK
    <2>4. {v[k]} \in SUBSET (Services \ BuiltIn) /\ earlier(k) \cap {v[k]} = {}
      BY <1>8, <2>3
    <2>5. DependsOn(x) = {} => v[k] = x
      BY <1>6, <2>3
    <2>6. v[k] = x => o.state[x] = "Failed"
      BY <2>1 DEF Outcome
    <2> HIDE DEF earlier
    <2>7. Grown(s, o)
      BY <2>1, <2>2, <2>3, <2>4, OutcomeGrown
    <2> QED
      BY <2>5, <2>6, <2>7
  <1>9. ASSUME disabled = {}, o = Started(s, ToSet(v))
        PROVE  Grown(s, o) /\ (DependsOn(x) = {} => o.state[x] # "Restarting")
    <2> DEFINE all == earlier(Len(v) + 1)
    <2>1. ToSet(v) = all
      BY <1>3 DEF ToSet
    <2>2. o = Outcome(s, all, {}) /\ {} \in SUBSET (Services \ BuiltIn)
      BY <1>3, <1>9, <2>1, StartedIs
    <2>3. \A j \in 1 .. Len(v) + 1 - 1 : s.state[v[j]] # "Disabled"
      BY <1>3, <1>9
    <2>4. Len(v) + 1 \in 1 .. Len(v) + 1
      BY <1>3
    <2>5. /\ all \in SUBSET Services
          /\ \A y \in all : \A d \in DependsOn(y) : s.state[d] = "Running" \/ d \in all
      BY <1>4, <2>3, <2>4
    <2>6. DependsOn(x) = {} => s.state[x] = "Running" \/ x \in all
      BY <1>6
    <2>7. o.state[x] = IF x \in all THEN "Running" ELSE s.state[x]
      BY <2>2 DEF Outcome
    <2> HIDE DEF all
    <2>8. Grown(s, o)
      BY <2>2, <2>5, OutcomeGrown
    <2> QED
      BY <2>6, <2>7, <2>8
  <1> QED
    BY <1>2, <1>7, <1>8, <1>9

(* One start after another.  If a service in any state is started, none of *)
(* those without dependencies is left waiting for a restart.               *)
LEMMA EachGrown ==
    ASSUME NEW s, SnapshotOK(s), NEW xs \in Seq(Services), NEW from,
           NEW o \in StartEach(s, xs, from)
    PROVE  /\ Grown(s, o)
           /\ from = [x \in Services |-> ServiceState] =>
                 \A i \in 1 .. Len(xs) : DependsOn(xs[i]) = {} => o.state[xs[i]] # "Restarting"
  <1> DEFINE N == Len(xs)
             Settled(p, n) == from = [x \in Services |-> ServiceState] =>
                 \A i \in 1 .. n : DependsOn(xs[i]) = {} => p.state[xs[i]] # "Restarting"
  <1>1. PICK outs : /\ outs[0] = {s} /\ StartEach(s, xs, from) = outs[N]
                    /\ \A n \in 1 .. N : Following(outs, n, xs[n], from)
    BY StartEachIs
  <1> DEFINE G == {n \in 0 .. N : \A p \in outs[n] : Grown(s, p) /\ Settled(p, n)}
  <1>2. N \in Nat /\ \A n \in 1 .. N : xs[n] \in Services
    OBVIOUS
  <1>3. 0 \in G
    BY <1>1, <1>2, GrownItself
  <1>4. ASSUME NEW n \in 1 .. N, n - 1 \in G
        PROVE  n \in G
    <2>1. \A q \in outs[n - 1] : Grown(s, q) /\ Settled(q, n - 1)
      BY <1>4
    <2>2. ASSUME NEW p \in outs[n]
          PROVE  Grown(s, p) /\ Settled(p, n)
      <3>1. PICK q \in outs[n - 1] :
                p \in IF q.state[xs[n]] \in from[xs[n]] THEN StartOutcomes(q, xs[n]) ELSE {q}
        BY <1>1 DEF Following
      <3>2. Grown(s, q) /\ Settled(q, n - 1) /\ SnapshotOK(q) /\ xs[n] \in Services
        BY <1>2, <2>1 DEF Grown
      <3>3. Grown(q, p)
        BY <3>1, <3>2, StartGrown, GrownItself
      <3>4. Grown(s, p)
        BY <3>2, <3>3, GrownTwice
      <3>5. ASSUME from = [x \in Services |-> ServiceState], NEW i \in 1 .. n, DependsOn(xs[i]) = {}
            PROVE  p.state[xs[i]] # "Restarting"
        <4>1. CASE i = n
          <5>1. q.state[xs[n]] \in from[xs[n]]
            BY <3>2, <3>5 DEF SnapshotOK
          <5>2. p \in StartOutcomes(q, xs[n])
            BY <3>1, <5>1
          <5> QED
            BY <3>2, <3>5, <4>1, <5>2, StartGrown
        <4>2. CASE i # n
          <5>1. i \in 1 .. n - 1 /\ xs[i] \in Services
            BY <1>2, <4>2
          <5>2. q.state[xs[i]] # "Restarting"
            BY <3>2, <3>5, <5>1
          <5> QED
            BY <3>3, <5>1, <5>2 DEF Grown
        <4> QED
          BY <4>1, <4>2
      <3> QED
        BY <3>4, <3>5
    <2>3. n \in 0 .. N
      BY <1>2
    <2> QED
      BY <2>2, <2>3
  <1>5. \A n \in 0 .. N : n \in G
    <2> HIDE DEF G
    <2> QED
      BY <1>2, <1>3, <1>4, UpTo
  <1>6. N \in G
    BY <1>2, <1>5
  <1> QED
    BY <1>1, <1>6

LEMMA GrownScheduled ==
    ASSUME NEW s, NEW o, Grown(s, o), Scheduled(s)
    PROVE  Scheduled(o)
  BY DEF Grown, Scheduled

-----------------------------------------------------------------------------
(* Stops, and children that have exited.                                   *)

LEMMA StoppedIs ==
    ASSUME NEW s, SnapshotOK(s), Scheduled(s), NEW xs
    PROVE  LET o == Stopped(s, xs)
           IN  /\ SnapshotOK(o) /\ Scheduled(o)
               /\ \A y \in Services : o.state[y] = "Running" => s.state[y] = "Running"
  <1> DEFINE all == StopSet(s.state, xs)
             o == Stopped(s, xs)
             st == [y \in Services |-> IF y \in all THEN "Stopped" ELSE s.state[y]]
             pd == s.pids \ all
             pr == Without(s.procs, all)
             tm == s.timers
             rs == s.restarts
             r == [state |-> st, pids |-> s.pids, procs |-> s.procs, timers |-> tm, restarts |-> rs]
  <1>1. o = [WithState(s, all, "Stopped") EXCEPT !.pids = @ \ all, !.procs = Without(@, all)]
    BY DEF Stopped
  <1>2. o = [r EXCEPT !.pids = pd, !.procs = pr]
    <2> HIDE DEF all
    <2>1. IsSnapshot(s)
      BY DEF SnapshotOK
    <2>2. WithState(s, all, "Stopped") = r
      BY <2>1, WithStateIs
    <2>3. o = [r EXCEPT !.pids = @ \ all, !.procs = Without(@, all)]
      BY <1>1, <2>2
    <2> QED
      BY <2>3
  <1>3. DOMAIN pr = DOMAIN s.procs \ all
    BY DEF Without
  <1>4. st \in [Services -> ServiceState]
    BY DEF SnapshotOK, ServiceState
  <1>5. \A y \in Services : st[y] = IF y \in all THEN "Stopped" ELSE s.state[y]
    OBVIOUS
  <1>6. tm = s.timers /\ rs = s.restarts /\ pd = s.pids \ all
    OBVIOUS
  <1> HIDE DEF st, pd, pr, all, tm, rs, o
  <1>7. o = [state |-> st, pids |-> pd, procs |-> pr, timers |-> tm, restarts |-> rs]
    BY <1>2
  <1>8. SnapshotOK(o)
    <2>1. IsSnapshot(o) /\ o.state = st /\ o.restarts = rs /\ o.timers = tm /\ o.procs = pr /\ o.pids = pd
      BY <1>7 DEF IsSnapshot
    <2>2. DOMAIN pr = {x \in Services \ BuiltIn : st[x] = "Running"}
      BY <1>3, <1>5 DEF SnapshotOK
    <2> QED
      BY <1>3, <1>4, <1>6, <2>1, <2>2 DEF SnapshotOK
  <1>9. Scheduled(o) /\ \A y \in Services : o.state[y] = "Running" => s.state[y] = "Running"
    BY <1>5, <1>6, <1>7 DEF Scheduled
  <1> QED
    BY <1>8, <1>9 DEF o

IInv == TypeOK /\ ProcessesTracked /\ RestartScheduled

LEMMA NowIs == IInv => SnapshotOK(Now) /\ Scheduled(Now)
  BY DEF IInv, TypeOK, ProcessesTracked, RestartScheduled, SnapshotOK, IsSnapshot, Scheduled, Now

LEMMA BecomesIs ==
    ASSUME NEW s, SnapshotOK(s), Scheduled(s), Becomes(s)
    PROVE  IInv'
  BY DEF IInv, TypeOK, ProcessesTracked, RestartScheduled, SnapshotOK, Scheduled, Becomes

(* The first half of a tick. *)
LEMMA ReapedIs ==
    ASSUME IInv
    PROVE  /\ SnapshotOK(Reaped) /\ Scheduled(Reaped)
           /\ \A y \in Services : Reaped.state[y] = "Running" => state[y] = "Running"
  <1> DEFINE again == {x \in Exited : Restartable(x)}
             s == Reaped
  <1>1. /\ Exited \subseteq {x \in Services \ BuiltIn : state[x] = "Running"}
        /\ DOMAIN procs = {x \in Services \ BuiltIn : state[x] = "Running"} /\ pids = DOMAIN procs
        /\ again \subseteq Exited
    BY DEF Exited, IInv, ProcessesTracked
  <1>2. /\ IsSnapshot(s) /\ s.pids = pids \ Exited /\ DOMAIN s.procs = DOMAIN procs \ Exited
        /\ DOMAIN s.timers = DOMAIN timers \cup again
    BY DEF Reaped, IsSnapshot, Without
  <1>3. s.restarts = [x \in Services |-> IF x \in again THEN restarts[x] + 1 ELSE restarts[x]]
    BY DEF Reaped
  <1>4. s.state = [x \in Services |-> CASE x \in again -> "Restarting"
                         [] x \in Exited \ again -> IF procs[x] = "clean" THEN "Stopped" ELSE "Failed"
                         [] OTHER -> state[x]]
    BY DEF Reaped
  <1> HIDE DEF again, s
  <1>5. \A x \in Services :
            /\ x \in again => s.state[x] = "Restarting"
            /\ x \in Exited \ again => s.state[x] \in {"Stopped", "Failed"}
            /\ x \notin Exited => s.state[x] = state[x]
    BY <1>1, <1>4
  <1>6. s.state \in [Services -> ServiceState]
    <2>1. \A x \in Services : s.state[x] \in ServiceState
      BY <1>5 DEF IInv, TypeOK, ServiceState
    <2>2. s.state = [x \in Services |-> s.state[x]]
      BY <1>4
    <2> QED
      BY <2>1, <2>2
  <1>7. s.restarts \in [Services -> Nat]
    BY <1>3 DEF IInv, TypeOK
  <1>8. DOMAIN s.procs = {x \in Services \ BuiltIn : s.state[x] = "Running"}
    BY <1>1, <1>2, <1>5
  <1>9. SnapshotOK(s)
    BY <1>1, <1>2, <1>6, <1>7, <1>8 DEF SnapshotOK, IInv, TypeOK
  <1>10. Scheduled(s)
    BY <1>1, <1>2, <1>5 DEF Scheduled, IInv, RestartScheduled
  <1> QED
    BY <1>1, <1>5, <1>9, <1>10 DEF s

-----------------------------------------------------------------------------
(* Steps.                                                                  *)

(* What a step other than an exit or the passing of time does: it may stop *)
(* services, and what it then starts it starts after what it needs.        *)
Calls(s, o) ==
    /\ SnapshotOK(o) /\ Scheduled(o) /\ Grown(s, o)
    /\ \A y \in Services : s.state[y] = "Running" => state[y] = "Running"

LEMMA CallIs ==
    ASSUME IInv,
           \/ \E x \in Services : StartService(x) \/ StopService(x) \/ RestartService(x)
           \/ StartAll \/ StopAll \/ Tick
    PROVE  \E s, o : Calls(s, o) /\ Becomes(o)
  <1>1. SnapshotOK(Now) /\ Scheduled(Now) /\ Now.state = state
    BY NowIs DEF Now
  <1>2. ASSUME NEW x \in Services, StartService(x)
        PROVE  \E s, o : Calls(s, o) /\ Becomes(o)
    <2>1. PICK o \in StartOutcomes(Now, x) : Becomes(o)
      BY <1>2 DEF StartService
    <2>2. Grown(Now, o)
      BY <1>1, StartGrown
    <2>3. Calls(Now, o)
      BY <1>1, <2>2, GrownScheduled DEF Calls, Grown
    <2> QED
      BY <2>1, <2>3
  <1>3. ASSUME NEW xs, Becomes(Stopped(Now, xs))
        PROVE  \E s, o : Calls(s, o) /\ Becomes(o)
    <2> DEFINE o == Stopped(Now, xs)
    <2>1. /\ SnapshotOK(o) /\ Scheduled(o)
          /\ \A y \in Services : o.state[y] = "Running" => state[y] = "Running"
      BY <1>1, StoppedIs
    <2> HIDE DEF o
    <2>2. Calls(o, o)
      BY <2>1, GrownItself DEF Calls
    <2> QED
      BY <1>3, <2>2 DEF o
  <1>4. ASSUME NEW x \in Services, RestartService(x)
        PROVE  \E s, o : Calls(s, o) /\ Becomes(o)
    <2> DEFINE s == Stopped(Now, {x})
    <2>1. /\ SnapshotOK(s) /\ Scheduled(s)
          /\ \A y \in Services : s.state[y] = "Running" => state[y] = "Running"
      BY <1>1, StoppedIs
    <2>2. PICK o \in StartOutcomes(s, x) : Becomes(o)
      BY <1>4 DEF RestartService
    <2> HIDE DEF s
    <2>3. Grown(s, o)
      BY <2>1, StartGrown
    <2>4. Calls(s, o)
      BY <2>1, <2>3, GrownScheduled DEF Calls, Grown
    <2> QED
      BY <2>2, <2>4
  <1>5. CASE StartAll
    <2>1. PICK from : \E o \in StartEach(Now, Order, from) : Becomes(o)
      BY <1>5 DEF StartAll
    <2>2. PICK o \in StartEach(Now, Order, from) : Becomes(o)
      BY <2>1
    <2>3. Order \in Seq(Services)
      BY ServicesAssumption
    <2>4. Grown(Now, o)
      BY <1>1, <2>3, EachGrown
    <2>5. Calls(Now, o)
      BY <1>1, <2>4, GrownScheduled DEF Calls, Grown
    <2> QED
      BY <2>2, <2>5
  <1>6. CASE Tick
    <2> DEFINE r == Reaped
               ripe == {x \in DOMAIN r.timers : r.timers[x] = "ripe"}
               any == [x \in Services |-> ServiceState]
               s == [r EXCEPT !.timers = Without(@, ripe)]
    <2>1. PICK xs \in SetToSeqs(ripe) : \E o \in StartEach(s, xs, any) : Becomes(o)
      BY <1>6 DEF Tick
    <2>2. PICK o \in StartEach(s, xs, any) : Becomes(o)
      BY <2>1
    <2>3. /\ SnapshotOK(r) /\ Scheduled(r)
          /\ \A y \in Services : r.state[y] = "Running" => state[y] = "Running"
      BY ReapedIs
    <2>4. ripe \subseteq Services /\ ripe \subseteq DOMAIN r.timers
      BY <2>3 DEF SnapshotOK
    <2>5. /\ xs \in Seq(Services)
          /\ \A x \in ripe : \E i \in 1 .. Len(xs) : xs[i] = x
      <3> DEFINE D == 1 .. Cardinality(ripe)
      <3>1. xs \in [D -> ripe] /\ \A i, j \in D : i # j => xs[i] # xs[j]
        BY <2>1 DEF SetToSeqs
      <3>2. IsFiniteSet(ripe) /\ Cardinality(ripe) \in Nat
        BY <2>4, ServicesAssumption, FS_Subset, FS_CardinalityType
      <3> HIDE DEF ripe
      <3>3. xs \in Seq(Services) /\ Len(xs) = Cardinality(ripe)
        BY <2>4, <3>1, <3>2
      <3>4. IsFiniteSet(D) /\ Cardinality(D) = Cardinality(ripe)
        BY <3>2, FS_Interval
      <3>5. xs \in Injection(D, ripe)
        BY <3>1 DEF Injection, IsInjective
      <3> HIDE DEF D
      <3>6. xs \in Surjection(D, ripe)
        BY <3>2, <3>4, <3>5, FS_Injection
      <3>7. \A x \in ripe : \E i \in D : xs[i] = x
        BY <3>6 DEF Surjection
      <3> QED
        BY <3>3, <3>7 DEF D
    <2>6. s = [state |-> r.state, pids |-> r.pids, procs |-> r.procs,
               timers |-> Without(r.timers, ripe), restarts |-> r.restarts]
      <3> DEFINE st == r.state
                 pd == r.pids
                 pr == r.procs
                 tm == r.timers
                 rs == r.restarts
      <3>1. r = [state |-> st, pids |-> pd, procs |-> pr, timers |-> tm, restarts |-> rs]
        BY <2>3 DEF SnapshotOK, IsSnapshot
      <3> HIDE DEF r, ripe, st, pd, pr, tm, rs
      <3>2. s = [[state |-> st, pids |-> pd, procs |-> pr, timers |-> tm, restarts |-> rs] EXCEPT
                    !.timers = Without(tm, ripe)]
        BY <3>1
      <3>3. s = [state |-> st, pids |-> pd, procs |-> pr, timers |-> Without(tm, ripe), restarts |-> rs]
        BY <3>2
      <3> QED
        BY <3>3 DEF st, pd, pr, tm, rs
    <2>7. DOMAIN Without(r.timers, ripe) = DOMAIN r.timers \ ripe
      BY DEF Without
    <2> HIDE DEF r, ripe, s
    <2>8. SnapshotOK(s) /\ s.state = r.state /\ DOMAIN s.timers = DOMAIN r.timers \ ripe
      BY <2>3, <2>6, <2>7 DEF SnapshotOK, IsSnapshot
    <2>9. /\ Grown(s, o)
          /\ \A i \in 1 .. Len(xs) : DependsOn(xs[i]) = {} => o.state[xs[i]] # "Restarting"
      BY <2>5, <2>8, EachGrown
    <2>10. Scheduled(o)
      <3> SUFFICES ASSUME NEW x \in Services, o.state[x] = "Restarting", DependsOn(x) = {}
                   PROVE  x \in DOMAIN o.timers
        BY DEF Scheduled
      <3>1. x \notin ripe
        BY <2>5, <2>9
      <3>2. r.state[x] = "Restarting"
        BY <2>8, <2>9 DEF Grown
      <3>3. x \in DOMAIN r.timers
        BY <2>3, <3>2 DEF Scheduled
      <3> QED
        BY <2>8, <2>9, <3>1, <3>3 DEF Grown
    <2>11. Calls(s, o)
      BY <2>3, <2>8, <2>9, <2>10 DEF Calls, Grown
    <2> QED
      BY <2>2, <2>11
  <1> QED
    BY <1>2, <1>3, <1>4, <1>5, <1>6 DEF StopService, StopAll

(* A process exits, or the backoff of a restart elapses. *)
LEMMA OutsideIs ==
    ASSUME IInv, NEW x \in Services, ProcessExits(x) \/ BackoffElapses(x)
    PROVE  IInv' /\ UNCHANGED state
  <1>1. CASE ProcessExits(x)
    <2>1. DOMAIN procs' = DOMAIN procs /\ UNCHANGED <<state, pids, timers, restarts>>
      BY <1>1 DEF ProcessExits
    <2> QED
      BY <2>1 DEF IInv, TypeOK, ProcessesTracked, RestartScheduled
  <1>2. CASE BackoffElapses(x)
    <2>1. DOMAIN timers' = DOMAIN timers /\ UNCHANGED <<state, pids, procs, restarts>>
      BY <1>2 DEF BackoffElapses
    <2> QED
      BY <2>1 DEF IInv, TypeOK, ProcessesTracked, RestartScheduled
  <1> QED
    BY <1>1, <1>2

LEMMA InitInv == Init => IInv
  <1> SUFFICES ASSUME Init PROVE IInv
    OBVIOUS
  <1>1. \A x \in Services : state[x] \in {"Stopped", "Disabled"}
    BY DEF Init
  <1>2. DOMAIN procs = {} /\ DOMAIN timers = {}
    BY DEF Init
  <1>3. TypeOK
    BY <1>2 DEF Init, TypeOK, ServiceState
  <1>4. ProcessesTracked
    BY <1>1, <1>2 DEF Init, ProcessesTracked
  <1>5. RestartScheduled
    BY <1>1 DEF RestartScheduled
  <1> QED
    BY <1>3, <1>4, <1>5 DEF IInv

LEMMA StepInv == IInv /\ [Next]_vars => IInv'
  <1> SUFFICES ASSUME IInv, [Next]_vars PROVE IInv'
    OBVIOUS
  <1>1. ASSUME NEW x \in Services, ProcessExits(x) \/ BackoffElapses(x)
        PROVE  IInv'
    BY <1>1, OutsideIs
  <1>2. CASE \/ \E x \in Services : StartService(x) \/ StopService(x) \/ RestartService(x)
             \/ StartAll \/ StopAll \/ Tick
    BY <1>2, CallIs, BecomesIs DEF Calls
  <1>3. CASE UNCHANGED vars
    BY <1>3 DEF vars, IInv, TypeOK, ProcessesTracked, RestartScheduled
  <1> QED
    BY <1>1, <1>2, <1>3 DEF Next

LEMMA SpecIInv == Spec => []IInv
  BY InitInv, StepInv, PTL DEF Spec

-----------------------------------------------------------------------------
(* The theorems.                                                           *)

(* The registry, the children and the restart timers keep their types; no  *)
(* built-in service has a process.                                         *)
THEOREM SpecTypeOK == Spec => []TypeOK
  BY SpecIInv, PTL DEF IInv

(* The children are exactly those of the running services that have an     *)
(* executable, and so are the pids: no start that fails half way, stop     *)
(* that cascades, exit or restart leaves a process that the registry does  *)
(* not show, or a service shown as running without one.                    *)
THEOREM SpecProcessesTracked == Spec => []ProcessesTracked
  BY SpecIInv, PTL DEF IInv

(* A service without dependencies that is to be restarted has its timer,   *)
(* until the tick that finds the timer ripe has tried to start it.         *)
THEOREM SpecRestartScheduled == Spec => []RestartScheduled
  BY SpecIInv, PTL DEF IInv

(* Whichever call starts a service, each registered service it depends on  *)
(* runs by the end of the call, also when the call stops others first,     *)
(* starts several, or fails half way.                                      *)
THEOREM SpecDependenciesFirst == Spec => DependenciesFirst
  <1> DEFINE A == \A x \in Services : state[x] # "Running" /\ state'[x] = "Running"
                    => \A d \in DependsOn(x) : state'[d] = "Running"
  <1>1. ASSUME IInv, Next PROVE A
    <2>1. CASE UNCHANGED state
      BY <2>1
    <2>2. CASE \/ \E x \in Services : StartService(x) \/ StopService(x) \/ RestartService(x)
               \/ StartAll \/ StopAll \/ Tick
      <3>1. PICK s, o : Calls(s, o) /\ Becomes(o)
        BY <1>1, <2>2, CallIs
      <3> QED
        BY <3>1 DEF Calls, Grown, Becomes
    <2> QED
      BY <1>1, <2>1, <2>2, OutsideIs DEF Next
  <1>2. IInv /\ [Next]_vars => [A]_vars
    BY <1>1
  <1> QED
    BY <1>2, SpecIInv, PTL DEF Spec, DependenciesFirst
=============================================================================
