--------------------------- MODULE LockFreeProofs ---------------------------
(* Theorems about LockFreeQueue, for every set of producers, every finite  *)
(* set of addresses and every number of pushes.                            *)
(*                                                                         *)
(* ChainOf walks the memory by a recursion.  The invariant does not: it    *)
(* says that there are two sequences of nodes, linked to each other in     *)
(* memory, and ChainIs shows once that such a sequence is what a walk of   *)
(* the memory finds.                                                       *)
EXTENDS LockFreeQueue, FiniteSetTheorems, FunctionTheorems, SequenceTheorems, TLAPS

(* Where the i-th link of a list of nodes points. *)
PointerAt(q, i) == IF i <= Len(q) THEN q[i] ELSE Null

(* In memory m the pointer a leads through the nodes of q, once each, and  *)
(* no further.                                                             *)
IsChain(m, q, a) ==
    /\ q \in Seq(DOMAIN m)
    /\ \A i, j \in 1 .. Len(q) : q[i] = q[j] => i = j
    /\ a = PointerAt(q, 1)
    /\ \A i \in 1 .. Len(q) : m[q[i]].next = PointerAt(q, i + 1)

PrivateOf(pr) == {p \in Producers : pr[p].pc \in {"load", "cas"}}
NodesOf(pr) == {pr[p].node : p \in PrivateOf(pr)}

(* The allocated nodes are the shared list s, the list b being drained and *)
(* the nodes of the pushes under way, and no two of these share one.       *)
Lists(m, h, c, pr, s, b) ==
    /\ IsChain(m, s, h)
    /\ IsChain(m, b, c)
    /\ ToSet(s) \cap ToSet(b) = {}
    /\ NodesOf(pr) \cap (ToSet(s) \cup ToSet(b)) = {}
    /\ DOMAIN m = NodesOf(pr) \cup ToSet(s) \cup ToSet(b)
    /\ \A p, q \in PrivateOf(pr) : pr[p].node = pr[q].node => p = q

Shape == \E s, b : Lists(mem, head, cons.current, prod, s, b)

(* A node that is about to be pushed is linked to the head expected. *)
Linked == \A p \in Producers : prod[p].pc = "cas" => mem[prod[p].node].next = prod[p].expected

Resting ==
    /\ cons.pc \in {"idle", "clear"} => cons.items = << >>
    /\ cons.pc = "idle" => cons.current = Null

(* An item that some push other than the one under way has made. *)
Old(pr, v) ==
    /\ v[2] <= pr[v[1]].sent
    /\ v[1] \in PrivateOf(pr) => v[2] < pr[v[1]].sent

Stamped ==
    /\ \A p \in PrivateOf(prod) : mem[prod[p].node].value = <<p, prod[p].sent>>
    /\ \A x \in DOMAIN mem \ NodesOf(prod) : Old(prod, mem[x].value)
    /\ \A i \in DOMAIN cons.items : Old(prod, cons.items[i])
    /\ \A i \in DOMAIN received : Old(prod, received[i])

(* The inductive invariant. *)
IInv == TypeOK /\ Shape /\ Linked /\ Resting /\ Stamped

-----------------------------------------------------------------------------
(* Walking a list.                                                         *)

(* A set of natural numbers has a least element. *)
LEMMA Least ==
    ASSUME NEW T, T \subseteq Nat, T # {}
    PROVE  \E x \in T : \A y \in T : x <= y
  <1> DEFINE R == OpToRel(<, Nat)
  <1>1. IsWellFoundedOn(R, Nat)
    BY NatLessThanWellFounded
  <1> HIDE DEF R
  <1>2. PICK x \in T : \A y \in T : <<y, x>> \notin R
    BY <1>1, WFMin
  <1>3. \A y \in T : ~(y < x)
    BY <1>2 DEF R, OpToRel
  <1> QED
    BY <1>3

(* Functions that agree at 0 and that take equal steps agree. *)
LEMMA SameSteps ==
    ASSUME NEW N \in Nat, NEW f, NEW g, f[0] = g[0],
           \A i \in 1 .. N : f[i - 1] = g[i - 1] => f[i] = g[i]
    PROVE  f[N] = g[N]
  <1> DEFINE T == {i \in 0 .. N : f[i] # g[i]}
  <1> SUFFICES ASSUME T # {} PROVE FALSE
    OBVIOUS
  <1>1. T \subseteq Nat
    OBVIOUS
  <1> HIDE DEF T
  <1>2. PICK x \in T : \A y \in T : x <= y
    BY <1>1, Least
  <1> USE DEF T
  <1>3. x \in 1 .. N /\ f[x] # g[x]
    BY <1>2
  <1>4. x - 1 \in 0 .. N /\ x - 1 \notin T
    BY <1>2, <1>3
  <1> QED
    BY <1>3, <1>4

(* No chain is longer than there are addresses. *)
LEMMA ChainFits ==
    ASSUME NEW m, DOMAIN m \subseteq Addrs, NEW q, NEW a, IsChain(m, q, a)
    PROVE  Len(q) \in 0 .. Cardinality(Addrs)
  <1>1. /\ q \in [1 .. Len(q) -> Addrs] /\ Len(q) \in Nat
        /\ \A i, j \in 1 .. Len(q) : q[i] = q[j] => i = j
    BY DEF IsChain
  <1>2. q \in Injection(1 .. Len(q), Addrs)
    BY <1>1, Fun_IsInj
  <1>3. /\ Cardinality(1 .. Len(q)) <= Cardinality(Addrs)
    BY <1>2, FS_Injection, QueueAssumption
  <1>4. Cardinality(1 .. Len(q)) = Len(q)
    <2>1. 1 \in Int /\ Len(q) \in Int
      BY <1>1
    <2>2. Cardinality(1 .. Len(q)) = IF 1 > Len(q) THEN 0 ELSE Len(q) - 1 + 1
      BY <2>1, FS_Interval
    <2> QED
      BY <1>1, <2>2
  <1>5. Cardinality(Addrs) \in Nat
    BY FS_CardinalityType, QueueAssumption
  <1> QED
    BY <1>1, <1>3, <1>4, <1>5

(* Walking from the pointer of a chain finds the chain. *)
LEMMA ChainIs ==
    ASSUME NEW m, DOMAIN m \subseteq Addrs, NEW q, NEW a, IsChain(m, q, a)
    PROVE  ChainOf(m, a) = q
  <1> DEFINE N == Cardinality(Addrs)
             Start == [at |-> a, seen |-> << >>]
             Step(w) == IF w.at \notin DOMAIN m THEN w
                        ELSE [at |-> m[w.at].next, seen |-> Append(w.seen, w.at)]
             Body(g) == [i \in 0 .. N |-> IF i = 0 THEN Start ELSE Step(g[i - 1])]
             G == [i \in 0 .. N |-> IF i <= Len(q)
                                    THEN [at |-> PointerAt(q, i + 1), seen |-> SubSeq(q, 1, i)]
                                    ELSE [at |-> Null, seen |-> q]]
             W == CHOOSE g : g = Body(g)
  <1>1. ChainOf(m, a) = W[N].seen
    BY DEF ChainOf
  <1>2. N \in Nat /\ Len(q) \in 0 .. N
    BY ChainFits, FS_CardinalityType, QueueAssumption
  <1> HIDE DEF N
  <1>3. /\ q \in Seq(DOMAIN m)
        /\ a = PointerAt(q, 1)
        /\ \A i \in 1 .. Len(q) : q[i] \in DOMAIN m /\ m[q[i]].next = PointerAt(q, i + 1)
        /\ Null \notin DOMAIN m
    BY QueueAssumption DEF IsChain
  <1>4. /\ \A i \in 0 .. Len(q) : G[i] = [at |-> PointerAt(q, i + 1), seen |-> SubSeq(q, 1, i)]
        /\ \A i \in Len(q) + 1 .. N : G[i] = [at |-> Null, seen |-> q]
        /\ SubSeq(q, 1, Len(q)) = q /\ SubSeq(q, 1, 0) = << >>
        /\ \A i \in 1 .. Len(q) : SubSeq(q, 1, i) = Append(SubSeq(q, 1, i - 1), q[i])
    BY <1>2, <1>3
  <1> HIDE DEF G
  <1>5. G[0] = Start
    <2>1. 0 \in 0 .. Len(q) /\ 0 + 1 = 1
      BY <1>2
    <2> QED
      BY <2>1, <1>3, <1>4
  <1>6. ASSUME NEW i \in 1 .. N
        PROVE  G[i] = Step(G[i - 1])
    <2>1. CASE i <= Len(q)
      <3>1. G[i - 1] = [at |-> q[i], seen |-> SubSeq(q, 1, i - 1)]
        BY <1>2, <1>4, <2>1 DEF PointerAt
      <3>2. i \in 1 .. Len(q) /\ i \in 0 .. Len(q)
        BY <2>1, <1>2
      <3>3. q[i] \in DOMAIN m /\ m[q[i]].next = PointerAt(q, i + 1)
        BY <3>2, <1>3
      <3>4. Step(G[i - 1]) = [at |-> PointerAt(q, i + 1), seen |-> Append(SubSeq(q, 1, i - 1), q[i])]
        BY <3>1, <3>3
      <3> HIDE DEF Step
      <3> QED
        BY <3>2, <3>4, <1>4
    <2>2. CASE i > Len(q)
      <3>1. G[i - 1] = [at |-> Null, seen |-> q]
        BY <1>2, <1>4, <2>2 DEF PointerAt
      <3>2. Step(G[i - 1]) = G[i - 1]
        BY <3>1, <1>3
      <3> QED
        BY <3>1, <3>2, <1>2, <1>4, <2>2
    <2> QED
      BY <2>1, <2>2, <1>2
  <1>7. G = Body(G)
    <2>1. \A i \in 0 .. N : G[i] = IF i = 0 THEN Start ELSE Step(G[i - 1])
      BY <1>2, <1>5, <1>6
    <2>2. G = [i \in 0 .. N |-> G[i]]
      BY DEF G
    <2> HIDE DEF Start, Step
    <2> QED
      BY <2>1, <2>2
  <1>8. W = Body(W)
    BY <1>7
  <1> HIDE DEF W
  <1>9. W[0] = Start /\ \A i \in 1 .. N : W[i] = Step(W[i - 1])
    <2> HIDE DEF Start, Step
    <2> QED
      BY <1>8, <1>2
  <1> HIDE DEF Start, Step
  <1>10. W[N] = G[N]
    <2>1. W[0] = G[0] /\ \A i \in 1 .. N : W[i - 1] = G[i - 1] => W[i] = G[i]
      BY <1>5, <1>6, <1>9
    <2> QED
      BY <2>1, <1>2, SameSteps
  <1>11. G[N].seen = q
    <2>1. CASE N = Len(q)
      <3>1. N \in 0 .. Len(q)
        BY <1>2, <2>1
      <3>2. G[N] = [at |-> PointerAt(q, N + 1), seen |-> SubSeq(q, 1, N)]
        BY <3>1, <1>4
      <3>3. SubSeq(q, 1, N) = q
        BY <2>1, <1>4
      <3> QED
        BY <3>2, <3>3
    <2>2. CASE N # Len(q)
      <3>1. N \in Len(q) + 1 .. N
        BY <1>2, <2>2
      <3> QED
        BY <3>1, <1>4
    <2> QED
      BY <2>1, <2>2
  <1> QED
    BY <1>1, <1>10, <1>11

-----------------------------------------------------------------------------
(* What the invariant says of the lists.                                   *)

(* A chain stays one as long as its own nodes keep their links. *)
LEMMA ChainKept ==
    ASSUME NEW m, NEW n, NEW q, NEW a, IsChain(m, q, a),
           \A x \in ToSet(q) : x \in DOMAIN n /\ n[x].next = m[x].next
    PROVE  IsChain(n, q, a)
  <1>1. q \in Seq(DOMAIN m) /\ \A i \in 1 .. Len(q) : q[i] \in ToSet(q)
    BY DEF IsChain, ToSet
  <1>2. q \in Seq(DOMAIN n)
    BY <1>1
  <1>3. \A i \in 1 .. Len(q) : n[q[i]].next = m[q[i]].next
    BY <1>1
  <1> QED
    BY <1>2, <1>3 DEF IsChain

(* The lists and their first nodes are allocated. *)
LEMMA ListsPoint ==
    ASSUME NEW m, NEW h, NEW c, NEW pr, NEW s, NEW b, Lists(m, h, c, pr, s, b)
    PROVE  /\ ToSet(s) \subseteq DOMAIN m /\ ToSet(b) \subseteq DOMAIN m
           /\ ToSet(s) \cap NodesOf(pr) = {} /\ ToSet(b) \cap NodesOf(pr) = {}
           /\ h \in ToSet(s) \cup {Null} /\ c \in ToSet(b) \cup {Null}
           /\ NodesOf(pr) \subseteq DOMAIN m
  <1>1. ASSUME NEW q, NEW a, IsChain(m, q, a)
        PROVE  a \in ToSet(q) \cup {Null}
    <2>1. q \in Seq(DOMAIN m) /\ a = IF 1 <= Len(q) THEN q[1] ELSE Null
      BY <1>1 DEF IsChain, PointerAt
    <2>2. 1 <= Len(q) => q[1] \in ToSet(q)
      BY <2>1 DEF ToSet
    <2> QED
      BY <2>1, <2>2
  <1> QED
    BY <1>1 DEF Lists

(* Putting a node in front of a list, which CasSucceeds does. *)
LEMMA PushedChain ==
    ASSUME NEW m, NEW q, NEW a, IsChain(m, q, a),
           NEW n \in DOMAIN m, n \notin ToSet(q), m[n].next = a
    PROVE  IsChain(m, <<n>> \o q, n) /\ ToSet(<<n>> \o q) = ToSet(q) \cup {n}
  <1> DEFINE r == <<n>> \o q
  <1>1. /\ q \in Seq(DOMAIN m)
        /\ r \in Seq(DOMAIN m) /\ Len(r) = Len(q) + 1 /\ r[1] = n
        /\ \A i \in 1 .. Len(q) : r[i + 1] = q[i] /\ q[i] # n
    BY DEF IsChain, ToSet
  <1>2. \A i \in 2 .. Len(r) : i - 1 \in 1 .. Len(q) /\ r[i] = q[i - 1]
    <2> SUFFICES ASSUME NEW i \in 2 .. Len(r)
                 PROVE  i - 1 \in 1 .. Len(q) /\ r[i] = q[i - 1]
      OBVIOUS
    <2>1. i - 1 \in 1 .. Len(q) /\ (i - 1) + 1 = i
      BY <1>1
    <2> QED
      BY <1>1, <2>1
  <1> HIDE DEF r
  <1>3. \A i, j \in 1 .. Len(r) : r[i] = r[j] => i = j
    <2> SUFFICES ASSUME NEW i \in 1 .. Len(r), NEW j \in 1 .. Len(r), r[i] = r[j]
                 PROVE  i = j
      OBVIOUS
    <2>1. i \in 2 .. Len(r) /\ j \in 2 .. Len(r) => i = j
      <3> SUFFICES ASSUME i \in 2 .. Len(r), j \in 2 .. Len(r)
                   PROVE  i - 1 = j - 1
        BY <1>1
      <3> QED
        BY <1>2 DEF IsChain
    <2>2. i = 1 <=> j = 1
      BY <1>1, <1>2
    <2> QED
      BY <1>1, <2>1, <2>2
  <1>4. \A i \in 1 .. Len(r) : m[r[i]].next = PointerAt(r, i + 1)
    <2> SUFFICES ASSUME NEW i \in 1 .. Len(r)
                 PROVE  m[r[i]].next = PointerAt(r, i + 1)
      OBVIOUS
    <2>1. PointerAt(r, i + 1) = PointerAt(q, i)
      BY <1>1 DEF PointerAt
    <2>2. CASE i = 1
      BY <1>1, <2>1, <2>2 DEF IsChain
    <2>3. CASE i # 1
      <3>1. i - 1 \in 1 .. Len(q) /\ r[i] = q[i - 1] /\ (i - 1) + 1 = i
        BY <1>1, <1>2, <2>3
      <3>2. m[q[i - 1]].next = PointerAt(q, (i - 1) + 1)
        BY <3>1 DEF IsChain
      <3> QED
        BY <2>1, <3>1, <3>2
    <2> QED
      BY <2>2, <2>3
  <1>5. n = PointerAt(r, 1)
    BY <1>1 DEF PointerAt
  <1>6. ToSet(r) = ToSet(q) \cup {n}
    <2>1. ToSet(r) \subseteq ToSet(q) \cup {n}
      <3> SUFFICES ASSUME NEW i \in 1 .. Len(q) + 1
                   PROVE  r[i] \in ToSet(q) \cup {n}
        BY <1>1 DEF ToSet
      <3>1. CASE i = 1
        BY <1>1, <3>1
      <3>2. CASE i # 1
        <4>1. i - 1 \in 1 .. Len(q) /\ r[i] = q[i - 1]
          BY <1>1, <1>2, <3>2
        <4> QED
          BY <4>1 DEF ToSet
      <3> QED
        BY <3>1, <3>2
    <2>2. \A i \in 1 .. Len(q) : q[i] \in ToSet(r)
      <3> SUFFICES ASSUME NEW i \in 1 .. Len(q)
                   PROVE  q[i] \in ToSet(r)
        OBVIOUS
      <3>1. i + 1 \in DOMAIN r /\ r[i + 1] = q[i]
        BY <1>1
      <3> QED
        BY <3>1 DEF ToSet
    <2>3. 1 \in DOMAIN r
      BY <1>1
    <2>4. ToSet(q) \cup {n} \subseteq ToSet(r)
      BY <1>1, <2>2, <2>3 DEF ToSet
    <2> QED
      BY <2>1, <2>4
  <1>7. IsChain(m, r, n)
    BY <1>1, <1>3, <1>4, <1>5 DEF IsChain
  <1> QED
    BY <1>6, <1>7 DEF r

(* Taking the first node off a list, which Collect does. *)
LEMMA TailChain ==
    ASSUME NEW m, NEW q, NEW a, IsChain(m, q, a), a # Null
    PROVE  /\ a \in ToSet(q) /\ a \in DOMAIN m
           /\ q # << >> /\ a = q[1]
           /\ IsChain(m, Tail(q), m[a].next)
           /\ ToSet(Tail(q)) = ToSet(q) \ {a}
  <1>1. q \in Seq(DOMAIN m) /\ q # << >> /\ 1 \in 1 .. Len(q) /\ a = q[1]
    BY DEF IsChain, PointerAt
  <1> DEFINE r == Tail(q)
  <1>2. /\ r \in Seq(DOMAIN m) /\ Len(r) = Len(q) - 1
        /\ \A i \in 1 .. Len(r) : r[i] = q[i + 1] /\ i + 1 \in 1 .. Len(q)
    BY <1>1
  <1> HIDE DEF r
  <1>3. \A i, j \in 1 .. Len(r) : r[i] = r[j] => i = j
    <2> SUFFICES ASSUME NEW i \in 1 .. Len(r), NEW j \in 1 .. Len(r), r[i] = r[j]
                 PROVE  i + 1 = j + 1
      BY <1>2
    <2> QED
      BY <1>2 DEF IsChain
  <1>4. m[a].next = PointerAt(r, 1)
    <2>1. m[q[1]].next = PointerAt(q, 1 + 1)
      BY <1>1 DEF IsChain
    <2> QED
      BY <1>1, <1>2, <2>1 DEF PointerAt
  <1>5. \A i \in 1 .. Len(r) : m[r[i]].next = PointerAt(r, i + 1)
    <2> SUFFICES ASSUME NEW i \in 1 .. Len(r)
                 PROVE  m[r[i]].next = PointerAt(r, i + 1)
      OBVIOUS
    <2>1. m[q[i + 1]].next = PointerAt(q, (i + 1) + 1) /\ r[i] = q[i + 1]
      BY <1>2 DEF IsChain
    <2>2. PointerAt(q, (i + 1) + 1) = PointerAt(r, i + 1)
      BY <1>1, <1>2 DEF PointerAt
    <2> QED
      BY <2>1, <2>2
  <1>6. ToSet(r) = ToSet(q) \ {a}
    <2>1. \A x \in ToSet(r) : x \in ToSet(q) /\ x # a
      <3> SUFFICES ASSUME NEW i \in 1 .. Len(r)
                   PROVE  r[i] \in ToSet(q) /\ r[i] # a
        BY <1>2 DEF ToSet
      <3>1. r[i] = q[i + 1] /\ i + 1 \in 1 .. Len(q) /\ i + 1 # 1
        BY <1>2
      <3> QED
        BY <1>1, <3>1 DEF ToSet, IsChain
    <2>2. \A x \in ToSet(q) \ {a} : x \in ToSet(r)
      <3> SUFFICES ASSUME NEW i \in 1 .. Len(q), q[i] # a
                   PROVE  q[i] \in ToSet(r)
        BY <1>1 DEF ToSet
      <3>1. i - 1 \in 1 .. Len(r) /\ (i - 1) + 1 = i
        BY <1>1, <1>2
      <3>2. r[i - 1] = q[i]
        BY <1>2, <3>1
      <3> QED
        BY <1>2, <3>1, <3>2 DEF ToSet
    <2> QED
      BY <2>1, <2>2
  <1>7. IsChain(m, r, m[a].next)
    BY <1>2, <1>3, <1>4, <1>5 DEF IsChain
  <1>8. a \in ToSet(q) /\ a \in DOMAIN m
    BY <1>1 DEF ToSet
  <1> QED
    BY <1>1, <1>6, <1>7, <1>8 DEF r

(* The pushes under way stay the same pushes with the same nodes. *)
Kept(pr, pt) ==
    /\ PrivateOf(pt) = PrivateOf(pr)
    /\ \A p \in Producers : pt[p].sent = pr[p].sent
    /\ \A p \in PrivateOf(pr) : pt[p].node = pr[p].node

(* A step that moves no node from one list to another keeps the lists and  *)
(* what is known of the values.                                            *)
LEMMA KeptStep ==
    ASSUME TypeOK, Shape, Stamped, Kept(prod, prod'),
           DOMAIN mem' = DOMAIN mem,
           \A x \in DOMAIN mem : mem'[x].value = mem[x].value,
           \A x \in DOMAIN mem \ NodesOf(prod) : mem'[x].next = mem[x].next,
           head' = head, cons'.current = cons.current,
           \A i \in DOMAIN cons'.items : Old(prod, cons'.items[i]),
           \A i \in DOMAIN received' : Old(prod, received'[i]),
           \A i \in DOMAIN cons'.items : cons'.items[i] \in Items,
           \A i \in DOMAIN received' : received'[i] \in Items
    PROVE  Shape' /\ Stamped'
  <1>1. PICK s, b : Lists(mem, head, cons.current, prod, s, b)
    BY DEF Shape
  <1>2. NodesOf(prod') = NodesOf(prod)
    BY DEF Kept, NodesOf
  <1>3. IsChain(mem', s, head') /\ IsChain(mem', b, cons'.current)
    <2>1. \A x \in ToSet(s) \cup ToSet(b) : x \in DOMAIN mem' /\ mem'[x].next = mem[x].next
      BY <1>1, ListsPoint
    <2>2. IsChain(mem, s, head) /\ IsChain(mem, b, cons.current)
      BY <1>1 DEF Lists
    <2> QED
      BY <2>1, <2>2, ChainKept
  <1>4. Lists(mem', head', cons'.current, prod', s, b)
    BY <1>1, <1>2, <1>3 DEF Lists, Kept
  <1>5. Shape'
    BY <1>4 DEF Shape
  <1>6. ASSUME NEW v \in Items, Old(prod, v)
        PROVE  Old(prod', v)
    <2>1. v[1] \in Producers
      BY DEF Items
    <2> QED
      BY <1>6, <2>1 DEF Old, Kept
  <1>7. Stamped'
    <2>1. \A p \in PrivateOf(prod)' : mem'[prod'[p].node].value = <<p, prod'[p].sent>>
      <3> SUFFICES ASSUME NEW p \in PrivateOf(prod)
                   PROVE  mem'[prod'[p].node].value = <<p, prod'[p].sent>>
        BY DEF Kept
      <3>1. p \in Producers /\ prod[p].node \in DOMAIN mem
        BY <1>1, ListsPoint DEF NodesOf, PrivateOf
      <3> QED
        BY <3>1 DEF Stamped, Kept
    <2>2. \A x \in DOMAIN mem' \ NodesOf(prod') : Old(prod', mem'[x].value)
      <3> SUFFICES ASSUME NEW x \in DOMAIN mem, x \notin NodesOf(prod)
                   PROVE  Old(prod', mem'[x].value)
        BY <1>2
      <3>1. mem[x].value \in Items /\ Old(prod, mem[x].value)
        BY DEF Stamped, TypeOK
      <3> QED
        BY <3>1, <1>6
    <2> QED
      BY <1>6, <2>1, <2>2 DEF Stamped
  <1> QED
    BY <1>5, <1>7

-----------------------------------------------------------------------------
(* Each step preserves the invariant.                                      *)

LEMMA LoadHeadStep ==
    ASSUME IInv, NEW p \in Producers, LoadHead(p)
    PROVE  IInv'
  <1>1. /\ TypeOK /\ Shape /\ Linked /\ Resting /\ Stamped
        /\ p \in PrivateOf(prod) /\ prod[p].node \in NodesOf(prod)
    BY DEF IInv, LoadHead, PrivateOf, NodesOf
  <1>2. prod[p].node \in DOMAIN mem
    BY <1>1, ListsPoint DEF Shape
  <1>3. /\ prod' = [prod EXCEPT ![p].pc = "cas", ![p].expected = head]
        /\ mem' = [mem EXCEPT ![prod[p].node].next = head]
        /\ head' = head /\ cons' = cons /\ received' = received
        /\ wake' = wake /\ enqueued' = enqueued /\ drained' = drained
        /\ prod[p].pc = "load"
    BY DEF LoadHead
  <1>4. TypeOK'
    <2>1. head \in Pointers
      BY <1>1 DEF TypeOK, Pointers
    <2>2. prod' \in [Producers -> [pc : {"idle", "load", "cas", "count", "signal"},
                                  node : Pointers, expected : Pointers, sent : 0 .. MaxPushes]]
      <3>1. prod \in [Producers -> [pc : {"idle", "load", "cas", "count", "signal"},
                                   node : Pointers, expected : Pointers, sent : 0 .. MaxPushes]]
        BY <1>1 DEF TypeOK
      <3>2. prod' = [prod EXCEPT ![p] = [prod[p] EXCEPT !.pc = "cas", !.expected = head]]
        BY <1>3, <3>1
      <3>3. [prod[p] EXCEPT !.pc = "cas", !.expected = head]
              \in [pc : {"idle", "load", "cas", "count", "signal"},
                  node : Pointers, expected : Pointers, sent : 0 .. MaxPushes]
        BY <2>1, <3>1
      <3> QED
        BY <3>1, <3>2, <3>3
    <2>3. DOMAIN mem' = DOMAIN mem /\ mem' \in [DOMAIN mem -> [value : Items, next : Pointers]]
      BY <1>1, <1>2, <1>3, <2>1 DEF TypeOK
    <2> QED
      BY <1>1, <1>3, <2>2, <2>3 DEF TypeOK
  <1>5. Kept(prod, prod')
    BY <1>1, <1>3 DEF Kept, PrivateOf, TypeOK
  <1>6. /\ DOMAIN mem' = DOMAIN mem
        /\ \A x \in DOMAIN mem : mem'[x].value = mem[x].value
        /\ \A x \in DOMAIN mem \ NodesOf(prod) : mem'[x].next = mem[x].next
    BY <1>1, <1>2, <1>3 DEF TypeOK
  <1>7. Shape' /\ Stamped'
    <2>1. /\ \A i \in DOMAIN cons'.items : Old(prod, cons'.items[i]) /\ cons'.items[i] \in Items
          /\ \A i \in DOMAIN received' : Old(prod, received'[i]) /\ received'[i] \in Items
      BY <1>1, <1>3 DEF Stamped, TypeOK
    <2> QED
      BY <1>1, <1>3, <1>5, <1>6, <2>1, KeptStep
  <1>8. Linked'
    <2> SUFFICES ASSUME NEW q \in Producers, prod'[q].pc = "cas"
                 PROVE  mem'[prod'[q].node].next = prod'[q].expected
      BY DEF Linked
    <2>1. CASE q = p
      BY <1>1, <1>2, <1>3, <2>1 DEF TypeOK
    <2>2. CASE q # p
      <3>1. prod'[q] = prod[q] /\ q \in PrivateOf(prod)
        BY <1>1, <1>3, <2>2 DEF TypeOK, PrivateOf
      <3>2. prod[q].node # prod[p].node /\ prod[q].node \in DOMAIN mem
        BY <1>1, <2>2, <3>1, ListsPoint DEF Shape, Lists, NodesOf
      <3> QED
        BY <1>1, <1>3, <3>1, <3>2 DEF Linked, TypeOK
    <2> QED
      BY <2>1, <2>2
  <1>9. Resting'
    BY <1>1, <1>3 DEF Resting
  <1> QED
    BY <1>4, <1>7, <1>8, <1>9 DEF IInv

(* The steps of a push after its link is made, and the wake flag. *)
LEMMA QuietStep ==
    ASSUME IInv,
           \/ \E p \in Producers : CasFails(p) \/ CountPush(p) \/ Signal(p)
           \/ ClearWake
    PROVE  IInv'
  <1>1. /\ TypeOK /\ Shape /\ Linked /\ Resting /\ Stamped
        /\ head' = head /\ mem' = mem /\ received' = received /\ drained' = drained
        /\ cons'.current = cons.current /\ cons'.items = cons.items
    BY DEF IInv, CasFails, CountPush, Signal, ClearWake, TypeOK
  <1>2. TypeOK'
    <2>1. ASSUME NEW p \in Producers, CasFails(p)
          PROVE  TypeOK'
      <3>1. prod' \in [Producers -> [pc : {"idle", "load", "cas", "count", "signal"},
                                     node : Pointers, expected : Pointers,
                                     sent : 0 .. MaxPushes]]
        BY <1>1, <2>1 DEF TypeOK, CasFails
      <3> QED
        BY <1>1, <2>1, <3>1 DEF TypeOK, CasFails
    <2>2. ASSUME NEW p \in Producers, CountPush(p)
          PROVE  TypeOK'
      <3>1. prod' \in [Producers -> [pc : {"idle", "load", "cas", "count", "signal"},
                                     node : Pointers, expected : Pointers,
                                     sent : 0 .. MaxPushes]]
        BY <1>1, <2>2 DEF TypeOK, CountPush
      <3>2. wake' = wake /\ cons' = cons /\ enqueued' \in Nat
        BY <1>1, <2>2 DEF TypeOK, CountPush
      <3> QED
        BY <1>1, <3>1, <3>2 DEF TypeOK
    <2>3. ASSUME NEW p \in Producers, Signal(p)
          PROVE  TypeOK'
      BY <1>1, <2>3 DEF TypeOK, Signal, Idle, Pointers
    <2>4. CASE ClearWake
      <3>1. /\ cons' \in [pc : {"idle", "clear", "walk"}, current : DOMAIN mem \cup {Null},
                           items : Seq(Items)]
            /\ wake' \in BOOLEAN /\ prod' = prod /\ enqueued' = enqueued
        BY <1>1, <2>4 DEF TypeOK, ClearWake
      <3> QED
        BY <1>1, <3>1 DEF TypeOK
    <2> QED
      BY <2>1, <2>2, <2>3, <2>4
  <1>3. Kept(prod, prod')
    <2>1. ASSUME NEW p \in Producers, CasFails(p) \/ CountPush(p) \/ Signal(p)
          PROVE  Kept(prod, prod')
      <3>1. /\ \A q \in Producers \ {p} : prod'[q] = prod[q]
            /\ prod'[p].sent = prod[p].sent
            /\ prod'[p].pc \in {"load", "cas"} <=> prod[p].pc \in {"load", "cas"}
            /\ prod'[p].pc \in {"load", "cas"} => prod'[p].node = prod[p].node
        BY <1>1, <2>1 DEF TypeOK, CasFails, CountPush, Signal, Idle
      <3> QED
        BY <3>1 DEF Kept, PrivateOf
    <2>2. CASE ClearWake
      BY <1>1, <2>2 DEF Kept, PrivateOf, ClearWake
    <2> QED
      BY <2>1, <2>2
  <1>4. Shape' /\ Stamped'
    <2>1. /\ \A i \in DOMAIN cons'.items : Old(prod, cons'.items[i]) /\ cons'.items[i] \in Items
          /\ \A i \in DOMAIN received' : Old(prod, received'[i]) /\ received'[i] \in Items
      BY <1>1 DEF Stamped, TypeOK
    <2> QED
      BY <1>1, <1>3, <2>1, KeptStep
  <1>5. Linked'
    <2> SUFFICES ASSUME NEW q \in Producers, prod'[q].pc = "cas"
                 PROVE  prod'[q] = prod[q]
      BY <1>1 DEF Linked
    <2> QED
      BY <1>1 DEF CasFails, CountPush, Signal, ClearWake, Idle, TypeOK
  <1>6. Resting'
    BY <1>1 DEF Resting, CasFails, CountPush, Signal, ClearWake, TypeOK
  <1> QED
    BY <1>2, <1>4, <1>5, <1>6 DEF IInv

(* What Reverse returns. *)
LEMMA ReverseIs ==
    ASSUME NEW S, NEW q \in Seq(S)
    PROVE  /\ Reverse(q) \in Seq(S) /\ Len(Reverse(q)) = Len(q)
           /\ \A i \in 1 .. Len(q) : /\ Reverse(q)[i] = q[Len(q) - i + 1]
                                    /\ Len(q) - i + 1 \in 1 .. Len(q)
  BY DEF Reverse

LEMMA ReturnStep ==
    ASSUME IInv, Return
    PROVE  IInv'
  <1>1. /\ TypeOK /\ Shape /\ Linked /\ Resting /\ Stamped
        /\ head' = head /\ mem' = mem /\ wake' = wake /\ enqueued' = enqueued
        /\ prod' = prod /\ received' = received \o Reverse(cons.items)
        /\ drained' = drained + Len(cons.items)
        /\ cons' = [cons EXCEPT !.pc = "idle", !.items = << >>]
        /\ cons.current = Null
    BY DEF IInv, Return
  <1> DEFINE r == Reverse(cons.items)
  <1>2. /\ cons.items \in Seq(Items) /\ received \in Seq(Items)
        /\ cons \in [pc : {"idle", "clear", "walk"}, current : DOMAIN mem \cup {Null},
                     items : Seq(Items)]
        /\ drained \in Nat /\ Len(cons.items) \in Nat
    BY <1>1 DEF TypeOK
  <1>3. /\ r \in Seq(Items) /\ Len(r) = Len(cons.items)
        /\ \A i \in DOMAIN r : \E j \in DOMAIN cons.items : r[i] = cons.items[j]
    BY <1>2, ReverseIs
  <1> HIDE DEF r
  <1>4. /\ received' = received \o r /\ received' \in Seq(Items)
        /\ \A i \in DOMAIN received' :
              \/ \E j \in DOMAIN received : received'[i] = received[j]
              \/ \E j \in DOMAIN r : received'[i] = r[j]
    <2>1. received' = received \o r
      BY <1>1 DEF r
    <2>4. received' \in Seq(Items)
      BY <1>2, <1>3, <2>1
    <2> SUFFICES ASSUME NEW i \in DOMAIN received'
                 PROVE  \/ \E j \in DOMAIN received : received'[i] = received[j]
                        \/ \E j \in DOMAIN r : received'[i] = r[j]
      BY <2>1, <2>4
    <2>2. CASE i <= Len(received)
      <3>1. i \in DOMAIN received /\ received'[i] = received[i]
        BY <1>2, <1>3, <2>1, <2>2
      <3> QED
        BY <3>1
    <2>3. CASE i > Len(received)
      <3>1. i - Len(received) \in DOMAIN r /\ received'[i] = r[i - Len(received)]
        BY <1>2, <1>3, <2>1, <2>3
      <3> QED
        BY <3>1
    <2> QED
      BY <1>2, <1>3, <2>1, <2>2, <2>3
  <1>5. TypeOK'
    <2>1. /\ cons' \in [pc : {"idle", "clear", "walk"}, current : DOMAIN mem \cup {Null},
                        items : Seq(Items)]
      <3>1. << >> \in Seq(Items)
        OBVIOUS
      <3>2. cons' = [pc |-> "idle", current |-> cons.current, items |-> << >>]
        BY <1>1, <1>2
      <3> QED
        BY <1>2, <3>1, <3>2
    <2>2. drained' \in Nat
      BY <1>1, <1>2
    <2> QED
      BY <1>1, <1>4, <2>1, <2>2 DEF TypeOK
  <1>6. Shape' /\ Stamped'
    <2>1. \A i \in DOMAIN r : Old(prod, r[i])
      BY <1>1, <1>3 DEF Stamped
    <2>2. \A i \in DOMAIN received' : Old(prod, received'[i]) /\ received'[i] \in Items
      BY <1>1, <1>4, <2>1 DEF Stamped
    <2>3. cons'.items = << >> /\ cons'.current = cons.current
      BY <1>1, <1>2
    <2>4. Kept(prod, prod')
      BY <1>1 DEF Kept
    <2> QED
      BY <1>1, <2>2, <2>3, <2>4, KeptStep
  <1>7. Linked' /\ Resting'
    BY <1>1, <1>2 DEF Linked, Resting
  <1> QED
    BY <1>5, <1>6, <1>7 DEF IInv

(* The swap that takes the shared list: the consumer had finished with the *)
(* one before.                                                             *)
LEMMA SwapHeadStep ==
    ASSUME IInv, SwapHead
    PROVE  IInv'
  <1>1. /\ TypeOK /\ Shape /\ Linked /\ Resting /\ Stamped
        /\ head' = Null /\ UNCHANGED <<wake, mem, enqueued, drained, prod, received>>
        /\ cons' = [cons EXCEPT !.pc = "clear", !.current = head]
        /\ cons.current = Null
    BY DEF IInv, SwapHead, Resting
  <1>2. PICK s, b : Lists(mem, head, cons.current, prod, s, b)
    BY <1>1 DEF Shape
  <1>3. /\ cons \in [pc : {"idle", "clear", "walk"}, current : DOMAIN mem \cup {Null},
                     items : Seq(Items)]
        /\ head \in DOMAIN mem \cup {Null} /\ Null \notin DOMAIN mem
    BY <1>1, QueueAssumption DEF TypeOK
  <1>4. b = << >>
    <2>1. b \in Seq(DOMAIN mem) /\ Null = IF 1 <= Len(b) THEN b[1] ELSE Null
      BY <1>1, <1>2 DEF Lists, IsChain, PointerAt
    <2>2. ~(1 <= Len(b))
      BY <2>1, <1>3
    <2> QED
      BY <2>1, <2>2
  <1>5. /\ TypeOK' /\ Linked' /\ Resting' /\ cons'.current = head /\ cons'.items = cons.items
    <2>1. cons' \in [pc : {"idle", "clear", "walk"}, current : DOMAIN mem \cup {Null},
                     items : Seq(Items)]
      BY <1>1, <1>3
    <2> QED
      BY <1>1, <1>3, <2>1, IInv DEF TypeOK, Linked, Resting, SwapHead
  <1>6. Stamped'
    BY <1>1, <1>5 DEF Stamped
  <1>7. Lists(mem', head', cons'.current, prod', << >>, s)
    <2>1. ToSet(<< >>) = {} /\ << >> \in Seq(DOMAIN mem) /\ Len(<< >>) = 0
      BY DEF ToSet
    <2>2. IsChain(mem, << >>, Null)
      BY <2>1 DEF IsChain, PointerAt
    <2> QED
      BY <1>1, <1>2, <1>4, <1>5, <2>1, <2>2 DEF Lists
  <1>8. Shape'
    BY <1>7 DEF Shape
  <1> QED
    BY <1>5, <1>6, <1>8 DEF IInv

(* A new node is in no list, whoever used its address before. *)
LEMMA AllocateStep ==
    ASSUME IInv, NEW p \in Producers, Allocate(p)
    PROVE  IInv'
  <1>1. /\ TypeOK /\ Shape /\ Linked /\ Resting /\ Stamped
        /\ UNCHANGED <<head, wake, enqueued, drained, cons, received>>
        /\ prod[p].pc = "idle" /\ prod[p].sent < MaxPushes
    BY DEF IInv, Allocate
  <1>2. PICK a \in Addrs \ DOMAIN mem :
           /\ mem' = [b \in DOMAIN mem \cup {a} |->
                         IF b = a THEN [value |-> <<p, prod[p].sent + 1>>, next |-> Null]
                         ELSE mem[b]]
           /\ prod' = [prod EXCEPT ![p] = [pc |-> "load", node |-> a, expected |-> Null,
                                           sent |-> prod[p].sent + 1]]
    BY DEF Allocate
  <1>3. PICK s, b : Lists(mem, head, cons.current, prod, s, b)
    BY <1>1 DEF Shape
  <1>4. /\ prod[p].sent \in Nat /\ prod[p].sent + 1 \in 1 .. MaxPushes
        /\ \A q \in Producers : prod[q].sent \in Nat
    BY <1>1, QueueAssumption DEF TypeOK
  <1>5. /\ prod'[p] = [pc |-> "load", node |-> a, expected |-> Null, sent |-> prod[p].sent + 1]
        /\ \A q \in Producers \ {p} : prod'[q] = prod[q]
    BY <1>1, <1>2 DEF TypeOK
  <1>6. /\ DOMAIN mem' = DOMAIN mem \cup {a}
        /\ mem'[a] = [value |-> <<p, prod[p].sent + 1>>, next |-> Null]
        /\ \A x \in DOMAIN mem : mem'[x] = mem[x] /\ x # a
    BY <1>2
  <1>7. /\ PrivateOf(prod') = PrivateOf(prod) \cup {p} /\ p \notin PrivateOf(prod)
        /\ NodesOf(prod') = NodesOf(prod) \cup {a}
    <2>1. PrivateOf(prod') = PrivateOf(prod) \cup {p} /\ p \notin PrivateOf(prod)
      BY <1>1, <1>5 DEF PrivateOf
    <2>2. /\ prod'[p].node = a
          /\ \A q \in PrivateOf(prod) : prod'[q].node = prod[q].node
      BY <1>5, <2>1 DEF PrivateOf
    <2> QED
      BY <2>1, <2>2 DEF NodesOf
  <1>8. TypeOK'
    <2>1. <<p, prod[p].sent + 1>> \in Items
      BY <1>4 DEF Items
    <2>2. /\ DOMAIN mem' \subseteq Addrs
          /\ mem' \in [DOMAIN mem' -> [value : Items, next : Pointers]]
      BY <1>1, <1>2, <1>6, <2>1 DEF TypeOK, Pointers
    <2>3. prod' \in [Producers -> [pc : {"idle", "load", "cas", "count", "signal"},
                                   node : Pointers, expected : Pointers,
                                   sent : 0 .. MaxPushes]]
      BY <1>1, <1>2, <1>4 DEF TypeOK, Pointers
    <2>4. /\ head' \in DOMAIN mem' \cup {Null} /\ wake' \in BOOLEAN /\ {enqueued, drained}' \subseteq Nat
          /\ received' \in Seq(Items)
      BY <1>1, <1>6 DEF TypeOK
    <2>5. cons' \in [pc : {"idle", "clear", "walk"}, current : DOMAIN mem' \cup {Null},
                    items : Seq(Items)]
      BY <1>1, <1>6 DEF TypeOK
    <2> QED
      BY <2>2, <2>3, <2>4, <2>5 DEF TypeOK
  <1>9. Lists(mem', head', cons'.current, prod', s, b)
    <2>1. IsChain(mem', s, head') /\ IsChain(mem', b, cons'.current)
      <3>1. IsChain(mem, s, head') /\ IsChain(mem, b, cons'.current)
        BY <1>1, <1>3 DEF Lists
      <3>2. \A x \in ToSet(s) \cup ToSet(b) : x \in DOMAIN mem' /\ mem'[x].next = mem[x].next
        BY <1>3, <1>6, ListsPoint
      <3> QED
        BY <3>1, <3>2, ChainKept
    <2>2. \A q, r \in PrivateOf(prod') : prod'[q].node = prod'[r].node => q = r
      <3>1. \A q \in PrivateOf(prod) : prod[q].node # a
        BY <1>3, <1>6, ListsPoint DEF NodesOf
      <3>2. \A q \in PrivateOf(prod) : prod'[q].node = prod[q].node
        BY <1>5, <1>7 DEF PrivateOf
      <3>3. prod'[p].node = a
        BY <1>5
      <3> QED
        BY <1>3, <1>7, <3>1, <3>2, <3>3 DEF Lists
    <2>3. a \notin ToSet(s) \cup ToSet(b)
      BY <1>3, <1>6, ListsPoint
    <2> QED
      BY <1>3, <1>6, <1>7, <2>1, <2>2, <2>3 DEF Lists
  <1>10. Linked'
    <2> SUFFICES ASSUME NEW q \in Producers, prod'[q].pc = "cas"
                 PROVE  mem'[prod'[q].node].next = prod'[q].expected
      BY DEF Linked
    <2>1. q # p /\ prod'[q] = prod[q] /\ q \in PrivateOf(prod)
      BY <1>5 DEF PrivateOf
    <2>2. prod[q].node \in DOMAIN mem
      BY <1>3, <2>1, ListsPoint DEF NodesOf
    <2> QED
      BY <1>1, <1>6, <2>1, <2>2 DEF Linked
  <1>11. Stamped'
    <2>1. ASSUME NEW v \in Items, Old(prod, v)
          PROVE  Old(prod', v)
      <3>1. v[1] \in Producers /\ v[2] \in Nat
        BY DEF Items
      <3>2. CASE v[1] = p
        BY <1>4, <1>5, <2>1, <3>1, <3>2 DEF Old
      <3>3. CASE v[1] # p
        BY <1>5, <1>7, <2>1, <3>1, <3>3 DEF Old
      <3> QED
        BY <3>2, <3>3
    <2>2. \A q \in PrivateOf(prod') : mem'[prod'[q].node].value = <<q, prod'[q].sent>>
      <3>1. mem'[prod'[p].node].value = <<p, prod'[p].sent>>
        BY <1>5, <1>6
      <3>2. ASSUME NEW q \in PrivateOf(prod)
            PROVE  mem'[prod'[q].node].value = <<q, prod'[q].sent>>
        <4>1. prod'[q] = prod[q]
          BY <1>5, <1>7 DEF PrivateOf
        <4>2. prod[q].node \in DOMAIN mem
          BY <1>3, ListsPoint DEF NodesOf
        <4> QED
          BY <1>1, <1>6, <4>1, <4>2 DEF Stamped
      <3> QED
        BY <1>7, <3>1, <3>2
    <2>3. \A x \in DOMAIN mem' \ NodesOf(prod') : Old(prod', mem'[x].value)
      <3> SUFFICES ASSUME NEW x \in DOMAIN mem, x \notin NodesOf(prod)
                   PROVE  Old(prod', mem'[x].value)
        BY <1>6, <1>7
      <3>1. mem[x].value \in Items /\ Old(prod, mem[x].value)
        BY <1>1 DEF Stamped, TypeOK
      <3> QED
        BY <1>6, <2>1, <3>1
    <2>4. /\ \A i \in DOMAIN cons'.items : Old(prod', cons'.items[i])
          /\ \A i \in DOMAIN received' : Old(prod', received'[i])
      <3>1. /\ \A i \in DOMAIN cons.items : Old(prod, cons.items[i]) /\ cons.items[i] \in Items
            /\ \A i \in DOMAIN received : Old(prod, received[i]) /\ received[i] \in Items
        BY <1>1 DEF Stamped, TypeOK
      <3> QED
        BY <1>1, <2>1, <3>1
    <2> QED
      BY <2>2, <2>3, <2>4 DEF Stamped
  <1>12. Resting'
    BY <1>1 DEF Resting
  <1> QED
    BY <1>8, <1>9, <1>10, <1>11, <1>12 DEF IInv, Shape

(* The node of the push becomes the first of the shared list.  It was      *)
(* linked to the head that the compare-and-swap has just found, so what it *)
(* points to is that list, even if the head has changed and come back.     *)
LEMMA CasSucceedsLists ==
    ASSUME IInv, NEW p \in Producers, CasSucceeds(p),
           NEW s, NEW b, Lists(mem, head, cons.current, prod, s, b)
    PROVE  /\ PrivateOf(prod') = PrivateOf(prod) \ {p} /\ p \in PrivateOf(prod)
           /\ NodesOf(prod') = NodesOf(prod) \ {prod[p].node}
           /\ prod[p].node \in DOMAIN mem
           /\ Lists(mem', head', cons'.current, prod', <<prod[p].node>> \o s, b)
  <1> DEFINE n == prod[p].node
  <1>1. /\ TypeOK /\ Linked
        /\ head' = n /\ mem' = mem /\ cons' = cons
        /\ prod' = [prod EXCEPT ![p].pc = "count"]
        /\ prod[p].pc = "cas" /\ head = prod[p].expected
        /\ p \in PrivateOf(prod)
    BY DEF IInv, CasSucceeds, PrivateOf
  <1>2. /\ prod'[p].pc = "count"
        /\ \A q \in Producers \ {p} : prod'[q] = prod[q]
    BY <1>1 DEF TypeOK
  <1>3. PrivateOf(prod') = PrivateOf(prod) \ {p}
    BY <1>2 DEF PrivateOf
  <1>4. \A q \in PrivateOf(prod') : q # p /\ prod'[q] = prod[q]
    BY <1>2, <1>3 DEF PrivateOf
  <1>5. \A q, r \in PrivateOf(prod) : prod[q].node = prod[r].node => q = r
    BY DEF Lists
  <1> HIDE DEF n
  <1>6. NodesOf(prod') = NodesOf(prod) \ {n}
    <2>1. NodesOf(prod') \subseteq NodesOf(prod) \ {n}
      <3> SUFFICES ASSUME NEW q \in PrivateOf(prod')
                   PROVE  prod'[q].node \in NodesOf(prod) /\ prod'[q].node # n
        BY DEF NodesOf
      <3>1. q \in PrivateOf(prod) /\ q # p /\ prod'[q] = prod[q]
        BY <1>3, <1>4
      <3> QED
        BY <1>1, <1>5, <3>1 DEF NodesOf, n
    <2>2. NodesOf(prod) \ {n} \subseteq NodesOf(prod')
      BY <1>1, <1>3, <1>4 DEF NodesOf, n
    <2> QED
      BY <2>1, <2>2
  <1>7. n \in NodesOf(prod) /\ n \in DOMAIN mem /\ n \notin ToSet(s) \cup ToSet(b)
    <2>1. n \in NodesOf(prod)
      BY <1>1 DEF n, NodesOf
    <2> QED
      BY <2>1, ListsPoint
  <1>8. IsChain(mem, <<n>> \o s, n) /\ ToSet(<<n>> \o s) = ToSet(s) \cup {n}
    <2>1. mem[n].next = head
      BY <1>1 DEF Linked, n
    <2>2. IsChain(mem, s, head)
      BY DEF Lists
    <2> QED
      BY <1>7, <2>1, <2>2, PushedChain
  <1> DEFINE t == <<n>> \o s
  <1> HIDE DEF t
  <1>9. Lists(mem', head', cons'.current, prod', t, b)
    <2>1. IsChain(mem, t, n) /\ ToSet(t) = ToSet(s) \cup {n}
      BY <1>8 DEF t
    <2>2. /\ IsChain(mem, b, cons.current)
          /\ ToSet(t) \cap ToSet(b) = {}
          /\ NodesOf(prod') \cap (ToSet(t) \cup ToSet(b)) = {}
          /\ DOMAIN mem = NodesOf(prod') \cup ToSet(t) \cup ToSet(b)
      BY <1>6, <1>7, <2>1 DEF Lists
    <2>3. \A q, r \in PrivateOf(prod') : prod'[q].node = prod'[r].node => q = r
      BY <1>3, <1>4, <1>5
    <2> QED
      BY <1>1, <2>1, <2>2, <2>3 DEF Lists, n
  <1> QED
    BY <1>1, <1>3, <1>6, <1>7, <1>9 DEF n, t

LEMMA CasSucceedsStep ==
    ASSUME IInv, NEW p \in Producers, CasSucceeds(p)
    PROVE  IInv'
  <1>1. /\ TypeOK /\ Shape /\ Linked /\ Resting /\ Stamped
        /\ head' = prod[p].node
        /\ UNCHANGED <<wake, mem, enqueued, drained, cons, received>>
        /\ prod' = [prod EXCEPT ![p].pc = "count"]
    BY DEF IInv, CasSucceeds
  <1>2. PICK s, b : Lists(mem, head, cons.current, prod, s, b)
    BY <1>1 DEF Shape
  <1>3. /\ PrivateOf(prod') = PrivateOf(prod) \ {p} /\ p \in PrivateOf(prod)
        /\ NodesOf(prod') = NodesOf(prod) \ {prod[p].node}
        /\ prod[p].node \in DOMAIN mem
        /\ Lists(mem', head', cons'.current, prod', <<prod[p].node>> \o s, b)
    BY <1>2, CasSucceedsLists
  <1>4. /\ prod'[p].pc = "count"
        /\ \A q \in Producers \ {p} : prod'[q] = prod[q]
        /\ \A q \in Producers : prod'[q].sent = prod[q].sent /\ prod[q].sent \in Nat
    BY <1>1 DEF TypeOK
  <1>5. Shape'
    BY <1>3 DEF Shape
  <1>6. TypeOK'
    <2>1. prod' \in [Producers -> [pc : {"idle", "load", "cas", "count", "signal"},
                                   node : Pointers, expected : Pointers,
                                   sent : 0 .. MaxPushes]]
      BY <1>1 DEF TypeOK
    <2>2. head' \in DOMAIN mem' \cup {Null}
      BY <1>1, <1>3
    <2> QED
      BY <1>1, <2>1, <2>2 DEF TypeOK
  <1>7. Linked'
    <2> SUFFICES ASSUME NEW q \in Producers, prod'[q].pc = "cas"
                 PROVE  prod'[q] = prod[q]
      BY <1>1 DEF Linked
    <2> QED
      BY <1>4
  <1>8. Stamped'
    <2>1. ASSUME NEW v \in Items, Old(prod, v)
          PROVE  Old(prod', v)
      <3>1. v[1] \in Producers /\ v[2] \in Nat
        BY DEF Items
      <3> QED
        BY <1>3, <1>4, <2>1, <3>1 DEF Old
    <2>2. \A q \in PrivateOf(prod') : mem'[prod'[q].node].value = <<q, prod'[q].sent>>
      <3> SUFFICES ASSUME NEW q \in PrivateOf(prod), q # p
                   PROVE  mem'[prod'[q].node].value = <<q, prod'[q].sent>>
        BY <1>3
      <3>1. prod'[q] = prod[q]
        BY <1>4 DEF PrivateOf
      <3> QED
        BY <1>1, <3>1 DEF Stamped
    <2>3. \A x \in DOMAIN mem' \ NodesOf(prod') : Old(prod', mem'[x].value)
      <3> SUFFICES ASSUME NEW x \in DOMAIN mem, x \notin NodesOf(prod')
                   PROVE  Old(prod', mem[x].value)
        BY <1>1
      <3>1. CASE x = prod[p].node
        <4>1. mem[x].value = <<p, prod[p].sent>>
          BY <1>1, <1>3, <3>1 DEF Stamped
        <4> QED
          BY <1>3, <1>4, <4>1 DEF Old
      <3>2. CASE x # prod[p].node
        <4>1. mem[x].value \in Items /\ Old(prod, mem[x].value)
          BY <1>1, <1>3, <3>2 DEF Stamped, TypeOK
        <4> QED
          BY <2>1, <4>1
      <3> QED
        BY <3>1, <3>2
    <2>4. /\ \A i \in DOMAIN cons'.items : Old(prod', cons'.items[i])
          /\ \A i \in DOMAIN received' : Old(prod', received'[i])
      <3>1. /\ \A i \in DOMAIN cons.items : Old(prod, cons.items[i]) /\ cons.items[i] \in Items
            /\ \A i \in DOMAIN received : Old(prod, received[i]) /\ received[i] \in Items
        BY <1>1 DEF Stamped, TypeOK
      <3> QED
        BY <1>1, <2>1, <3>1
    <2> QED
      BY <2>2, <2>3, <2>4 DEF Stamped
  <1>9. Resting'
    BY <1>1 DEF Resting
  <1> QED
    BY <1>5, <1>6, <1>7, <1>8, <1>9 DEF IInv

(* The node that the drain frees is the first of the list being drained,   *)
(* and nothing else points at it that is still followed.                   *)
LEMMA CollectLists ==
    ASSUME IInv, Collect, NEW s, NEW b, Lists(mem, head, cons.current, prod, s, b)
    PROVE  /\ cons.current \in ToSet(b) /\ cons.current \in DOMAIN mem
           /\ b # << >> /\ cons.current = b[1]
           /\ Lists(mem', head', cons'.current, prod', s, Tail(b))
  <1> DEFINE x == cons.current
             t == Tail(b)
  <1>1. /\ TypeOK /\ x # Null
        /\ mem' = [c \in DOMAIN mem \ {x} |-> mem[c]]
        /\ cons'.current = mem[x].next
        /\ UNCHANGED <<head, prod>>
    BY DEF IInv, Collect, TypeOK
  <1>2. IsChain(mem, s, head) /\ IsChain(mem, b, x)
    BY DEF Lists
  <1>3. /\ x \in ToSet(b) /\ x \in DOMAIN mem /\ b # << >> /\ x = b[1]
        /\ IsChain(mem, t, mem[x].next)
        /\ ToSet(t) = ToSet(b) \ {x}
    BY <1>1, <1>2, TailChain
  <1> HIDE DEF x, t
  <1>4. x \notin ToSet(s) \cup NodesOf(prod)
    BY <1>3 DEF Lists
  <1>5. /\ DOMAIN mem' = DOMAIN mem \ {x}
        /\ \A c \in DOMAIN mem \ {x} : mem'[c] = mem[c]
    BY <1>1
  <1>6. IsChain(mem', s, head') /\ IsChain(mem', t, cons'.current)
    <2>1. \A c \in ToSet(s) \cup ToSet(t) : c \in DOMAIN mem' /\ mem'[c].next = mem[c].next
      BY <1>3, <1>4, <1>5, ListsPoint
    <2>2. IsChain(mem', s, head)
      BY <1>2, <2>1, ChainKept
    <2>3. IsChain(mem', t, mem[x].next)
      BY <1>3, <2>1, ChainKept
    <2> QED
      BY <1>1, <2>2, <2>3
  <1>7. Lists(mem', head', cons'.current, prod', s, t)
    BY <1>1, <1>3, <1>4, <1>5, <1>6 DEF Lists
  <1> QED
    BY <1>3, <1>7 DEF x, t

LEMMA CollectStep ==
    ASSUME IInv, Collect
    PROVE  IInv'
  <1>1. /\ TypeOK /\ Shape /\ Linked /\ Resting /\ Stamped
        /\ UNCHANGED <<head, wake, enqueued, drained, prod, received>>
        /\ cons.pc = "walk" /\ cons.current # Null
        /\ cons' = [cons EXCEPT !.current = mem[cons.current].next,
                                !.items = Append(cons.items, mem[cons.current].value)]
        /\ mem' = [c \in DOMAIN mem \ {cons.current} |-> mem[c]]
    BY DEF IInv, Collect
  <1>2. PICK s, b : Lists(mem, head, cons.current, prod, s, b)
    BY <1>1 DEF Shape
  <1>3. /\ cons.current \in ToSet(b) /\ cons.current \in DOMAIN mem
        /\ Lists(mem', head', cons'.current, prod', s, Tail(b))
    BY <1>2, CollectLists
  <1>4. cons.current \notin NodesOf(prod) /\ NodesOf(prod) \subseteq DOMAIN mem
    BY <1>2, <1>3, ListsPoint
  <1>5. /\ DOMAIN mem' = DOMAIN mem \ {cons.current}
        /\ \A c \in DOMAIN mem \ {cons.current} : mem'[c] = mem[c]
    BY <1>1
  <1>6. /\ cons'.pc = "walk"
        /\ cons'.items = Append(cons.items, mem[cons.current].value)
        /\ cons.items \in Seq(Items) /\ mem[cons.current].value \in Items
        /\ cons'.items \in Seq(Items)
    BY <1>1, <1>3 DEF TypeOK
  <1>7. TypeOK'
    <2>1. head' \in DOMAIN mem' \cup {Null} /\ cons'.current \in DOMAIN mem' \cup {Null}
      BY <1>3, ListsPoint
    <2>2. cons' \in [pc : {"idle", "clear", "walk"}, current : DOMAIN mem' \cup {Null},
                    items : Seq(Items)]
      BY <1>1, <1>6, <2>1 DEF TypeOK
    <2>3. /\ DOMAIN mem' \subseteq Addrs
          /\ mem' \in [DOMAIN mem' -> [value : Items, next : Pointers]]
      BY <1>1, <1>5 DEF TypeOK
    <2> QED
      BY <1>1, <2>1, <2>2, <2>3 DEF TypeOK
  <1>8. Shape'
    BY <1>3 DEF Shape
  <1>9. Linked'
    <2> SUFFICES ASSUME NEW q \in Producers, prod[q].pc = "cas"
                 PROVE  mem'[prod[q].node].next = prod[q].expected
      BY <1>1 DEF Linked
    <2>1. prod[q].node \in NodesOf(prod)
      BY DEF NodesOf, PrivateOf
    <2> QED
      BY <1>1, <1>4, <1>5, <2>1 DEF Linked
  <1>10. Stamped'
    <2>1. \A q \in PrivateOf(prod) : mem'[prod[q].node].value = <<q, prod[q].sent>>
      <3> SUFFICES ASSUME NEW q \in PrivateOf(prod)
                   PROVE  mem'[prod[q].node].value = <<q, prod[q].sent>>
        OBVIOUS
      <3>1. prod[q].node \in NodesOf(prod)
        BY DEF NodesOf
      <3> QED
        BY <1>1, <1>4, <1>5, <3>1 DEF Stamped
    <2>2. \A c \in DOMAIN mem' \ NodesOf(prod) : Old(prod, mem'[c].value)
      BY <1>1, <1>5 DEF Stamped
    <2>3. \A i \in DOMAIN cons'.items : Old(prod, cons'.items[i])
      <3>1. Old(prod, mem[cons.current].value)
        BY <1>1, <1>3, <1>4 DEF Stamped
      <3>2. \A i \in DOMAIN cons'.items :
               \/ cons'.items[i] = mem[cons.current].value
               \/ i \in DOMAIN cons.items /\ cons'.items[i] = cons.items[i]
        BY <1>6
      <3> QED
        BY <1>1, <3>1, <3>2 DEF Stamped
    <2> QED
      BY <1>1, <2>1, <2>2, <2>3 DEF Stamped
  <1>11. Resting'
    BY <1>6 DEF Resting
  <1> QED
    BY <1>7, <1>8, <1>9, <1>10, <1>11 DEF IInv

-----------------------------------------------------------------------------
(* The theorems.                                                           *)

LEMMA InitInv ==
    ASSUME Init
    PROVE  IInv
  <1>1. TypeOK
    <2>1. DOMAIN mem = {} /\ mem \in [DOMAIN mem -> [value : Items, next : Pointers]]
      BY DEF Init
    <2>2. prod \in [Producers -> [pc : {"idle", "load", "cas", "count", "signal"},
                                  node : Pointers, expected : Pointers,
                                  sent : 0 .. MaxPushes]]
      BY QueueAssumption DEF Init, Idle, Pointers
    <2>3. cons \in [pc : {"idle", "clear", "walk"}, current : DOMAIN mem \cup {Null},
                   items : Seq(Items)]
      BY DEF Init
    <2>4. /\ head = Null /\ wake = FALSE /\ enqueued = 0 /\ drained = 0
          /\ received = << >> /\ << >> \in Seq(Items)
      BY DEF Init
    <2>5. DOMAIN mem \subseteq Addrs /\ head \in DOMAIN mem \cup {Null}
      BY <2>1, <2>4
    <2>6. wake \in BOOLEAN
      BY <2>4
    <2>7. {enqueued, drained} \subseteq Nat
      BY <2>4
    <2>8. received \in Seq(Items)
      BY <2>4
    <2> QED
      BY <2>1, <2>2, <2>3, <2>5, <2>6, <2>7, <2>8 DEF TypeOK
  <1>2. PrivateOf(prod) = {} /\ NodesOf(prod) = {}
    BY DEF Init, Idle, PrivateOf, NodesOf
  <1>3. Lists(mem, head, cons.current, prod, << >>, << >>)
    <2>1. /\ ToSet(<< >>) = {} /\ Len(<< >>) = 0
          /\ << >> \in Seq(DOMAIN mem) /\ DOMAIN mem = {}
      BY DEF Init, ToSet
    <2>2. IsChain(mem, << >>, Null)
      BY <2>1 DEF IsChain, PointerAt
    <2> QED
      BY <1>2, <2>1, <2>2 DEF Init, Lists
  <1>4. Linked /\ Resting
    BY DEF Init, Idle, Linked, Resting
  <1>5. Stamped
    BY <1>2 DEF Init, Stamped
  <1> QED
    BY <1>1, <1>3, <1>4, <1>5 DEF IInv, Shape

LEMMA NextInv ==
    ASSUME IInv, [Next]_vars
    PROVE  IInv'
  <1>1. ASSUME NEW p \in Producers, Push(p)
        PROVE  IInv'
    BY <1>1, AllocateStep, LoadHeadStep, CasSucceedsStep, QuietStep DEF Push
  <1>2. CASE Drain
    BY <1>2, SwapHeadStep, QuietStep, CollectStep, ReturnStep DEF Drain
  <1>3. CASE UNCHANGED vars
    BY <1>3 DEF vars, IInv, TypeOK, Shape, Linked, Resting, Stamped
  <1> QED
    BY <1>1, <1>2, <1>3 DEF Next

(* The inductive invariant holds in every reachable state. *)
THEOREM SpecIInv == Spec => []IInv
  <1>1. Init => IInv
    BY InitInv
  <1>2. IInv /\ [Next]_vars => IInv'
    BY NextInv
  <1> QED
    BY <1>1, <1>2, PTL DEF Spec

(* The lock-free queue keeps its types; head and the drain's cursor never  *)
(* point at memory that has been freed.                                    *)
THEOREM SpecTypeOK == Spec => []TypeOK
  <1>1. IInv => TypeOK
    BY DEF IInv
  <1> QED
    BY <1>1, SpecIInv, PTL

(* The walks of the memory find the lists. *)
LEMMA Views ==
    ASSUME NEW m, DOMAIN m \subseteq Addrs, NEW h, NEW c, NEW pr, NEW s, NEW b,
           Lists(m, h, c, pr, s, b)
    PROVE  ChainOf(m, h) = s /\ ChainOf(m, c) = b
  BY ChainIs DEF Lists

(* Two lists one after the other. *)
LEMMA JoinedLists ==
    ASSUME NEW S, NEW s \in Seq(S), NEW b \in Seq(S)
    PROVE  /\ s \o b \in Seq(S) /\ Len(s \o b) = Len(s) + Len(b)
           /\ \A i \in 1 .. Len(s) : (s \o b)[i] = s[i]
           /\ \A i \in 1 .. Len(b) : (s \o b)[Len(s) + i] = b[i]
           /\ \A i \in Len(s) + 1 .. Len(s) + Len(b) :
                 i - Len(s) \in 1 .. Len(b) /\ (s \o b)[i] = b[i - Len(s)]
           /\ ToSet(s \o b) = ToSet(s) \cup ToSet(b)
  <1> DEFINE j == s \o b
  <1>1. /\ j \in Seq(S) /\ Len(j) = Len(s) + Len(b)
        /\ \A i \in 1 .. Len(s) : j[i] = s[i]
        /\ \A i \in Len(s) + 1 .. Len(s) + Len(b) :
              i - Len(s) \in 1 .. Len(b) /\ j[i] = b[i - Len(s)]
    OBVIOUS
  <1>2. \A i \in 1 .. Len(b) : j[Len(s) + i] = b[i]
    OBVIOUS
  <1> HIDE DEF j
  <1>3. ToSet(s) \subseteq ToSet(j)
    <2> SUFFICES ASSUME NEW i \in 1 .. Len(s)
                 PROVE  s[i] \in ToSet(j)
      BY DEF ToSet
    <2>1. i \in DOMAIN j /\ j[i] = s[i]
      BY <1>1
    <2> QED
      BY <2>1 DEF ToSet
  <1>4. ToSet(b) \subseteq ToSet(j)
    <2> SUFFICES ASSUME NEW i \in 1 .. Len(b)
                 PROVE  b[i] \in ToSet(j)
      BY DEF ToSet
    <2>1. Len(s) + i \in DOMAIN j /\ j[Len(s) + i] = b[i]
      BY <1>1, <1>2
    <2> QED
      BY <2>1 DEF ToSet
  <1>5. ToSet(j) \subseteq ToSet(s) \cup ToSet(b)
    <2> SUFFICES ASSUME NEW i \in 1 .. Len(s) + Len(b)
                 PROVE  j[i] \in ToSet(s) \cup ToSet(b)
      BY <1>1 DEF ToSet
    <2>1. CASE i <= Len(s)
      BY <1>1, <2>1 DEF ToSet
    <2>2. CASE i > Len(s)
      <3>1. i - Len(s) \in DOMAIN b /\ j[i] = b[i - Len(s)]
        BY <1>1, <2>2
      <3> QED
        BY <3>1 DEF ToSet
    <2> QED
      BY <2>1, <2>2
  <1> QED
    BY <1>1, <1>2, <1>3, <1>4, <1>5 DEF j

LEMMA InvOwnedOnce == IInv => OwnedOnce
  <1> SUFFICES ASSUME IInv PROVE OwnedOnce
    OBVIOUS
  <1>1. PICK s, b : Lists(mem, head, cons.current, prod, s, b)
    BY DEF IInv, Shape
  <1>2. DOMAIN mem \subseteq Addrs
    BY DEF IInv, TypeOK
  <1>3. ChainOf(mem, head) = s /\ ChainOf(mem, cons.current) = b
    BY <1>1, <1>2, Views
  <1>4. /\ s \in Seq(DOMAIN mem) /\ b \in Seq(DOMAIN mem)
        /\ \A i, j \in 1 .. Len(s) : s[i] = s[j] => i = j
        /\ \A i, j \in 1 .. Len(b) : b[i] = b[j] => i = j
        /\ \A i \in 1 .. Len(s), j \in 1 .. Len(b) : s[i] # b[j]
    <2>1. /\ s \in Seq(DOMAIN mem) /\ b \in Seq(DOMAIN mem)
          /\ \A i, j \in 1 .. Len(s) : s[i] = s[j] => i = j
          /\ \A i, j \in 1 .. Len(b) : b[i] = b[j] => i = j
      BY <1>1 DEF Lists, IsChain
    <2>2. /\ \A i \in 1 .. Len(s) : s[i] \in ToSet(s)
          /\ \A i \in 1 .. Len(b) : b[i] \in ToSet(b)
      BY <2>1 DEF ToSet
    <2> QED
      BY <1>1, <2>1, <2>2 DEF Lists
  <1> DEFINE lists == s \o b
  <1>5. /\ lists \in Seq(DOMAIN mem) /\ Len(lists) = Len(s) + Len(b)
        /\ \A i \in 1 .. Len(s) : lists[i] = s[i]
        /\ \A i \in Len(s) + 1 .. Len(s) + Len(b) :
              i - Len(s) \in 1 .. Len(b) /\ lists[i] = b[i - Len(s)]
        /\ ToSet(lists) = ToSet(s) \cup ToSet(b)
    BY <1>4, JoinedLists
  <1> HIDE DEF lists
  <1>6. IsInjective(lists)
    <2> SUFFICES ASSUME NEW i \in 1 .. Len(s) + Len(b), NEW j \in 1 .. Len(s) + Len(b),
                        lists[i] = lists[j]
                 PROVE  i = j
      BY <1>5 DEF IsInjective
    <2>1. i \in 1 .. Len(s) \/ i \in Len(s) + 1 .. Len(s) + Len(b)
      BY <1>4
    <2>2. j \in 1 .. Len(s) \/ j \in Len(s) + 1 .. Len(s) + Len(b)
      BY <1>4
    <2>3. CASE i \in 1 .. Len(s) /\ j \in 1 .. Len(s)
      BY <1>4, <1>5, <2>3
    <2>4. CASE i \in Len(s) + 1 .. Len(s) + Len(b) /\ j \in Len(s) + 1 .. Len(s) + Len(b)
      <3>1. /\ i - Len(s) \in 1 .. Len(b) /\ lists[i] = b[i - Len(s)]
            /\ j - Len(s) \in 1 .. Len(b) /\ lists[j] = b[j - Len(s)]
        BY <1>5, <2>4
      <3>2. i - Len(s) = j - Len(s)
        BY <1>4, <3>1
      <3> QED
        BY <1>4, <3>2
    <2>5. CASE i \in 1 .. Len(s) /\ j \in Len(s) + 1 .. Len(s) + Len(b)
      BY <1>4, <1>5, <2>5
    <2>6. CASE i \in Len(s) + 1 .. Len(s) + Len(b) /\ j \in 1 .. Len(s)
      BY <1>4, <1>5, <2>6
    <2> QED
      BY <2>1, <2>2, <2>3, <2>4, <2>5, <2>6
  <1>7. Private = PrivateOf(prod) /\ {prod[p].node : p \in Private} = NodesOf(prod)
    BY DEF Private, PrivateOf, NodesOf
  <1>8. Cardinality(NodesOf(prod)) = Cardinality(PrivateOf(prod))
    <2> DEFINE f == [p \in PrivateOf(prod) |-> prod[p].node]
    <2>1. IsFiniteSet(NodesOf(prod))
      BY <1>1, <1>2, ListsPoint, QueueAssumption, FS_Subset
    <2>2. f \in [PrivateOf(prod) -> NodesOf(prod)]
      BY DEF NodesOf
    <2>3. \A p, q \in PrivateOf(prod) : f[p] = f[q] => p = q
      BY <1>1 DEF Lists
    <2>4. \A x \in NodesOf(prod) : \E p \in PrivateOf(prod) : f[p] = x
      BY DEF NodesOf
    <2> HIDE DEF f
    <2>5. f \in Injection(PrivateOf(prod), NodesOf(prod))
      BY <2>2, <2>3, Fun_IsInj
    <2>6. f \in Surjection(PrivateOf(prod), NodesOf(prod))
      BY <2>2, <2>4, Fun_IsSurj
    <2> QED
      BY <2>1, <2>5, <2>6, FS_Injection
  <1> QED
    BY <1>1, <1>3, <1>5, <1>6, <1>7, <1>8 DEF OwnedOnce, Lists, lists

(* Every node that is allocated is private to one push, once in the shared *)
(* list, or once in the list being drained: nothing is lost, freed twice   *)
(* or in two places, however often addresses are reused.                   *)
THEOREM SpecOwnedOnce == Spec => []OwnedOnce
  BY SpecIInv, InvOwnedOnce, PTL

-----------------------------------------------------------------------------
(* The queue implements FifoQueue, step by step.                           *)

(* The values of a list are a sequence of items. *)
LEMMA ValuesAre ==
    ASSUME NEW m, m \in [DOMAIN m -> [value : Items, next : Pointers]], NEW q \in Seq(DOMAIN m)
    PROVE  /\ ValuesOf(m, q) \in Seq(Items) /\ Len(ValuesOf(m, q)) = Len(q)
           /\ \A i \in 1 .. Len(q) : ValuesOf(m, q)[i] = m[q[i]].value
  <1>1. /\ q \in [1 .. Len(q) -> DOMAIN m] /\ Len(q) \in Nat
        /\ DOMAIN q = 1 .. Len(q)
    OBVIOUS
  <1>2. \A x \in DOMAIN m : m[x].value \in Items
    OBVIOUS
  <1>3. ValuesOf(m, q) \in [1 .. Len(q) -> Items]
    BY <1>1, <1>2 DEF ValuesOf
  <1>4. \A i \in 1 .. Len(q) : ValuesOf(m, q)[i] = m[q[i]].value
    BY <1>1 DEF ValuesOf
  <1> HIDE DEF ValuesOf
  <1> QED
    BY <1>1, <1>3, <1>4

(* They depend on the nodes of the list alone. *)
LEMMA ValuesKept ==
    ASSUME NEW m, NEW n, NEW q \in Seq(DOMAIN m), \A x \in ToSet(q) : n[x].value = m[x].value
    PROVE  ValuesOf(n, q) = ValuesOf(m, q)
  <1>1. \A i \in DOMAIN q : n[q[i]].value = m[q[i]].value
    BY DEF ToSet
  <1> QED
    BY <1>1 DEF ValuesOf

(* The values of a list with one more node in front. *)
LEMMA ValuesCons ==
    ASSUME NEW m, m \in [DOMAIN m -> [value : Items, next : Pointers]],
           NEW q \in Seq(DOMAIN m), NEW n \in DOMAIN m
    PROVE  ValuesOf(m, <<n>> \o q) = <<m[n].value>> \o ValuesOf(m, q)
  <1> DEFINE v == m[n].value
             t == <<n>> \o q
             w == <<v>> \o ValuesOf(m, q)
  <1>1. /\ t \in Seq(DOMAIN m) /\ Len(t) = Len(q) + 1 /\ t[1] = n
        /\ \A i \in 2 .. Len(q) + 1 : i - 1 \in 1 .. Len(q) /\ t[i] = q[i - 1]
    OBVIOUS
  <1>2. /\ ValuesOf(m, q) \in Seq(Items) /\ Len(ValuesOf(m, q)) = Len(q)
        /\ \A i \in 1 .. Len(q) : ValuesOf(m, q)[i] = m[q[i]].value
    BY ValuesAre
  <1>3. v \in Items
    OBVIOUS
  <1>4. /\ w \in Seq(Items) /\ Len(w) = Len(q) + 1 /\ w[1] = v
        /\ \A i \in 2 .. Len(q) + 1 : w[i] = ValuesOf(m, q)[i - 1]
    <2> HIDE DEF v
    <2> QED
      BY <1>2, <1>3
  <1> HIDE DEF t, w
  <1>5. /\ ValuesOf(m, t) \in Seq(Items) /\ Len(ValuesOf(m, t)) = Len(t)
        /\ \A i \in 1 .. Len(t) : ValuesOf(m, t)[i] = m[t[i]].value
    BY <1>1, ValuesAre
  <1>6. ASSUME NEW i \in 1 .. Len(q) + 1
        PROVE  ValuesOf(m, t)[i] = w[i]
    <2>1. CASE i = 1
      BY <1>1, <1>4, <1>5, <2>1
    <2>2. CASE i # 1
      <3>1. i \in 2 .. Len(q) + 1 /\ i \in 1 .. Len(t)
        BY <1>1, <2>2
      <3> QED
        BY <1>1, <1>2, <1>4, <1>5, <3>1
    <2> QED
      BY <2>1, <2>2
  <1>7. ValuesOf(m, t) = w
    BY <1>1, <1>4, <1>5, <1>6, SeqEqual
  <1> QED
    BY <1>7 DEF t, w

(* An item in front of a list comes last when the list is reversed. *)
LEMMA ReverseCons ==
    ASSUME NEW S, NEW q \in Seq(S), NEW v \in S
    PROVE  Reverse(<<v>> \o q) = Append(Reverse(q), v)
  <1> DEFINE r == <<v>> \o q
             a == Append(Reverse(q), v)
  <1>1. /\ r \in Seq(S) /\ Len(r) = Len(q) + 1 /\ r[1] = v
        /\ \A i \in 1 .. Len(q) : r[i + 1] = q[i]
    OBVIOUS
  <1>2. /\ Reverse(q) \in Seq(S) /\ Len(Reverse(q)) = Len(q)
        /\ \A i \in 1 .. Len(q) : /\ Reverse(q)[i] = q[Len(q) - i + 1]
                                 /\ Len(q) - i + 1 \in 1 .. Len(q)
    BY ReverseIs
  <1>3. /\ a \in Seq(S) /\ Len(a) = Len(q) + 1 /\ a[Len(q) + 1] = v
        /\ \A i \in 1 .. Len(q) : a[i] = q[Len(q) - i + 1] /\ Len(q) - i + 1 \in 1 .. Len(q)
    BY <1>2
  <1> HIDE DEF r, a
  <1>4. /\ Reverse(r) \in Seq(S) /\ Len(Reverse(r)) = Len(q) + 1
        /\ \A i \in 1 .. Len(q) + 1 : Reverse(r)[i] = r[(Len(q) + 1) - i + 1]
    BY <1>1, ReverseIs
  <1>5. \A i \in 1 .. Len(q) + 1 : Reverse(r)[i] = a[i]
    <2> SUFFICES ASSUME NEW i \in 1 .. Len(q) + 1
                 PROVE  Reverse(r)[i] = a[i]
      OBVIOUS
    <2>1. CASE i = Len(q) + 1
      <3>1. (Len(q) + 1) - i + 1 = 1
        BY <2>1
      <3> QED
        BY <1>1, <1>3, <1>4, <2>1, <3>1
    <2>2. CASE i # Len(q) + 1
      <3>1. i \in 1 .. Len(q) /\ (Len(q) + 1) - i + 1 = (Len(q) - i + 1) + 1
        BY <2>2
      <3> QED
        <4>1. Reverse(r)[i] = r[(Len(q) - i + 1) + 1] /\ Len(q) - i + 1 \in 1 .. Len(q)
          BY <1>2, <1>4, <3>1
        <4>2. r[(Len(q) - i + 1) + 1] = q[Len(q) - i + 1]
          BY <1>1, <4>1
        <4> QED
          BY <1>3, <3>1, <4>1, <4>2
    <2> QED
      BY <2>1, <2>2
  <1>6. Reverse(r) = a
    BY <1>3, <1>4, <1>5, SeqEqual
  <1> QED
    BY <1>6 DEF r, a

(* What FifoQueue sees of a state with lists s and b. *)
LEMMA SeenAs ==
    ASSUME TypeOK, NEW s, NEW b, Lists(mem, head, cons.current, prod, s, b)
    PROVE  /\ Queued = Reverse(ValuesOf(mem, s))
           /\ Taken = Reverse(cons.items \o ValuesOf(mem, b))
           /\ s \in Seq(DOMAIN mem) /\ b \in Seq(DOMAIN mem)
           /\ ValuesOf(mem, s) \in Seq(Items) /\ ValuesOf(mem, b) \in Seq(Items)
  <1>1. DOMAIN mem \subseteq Addrs /\ mem \in [DOMAIN mem -> [value : Items, next : Pointers]]
    BY DEF TypeOK
  <1>2. s \in Seq(DOMAIN mem) /\ b \in Seq(DOMAIN mem)
    BY DEF Lists, IsChain
  <1>3. ChainOf(mem, head) = s /\ ChainOf(mem, cons.current) = b
    BY <1>1, Views
  <1> QED
    BY <1>1, <1>2, <1>3, ValuesAre DEF Queued, Taken

LEMMA SeenAsPrimed ==
    ASSUME TypeOK', NEW s, NEW b, Lists(mem', head', cons'.current, prod', s, b)
    PROVE  /\ Queued' = Reverse(ValuesOf(mem', s))
           /\ Taken' = Reverse(cons'.items \o ValuesOf(mem', b))
  <1>1. DOMAIN mem' \subseteq Addrs
    BY DEF TypeOK
  <1>2. ChainOf(mem', head') = s /\ ChainOf(mem', cons'.current) = b
    BY <1>1, Views
  <1> QED
    BY <1>2 DEF Queued, Taken

(* A step that leaves head and the drain alone, and changes at most nodes  *)
(* that are private, is not seen.                                          *)
LEMMA Unseen ==
    ASSUME IInv, IInv', UNCHANGED <<head, received>>,
           cons'.current = cons.current, cons'.items = cons.items,
           \A x \in DOMAIN mem \ NodesOf(prod) : x \in DOMAIN mem' /\ mem'[x] = mem[x]
    PROVE  UNCHANGED <<Queued, Taken, received>>
  <1>1. PICK s, b : Lists(mem, head, cons.current, prod, s, b)
    BY DEF IInv, Shape
  <1>2. \A x \in ToSet(s) \cup ToSet(b) : x \in DOMAIN mem' /\ mem'[x] = mem[x]
    BY <1>1, ListsPoint
  <1>3. IsChain(mem', s, head') /\ IsChain(mem', b, cons'.current)
    <2>1. IsChain(mem, s, head') /\ IsChain(mem, b, cons'.current)
      BY <1>1 DEF Lists
    <2> QED
      BY <1>2, <2>1, ChainKept
  <1>4. ChainOf(mem', head') = s /\ ChainOf(mem', cons'.current) = b
    <2>1. DOMAIN mem' \subseteq Addrs
      BY DEF IInv, TypeOK
    <2> QED
      BY <1>3, <2>1, ChainIs
  <1>5. /\ Queued = Reverse(ValuesOf(mem, s))
        /\ Taken = Reverse(cons.items \o ValuesOf(mem, b))
        /\ s \in Seq(DOMAIN mem) /\ b \in Seq(DOMAIN mem)
    BY <1>1, SeenAs DEF IInv
  <1>6. ValuesOf(mem', s) = ValuesOf(mem, s) /\ ValuesOf(mem', b) = ValuesOf(mem, b)
    BY <1>2, <1>5, ValuesKept
  <1>7. Queued' = Queued
    BY <1>4, <1>5, <1>6 DEF Queued
  <1>8. Taken' = Taken
    BY <1>4, <1>5, <1>6 DEF Taken
  <1> QED
    BY <1>7, <1>8

(* A compare-and-swap that succeeds enqueues an item that no list and no   *)
(* batch has held before.                                                  *)
LEMMA CasEnqueues ==
    ASSUME IInv, IInv', NEW p \in Producers, CasSucceeds(p)
    PROVE  \E v \in Items : Fifo!Enqueue(v)
  <1>1. PICK s, b : Lists(mem, head, cons.current, prod, s, b)
    BY DEF IInv, Shape
  <1> DEFINE n == prod[p].node
             v == mem[n].value
  <1>2. /\ TypeOK /\ TypeOK' /\ Stamped
        /\ UNCHANGED <<mem, cons, received>>
        /\ p \in PrivateOf(prod) /\ n \in DOMAIN mem
        /\ Lists(mem', head', cons'.current, prod', <<n>> \o s, b)
    BY <1>1, CasSucceedsLists DEF IInv, CasSucceeds
  <1>3. /\ v \in Items /\ v = <<p, prod[p].sent>> /\ prod[p].sent \in Nat
    BY <1>2 DEF TypeOK, Stamped
  <1>4. ~Old(prod, v)
    BY <1>2, <1>3 DEF Old
  <1> HIDE DEF v
  <1>5. /\ Queued = Reverse(ValuesOf(mem, s))
        /\ Taken = Reverse(cons.items \o ValuesOf(mem, b))
        /\ s \in Seq(DOMAIN mem) /\ b \in Seq(DOMAIN mem)
        /\ ValuesOf(mem, s) \in Seq(Items) /\ ValuesOf(mem, b) \in Seq(Items)
    BY <1>1, <1>2, SeenAs
  <1>6. /\ Queued' = Reverse(ValuesOf(mem, <<n>> \o s))
        /\ Taken' = Reverse(cons.items \o ValuesOf(mem, b))
    BY <1>2, SeenAsPrimed
  <1>7. ValuesOf(mem, <<n>> \o s) = <<v>> \o ValuesOf(mem, s)
    BY <1>2, <1>5, ValuesCons DEF TypeOK, v
  <1>8. Queued' = Append(Queued, v) /\ Taken' = Taken
    BY <1>3, <1>5, <1>6, <1>7, ReverseCons
  <1>9. v \notin Fifo!Seen
    <2>1. mem \in [DOMAIN mem -> [value : Items, next : Pointers]]
      BY <1>2 DEF TypeOK
    <2>2. ASSUME NEW q \in Seq(Items), \A i \in 1 .. Len(q) : Old(prod, q[i])
          PROVE  \A i \in 1 .. Len(Reverse(q)) : Old(prod, Reverse(q)[i])
      BY <2>2, ReverseIs
    <2>3. \A i \in 1 .. Len(s) : Old(prod, ValuesOf(mem, s)[i])
      <3>1. \A i \in 1 .. Len(s) : s[i] \in ToSet(s)
        BY <1>5 DEF ToSet
      <3>2. \A i \in 1 .. Len(s) : ValuesOf(mem, s)[i] = mem[s[i]].value
        BY <1>5, <2>1, ValuesAre
      <3> QED
        BY <1>1, <1>2, <3>1, <3>2, ListsPoint DEF Stamped
    <2>4. \A i \in 1 .. Len(b) : Old(prod, ValuesOf(mem, b)[i])
      <3>1. \A i \in 1 .. Len(b) : b[i] \in ToSet(b)
        BY <1>5 DEF ToSet
      <3>2. \A i \in 1 .. Len(b) : ValuesOf(mem, b)[i] = mem[b[i]].value
        BY <1>5, <2>1, ValuesAre
      <3> QED
        BY <1>1, <1>2, <3>1, <3>2, ListsPoint DEF Stamped
    <2>5. Len(ValuesOf(mem, s)) = Len(s) /\ Len(ValuesOf(mem, b)) = Len(b)
      BY <1>5, <2>1, ValuesAre
    <2> DEFINE w == ValuesOf(mem, b)
    <2>6. w \in Seq(Items) /\ \A i \in 1 .. Len(w) : Old(prod, w[i])
      BY <1>5, <2>4, <2>5
    <2> HIDE DEF w
    <2> DEFINE j == cons.items \o w
    <2>7. cons.items \in Seq(Items) /\ \A i \in 1 .. Len(cons.items) : Old(prod, cons.items[i])
      BY <1>2 DEF TypeOK, Stamped
    <2>8. j \in Seq(Items) /\ \A i \in 1 .. Len(j) : Old(prod, j[i])
      <3>1. /\ j \in Seq(Items) /\ Len(j) = Len(cons.items) + Len(w)
            /\ \A i \in 1 .. Len(cons.items) : j[i] = cons.items[i]
            /\ \A i \in Len(cons.items) + 1 .. Len(cons.items) + Len(w) :
                  i - Len(cons.items) \in 1 .. Len(w) /\ j[i] = w[i - Len(cons.items)]
        BY <2>6, <2>7, JoinedLists
      <3> HIDE DEF j
      <3>2. ASSUME NEW i \in 1 .. Len(j)
            PROVE  Old(prod, j[i])
        <4>1. CASE i <= Len(cons.items)
          BY <2>7, <3>1, <4>1
        <4>2. CASE i > Len(cons.items)
          <5>1. i \in Len(cons.items) + 1 .. Len(cons.items) + Len(w)
            BY <2>6, <2>7, <3>1, <4>2
          <5> QED
            BY <2>6, <3>1, <5>1
        <4> QED
          BY <2>7, <4>1, <4>2
      <3> QED
        BY <3>1, <3>2
    <2> HIDE DEF j
    <2>9. \A x \in ToSet(Queued) : Old(prod, x)
      <3>1. \A i \in 1 .. Len(Queued) : Old(prod, Queued[i])
        BY <1>5, <2>2, <2>3, <2>5
      <3>2. Queued \in Seq(Items)
        BY <1>5, ReverseIs
      <3> QED
        BY <3>1, <3>2 DEF ToSet
    <2>10. \A x \in ToSet(Taken) : Old(prod, x)
      <3>1. \A i \in 1 .. Len(Taken) : Old(prod, Taken[i])
        BY <1>5, <2>2, <2>8 DEF j, w
      <3>2. Taken \in Seq(Items)
        BY <1>5, <2>8, ReverseIs DEF j, w
      <3> QED
        BY <3>1, <3>2 DEF ToSet
    <2>11. \A x \in ToSet(received) : Old(prod, x)
      BY <1>2 DEF Stamped, ToSet
    <2> QED
      BY <1>4, <2>9, <2>10, <2>11 DEF Fifo!Seen, Fifo!ToSet, ToSet
  <1> QED
    BY <1>2, <1>3, <1>8, <1>9 DEF Fifo!Enqueue

(* An empty sequence and its reverse. *)
LEMMA ReverseEmpty == Reverse(<< >>) = << >>
  <1>1. << >> \in Seq({}) /\ Len(<< >>) = 0
    OBVIOUS
  <1>2. Reverse(<< >>) \in Seq({}) /\ Len(Reverse(<< >>)) = 0
    BY <1>1, ReverseIs
  <1> HIDE DEF Reverse
  <1> QED
    BY <1>2

(* A list that a null pointer starts is empty. *)
LEMMA NullChain ==
    ASSUME NEW m, Null \notin DOMAIN m, NEW q, IsChain(m, q, Null)
    PROVE  q = << >>
  <1>1. q \in Seq(DOMAIN m) /\ Null = IF 1 <= Len(q) THEN q[1] ELSE Null
    BY DEF IsChain, PointerAt
  <1>2. ~(1 <= Len(q))
    BY <1>1
  <1> QED
    BY <1>1, <1>2

(* The swap takes everything that is queued, when nothing is in hand. *)
LEMMA SwapTakesAll ==
    ASSUME IInv, IInv', SwapHead
    PROVE  Fifo!TakeAll
  <1>1. PICK s, b : Lists(mem, head, cons.current, prod, s, b)
    BY DEF IInv, Shape
  <1>2. /\ TypeOK /\ TypeOK' /\ cons.items = << >> /\ cons.current = Null
        /\ head' = Null /\ UNCHANGED <<mem, received>>
        /\ cons'.items = cons.items /\ cons'.current = head
        /\ DOMAIN mem \subseteq Addrs /\ Null \notin DOMAIN mem
    BY QueueAssumption DEF IInv, Resting, SwapHead, TypeOK
  <1>3. b = << >>
    BY <1>1, <1>2, NullChain DEF Lists
  <1>4. /\ Queued = Reverse(ValuesOf(mem, s))
        /\ Taken = Reverse(cons.items \o ValuesOf(mem, b))
        /\ ValuesOf(mem, s) \in Seq(Items)
    BY <1>1, <1>2, SeenAs
  <1>5. ValuesOf(mem, << >>) = << >>
    BY DEF ValuesOf
  <1>6. Taken = << >>
    BY <1>2, <1>3, <1>4, <1>5, ReverseEmpty
  <1>7. ChainOf(mem', head') = << >> /\ ChainOf(mem', cons'.current) = s
    <2>1. IsChain(mem, << >>, Null)
      BY DEF IsChain, PointerAt
    <2> QED
      BY <1>1, <1>2, <2>1, ChainIs DEF Lists
  <1>8. Queued' = << >>
    BY <1>2, <1>5, <1>7, ReverseEmpty DEF Queued
  <1>9. Taken' = Queued
    <2>1. Taken' = Reverse(<< >> \o ValuesOf(mem, s))
      BY <1>2, <1>7 DEF Taken
    <2> DEFINE w == ValuesOf(mem, s)
    <2>2. w \in Seq(Items)
      BY <1>4
    <2> HIDE DEF w
    <2>3. << >> \o w = w
      BY <2>2
    <2> QED
      BY <1>4, <2>1, <2>3 DEF w
  <1> QED
    BY <1>2, <1>6, <1>8, <1>9 DEF Fifo!TakeAll

(* Collect moves a value from the list to the items in hand; what the      *)
(* drain has taken stays the same.                                         *)
LEMMA CollectUnseen ==
    ASSUME IInv, IInv', Collect
    PROVE  UNCHANGED <<Queued, Taken, received>>
  <1>1. PICK s, b : Lists(mem, head, cons.current, prod, s, b)
    BY DEF IInv, Shape
  <1> DEFINE x == cons.current
             v == mem[x].value
             t == Tail(b)
  <1>2. /\ TypeOK /\ TypeOK' /\ UNCHANGED <<head, received>>
        /\ cons'.items = Append(cons.items, v)
        /\ cons.items \in Seq(Items)
        /\ mem \in [DOMAIN mem -> [value : Items, next : Pointers]]
        /\ \A c \in DOMAIN mem \ {x} : mem'[c] = mem[c]
    BY DEF IInv, Collect, TypeOK
  <1>3. /\ x \in ToSet(b) /\ x \in DOMAIN mem /\ b # << >> /\ x = b[1]
        /\ Lists(mem', head', cons'.current, prod', s, t)
    BY <1>1, CollectLists
  <1>4. /\ Queued = Reverse(ValuesOf(mem, s))
        /\ Taken = Reverse(cons.items \o ValuesOf(mem, b))
        /\ s \in Seq(DOMAIN mem) /\ b \in Seq(DOMAIN mem)
    BY <1>1, <1>2, SeenAs
  <1>5. /\ Queued' = Reverse(ValuesOf(mem', s))
        /\ Taken' = Reverse(cons'.items \o ValuesOf(mem', t))
    BY <1>2, <1>3, SeenAsPrimed
  <1>6. /\ t \in Seq(DOMAIN mem) /\ Len(t) = Len(b) - 1
        /\ \A i \in 1 .. Len(t) : t[i] = b[i + 1] /\ i + 1 \in 1 .. Len(b)
    BY <1>3, <1>4
  <1>7. x \notin ToSet(s) /\ x \notin ToSet(t) /\ ToSet(s) \cup ToSet(t) \subseteq DOMAIN mem
    <2>1. ToSet(t) \subseteq DOMAIN mem'
      BY <1>3, ListsPoint
    <2>2. DOMAIN mem' = DOMAIN mem \ {x}
      BY DEF Collect
    <2> QED
      BY <1>1, <1>3, <2>1, <2>2, ListsPoint DEF Lists
  <1>8. ValuesOf(mem', s) = ValuesOf(mem, s) /\ ValuesOf(mem', t) = ValuesOf(mem, t)
    <2>1. \A c \in ToSet(s) \cup ToSet(t) : mem'[c].value = mem[c].value
      BY <1>2, <1>7
    <2> QED
      BY <1>4, <1>6, <2>1, ValuesKept
  <1>9. Append(cons.items, v) \o ValuesOf(mem, t) = cons.items \o ValuesOf(mem, b)
    <2>1. b = <<x>> \o t
      BY <1>3, <1>4
    <2>2. ValuesOf(mem, b) = <<v>> \o ValuesOf(mem, t) /\ ValuesOf(mem, t) \in Seq(Items)
      BY <1>2, <1>3, <1>6, <2>1, ValuesCons, ValuesAre
    <2>3. v \in Items
      BY <1>2, <1>3
    <2> DEFINE u == ValuesOf(mem, t)
               k == cons.items
    <2> HIDE DEF v, u, k
    <2>4. ASSUME k \in Seq(Items), u \in Seq(Items)
          PROVE  Append(k, v) \o u = k \o (<<v>> \o u)
      <3>1. Append(k, v) = k \o <<v>> /\ <<v>> \in Seq(Items)
        BY <2>3, <2>4
      <3> QED
        BY <2>4, <3>1, ConcatAssociative
    <2> QED
      BY <1>2, <2>2, <2>4 DEF u, k
  <1> HIDE DEF x, v, t
  <1> QED
    BY <1>2, <1>4, <1>5, <1>8, <1>9

(* The drain returns what it has taken, oldest first. *)
LEMMA ReturnDelivers ==
    ASSUME IInv, IInv', Return
    PROVE  Fifo!Deliver
  <1>1. PICK s, b : Lists(mem, head, cons.current, prod, s, b)
    BY DEF IInv, Shape
  <1>2. /\ TypeOK /\ TypeOK' /\ cons.current = Null /\ cons.items \in Seq(Items)
        /\ UNCHANGED <<head, mem, prod>> /\ cons'.items = << >> /\ cons'.current = cons.current
        /\ received' = received \o Reverse(cons.items)
        /\ DOMAIN mem \subseteq Addrs /\ Null \notin DOMAIN mem
    BY QueueAssumption DEF IInv, Return, TypeOK
  <1>3. b = << >>
    BY <1>1, <1>2, NullChain DEF Lists
  <1>4. /\ Queued = Reverse(ValuesOf(mem, s))
        /\ Taken = Reverse(cons.items \o ValuesOf(mem, b))
    BY <1>1, <1>2, SeenAs
  <1>5. /\ Queued' = Reverse(ValuesOf(mem', s))
        /\ Taken' = Reverse(cons'.items \o ValuesOf(mem', b))
    BY <1>1, <1>2, SeenAsPrimed
  <1>6. ValuesOf(mem, << >>) = << >>
    BY DEF ValuesOf
  <1>7. Taken = Reverse(cons.items) /\ Taken' = << >> /\ Queued' = Queued
    <2>1. cons.items \o << >> = cons.items /\ << >> \o << >> = << >>
      BY <1>2
    <2> QED
      BY <1>2, <1>3, <1>4, <1>5, <1>6, <2>1, ReverseEmpty
  <1> QED
    BY <1>2, <1>7 DEF Fifo!Deliver

(* Every step of the queue is a step of FifoQueue or is not seen by it. *)
LEMMA StepImplements ==
    ASSUME IInv, IInv', [Next]_vars
    PROVE  [Fifo!Next]_(Fifo!fifoVars)
  <1>1. ASSUME NEW p \in Producers, CasSucceeds(p)
        PROVE  Fifo!Next
    BY <1>1, CasEnqueues DEF Fifo!Next
  <1>2. ASSUME \/ \E p \in Producers :
                     Allocate(p) \/ LoadHead(p) \/ CasFails(p) \/ CountPush(p) \/ Signal(p)
               \/ ClearWake
        PROVE  UNCHANGED <<Queued, Taken, received>>
    <2>1. /\ UNCHANGED <<head, received>>
          /\ cons'.current = cons.current /\ cons'.items = cons.items
      BY <1>2 DEF IInv, TypeOK, Allocate, LoadHead, CasFails, CountPush, Signal, ClearWake
    <2>2. \A x \in DOMAIN mem \ NodesOf(prod) : x \in DOMAIN mem' /\ mem'[x] = mem[x]
      <3>1. ASSUME NEW p \in Producers, Allocate(p)
            PROVE  \A x \in DOMAIN mem : x \in DOMAIN mem' /\ mem'[x] = mem[x]
        BY <3>1 DEF Allocate
      <3>2. ASSUME NEW p \in Producers, LoadHead(p)
            PROVE  \A x \in DOMAIN mem \ NodesOf(prod) : x \in DOMAIN mem' /\ mem'[x] = mem[x]
        <4>1. prod[p].node \in NodesOf(prod)
          BY <3>2 DEF LoadHead, NodesOf, PrivateOf
        <4>2. mem' = [mem EXCEPT ![prod[p].node].next = head]
          BY <3>2 DEF LoadHead
        <4> QED
          BY <4>1, <4>2
      <3>3. ASSUME \/ \E p \in Producers : CasFails(p) \/ CountPush(p) \/ Signal(p)
                   \/ ClearWake
            PROVE  mem' = mem
        BY <3>3 DEF CasFails, CountPush, Signal, ClearWake
      <3> QED
        BY <1>2, <3>1, <3>2, <3>3
    <2> QED
      BY <2>1, <2>2, Unseen
  <1>3. CASE SwapHead
    BY <1>3, SwapTakesAll DEF Fifo!Next
  <1>4. CASE Return
    BY <1>4, ReturnDelivers DEF Fifo!Next
  <1>5. CASE Collect
    BY <1>5, CollectUnseen DEF Fifo!fifoVars
  <1>6. CASE UNCHANGED vars
    <2>1. UNCHANGED <<Queued, Taken, received>>
      BY <1>6 DEF vars, Queued, Taken
    <2> QED
      BY <2>1 DEF Fifo!fifoVars
  <1>7. UNCHANGED <<Queued, Taken, received>> => [Fifo!Next]_(Fifo!fifoVars)
    BY DEF Fifo!fifoVars
  <1> QED
    BY <1>1, <1>2, <1>3, <1>4, <1>5, <1>6, <1>7 DEF Next, Push, Drain

LEMMA InitImplements == Init => Fifo!Init
  <1> SUFFICES ASSUME Init PROVE Fifo!Init
    OBVIOUS
  <1>1. /\ mem = << >> /\ head = Null /\ cons.current = Null /\ cons.items = << >>
        /\ received = << >> /\ DOMAIN mem = {}
    BY DEF Init
  <1>2. ChainOf(mem, Null) = << >>
    <2>1. IsChain(mem, << >>, Null)
      BY DEF IsChain, PointerAt
    <2> QED
      BY <1>1, <2>1, ChainIs
  <1>3. ValuesOf(mem, << >>) = << >>
    BY DEF ValuesOf
  <1>4. << >> \o << >> = << >>
    OBVIOUS
  <1> QED
    BY <1>1, <1>2, <1>3, <1>4, ReverseEmpty DEF Fifo!Init, Queued, Taken

(* The lock-free queue is a FIFO queue that is drained whole: what is      *)
(* returned is what was enqueued, each item once, in the order of the      *)
(* compare-and-swaps that succeeded.                                       *)
THEOREM SpecImplementsFifo == Spec => Fifo!Init /\ [][Fifo!Next]_(Fifo!fifoVars)
  <1>1. Init => Fifo!Init
    BY InitImplements
  <1>2. IInv /\ IInv' /\ [Next]_vars => [Fifo!Next]_(Fifo!fifoVars)
    BY StepImplements
  <1> QED
    BY <1>1, <1>2, SpecIInv, PTL DEF Spec
=============================================================================
