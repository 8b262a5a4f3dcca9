---------------------------- MODULE GatewayProofs ----------------------------
(***************************************************************************)
(* Proofs about the gateway, for any number of clients and servers and any *)
(* configuration: the relays are accounted for, bans are served, unhealthy *)
(* servers avoided, and an address gets no more connections than its       *)
(* bucket promises.  The core is Budget, which bounds the connections an   *)
(* address made since any moment by what its bucket has given out and what *)
(* it still holds.                                                         *)
(***************************************************************************)
EXTENDS Gateway, FiniteSetTheorems, TLAPS

(* Nothing is dated later than now, and a bucket never overflows. *)
Timely ==
    /\ \A c \in DOMAIN conns : conns[c].since <= now
    /\ \A a \in DOMAIN entries : entries[a].refilled <= now /\ entries[a].tokens <= 2 * Rate

(* A server is chosen last. *)
ServersOK == \A c \in DOMAIN conns :
    conns[c].server # NoServer => conns[c].state \in {"Established", "Terminated"}

(* While a client is served, its bucket is not forgotten, and no ban runs  *)
(* that was imposed before.                                                *)
ServedOK == serving # Nobody =>
    /\ conns[serving].addr \in DOMAIN entries
    /\ conns[serving].addr \in DOMAIN bans => bans[conns[serving].addr] <= conns[serving].since

HealthOK == \A s \in Servers :
    /\ s \in healthy => status[s].healthy
    /\ status[s].healthy => status[s].failures < UnhealthyThreshold

(* The connections an address made since some moment. *)
Came(cs, a, from) == {c \in DOMAIN cs : cs[c].addr = a /\ cs[c].since >= from}
Total(cs, a, from) == Cardinality(Came(cs, a, from))

(* What a bucket gives out in n seconds. *)
Fill(n) == Rate * n

(* What an address has taken and what is left for it: with a bucket, as of *)
(* its last refill; without one, as of now.                                *)
BudgetOf(es, t, cs, a, from) ==
    /\ a \in DOMAIN es => /\ from <= es[a].refilled
                             => Total(cs, a, from) + es[a].tokens <= Fill(2 + es[a].refilled - from)
                          /\ from > es[a].refilled => Total(cs, a, from) = 0
    /\ a \notin DOMAIN es => /\ from <= t
                                => Total(cs, a, from) + Rate <= Fill(2 + t - from)
                             /\ from > t => Total(cs, a, from) = 0

Budget == \A a \in Addrs, from \in Time : BudgetOf(entries, now, conns, a, from)

(* The inductive invariant. *)
IInv ==
    /\ TypeOK
    /\ Timely
    /\ ServersOK
    /\ ServedOK
    /\ HealthOK
    /\ RelaysAccounted
    /\ Budget
    /\ RateBounded

-----------------------------------------------------------------------------
(* Arithmetic of the bucket. *)

LEMMA TimeIsNat ==
    /\ Time \subseteq Nat /\ MaxTime \in Nat /\ MaxConns \in Nat
    /\ Rate \in Nat /\ Rate >= 1
    /\ Window \in Nat /\ Window >= 1
  <1>1. {Rate, Window} \subseteq Nat \ {0} /\ {MaxConns, MaxTime} \subseteq Nat
    BY GatewayAssumption
  <1>2. Rate \in Nat \ {0} /\ Window \in Nat \ {0} /\ MaxTime \in Nat /\ MaxConns \in Nat
    BY <1>1
  <1>3. Time \subseteq Nat
    BY <1>2 DEF Time
  <1> QED
    BY <1>2, <1>3

LEMMA FillType ==
    ASSUME NEW n \in Nat
    PROVE  Fill(n) \in Nat
  <1>1. Rate \in Nat
    BY TimeIsNat
  <1> QED
    BY <1>1 DEF Fill

LEMMA FillAdds ==
    ASSUME NEW m \in Nat, NEW n \in Nat
    PROVE  Fill(m + n) = Fill(m) + Fill(n)
  <1>1. Rate \in Nat
    BY TimeIsNat
  <1> QED
    BY <1>1 DEF Fill

LEMMA FillTwo == Fill(0) = 0 /\ Fill(1) = Rate /\ Fill(2) = 2 * Rate
  <1>1. Rate \in Nat
    BY TimeIsNat
  <1> QED
    BY <1>1 DEF Fill

LEMMA FillGrows ==
    ASSUME NEW m \in Nat, NEW n \in Nat, m <= n
    PROVE  Fill(m) <= Fill(n)
  <1>1. n - m \in Nat
    OBVIOUS
  <1>2. Fill(m + (n - m)) = Fill(m) + Fill(n - m)
    BY <1>1, FillAdds
  <1>3. m + (n - m) = n
    OBVIOUS
  <1>4. Fill(n - m) \in Nat /\ Fill(m) \in Nat
    BY <1>1, FillType
  <1> QED
    BY <1>2, <1>3, <1>4

-----------------------------------------------------------------------------
(* Maps and connections. *)

LEMMA InsertType ==
    ASSUME NEW S, NEW T, NEW f, DOMAIN f \subseteq S, f \in [DOMAIN f -> T],
           NEW x \in S, NEW v \in T
    PROVE  /\ DOMAIN Insert(f, x, v) \subseteq S
           /\ Insert(f, x, v) \in [DOMAIN Insert(f, x, v) -> T]
  BY DEF Insert

LEMMA LeastType ==
    ASSUME NEW x \in Nat, NEW y \in Nat
    PROVE  Least(x, y) \in Nat /\ Least(x, y) <= x /\ Least(x, y) <= y
  BY DEF Least

LEMMA EntryFields ==
    ASSUME NEW e \in Entry
    PROVE  e.tokens \in Nat /\ e.refilled \in Time /\ e.failures \in Nat
  BY DEF Entry

LEMMA EntryMade ==
    ASSUME NEW n \in Nat, NEW t \in Time, NEW f \in Nat
    PROVE  [tokens |-> n, refilled |-> t, failures |-> f] \in Entry
  BY DEF Entry

(* The bucket an address is found with. *)
LEMMA KnownType ==
    ASSUME TypeOK, NEW a \in Addrs, NEW at \in Time
    PROVE  Known(a, at) \in Entry
  <1>1. CASE a \in DOMAIN entries
    BY <1>1 DEF Known, TypeOK
  <1>2. CASE a \notin DOMAIN entries
    <2>1. [tokens |-> Rate, refilled |-> at, failures |-> 0] \in Entry
      BY EntryMade, TimeIsNat
    <2> QED
      BY <1>2, <2>1 DEF Known
  <1> QED
    BY <1>1, <1>2

(* A refill: what an entry holds after it. *)
LEMMA RefilledType ==
    ASSUME TypeOK, NEW e \in Entry, e.refilled <= now
    PROVE  /\ Refilled(e) \in Entry
           /\ Refilled(e).refilled = now
           /\ Refilled(e).tokens <= e.tokens + Fill(now - e.refilled)
           /\ Refilled(e).tokens <= 2 * Rate
           /\ Refilled(e).failures = e.failures
  <1>1. e.tokens \in Nat /\ e.refilled \in Nat /\ e.failures \in Nat /\ now \in Time /\ now \in Nat
    BY EntryFields, TimeIsNat DEF TypeOK
  <1>2. now - e.refilled \in Nat /\ 2 * Rate \in Nat
    BY <1>1, TimeIsNat
  <1>3. Fill(now - e.refilled) \in Nat
    BY <1>2, FillType
  <1>4. (now - e.refilled) * Rate = Fill(now - e.refilled)
    BY <1>2, TimeIsNat DEF Fill
  <1> DEFINE n == Least(e.tokens + (now - e.refilled) * Rate, 2 * Rate)
  <1>5. n \in Nat /\ n <= e.tokens + Fill(now - e.refilled) /\ n <= 2 * Rate
    <2>1. e.tokens + Fill(now - e.refilled) \in Nat
      BY <1>1, <1>3
    <2> QED
      BY <2>1, <1>2, <1>4, LeastType
  <1>6. Refilled(e) = [tokens |-> n, refilled |-> now, failures |-> e.failures]
    BY DEF Refilled
  <1> HIDE DEF n
  <1>7. Refilled(e) \in Entry
    BY <1>1, <1>5, <1>6, EntryMade
  <1> QED
    BY <1>5, <1>6, <1>7

LEMMA SpendType ==
    ASSUME NEW e \in Entry, HasToken(e)
    PROVE  /\ Spend(e) \in Entry
           /\ Spend(e).tokens = e.tokens - 1
           /\ Spend(e).refilled = e.refilled
           /\ Spend(e).failures = e.failures
  <1>1. e.tokens \in Nat /\ e.tokens - 1 \in Nat
    BY EntryFields DEF HasToken
  <1> QED
    BY <1>1 DEF Spend, Entry

LEMMA ConnectionFields ==
    ASSUME NEW r \in Connection
    PROVE  /\ r.addr \in Addrs /\ r.state \in ConnectionState
           /\ r.server \in Servers \cup {NoServer} /\ r.since \in Time /\ r.since \in Nat
  BY TimeIsNat DEF Connection

LEMMA Conns ==
    ASSUME TypeOK
    PROVE  /\ accepted \in Nat /\ DOMAIN conns = 1 .. accepted
           /\ \A c \in DOMAIN conns : conns[c] \in Connection
           /\ now \in Time /\ now \in Nat
           /\ \A c \in DOMAIN conns : conns[c].since \in Nat /\ conns[c].addr \in Addrs
  <1>1. accepted \in Nat /\ DOMAIN conns = 1 .. accepted /\ now \in Time
    BY TimeIsNat DEF TypeOK
  <1>2. \A c \in DOMAIN conns : conns[c] \in Connection
    BY DEF TypeOK
  <1> QED
    BY <1>1, <1>2, ConnectionFields, TimeIsNat

LEMMA Served ==
    ASSUME TypeOK, NEW states, In(states)
    PROVE  /\ serving \in DOMAIN conns /\ serving # Nobody
           /\ conns[serving] \in Connection /\ conns[serving].addr \in Addrs
           /\ conns[serving].since \in Time /\ conns[serving].state \in states
  <1>1. serving \in 0 .. accepted /\ serving # 0 /\ conns[serving].state \in states
    BY DEF In, Nobody, TypeOK
  <1>2. serving \in DOMAIN conns
    BY <1>1, Conns
  <1> QED
    BY <1>1, <1>2, Conns, ConnectionFields DEF Nobody

(* The served connection takes a new state and server; the rest stays. *)
Changed(st, sv) ==
    /\ DOMAIN conns' = DOMAIN conns
    /\ conns' \in [DOMAIN conns -> Connection]
    /\ \A c \in DOMAIN conns : /\ conns'[c].addr = conns[c].addr
                               /\ conns'[c].since = conns[c].since
                               /\ c # serving => conns'[c] = conns[c]
    /\ conns'[serving].state = st
    /\ conns'[serving].server = sv

LEMMA MovedChanges ==
    ASSUME TypeOK, NEW states, In(states), NEW st \in ConnectionState, Moved(st)
    PROVE  Changed(st, conns[serving].server)
  <1>1. serving \in DOMAIN conns /\ conns[serving] \in Connection
    BY Served
  <1> DEFINE r == [conns[serving] EXCEPT !.state = st]
  <1>2. conns' = [conns EXCEPT ![serving] = r]
    BY DEF Moved
  <1>3. /\ r \in Connection /\ r.state = st /\ r.server = conns[serving].server
        /\ r.addr = conns[serving].addr /\ r.since = conns[serving].since
    BY <1>1 DEF Connection
  <1> HIDE DEF r
  <1>4. conns \in [DOMAIN conns -> Connection]
    BY Conns DEF TypeOK
  <1> QED
    BY <1>1, <1>2, <1>3, <1>4 DEF Changed

LEMMA RoutedChanges ==
    ASSUME TypeOK, NEW s \in Servers, NEW st \in ConnectionState, Routed(s, st)
    PROVE  Changed(st, s)
  <1>1. serving \in DOMAIN conns /\ conns[serving] \in Connection
    BY Served DEF Routed
  <1> DEFINE r == [conns[serving] EXCEPT !.state = st, !.server = s]
  <1>2. conns' = [conns EXCEPT ![serving] = r]
    BY DEF Routed
  <1>3. /\ r \in Connection /\ r.state = st /\ r.server = s
        /\ r.addr = conns[serving].addr /\ r.since = conns[serving].since
    BY <1>1 DEF Connection
  <1> HIDE DEF r
  <1>4. conns \in [DOMAIN conns -> Connection]
    BY Conns DEF TypeOK
  <1> QED
    BY <1>1, <1>2, <1>3, <1>4 DEF Changed

(* A new connection. *)
Arrived(a) ==
    /\ accepted' = accepted + 1 /\ serving' = accepted' /\ accepted' \notin DOMAIN conns
    /\ accepted' \in 1 .. MaxConns
    /\ DOMAIN conns' = DOMAIN conns \cup {accepted'}
    /\ DOMAIN conns' = 1 .. accepted'
    /\ conns' \in [DOMAIN conns' -> Connection]
    /\ \A c \in DOMAIN conns : conns'[c] = conns[c]
    /\ conns'[accepted'].addr = a /\ conns'[accepted'].since = now
    /\ conns'[accepted'].state = "Connecting" /\ conns'[accepted'].server = NoServer

LEMMA AcceptArrives ==
    ASSUME TypeOK, NEW a \in Addrs, Accept(a)
    PROVE  Arrived(a)
  <1> DEFINE r == [addr |-> a, state |-> "Connecting", server |-> NoServer, since |-> now]
  <1>1. now \in Time /\ accepted \in Nat /\ DOMAIN conns = 1 .. accepted
    BY Conns
  <1>2. /\ r \in Connection /\ r.addr = a /\ r.since = now
        /\ r.state = "Connecting" /\ r.server = NoServer
    BY <1>1 DEF Connection, ConnectionState
  <1>3. accepted' = accepted + 1 /\ serving' = accepted' /\ conns' = Insert(conns, accepted', r)
        /\ accepted < MaxConns
    BY DEF Accept
  <1> HIDE DEF r
  <1>4. accepted' \notin DOMAIN conns /\ accepted' \in 1 .. MaxConns
        /\ DOMAIN conns \cup {accepted'} = 1 .. accepted'
    BY <1>1, <1>3, TimeIsNat
  <1>5. conns \in [DOMAIN conns -> Connection]
    BY <1>1 DEF TypeOK
  <1>6. conns' \in [DOMAIN conns' -> Connection]
    BY <1>2, <1>3, <1>5 DEF Insert
  <1>7. /\ DOMAIN conns' = DOMAIN conns \cup {accepted'} /\ conns'[accepted'] = r
        /\ \A c \in DOMAIN conns : conns'[c] = conns[c]
    BY <1>3, <1>4 DEF Insert
  <1> QED
    BY <1>2, <1>3, <1>4, <1>6, <1>7 DEF Arrived

(* No server is called "", so no connection is ever cleaned up. *)
LEMMA CleanupKeeps ==
    ASSUME TypeOK, CleanupTick
    PROVE  conns' = conns
  <1>1. ASSUME NEW c \in DOMAIN conns PROVE conns[c].server # ""
    BY Conns, ConnectionFields, GatewayAssumption
  <1>2. Stale = {}
    BY <1>1 DEF Stale
  <1>3. conns' = Restrict(conns, DOMAIN conns)
    BY <1>2 DEF CleanupTick
  <1>4. conns = [c \in DOMAIN conns |-> conns[c]]
    BY DEF TypeOK
  <1> QED
    BY <1>3, <1>4 DEF Restrict

-----------------------------------------------------------------------------
(* Types and dates. *)

LEMMA InitTyped ==
    ASSUME Init
    PROVE  TypeOK /\ Timely /\ ServersOK /\ ServedOK /\ HealthOK
  <1>1. 0 \in Time /\ 0 \in 0 .. MaxConns /\ 0 < UnhealthyThreshold /\ 0 \in 0 .. UnhealthyThreshold
    <2>1. UnhealthyThreshold \in Nat \ {0}
      BY GatewayAssumption
    <2> QED
      BY <2>1, TimeIsNat DEF Time
  <1>2. DOMAIN conns = {} /\ DOMAIN entries = {} /\ DOMAIN bans = {} /\ DOMAIN sticky = {} /\ DOMAIN relays = {}
    BY DEF Init
  <1>3. conns \in [1 .. accepted -> Connection]
    BY DEF Init
  <1>4. status \in [Servers -> Status] /\ heartbeat \in [Servers -> Time]
        /\ \A s \in Servers : status[s].healthy /\ status[s].failures = 0
    BY <1>1 DEF Init, Status
  <1>5. entries \in [DOMAIN entries -> Entry] /\ bans \in [DOMAIN bans -> Nat]
        /\ sticky \in [DOMAIN sticky -> Servers]
    BY DEF Init
  <1>6. TypeOK
    BY <1>1, <1>2, <1>3, <1>4, <1>5 DEF Init, TypeOK, Nobody
  <1>7. Timely /\ ServersOK /\ ServedOK
    BY <1>2 DEF Timely, ServersOK, ServedOK, Init
  <1>8. HealthOK
    BY <1>1, <1>4 DEF HealthOK
  <1> QED
    BY <1>6, <1>7, <1>8

(* A bucket that was refilled now, and perhaps paid from. *)
Fresher(a, e) ==
    /\ e \in Entry /\ e.refilled = now
    /\ e.tokens <= Known(a, now).tokens + Fill(now - Known(a, now).refilled)
    /\ e.tokens <= 2 * Rate

LEMMA RefilledFresher ==
    ASSUME TypeOK, Timely, NEW a \in Addrs
    PROVE  Fresher(a, Refilled(Known(a, now)))
  <1>1. now \in Time /\ Known(a, now) \in Entry
    BY Conns, KnownType
  <1>2. Known(a, now).refilled <= now
    <2>1. CASE a \in DOMAIN entries
      BY <2>1 DEF Known, Timely
    <2>2. CASE a \notin DOMAIN entries
      BY <2>2, Conns DEF Known
    <2> QED
      BY <2>1, <2>2
  <1> QED
    BY <1>1, <1>2, RefilledType DEF Fresher

LEMMA EntryInserted ==
    ASSUME TypeOK, Timely, NEW a \in Addrs, NEW e \in Entry,
           e.refilled <= now, e.tokens <= 2 * Rate, entries' = Insert(entries, a, e), now' = now
    PROVE  /\ DOMAIN entries' \subseteq Addrs /\ entries' \in [DOMAIN entries' -> Entry]
           /\ \A x \in DOMAIN entries' : entries'[x].refilled <= now' /\ entries'[x].tokens <= 2 * Rate
  <1>1. DOMAIN entries \subseteq Addrs /\ entries \in [DOMAIN entries -> Entry]
    BY DEF TypeOK
  <1>2. DOMAIN entries' \subseteq Addrs /\ entries' \in [DOMAIN entries' -> Entry]
    BY <1>1, InsertType
  <1>3. DOMAIN entries' = DOMAIN entries \cup {a} /\ entries'[a] = e
        /\ \A x \in DOMAIN entries : x # a => entries'[x] = entries[x]
    BY DEF Insert
  <1> QED
    BY <1>2, <1>3 DEF Timely

LEMMA TurnAwayTyped ==
    ASSUME TypeOK, Timely, NEW a \in Addrs, TurnAway(a)
    PROVE  TypeOK' /\ Timely'
  <1> DEFINE e == Refilled(Known(a, now))
  <1>1. e \in Entry /\ e.refilled <= now /\ e.tokens <= 2 * Rate
    BY RefilledFresher, Conns DEF Fresher
  <1>2. entries' = Insert(entries, a, e) /\ now' = now
    BY DEF TurnAway
  <1> HIDE DEF e
  <1>3. /\ DOMAIN entries' \subseteq Addrs /\ entries' \in [DOMAIN entries' -> Entry]
        /\ \A x \in DOMAIN entries' : entries'[x].refilled <= now' /\ entries'[x].tokens <= 2 * Rate
    BY <1>1, <1>2, EntryInserted
  <1>4. TypeOK'
    BY <1>3 DEF TypeOK, TurnAway, relaying, backends
  <1> QED
    BY <1>3, <1>4 DEF Timely, TurnAway

LEMMA AcceptTyped ==
    ASSUME TypeOK, Timely, NEW a \in Addrs, Accept(a)
    PROVE  TypeOK' /\ Timely'
  <1> DEFINE f == Refilled(Known(a, now))
             e == Spend(f)
  <1>1. f \in Entry /\ f.refilled = now /\ f.tokens <= 2 * Rate /\ HasToken(f) /\ f.tokens \in Nat
    BY RefilledFresher, EntryFields DEF Fresher, Accept
  <1> HIDE DEF f
  <1>2. e \in Entry /\ e.refilled = now /\ e.tokens <= 2 * Rate
    <2>1. e \in Entry /\ e.refilled = now /\ e.tokens = f.tokens - 1
      BY <1>1, SpendType
    <2> HIDE DEF e
    <2>2. 2 * Rate \in Nat
      BY TimeIsNat
    <2> QED
      BY <1>1, <2>1, <2>2
  <1>3. entries' = Insert(entries, a, e) /\ now' = now
    BY DEF Accept, f
  <1> HIDE DEF e
  <1>4. /\ DOMAIN entries' \subseteq Addrs /\ entries' \in [DOMAIN entries' -> Entry]
        /\ \A x \in DOMAIN entries' : entries'[x].refilled <= now' /\ entries'[x].tokens <= 2 * Rate
    BY <1>2, <1>3, EntryInserted, Conns
  <1>5. Arrived(a) /\ accepted \in Nat /\ DOMAIN conns = 1 .. accepted
    BY AcceptArrives, Conns
  <1>6. /\ conns' \in [1 .. accepted' -> Connection] /\ accepted' \in 0 .. MaxConns
        /\ serving' \in 0 .. accepted'
    BY <1>5 DEF Arrived
  <1>7. TypeOK'
    BY <1>4, <1>6 DEF TypeOK, Accept, relaying, backends
  <1>8. \A c \in DOMAIN conns' : conns'[c].since <= now'
    <2>1. ASSUME NEW c \in DOMAIN conns PROVE conns'[c].since <= now'
      BY <1>3, <1>5 DEF Arrived, Timely
    <2>2. conns'[accepted'].since <= now'
      BY <1>3, <1>5, Conns DEF Arrived
    <2> QED
      BY <1>5, <2>1, <2>2 DEF Arrived
  <1> QED
    BY <1>4, <1>7, <1>8 DEF Timely

(* A step of the handshake that leaves the buckets alone. *)
LEMMA ChangedTyped ==
    ASSUME TypeOK, Timely, NEW st \in ConnectionState, NEW sv \in Servers \cup {NoServer},
           Changed(st, sv), UNCHANGED now
    PROVE  /\ accepted' = accepted => conns' \in [1 .. accepted' -> Connection]
           /\ \A c \in DOMAIN conns' : conns'[c].since <= now'
  <1>1. accepted' = accepted => conns' \in [1 .. accepted' -> Connection]
    BY Conns DEF Changed
  <1>2. \A c \in DOMAIN conns' : conns'[c].since <= now'
    BY DEF Changed, Timely
  <1> QED
    BY <1>1, <1>2

LEMMA FailureTyped ==
    ASSUME TypeOK, Timely, NEW a \in Addrs, NEW at \in Time, a \in DOMAIN entries,
           FailureCounted(a, at), now' = now
    PROVE  /\ DOMAIN entries' \subseteq Addrs /\ entries' \in [DOMAIN entries' -> Entry]
           /\ DOMAIN bans' \subseteq Addrs /\ bans' \in [DOMAIN bans' -> Nat]
           /\ DOMAIN entries' = DOMAIN entries
           /\ \A x \in DOMAIN entries : /\ entries'[x].tokens = entries[x].tokens
                                        /\ entries'[x].refilled = entries[x].refilled
           /\ \A x \in Addrs : x \in DOMAIN bans /\ bans[x] <= at
                                 => x \in DOMAIN bans' /\ bans'[x] >= bans[x]
           /\ \A x \in DOMAIN bans : x # a => x \in DOMAIN bans' /\ bans'[x] = bans[x]
  <1> DEFINE e == entries[a]
             clear == [e EXCEPT !.failures = 0]
             more == [e EXCEPT !.failures = @ + 1]
  <1>1. e \in Entry /\ Known(a, at) = e
    BY DEF TypeOK, Known
  <1>2. /\ clear \in Entry /\ clear.tokens = e.tokens /\ clear.refilled = e.refilled
        /\ more \in Entry /\ more.tokens = e.tokens /\ more.refilled = e.refilled
    BY <1>1 DEF Entry
  <1>3. at \in Nat /\ BanDuration \in Nat
    <2>1. {BanThreshold, BanDuration, CheckInterval, MaxRelays} \subseteq Nat
      BY GatewayAssumption
    <2> QED
      BY <2>1, TimeIsNat
  <1>4. \/ bans' = Insert(bans, a, at + BanDuration) /\ entries' = Insert(entries, a, clear)
        \/ bans' = bans /\ entries' = Insert(entries, a, more)
    BY <1>1 DEF FailureCounted
  <1> HIDE DEF clear, more
  <1>5. PICK n \in Entry : /\ entries' = Insert(entries, a, n)
                           /\ n.tokens = e.tokens /\ n.refilled = e.refilled
    BY <1>2, <1>4
  <1>6. DOMAIN entries' \subseteq Addrs /\ entries' \in [DOMAIN entries' -> Entry]
    BY <1>5 DEF Insert, TypeOK
  <1>7. /\ DOMAIN entries' = DOMAIN entries
        /\ \A x \in DOMAIN entries : entries'[x].tokens = entries[x].tokens
                                     /\ entries'[x].refilled = entries[x].refilled
    BY <1>5 DEF Insert
  <1>8. DOMAIN bans' \subseteq Addrs /\ bans' \in [DOMAIN bans' -> Nat]
    <2>1. DOMAIN bans \subseteq Addrs /\ bans \in [DOMAIN bans -> Nat] /\ at + BanDuration \in Nat
      BY <1>3 DEF TypeOK
    <2> QED
      BY <1>4, <2>1 DEF Insert
  <1>9. ASSUME NEW x \in DOMAIN bans
        PROVE  /\ x # a => x \in DOMAIN bans' /\ bans'[x] = bans[x]
               /\ bans[x] <= at => x \in DOMAIN bans' /\ bans'[x] >= bans[x]
    <2>1. bans[x] \in Nat
      BY DEF TypeOK
    <2>2. CASE bans' = bans
      BY <2>1, <2>2
    <2>3. CASE bans' = Insert(bans, a, at + BanDuration)
      BY <1>3, <2>1, <2>3 DEF Insert
    <2> QED
      BY <1>4, <2>2, <2>3
  <1> QED
    BY <1>6, <1>7, <1>8, <1>9

LEMMA HandshakeTyped ==
    ASSUME TypeOK, Timely, ServedOK, Handshake
    PROVE  TypeOK' /\ Timely'
  <1>0. /\ {"Connecting", "Authenticating", "Routing", "Established", "Terminated"} = ConnectionState
        /\ accepted \in Nat
    BY Conns DEF ConnectionState
  <1>1. CASE BreakOff
    <2>1. Changed("Terminated", conns[serving].server) /\ conns[serving] \in Connection
      BY <1>0, <1>1, MovedChanges, Served DEF BreakOff
    <2>2. /\ conns' \in [1 .. accepted' -> Connection]
          /\ \A c \in DOMAIN conns' : conns'[c].since <= now'
      BY <1>0, <1>1, <2>1, ChangedTyped, ConnectionFields DEF BreakOff
    <2> QED
      BY <1>0, <1>1, <2>2 DEF BreakOff, TypeOK, Timely, limits, relaying, backends, Nobody
  <1>2. CASE SendFails
    BY <1>0, <1>2 DEF SendFails, TypeOK, Timely, limits, relaying, backends, Nobody
  <1>3. CASE Hello
    <2>1. Changed("Authenticating", conns[serving].server) /\ conns[serving] \in Connection
      BY <1>0, <1>3, MovedChanges, Served DEF Hello
    <2>2. /\ conns' \in [1 .. accepted' -> Connection]
          /\ \A c \in DOMAIN conns' : conns'[c].since <= now'
      BY <1>0, <1>3, <2>1, ChangedTyped, ConnectionFields DEF Hello
    <2> QED
      BY <1>3, <2>2 DEF Hello, TypeOK, Timely, limits, relaying, backends
  <1>4. CASE Deny
    <2> DEFINE a == conns[serving].addr
               at == conns[serving].since
    <2>1. Changed("Terminated", conns[serving].server) /\ conns[serving] \in Connection
          /\ a \in Addrs /\ at \in Time /\ serving # Nobody
      BY <1>0, <1>4, MovedChanges, Served DEF Deny
    <2>2. /\ conns' \in [1 .. accepted' -> Connection]
          /\ \A c \in DOMAIN conns' : conns'[c].since <= now'
      BY <1>0, <1>4, <2>1, ChangedTyped, ConnectionFields DEF Deny
    <2>3. a \in DOMAIN entries /\ FailureCounted(a, at) /\ now' = now
      BY <1>4, <2>1 DEF Deny, ServedOK
    <2> HIDE DEF a, at
    <2>4. /\ DOMAIN entries' \subseteq Addrs /\ entries' \in [DOMAIN entries' -> Entry]
          /\ DOMAIN bans' \subseteq Addrs /\ bans' \in [DOMAIN bans' -> Nat]
          /\ DOMAIN entries' = DOMAIN entries
          /\ \A x \in DOMAIN entries : /\ entries'[x].tokens = entries[x].tokens
                                       /\ entries'[x].refilled = entries[x].refilled
      BY <2>1, <2>3, FailureTyped
    <2>5. TypeOK'
      BY <1>0, <1>4, <2>2, <2>4 DEF Deny, TypeOK, relaying, backends, Nobody
    <2> QED
      BY <1>4, <2>2, <2>4, <2>5 DEF Deny, Timely
  <1>5. CASE Login
    <2>1. Changed("Routing", conns[serving].server) /\ conns[serving] \in Connection
      BY <1>0, <1>5, MovedChanges, Served DEF Login
    <2>2. /\ conns' \in [1 .. accepted' -> Connection]
          /\ \A c \in DOMAIN conns' : conns'[c].since <= now'
      BY <1>0, <1>5, <2>1, ChangedTyped, ConnectionFields DEF Login
    <2> QED
      BY <1>5, <2>2 DEF Login, TypeOK, Timely, limits, relaying, backends
  <1>6. CASE RouteFails
    BY <1>0, <1>6 DEF RouteFails, TypeOK, Timely, limits, relaying, backends, Nobody
  <1>7. ASSUME NEW s \in Servers, NEW st \in {"Terminated", "Established"}, Routed(s, st),
               streams' \subseteq DOMAIN relays'
        PROVE  TypeOK' /\ Timely'
    <2>1. Changed(st, s) /\ st \in ConnectionState
      BY <1>0, <1>7, RoutedChanges
    <2>2. /\ conns' \in [1 .. accepted' -> Connection]
          /\ \A c \in DOMAIN conns' : conns'[c].since <= now'
      BY <1>7, <2>1, ChangedTyped DEF Routed
    <2>3. DOMAIN sticky' \subseteq Addrs /\ sticky' \in [DOMAIN sticky' -> Servers]
      <3>1. conns[serving].addr \in Addrs
        BY <1>7, Served DEF Routed
      <3>2. DOMAIN sticky \subseteq Addrs /\ sticky \in [DOMAIN sticky -> Servers]
        BY DEF TypeOK
      <3>3. \/ sticky' = sticky
            \/ sticky' = Insert(sticky, conns[serving].addr, s)
        BY <1>7 DEF Routed
      <3> QED
        BY <3>1, <3>2, <3>3 DEF Insert
    <2>4. TypeOK'
      BY <1>0, <1>7, <2>2, <2>3 DEF Routed, TypeOK, limits, backends, Nobody
    <2> QED
      BY <1>7, <2>2, <2>4 DEF Routed, Timely, limits
  <1>8. ASSUME NEW s \in Servers, BackendUnreachable(s) \/ BackendConnected(s)
        PROVE  TypeOK' /\ Timely'
    <2>1. streams \subseteq DOMAIN relays
      BY DEF TypeOK
    <2>2. CASE BackendUnreachable(s)
      BY <1>7, <2>1, <2>2 DEF BackendUnreachable
    <2>3. CASE BackendConnected(s)
      <3>1. streams' \subseteq DOMAIN relays'
        BY <2>1, <2>3 DEF BackendConnected, Insert
      <3> QED
        BY <1>7, <2>3, <3>1 DEF BackendConnected
    <2> QED
      BY <1>8, <2>2, <2>3
  <1> QED
    BY <1>1, <1>2, <1>3, <1>4, <1>5, <1>6, <1>8 DEF Handshake

LEMMA TicksTyped ==
    ASSUME TypeOK, Timely,
           \/ \E c \in Ids : StreamEnds(c)
           \/ HealthCheckTick
           \/ CleanupTick
           \/ \E s \in Reporting : RecordHeartbeat(s)
           \/ SecondPasses
    PROVE  TypeOK' /\ Timely'
  <1>1. ASSUME NEW c \in Ids, StreamEnds(c)
        PROVE  TypeOK' /\ Timely'
    BY <1>1 DEF StreamEnds, TypeOK, Timely, limits, backends
  <1>2. CASE HealthCheckTick
    <2>1. UnhealthyThreshold \in Nat
      BY GatewayAssumption
    <2>2. ASSUME NEW s \in Servers
          PROVE  Checked(s) \in Status
      <3> DEFINE n == Least(status[s].failures + 1, UnhealthyThreshold)
      <3>1. status[s].failures \in Nat /\ status[s].healthy \in BOOLEAN
        BY <2>1 DEF TypeOK, Status
      <3>2. n \in 0 .. UnhealthyThreshold
        BY <2>1, <3>1 DEF Least
      <3> HIDE DEF n
      <3>3. \/ Checked(s) = [healthy |-> TRUE, failures |-> 0]
            \/ Checked(s) = [healthy |-> status[s].healthy /\ n < UnhealthyThreshold, failures |-> n]
        BY DEF Checked, n
      <3> DEFINE b == status[s].healthy /\ n < UnhealthyThreshold
      <3>4. b \in BOOLEAN /\ TRUE \in BOOLEAN /\ 0 \in 0 .. UnhealthyThreshold
        BY <2>1
      <3> HIDE DEF b
      <3>5. \A x \in BOOLEAN, k \in 0 .. UnhealthyThreshold :
                [healthy |-> x, failures |-> k] \in Status
        BY DEF Status
      <3>6. \/ Checked(s) = [healthy |-> TRUE, failures |-> 0]
            \/ Checked(s) = [healthy |-> b, failures |-> n]
        BY <3>3 DEF b
      <3> QED
        BY <3>2, <3>4, <3>5, <3>6
    <2>3. status' \in [Servers -> Status] /\ healthy' \subseteq Servers
      BY <1>2, <2>2 DEF HealthCheckTick
    <2> QED
      BY <1>2, <2>3 DEF HealthCheckTick, TypeOK, Timely, limits, relaying
  <1>3. CASE CleanupTick
    <2>1. conns' = conns
      BY <1>3, CleanupKeeps
    <2>2. /\ DOMAIN entries' \subseteq DOMAIN entries /\ entries' \in [DOMAIN entries' -> Entry]
          /\ \A a \in DOMAIN entries' : entries'[a] = entries[a]
      BY <1>3 DEF CleanupTick, Restrict, TypeOK
    <2>3. DOMAIN bans' \subseteq DOMAIN bans /\ bans' \in [DOMAIN bans' -> Nat]
      BY <1>3 DEF CleanupTick, Restrict, TypeOK
    <2>4. TypeOK'
      BY <1>3, <2>1, <2>2, <2>3 DEF CleanupTick, TypeOK, relaying, backends
    <2> QED
      BY <1>3, <2>1, <2>2, <2>4 DEF CleanupTick, Timely
  <1>4. ASSUME NEW s \in Reporting, RecordHeartbeat(s)
        PROVE  TypeOK' /\ Timely'
    BY <1>4 DEF RecordHeartbeat, TypeOK, Timely, limits, relaying
  <1>5. CASE SecondPasses
    <2>1. now' \in Time /\ now' = now + 1 /\ now \in Nat
      BY <1>5, Conns, TimeIsNat DEF SecondPasses, Time
    <2>2. TypeOK'
      BY <1>5, <2>1 DEF SecondPasses, TypeOK, limits, relaying, backends
    <2>3. ASSUME NEW a \in DOMAIN entries PROVE entries[a].refilled \in Nat
      BY EntryFields, TimeIsNat DEF TypeOK
    <2>4. Timely'
      BY <1>5, <2>1, <2>3, Conns DEF SecondPasses, Timely, limits
    <2> QED
      BY <2>2, <2>4
  <1> QED
    BY <1>1, <1>2, <1>3, <1>4, <1>5

LEMMA TypeStep ==
    ASSUME TypeOK, Timely, ServedOK, [Next]_vars
    PROVE  TypeOK' /\ Timely'
  <1>1. CASE UNCHANGED vars
    BY <1>1 DEF vars, TypeOK, Timely, limits, relaying, backends
  <1>2. CASE Next
    BY <1>2, TurnAwayTyped, AcceptTyped, HandshakeTyped, TicksTyped DEF Next
  <1> QED
    BY <1>1, <1>2

-----------------------------------------------------------------------------
(* Health. *)

LEMMA HealthStep ==
    ASSUME TypeOK, HealthOK, [Next]_vars
    PROVE  HealthOK'
  <1>1. CASE HealthCheckTick
    <2>1. UnhealthyThreshold \in Nat \ {0}
      BY GatewayAssumption
    <2>2. ASSUME NEW s \in Servers, Checked(s).healthy
          PROVE  Checked(s).failures < UnhealthyThreshold
      <3> DEFINE n == Least(status[s].failures + 1, UnhealthyThreshold)
      <3> DEFINE b == status[s].healthy /\ n < UnhealthyThreshold
      <3>1. \/ Checked(s) = [healthy |-> TRUE, failures |-> 0]
            \/ Checked(s) = [healthy |-> b, failures |-> n]
        BY DEF Checked
      <3>2. b => n < UnhealthyThreshold
        OBVIOUS
      <3> HIDE DEF b, n
      <3>3. CASE Checked(s) = [healthy |-> TRUE, failures |-> 0]
        BY <2>1, <3>3
      <3>4. CASE Checked(s) = [healthy |-> b, failures |-> n]
        <4>1. Checked(s).healthy = b /\ Checked(s).failures = n
          BY <3>4
        <4> QED
          BY <2>2, <3>2, <4>1
      <3> QED
        BY <3>1, <3>3, <3>4
    <2>3. \A s \in Servers : /\ status'[s] = Checked(s)
                             /\ s \in healthy' => Checked(s).healthy
      BY <1>1 DEF HealthCheckTick
    <2> QED
      BY <2>2, <2>3 DEF HealthOK
  <1>2. CASE UNCHANGED <<healthy, status>>
    BY <1>2 DEF HealthOK
  <1>3. HealthCheckTick \/ UNCHANGED <<healthy, status>>
    BY DEF Next, vars, Handshake, TurnAway, Accept, BreakOff, SendFails, Hello, Deny, Login,
           RouteFails, BackendUnreachable, BackendConnected, Routed, StreamEnds, CleanupTick,
           RecordHeartbeat, SecondPasses, backends
  <1> QED
    BY <1>1, <1>2, <1>3

(* An unhealthy server is avoided: who is routed by health takes a healthy *)
(* one, and HealthOK says what that means.                                 *)
LEMMA AvoidedStep ==
    ASSUME TypeOK, HealthOK, [Next]_vars
    PROVE  \A c \in DOMAIN conns :
              /\ conns[c].server = NoServer /\ conns'[c].server \in Servers
              /\ strategy # "sticky"
              => status[conns'[c].server].failures < UnhealthyThreshold
  <1> SUFFICES ASSUME NEW c \in DOMAIN conns,
                      conns[c].server = NoServer, conns'[c].server \in Servers,
                      strategy # "sticky"
               PROVE  status[conns'[c].server].failures < UnhealthyThreshold
    OBVIOUS
  <1>0. NoServer \notin Servers
    BY GatewayAssumption
  <1>1. ASSUME NEW s \in Servers, NEW st \in ConnectionState, Routed(s, st)
        PROVE  status[conns'[c].server].failures < UnhealthyThreshold
    <2>1. Changed(st, s)
      BY <1>1, RoutedChanges
    <2>2. conns'[c].server = s
      BY <1>0, <2>1 DEF Changed
    <2>3. s \in healthy
      BY <1>1 DEF Routed, Targets
    <2> QED
      BY <2>2, <2>3 DEF HealthOK
  <1>2. ASSUME NEW st \in ConnectionState, NEW states, In(states), Moved(st)
        PROVE  FALSE
    <2>1. Changed(st, conns[serving].server)
      BY <1>2, MovedChanges
    <2>2. conns'[c].server = conns[c].server
      BY <2>1 DEF Changed
    <2> QED
      BY <1>0, <2>2
  <1>3. ASSUME NEW a \in Addrs, Accept(a)
        PROVE  FALSE
    BY <1>0, <1>3, AcceptArrives DEF Arrived
  <1>4. conns' # conns
    BY <1>0
  <1>5. \/ \E a \in Addrs : Accept(a)
        \/ BreakOff \/ Hello \/ Deny \/ Login
        \/ \E s \in Servers : Routed(s, "Terminated") \/ Routed(s, "Established")
    BY <1>4, CleanupKeeps DEF Next, vars, Handshake, TurnAway, SendFails, RouteFails,
           BackendUnreachable, BackendConnected, StreamEnds, HealthCheckTick,
           RecordHeartbeat, SecondPasses
  <1>6. "Terminated" \in ConnectionState /\ "Established" \in ConnectionState
        /\ "Authenticating" \in ConnectionState /\ "Routing" \in ConnectionState
    BY DEF ConnectionState
  <1>7. ~(BreakOff \/ Hello \/ Deny \/ Login)
    BY <1>2, <1>6 DEF BreakOff, Hello, Deny, Login
  <1> QED
    BY <1>1, <1>3, <1>5, <1>6, <1>7

-----------------------------------------------------------------------------
(* Bans. *)

LEMMA ServedStep ==
    ASSUME TypeOK, Timely, ServedOK, [Next]_vars
    PROVE  ServedOK'
  <1> SUFFICES ASSUME serving' # Nobody
               PROVE  /\ conns'[serving'].addr \in DOMAIN entries'
                      /\ conns'[serving'].addr \in DOMAIN bans'
                            => bans'[conns'[serving'].addr] <= conns'[serving'].since
    BY DEF ServedOK
  <1>1. ASSUME NEW a \in Addrs, Accept(a)
        PROVE  ServedOK'
    <2>1. conns'[serving'].addr = a /\ conns'[serving'].since = now
      BY <1>1, AcceptArrives DEF Arrived
    <2>2. a \in DOMAIN entries' /\ bans' = bans /\ ~Banned(a)
      BY <1>1 DEF Accept, Insert
    <2>3. a \in DOMAIN bans => bans[a] <= now
      BY <2>2, Conns DEF Banned, TypeOK
    <2> QED
      BY <2>1, <2>2, <2>3 DEF ServedOK
  <1>2. ASSUME NEW st \in ConnectionState, NEW states, In(states), Moved(st),
               UNCHANGED <<serving, limits>>
        PROVE  ServedOK'
    <2>1. Changed(st, conns[serving].server) /\ serving \in DOMAIN conns
      BY <1>2, MovedChanges, Served
    <2> QED
      BY <1>2, <2>1 DEF ServedOK, Changed, limits
  <1>3. Hello \/ Login => ServedOK'
    BY <1>2 DEF Hello, Login, ConnectionState
  <1>4. Handshake => Hello \/ Login
    BY DEF Handshake, BreakOff, SendFails, Deny, RouteFails, Nobody,
           BackendUnreachable, BackendConnected, Routed
  <1>5. \/ \E a \in Addrs : Accept(a)
        \/ Handshake
        \/ UNCHANGED <<serving, conns, entries, bans>>
    BY DEF Next, vars, TurnAway, HealthCheckTick, CleanupTick, RecordHeartbeat, Nobody,
           StreamEnds, SecondPasses, limits
  <1>6. CASE UNCHANGED <<serving, conns, entries, bans>>
    BY <1>6 DEF ServedOK
  <1> QED
    BY <1>1, <1>3, <1>4, <1>5, <1>6 DEF ServedOK

(* A ban is served: a step that imposes one on an address serves a client  *)
(* that was accepted when no ban ran.                                      *)
LEMMA BanStep ==
    ASSUME TypeOK, Timely, ServedOK, [Next]_vars
    PROVE  \A a \in DOMAIN bans : now < bans[a] => a \in DOMAIN bans' /\ bans'[a] >= bans[a]
  <1> SUFFICES ASSUME NEW a \in DOMAIN bans, now < bans[a]
               PROVE  a \in DOMAIN bans' /\ bans'[a] >= bans[a]
    OBVIOUS
  <1>0. bans[a] \in Nat /\ a \in Addrs
    BY DEF TypeOK
  <1>1. CASE Deny
    <2> DEFINE b == conns[serving].addr
               at == conns[serving].since
    <2>1. b \in Addrs /\ at \in Time /\ serving # Nobody /\ serving \in DOMAIN conns
      BY <1>1, Served DEF Deny
    <2>2. b \in DOMAIN entries /\ FailureCounted(b, at) /\ now' = now
          /\ (b \in DOMAIN bans => bans[b] <= at)
      BY <1>1, <2>1 DEF Deny, ServedOK
    <2> HIDE DEF b, at
    <2>3. /\ \A x \in Addrs : x \in DOMAIN bans /\ bans[x] <= at
                                 => x \in DOMAIN bans' /\ bans'[x] >= bans[x]
          /\ \A x \in DOMAIN bans : x # b => x \in DOMAIN bans' /\ bans'[x] = bans[x]
      BY <2>1, <2>2, FailureTyped
    <2> QED
      BY <1>0, <2>2, <2>3
  <1>2. CASE CleanupTick
    BY <1>0, <1>2 DEF CleanupTick, BanRuns, Restrict
  <1>3. CASE UNCHANGED bans
    BY <1>0, <1>3
  <1>4. Deny \/ CleanupTick \/ UNCHANGED bans
    BY DEF Next, vars, Handshake, TurnAway, Accept, BreakOff, SendFails, Hello, Login,
           RouteFails, BackendUnreachable, BackendConnected, Routed, StreamEnds, HealthCheckTick,
           RecordHeartbeat, SecondPasses, limits
  <1> QED
    BY <1>1, <1>2, <1>3, <1>4

-----------------------------------------------------------------------------
(* Relays. *)

(* A connection that is still served has neither a server nor a relay.     *)
LEMMA ServedHasNoServer ==
    ASSUME TypeOK, ServersOK, RelaysAccounted, NEW states, In(states),
           states \subseteq {"Connecting", "Authenticating", "Routing"}
    PROVE  /\ conns[serving].server = NoServer
           /\ serving \notin DOMAIN routes /\ serving \notin DOMAIN relays
  <1>1. serving \in DOMAIN conns /\ conns[serving].state \notin {"Established", "Terminated"}
    BY Served
  <1>2. conns[serving].server = NoServer
    BY <1>1 DEF ServersOK
  <1>3. serving \notin DOMAIN routes
    BY <1>2 DEF RelaysAccounted
  <1> QED
    BY <1>2, <1>3 DEF RelaysAccounted

LEMMA MovedRelays ==
    ASSUME TypeOK, ServersOK, RelaysAccounted, NEW states, In(states),
           states \subseteq {"Connecting", "Authenticating", "Routing"},
           NEW st \in ConnectionState, Moved(st), UNCHANGED <<routes, relays>>
    PROVE  ServersOK' /\ RelaysAccounted'
  <1>1. Changed(st, conns[serving].server)
    BY MovedChanges
  <1>2. /\ conns[serving].server = NoServer
        /\ serving \notin DOMAIN routes /\ serving \notin DOMAIN relays
    BY ServedHasNoServer
  <1>3. /\ DOMAIN conns' = DOMAIN conns
        /\ \A c \in DOMAIN conns : conns'[c].server = conns[c].server
                                   /\ (c # serving => conns'[c].state = conns[c].state)
    BY <1>1 DEF Changed
  <1>4. ServersOK'
    BY <1>2, <1>3 DEF ServersOK
  <1>5. DOMAIN routes' = {c \in DOMAIN conns' : conns'[c].server # NoServer}
    BY <1>3 DEF RelaysAccounted
  <1>6. \A c \in DOMAIN routes' : conns'[c].server = routes'[c]
    BY <1>3 DEF RelaysAccounted
  <1>7. DOMAIN relays' \subseteq {c \in DOMAIN routes' : conns'[c].state = "Established"}
    BY <1>2, <1>3 DEF RelaysAccounted
  <1> QED
    BY <1>4, <1>5, <1>6, <1>7 DEF RelaysAccounted

LEMMA RoutedRelays ==
    ASSUME TypeOK, ServersOK, RelaysAccounted, NEW s \in Servers,
           BackendUnreachable(s) \/ BackendConnected(s)
    PROVE  ServersOK' /\ RelaysAccounted'
  <1>0. NoServer \notin Servers /\ s # NoServer
    BY GatewayAssumption
  <1>1. PICK st \in {"Terminated", "Established"} :
            /\ Routed(s, st)
            /\ BackendUnreachable(s) => UNCHANGED relays
            /\ BackendConnected(s) => st = "Established"
    BY DEF BackendUnreachable, BackendConnected
  <1>2. st \in ConnectionState /\ Changed(st, s) /\ serving \in DOMAIN conns
    BY <1>1, RoutedChanges, Served DEF ConnectionState, Routed
  <1>3. serving \notin DOMAIN routes /\ serving \notin DOMAIN relays
    BY <1>1, ServedHasNoServer DEF Routed
  <1>4. /\ DOMAIN conns' = DOMAIN conns
        /\ conns'[serving].server = s /\ conns'[serving].state = st
        /\ \A c \in DOMAIN conns : c # serving => conns'[c] = conns[c]
    BY <1>2 DEF Changed
  <1>5. ServersOK'
    BY <1>1, <1>4 DEF ServersOK
  <1>6. /\ DOMAIN routes' = DOMAIN routes \cup {serving} /\ routes'[serving] = s
        /\ \A c \in DOMAIN routes : routes'[c] = routes[c]
    BY <1>1, <1>3 DEF Routed, Insert
  <1>7. DOMAIN routes' = {c \in DOMAIN conns' : conns'[c].server # NoServer}
    BY <1>0, <1>2, <1>4, <1>6 DEF RelaysAccounted
  <1>8. \A c \in DOMAIN routes' : conns'[c].server = routes'[c]
    BY <1>3, <1>4, <1>6 DEF RelaysAccounted
  <1>9. CASE UNCHANGED relays
    <2>1. DOMAIN relays' \subseteq {c \in DOMAIN routes' : conns'[c].state = "Established"}
          /\ \A c \in DOMAIN relays' : relays'[c] = routes'[c]
      BY <1>3, <1>4, <1>6, <1>9 DEF RelaysAccounted
    <2> QED
      BY <1>5, <1>7, <1>8, <1>9, <2>1 DEF RelaysAccounted
  <1>10. CASE BackendConnected(s) /\ ~RelayRefused
    <2>1. /\ DOMAIN relays' = DOMAIN relays \cup {serving} /\ relays'[serving] = s
          /\ \A c \in DOMAIN relays : relays'[c] = relays[c]
      BY <1>3, <1>10 DEF BackendConnected, Insert
    <2>2. DOMAIN relays' \subseteq {c \in DOMAIN routes' : conns'[c].state = "Established"}
          /\ \A c \in DOMAIN relays' : relays'[c] = routes'[c]
      BY <1>1, <1>3, <1>4, <1>6, <1>10, <2>1 DEF RelaysAccounted
    <2>3. Cardinality(DOMAIN relays') <= MaxRelays
      <3>1. DOMAIN conns = 1 .. accepted /\ accepted \in Nat
        BY Conns
      <3>2. IsFiniteSet(DOMAIN conns)
        BY <3>1, FS_Interval
      <3>3. DOMAIN relays \subseteq DOMAIN conns
        BY DEF RelaysAccounted
      <3>4. IsFiniteSet(DOMAIN relays) /\ Cardinality(DOMAIN relays) \in Nat
        BY <3>2, <3>3, FS_Subset, FS_CardinalityType
      <3>5. Cardinality(DOMAIN relays \cup {serving}) = Cardinality(DOMAIN relays) + 1
        BY <1>3, <3>4, FS_AddElement
      <3>6. {BanThreshold, BanDuration, CheckInterval, MaxRelays} \subseteq Nat
        BY GatewayAssumption
      <3>7. MaxRelays \in Nat /\ ~(Cardinality(DOMAIN relays) >= MaxRelays)
        BY <1>10, <3>6 DEF RelayRefused
      <3> QED
        BY <2>1, <3>4, <3>5, <3>7
    <2> QED
      BY <1>5, <1>7, <1>8, <2>2, <2>3 DEF RelaysAccounted
  <1> QED
    BY <1>1, <1>9, <1>10 DEF BackendConnected

LEMMA RelaysStep ==
    ASSUME TypeOK, ServersOK, RelaysAccounted, [Next]_vars
    PROVE  ServersOK' /\ RelaysAccounted'
  <1>1. ASSUME NEW a \in Addrs, Accept(a)
        PROVE  ServersOK' /\ RelaysAccounted'
    <2>1. Arrived(a)
      BY <1>1, AcceptArrives
    <2>2. /\ DOMAIN conns' = DOMAIN conns \cup {accepted'} /\ accepted' \notin DOMAIN conns
          /\ conns'[accepted'].server = NoServer
          /\ \A c \in DOMAIN conns : conns'[c] = conns[c]
      BY <2>1 DEF Arrived
    <2>3. routes' = routes /\ relays' = relays
      BY <1>1 DEF Accept, relaying
    <2>4. ServersOK'
      BY <2>2 DEF ServersOK
    <2>5. DOMAIN routes' = {c \in DOMAIN conns' : conns'[c].server # NoServer}
      BY <2>2, <2>3 DEF RelaysAccounted
    <2>6. \A c \in DOMAIN routes' : conns'[c].server = routes'[c]
      BY <2>2, <2>3 DEF RelaysAccounted
    <2>7. DOMAIN relays' \subseteq {c \in DOMAIN routes' : conns'[c].state = "Established"}
      BY <2>2, <2>3 DEF RelaysAccounted
    <2> QED
      BY <2>3, <2>4, <2>5, <2>6, <2>7 DEF RelaysAccounted
  <1>2. ASSUME BreakOff \/ Hello \/ Deny \/ Login
        PROVE  ServersOK' /\ RelaysAccounted'
    <2>1. "Terminated" \in ConnectionState /\ "Authenticating" \in ConnectionState
          /\ "Routing" \in ConnectionState
      BY DEF ConnectionState
    <2>2. CASE BreakOff
      BY <2>1, <2>2, MovedRelays DEF BreakOff, relaying
    <2>3. CASE Hello
      BY <2>1, <2>3, MovedRelays DEF Hello, relaying
    <2>4. CASE Deny
      BY <2>1, <2>4, MovedRelays DEF Deny, relaying
    <2>5. CASE Login
      BY <2>1, <2>5, MovedRelays DEF Login, relaying
    <2> QED
      BY <1>2, <2>2, <2>3, <2>4, <2>5
  <1>3. ASSUME NEW s \in Servers, BackendUnreachable(s) \/ BackendConnected(s)
        PROVE  ServersOK' /\ RelaysAccounted'
    BY <1>3, RoutedRelays
  <1>4. CASE UNCHANGED <<conns, routes, relays>>
    BY <1>4 DEF ServersOK, RelaysAccounted
  <1>5. Handshake => \/ BreakOff \/ Hello \/ Deny \/ Login
                     \/ \E s \in Servers : BackendUnreachable(s) \/ BackendConnected(s)
                     \/ UNCHANGED <<conns, routes, relays>>
    BY DEF Handshake, SendFails, RouteFails, relaying
  <1>6. CASE Handshake
    BY <1>2, <1>3, <1>4, <1>5, <1>6
  <1>7. \/ \E a \in Addrs : Accept(a)
        \/ Handshake
        \/ UNCHANGED <<conns, routes, relays>>
    BY CleanupKeeps DEF Next, vars, TurnAway, StreamEnds, HealthCheckTick, CleanupTick,
                        RecordHeartbeat, SecondPasses, relaying
  <1> QED
    BY <1>1, <1>4, <1>6, <1>7

-----------------------------------------------------------------------------
(* The budget. *)

LEMMA TotalType ==
    ASSUME TypeOK, NEW a, NEW from
    PROVE  Total(conns, a, from) \in Nat /\ IsFiniteSet(Came(conns, a, from))
  <1>1. DOMAIN conns = 1 .. accepted /\ accepted \in Nat
    BY Conns
  <1>2. IsFiniteSet(DOMAIN conns)
    BY <1>1, FS_Interval
  <1>3. Came(conns, a, from) \subseteq DOMAIN conns
    BY DEF Came
  <1> QED
    BY <1>2, <1>3, FS_Subset, FS_CardinalityType DEF Total

LEMMA NoneLater ==
    ASSUME TypeOK, Timely, NEW a, NEW from \in Nat, from > now
    PROVE  Total(conns, a, from) = 0
  <1>1. ASSUME NEW c \in DOMAIN conns PROVE ~(conns[c].since >= from)
    BY Conns DEF Timely
  <1>2. Came(conns, a, from) = {}
    BY <1>1 DEF Came
  <1> QED
    BY <1>2, FS_EmptySet DEF Total

(* The connections of an address do not change with their states. *)
LEMMA SameCame ==
    ASSUME NEW cs, NEW ds, DOMAIN ds = DOMAIN cs,
           \A c \in DOMAIN cs : ds[c].addr = cs[c].addr /\ ds[c].since = cs[c].since,
           NEW a, NEW from
    PROVE  Total(ds, a, from) = Total(cs, a, from)
  <1>1. Came(ds, a, from) = Came(cs, a, from)
    BY DEF Came
  <1> QED
    BY <1>1 DEF Total

LEMMA BudgetOfEntry ==
    ASSUME TypeOK, Timely, Budget, NEW a \in DOMAIN entries, NEW from \in Time
    PROVE  /\ a \in Addrs
           /\ entries[a].tokens \in Nat /\ entries[a].refilled \in Nat
           /\ entries[a].tokens <= 2 * Rate /\ entries[a].refilled <= now
           /\ from <= entries[a].refilled
                => Total(conns, a, from) + entries[a].tokens <= Fill(2 + entries[a].refilled - from)
           /\ from > entries[a].refilled => Total(conns, a, from) = 0
  <1>1. a \in Addrs /\ entries[a] \in Entry
    BY DEF TypeOK
  <1>2. BudgetOf(entries, now, conns, a, from)
    BY <1>1 DEF Budget
  <1> QED
    BY <1>1, <1>2, EntryFields, TimeIsNat DEF BudgetOf, Timely

LEMMA BudgetOfNone ==
    ASSUME TypeOK, Budget, NEW a \in Addrs, a \notin DOMAIN entries, NEW from \in Time, from <= now
    PROVE  Total(conns, a, from) + Rate <= Fill(2 + now - from)
  <1>1. BudgetOf(entries, now, conns, a, from)
    BY DEF Budget
  <1> QED
    BY <1>1 DEF BudgetOf

(* A refill keeps to the budget. *)
LEMMA BudgetRefilled ==
    ASSUME TypeOK, Timely, Budget, NEW a \in Addrs, NEW from \in Time, from <= now
    PROVE  Total(conns, a, from) + Refilled(Known(a, now)).tokens <= Fill(2 + now - from)
  <1> DEFINE e == Refilled(Known(a, now))
             n == Total(conns, a, from)
  <1>0. now \in Nat /\ from \in Nat /\ n \in Nat /\ Rate \in Nat
    BY Conns, TimeIsNat, TotalType
  <1>1. /\ e \in Entry /\ e.tokens \in Nat
        /\ e.tokens <= Known(a, now).tokens + Fill(now - Known(a, now).refilled)
        /\ e.tokens <= Fill(2)
    BY RefilledFresher, EntryFields, FillTwo DEF Fresher
  <1>2. 2 + now - from \in Nat /\ 2 <= 2 + now - from
    BY <1>0
  <1>3. Fill(2) <= Fill(2 + now - from) /\ Fill(2) \in Nat /\ Fill(2 + now - from) \in Nat
    BY <1>2, FillGrows, FillType
  <1> HIDE DEF e, n
  <1>4. CASE a \in DOMAIN entries
    <2> DEFINE t == entries[a].tokens
               l == entries[a].refilled
    <2>1. /\ t \in Nat /\ l \in Nat /\ l <= now
          /\ from <= l => n + t <= Fill(2 + l - from)
          /\ from > l => n = 0
      BY <1>4, BudgetOfEntry DEF n
    <2>2. e.tokens <= t + Fill(now - l)
      BY <1>1, <1>4 DEF Known
    <2> HIDE DEF t, l
    <2>3. CASE from <= l
      <3>1. 2 + l - from \in Nat /\ now - l \in Nat
        BY <1>0, <2>1, <2>3
      <3>2. Fill((2 + l - from) + (now - l)) = Fill(2 + l - from) + Fill(now - l)
        BY <3>1, FillAdds
      <3>3. (2 + l - from) + (now - l) = 2 + now - from
        BY <1>0, <2>1
      <3>4. Fill(2 + l - from) \in Nat /\ Fill(now - l) \in Nat
        BY <3>1, FillType
      <3>5. n + e.tokens <= Fill(2 + l - from) + Fill(now - l)
        BY <1>0, <1>1, <2>1, <2>2, <2>3, <3>4
      <3> QED
        BY <3>2, <3>3, <3>5 DEF e, n
    <2>4. CASE from > l
      <3>1. n + e.tokens <= Fill(2 + now - from)
        BY <1>1, <1>3, <2>1, <2>4
      <3> QED
        BY <3>1 DEF e, n
    <2> QED
      BY <1>0, <2>1, <2>3, <2>4
  <1>5. CASE a \notin DOMAIN entries
    <2>1. n + Rate <= Fill(2 + now - from)
      BY <1>5, BudgetOfNone DEF n
    <2>2. Known(a, now).tokens = Rate /\ Known(a, now).refilled = now
      BY <1>5 DEF Known
    <2>3. e.tokens <= Rate
      BY <1>0, <1>1, <2>2, FillTwo
    <2>4. n + e.tokens <= Fill(2 + now - from)
      BY <1>0, <1>1, <1>3, <2>1, <2>3
    <2> QED
      BY <2>4 DEF e, n
  <1> QED
    BY <1>4, <1>5

LEMMA TurnAwayBudget ==
    ASSUME TypeOK, Timely, Budget, NEW a \in Addrs, TurnAway(a)
    PROVE  Budget'
  <1> DEFINE e == Refilled(Known(a, now))
  <1>1. entries' = Insert(entries, a, e) /\ now' = now /\ conns' = conns /\ e.refilled = now
    BY RefilledFresher DEF TurnAway, Fresher
  <1> SUFFICES ASSUME NEW x \in Addrs, NEW from \in Time
               PROVE  BudgetOf(entries', now', conns', x, from)
    BY DEF Budget
  <1>2. CASE x # a
    <2>1. BudgetOf(entries, now, conns, x, from)
      BY DEF Budget
    <2>2. x \in DOMAIN entries' <=> x \in DOMAIN entries
      BY <1>1, <1>2 DEF Insert
    <2>3. x \in DOMAIN entries => entries'[x] = entries[x]
      BY <1>1, <1>2 DEF Insert
    <2> QED
      BY <1>1, <2>1, <2>2, <2>3 DEF BudgetOf
  <1>3. CASE x = a
    <2>1. a \in DOMAIN entries' /\ entries'[a] = e
      BY <1>1 DEF Insert
    <2>2. from <= now => Total(conns, a, from) + e.tokens <= Fill(2 + now - from)
      BY BudgetRefilled
    <2>3. from > now => Total(conns, a, from) = 0
      BY NoneLater, TimeIsNat
    <2> QED
      BY <1>1, <1>3, <2>1, <2>2, <2>3 DEF BudgetOf
  <1> QED
    BY <1>2, <1>3

(* A connection is paid for with a token. *)
LEMMA ArrivedTotal ==
    ASSUME TypeOK, NEW a \in Addrs, Arrived(a), NEW x \in Addrs, NEW from \in Time
    PROVE  /\ x # a \/ from > now => Came(conns', x, from) = Came(conns, x, from)
           /\ Total(conns', x, from) \in Nat
           /\ Total(conns', x, from) <= Total(conns, x, from) + 1
  <1>0. now \in Nat /\ from \in Nat
    BY Conns, TimeIsNat
  <1>1. /\ DOMAIN conns' = DOMAIN conns \cup {accepted'} /\ accepted' \notin DOMAIN conns
        /\ conns'[accepted'].addr = a /\ conns'[accepted'].since = now
        /\ \A c \in DOMAIN conns : conns'[c] = conns[c]
    BY DEF Arrived
  <1>2. x # a \/ from > now => Came(conns', x, from) = Came(conns, x, from)
    BY <1>0, <1>1 DEF Came
  <1>3. Came(conns', x, from) \subseteq Came(conns, x, from) \cup {accepted'}
    BY <1>1 DEF Came
  <1>4. IsFiniteSet(Came(conns, x, from)) /\ Total(conns, x, from) \in Nat
    BY TotalType
  <1>5. accepted' \notin Came(conns, x, from)
    BY <1>1 DEF Came
  <1>6. /\ IsFiniteSet(Came(conns, x, from) \cup {accepted'})
        /\ Cardinality(Came(conns, x, from) \cup {accepted'}) = Total(conns, x, from) + 1
    BY <1>4, <1>5, FS_AddElement DEF Total
  <1>7. /\ Cardinality(Came(conns', x, from)) \in Nat
        /\ Cardinality(Came(conns', x, from)) <= Cardinality(Came(conns, x, from) \cup {accepted'})
    BY <1>3, <1>6, FS_Subset, FS_CardinalityType
  <1> QED
    BY <1>2, <1>6, <1>7 DEF Total

LEMMA AcceptBudget ==
    ASSUME TypeOK, Timely, Budget, NEW a \in Addrs, Accept(a)
    PROVE  Budget'
  <1> DEFINE f == Refilled(Known(a, now))
             e == Spend(f)
  <1>1. /\ f \in Entry /\ f.refilled = now /\ f.tokens \in Nat /\ HasToken(f)
    BY RefilledFresher, EntryFields DEF Fresher, Accept
  <1>2. e.tokens = f.tokens - 1 /\ e.refilled = now
    BY <1>1, SpendType
  <1>3. entries' = Insert(entries, a, e) /\ now' = now /\ Arrived(a)
    BY AcceptArrives DEF Accept
  <1> SUFFICES ASSUME NEW x \in Addrs, NEW from \in Time
               PROVE  BudgetOf(entries', now', conns', x, from)
    BY DEF Budget
  <1>4. CASE x # a
    <2>1. BudgetOf(entries, now, conns, x, from)
      BY DEF Budget
    <2>2. x \in DOMAIN entries' <=> x \in DOMAIN entries
      BY <1>3, <1>4 DEF Insert
    <2>3. x \in DOMAIN entries => entries'[x] = entries[x]
      BY <1>3, <1>4 DEF Insert
    <2>4. Total(conns', x, from) = Total(conns, x, from)
      BY <1>3, <1>4, ArrivedTotal DEF Total
    <2> QED
      BY <1>3, <2>1, <2>2, <2>3, <2>4 DEF BudgetOf
  <1>5. CASE x = a
    <2>1. a \in DOMAIN entries' /\ entries'[a] = e
      BY <1>3 DEF Insert
    <2>2. ASSUME from <= now
          PROVE  Total(conns', a, from) + e.tokens <= Fill(2 + now - from)
      <3>1. Total(conns, a, from) + f.tokens <= Fill(2 + now - from)
        BY <2>2, BudgetRefilled
      <3>2. /\ Total(conns', a, from) \in Nat /\ Total(conns, a, from) \in Nat
            /\ Total(conns', a, from) <= Total(conns, a, from) + 1
        BY <1>3, ArrivedTotal, TotalType
      <3>3. 2 + now - from \in Nat
        BY <2>2, Conns, TimeIsNat
      <3>4. Fill(2 + now - from) \in Nat
        BY <3>3, FillType
      <3> HIDE DEF e, f
      <3> QED
        BY <1>1, <1>2, <3>1, <3>2, <3>4
    <2>3. ASSUME from > now PROVE Total(conns', a, from) = 0
      <3>1. Total(conns', a, from) = Total(conns, a, from)
        BY <1>3, <2>3, ArrivedTotal DEF Total
      <3> QED
        BY <2>3, <3>1, NoneLater, TimeIsNat
    <2> QED
      BY <1>2, <1>3, <1>5, <2>1, <2>2, <2>3 DEF BudgetOf
  <1> QED
    BY <1>4, <1>5

(* A bucket is forgotten when two windows have passed since its refill: it *)
(* would be full again, and the next one starts half full.                 *)
LEMMA CleanupBudget ==
    ASSUME TypeOK, Timely, Budget, CleanupTick
    PROVE  Budget'
  <1>1. conns' = conns /\ now' = now /\ now \in Nat
    BY CleanupKeeps, Conns DEF CleanupTick
  <1>2. /\ DOMAIN entries' = {a \in DOMAIN entries : Fresh(a)}
        /\ \A a \in DOMAIN entries' : entries'[a] = entries[a]
    BY DEF CleanupTick, Restrict
  <1> SUFFICES ASSUME NEW a \in Addrs, NEW from \in Time
               PROVE  BudgetOf(entries', now', conns', a, from)
    BY DEF Budget
  <1>3. BudgetOf(entries, now, conns, a, from)
    BY DEF Budget
  <1>4. CASE a \in DOMAIN entries => Fresh(a)
    BY <1>1, <1>2, <1>3, <1>4 DEF BudgetOf
  <1>5. CASE a \in DOMAIN entries /\ ~Fresh(a)
    <2> DEFINE t == entries[a].tokens
               l == entries[a].refilled
               n == Total(conns, a, from)
    <2>1. /\ t \in Nat /\ l \in Nat /\ l <= now
          /\ from <= l => n + t <= Fill(2 + l - from)
          /\ from > l => n = 0
      BY <1>5, BudgetOfEntry
    <2>2. now - l >= 2 * Window
      BY <1>1, <1>5, <2>1, TimeIsNat DEF Fresh
    <2>3. n \in Nat /\ from \in Nat
      BY TotalType, TimeIsNat
    <2> HIDE DEF t, l, n
    <2>4. l + 2 <= now
      BY <1>1, <2>1, <2>2, TimeIsNat
    <2>5. ASSUME from <= now
          PROVE  n + Rate <= Fill(2 + now - from)
      <3>1. 2 + now - from \in Nat /\ 1 <= 2 + now - from /\ 1 \in Nat
        BY <1>1, <2>3, <2>5
      <3>2. CASE from <= l
        <4>1. 2 + l - from \in Nat /\ (2 + l - from) + 1 \in Nat
              /\ (2 + l - from) + 1 <= 2 + now - from
          BY <1>1, <2>1, <2>3, <2>4, <3>2
        <4>2. Fill((2 + l - from) + 1) = Fill(2 + l - from) + Fill(1)
          BY <4>1, FillAdds
        <4>3. Fill((2 + l - from) + 1) <= Fill(2 + now - from)
          BY <3>1, <4>1, FillGrows
        <4>4. Fill(2 + l - from) \in Nat /\ Fill(2 + now - from) \in Nat /\ Fill(1) = Rate
          BY <3>1, <4>1, FillType, FillTwo
        <4> QED
          BY <2>1, <2>3, <3>2, <4>2, <4>3, <4>4, TimeIsNat
      <3>3. CASE from > l
        BY <2>1, <3>1, <3>3, FillGrows, FillTwo, TimeIsNat
      <3> QED
        BY <2>1, <2>3, <3>2, <3>3
    <2>6. from > now => n = 0
      BY <1>1, <2>1, <2>3
    <2>7. a \notin DOMAIN entries'
      BY <1>2, <1>5
    <2> QED
      BY <1>1, <2>5, <2>6, <2>7 DEF BudgetOf, n
  <1> QED
    BY <1>4, <1>5

LEMMA SecondBudget ==
    ASSUME TypeOK, Timely, Budget, SecondPasses
    PROVE  Budget'
  <1>1. conns' = conns /\ now' = now + 1 /\ entries' = entries /\ now \in Nat
    BY Conns DEF SecondPasses, limits
  <1> SUFFICES ASSUME NEW a \in Addrs, NEW from \in Time
               PROVE  BudgetOf(entries', now', conns', a, from)
    BY DEF Budget
  <1>2. BudgetOf(entries, now, conns, a, from)
    BY DEF Budget
  <1>3. CASE a \in DOMAIN entries
    BY <1>1, <1>2, <1>3 DEF BudgetOf
  <1>4. CASE a \notin DOMAIN entries
    <2> DEFINE n == Total(conns, a, from)
    <2>1. n \in Nat /\ from \in Nat
      BY TotalType, TimeIsNat
    <2>2. from > now => n = 0
      BY <2>1, NoneLater
    <2>3. from <= now => n + Rate <= Fill(2 + now - from)
      BY <1>4, BudgetOfNone
    <2> HIDE DEF n
    <2>4. ASSUME from <= now + 1
          PROVE  n + Rate <= Fill(2 + (now + 1) - from)
      <3>1. CASE from <= now
        <4>1. 2 + now - from \in Nat /\ 2 + (now + 1) - from \in Nat
              /\ 2 + now - from <= 2 + (now + 1) - from
          BY <1>1, <2>1, <3>1
        <4>2. Fill(2 + now - from) <= Fill(2 + (now + 1) - from)
              /\ Fill(2 + now - from) \in Nat /\ Fill(2 + (now + 1) - from) \in Nat
          BY <4>1, FillGrows, FillType
        <4> QED
          BY <2>1, <2>3, <3>1, <4>2, TimeIsNat
      <3>2. CASE from > now
        <4>1. 2 + (now + 1) - from \in Nat /\ 1 <= 2 + (now + 1) - from /\ 1 \in Nat
          BY <1>1, <2>1, <2>4
        <4>2. Fill(1) <= Fill(2 + (now + 1) - from) /\ Fill(1) = Rate
          BY <4>1, FillGrows, FillTwo
        <4> QED
          BY <2>2, <3>2, <4>2, TimeIsNat
      <3> QED
        BY <1>1, <2>1, <3>1, <3>2
    <2>5. from > now + 1 => n = 0
      BY <1>1, <2>1, <2>2
    <2> QED
      BY <1>1, <1>4, <2>4, <2>5 DEF BudgetOf, n
  <1> QED
    BY <1>3, <1>4

(* Steps that touch neither the dates of the connections nor what is left  *)
(* in the buckets.                                                         *)
SameOrigins ==
    /\ DOMAIN conns' = DOMAIN conns
    /\ \A c \in DOMAIN conns : conns'[c].addr = conns[c].addr /\ conns'[c].since = conns[c].since

SameBuckets ==
    /\ DOMAIN entries' = DOMAIN entries
    /\ \A a \in DOMAIN entries : /\ entries'[a].tokens = entries[a].tokens
                                 /\ entries'[a].refilled = entries[a].refilled

LEMMA KeptBudget ==
    ASSUME Budget, SameOrigins, SameBuckets, now' = now
    PROVE  Budget'
  <1> SUFFICES ASSUME NEW a \in Addrs, NEW from \in Time
               PROVE  BudgetOf(entries', now', conns', a, from)
    BY DEF Budget
  <1>1. BudgetOf(entries, now, conns, a, from)
    BY DEF Budget
  <1>2. Total(conns', a, from) = Total(conns, a, from)
    BY SameCame DEF SameOrigins
  <1> QED
    BY <1>1, <1>2 DEF BudgetOf, SameBuckets

LEMMA HandshakeOrigins ==
    ASSUME TypeOK, Timely, ServedOK, Handshake
    PROVE  SameOrigins /\ SameBuckets /\ now' = now
  <1>0. "Terminated" \in ConnectionState /\ "Authenticating" \in ConnectionState
        /\ "Routing" \in ConnectionState /\ "Established" \in ConnectionState
    BY DEF ConnectionState
  <1>1. ASSUME NEW st \in ConnectionState, NEW sv, Changed(st, sv)
        PROVE  SameOrigins
    BY <1>1 DEF Changed, SameOrigins
  <1>2. ASSUME NEW st \in ConnectionState, NEW states, In(states), Moved(st)
        PROVE  SameOrigins
    BY <1>1, <1>2, MovedChanges
  <1>3. ASSUME NEW s \in Servers, NEW st \in ConnectionState, Routed(s, st)
        PROVE  SameOrigins /\ SameBuckets /\ now' = now
    <2>1. SameOrigins
      BY <1>1, <1>3, RoutedChanges
    <2> QED
      BY <1>3, <2>1 DEF Routed, SameBuckets, limits
  <1>4. CASE Deny
    <2> DEFINE a == conns[serving].addr
               at == conns[serving].since
    <2>1. a \in Addrs /\ at \in Time /\ serving # Nobody
      BY <1>4, Served DEF Deny
    <2>2. a \in DOMAIN entries /\ FailureCounted(a, at) /\ now' = now
      BY <1>4, <2>1 DEF Deny, ServedOK
    <2> HIDE DEF a, at
    <2>3. SameBuckets
      BY <2>1, <2>2, FailureTyped DEF SameBuckets
    <2> QED
      BY <1>0, <1>2, <1>4, <2>2, <2>3 DEF Deny
  <1>5. CASE BreakOff
    BY <1>0, <1>2, <1>5 DEF BreakOff, SameBuckets, limits
  <1>6. CASE Hello
    BY <1>0, <1>2, <1>6 DEF Hello, SameBuckets, limits
  <1>7. CASE Login
    BY <1>0, <1>2, <1>7 DEF Login, SameBuckets, limits
  <1>8. CASE SendFails \/ RouteFails
    BY <1>8 DEF SendFails, RouteFails, SameOrigins, SameBuckets, limits
  <1>9. ASSUME NEW s \in Servers, BackendUnreachable(s) \/ BackendConnected(s)
        PROVE  SameOrigins /\ SameBuckets /\ now' = now
    BY <1>0, <1>3, <1>9 DEF BackendUnreachable, BackendConnected
  <1> QED
    BY <1>4, <1>5, <1>6, <1>7, <1>8, <1>9 DEF Handshake

(* The other steps that leave a connection's origin alone. *)
LEMMA OtherOrigins ==
    ASSUME TypeOK, [Next]_vars
    PROVE  \/ \E a \in Addrs : TurnAway(a) \/ Accept(a)
           \/ Handshake \/ CleanupTick \/ SecondPasses
           \/ SameOrigins /\ SameBuckets /\ now' = now
  BY DEF Next, vars, StreamEnds, HealthCheckTick, RecordHeartbeat, limits, SameOrigins, SameBuckets

LEMMA BudgetStep ==
    ASSUME TypeOK, Timely, ServedOK, Budget, [Next]_vars
    PROVE  Budget'
  <1>1. ASSUME NEW a \in Addrs, TurnAway(a) \/ Accept(a)
        PROVE  Budget'
    BY <1>1, TurnAwayBudget, AcceptBudget
  <1>2. CASE Handshake
    BY <1>2, HandshakeOrigins, KeptBudget
  <1>3. CASE CleanupTick
    BY <1>3, CleanupBudget
  <1>4. CASE SecondPasses
    BY <1>4, SecondBudget
  <1>5. CASE SameOrigins /\ SameBuckets /\ now' = now
    BY <1>5, KeptBudget
  <1> QED
    BY <1>1, <1>2, <1>3, <1>4, <1>5, OtherOrigins

-----------------------------------------------------------------------------
(* The rate. *)

LEMMA AcceptRate ==
    ASSUME TypeOK, Timely, Budget, RateBounded, NEW a \in Addrs, Accept(a)
    PROVE  RateBounded'
  <1> DEFINE e == entries'[a]
  <1>1. Arrived(a) /\ now \in Nat
    BY AcceptArrives, Conns
  <1>2. e \in Entry /\ e.refilled = now /\ a \in DOMAIN entries' /\ now' = now
    <2> DEFINE f == Refilled(Known(a, now))
    <2>1. f \in Entry /\ f.refilled = now /\ HasToken(f)
      BY RefilledFresher DEF Fresher, Accept
    <2>2. Spend(f) \in Entry /\ Spend(f).refilled = now
      BY <2>1, SpendType
    <2>3. entries' = Insert(entries, a, Spend(f)) /\ now' = now
      BY DEF Accept
    <2> HIDE DEF f
    <2> QED
      BY <2>2, <2>3 DEF Insert
  <1> SUFFICES ASSUME NEW x \in Addrs, NEW from \in Time, NEW to \in from .. MaxTime
               PROVE  Cardinality(Admitted(x, from, to))' <= Rate * (2 + to - from)
    BY DEF RateBounded
  <1>3. from \in Nat /\ to \in Nat /\ from <= to
    BY TimeIsNat
  <1>4. Cardinality(Admitted(x, from, to)) <= Rate * (2 + to - from)
    BY DEF RateBounded
  <1>5. CASE x = a /\ from <= now /\ now <= to
    <2>1. BudgetOf(entries', now', conns', a, from)
      BY AcceptBudget DEF Budget
    <2>2. /\ Total(conns', a, from) \in Nat /\ e.tokens \in Nat
          /\ Total(conns', a, from) + e.tokens <= Fill(2 + now - from)
      BY <1>1, <1>2, <1>5, <2>1, ArrivedTotal, EntryFields DEF BudgetOf
    <2>3. /\ 2 + now - from \in Nat /\ 2 + to - from \in Nat
          /\ 2 + now - from <= 2 + to - from
      BY <1>1, <1>3, <1>5
    <2>4. Fill(2 + now - from) <= Fill(2 + to - from)
          /\ Fill(2 + now - from) \in Nat /\ Fill(2 + to - from) \in Nat
      BY <2>3, FillGrows, FillType
    <2>5. Admitted(a, from, to)' \subseteq Came(conns', a, from)
      BY <1>3 DEF Admitted, Came
    <2>6. IsFiniteSet(Came(conns', a, from))
      <3>1. DOMAIN conns' = 1 .. accepted' /\ accepted' \in 1 .. MaxConns
        BY <1>1 DEF Arrived
      <3>2. IsFiniteSet(DOMAIN conns')
        BY <3>1, FS_Interval, TimeIsNat
      <3>3. Came(conns', a, from) \subseteq DOMAIN conns'
        BY DEF Came
      <3> QED
        BY <3>2, <3>3, FS_Subset
    <2>7. /\ Cardinality(Admitted(a, from, to)') \in Nat
          /\ Cardinality(Admitted(a, from, to)') <= Total(conns', a, from)
      BY <2>5, <2>6, FS_Subset, FS_CardinalityType DEF Total
    <2>8. Cardinality(Admitted(a, from, to)') <= Fill(2 + to - from)
      BY <2>2, <2>4, <2>7
    <2> QED
      BY <1>5, <2>8 DEF Fill
  <1>6. CASE ~(x = a /\ from <= now /\ now <= to)
    <2>1. /\ DOMAIN conns' = DOMAIN conns \cup {accepted'}
          /\ conns'[accepted'].addr = a /\ conns'[accepted'].since = now
          /\ \A c \in DOMAIN conns : conns'[c] = conns[c]
      BY <1>1 DEF Arrived
    <2>2. accepted' \notin Admitted(x, from, to)'
      BY <1>1, <1>3, <1>6, <2>1 DEF Admitted
    <2>3. Admitted(x, from, to)' = Admitted(x, from, to)
      BY <1>1, <2>1, <2>2 DEF Admitted, Arrived
    <2> QED
      BY <1>4, <2>3
  <1> QED
    BY <1>5, <1>6

LEMMA RateStep ==
    ASSUME TypeOK, Timely, ServedOK, Budget, RateBounded, [Next]_vars
    PROVE  RateBounded'
  <1>1. ASSUME NEW a \in Addrs, Accept(a)
        PROVE  RateBounded'
    BY <1>1, AcceptRate
  <1>2. CASE SameOrigins
    <2>1. ASSUME NEW x \in Addrs, NEW from \in Time, NEW to \in from .. MaxTime
          PROVE  Admitted(x, from, to)' = Admitted(x, from, to)
      BY <1>2 DEF SameOrigins, Admitted
    <2> QED
      BY <2>1 DEF RateBounded
  <1>3. ASSUME NEW a \in Addrs, TurnAway(a)
        PROVE  SameOrigins
    BY <1>3 DEF TurnAway, SameOrigins
  <1>4. CleanupTick \/ SecondPasses => SameOrigins
    BY CleanupKeeps DEF SecondPasses, SameOrigins
  <1>5. Handshake => SameOrigins
    BY HandshakeOrigins
  <1> QED
    BY <1>1, <1>2, <1>3, <1>4, <1>5, OtherOrigins

-----------------------------------------------------------------------------
(* The theorems. *)

LEMMA InitIInv ==
    ASSUME Init
    PROVE  IInv
  <1>1. DOMAIN conns = {} /\ DOMAIN entries = {} /\ now = 0
        /\ DOMAIN routes = {} /\ DOMAIN relays = {}
    BY DEF Init
  <1>2. MaxRelays \in Nat
    <2>1. {BanThreshold, BanDuration, CheckInterval, MaxRelays} \subseteq Nat
      BY GatewayAssumption
    <2> QED
      BY <2>1
  <1>3. RelaysAccounted
    <2>1. Cardinality(DOMAIN relays) = 0
      BY <1>1, FS_EmptySet
    <2> QED
      BY <1>1, <1>2, <2>1 DEF RelaysAccounted
  <1>4. Budget
    <2> SUFFICES ASSUME NEW a \in Addrs, NEW from \in Time
                 PROVE  BudgetOf(entries, now, conns, a, from)
      BY DEF Budget
    <2>1. Came(conns, a, from) = {}
      BY <1>1 DEF Came
    <2>2. Total(conns, a, from) = 0
      BY <2>1, FS_EmptySet DEF Total
    <2>3. from <= 0 => 2 + 0 - from = 2
      BY TimeIsNat
    <2> QED
      BY <1>1, <2>2, <2>3, FillTwo, TimeIsNat DEF BudgetOf
  <1>5. RateBounded
    <2> SUFFICES ASSUME NEW a \in Addrs, NEW from \in Time, NEW to \in from .. MaxTime
                 PROVE  Cardinality(Admitted(a, from, to)) <= Rate * (2 + to - from)
      BY DEF RateBounded
    <2>1. Admitted(a, from, to) = {}
      BY <1>1 DEF Admitted
    <2>2. Cardinality(Admitted(a, from, to)) = 0
      BY <2>1, FS_EmptySet
    <2>3. 2 + to - from \in Nat
      BY TimeIsNat
    <2>4. Fill(2 + to - from) \in Nat
      BY <2>3, FillType
    <2> QED
      BY <2>2, <2>4 DEF Fill
  <1> QED
    BY <1>3, <1>4, <1>5, InitTyped DEF IInv

LEMMA NextIInv ==
    ASSUME IInv, [Next]_vars
    PROVE  IInv'
  <1>1. TypeOK' /\ Timely'
    BY TypeStep DEF IInv
  <1>2. ServersOK' /\ RelaysAccounted'
    BY RelaysStep DEF IInv
  <1>3. ServedOK'
    BY ServedStep DEF IInv
  <1>4. HealthOK'
    BY HealthStep DEF IInv
  <1>5. Budget'
    BY BudgetStep DEF IInv
  <1>6. RateBounded'
    BY RateStep DEF IInv
  <1> QED
    BY <1>1, <1>2, <1>3, <1>4, <1>5, <1>6 DEF IInv

(* The inductive invariant holds of every reachable state of the gateway.  *)
THEOREM SpecIInv == Spec => []IInv
  <1>1. Init => IInv
    BY InitIInv
  <1>2. IInv /\ [Next]_vars => IInv'
    BY NextIInv
  <1> QED
    BY <1>1, <1>2, PTL DEF Spec

(* The gateway's state is well typed: in particular a bucket is never      *)
(* overdrawn, and only known connections are served.                       *)
THEOREM SpecTypeOK == Spec => []TypeOK
  <1>1. IInv => TypeOK
    BY DEF IInv
  <1> QED
    BY <1>1, SpecIInv, PTL

(* Over any stretch of time an address gets at most two seconds' worth of  *)
(* connections and a second's worth more for each second that passes,      *)
(* whatever is forgotten by the clean-up in between.                       *)
THEOREM SpecRateBounded == Spec => []RateBounded
  <1>1. IInv => RateBounded
    BY DEF IInv
  <1> QED
    BY <1>1, SpecIInv, PTL

(* Routes and relays are those of the connections, and the relays are      *)
(* never more than the limit.                                              *)
THEOREM SpecRelaysAccounted == Spec => []RelaysAccounted
  <1>1. IInv => RelaysAccounted
    BY DEF IInv
  <1> QED
    BY <1>1, SpecIInv, PTL

(* Whoever is routed by health gets a server whose checks have not failed  *)
(* threshold times in a row.                                               *)
THEOREM SpecUnhealthyAvoided == Spec => UnhealthyAvoided
  <1>1. IInv /\ [Next]_vars =>
          (\A c \in DOMAIN conns :
              /\ conns[c].server = NoServer /\ conns'[c].server \in Servers
              /\ strategy # "sticky"
              => status[conns'[c].server].failures < UnhealthyThreshold)
    BY AvoidedStep DEF IInv
  <1> QED
    BY <1>1, SpecIInv, PTL DEF Spec, UnhealthyAvoided

(* A ban that runs is neither lifted nor shortened.                        *)
THEOREM SpecBanServed == Spec => BanServed
  <1>1. IInv /\ [Next]_vars =>
          (\A a \in DOMAIN bans : now < bans[a] => a \in DOMAIN bans' /\ bans'[a] >= bans[a])
    BY BanStep DEF IInv
  <1> QED
    BY <1>1, SpecIInv, PTL DEF Spec, BanServed
=============================================================================
