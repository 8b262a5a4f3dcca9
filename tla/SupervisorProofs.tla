--------------------------- MODULE SupervisorProofs ---------------------------
(* Theorems about Supervisor, for every number of sessions, every set of   *)
(* process ids, every budget and every restart and downgrade policy.       *)
(*                                                                         *)
(* A command may act on a registry that another part of the same command   *)
(* has just changed (restart = terminate, then spawn), so the inductive    *)
(* invariant is stated over a registry, heartbeat table, children and live *)
(* processes given as parameters; IInv is that invariant of the state.     *)
(*                                                                         *)
(* The last theorem is about the downgrade manager on its own, as          *)
(* MCDowngrade specifies it; calm is a variable of that specification.     *)
EXTENDS Supervisor, MCDowngrade, FiniteSetTheorems, TLAPS

(* The registry: ids below the next one, well-formed records. *)
RegistryOK(sess, n) ==
    /\ DOMAIN sess \subseteq Ids
    /\ sess \in [DOMAIN sess -> SessionRecord]
    /\ n \in 1 .. MaxIds + 1
    /\ \A s \in DOMAIN sess : s < n

(* The heartbeat table watches active sessions, and all of them if no      *)
(* crash is reported of one that has ended.                                *)
BeatsOK(sess, beats) ==
    /\ DOMAIN beats \subseteq Active(sess)
    /\ LateReports \/ DOMAIN beats = Active(sess)
    /\ beats \in [DOMAIN beats -> 0 .. TimeoutCount]

(* The children and the records they belong to. *)
ChildrenOK(sess, kids, live) ==
    /\ DOMAIN kids \subseteq Pids
    /\ kids \in [DOMAIN kids -> Ids]
    /\ live \subseteq DOMAIN kids
    /\ \A p \in DOMAIN kids :
          /\ kids[p] \in DOMAIN sess
          /\ sess[kids[p]].pid = p
          /\ sess[kids[p]].state # "Terminated"

(* n sessions fit the host in resource r. *)
Fits(n, r) == n = 0 \/ Reserved[r] + n * Budget[r] <= Total[r] \/ Budget[r] = 0

CapacityOK(sess) ==
    AdmissionEnabled /\ ~LateReports => \A r \in Resources : Fits(Cardinality(Active(sess)), r)

CrashesOK(sess) ==
    \A s \in DOMAIN sess :
        /\ sess[s].state \notin Ended => sess[s].restarts = 0 \/ sess[s].restarts < MaxRestarts
        /\ sess[s].state = "Failed" => sess[s].restarts >= MaxRestarts

RuntimeOK(sess, n, beats, kids, live) ==
    /\ RegistryOK(sess, n)
    /\ BeatsOK(sess, beats)
    /\ ChildrenOK(sess, kids, live)
    /\ CapacityOK(sess)
    /\ CrashesOK(sess)

(* The inductive invariant. *)
IInv ==
    /\ RuntimeOK(sessions, nextId, hb, children, alive)
    /\ DowngradeTypeOK

-----------------------------------------------------------------------------
(* Facts about the helpers.                                                *)

LEMMA ActiveFinite ==
    ASSUME NEW sess, DOMAIN sess \subseteq Ids
    PROVE  /\ IsFiniteSet(Active(sess))
           /\ Cardinality(Active(sess)) \in Nat
  <1>1. IsFiniteSet(Ids)
    BY FS_Interval, SupervisorAssumption DEF SupervisorAssumption, Ids
  <1>2. Active(sess) \in SUBSET Ids
    BY DEF Active
  <1>3. IsFiniteSet(Active(sess))
    BY <1>1, <1>2, FS_Subset
  <1>4. QED
    BY <1>3, FS_CardinalityType

(* Fewer sessions fit wherever more do. *)
LEMMA FewerFit ==
    ASSUME NEW r \in Resources, NEW m \in Nat, NEW n \in Nat, m <= n, Fits(n, r)
    PROVE  Fits(m, r)
  <1>1. Budget[r] \in Nat /\ Reserved[r] \in Nat /\ Total[r] \in Nat
    BY SupervisorAssumption DEF SupervisorAssumption
  <1>2. m * Budget[r] <= n * Budget[r]
    BY <1>1
  <1>3. m * Budget[r] \in Nat /\ n * Budget[r] \in Nat
    BY <1>1
  <1>4. QED
    BY <1>1, <1>2, <1>3 DEF Fits

(* A registry whose active sessions were all active before stays within    *)
(* capacity.                                                               *)
LEMMA CapacityShrinks ==
    ASSUME NEW sess, NEW sess2, DOMAIN sess \subseteq Ids,
           LateReports \/ Active(sess2) \subseteq Active(sess), CapacityOK(sess)
    PROVE  CapacityOK(sess2)
  <1> SUFFICES ASSUME ~LateReports PROVE CapacityOK(sess2)
    BY DEF CapacityOK
  <1>1. IsFiniteSet(Active(sess)) /\ Cardinality(Active(sess)) \in Nat
    BY ActiveFinite
  <1>2. /\ Cardinality(Active(sess2)) \in Nat
        /\ Cardinality(Active(sess2)) <= Cardinality(Active(sess))
    <2>1. /\ IsFiniteSet(Active(sess2))
          /\ Cardinality(Active(sess2)) <= Cardinality(Active(sess))
      BY <1>1, FS_Subset
    <2>2. QED
      BY <2>1, FS_CardinalityType
  <1>3. QED
    BY <1>1, <1>2, FewerFit DEF CapacityOK

(* What admission accepts fits: one more session than are active. *)
LEMMA AcceptedFits ==
    ASSUME NEW sess, DOMAIN sess \subseteq Ids, Accepted(sess), AdmissionEnabled,
           NEW r \in Resources
    PROVE  Fits(Cardinality(Active(sess)) + 1, r)
  <1> DEFINE c == Cardinality(Active(sess))
  <1>1. Budget[r] \in Nat /\ Reserved[r] \in Nat /\ Total[r] \in Nat
    BY SupervisorAssumption DEF SupervisorAssumption
  <1>2. c \in Nat
    BY ActiveFinite
  <1>3. Available(sess, r) >= Budget[r]
    BY DEF Accepted
  <1>4. (c + 1) * Budget[r] = c * Budget[r] + Budget[r] /\ c * Budget[r] \in Nat
    BY <1>1, <1>2
  <1>5. Budget[r] = 0 \/ Total[r] - Reserved[r] - c * Budget[r] >= Budget[r]
    BY <1>1, <1>3, <1>4 DEF Available
  <1>6. QED
    BY <1>1, <1>2, <1>4, <1>5 DEF Fits

(* A load calls for one of the five levels. *)
LEMMA PressureLevelType == ASSUME NEW load PROVE PressureLevel(load) \in Levels
  <1>1. \E l \in Levels :
           /\ Reaches(load, l)
           /\ \A k \in Levels : k > l => ~Reaches(load, k)
    <2>1. Reaches(load, 0)
      BY DEF Reaches, NoDowngrade
    <2>2. Levels = {0, 1, 2, 3, 4}
      BY DEF Levels, NoDowngrade, SuspendLeastActive
    <2>3. CASE Reaches(load, 4)
      BY <2>2, <2>3
    <2>4. CASE ~Reaches(load, 4) /\ Reaches(load, 3)
      BY <2>2, <2>4
    <2>5. CASE ~Reaches(load, 4) /\ ~Reaches(load, 3) /\ Reaches(load, 2)
      BY <2>2, <2>5
    <2>6. CASE /\ ~Reaches(load, 4) /\ ~Reaches(load, 3) /\ ~Reaches(load, 2)
               /\ Reaches(load, 1)
      BY <2>2, <2>6
    <2>7. CASE /\ ~Reaches(load, 4) /\ ~Reaches(load, 3) /\ ~Reaches(load, 2)
               /\ ~Reaches(load, 1)
      BY <2>1, <2>2, <2>7
    <2>8. QED
      BY <2>3, <2>4, <2>5, <2>6, <2>7
  <1>2. QED
    BY <1>1 DEF PressureLevel

-----------------------------------------------------------------------------
(* The initial state.                                                      *)

LEMMA InitIInv == Init => IInv
  <1> SUFFICES ASSUME Init PROVE IInv
    OBVIOUS
  <1> USE SupervisorAssumption, DowngradeAssumption DEF SupervisorAssumption, DowngradeAssumption
  <1>1. DOMAIN sessions = {} /\ DOMAIN hb = {} /\ DOMAIN children = {}
    BY DEF Init
  <1>2. Active(sessions) = {} /\ Cardinality(Active(sessions)) = 0
    BY <1>1, FS_EmptySet DEF Active
  <1>3. RegistryOK(sessions, nextId)
    BY <1>1 DEF Init, RegistryOK, Ids
  <1>4. BeatsOK(sessions, hb)
    BY <1>1, <1>2 DEF Init, BeatsOK
  <1>5. ChildrenOK(sessions, children, alive)
    BY <1>1 DEF Init, ChildrenOK
  <1>6. CapacityOK(sessions) /\ CrashesOK(sessions)
    BY <1>1, <1>2 DEF CapacityOK, Fits, CrashesOK
  <1>7. DowngradeTypeOK
    BY DEF Init, DowngradeInit, DowngradeTypeOK, Levels, NoTimer, NoDowngrade,
           SuspendLeastActive
  <1>8. QED
    BY <1>3, <1>4, <1>5, <1>6, <1>7 DEF IInv, RuntimeOK

-----------------------------------------------------------------------------
(* Terminating, spawning and crashing, on any registry.                    *)

(* Terminating session s leaves a good runtime: its budget is given back,  *)
(* its entry and its child are gone, and so may be another session's child *)
(* that took over its pid.                                                 *)
LEMMA TerminateOK ==
    ASSUME RuntimeOK(sessions, nextId, hb, children, alive),
           NEW s \in DOMAIN sessions
    PROVE  RuntimeOK(TerminatedSessions(s), nextId, TerminatedBeats(s),
                     TerminatedChildren(s), TerminatedAlive(s))
  <1> DEFINE sess == TerminatedSessions(s)
  <1> USE DEF RuntimeOK
  <1>1. /\ DOMAIN sess = DOMAIN sessions
        /\ sess[s] = [sessions[s] EXCEPT !.state = "Terminated"]
        /\ \A t \in DOMAIN sessions : t # s => sess[t] = sessions[t]
    BY DEF TerminatedSessions, WithState
  <1>2. sess[s] = [state |-> "Terminated", pid |-> sessions[s].pid,
                   restarts |-> sessions[s].restarts]
    BY <1>1 DEF RegistryOK, SessionRecord
  <1>3. RegistryOK(sess, nextId)
    <2>1. sess \in [DOMAIN sess -> SessionRecord]
      BY <1>1, <1>2 DEF RegistryOK, SessionRecord, SessionState, TerminatedSessions, WithState
    <2>2. QED
      BY <1>1, <2>1 DEF RegistryOK
  <1>4. Active(sess) = Active(sessions) \ {s}
    BY <1>1, <1>2 DEF Active, Ended
  <1>5. BeatsOK(sess, TerminatedBeats(s))
    BY <1>4 DEF BeatsOK, TerminatedBeats, Drop, Restrict
  <1>6. ChildrenOK(sess, TerminatedChildren(s), TerminatedAlive(s))
    BY <1>1, <1>2 DEF ChildrenOK, TerminatedChildren, TerminatedAlive, Drop, Restrict
  <1>7. CapacityOK(sess)
    BY <1>4, CapacityShrinks DEF RegistryOK
  <1>8. CrashesOK(sess)
    BY <1>1, <1>2 DEF CrashesOK, Ended
  <1>9. QED
    BY <1>3, <1>5, <1>6, <1>7, <1>8

(* Spawning on a good runtime leaves a good runtime. *)
LEMMA SpawnOK ==
    ASSUME NEW sess, NEW beats, NEW kids, NEW live,
           RuntimeOK(sess, nextId, beats, kids, live),
           SpawnOn(sess, beats, kids, live)
    PROVE  RuntimeOK(sessions', nextId', hb', children', alive')
  <1> USE DEF RuntimeOK
  <1>1. CASE Rejected(sess, beats, kids, live)
    BY <1>1 DEF Rejected
  <1>2. CASE SpawnFails(sess, beats, kids, live)
    <2>1. RegistryOK(sess, nextId + 1)
      BY <1>2, SupervisorAssumption DEF SpawnFails, RegistryOK, Ids, SupervisorAssumption
    <2>2. QED
      BY <1>2, <2>1 DEF SpawnFails
  <1>3. ASSUME NEW p \in Pids, SpawnSucceeds(sess, beats, kids, live, p)
        PROVE  RuntimeOK(sessions', nextId', hb', children', alive')
    <2> DEFINE new == Insert(sess, nextId, NewRecord(p))
    <2>1. /\ sessions' = new
          /\ nextId' = nextId + 1
          /\ hb' = Insert(beats, nextId, 0)
          /\ children' = Insert(kids, p, nextId)
          /\ alive' = live \cup {p}
      BY <1>3 DEF SpawnSucceeds
    <2>2. nextId \in Ids /\ p \notin DOMAIN kids /\ Accepted(sess)
      BY <1>3 DEF SpawnSucceeds
    <2>3. nextId \in Nat /\ nextId \notin DOMAIN sess /\ DOMAIN sess \subseteq Ids
      BY SupervisorAssumption DEF RegistryOK, Ids, SupervisorAssumption
    <2>4. /\ DOMAIN new = DOMAIN sess \cup {nextId}
          /\ new[nextId] = NewRecord(p)
          /\ \A t \in DOMAIN sess : new[t] = sess[t]
      BY <2>3 DEF Insert
    <2>5. RegistryOK(new, nextId + 1)
      <3>1. NewRecord(p) \in SessionRecord
        BY DEF NewRecord, SessionRecord, SessionState
      <3>2. new \in [DOMAIN new -> SessionRecord]
        BY <2>3, <3>1 DEF Insert, RegistryOK
      <3>3. QED
        BY <2>2, <2>3, <2>4, <3>2, SupervisorAssumption
           DEF RegistryOK, Ids, SupervisorAssumption
    <2>6. Active(new) = Active(sess) \cup {nextId} /\ nextId \notin Active(sess)
      BY <2>3, <2>4 DEF Active, NewRecord, Ended
    <2>7. BeatsOK(new, Insert(beats, nextId, 0))
      <3>1. 0 \in 0 .. TimeoutCount
        BY SupervisorAssumption DEF SupervisorAssumption
      <3>2. /\ DOMAIN beats \subseteq Active(sess)
            /\ LateReports \/ DOMAIN beats = Active(sess)
            /\ beats \in [DOMAIN beats -> 0 .. TimeoutCount]
        BY DEF BeatsOK
      <3>3. DOMAIN Insert(beats, nextId, 0) = DOMAIN beats \cup {nextId}
        BY DEF Insert
      <3>4. Insert(beats, nextId, 0) \in [DOMAIN beats \cup {nextId} -> 0 .. TimeoutCount]
        BY <3>1, <3>2 DEF Insert
      <3>5. QED
        BY <2>6, <3>2, <3>3, <3>4 DEF BeatsOK
    <2>8. ChildrenOK(new, Insert(kids, p, nextId), live \cup {p})
      <3> DEFINE kids2 == Insert(kids, p, nextId)
      <3>1. /\ DOMAIN kids2 = DOMAIN kids \cup {p}
            /\ kids2[p] = nextId
            /\ \A q \in DOMAIN kids : kids2[q] = kids[q]
        BY <2>2 DEF Insert
      <3>2. kids2 \in [DOMAIN kids2 -> Ids]
        BY <2>2 DEF ChildrenOK, Insert
      <3>3. new[nextId].pid = p /\ new[nextId].state # "Terminated"
        BY <2>4 DEF NewRecord
      <3>4. QED
        BY <2>4, <3>1, <3>2, <3>3 DEF ChildrenOK
    <2>9. CapacityOK(new)
      <3>1. IsFiniteSet(Active(sess))
        BY <2>3, ActiveFinite
      <3>2. Cardinality(Active(new)) = Cardinality(Active(sess)) + 1
        BY <2>6, <3>1, FS_AddElement
      <3>3. QED
        BY <2>2, <2>3, <3>2, AcceptedFits DEF CapacityOK
    <2>10. CrashesOK(new)
      BY <2>4 DEF CrashesOK, NewRecord
    <2>11. QED
      BY <2>1, <2>5, <2>7, <2>8, <2>9, <2>10
  <1>4. QED
    BY <1>1, <1>2, <1>3 DEF SpawnOn

(* What handle_crash makes of a record. *)
LEMMA AfterCrashRecord ==
    ASSUME NEW rec \in SessionRecord
    PROVE  /\ AfterCrash(rec).pid = rec.pid
           /\ AfterCrash(rec).restarts = rec.restarts + 1
           /\ AfterCrash(rec).state =
                 IF EntersFailed(rec.restarts + 1) THEN "Failed" ELSE "Running"
           /\ AfterCrash(rec) \in SessionRecord
  <1>1. rec.restarts + 1 \in Nat /\ rec.pid \in Pids
    BY DEF SessionRecord
  <1>2. QED
    BY <1>1 DEF AfterCrash, SessionRecord, SessionState

(* Handling crashes, with the entries of those that are given up removed,  *)
(* leaves a good runtime whatever the counts become.                       *)
LEMMA CrashOK ==
    ASSUME RuntimeOK(sessions, nextId, hb, children, alive),
           NEW crashed, crashed \subseteq DOMAIN sessions,
           LateReports \/ crashed \subseteq Active(sessions),
           NEW beats,
           DOMAIN beats = DOMAIN hb \ GivenUp(crashed),
           beats \in [DOMAIN beats -> 0 .. TimeoutCount]
    PROVE  RuntimeOK(CrashedSessions(crashed), nextId, beats, children, alive)
  <1> DEFINE sess == CrashedSessions(crashed)
  <1> USE DEF RuntimeOK
  <1>1. /\ DOMAIN sess = DOMAIN sessions
        /\ \A t \in DOMAIN sessions :
              sess[t] = IF t \in crashed THEN AfterCrash(sessions[t]) ELSE sessions[t]
    BY DEF CrashedSessions
  <1>2. \A t \in DOMAIN sessions :
           /\ AfterCrash(sessions[t]).pid = sessions[t].pid
           /\ AfterCrash(sessions[t]).restarts = sessions[t].restarts + 1
           /\ AfterCrash(sessions[t]).state =
                 IF EntersFailed(sessions[t].restarts + 1) THEN "Failed" ELSE "Running"
           /\ AfterCrash(sessions[t]) \in SessionRecord
    BY AfterCrashRecord DEF RegistryOK
  <1>3. RegistryOK(sess, nextId)
    <2>1. sess \in [DOMAIN sess -> SessionRecord]
      BY <1>2 DEF RegistryOK, CrashedSessions
    <2>2. QED
      BY <1>1, <2>1 DEF RegistryOK
  <1>4. Active(sess) = (Active(sessions) \cup crashed) \ GivenUp(crashed)
    BY <1>1, <1>2 DEF Active, GivenUp, Ended
  <1>5. BeatsOK(sess, beats)
    BY <1>4 DEF BeatsOK
  <1>6. ChildrenOK(sess, children, alive)
    BY <1>1, <1>2 DEF ChildrenOK
  <1>7. CapacityOK(sess)
    BY <1>4, CapacityShrinks DEF RegistryOK
  <1>8. CrashesOK(sess)
    <2>1. \A t \in DOMAIN sessions : sessions[t].restarts \in Nat
      BY DEF RegistryOK, SessionRecord
    <2>2. MaxRestarts \in Nat
      BY SupervisorAssumption DEF SupervisorAssumption
    <2>3. QED
      BY <1>1, <1>2, <2>1, <2>2 DEF CrashesOK, Ended, EntersFailed
  <1>9. QED
    BY <1>3, <1>5, <1>6, <1>7, <1>8

(* A command that moves session s between two states in which it counts as *)
(* active leaves a good runtime.                                           *)
LEMMA TransitionOK ==
    ASSUME IInv, NEW s \in DOMAIN sessions, NEW from, NEW to \in SessionState,
           from \notin Ended, to \notin Ended, ControlTransition(s, from, to)
    PROVE  IInv'
  <1> USE DEF RuntimeOK, IInv
  <1>1. /\ sessions' = WithState(sessions, s, to)
        /\ sessions[s].state = from
        /\ UNCHANGED <<nextId, hb, children, alive, downgradeVars>>
    BY DEF ControlTransition
  <1>2. sessions[s] \in SessionRecord /\ DOMAIN sessions \subseteq Ids
    BY DEF RegistryOK
  <1>3. /\ DOMAIN sessions' = DOMAIN sessions
        /\ sessions'[s] = [sessions[s] EXCEPT !.state = to]
        /\ \A t \in DOMAIN sessions : t # s => sessions'[t] = sessions[t]
    BY <1>1 DEF WithState
  <1>4. sessions'[s] = [state |-> to, pid |-> sessions[s].pid,
                        restarts |-> sessions[s].restarts]
    BY <1>2, <1>3 DEF SessionRecord
  <1>5. RegistryOK(sessions', nextId')
    <2>1. sessions'[s] \in SessionRecord
      BY <1>2, <1>4 DEF SessionRecord
    <2>2. sessions' \in [DOMAIN sessions' -> SessionRecord]
      BY <1>1, <1>3, <2>1 DEF RegistryOK, WithState
    <2>3. QED
      BY <1>1, <1>3, <2>2 DEF RegistryOK
  <1>6. Active(sessions') = Active(sessions)
    BY <1>1, <1>3, <1>4 DEF Active
  <1>7. BeatsOK(sessions', hb') /\ CapacityOK(sessions')
    BY <1>1, <1>6 DEF BeatsOK, CapacityOK
  <1>8. ChildrenOK(sessions', children', alive')
    <2>1. /\ sessions'[s].state # "Terminated"
          /\ \A t \in DOMAIN sessions :
                /\ sessions'[t].pid = sessions[t].pid
                /\ t # s => sessions'[t].state = sessions[t].state
      BY <1>3, <1>4 DEF Ended
    <2>2. children' = children /\ alive' = alive
      BY <1>1
    <2>3. QED
      BY <1>3, <2>1, <2>2 DEF ChildrenOK
  <1>9. CrashesOK(sessions')
    <2>1. CrashesOK(sessions)
      OBVIOUS
    <2>2. sessions'[s].state = to /\ sessions'[s].restarts = sessions[s].restarts
      BY <1>4
    <2>3. to # "Failed" /\ sessions[s].state \notin Ended
      BY <1>1 DEF Ended
    <2>4. \A t \in DOMAIN sessions : t # s => sessions'[t] = sessions[t]
      BY <1>3
    <2>5. QED
      BY <1>3, <2>1, <2>2, <2>3, <2>4 DEF CrashesOK
  <1>10. DowngradeTypeOK'
    BY <1>1 DEF DowngradeTypeOK, downgradeVars
  <1>11. QED
    BY <1>5, <1>7, <1>8, <1>9, <1>10

(* The downgrade manager's own steps keep its types. *)
LEMMA DowngradeTickType == DowngradeTypeOK /\ DowngradeTick => DowngradeTypeOK'
  <1> SUFFICES ASSUME DowngradeTypeOK, DowngradeTick PROVE DowngradeTypeOK'
    OBVIOUS
  <1> DEFINE l == LevelAfterEvaluate
             r == RecoveryAfterEvaluate
  <1>1. l \in Levels /\ r \in {NoTimer} \cup 0 .. RecoveryHoldSec
    BY PressureLevelType DEF DowngradeTypeOK, LevelAfterEvaluate, RecoveryAfterEvaluate
  <1>2. cpu' = cpu
    BY DEF DowngradeTick
  <1>3. level' \in Levels /\ recovery' \in {NoTimer} \cup 0 .. RecoveryHoldSec
    <2>1. TryRecover(l, r)
      BY DEF DowngradeTick
    <2>2. l - 1 \in Levels \/ l = NoDowngrade
      BY <1>1 DEF Levels, NoDowngrade, SuspendLeastActive
    <2>3. 0 \in 0 .. RecoveryHoldSec
      BY DowngradeAssumption DEF DowngradeAssumption
    <2> HIDE DEF l, r
    <2>4. QED
      BY <1>1, <2>1, <2>2, <2>3 DEF TryRecover
  <1>4. QED
    BY <1>2, <1>3 DEF DowngradeTypeOK

LEMMA MissedType ==
    ASSUME NEW n \in 0 .. TimeoutCount
    PROVE  Missed(n) \in 0 .. TimeoutCount
  BY SupervisorAssumption DEF Missed, SupervisorAssumption

-----------------------------------------------------------------------------
(* Every step keeps the inductive invariant.                               *)

LEMMA StepIInv == IInv /\ [Next]_vars => IInv'
  <1> SUFFICES ASSUME IInv, [Next]_vars PROVE IInv'
    OBVIOUS
  <1> USE DEF IInv
  <1>1. CASE SpawnSession
    <2>1. RuntimeOK(sessions', nextId', hb', children', alive')
      BY <1>1, SpawnOK DEF SpawnSession
    <2>2. DowngradeTypeOK'
      BY <1>1 DEF SpawnSession, downgradeVars, DowngradeTypeOK
    <2>3. QED
      BY <2>1, <2>2
  <1>2. ASSUME NEW s \in DOMAIN sessions, TerminateSession(s) PROVE IInv'
    BY <1>2, TerminateOK DEF TerminateSession, downgradeVars, DowngradeTypeOK
  <1>3. ASSUME NEW s \in DOMAIN sessions, RestartSession(s) PROVE IInv'
    <2>1. RuntimeOK(TerminatedSessions(s), nextId, TerminatedBeats(s),
                    TerminatedChildren(s), TerminatedAlive(s))
      BY TerminateOK
    <2>2. SpawnOn(TerminatedSessions(s), TerminatedBeats(s),
                  TerminatedChildren(s), TerminatedAlive(s))
      BY <1>3 DEF RestartSession
    <2>3. RuntimeOK(sessions', nextId', hb', children', alive')
      BY <2>1, <2>2, SpawnOK
    <2>4. DowngradeTypeOK'
      BY <1>3 DEF RestartSession, downgradeVars, DowngradeTypeOK
    <2>5. QED
      BY <2>3, <2>4
  <1>4. ASSUME NEW s \in DOMAIN sessions,
               \/ LockSession(s) \/ UnlockSession(s)
               \/ SuspendSession(s) \/ ResumeSession(s)
        PROVE  IInv'
    <2> USE TransitionOK DEF SessionState, Ended
    <2>1. CASE LockSession(s)
      BY <2>1 DEF LockSession
    <2>2. CASE UnlockSession(s)
      BY <2>2 DEF UnlockSession
    <2>3. CASE SuspendSession(s)
      BY <2>3 DEF SuspendSession
    <2>4. CASE ResumeSession(s)
      BY <2>4 DEF ResumeSession
    <2>5. QED
      BY <1>4, <2>1, <2>2, <2>3, <2>4
  <1>5. ASSUME NEW s \in DOMAIN sessions, CrashReported(s) PROVE IInv'
    <2>1. /\ {s} \subseteq DOMAIN sessions
          /\ LateReports \/ {s} \subseteq Active(sessions)
          /\ DOMAIN hb' = DOMAIN hb \ GivenUp({s})
          /\ hb' \in [DOMAIN hb' -> 0 .. TimeoutCount]
      BY <1>5 DEF CrashReported, HandleCrash, Restrict, RuntimeOK, BeatsOK
    <2>2. RuntimeOK(CrashedSessions({s}), nextId, hb', children, alive)
      BY <2>1, CrashOK
    <2>3. DowngradeTypeOK'
      BY <1>5 DEF CrashReported, HandleCrash, downgradeVars, DowngradeTypeOK
    <2>4. QED
      BY <1>5, <2>2, <2>3 DEF CrashReported, HandleCrash
  <1>6. CASE Tick
    <2>1. TimedOut \subseteq Active(sessions) /\ TimedOut \subseteq DOMAIN sessions
      BY DEF TimedOut, RuntimeOK, BeatsOK, Active
    <2>2. /\ DOMAIN hb' = DOMAIN hb \ GivenUp(TimedOut)
          /\ hb' \in [DOMAIN hb' -> 0 .. TimeoutCount]
      BY <1>6, MissedType DEF Tick, RuntimeOK, BeatsOK
    <2>3. RuntimeOK(CrashedSessions(TimedOut), nextId, hb', children, alive)
      BY <2>1, <2>2, CrashOK
    <2>4. DowngradeTypeOK'
      BY <1>6, DowngradeTickType DEF Tick
    <2>5. QED
      BY <1>6, <2>3, <2>4 DEF Tick
  <1>7. ASSUME NEW s \in DOMAIN hb, HeartbeatArrives(s) PROVE IInv'
    <2>1. hb' = [hb EXCEPT ![s] = 0] /\ UNCHANGED <<sessions, nextId, children, alive>>
      BY <1>7 DEF HeartbeatArrives, RecordHeartbeat
    <2>2. BeatsOK(sessions, hb')
      BY <2>1, SupervisorAssumption DEF RuntimeOK, BeatsOK, SupervisorAssumption
    <2>3. DowngradeTypeOK'
      BY <1>7 DEF HeartbeatArrives, RecordHeartbeat, downgradeVars, DowngradeTypeOK
    <2>4. QED
      BY <2>1, <2>2, <2>3 DEF RuntimeOK
  <1>8. ASSUME NEW s \in DOMAIN sessions, PollAlive(s) PROVE IInv'
    <2>1. ChildrenOK(sessions, children', alive')
      BY <1>8 DEF PollAlive, RuntimeOK, ChildrenOK, Drop, Restrict
    <2>2. QED
      BY <1>8, <2>1 DEF PollAlive, RuntimeOK, downgradeVars, DowngradeTypeOK
  <1>9. ASSUME NEW p \in alive, ProcessExits(p) PROVE IInv'
    <2>1. ChildrenOK(sessions, children', alive')
      BY <1>9 DEF ProcessExits, RuntimeOK, ChildrenOK
    <2>2. QED
      BY <1>9, <2>1 DEF ProcessExits, RuntimeOK, downgradeVars, DowngradeTypeOK
  <1>10. ASSUME NEW load \in CpuLoads, MetricsArrive(load) PROVE IInv'
    BY <1>10 DEF MetricsArrive, UpdateHostMetrics, sessionVars, DowngradeTypeOK
  <1>11. CASE SecondPasses
    <2>1. DowngradeTypeOK'
      BY <1>11, DowngradeAssumption
         DEF SecondPasses, Elapse, DowngradeTypeOK, NoTimer, DowngradeAssumption
    <2>2. QED
      BY <1>11, <2>1 DEF SecondPasses, sessionVars
  <1>12. CASE UNCHANGED vars
    BY <1>12 DEF vars, DowngradeTypeOK
  <1>13. QED
    BY <1>1, <1>2, <1>3, <1>4, <1>5, <1>6, <1>7, <1>8, <1>9, <1>10, <1>11, <1>12
       DEF Next

-----------------------------------------------------------------------------
(* The inductive invariant holds in every reachable state, and with it     *)
(* each invariant the runs check.                                          *)

(* The runtime is always well formed: the strengthening the others need.   *)
THEOREM SpecIInv == Spec => []IInv
  <1>1. Init => IInv
    BY InitIInv
  <1>2. IInv /\ [Next]_vars => IInv'
    BY StepIInv
  <1>3. QED
    BY <1>1, <1>2, PTL DEF Spec

(* Type correctness of the runtime's state. *)
THEOREM SpecTypeOK == Spec => []TypeOK
  <1>1. IInv => TypeOK
    BY DEF IInv, RuntimeOK, RegistryOK, BeatsOK, ChildrenOK, TypeOK
  <1>2. QED
    BY <1>1, SpecIInv, PTL

(* The heartbeat tracker watches exactly the active sessions, if crashes   *)
(* are reported of no other.                                               *)
THEOREM SpecWatchedIffActive ==
    ASSUME ~LateReports PROVE Spec => []WatchedIffActive
  <1>1. IInv => WatchedIffActive
    BY DEF IInv, RuntimeOK, BeatsOK, WatchedIffActive
  <1>2. QED
    BY <1>1, SpecIInv, PTL

(* Admission never lets the budgets of the active sessions outgrow the     *)
(* host, whatever terminations, crashes and restarts came between, if      *)
(* crashes are reported of active sessions only.                           *)
THEOREM SpecWithinCapacity ==
    ASSUME ~LateReports PROVE Spec => []WithinCapacity
  <1>1. IInv => WithinCapacity
    <2> SUFFICES ASSUME IInv, AdmissionEnabled, NEW r \in Resources
                 PROVE  \/ Active(sessions) = {}
                        \/ Reserved[r] + Cardinality(Active(sessions)) * Budget[r] <= Total[r]
                        \/ Budget[r] = 0
      BY DEF WithinCapacity
    <2>1. Fits(Cardinality(Active(sessions)), r)
      BY DEF IInv, RuntimeOK, CapacityOK
    <2>2. IsFiniteSet(Active(sessions))
      BY ActiveFinite DEF IInv, RuntimeOK, RegistryOK
    <2>3. Cardinality(Active(sessions)) = 0 => Active(sessions) = {}
      BY <2>2, FS_EmptySet
    <2>4. QED
      BY <2>1, <2>3 DEF Fits
  <1>2. QED
    BY <1>1, SpecIInv, PTL

(* No session goes on past its restart budget, and none fails before it.   *)
THEOREM SpecCrashBudget == Spec => []CrashBudget
  <1>1. IInv => CrashBudget
    BY DEF IInv, RuntimeOK, CrashesOK, CrashBudget, Active
  <1>2. QED
    BY <1>1, SpecIInv, PTL

(* No process outlives the termination of its session, even when process   *)
(* ids are used again.                                                     *)
THEOREM SpecChildrenAccounted == Spec => []ChildrenAccounted
  <1>1. IInv => ChildrenAccounted
    BY DEF IInv, RuntimeOK, ChildrenOK, ChildrenAccounted
  <1>2. QED
    BY <1>1, SpecIInv, PTL

-----------------------------------------------------------------------------
(* The action property.                                                    *)

(* What has ended in one registry has ended in the other. *)
Persists(old, new) ==
    \A s \in DOMAIN old \ Active(old) : s \in DOMAIN new \ Active(new)

LEMMA PersistsTerminate ==
    ASSUME IInv, NEW s \in DOMAIN sessions
    PROVE  /\ Persists(sessions, TerminatedSessions(s))
           /\ DOMAIN TerminatedSessions(s) = DOMAIN sessions
  <1> DEFINE new == TerminatedSessions(s)
  <1>1. /\ DOMAIN new = DOMAIN sessions
        /\ new[s] = [sessions[s] EXCEPT !.state = "Terminated"]
        /\ \A t \in DOMAIN sessions : t # s => new[t] = sessions[t]
    BY DEF TerminatedSessions, WithState
  <1>2. sessions[s] \in SessionRecord
    BY DEF IInv, RuntimeOK, RegistryOK
  <1>3. new[s].state = "Terminated"
    BY <1>1, <1>2 DEF SessionRecord
  <1>4. QED
    BY <1>1, <1>3 DEF Persists, Active, Ended

LEMMA PersistsSpawn ==
    ASSUME NEW sess, NEW beats, NEW kids, NEW live,
           \A s \in DOMAIN sess : s < nextId, nextId \in Nat,
           DOMAIN sess \subseteq Nat,
           SpawnOn(sess, beats, kids, live)
    PROVE  Persists(sess, sessions')
  <1>1. CASE sessions' = sess
    BY <1>1 DEF Persists
  <1>2. ASSUME NEW p \in Pids, SpawnSucceeds(sess, beats, kids, live, p)
        PROVE  Persists(sess, sessions')
    <2>1. nextId \notin DOMAIN sess
      OBVIOUS
    <2>2. /\ DOMAIN sessions' = DOMAIN sess \cup {nextId}
          /\ \A s \in DOMAIN sess : sessions'[s] = sess[s]
      BY <1>2, <2>1 DEF SpawnSucceeds, Insert
    <2>3. QED
      BY <2>2 DEF Persists, Active
  <1>3. QED
    BY <1>1, <1>2 DEF SpawnOn, Rejected, SpawnFails

LEMMA PersistsTransition ==
    ASSUME NEW s \in DOMAIN sessions, NEW from, NEW to, from \notin Ended,
           ControlTransition(s, from, to)
    PROVE  Persists(sessions, sessions')
  <1>1. sessions[s].state \notin Ended
    BY DEF ControlTransition
  <1>2. /\ DOMAIN sessions' = DOMAIN sessions
        /\ \A t \in DOMAIN sessions : t # s => sessions'[t] = sessions[t]
    BY DEF ControlTransition, WithState
  <1>3. QED
    BY <1>1, <1>2 DEF Persists, Active, Ended

(* Crashes leave alone the sessions that did not crash. *)
LEMMA CrashSpares ==
    ASSUME NEW crashed
    PROVE  /\ DOMAIN CrashedSessions(crashed) = DOMAIN sessions
           /\ \A t \in DOMAIN sessions \ crashed :
                 CrashedSessions(crashed)[t] = sessions[t]
  BY DEF CrashedSessions

(* What the report of a crash does to a session that had ended: if that    *)
(* brings it back, it was terminated and had restarts left.                *)
LEMMA ReportRevives ==
    ASSUME IInv, NEW s \in DOMAIN sessions \ Active(sessions),
           CrashedSessions({s})[s].state \notin Ended
    PROVE  /\ sessions[s].state = "Terminated"
           /\ CrashedSessions({s})[s].restarts = sessions[s].restarts + 1
           /\ CrashedSessions({s})[s].restarts < MaxRestarts
  <1>1. CrashedSessions({s})[s] = AfterCrash(sessions[s])
    BY DEF CrashedSessions
  <1>2. /\ sessions[s] \in SessionRecord /\ sessions[s].restarts \in Nat
        /\ sessions[s].state = "Failed" => sessions[s].restarts >= MaxRestarts
    BY DEF IInv, RuntimeOK, RegistryOK, CrashesOK, SessionRecord
  <1>3. ~EntersFailed(sessions[s].restarts + 1)
    BY <1>1, <1>2, AfterCrashRecord DEF Ended
  <1>4. sessions[s].restarts + 1 < MaxRestarts
    BY <1>2, <1>3, SupervisorAssumption DEF EntersFailed, SupervisorAssumption
  <1>5. sessions[s].state \in Ended
    BY DEF Active
  <1>6. sessions[s].state # "Failed"
    BY <1>2, <1>4, SupervisorAssumption DEF SupervisorAssumption
  <1>7. QED
    BY <1>1, <1>2, <1>4, <1>5, <1>6, AfterCrashRecord DEF Ended

(* Only the report of a crash of an ended session brings it back, which    *)
(* counts against its restarts: a session that has none left, each failed  *)
(* one in particular, never comes back, whoever reports what.              *)
THEOREM SpecNoResurrection == Spec => NoResurrection
  <1> DEFINE Back(s) == /\ CrashReported(s)
                        /\ sessions[s].state = "Terminated"
                        /\ sessions'[s].restarts = sessions[s].restarts + 1
                        /\ sessions'[s].restarts < MaxRestarts
             A == \A s \in DOMAIN sessions \ Active(sessions) :
                    /\ s \in DOMAIN sessions'
                    /\ s \in Active(sessions') => Back(s)
  <1>1. ASSUME IInv, [Next]_vars PROVE A
    <2>0. Persists(sessions, sessions') => A
      BY DEF Persists
    <2>1. /\ \A s \in DOMAIN sessions : s < nextId
          /\ nextId \in Nat
          /\ DOMAIN sessions \subseteq Nat
      BY <1>1, SupervisorAssumption
         DEF IInv, RuntimeOK, RegistryOK, Ids, SupervisorAssumption
    <2>2. CASE SpawnSession
      BY <2>0, <2>1, <2>2, PersistsSpawn DEF SpawnSession
    <2>3. ASSUME NEW s \in DOMAIN sessions, TerminateSession(s) PROVE A
      BY <1>1, <2>0, <2>3, PersistsTerminate DEF TerminateSession
    <2>4. ASSUME NEW s \in DOMAIN sessions, RestartSession(s) PROVE A
      <3> DEFINE mid == TerminatedSessions(s)
      <3>1. Persists(sessions, mid) /\ DOMAIN mid = DOMAIN sessions
        BY <1>1, PersistsTerminate
      <3>2. SpawnOn(mid, TerminatedBeats(s), TerminatedChildren(s), TerminatedAlive(s))
        BY <2>4 DEF RestartSession
      <3> HIDE DEF mid
      <3>3. Persists(mid, sessions')
        BY <2>1, <3>1, <3>2, PersistsSpawn
      <3>4. QED
        BY <2>0, <3>1, <3>3 DEF Persists
    <2>5. ASSUME NEW s \in DOMAIN sessions,
                 \/ LockSession(s) \/ UnlockSession(s)
                 \/ SuspendSession(s) \/ ResumeSession(s)
          PROVE  A
      BY <2>0, <2>5, PersistsTransition
         DEF LockSession, UnlockSession, SuspendSession, ResumeSession, Ended
    <2>6. ASSUME NEW s \in DOMAIN sessions, CrashReported(s) PROVE A
      <3>1. sessions' = CrashedSessions({s})
        BY <2>6 DEF CrashReported, HandleCrash
      <3>2. SUFFICES ASSUME NEW t \in DOMAIN sessions \ Active(sessions)
                     PROVE  t \in DOMAIN sessions' /\ (t \in Active(sessions') => Back(t))
        OBVIOUS
      <3>3. t \in DOMAIN sessions'
        BY <3>1, CrashSpares
      <3>4. CASE t # s
        BY <3>1, <3>3, <3>4, CrashSpares DEF Active
      <3>5. CASE t = s
        <4>1. SUFFICES ASSUME t \in Active(sessions') PROVE Back(t)
          BY <3>3
        <4>2. CrashedSessions({s})[s].state \notin Ended
          BY <3>1, <3>5, <4>1 DEF Active
        <4>3. QED
          BY <1>1, <2>6, <3>1, <3>5, <4>2, ReportRevives
      <3>6. QED
        BY <3>4, <3>5
    <2>7. CASE Tick
      <3>1. TimedOut \subseteq Active(sessions) /\ sessions' = CrashedSessions(TimedOut)
        BY <1>1, <2>7 DEF Tick, TimedOut, IInv, RuntimeOK, BeatsOK
      <3>2. QED
        BY <2>0, <3>1, CrashSpares DEF Persists, Active
    <2>8. CASE UNCHANGED sessions
      BY <2>0, <2>8 DEF Persists
    <2> HIDE DEF A
    <2>9. QED
      BY <1>1, <2>2, <2>3, <2>4, <2>5, <2>6, <2>7, <2>8
         DEF Next, vars, HeartbeatArrives, RecordHeartbeat, PollAlive, ProcessExits, MetricsArrive,
             SecondPasses, sessionVars
  <1>2. IInv /\ [Next]_vars => [A]_vars
    BY <1>1
  <1>3. QED
    BY <1>2, SpecIInv, PTL DEF Spec, NoResurrection

-----------------------------------------------------------------------------
(* Recovery from a downgrade.                                              *)

(* The load has been low for at least as long as the timer has run: every  *)
(* way to reset calm resets the timer as well.                             *)
PacedInv ==
    /\ DowngradeTypeOK
    /\ calm \in 0 .. RecoveryHoldSec
    /\ recovery # NoTimer => calm >= recovery
    /\ level = NoDowngrade => recovery = NoTimer

LEMMA InitPacedInv == PacedInit => PacedInv
  BY DowngradeAssumption
  DEF PacedInit, DowngradeInit, PacedInv, DowngradeTypeOK, Levels, NoDowngrade, SuspendLeastActive,
      NoTimer, DowngradeAssumption

(* What a tick does: the timer runs on only while the load is low and the  *)
(* level stays; the level goes down only by one, with a timer that was     *)
(* running before and has run out.                                         *)
LEMMA TickPaced ==
    ASSUME PacedInv, DowngradeTick
    PROVE  /\ recovery' # NoTimer => recovery' \in {0, recovery} /\ level' # NoDowngrade
           /\ recovery' \notin {NoTimer, 0} => level' = level /\ ~(cpu >= RecoveryThreshold(level'))
           /\ level' < level =>
                 level' = level - 1 /\ recovery # NoTimer /\ recovery >= RecoveryHoldSec
  <1> DEFINE l == LevelAfterEvaluate
             r == RecoveryAfterEvaluate
  <1>1. l \in Levels /\ r \in {NoTimer} \cup 0 .. RecoveryHoldSec /\ level \in Levels
    BY PressureLevelType DEF PacedInv, DowngradeTypeOK, LevelAfterEvaluate, RecoveryAfterEvaluate
  <1>2. (l > level /\ r = NoTimer) \/ (l = level /\ r = recovery)
    BY DEF LevelAfterEvaluate, RecoveryAfterEvaluate, Escalates
  <1>3. TryRecover(l, r)
    BY DEF DowngradeTick
  <1>4. /\ level \in 0 .. 4 /\ l \in 0 .. 4 /\ RecoveryHoldSec \in Nat /\ NoDowngrade = 0 /\ NoTimer = -1
        /\ level = 0 => recovery = -1
    BY <1>1, DowngradeAssumption
    DEF Levels, NoDowngrade, SuspendLeastActive, NoTimer, DowngradeAssumption, PacedInv
  <1> HIDE DEF l, r
  <1>5. CASE l = NoDowngrade /\ level' = l /\ recovery' = r
    BY <1>2, <1>4, <1>5
  <1>6. CASE l # NoDowngrade /\ level' = l /\ recovery' = NoTimer
    BY <1>2, <1>4, <1>6
  <1>7. CASE l # NoDowngrade /\ cpu < RecoveryThreshold(l) /\ r = NoTimer /\ level' = l /\ recovery' = 0
    BY <1>2, <1>4, <1>7
  <1>8. CASE /\ l # NoDowngrade /\ cpu < RecoveryThreshold(l) /\ r # NoTimer
             /\ level' = l /\ recovery' = r
    <2>1. cpu \in Int /\ RecoveryThreshold(l) \in Int
      BY DowngradeAssumption DEF PacedInv, DowngradeTypeOK, DowngradeAssumption, RecoveryThreshold
    <2> QED
      BY <1>2, <1>4, <1>8, <2>1
  <1>9. CASE /\ l # NoDowngrade /\ r # NoTimer /\ r >= RecoveryHoldSec
             /\ level' = l - 1 /\ recovery' = NoTimer
    BY <1>2, <1>4, <1>9
  <1> QED
    BY <1>3, <1>5, <1>6, <1>7, <1>8, <1>9 DEF TryRecover

LEMMA StepPacedInv == PacedInv /\ [PacedNext]_pacedVars => PacedInv'
  <1> SUFFICES ASSUME PacedInv, [PacedNext]_pacedVars PROVE PacedInv'
    OBVIOUS
  <1>1. RecoveryHoldSec \in Nat /\ NoTimer = -1 /\ calm \in 0 .. RecoveryHoldSec
    BY DowngradeAssumption DEF PacedInv, DowngradeAssumption, NoTimer
  <1>2. CASE DowngradeTick /\ PacedNext
    <2>1. DowngradeTypeOK'
      BY <1>2, DowngradeTickType DEF PacedInv
    <2>2. calm' = IF level' # level \/ TickSawPressure THEN 0 ELSE calm
      <3>1. ~Elapse \/ recovery' = recovery + 1
        BY DEF Elapse
      <3>2. recovery' # recovery + 1 \/ (recovery = NoTimer /\ recovery' = 0)
        BY <1>1, <1>2, TickPaced DEF PacedInv, DowngradeTypeOK
      <3>3. ~Elapse
        BY <3>1, <3>2 DEF Elapse
      <3> QED
        BY <1>2, <3>3 DEF PacedNext
    <2>3. calm' \in 0 .. RecoveryHoldSec
      BY <1>1, <2>2
    <2>4. recovery' # NoTimer => calm' >= recovery'
      <3> SUFFICES ASSUME recovery' # NoTimer PROVE calm' >= recovery'
        OBVIOUS
      <3>1. CASE recovery' = 0
        BY <1>1, <2>3, <3>1
      <3>2. CASE recovery' # 0
        <4>1. recovery' = recovery /\ level' = level /\ ~TickSawPressure
          BY <1>2, <3>2, TickPaced DEF TickSawPressure
        <4> QED
          BY <2>2, <4>1 DEF PacedInv
      <3> QED
        BY <3>1, <3>2
    <2>5. level' = NoDowngrade => recovery' = NoTimer
      BY <1>2, TickPaced
    <2> QED
      BY <2>1, <2>3, <2>4, <2>5 DEF PacedInv
  <1>3. CASE Elapse /\ PacedNext
    <2>1. /\ recovery # NoTimer /\ recovery < RecoveryHoldSec /\ recovery' = recovery + 1
          /\ UNCHANGED <<cpu, level>>
      BY <1>3 DEF Elapse
    <2>2. ~TickSawPressure
      <3>1. ASSUME DowngradeTick PROVE FALSE
        BY <1>1, <2>1, <3>1, TickPaced DEF PacedInv, DowngradeTypeOK
      <3> QED
        BY <3>1 DEF TickSawPressure
    <2>3. calm' = IF calm < RecoveryHoldSec THEN calm + 1 ELSE calm
      BY <1>3, <2>1, <2>2 DEF PacedNext
    <2> QED
      BY <1>1, <2>1, <2>3 DEF PacedInv, DowngradeTypeOK
  <1>4. ASSUME NEW load \in CpuLoads, UpdateHostMetrics(load), PacedNext
        PROVE  PacedInv'
    <2>1. cpu' = load /\ UNCHANGED <<level, recovery>>
      BY <1>4 DEF UpdateHostMetrics
    <2>2. calm' = calm \/ (TickSawPressure /\ calm' = 0)
      <3>1. ~Elapse
        BY <1>1, <2>1 DEF Elapse, PacedInv, DowngradeTypeOK
      <3> QED
        BY <1>4, <2>1, <3>1 DEF PacedNext
    <2>3. TickSawPressure /\ recovery' # NoTimer => recovery' = 0
      BY <2>1, TickPaced DEF TickSawPressure
    <2> QED
      BY <1>1, <2>1, <2>2, <2>3 DEF PacedInv, DowngradeTypeOK
  <1>5. CASE UNCHANGED pacedVars
    BY <1>5 DEF pacedVars, downgradeVars, PacedInv, DowngradeTypeOK
  <1> QED
    BY <1>2, <1>3, <1>4, <1>5 DEF PacedNext, DowngradeNext

(* A level is left one at a time, and only after a whole hold time in      *)
(* which every tick sampled a load below its recovery threshold, for all   *)
(* thresholds, hysteresis and hold times, and loads that jump at any time. *)
THEOREM SpecRecoveryPaced == PacedSpec => RecoveryPaced
  <1> DEFINE A == level' < level => level' = level - 1 /\ calm >= RecoveryHoldSec
  <1>1. ASSUME PacedInv, PacedNext PROVE A
    <2>1. CASE DowngradeTick
      <3> SUFFICES ASSUME level' < level PROVE level' = level - 1 /\ calm >= RecoveryHoldSec
        OBVIOUS
      <3>1. level' = level - 1 /\ recovery # NoTimer /\ recovery >= RecoveryHoldSec
        BY <1>1, <2>1, TickPaced
      <3>2. calm >= recovery /\ calm \in Int /\ recovery \in Int /\ RecoveryHoldSec \in Int
        BY <1>1, <3>1, DowngradeAssumption DEF PacedInv, DowngradeTypeOK, NoTimer, DowngradeAssumption
      <3> QED
        BY <3>1, <3>2
    <2>2. CASE level' = level
      BY <1>1, <2>2 DEF PacedInv, DowngradeTypeOK, Levels, NoDowngrade, SuspendLeastActive
    <2> QED
      BY <1>1, <2>1, <2>2 DEF PacedNext, DowngradeNext, Elapse, UpdateHostMetrics
  <1>2. PacedInv /\ [PacedNext]_pacedVars => [A]_pacedVars
    BY <1>1
  <1>3. PacedSpec => []PacedInv
    BY InitPacedInv, StepPacedInv, PTL DEF PacedSpec
  <1> QED
    BY <1>2, <1>3, PTL DEF PacedSpec, RecoveryPaced
=============================================================================
