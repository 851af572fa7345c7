----------------------------- MODULE Expiry_proofs -----------------------------
(***************************************************************************)
(* Proofs about the two managers that expire contracts on their own:       *)
(* Sessions, and TimeboundExpiry below it; for any sets of contracts,      *)
(* sessions, users and intervals, any timeouts, ages and depths.           *)
(*                                                                         *)
(* A step is a step of the lifecycle, leaves the lifecycle alone, or       *)
(* expires contracts as ExpireEach does: what Lifecycle_proofs shows of    *)
(* one contract holds of each.                                             *)
(*                                                                         *)
(* Sessions: that the two maps agree is inductive once it is known that    *)
(* only an ended session has an end (EndsInv): cleanupOldSessions goes by  *)
(* ended_at, not by status.  That ending a session expires only what it    *)
(* may needs to know of the listed contracts that they are stored with     *)
(* session retention (ListedInv), however long ago they were associated.   *)
(*                                                                         *)
(* TimeboundExpiry: a cycle queues what is due and expires it later, when  *)
(* listeners may have done anything.  What is queued stays due (QueuesDue) *)
(* since the clock does not go back and terms do not change.  The counts:  *)
(* expired contracts are shared out to the totals and the cycles as they   *)
(* expire (CountInv), and what one cycle has counted expires no more.      *)
(***************************************************************************)
EXTENDS Sessions, TimeboundExpiry, Lifecycle_proofs, FiniteSetTheorems

-----------------------------------------------------------------------------
(***************************************************************************)
(* The lifecycle under it.                                                 *)
(***************************************************************************)

\* endSession and endUserSessions, as what they do to the active sessions S.
EndActive(S) == EndEach(S) /\ \A s \in S : HasStatus(s, "active")

\* The steps, with the two ways to end sessions taken together.
SessionStep ==
    \/ \E s \in SessionIds, user \in Users, timeout \in Timeouts : StartSession(s, user, timeout)
    \/ \E s \in SessionIds, c \in ContractIds : AssociateContract(s, c)
    \/ \E c \in ContractIds : DisassociateContract(c)
    \/ \E S \in SUBSET SessionIds : EndActive(S)
    \/ ExpireTimedOutSessions
    \/ \E maxAge \in MaxAges : CleanupOldSessions(maxAge)
    \/ [Next]_lifecycleVars /\ UNCHANGED sessionVars

LEMMA SessionSteps ==
    ASSUME [SessionsNext]_vars
    PROVE  SessionStep
<1>1. ASSUME NEW s \in SessionIds, EndSession(s) PROVE \E S \in SUBSET SessionIds : EndActive(S)
  <2>1. {s} \in SUBSET SessionIds /\ EndActive({s})
    BY <1>1 DEF EndSession, EndActive
  <2> QED BY <2>1
<1>2. ASSUME NEW user \in Users, EndUserSessions(user)
      PROVE  \E S \in SUBSET SessionIds : EndActive(S)
  <2> DEFINE S == {s \in SessionIds : HasStatus(s, "active") /\ sessions[s].user_id = user}
  <2>1. S \in SUBSET SessionIds /\ EndActive(S)
    BY <1>2 DEF EndUserSessions, EndActive
  <2> QED BY <2>1
<1>3. CASE LifecycleOperation
  BY <1>3 DEF LifecycleOperation, SessionStep
<1>4. CASE UNCHANGED vars
  BY <1>4 DEF SessionStep, vars, lifecycleVars, sessionVars
<1> QED BY <1>1, <1>2, <1>3, <1>4 DEF SessionsNext, SessionStep

\* What ending sessions expires is active.
LEMMA CleanedActive ==
    ASSUME NEW S
    PROVE  \A c \in Cleaned(S) : InState(c, "active") /\ Exists(c)
BY DEF Cleaned, InState

\* Every step moves each contract by at most one logged transition, keeps the terms of
\* those that are stored and is a step of the lifecycle diagram.
LEMMA SessionsLifecycleStep ==
    ASSUME SessionsTypeOK, [SessionsNext]_vars
    PROVE  /\ TypeOK'
           /\ \A x \in ContractIds : PointStep(x) /\ StoreStep(x)
           /\ DiagramStep
<1>0. TypeOK
  BY DEF SessionsTypeOK
<1>1. CASE [Next]_lifecycleVars
  BY <1>0, <1>1, StepLemma, StoreLemma
<1>2. ASSUME NEW S \in SUBSET SessionIds, EndActive(S)
      PROVE  /\ TypeOK'
             /\ \A x \in ContractIds : PointStep(x) /\ StoreStep(x)
             /\ DiagramStep
  <2>1. \A s \in S : sessions[s].contract_ids \in SUBSET ContractIds
    BY <1>2 DEF SessionsTypeOK, EndActive, HasStatus, Known, Session
  <2>2. Cleaned(S) \in SUBSET ContractIds
    BY <2>1 DEF Cleaned
  <2>3. \A c \in Cleaned(S) : InState(c, "active") /\ Exists(c)
    BY CleanedActive
  <2>4. ExpireEach(Cleaned(S)) /\ now' = now
    BY <1>2 DEF EndActive, EndEach
  <2>5. /\ TypeOK'
        /\ \A x \in ContractIds : PointStep(x)
        /\ Diagram!Expire(Cleaned(S))
    BY <1>0, <2>2, <2>3, <2>4, ExpireStep
  <2>6. \A x \in ContractIds : StoreStep(x)
    BY <2>2, <2>3, <2>4, ExpireStore
  <2> QED BY <2>2, <2>5, <2>6 DEF DiagramStep, Diagram!Next
<1>3. \/ \E s \in SessionIds, user \in Users, timeout \in Timeouts : StartSession(s, user, timeout)
      \/ \E s \in SessionIds, c \in ContractIds : AssociateContract(s, c)
      \/ \E c \in ContractIds : DisassociateContract(c)
      \/ ExpireTimedOutSessions
      \/ \E maxAge \in MaxAges : CleanupOldSessions(maxAge)
      => UNCHANGED lifecycleVars
  BY DEF StartSession, AssociateContract, DisassociateContract, ExpireTimedOutSessions,
         CleanupOldSessions, lifecycleVars
<1> QED BY <1>1, <1>2, <1>3, SessionSteps DEF SessionStep
-----------------------------------------------------------------------------
(***************************************************************************)
(* Types, and the two maps.                                                *)
(***************************************************************************)

\* Only a session that was ended has an end.
EndsInv ==
    \A s \in SessionIds : Known(s) /\ sessions[s].status # "ended" => sessions[s].ended_at = NoTime

\* Whatever a session lists is stored, and meant to live no longer than a session.
ListedInv ==
    \A s \in SessionIds, c \in ContractIds :
       Lists(s, c) => Exists(c) /\ contracts[c].memory_permissions.retention = "session"

\* What is inductive.
SessionsInv == SessionsTypeOK /\ MappingPointsToHolder /\ EndsInv /\ ListedInv

\* A stored session is one, and so are its copies with a field replaced.
LEMMA StoredSession ==
    ASSUME SessionsTypeOK, NEW s \in SessionIds, Known(s)
    PROVE  sessions[s] \in Session /\ sessions[s].contract_ids \in SUBSET ContractIds
BY DEF SessionsTypeOK, Known, Session

LEMMA Relisted ==
    ASSUME NEW old \in Session, NEW C \in SUBSET ContractIds,
           NEW new, new = [old EXCEPT !.contract_ids = C]
    PROVE  /\ new \in Session /\ new # NoSession
           /\ new.contract_ids = C /\ new.status = old.status /\ new.ended_at = old.ended_at
<1>1. /\ new \in Session
      /\ new.contract_ids = C /\ new.status = old.status /\ new.ended_at = old.ended_at
  BY DEF Session
<1> QED BY <1>1, SessionAssumption

EndedAt(old, at) == [old EXCEPT !.status = "ended", !.ended_at = at]

LEMMA Closed ==
    ASSUME NEW old \in Session, NEW at \in Time
    PROVE  /\ EndedAt(old, at) \in Session /\ EndedAt(old, at) # NoSession
           /\ EndedAt(old, at).contract_ids = old.contract_ids
           /\ EndedAt(old, at).status = "ended" /\ EndedAt(old, at).ended_at = at
<1>1. /\ EndedAt(old, at) \in Session
      /\ EndedAt(old, at).contract_ids = old.contract_ids
      /\ EndedAt(old, at).status = "ended" /\ EndedAt(old, at).ended_at = at
  BY DEF EndedAt, Session, SessionStatus
<1> QED BY <1>1, SessionAssumption

LEMMA TimedOutSession ==
    ASSUME NEW old \in Session, NEW new, new = [old EXCEPT !.status = "expired"]
    PROVE  /\ new \in Session /\ new # NoSession
           /\ new.contract_ids = old.contract_ids /\ new.status = "expired"
           /\ new.ended_at = old.ended_at
<1>1. /\ new \in Session
      /\ new.contract_ids = old.contract_ids /\ new.status = "expired"
      /\ new.ended_at = old.ended_at
  BY DEF Session, SessionStatus
<1> QED BY <1>1, SessionAssumption

LEMMA SessionsTypeStep ==
    ASSUME SessionsTypeOK, [SessionsNext]_vars
    PROVE  SessionsTypeOK'
<1> DEFINE Sess == sessions' \in [SessionIds -> Session \cup {NoSession}]
           Map == contractToSession' \in [ContractIds -> SessionIds \cup {NoSession}]
<1>0. TypeOK' /\ now \in Nat /\ now \in Time
  BY SessionsLifecycleStep DEF SessionsTypeOK, TypeOK, Time
<1>1. ASSUME NEW s \in SessionIds, NEW user \in Users, NEW timeout \in Timeouts,
             StartSession(s, user, timeout)
      PROVE  Sess /\ Map
  BY <1>0, <1>1 DEF StartSession, SessionsTypeOK, Session, SessionStatus, Time
<1>2. ASSUME NEW s \in SessionIds, NEW c \in ContractIds, AssociateContract(s, c)
      PROVE  Sess /\ Map
  <2>0. Known(s) /\ sessions[s].contract_ids \cup {c} \in SUBSET ContractIds
    BY <1>2, StoredSession DEF AssociateContract, HasStatus
  <2>1. [sessions[s] EXCEPT !.contract_ids = @ \cup {c}] \in Session
    BY <2>0, StoredSession, Relisted
  <2> QED BY <1>2, <2>1 DEF AssociateContract, SessionsTypeOK
<1>3. ASSUME NEW c \in ContractIds, DisassociateContract(c)
      PROVE  Sess /\ Map
  <2> DEFINE s == contractToSession[c]
  <2>1. s \in SessionIds
    BY <1>3 DEF DisassociateContract, SessionsTypeOK
  <2>2. Known(s) => [sessions[s] EXCEPT !.contract_ids = @ \ {c}] \in Session
    BY <2>1, StoredSession, Relisted
  <2> QED BY <1>3, <2>1, <2>2 DEF DisassociateContract, SessionsTypeOK
<1>4. ASSUME NEW S \in SUBSET SessionIds, EndActive(S)
      PROVE  Sess /\ Map
  <2>1. \A s \in S : EndedAt(sessions[s], now) \in Session
    BY <1>0, <1>4, StoredSession, Closed DEF EndActive, HasStatus
  <2>2. Sess
    BY <1>4, <2>1 DEF EndActive, EndEach, EndedAt, SessionsTypeOK
  <2>3. Map
    BY <1>4 DEF EndActive, EndEach, SessionsTypeOK
  <2> QED BY <2>2, <2>3
<1>5. ASSUME ExpireTimedOutSessions PROVE Sess /\ Map
  <2>1. \A s \in SessionIds : TimedOut(s) => [sessions[s] EXCEPT !.status = "expired"] \in Session
    BY StoredSession, TimedOutSession DEF TimedOut, HasStatus
  <2> QED BY <1>5, <2>1 DEF ExpireTimedOutSessions, SessionsTypeOK
<1>6. ASSUME NEW maxAge \in MaxAges, CleanupOldSessions(maxAge) PROVE Sess /\ Map
  BY <1>6 DEF CleanupOldSessions, SessionsTypeOK
<1>7. ASSUME UNCHANGED sessionVars PROVE Sess /\ Map
  BY <1>7 DEF sessionVars, SessionsTypeOK
<1> HIDE DEF Sess, Map
<1>8. Sess /\ Map
  BY <1>1, <1>2, <1>3, <1>4, <1>5, <1>6, <1>7, SessionSteps DEF SessionStep
<1> QED BY <1>0, <1>8 DEF SessionsTypeOK, Sess, Map

\* What a step does to one session x: forget it or start it, or leave it its identity.
\* Only an active one is ended, timed out or joined; only one with an end is forgotten.
SessionPoint(x) ==
    \/ sessions'[x] = sessions[x]
    \/ /\ ~Known(x) /\ sessions'[x] # NoSession
       /\ sessions'[x].status = "active" /\ sessions'[x].ended_at = NoTime
       /\ sessions'[x].contract_ids = {}
    \/ /\ Known(x) /\ sessions[x].ended_at # NoTime /\ sessions'[x] = NoSession
    \/ /\ HasStatus(x, "active") /\ sessions'[x] # NoSession
       /\ sessions'[x].contract_ids = sessions[x].contract_ids
       /\ \/ sessions'[x].status = "ended"
          \/ sessions'[x].status = "expired" /\ sessions'[x].ended_at = sessions[x].ended_at
    \/ \E c \in ContractIds :
          /\ HasStatus(x, "active") /\ sessions'[x] # NoSession
          /\ Exists(c) /\ contracts[c].memory_permissions.retention = "session"
          /\ sessions'[x].contract_ids = sessions[x].contract_ids \cup {c}
          /\ sessions'[x].status = "active" /\ sessions'[x].ended_at = sessions[x].ended_at
    \/ /\ Known(x) /\ sessions'[x] # NoSession
       /\ sessions'[x].contract_ids \subseteq sessions[x].contract_ids
       /\ sessions'[x].status = sessions[x].status
       /\ sessions'[x].ended_at = sessions[x].ended_at

LEMMA SessionPoints ==
    ASSUME SessionsTypeOK, [SessionsNext]_vars, NEW x \in SessionIds
    PROVE  SessionPoint(x)
<1>1. ASSUME NEW s \in SessionIds, NEW user \in Users, NEW timeout \in Timeouts,
             StartSession(s, user, timeout)
      PROVE  SessionPoint(x)
  <2> DEFINE new == [user_id |-> user, created_at |-> now, ended_at |-> NoTime,
                     status |-> "active", contract_ids |-> {}, timeout |-> timeout]
  <2>1. new \in Session /\ new # NoSession
    BY SessionAssumption DEF SessionsTypeOK, TypeOK, Session, SessionStatus, Time
  <2>2. new.status = "active" /\ new.ended_at = NoTime /\ new.contract_ids = {}
    OBVIOUS
  <2>3. ~Known(s) /\ sessions' = [sessions EXCEPT ![s] = new]
    BY <1>1 DEF StartSession
  <2> HIDE DEF new
  <2> QED BY <2>1, <2>2, <2>3 DEF SessionsTypeOK, SessionPoint
<1>2. ASSUME NEW s \in SessionIds, NEW c \in ContractIds, AssociateContract(s, c)
      PROVE  SessionPoint(x)
  <2> DEFINE C == sessions[s].contract_ids \cup {c}
             new == [sessions[s] EXCEPT !.contract_ids = C]
  <2>0. Known(s) /\ C \in SUBSET ContractIds
    BY <1>2, StoredSession DEF AssociateContract, HasStatus
  <2>1. /\ new \in Session /\ new # NoSession /\ new.contract_ids = C
        /\ new.status = sessions[s].status /\ new.ended_at = sessions[s].ended_at
    <3>1. sessions[s] \in Session /\ new = [sessions[s] EXCEPT !.contract_ids = C]
      BY <2>0, StoredSession
    <3> HIDE DEF new, C
    <3> QED BY <2>0, <3>1, Relisted
  <2>2. /\ sessions' = [sessions EXCEPT ![s] = new] /\ HasStatus(s, "active")
        /\ Exists(c) /\ contracts[c].memory_permissions.retention = "session"
    BY <1>2 DEF AssociateContract
  <2> HIDE DEF new
  <2>3. CASE x = s
    <3>1. sessions'[x] = new
      BY <2>2, <2>3 DEF SessionsTypeOK
    <3> QED BY <2>1, <2>2, <2>3, <3>1 DEF SessionPoint, HasStatus
  <2>4. CASE x # s
    BY <2>2, <2>4 DEF SessionsTypeOK, SessionPoint
  <2> QED BY <2>3, <2>4
<1>3. ASSUME NEW c \in ContractIds, DisassociateContract(c)
      PROVE  SessionPoint(x)
  <2> DEFINE s == contractToSession[c]
             C == sessions[s].contract_ids \ {c}
             new == [sessions[s] EXCEPT !.contract_ids = C]
  <2>0. s \in SessionIds
    BY <1>3 DEF DisassociateContract, SessionsTypeOK
  <2>1. CASE Known(s)
    <3>1. /\ new \in Session /\ new # NoSession /\ new.contract_ids = C
          /\ new.status = sessions[s].status /\ new.ended_at = sessions[s].ended_at
      <4>1. /\ sessions[s] \in Session /\ C \in SUBSET ContractIds
            /\ new = [sessions[s] EXCEPT !.contract_ids = C]
        BY <2>0, <2>1, StoredSession
      <4> HIDE DEF new, C
      <4> QED BY <4>1, Relisted
    <3>2. sessions' = [sessions EXCEPT ![s] = new]
      BY <1>3, <2>1 DEF DisassociateContract
    <3> HIDE DEF new
    <3>3. CASE x = s
      <4>1. sessions'[x] = new
        BY <3>2, <3>3 DEF SessionsTypeOK
      <4> QED BY <2>1, <3>1, <3>3, <4>1 DEF SessionPoint
    <3>4. CASE x # s
      BY <3>2, <3>4 DEF SessionsTypeOK, SessionPoint
    <3> QED BY <3>3, <3>4
  <2>2. CASE ~Known(s)
    BY <1>3, <2>2 DEF DisassociateContract, SessionPoint
  <2> QED BY <2>1, <2>2
<1>4. ASSUME NEW S \in SUBSET SessionIds, EndActive(S)
      PROVE  SessionPoint(x)
  <2>1. CASE x \in S
    <3>1. now \in Time
      BY DEF SessionsTypeOK, TypeOK, Time
    <3>2. HasStatus(x, "active") /\ Known(x)
      BY <1>4, <2>1 DEF EndActive, HasStatus
    <3>3. sessions'[x] = EndedAt(sessions[x], now)
      BY <1>4, <2>1 DEF EndActive, EndEach, EndedAt
    <3>4. /\ sessions'[x] \in Session /\ sessions'[x].status = "ended"
          /\ sessions'[x].contract_ids = sessions[x].contract_ids
      BY <3>1, <3>2, <3>3, StoredSession, Closed
    <3> QED BY <3>2, <3>4, SessionAssumption DEF SessionPoint
  <2>2. CASE x \notin S
    BY <1>4, <2>2 DEF EndActive, EndEach, SessionPoint
  <2> QED BY <2>1, <2>2
<1>5. ASSUME ExpireTimedOutSessions PROVE SessionPoint(x)
  <2>1. CASE TimedOut(x)
    <3>1. HasStatus(x, "active") /\ Known(x)
      BY <2>1 DEF TimedOut, HasStatus
    <3>2. sessions'[x] = [sessions[x] EXCEPT !.status = "expired"]
      BY <1>5, <2>1 DEF ExpireTimedOutSessions
    <3>3. /\ sessions'[x] \in Session /\ sessions'[x].status = "expired"
          /\ sessions'[x].contract_ids = sessions[x].contract_ids
          /\ sessions'[x].ended_at = sessions[x].ended_at
      BY <3>1, <3>2, StoredSession, TimedOutSession
    <3> QED BY <3>1, <3>3, SessionAssumption DEF SessionPoint
  <2>2. CASE ~TimedOut(x)
    BY <1>5, <2>2 DEF ExpireTimedOutSessions, SessionPoint
  <2> QED BY <2>1, <2>2
<1>6. ASSUME NEW maxAge \in MaxAges, CleanupOldSessions(maxAge) PROVE SessionPoint(x)
  BY <1>6 DEF CleanupOldSessions, SessionPoint
<1>7. ASSUME UNCHANGED sessionVars PROVE SessionPoint(x)
  BY <1>7 DEF sessionVars, SessionPoint
<1> QED BY <1>1, <1>2, <1>3, <1>4, <1>5, <1>6, <1>7, SessionSteps DEF SessionStep

\* One step keeps what is inductive; first the parts that look at one session at a time.
LEMMA EndsStep ==
    ASSUME SessionsTypeOK, EndsInv, [SessionsNext]_vars
    PROVE  EndsInv'
<1> SUFFICES ASSUME NEW x \in SessionIds, sessions'[x] # NoSession,
                    sessions'[x].status # "ended"
             PROVE  sessions'[x].ended_at = NoTime
  BY DEF EndsInv, Known
<1>1. SessionPoint(x)
  BY SessionPoints
<1> QED BY <1>1 DEF SessionPoint, EndsInv, HasStatus, Known

LEMMA ListedStep ==
    ASSUME SessionsTypeOK, ListedInv, [SessionsNext]_vars
    PROVE  ListedInv'
<1> SUFFICES ASSUME NEW x \in SessionIds, NEW c \in ContractIds,
                    sessions'[x] # NoSession, c \in sessions'[x].contract_ids
             PROVE  Exists(c)' /\ contracts'[c].memory_permissions.retention = "session"
  BY DEF ListedInv, Lists, Known
<1>1. Lists(x, c) \/ (Exists(c) /\ contracts[c].memory_permissions.retention = "session")
  <2>1. SessionPoint(x)
    BY SessionPoints
  <2> QED BY <2>1 DEF SessionPoint, Lists, HasStatus, Known
<1>2. Exists(c) /\ contracts[c].memory_permissions.retention = "session"
  BY <1>1 DEF ListedInv
<1>3. TypeOK /\ StoreStep(c)
  BY SessionsLifecycleStep DEF SessionsTypeOK
<1> QED BY <1>2, <1>3, TermsStay

\* A session s that lists c and has not ended, in the next state.
HoldsNext(s, c) ==
    /\ sessions'[s] # NoSession /\ c \in sessions'[s].contract_ids
    /\ sessions'[s].status # "ended"

LEMMA MappingStep ==
    ASSUME SessionsTypeOK, EndsInv, MappingPointsToHolder, [SessionsNext]_vars
    PROVE  MappingPointsToHolder'
<1> SUFFICES ASSUME NEW c \in ContractIds, contractToSession'[c] # NoSession,
                    NEW s, s = contractToSession'[c]
             PROVE  HoldsNext(s, c)
  BY DEF MappingPointsToHolder, HoldsNext, Lists, HasStatus, Known
<1>0. contractToSession[c] = s =>
         s \in SessionIds /\ Lists(s, c) /\ Known(s) /\ sessions[s].status # "ended"
               /\ sessions[s] \in Session
  BY StoredSession DEF MappingPointsToHolder, SessionsTypeOK, HasStatus, Lists
<1>1. ASSUME contractToSession[c] = s, sessions'[s] = sessions[s] PROVE HoldsNext(s, c)
  BY <1>0, <1>1 DEF HoldsNext, Lists, Known
<1>2. ASSUME NEW t \in SessionIds, NEW user \in Users, NEW timeout \in Timeouts,
             StartSession(t, user, timeout)
      PROVE  HoldsNext(s, c)
  BY <1>0, <1>1, <1>2 DEF StartSession, SessionsTypeOK
<1>3. ASSUME NEW t \in SessionIds, NEW b \in ContractIds, AssociateContract(t, b)
      PROVE  HoldsNext(s, c)
  <2> DEFINE C == sessions[t].contract_ids \cup {b}
             new == [sessions[t] EXCEPT !.contract_ids = C]
  <2>1. /\ Known(t) /\ sessions[t].status = "active"
        /\ sessions' = [sessions EXCEPT ![t] = new]
        /\ contractToSession' = [contractToSession EXCEPT ![b] = t]
    BY <1>3 DEF AssociateContract, HasStatus
  <2>2. new # NoSession /\ new.contract_ids = C /\ new.status = sessions[t].status
    <3>1. /\ sessions[t] \in Session /\ C \in SUBSET ContractIds
          /\ new = [sessions[t] EXCEPT !.contract_ids = C]
      BY <2>1, StoredSession
    <3> HIDE DEF new, C
    <3> QED BY <3>1, Relisted
  <2> HIDE DEF new
  <2>3. sessions'[t] = new /\ \A x \in SessionIds \ {t} : sessions'[x] = sessions[x]
    BY <2>1 DEF SessionsTypeOK
  <2>4. CASE c = b
    BY <2>1, <2>2, <2>3, <2>4 DEF HoldsNext, SessionsTypeOK
  <2>5. CASE c # b /\ s = t
    <3>1. c \in sessions[t].contract_ids
      BY <1>0, <2>1, <2>5 DEF SessionsTypeOK, Lists
    <3> QED BY <2>1, <2>2, <2>3, <2>5, <3>1 DEF HoldsNext
  <2>6. CASE c # b /\ s # t
    BY <1>0, <1>1, <2>1, <2>3, <2>6 DEF SessionsTypeOK
  <2> QED BY <2>4, <2>5, <2>6
<1>4. ASSUME NEW b \in ContractIds, DisassociateContract(b)
      PROVE  HoldsNext(s, c)
  <2> DEFINE t == contractToSession[b]
             C == sessions[t].contract_ids \ {b}
             new == [sessions[t] EXCEPT !.contract_ids = C]
  <2>1. /\ t \in SessionIds
        /\ contractToSession' = [contractToSession EXCEPT ![b] = NoSession]
    BY <1>4 DEF DisassociateContract, SessionsTypeOK
  <2>2. c # b /\ contractToSession[c] = s
    BY <2>1 DEF SessionsTypeOK
  <2>3. Known(t) => sessions' = [sessions EXCEPT ![t] = new]
    BY <1>4 DEF DisassociateContract
  <2>4. ~Known(t) => sessions' = sessions
    BY <1>4 DEF DisassociateContract
  <2>5. CASE s = t
    <3>1. /\ sessions[t] \in Session /\ C \in SUBSET ContractIds
          /\ new = [sessions[t] EXCEPT !.contract_ids = C]
      BY <1>0, <2>2, <2>5, StoredSession
    <3>2. new # NoSession /\ new.contract_ids = C /\ new.status = sessions[t].status
      <4> HIDE DEF new, C
      <4> QED BY <3>1, Relisted
    <3>3. sessions'[t] = new
      BY <1>0, <2>1, <2>2, <2>3, <2>5 DEF SessionsTypeOK
    <3>4. c \in C
      BY <1>0, <2>2, <2>5 DEF Lists
    <3> QED BY <1>0, <2>2, <2>5, <3>2, <3>3, <3>4 DEF HoldsNext
  <2>6. CASE s # t
    <3>1. sessions'[s] = sessions[s]
      BY <1>0, <2>2, <2>3, <2>4, <2>6 DEF SessionsTypeOK
    <3> QED BY <1>1, <2>2, <3>1
  <2> QED BY <2>5, <2>6
<1>5. ASSUME NEW S \in SUBSET SessionIds, EndActive(S)
      PROVE  HoldsNext(s, c)
  <2>1. contractToSession[c] = s /\ \A x \in S : c \notin sessions[x].contract_ids
    BY <1>5 DEF EndActive, EndEach
  <2>2. s \notin S
    BY <1>0, <2>1 DEF Lists
  <2>3. sessions'[s] = sessions[s]
    BY <1>0, <1>5, <2>1, <2>2 DEF EndActive, EndEach
  <2> QED BY <1>1, <2>1, <2>3
<1>6. ASSUME ExpireTimedOutSessions PROVE HoldsNext(s, c)
  <2>1. contractToSession[c] = s
    BY <1>6 DEF ExpireTimedOutSessions
  <2>2. CASE TimedOut(s)
    <3>1. sessions'[s] = [sessions[s] EXCEPT !.status = "expired"]
      BY <1>0, <1>6, <2>1, <2>2 DEF ExpireTimedOutSessions
    <3>2. /\ sessions'[s] # NoSession /\ sessions'[s].status = "expired"
          /\ sessions'[s].contract_ids = sessions[s].contract_ids
      BY <1>0, <2>1, <3>1, TimedOutSession
    <3> QED BY <1>0, <2>1, <3>2 DEF HoldsNext, Lists
  <2>3. CASE ~TimedOut(s)
    BY <1>0, <1>1, <1>6, <2>1, <2>3 DEF ExpireTimedOutSessions
  <2> QED BY <2>2, <2>3
<1>7. ASSUME NEW maxAge \in MaxAges, CleanupOldSessions(maxAge) PROVE HoldsNext(s, c)
  <2>1. contractToSession[c] = s
    BY <1>7 DEF CleanupOldSessions
  <2>2. sessions[s].ended_at = NoTime
    BY <1>0, <2>1 DEF EndsInv
  <2>3. sessions'[s] = sessions[s]
    BY <1>0, <1>7, <2>1, <2>2 DEF CleanupOldSessions
  <2> QED BY <1>1, <2>1, <2>3
<1>8. ASSUME UNCHANGED sessionVars PROVE HoldsNext(s, c)
  BY <1>1, <1>8 DEF sessionVars
<1> QED BY <1>2, <1>3, <1>4, <1>5, <1>6, <1>7, <1>8, SessionSteps DEF SessionStep

LEMMA SessionsInvariant == SessionsSpec => []SessionsInv
<1>1. SessionsInit => SessionsInv
  <2>1. Init => TypeOK
    BY DEF Init, TypeOK
  <2> QED BY <2>1, SessionAssumption
          DEF SessionsInit, SessionsInv, SessionsTypeOK, MappingPointsToHolder, EndsInv,
              ListedInv, Lists, Known
<1>2. SessionsInv /\ [SessionsNext]_vars => SessionsInv'
  BY SessionsTypeStep, MappingStep, EndsStep, ListedStep DEF SessionsInv
<1> QED BY <1>1, <1>2, PTL DEF SessionsSpec
-----------------------------------------------------------------------------
(***************************************************************************)
(* The theorems.                                                           *)
(***************************************************************************)

\* session-manager.ts keeps two maps by hand in five places: a mapped contract is listed
\* by the session the map names, which exists and was not ended.
THEOREM SessionMapsAgree == SessionsSpec => []MapsAgree
BY SessionsInvariant, PTL DEF SessionsInv, MapsAgree

\* Only expiry by date expires a contract within the lifecycle.
LEMMA OnlyDatesExpire ==
    ASSUME TypeOK, [Next]_lifecycleVars, NEW x \in ContractIds,
           InState(x, "active"), InState(x, "expired")'
    PROVE  x \in ExpiredContracts
<1>0. /\ contracts[x] \in LearningContract /\ contracts[x].state = "active"
      /\ contracts'[x] # NoContract /\ contracts'[x].state = "expired" /\ Exists(x)
  BY StoredType DEF InState, Exists
<1>1. ASSUME NEW c \in ContractIds, NEW s, SaveState(c, s), s # "expired" PROVE FALSE
  BY <1>0, <1>1 DEF SaveState, TypeOK, LearningContract
<1>2. ASSUME NEW c \in ContractIds, NEW user \in Users, NEW d \in Drafts,
             CreateContract(c, user, d)
      PROVE  FALSE
  BY <1>0, <1>2 DEF CreateContract, TypeOK
<1>3. ASSUME NEW c \in ContractIds, NEW new \in ContractIds, NEW user \in Users,
             NEW d \in Drafts, NEW fields \in ChangeSets, AmendContract(c, new, user, d, fields)
      PROVE  FALSE
  <2> DEFINE draft == Replacement(c, user, d, fields)
  <2>1. /\ Exists(c) /\ ~Exists(new)
        /\ contracts' = [contracts EXCEPT ![c].state = "amended", ![new] = draft]
    BY <1>3 DEF AmendContract
  <2> HIDE DEF draft
  <2> QED BY <1>0, <2>1 DEF TypeOK, LearningContract
<1>4. CASE ExpireOldContracts
  BY <1>0, <1>4 DEF ExpireOldContracts, ExpireEach
<1>5. ~UNCHANGED contracts
  BY <1>0
<1> QED BY <1>1, <1>2, <1>3, <1>4, <1>5
        DEF Next, LifecycleStep, ContractStep, SubmitForReview, ActivateContract, RevokeContract,
            AmendContractThrows, Tick, lifecycleVars

\* session-manager.ts endSession: what a session lists is not active once it ended, shared
\* with other sessions or not; and nothing is expired early but by such an end, and only
\* with session retention.
THEOREM EndingsExpireTheirOwn == SessionsSpec => EndingExpiresItsOwn
<1> DEFINE A ==
       /\ \A s \in SessionIds : HasStatus(s, "active") /\ HasStatus(s, "ended")' =>
             \A c \in sessions[s].contract_ids : ~InState(c, "active")'
       /\ \A c \in ContractIds :
             InState(c, "active") /\ InState(c, "expired")' /\ c \notin ExpiredContracts =>
                /\ contracts[c].memory_permissions.retention = "session"
                /\ \E s \in SessionIds : Lists(s, c) /\ HasStatus(s, "ended")'
<1>1. ASSUME SessionsInv, [SessionsNext]_vars PROVE A
  <2> USE <1>1 DEF SessionsInv
  <2>1. ASSUME NEW S \in SUBSET SessionIds, EndActive(S), NEW s \in S
        PROVE  /\ Known(s) /\ HasStatus(s, "ended")'
               /\ sessions[s].contract_ids \in SUBSET ContractIds
    <3>1. Known(s) /\ sessions[s] \in Session /\ sessions[s].contract_ids \in SUBSET ContractIds
      BY <2>1, StoredSession DEF EndActive, HasStatus
    <3>2. sessions'[s] = EndedAt(sessions[s], now) /\ now \in Time
      BY <2>1 DEF EndActive, EndEach, EndedAt, SessionsTypeOK, TypeOK, Time
    <3> QED BY <3>1, <3>2, Closed DEF HasStatus, Known
  <2>2. ASSUME NEW S \in SUBSET SessionIds, EndActive(S), NEW c \in ContractIds
        PROVE  /\ c \in Cleaned(S) => contracts'[c].state = "expired"
               /\ c \notin Cleaned(S) => contracts'[c] = contracts[c]
    <3>1. c \in Cleaned(S) => contracts[c] \in LearningContract
      BY CleanedActive, StoredType DEF SessionsTypeOK
    <3> QED BY <2>2, <3>1 DEF EndActive, EndEach, ExpireEach, LearningContract
  <2>3. ASSUME NEW s \in SessionIds, HasStatus(s, "active"), HasStatus(s, "ended")'
        PROVE  \E S \in SUBSET SessionIds : EndActive(S) /\ s \in S
    <3>1. sessions[s].status = "active" /\ sessions'[s].status = "ended" /\ Known(s)
          /\ sessions[s] \in Session
      BY <2>3, StoredSession DEF HasStatus
    <3>2. ASSUME NEW t \in SessionIds, NEW user \in Users, NEW timeout \in Timeouts,
                 StartSession(t, user, timeout)
          PROVE  FALSE
      BY <3>1, <3>2 DEF StartSession, SessionsTypeOK
    <3>3. ASSUME NEW t \in SessionIds, NEW b \in ContractIds, AssociateContract(t, b)
          PROVE  FALSE
      BY <3>1, <3>3 DEF AssociateContract, SessionsTypeOK, Session
    <3>4. ASSUME NEW b \in ContractIds, DisassociateContract(b)
          PROVE  FALSE
      <4> DEFINE t == contractToSession[b]
      <4>1. t \in SessionIds
        BY <3>4 DEF DisassociateContract, SessionsTypeOK
      <4>2. sessions' = sessions
            \/ sessions' = [sessions EXCEPT ![t].contract_ids = @ \ {b}]
        BY <3>4 DEF DisassociateContract
      <4> QED BY <3>1, <4>1, <4>2 DEF SessionsTypeOK, Session
    <3>5. ~ExpireTimedOutSessions
      BY <3>1 DEF ExpireTimedOutSessions, Session
    <3>6. ASSUME NEW maxAge \in MaxAges, CleanupOldSessions(maxAge) PROVE FALSE
      BY <3>1, <2>3, <3>6 DEF CleanupOldSessions, HasStatus, Known
    <3>7. ~UNCHANGED sessionVars
      BY <3>1 DEF sessionVars
    <3>8. PICK S \in SUBSET SessionIds : EndActive(S)
      BY <3>2, <3>3, <3>4, <3>5, <3>6, <3>7, SessionSteps DEF SessionStep
    <3>9. s \in S
      BY <3>1, <3>8 DEF EndActive, EndEach
    <3> QED BY <3>8, <3>9
  <2>4. ASSUME NEW s \in SessionIds, HasStatus(s, "active"), HasStatus(s, "ended")',
               NEW c \in sessions[s].contract_ids
        PROVE  ~InState(c, "active")'
    <3>1. PICK S \in SUBSET SessionIds : EndActive(S) /\ s \in S
      BY <2>3, <2>4
    <3>2. c \in ContractIds
      BY <2>1, <2>4, <3>1
    <3>3. CASE c \in Cleaned(S)
      BY <2>2, <3>1, <3>2, <3>3 DEF InState
    <3>4. CASE c \notin Cleaned(S)
      <4>1. ~InState(c, "active")
        BY <2>4, <3>1, <3>4 DEF Cleaned
      <4>2. contracts'[c] = contracts[c]
        BY <2>2, <3>1, <3>2, <3>4
      <4> QED BY <4>1, <4>2 DEF InState, Exists
    <3> QED BY <3>3, <3>4
  <2>5. ASSUME NEW c \in ContractIds, InState(c, "active"), InState(c, "expired")',
               c \notin ExpiredContracts
        PROVE  /\ contracts[c].memory_permissions.retention = "session"
               /\ \E s \in SessionIds : Lists(s, c) /\ HasStatus(s, "ended")'
    <3>1. contracts'[c] # contracts[c]
      BY <2>5 DEF InState
    <3>2. ~[Next]_lifecycleVars
      BY <2>5, OnlyDatesExpire DEF SessionsTypeOK
    <3>3. PICK S \in SUBSET SessionIds : EndActive(S)
      <4>1. \/ \E s \in SessionIds, user \in Users, timeout \in Timeouts :
                  StartSession(s, user, timeout)
            \/ \E s \in SessionIds, b \in ContractIds : AssociateContract(s, b)
            \/ \E b \in ContractIds : DisassociateContract(b)
            \/ ExpireTimedOutSessions
            \/ \E maxAge \in MaxAges : CleanupOldSessions(maxAge)
            => UNCHANGED contracts
        BY DEF StartSession, AssociateContract, DisassociateContract, ExpireTimedOutSessions,
               CleanupOldSessions, lifecycleVars
      <4> QED BY <3>1, <3>2, <4>1, SessionSteps DEF SessionStep
    <3>4. c \in Cleaned(S)
      BY <2>2, <3>1, <3>3
    <3>5. PICK s \in S : c \in sessions[s].contract_ids
      BY <3>4 DEF Cleaned
    <3>6. Lists(s, c) /\ HasStatus(s, "ended")'
      BY <2>1, <3>3, <3>5 DEF Lists
    <3>7. contracts[c].memory_permissions.retention = "session"
      BY <3>5, <3>6 DEF ListedInv
    <3> QED BY <3>6, <3>7
  <2> QED BY <2>4, <2>5
<1>2. SessionsInv /\ [SessionsNext]_vars => [A]_vars
  BY <1>1
<1> QED BY <1>2, SessionsInvariant, PTL DEF SessionsSpec, EndingExpiresItsOwn

\* No operation reopens a session that ended or timed out, adds to it or moves its end.
THEOREM ClosedStayClosed == SessionsSpec => ClosedSessionsStayClosed
<1> DEFINE A == \A s \in SessionIds :
          Known(s) /\ ~HasStatus(s, "active") /\ Known(s)' =>
             /\ sessions'[s].status = sessions[s].status
             /\ sessions'[s].ended_at = sessions[s].ended_at
             /\ sessions'[s].contract_ids \subseteq sessions[s].contract_ids
<1>1. ASSUME SessionsInv, [SessionsNext]_vars PROVE A
  <2> TAKE s \in SessionIds
  <2>1. SessionPoint(s)
    BY <1>1, SessionPoints DEF SessionsInv
  <2> QED BY <2>1 DEF SessionPoint, HasStatus, Known
<1>2. SessionsInv /\ [SessionsNext]_vars => [A]_vars
  BY <1>1
<1> QED BY <1>2, SessionsInvariant, PTL DEF SessionsSpec, ClosedSessionsStayClosed

\* With sessions that expire contracts, the system still implements the lifecycle diagram.
THEOREM SessionsImplementDiagram == SessionsSpec => DiagramSpec
<1>1. SessionsInit => Diagram!Init
  BY DEF SessionsInit, Init, Diagram!Init, StateOf, Exists
<1>2. SessionsInv /\ [SessionsNext]_vars
      => [Diagram!Next]_([c \in ContractIds |-> StateOf(c)])
  BY SessionsLifecycleStep DEF SessionsInv, DiagramStep
<1> QED BY <1>1, <1>2, SessionsInvariant, PTL DEF SessionsSpec, DiagramSpec, Diagram!Spec

\* The audit trail stays right when sessions expire contracts: it tracks the store, and
\* nothing follows the end of a contract, even if two sessions that list it end.
THEOREM SessionsKeepTrail == SessionsSpec => [](TrailTracksStore /\ NothingAfterTheEnd)
<1>1. SessionsInit => TrailInv
  BY TrailInit DEF SessionsInit
<1>2. SessionsInv /\ TrailInv /\ [SessionsNext]_vars => TrailInv'
  BY SessionsLifecycleStep, TrailStep DEF SessionsInv, SessionsTypeOK
<1>3. SessionsInv /\ TrailInv => TrailTracksStore /\ NothingAfterTheEnd
  BY TrailSuffices DEF SessionsInv, SessionsTypeOK
<1> QED BY <1>1, <1>2, <1>3, SessionsInvariant, PTL DEF SessionsSpec
-----------------------------------------------------------------------------
(***************************************************************************)
(* The expiry manager: the lifecycle under it.                             *)
(***************************************************************************)

\* What a step of the manager, of a listener or of the clock does to the lifecycle.
LEMMA ExpirySteps ==
    ASSUME [ExpiryNext]_expiryVars
    PROVE  \/ [Next]_lifecycleVars /\ (frames' = frames \/ (MayCall /\ frames' = CallerResumes))
           \/ UNCHANGED lifecycleVars
           \/ \E c \in ContractIds : ExpireContract(c) /\ StillActive(c)
<1>1. ASSUME NEW c \in ContractIds, ExpireContract(c), ~StillActive(c)
      PROVE  UNCHANGED lifecycleVars
  BY <1>1 DEF ExpireContract, lifecycleVars
<1>2. ASSUME OtherOperation PROVE [Next]_lifecycleVars /\ MayCall /\ frames' = CallerResumes
  BY <1>2 DEF OtherOperation, Next
<1>3. ASSUME ExpiryTick PROVE [Next]_lifecycleVars /\ frames' = frames
  BY <1>3 DEF ExpiryTick, managerVars, Next
<1>4. CASE UNCHANGED expiryVars
  BY <1>4 DEF expiryVars, lifecycleVars
<1> QED BY <1>1, <1>2, <1>3, <1>4
        DEF ExpiryNext, Start, Stop, RunExpiryCycle, IntervalFires, SetCheckInterval, ForceExpire,
            ResetStats, ListenerReturns, Running, CompleteCycle, Return

LEMMA ExpiryLifecycleStep ==
    ASSUME TypeOK, [ExpiryNext]_expiryVars
    PROVE  /\ TypeOK'
           /\ \A x \in ContractIds : PointStep(x) /\ StoreStep(x)
           /\ DiagramStep
           /\ now' >= now
<1>1. ASSUME [Next]_lifecycleVars
      PROVE  /\ TypeOK'
             /\ \A x \in ContractIds : PointStep(x) /\ StoreStep(x)
             /\ DiagramStep
             /\ now' >= now
  BY <1>1, StepLemma, StoreLemma, ClockMoves
<1>2. ASSUME NEW c \in ContractIds, ExpireContract(c), StillActive(c)
      PROVE  /\ TypeOK'
             /\ \A x \in ContractIds : PointStep(x) /\ StoreStep(x)
             /\ DiagramStep
             /\ now' >= now
  <2>1. ExpireEach({c}) /\ now' = now /\ now \in Nat
    BY <1>2 DEF ExpireContract, TypeOK
  <2>2. \A x \in {c} : InState(x, "active") /\ Exists(x)
    BY <1>2 DEF StillActive, InState
  <2>3. {c} \in SUBSET ContractIds
    OBVIOUS
  <2>4. /\ TypeOK'
        /\ \A x \in ContractIds : PointStep(x)
        /\ Diagram!Expire({c})
    BY <2>1, <2>2, <2>3, ExpireStep
  <2>5. \A x \in ContractIds : StoreStep(x)
    BY <2>1, <2>2, <2>3, ExpireStore
  <2> QED BY <2>1, <2>3, <2>4, <2>5 DEF DiagramStep, Diagram!Next
<1> QED BY <1>1, <1>2, ExpirySteps

\* Of the operations on contracts only expireOldContracts expires one, and it asks the date.
LEMMA OnlyDueExpire ==
    ASSUME TypeOK, [Next]_lifecycleVars, NEW c \in ContractIds,
           StateOf(c) = "active", StateOf(c)' = "expired"
    PROVE  c \in ExpiredContracts
<1>0. Exists(c) /\ contracts'[c] # contracts[c] /\ contracts'[c].state = "expired"
  BY DEF StateOf, Exists
<1>1. ASSUME NEW x \in ContractIds, NEW s \in {"review", "active", "revoked"}, SaveState(x, s)
      PROVE  FALSE
  BY <1>0, <1>1, StoredType DEF SaveState, TypeOK, LearningContract
<1>2. ASSUME NEW x \in ContractIds, NEW user \in Users, NEW d \in Drafts, CreateContract(x, user, d)
      PROVE  FALSE
  BY <1>0, <1>2 DEF CreateContract, TypeOK
<1>3. ASSUME NEW x \in ContractIds, NEW new \in ContractIds, NEW user \in Users, NEW d \in Drafts,
             NEW fields \in ChangeSets, AmendContract(x, new, user, d, fields)
      PROVE  FALSE
  <2>1. Exists(x) /\ ~Exists(new)
    BY <1>3 DEF AmendContract
  <2>2. contracts'[c] \in {contracts[c], [contracts[c] EXCEPT !.state = "amended"]}
    BY <1>0, <1>3, <2>1 DEF AmendContract, TypeOK
  <2> QED BY <1>0, <2>2, StoredType DEF LearningContract
<1>4. CASE ExpireOldContracts
  BY <1>0, <1>4 DEF ExpireOldContracts, ExpireEach
<1> QED BY <1>0, <1>1, <1>2, <1>3, <1>4
        DEF Next, LifecycleStep, ContractStep, SubmitForReview, ActivateContract, RevokeContract,
            AmendContractThrows, Tick, lifecycleVars
-----------------------------------------------------------------------------
(***************************************************************************)
(* The calls under way.                                                    *)
(***************************************************************************)

\* What a cycle still has in its queue is stored and due, whenever it gets to it.
QueueDue(frame) ==
    frame.call # "force" => \A c \in frame.queue : Exists(c) /\ RetentionPassed(c)

QueuesDue == \A i \in DOMAIN frames : QueueDue(frames[i])

\* What a step may do to the calls: keep one, its queue at most shorter; or add one, for a
\* forced contract or for what is due now.
Carried(i) ==
    i \in DOMAIN frames /\ frames'[i].call = frames[i].call /\ frames'[i].queue \subseteq frames[i].queue

Called(i) == frames'[i].call = "force" \/ frames'[i].queue \subseteq TimeboundExpired

LEMMA Resumed ==
    ASSUME frames \in Seq(Frame)
    PROVE  /\ CallerResumes \in Seq(Frame) /\ Len(CallerResumes) = Len(frames)
           /\ \A i \in DOMAIN frames :
                 CallerResumes[i].call = frames[i].call /\ CallerResumes[i].queue = frames[i].queue
<1>1. CASE Idle
  BY <1>1 DEF CallerResumes, Idle
<1>2. CASE ~Idle
  <2> DEFINE n == Len(frames)
             resumed == AfterListener(frames[n])
  <2>1. n \in Nat /\ n > 0 /\ frames[n] \in Frame
    BY <1>2 DEF Idle
  <2>2. resumed \in Frame /\ resumed.call = frames[n].call /\ resumed.queue = frames[n].queue
    BY <2>1 DEF AfterListener, Frame
  <2>3. CallerResumes = [frames EXCEPT ![n] = resumed]
    BY <1>2 DEF CallerResumes
  <2> HIDE DEF resumed
  <2> QED BY <2>1, <2>2, <2>3
<1> QED BY <1>1, <1>2

LEMMA ExpiringFrame ==
    ASSUME NEW frame \in Frame, NEW c
    PROVE  /\ Expiring(frame, c) \in Frame /\ Expiring(frame, c).call = frame.call
           /\ Expiring(frame, c).queue \subseteq frame.queue
<1> DEFINE queue == frame.queue \ {c}
           count == frame.count + 1
<1>1. /\ queue \in SUBSET ContractIds /\ queue \subseteq frame.queue /\ count \in Nat
      /\ frame.call \in {"start", "cycle", "force"}
  BY DEF Frame
<1>2. Expiring(frame, c) =
         [[[frame EXCEPT !.queue = queue] EXCEPT !.count = count] EXCEPT !.at = "expiryListener"]
  BY DEF Expiring, Frame
<1> HIDE DEF queue, count
<1>3. [frame EXCEPT !.queue = queue] \in Frame
  BY <1>1 DEF Frame
<1> QED BY <1>1, <1>2 DEF Frame

LEMMA FramesStep ==
    ASSUME ExpiryTypeOK, [ExpiryNext]_expiryVars
    PROVE  /\ frames' \in Seq(Frame) /\ Len(frames') <= MaxDepth
           /\ \A i \in DOMAIN frames' : Carried(i) \/ Called(i)
<1> DEFINE Good == /\ frames' \in Seq(Frame) /\ Len(frames') <= MaxDepth
                   /\ \A i \in DOMAIN frames' : Carried(i) \/ Called(i)
<1>0. frames \in Seq(Frame) /\ Len(frames) <= MaxDepth /\ Len(frames) \in Nat /\ MaxDepth \in Nat
  BY IntervalAssumption DEF ExpiryTypeOK
<1>1. ASSUME frames' = frames PROVE Good
  BY <1>0, <1>1 DEF Carried
<1>2. ASSUME frames' = CallerResumes PROVE Good
  BY <1>0, <1>2, Resumed DEF Carried
<1>3. ASSUME NEW call \in {"start", "cycle", "force"}, NEW queue \in SUBSET ContractIds,
             call = "force" \/ queue = TimeboundExpired, Push(call, queue)
      PROVE  Good
  <2> DEFINE new == [call |-> call, queue |-> queue, count |-> 0, at |-> "work"]
             below == CallerResumes
  <2>1. new \in Frame /\ new.call = call /\ new.queue = queue
    BY DEF Frame
  <2>2. frames' = Append(below, new) /\ Len(frames) < MaxDepth
    BY <1>3 DEF Push
  <2>3. /\ below \in Seq(Frame) /\ Len(below) = Len(frames)
        /\ \A i \in DOMAIN frames : below[i].call = frames[i].call /\ below[i].queue = frames[i].queue
    BY <1>0, Resumed
  <2> HIDE DEF new, below
  <2>4. frames' \in Seq(Frame) /\ Len(frames') = Len(frames) + 1
    BY <1>0, <2>1, <2>2, <2>3
  <2>5. ASSUME NEW i \in DOMAIN frames' PROVE Carried(i) \/ Called(i)
    <3>1. CASE i \in DOMAIN frames
      <4>1. frames'[i] = below[i]
        BY <1>0, <2>1, <2>2, <2>3, <2>4, <3>1
      <4> QED BY <2>3, <3>1, <4>1 DEF Carried
    <3>2. CASE i \notin DOMAIN frames
      <4>1. frames'[i] = new
        BY <1>0, <2>1, <2>2, <2>3, <2>4, <2>5, <3>2
      <4> QED BY <1>3, <2>1, <4>1 DEF Called
    <3> QED BY <3>1, <3>2
  <2> QED BY <1>0, <2>2, <2>4, <2>5
<1>4. ASSUME frames # <<>>, NEW top \in Frame, frames' = [frames EXCEPT ![Len(frames)] = top],
             top.call = Top.call, top.queue \subseteq Top.queue
      PROVE  Good
  BY <1>0, <1>4 DEF Top, Carried
<1>5. ASSUME frames # <<>>, frames' = SubSeq(frames, 1, Len(frames) - 1) PROVE Good
  BY <1>0, <1>5 DEF Carried
<1>6. frames # <<>> => Top \in Frame
  BY <1>0 DEF Top
<1> HIDE DEF Good
<1>7. TimeboundExpired \in SUBSET ContractIds
  BY DEF TimeboundExpired
<1>8. ASSUME Start \/ RunExpiryCycle \/ IntervalFires \/ SetCheckInterval
      PROVE  Good
  BY <1>3, <1>7, <1>8 DEF Start, RunExpiryCycle, IntervalFires, SetCheckInterval
<1>9. ASSUME NEW c \in ContractIds, ForceExpire(c) PROVE Good
  BY <1>3, <1>9 DEF ForceExpire
<1>10. ASSUME NEW c \in ContractIds, ExpireContract(c) PROVE Good
  <2>1. frames # <<>> /\ Top \in Frame
    BY <1>6, <1>10 DEF ExpireContract, TopAt
  <2>2. CASE StillActive(c)
    <3> DEFINE top == Expiring(Top, c)
    <3>1. top \in Frame /\ top.call = Top.call /\ top.queue \subseteq Top.queue
      BY <2>1, ExpiringFrame
    <3>2. frames' = [frames EXCEPT ![Len(frames)] = top]
      BY <1>10, <2>2 DEF ExpireContract, Top
    <3> HIDE DEF top
    <3> QED BY <1>4, <2>1, <3>1, <3>2
  <2>3. CASE ~StillActive(c)
    <3> DEFINE top == [Top EXCEPT !.queue = Top.queue \ {c}]
    <3>1. top \in Frame /\ top.call = Top.call /\ top.queue \subseteq Top.queue
      BY <2>1 DEF Frame
    <3>2. frames' = [frames EXCEPT ![Len(frames)] = top]
      BY <1>10, <2>3 DEF ExpireContract, Top
    <3> HIDE DEF top
    <3> QED BY <1>4, <2>1, <3>1, <3>2
  <2> QED BY <2>2, <2>3
<1>11. ASSUME CompleteCycle PROVE Good
  <2>1. frames # <<>> /\ Top \in Frame
    BY <1>6, <1>11 DEF CompleteCycle, TopAt
  <2>2. PICK at \in {"return", "cycleListener"} : frames' = [frames EXCEPT ![Len(frames)].at = at]
    BY <1>11 DEF CompleteCycle
  <2> DEFINE top == [Top EXCEPT !.at = at]
  <2>3. top \in Frame /\ top.call = Top.call /\ top.queue \subseteq Top.queue
    BY <2>1 DEF Frame
  <2>4. frames' = [frames EXCEPT ![Len(frames)] = top]
    BY <2>2 DEF Top
  <2> HIDE DEF top
  <2> QED BY <1>4, <2>1, <2>3, <2>4
<1>12. ASSUME Return PROVE Good
  BY <1>5, <1>12 DEF Return, TopAt
<1>13. Good
  BY <1>1, <1>2, <1>8, <1>9, <1>10, <1>11, <1>12
     DEF ExpiryNext, Stop, ResetStats, OtherOperation, ListenerReturns, Running, ExpiryTick,
         managerVars, expiryVars
<1> QED BY <1>13 DEF Good

LEMMA ExpiryTypesStep ==
    ASSUME ExpiryTypeOK, [ExpiryNext]_expiryVars
    PROVE  ExpiryTypeOK'
<1>1. TypeOK'
  BY ExpiryLifecycleStep DEF ExpiryTypeOK
<1>2. frames' \in Seq(Frame) /\ Len(frames') <= MaxDepth
  BY FramesStep
<1>3. live' \subseteq Intervals /\ intervalId' \in live' \cup {NoInterval}
  BY DEF ExpiryTypeOK, ExpiryNext, Start, Stop, RunExpiryCycle, IntervalFires, SetCheckInterval,
         ForceExpire, ResetStats, OtherOperation, ListenerReturns, Running, ExpireContract,
         CompleteCycle, Return, ExpiryTick, managerVars, expiryVars
<1>4. totalContractsExpired' \in Nat
  <2>1. CASE CompleteCycle
    <3>1. Top \in Frame
      BY <2>1 DEF CompleteCycle, TopAt, Top, ExpiryTypeOK
    <3>2. Top.count \in Nat /\ totalContractsExpired \in Nat
      BY <3>1 DEF Frame, ExpiryTypeOK
    <3> QED BY <2>1, <3>2 DEF CompleteCycle
  <2>2. CASE ~CompleteCycle
    <3>1. totalContractsExpired' \in {totalContractsExpired, 0}
      BY <2>2
         DEF ExpiryNext, Start, Stop, RunExpiryCycle, IntervalFires, SetCheckInterval,
             ForceExpire, ResetStats, OtherOperation, ListenerReturns, Running, ExpireContract,
             Return, ExpiryTick, managerVars, expiryVars
    <3> QED BY <3>1 DEF ExpiryTypeOK
  <2> QED BY <2>1, <2>2
<1> QED BY <1>1, <1>2, <1>3, <1>4 DEF ExpiryTypeOK

\* The manager's state is of its type: the handle it holds is a live interval, however its
\* listeners start, stop and restart it.
THEOREM ExpiryTypeCorrect == ExpirySpec => []ExpiryTypeOK
<1>1. ExpiryInit => ExpiryTypeOK
  BY IntervalAssumption DEF ExpiryInit, Init, TypeOK, ExpiryTypeOK
<1>2. ExpiryTypeOK /\ [ExpiryNext]_expiryVars => ExpiryTypeOK'
  BY ExpiryTypesStep
<1> QED BY <1>1, <1>2, PTL DEF ExpirySpec

\* What was stored and due stays so: the terms do not change, the clock does not go back.
LEMMA DueStays ==
    ASSUME TypeOK, [ExpiryNext]_expiryVars, NEW c \in ContractIds, Exists(c), RetentionPassed(c)
    PROVE  Exists(c)' /\ RetentionPassed(c)'
<1>1. /\ Exists(c)' /\ contracts'[c].memory_permissions = contracts[c].memory_permissions
      /\ now' >= now /\ now \in Nat /\ now' \in Nat
  BY ExpiryLifecycleStep, TermsStay DEF TypeOK
<1>2. contracts[c].memory_permissions.retention_until \in Nat
  BY StoredType DEF RetentionPassed, LearningContract, MemoryPermissions, Time
<1> QED BY <1>1, <1>2 DEF RetentionPassed

LEMMA QueuesStep ==
    ASSUME ExpiryTypeOK, QueuesDue, [ExpiryNext]_expiryVars
    PROVE  QueuesDue'
<1> SUFFICES ASSUME NEW i \in DOMAIN frames', frames'[i].call # "force", NEW c \in frames'[i].queue
             PROVE  Exists(c)' /\ RetentionPassed(c)'
  BY DEF QueuesDue, QueueDue
<1>1. CASE Carried(i)
  <2>1. frames[i] \in Frame /\ c \in frames[i].queue /\ frames[i].call # "force"
    BY <1>1 DEF Carried, ExpiryTypeOK
  <2>2. c \in ContractIds
    BY <2>1 DEF Frame
  <2>3. Exists(c) /\ RetentionPassed(c)
    BY <1>1, <2>1 DEF Carried, QueuesDue, QueueDue
  <2> QED BY <2>2, <2>3, DueStays DEF ExpiryTypeOK
<1>2. CASE Called(i)
  <2>1. c \in ContractIds /\ Exists(c) /\ RetentionPassed(c)
    BY <1>2 DEF Called, TimeboundExpired, InState
  <2> QED BY <2>1, DueStays DEF ExpiryTypeOK
<1> QED BY <1>1, <1>2, FramesStep

LEMMA QueuesInvariant == ExpirySpec => []QueuesDue
<1>1. ExpiryInit => QueuesDue
  BY DEF ExpiryInit, QueuesDue
<1>2. ExpiryTypeOK /\ QueuesDue /\ [ExpiryNext]_expiryVars => QueuesDue'
  BY QueuesStep
<1> QED BY <1>1, <1>2, ExpiryTypeCorrect, PTL DEF ExpirySpec

\* runExpiryCycle queries what is due and expires it contract by contract, with listeners
\* in between that may amend, revoke, expire or run a cycle of their own: still a contract
\* expires only once its retention or its expiration has passed, or by force.
THEOREM OnlyDueExpired == ExpirySpec => ExpiredWhenDue
<1> DEFINE A == \A c \in ContractIds :
          StateOf(c) = "active" /\ StateOf(c)' = "expired" =>
             \/ RetentionPassed(c)
             \/ c \in ExpiredContracts
             \/ ~Idle /\ Top.call = "force"
<1>1. ASSUME ExpiryTypeOK, QueuesDue, [ExpiryNext]_expiryVars PROVE A
  <2> SUFFICES ASSUME NEW c \in ContractIds, StateOf(c) = "active", StateOf(c)' = "expired"
               PROVE  \/ RetentionPassed(c)
                      \/ c \in ExpiredContracts
                      \/ ~Idle /\ Top.call = "force"
    OBVIOUS
  <2>1. CASE [Next]_lifecycleVars
    BY <1>1, <2>1, OnlyDueExpire DEF ExpiryTypeOK
  <2>2. ASSUME NEW x \in ContractIds, ExpireContract(x), StillActive(x)
        PROVE  RetentionPassed(c) \/ (~Idle /\ Top.call = "force")
    <3>1. x = c
      <4>1. ExpireEach({x})
        BY <2>2 DEF ExpireContract
      <4> QED BY <4>1 DEF ExpireEach, StateOf, Exists
    <3>2. ~Idle /\ c \in Top.queue
      BY <2>2, <3>1 DEF ExpireContract, TopAt, Idle
    <3>3. Len(frames) \in DOMAIN frames
      BY <1>1, <3>2 DEF ExpiryTypeOK, Idle
    <3> QED BY <1>1, <3>2, <3>3 DEF QueuesDue, QueueDue, Top
  <2> QED BY <1>1, <2>1, <2>2, ExpirySteps
<1>2. ExpiryTypeOK /\ QueuesDue /\ [ExpiryNext]_expiryVars => [A]_expiryVars
  BY <1>1
<1> QED BY <1>2, ExpiryTypeCorrect, QueuesInvariant, PTL DEF ExpirySpec, ExpiredWhenDue

\* With the expiry manager and its listeners, the system still implements the diagram.
THEOREM ExpiryImplementsDiagram == ExpirySpec => DiagramSpec
<1>1. ExpiryInit => Diagram!Init
  BY DEF ExpiryInit, Init, Diagram!Init, StateOf, Exists
<1>2. ExpiryTypeOK /\ [ExpiryNext]_expiryVars
      => [Diagram!Next]_([c \in ContractIds |-> StateOf(c)])
  BY ExpiryLifecycleStep DEF ExpiryTypeOK, DiagramStep
<1> QED BY <1>1, <1>2, ExpiryTypeCorrect, PTL DEF ExpirySpec, DiagramSpec, Diagram!Spec

\* The audit trail stays right under the manager: two nested cycles that both queued a
\* contract log its expiry once.
THEOREM ExpiryKeepsTrail == ExpirySpec => [](TrailTracksStore /\ NothingAfterTheEnd)
<1>1. ExpiryInit => TrailInv
  BY TrailInit DEF ExpiryInit
<1>2. ExpiryTypeOK /\ TrailInv /\ [ExpiryNext]_expiryVars => TrailInv'
  BY ExpiryLifecycleStep, TrailStep DEF ExpiryTypeOK
<1>3. ExpiryTypeOK /\ TrailInv => TrailTracksStore /\ NothingAfterTheEnd
  BY TrailSuffices DEF ExpiryTypeOK
<1> QED BY <1>1, <1>2, <1>3, ExpiryTypeCorrect, PTL DEF ExpirySpec
-----------------------------------------------------------------------------
(***************************************************************************)
(* The counts.                                                             *)
(***************************************************************************)
\* The cycles of a stack of calls whose count is not in the totals yet.
CountingIn(s) ==
    {i \in DOMAIN s : s[i].call # "force" /\ s[i].at \in {"work", "expiryListener"}}

\* What the sharing by gives to i, of the expired contracts E.
Share(by, E, i) == {c \in E : by[c] = i}

Shares(by, E, s, total) ==
    /\ by \in [E -> {-1, 0} \cup CountingIn(s)]
    /\ IsFiniteSet(Share(by, E, 0)) /\ total = Cardinality(Share(by, E, 0))
    /\ \A i \in CountingIn(s) :
          IsFiniteSet(Share(by, E, i)) /\ s[i].count = Cardinality(Share(by, E, i))

CountInv == \E by : Shares(by, Expired, frames, totalContractsExpired)

\* The same cycles with the same counts, and new ones that have counted nothing.
SameCounts(t, s) ==
    /\ t \in Seq(Frame) /\ CountingIn(s) \subseteq CountingIn(t)
    /\ \A i \in CountingIn(t) : t[i].count = IF i \in CountingIn(s) THEN s[i].count ELSE 0

LEMMA CountingIndices ==
    ASSUME NEW s \in Seq(Frame)
    PROVE  /\ CountingIn(s) \subseteq Nat \ {0} /\ -1 \notin CountingIn(s) /\ 0 \notin CountingIn(s)
           /\ \A i \in CountingIn(s) : s[i] \in Frame /\ s[i].count \in Nat
<1>1. DOMAIN s = 1..Len(s) /\ Len(s) \in Nat /\ \A i \in DOMAIN s : s[i] \in Frame
  OBVIOUS
<1> QED BY <1>1 DEF CountingIn, Frame

\* Contracts that expire without a cycle are nobody's.
LEMMA SharesGrow ==
    ASSUME NEW by, NEW E, NEW F, NEW s \in Seq(Frame), NEW t, NEW total,
           Shares(by, E, s, total), E \subseteq F, SameCounts(t, s)
    PROVE  \E b : Shares(b, F, t, total)
<1> DEFINE b == [c \in F |-> IF c \in E THEN by[c] ELSE -1]
<1>1. /\ -1 \notin CountingIn(t) /\ 0 \notin CountingIn(t) /\ CountingIn(s) \subseteq CountingIn(t)
      /\ CountingIn(t) \subseteq Nat
  BY CountingIndices DEF SameCounts
<1>2. \A c \in E : by[c] \in {-1, 0} \cup CountingIn(s)
  BY DEF Shares
<1>3. \A i \in CountingIn(s) \cup {0} : Share(b, F, i) = Share(by, E, i)
  BY <1>1 DEF Share
<1>4. \A i \in CountingIn(t) \ CountingIn(s) : Share(b, F, i) = {}
  BY <1>1, <1>2 DEF Share
<1>5. b \in [F -> {-1, 0} \cup CountingIn(t)]
  BY <1>1, <1>2
<1> HIDE DEF b
<1>6. ASSUME NEW i \in CountingIn(t)
      PROVE  IsFiniteSet(Share(b, F, i)) /\ t[i].count = Cardinality(Share(b, F, i))
  <2>1. CASE i \in CountingIn(s)
    BY <1>3, <2>1 DEF Shares, SameCounts
  <2>2. CASE i \notin CountingIn(s)
    BY <1>4, <2>2, FS_EmptySet DEF SameCounts
  <2> QED BY <2>1, <2>2
<1>7. Shares(b, F, t, total)
  BY <1>3, <1>5, <1>6 DEF Shares
<1> QED BY <1>7

\* A contract that a cycle expires is that cycle's.
LEMMA SharesCount ==
    ASSUME NEW by, NEW E, NEW c, c \notin E, NEW s \in Seq(Frame), NEW t, NEW total,
           Shares(by, E, s, total), NEW n \in CountingIn(s),
           CountingIn(t) = CountingIn(s), t[n].count = s[n].count + 1,
           \A i \in CountingIn(s) \ {n} : t[i].count = s[i].count
    PROVE  \E b : Shares(b, E \cup {c}, t, total)
<1> DEFINE F == E \cup {c}
           b == [x \in F |-> IF x = c THEN n ELSE by[x]]
<1>1. /\ -1 \notin CountingIn(s) /\ 0 \notin CountingIn(s) /\ s[n].count \in Nat
  BY CountingIndices
<1>2. \A x \in E : by[x] \in {-1, 0} \cup CountingIn(s)
  BY DEF Shares
<1>3. \A i \in (CountingIn(s) \ {n}) \cup {0} : Share(b, F, i) = Share(by, E, i)
  BY <1>1 DEF Share
<1>4. Share(b, F, n) = Share(by, E, n) \cup {c} /\ c \notin Share(by, E, n)
  BY DEF Share
<1>5. b \in [F -> {-1, 0} \cup CountingIn(t)]
  BY <1>2
<1> HIDE DEF b, F
<1>6. IsFiniteSet(Share(b, F, n)) /\ t[n].count = Cardinality(Share(b, F, n))
  <2>1. IsFiniteSet(Share(by, E, n)) /\ s[n].count = Cardinality(Share(by, E, n))
    BY DEF Shares
  <2> QED BY <1>4, <2>1, FS_AddElement
<1>7. Shares(b, F, t, total)
  BY <1>1, <1>3, <1>5, <1>6 DEF Shares
<1> QED BY <1>7 DEF F

\* A cycle's share goes to the totals when it is over.
LEMMA SharesTotal ==
    ASSUME NEW by, NEW E, NEW s \in Seq(Frame), NEW t, NEW total \in Nat,
           Shares(by, E, s, total), NEW n \in CountingIn(s),
           CountingIn(t) = CountingIn(s) \ {n},
           \A i \in CountingIn(t) : t[i].count = s[i].count
    PROVE  \E b : Shares(b, E, t, total + s[n].count)
<1> DEFINE b == [x \in E |-> IF by[x] = n THEN 0 ELSE by[x]]
<1>1. /\ 0 \notin CountingIn(s) /\ s[n].count \in Nat
  BY CountingIndices
<1>2. \A x \in E : by[x] \in {-1, 0} \cup CountingIn(s)
  BY DEF Shares
<1>3. \A i \in CountingIn(t) : Share(b, E, i) = Share(by, E, i)
  BY <1>1 DEF Share
<1>4. Share(b, E, 0) = Share(by, E, 0) \cup Share(by, E, n)
  BY DEF Share
<1>5. Share(by, E, 0) \cap Share(by, E, n) = {}
  BY <1>1 DEF Share
<1>6. b \in [E -> {-1, 0} \cup CountingIn(t)]
  BY <1>2
<1> HIDE DEF b
<1>7. IsFiniteSet(Share(b, E, 0)) /\ total + s[n].count = Cardinality(Share(b, E, 0))
  <2>1. /\ IsFiniteSet(Share(by, E, n)) /\ s[n].count = Cardinality(Share(by, E, n))
        /\ IsFiniteSet(Share(by, E, 0)) /\ total = Cardinality(Share(by, E, 0))
    BY DEF Shares
  <2>2. Cardinality(Share(by, E, 0) \cap Share(by, E, n)) = 0
    BY <1>5, FS_EmptySet
  <2>3. /\ IsFiniteSet(Share(by, E, 0) \cup Share(by, E, n))
        /\ Cardinality(Share(by, E, 0) \cup Share(by, E, n)) =
              Cardinality(Share(by, E, 0)) + Cardinality(Share(by, E, n))
                 - Cardinality(Share(by, E, 0) \cap Share(by, E, n))
    BY <2>1, FS_Union, Zenon
  <2>4. Cardinality(Share(b, E, 0)) = total + s[n].count - 0
    BY <1>4, <2>1, <2>2, <2>3, Zenon
  <2>5. total + s[n].count - 0 = total + s[n].count
    BY <1>1
  <2> QED BY <1>4, <2>3, <2>4, <2>5, Zenon
<1>8. Shares(b, E, t, total + s[n].count)
  BY <1>3, <1>6, <1>7 DEF Shares
<1> QED BY <1>8

\* Once the totals are reset, theirs are nobody's.
LEMMA SharesReset ==
    ASSUME NEW by, NEW E, NEW s \in Seq(Frame), NEW total, Shares(by, E, s, total)
    PROVE  \E b : Shares(b, E, s, 0)
<1> DEFINE b == [x \in E |-> IF by[x] = 0 THEN -1 ELSE by[x]]
<1>1. -1 \notin CountingIn(s) /\ 0 \notin CountingIn(s)
  BY CountingIndices
<1>2. \A x \in E : by[x] \in {-1, 0} \cup CountingIn(s)
  BY DEF Shares
<1>3. \A i \in CountingIn(s) : Share(b, E, i) = Share(by, E, i)
  BY <1>1 DEF Share
<1>4. Share(b, E, 0) = {}
  BY DEF Share
<1>5. b \in [E -> {-1, 0} \cup CountingIn(s)]
  BY <1>2
<1> HIDE DEF b
<1>6. Shares(b, E, s, 0)
  BY <1>3, <1>4, <1>5, FS_EmptySet DEF Shares
<1> QED BY <1>6

\* What is expired stays expired.
LEMMA ExpiredGrow ==
    ASSUME TypeOK, [ExpiryNext]_expiryVars
    PROVE  Expired \subseteq Expired'
<1> SUFFICES ASSUME NEW c \in ContractIds, InState(c, "expired")
             PROVE  InState(c, "expired")'
  BY DEF Expired
<1>1. StateOf(c) = "expired"
  BY DEF InState, StateOf
<1>2. StateOf(c)' = "expired"
  BY <1>1, ExpiryLifecycleStep DEF PointStep, Moves, Stays
<1> QED BY <1>2 DEF StateOf, InState, Exists

\* The last frame is replaced by one with the same call and the same count.
LEMMA TopKeepsCount ==
    ASSUME NEW s \in Seq(Frame), s # <<>>, NEW top \in Frame, NEW t,
           t = [s EXCEPT ![Len(s)] = top],
           top.call = s[Len(s)].call, top.count = s[Len(s)].count,
           top.at \in {"work", "expiryListener"} <=> s[Len(s)].at \in {"work", "expiryListener"}
    PROVE  SameCounts(t, s) /\ CountingIn(t) = CountingIn(s)
<1>1. /\ Len(s) \in Nat /\ Len(s) > 0 /\ Len(s) \in DOMAIN s
      /\ t \in Seq(Frame) /\ DOMAIN t = DOMAIN s
      /\ \A i \in DOMAIN s : t[i] = IF i = Len(s) THEN top ELSE s[i]
  OBVIOUS
<1>2. CountingIn(t) = CountingIn(s)
  BY <1>1 DEF CountingIn
<1>3. \A i \in CountingIn(s) : t[i].count = s[i].count
  BY <1>1 DEF CountingIn
<1> QED BY <1>1, <1>2, <1>3 DEF SameCounts

LEMMA ResumedCounts ==
    ASSUME frames \in Seq(Frame), MayCall
    PROVE  SameCounts(CallerResumes, frames)
<1>1. CASE Idle
  BY <1>1 DEF CallerResumes, SameCounts
<1>2. CASE ~Idle
  <2> DEFINE top == frames[Len(frames)]
             resumed == AfterListener(top)
  <2>1. frames # <<>> /\ top \in Frame /\ top.at \in {"expiryListener", "cycleListener"}
    BY <1>2 DEF Idle, MayCall, TopAt, Top
  <2>2. /\ resumed \in Frame /\ resumed.call = top.call /\ resumed.count = top.count
        /\ resumed.at = IF top.at = "expiryListener" THEN "work" ELSE "return"
    BY <2>1 DEF AfterListener, Frame
  <2>3. CallerResumes = [frames EXCEPT ![Len(frames)] = resumed]
    BY <1>2 DEF CallerResumes
  <2> HIDE DEF resumed
  <2> QED BY <2>1, <2>2, <2>3, TopKeepsCount
<1> QED BY <1>1, <1>2

LEMMA PushCounts ==
    ASSUME frames \in Seq(Frame), NEW call \in {"start", "cycle", "force"},
           NEW queue \in SUBSET ContractIds, Push(call, queue)
    PROVE  SameCounts(frames', frames)
<1> DEFINE new == [call |-> call, queue |-> queue, count |-> 0, at |-> "work"]
           below == CallerResumes
<1>1. new \in Frame /\ new.count = 0
  BY DEF Frame
<1>2. frames' = Append(below, new)
  BY DEF Push
<1>3. SameCounts(below, frames)
  BY ResumedCounts DEF Push
<1> HIDE DEF new, below
<1>4. below \in Seq(Frame) /\ CountingIn(frames) \subseteq CountingIn(below)
  BY <1>3 DEF SameCounts
<1>5. /\ frames' \in Seq(Frame) /\ DOMAIN below \subseteq DOMAIN frames'
      /\ \A i \in DOMAIN frames' :
            IF i \in DOMAIN below THEN frames'[i] = below[i] ELSE frames'[i] = new
  BY <1>1, <1>2, <1>4
<1>6. CountingIn(frames) \subseteq CountingIn(frames')
  BY <1>4, <1>5 DEF CountingIn
<1>7. ASSUME NEW i \in CountingIn(frames')
      PROVE  frames'[i].count = IF i \in CountingIn(frames) THEN frames[i].count ELSE 0
  <2>1. i \in DOMAIN frames'
    BY <1>7 DEF CountingIn
  <2>2. CASE i \in DOMAIN below
    <3>1. frames'[i] = below[i] /\ i \in CountingIn(below)
      BY <1>5, <1>7, <2>1, <2>2 DEF CountingIn
    <3> QED BY <1>3, <3>1 DEF SameCounts
  <2>3. CASE i \notin DOMAIN below
    <3>1. frames'[i] = new /\ i \notin CountingIn(frames)
      BY <1>4, <1>5, <2>1, <2>3 DEF CountingIn
    <3> QED BY <1>1, <3>1
  <2> QED BY <2>2, <2>3
<1> QED BY <1>5, <1>6, <1>7 DEF SameCounts

\* A step that leaves the counts alone leaves the sharing.
LEMMA SharesStay ==
    ASSUME ExpiryTypeOK, CountInv, [ExpiryNext]_expiryVars, SameCounts(frames', frames),
           totalContractsExpired' = totalContractsExpired
    PROVE  CountInv'
<1>1. PICK by : Shares(by, Expired, frames, totalContractsExpired)
  BY DEF CountInv
<1>2. Expired \subseteq Expired' /\ frames \in Seq(Frame)
  BY ExpiredGrow DEF ExpiryTypeOK
<1>3. \E b : Shares(b, Expired', frames', totalContractsExpired)
  BY <1>1, <1>2, SharesGrow
<1> QED BY <1>3 DEF CountInv

LEMMA ExpireContractCounts ==
    ASSUME ExpiryTypeOK, CountInv, [ExpiryNext]_expiryVars,
           NEW c \in ContractIds, ExpireContract(c)
    PROVE  CountInv'
<1> DEFINE n == Len(frames)
<1>1. /\ frames \in Seq(Frame) /\ frames # <<>> /\ Top = frames[n] /\ Top \in Frame
      /\ n \in DOMAIN frames /\ Top.at = "work"
      /\ totalContractsExpired' = totalContractsExpired
  BY DEF ExpiryTypeOK, ExpireContract, TopAt, Top
<1>2. CASE ~StillActive(c)
  <2> DEFINE top == [Top EXCEPT !.queue = Top.queue \ {c}]
  <2>1. top \in Frame /\ top.call = Top.call /\ top.count = Top.count /\ top.at = Top.at
    BY <1>1 DEF Frame
  <2>2. frames' = [frames EXCEPT ![n] = top]
    BY <1>2 DEF ExpireContract, Top
  <2> HIDE DEF top
  <2>3. SameCounts(frames', frames)
    BY <1>1, <2>1, <2>2, TopKeepsCount
  <2> QED BY <1>1, <2>3, SharesStay
<1>3. CASE StillActive(c)
  <2> DEFINE top == Expiring(Top, c)
  <2>1. /\ top \in Frame /\ top.call = Top.call /\ top.at = "expiryListener"
        /\ top.count = Top.count + 1
    BY <1>1, ExpiringFrame DEF Expiring, Frame
  <2>2. frames' = [frames EXCEPT ![n] = top]
    BY <1>3 DEF ExpireContract, Top
  <2>3. Expired' = Expired \cup {c} /\ c \notin Expired
    <3>1. ExpireEach({c}) /\ now' = now /\ now \in Nat
      BY <1>3 DEF ExpireContract, ExpiryTypeOK, TypeOK
    <3>2. \A x \in {c} : InState(x, "active") /\ Exists(x)
      BY <1>3 DEF StillActive, InState
    <3>3. {c} \in SUBSET ContractIds
      OBVIOUS
    <3>4. Diagram!Expire({c})
      BY <3>1, <3>2, <3>3, ExpireStep DEF ExpiryTypeOK
    <3>5. \A x \in ContractIds : StateOf(x)' = IF x = c THEN "expired" ELSE StateOf(x)
      BY <3>4 DEF Diagram!Expire
    <3>6. \A x \in ContractIds : x \in Expired <=> StateOf(x) = "expired"
      BY DEF Expired, InState, StateOf
    <3>7. \A x \in ContractIds : x \in Expired' <=> StateOf(x)' = "expired"
      BY DEF Expired, InState, StateOf, Exists
    <3>8. StateOf(c) = "active"
      BY <3>2 DEF InState, StateOf
    <3>9. Expired \subseteq ContractIds /\ Expired' \subseteq ContractIds
      BY DEF Expired
    <3> QED BY <3>5, <3>6, <3>7, <3>8, <3>9
  <2> HIDE DEF top
  <2>4. /\ DOMAIN frames' = DOMAIN frames
        /\ \A i \in DOMAIN frames : frames'[i] = IF i = n THEN top ELSE frames[i]
    BY <1>1, <2>2
  <2>5. CountingIn(frames') = CountingIn(frames)
    BY <1>1, <2>1, <2>4 DEF CountingIn
  <2>6. PICK by : Shares(by, Expired, frames, totalContractsExpired)
    BY DEF CountInv
  <2>7. CASE n \in CountingIn(frames)
    <3>1. frames'[n].count = frames[n].count + 1
      BY <1>1, <2>1, <2>4
    <3>2. \A i \in CountingIn(frames) \ {n} : frames'[i].count = frames[i].count
      BY <2>4 DEF CountingIn
    <3>3. \E b : Shares(b, Expired \cup {c}, frames', totalContractsExpired)
      BY <1>1, <2>3, <2>5, <2>6, <2>7, <3>1, <3>2, SharesCount
    <3> QED BY <1>1, <2>3, <3>3 DEF CountInv
  <2>8. CASE n \notin CountingIn(frames)
    <3>1. \A i \in CountingIn(frames) : frames'[i].count = frames[i].count
      BY <2>4, <2>8 DEF CountingIn
    <3>2. frames' \in Seq(Frame)
      BY FramesStep
    <3>3. SameCounts(frames', frames)
      BY <2>5, <3>1, <3>2 DEF SameCounts
    <3> QED BY <1>1, <3>3, SharesStay
  <2> QED BY <2>7, <2>8
<1> QED BY <1>2, <1>3

LEMMA CompleteCycleCounts ==
    ASSUME ExpiryTypeOK, CountInv, [ExpiryNext]_expiryVars, CompleteCycle
    PROVE  CountInv'
<1> DEFINE n == Len(frames)
<1>1. /\ frames \in Seq(Frame) /\ frames # <<>> /\ Top = frames[n] /\ Top \in Frame
      /\ n \in DOMAIN frames /\ Top.at = "work" /\ UNCHANGED lifecycleVars
      /\ totalContractsExpired \in Nat
  BY DEF ExpiryTypeOK, CompleteCycle, TopAt, Top
<1>2. PICK at \in {"return", "cycleListener"} :
         /\ frames' = [frames EXCEPT ![Len(frames)].at = at]
         /\ IF Top.call = "force" THEN totalContractsExpired' = totalContractsExpired
            ELSE totalContractsExpired' = totalContractsExpired + Top.count
  BY DEF CompleteCycle
<1> DEFINE top == [Top EXCEPT !.at = at]
<1>3. top \in Frame /\ top.call = Top.call /\ top.count = Top.count /\ top.at = at
  BY <1>1 DEF Frame
<1>4. frames' = [frames EXCEPT ![n] = top]
  BY <1>2 DEF Top
<1> HIDE DEF top
<1>5. /\ DOMAIN frames' = DOMAIN frames
      /\ \A i \in DOMAIN frames : frames'[i] = IF i = n THEN top ELSE frames[i]
  BY <1>1, <1>4
<1>6. frames' \in Seq(Frame)
  BY FramesStep
<1>7. CASE Top.call = "force"
  <2>1. CountingIn(frames') = CountingIn(frames) /\ n \notin CountingIn(frames)
    BY <1>1, <1>3, <1>5, <1>7 DEF CountingIn
  <2>2. \A i \in CountingIn(frames) : frames'[i].count = frames[i].count
    BY <1>5, <2>1 DEF CountingIn
  <2>3. SameCounts(frames', frames)
    BY <1>6, <2>1, <2>2 DEF SameCounts
  <2> QED BY <1>2, <1>7, <2>3, SharesStay
<1>8. CASE Top.call # "force"
  <2>1. CountingIn(frames') = CountingIn(frames) \ {n} /\ n \in CountingIn(frames)
    BY <1>1, <1>2, <1>3, <1>5, <1>8 DEF CountingIn
  <2>2. \A i \in CountingIn(frames') : frames'[i].count = frames[i].count
    BY <1>5, <2>1 DEF CountingIn
  <2>3. PICK by : Shares(by, Expired, frames, totalContractsExpired)
    BY DEF CountInv
  <2>4. \E b : Shares(b, Expired, frames', totalContractsExpired + frames[n].count)
    BY <1>1, <2>1, <2>2, <2>3, SharesTotal
  <2>5. Expired' = Expired
    BY <1>1 DEF lifecycleVars, Expired, InState, Exists
  <2>6. totalContractsExpired' = totalContractsExpired + frames[n].count
    BY <1>1, <1>2, <1>8
  <2> QED BY <2>4, <2>5, <2>6 DEF CountInv
<1> QED BY <1>7, <1>8

LEMMA CountsStep ==
    ASSUME ExpiryTypeOK, CountInv, [ExpiryNext]_expiryVars
    PROVE  CountInv'
<1>0. frames \in Seq(Frame)
  BY DEF ExpiryTypeOK
<1>1. ASSUME frames' = frames, totalContractsExpired' = totalContractsExpired
      PROVE  CountInv'
  BY <1>0, <1>1, SharesStay DEF SameCounts
<1>2. ASSUME MayCall, frames' = CallerResumes, totalContractsExpired' = totalContractsExpired
      PROVE  CountInv'
  BY <1>0, <1>2, ResumedCounts, SharesStay
<1>3. ASSUME NEW call \in {"start", "cycle", "force"}, NEW queue \in SUBSET ContractIds,
             Push(call, queue), totalContractsExpired' = totalContractsExpired
      PROVE  CountInv'
  BY <1>0, <1>3, PushCounts, SharesStay
<1>4. ASSUME Start \/ RunExpiryCycle \/ IntervalFires \/ SetCheckInterval
      PROVE  CountInv'
  <2>1. TimeboundExpired \in SUBSET ContractIds
    BY DEF TimeboundExpired
  <2> QED BY <1>3, <1>4, <2>1 DEF Start, RunExpiryCycle, IntervalFires, SetCheckInterval
<1>5. ASSUME NEW c \in ContractIds, ForceExpire(c) PROVE CountInv'
  BY <1>3, <1>5 DEF ForceExpire
<1>6. ASSUME ResetStats PROVE CountInv'
  <2>1. MayCall /\ frames' = CallerResumes /\ totalContractsExpired' = 0
    BY <1>6 DEF ResetStats
  <2>2. PICK by : Shares(by, Expired, frames, totalContractsExpired)
    BY DEF CountInv
  <2>3. PICK b : Shares(b, Expired, frames, 0)
    BY <1>0, <2>2, SharesReset
  <2>4. \E d : Shares(d, Expired', frames', 0)
    BY <1>0, <2>1, <2>3, ResumedCounts, ExpiredGrow, SharesGrow DEF ExpiryTypeOK
  <2> QED BY <2>1, <2>4 DEF CountInv
<1>7. ASSUME Return PROVE CountInv'
  <2> DEFINE n == Len(frames)
  <2>1. /\ frames # <<>> /\ frames[n].at = "return" /\ frames' = SubSeq(frames, 1, n - 1)
        /\ totalContractsExpired' = totalContractsExpired
    BY <1>7 DEF Return, TopAt, Top
  <2>2. /\ n \in Nat /\ n > 0 /\ DOMAIN frames = 1..n /\ DOMAIN frames' = 1..(n - 1)
        /\ \A i \in DOMAIN frames' : frames'[i] = frames[i]
    BY <1>0, <2>1
  <2>3. CountingIn(frames') = CountingIn(frames)
    BY <2>1, <2>2 DEF CountingIn
  <2>4. \A i \in CountingIn(frames) : frames'[i].count = frames[i].count
    BY <2>2, <2>3 DEF CountingIn
  <2>5. SameCounts(frames', frames)
    BY <2>3, <2>4, FramesStep DEF SameCounts
  <2> QED BY <2>1, <2>5, SharesStay
<1>8. ASSUME Stop \/ OtherOperation \/ ListenerReturns PROVE CountInv'
  BY <1>2, <1>8 DEF Stop, OtherOperation, ListenerReturns, MayCall
<1>9. ASSUME ExpiryTick \/ UNCHANGED expiryVars PROVE CountInv'
  BY <1>1, <1>9 DEF ExpiryTick, managerVars, expiryVars
<1>10. ASSUME NEW c \in ContractIds, ExpireContract(c) PROVE CountInv'
  BY <1>10, ExpireContractCounts
<1>11. ASSUME CompleteCycle PROVE CountInv'
  BY <1>11, CompleteCycleCounts
<1> QED BY <1>4, <1>5, <1>6, <1>7, <1>8, <1>9, <1>10, <1>11 DEF ExpiryNext, Running

\* The statistics count no contract twice, however cycles nest and whatever listeners expire,
\* force, reset or restart in the middle of one.
THEOREM NothingCountedTwice == ExpirySpec => []CountsAreRight
<1>1. ExpiryInit => CountInv
  <2> SUFFICES ASSUME ExpiryInit PROVE CountInv
    OBVIOUS
  <2>1. Expired = {} /\ frames = <<>> /\ totalContractsExpired = 0
    BY DEF ExpiryInit, Init, Expired, InState, Exists
  <2>2. CountingIn(frames) = {}
    BY <2>1 DEF CountingIn
  <2>3. Shares([c \in {} |-> 0], Expired, frames, totalContractsExpired)
    BY <2>1, <2>2, FS_EmptySet DEF Shares, Share
  <2> QED BY <2>3 DEF CountInv
<1>2. ExpiryTypeOK /\ CountInv /\ [ExpiryNext]_expiryVars => CountInv'
  BY CountsStep
<1>3. ExpiryTypeOK /\ CountInv => CountsAreRight
  <2> SUFFICES ASSUME ExpiryTypeOK, NEW by, Shares(by, Expired, frames, totalContractsExpired)
               PROVE  CountedAtMostOnce
    BY DEF CountInv, CountsAreRight
  <2>1. Counting = CountingIn(frames)
    BY DEF Counting, CountingIn
  <2> QED BY <2>1 DEF Shares, Share, CountedAtMostOnce
<1> QED BY <1>1, <1>2, <1>3, ExpiryTypeCorrect, PTL DEF ExpirySpec
=============================================================================
