------------------------------- MODULE Sessions -------------------------------
(***************************************************************************)
(* SessionManager next to the lifecycle: sessions list the contracts that  *)
(* live no longer than they do, a second map leads from a contract back to *)
(* its session, and ending a session expires what it lists.                *)
(*                                                                         *)
(* A session id stands for a fresh uuid: it is drawn again only after      *)
(* cleanupOldSessions forgot the session it named.  Memory freezing and    *)
(* session listeners are left out; endSession has finished its changes     *)
(* when it calls the listeners.                                            *)
(***************************************************************************)
EXTENDS Lifecycle

CONSTANTS
    SessionIds,    \* the uuids startSession may draw
    NoSession,     \* an id that names no session, a contract in no session
    Timeouts,      \* metadata.timeoutMs, or the manager's default
    MaxAges        \* what callers pass to cleanupOldSessions

SessionStatus == {"active", "ended", "expired"}

Session ==
    [user_id : Users, created_at : Nat, ended_at : Time, status : SessionStatus,
     contract_ids : SUBSET ContractIds, timeout : Timeouts]

ASSUME SessionAssumption ==
    /\ NoSession \notin SessionIds /\ NoSession \notin Session
    /\ Timeouts \subseteq Nat /\ MaxAges \subseteq Nat

VARIABLES
    sessions,           \* id -> session or NoSession
    contractToSession   \* contract id -> session id or NoSession

sessionVars == <<sessions, contractToSession>>
vars == <<contracts, trail, now, sessions, contractToSession>>

SessionsTypeOK ==
    /\ TypeOK
    /\ sessions \in [SessionIds -> Session \cup {NoSession}]
    /\ contractToSession \in [ContractIds -> SessionIds \cup {NoSession}]

SessionsInit ==
    /\ Init
    /\ sessions = [s \in SessionIds |-> NoSession]
    /\ contractToSession = [c \in ContractIds |-> NoSession]
-----------------------------------------------------------------------------
Known(s) == sessions[s] # NoSession
HasStatus(s, status) == Known(s) /\ sessions[s].status = status

StartSession(s, user, timeout) ==
    /\ ~Known(s)
    /\ sessions' = [sessions EXCEPT ![s] =
          [user_id |-> user, created_at |-> now, ended_at |-> NoTime, status |-> "active",
           contract_ids |-> {}, timeout |-> timeout]]
    /\ UNCHANGED <<lifecycleVars, contractToSession>>

\* Mutant of AssociateContract: into any session that is known.
AssociateAnySession(s, c) ==
    /\ Known(s)
    /\ Exists(c)
    /\ contracts[c].memory_permissions.retention = "session"
    /\ c \notin sessions[s].contract_ids
    /\ sessions' = [sessions EXCEPT ![s].contract_ids = @ \cup {c}]
    /\ contractToSession' = [contractToSession EXCEPT ![c] = s]
    /\ UNCHANGED lifecycleVars

\* Only contracts with session retention; a contract may be in several sessions, but
\* the map remembers the last one.
AssociateContract(s, c) ==
    /\ HasStatus(s, "active")
    /\ Exists(c)
    /\ contracts[c].memory_permissions.retention = "session"
    /\ c \notin sessions[s].contract_ids
    /\ sessions' = [sessions EXCEPT ![s].contract_ids = @ \cup {c}]
    /\ contractToSession' = [contractToSession EXCEPT ![c] = s]
    /\ UNCHANGED lifecycleVars

DisassociateContract(c) ==
    LET s == contractToSession[c] IN
    /\ s # NoSession
    /\ sessions' = IF Known(s) THEN [sessions EXCEPT ![s].contract_ids = @ \ {c}] ELSE sessions
    /\ contractToSession' = [contractToSession EXCEPT ![c] = NoSession]
    /\ UNCHANGED lifecycleVars

\* Mutant of Cleaned: only what the map leads to.
CleanedByMap(S) == {c \in ContractIds : contractToSession[c] \in S /\ InState(c, "active")}

\* cleanupContract expires what is active.
Cleaned(S) == {c \in UNION {sessions[s].contract_ids : s \in S} : InState(c, "active")}

\* Mutant of EndEach: the map keeps its entries.
EndKeepingMap(S) ==
    /\ ExpireEach(Cleaned(S))
    /\ sessions' = [s \in SessionIds |->
          IF s \in S THEN [sessions[s] EXCEPT !.status = "ended", !.ended_at = now]
                     ELSE sessions[s]]
    /\ UNCHANGED <<contractToSession, now>>

\* endSession for each of the active sessions S.
EndEach(S) ==
    /\ ExpireEach(Cleaned(S))
    /\ sessions' = [s \in SessionIds |->
          IF s \in S THEN [sessions[s] EXCEPT !.status = "ended", !.ended_at = now]
                     ELSE sessions[s]]
    /\ contractToSession' = [c \in ContractIds |->
          IF \E s \in S : c \in sessions[s].contract_ids THEN NoSession ELSE contractToSession[c]]
    /\ UNCHANGED now

EndSession(s) == HasStatus(s, "active") /\ EndEach({s})

EndUserSessions(user) ==
    EndEach({s \in SessionIds : HasStatus(s, "active") /\ sessions[s].user_id = user})

TimedOut(s) == HasStatus(s, "active") /\ now - sessions[s].created_at > sessions[s].timeout

\* The status is set before endSession is called, which therefore finds a session
\* that is not active and returns at once.
ExpireTimedOutSessions ==
    /\ sessions' = [s \in SessionIds |->
          IF TimedOut(s) THEN [sessions[s] EXCEPT !.status = "expired"] ELSE sessions[s]]
    /\ UNCHANGED <<lifecycleVars, contractToSession>>

CleanupOldSessions(maxAge) ==
    /\ sessions' = [s \in SessionIds |->
          IF /\ Known(s) /\ ~HasStatus(s, "active")
             /\ sessions[s].ended_at # NoTime /\ now - sessions[s].ended_at >= maxAge
          THEN NoSession ELSE sessions[s]]
    /\ UNCHANGED <<lifecycleVars, contractToSession>>

LifecycleOperation == Next /\ UNCHANGED sessionVars

SessionsNext ==
    \/ \E s \in SessionIds, user \in Users, timeout \in Timeouts : StartSession(s, user, timeout)
    \/ \E s \in SessionIds, c \in ContractIds : AssociateContract(s, c)
    \/ \E c \in ContractIds : DisassociateContract(c)
    \/ \E s \in SessionIds : EndSession(s)
    \/ \E user \in Users : EndUserSessions(user)
    \/ ExpireTimedOutSessions
    \/ \E maxAge \in MaxAges : CleanupOldSessions(maxAge)
    \/ LifecycleOperation

SessionsSpec == SessionsInit /\ [][SessionsNext]_vars
-----------------------------------------------------------------------------
Lists(s, c) == Known(s) /\ c \in sessions[s].contract_ids

\* The two sides of the association agree in one direction, whatever is shared, ended,
\* timed out or forgotten: a mapped contract is listed by the session the map names,
\* which still exists and has not been ended.
MappingPointsToHolder ==
    \A c \in ContractIds :
       LET s == contractToSession[c] IN
       s # NoSession => Lists(s, c) /\ ~HasStatus(s, "ended")

\* The two maps are of their types and agree.
MapsAgree == SessionsTypeOK /\ MappingPointsToHolder

\* Ending sessions expires exactly their own: a session that ends leaves none of its
\* contracts active, and a contract expires before its time only with session
\* retention and when a session that lists it ends in that step.
EndingExpiresItsOwn ==
    [][/\ \A s \in SessionIds : HasStatus(s, "active") /\ HasStatus(s, "ended")' =>
             \A c \in sessions[s].contract_ids : ~InState(c, "active")'
       /\ \A c \in ContractIds :
             InState(c, "active") /\ InState(c, "expired")' /\ c \notin ExpiredContracts =>
                /\ contracts[c].memory_permissions.retention = "session"
                /\ \E s \in SessionIds : Lists(s, c) /\ HasStatus(s, "ended")']_vars

\* A session that has ended or timed out never becomes active again and takes no
\* contract in; its end is not moved.
ClosedSessionsStayClosed ==
    [][\A s \in SessionIds :
          Known(s) /\ ~HasStatus(s, "active") /\ Known(s)' =>
             /\ sessions'[s].status = sessions[s].status
             /\ sessions'[s].ended_at = sessions[s].ended_at
             /\ sessions'[s].contract_ids \subseteq sessions[s].contract_ids]_vars
-----------------------------------------------------------------------------
(***************************************************************************)
(* What the documents say, and the code does not keep.                     *)
(***************************************************************************)

\* docs/internal/specs.md section 12: contracts are expired when their session ends,
\* and sessions end by timeout too.
TimeoutExpiresContracts ==
    [][\A s \in SessionIds : HasStatus(s, "active") /\ HasStatus(s, "expired")' =>
          \A c \in sessions[s].contract_ids : ~InState(c, "active")']_vars

\* isContractInSession tells whether a contract is associated with a session: it does
\* for every contract an active session lists.
ListedContractIsInSession ==
    \A s \in SessionIds, c \in ContractIds :
       HasStatus(s, "active") /\ Lists(s, c) => contractToSession[c] # NoSession

\* cleanupOldSessions cleans up ended and expired sessions: with age 0 it leaves none.
CleanupForgetsClosedSessions ==
    [][CleanupOldSessions(0) => \A s \in SessionIds : Known(s)' => HasStatus(s, "active")']_vars
=============================================================================
