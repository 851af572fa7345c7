------------------------------ MODULE Lifecycle ------------------------------
(***************************************************************************)
(* The core of the system: the contract store, the lifecycle operations    *)
(* LearningContractsSystem exposes, and the part of the audit log that     *)
(* records lifecycle transitions.                                          *)
(*                                                                         *)
(* Each exported operation runs to completion on the event loop, so it is  *)
(* one action; what interleaves is the order in which callers, timers and  *)
(* the clock get their turn.  An operation that throws before it has       *)
(* changed anything is a step that leaves the state as it is.              *)
(***************************************************************************)
EXTENDS Contracts, Sequences

CONSTANTS
    Drafts,        \* the drafts callers hand in, valid and invalid ones
    ChangeSets,    \* the sets of fields an amendment may change
    MaxTime,       \* bound of the clock
    MaxTrail       \* bound of a contract's trail for amendments that throw

ASSUME DraftsAssumption ==
    /\ Drafts \subseteq ContractDraft
    /\ ChangeSets \subseteq SUBSET DraftFields

VARIABLES
    contracts,     \* the repository's map: id -> contract or NoContract
    trail,         \* id -> the transitions the audit log has of that contract, in order
    now            \* the clock, new Date()

lifecycleVars == <<contracts, trail, now>>

Transition(from, to) == [previous_state |-> from, new_state |-> to]

LoggedTransition ==
    [previous_state : ContractState \cup {"none"}, new_state : ContractState]

TypeOK ==
    /\ contracts \in [ContractIds -> LearningContract \cup {NoContract}]
    /\ trail \in [ContractIds -> Seq(LoggedTransition)]
    /\ now \in Nat

Init ==
    /\ contracts = [c \in ContractIds |-> NoContract]
    /\ trail = [c \in ContractIds |-> <<>>]
    /\ now = 0

-----------------------------------------------------------------------------
Exists(c) == contracts[c] # NoContract
InState(c, s) == Exists(c) /\ contracts[c].state = s

\* auditLogger.logStateTransition: append, never anything else.
LogTransition(c, from, to) ==
    trail' = [trail EXCEPT ![c] = Append(@, Transition(from, to))]

\* repository.save of the contract with its state replaced.
SaveState(c, s) == contracts' = [contracts EXCEPT ![c].state = s]

\* The valid path of createContract: createDraft, repository.save.  The rate limiter
\* in front of it (off unless configured) and the owner it sets at the end are state
\* of module Access, which completes this action.
CreateContract(c, user, d) ==
    LET contract == NewContract(d, user, now, NoContract) IN
    /\ ~Exists(c)
    /\ Validate(contract)
    /\ contracts' = [contracts EXCEPT ![c] = contract]
    /\ LogTransition(c, "none", "draft")
    /\ UNCHANGED now

\* The log entry says draft -> review even when an amended contract is
\* submitted again.
SubmitForReview(c) ==
    /\ Exists(c)
    /\ ValidTransition(contracts[c].state, "review")
    /\ SaveState(c, "review")
    /\ LogTransition(c, "draft", "review")
    /\ UNCHANGED now

ActivateContract(c) ==
    /\ Exists(c)
    /\ ValidTransition(contracts[c].state, "active")
    /\ Validate(contracts[c])
    /\ SaveState(c, "active")
    /\ LogTransition(c, contracts[c].state, "active")
    /\ UNCHANGED now

\* Mutant of RevokeContract: the revocation is not logged.
UnloggedRevocation(c) ==
    /\ Exists(c)
    /\ contracts[c].revocable
    /\ ValidTransition(contracts[c].state, "revoked")
    /\ SaveState(c, "revoked")
    /\ UNCHANGED <<trail, now>>

RevokeContract(c) ==
    /\ Exists(c)
    /\ contracts[c].revocable
    /\ ValidTransition(contracts[c].state, "revoked")
    /\ SaveState(c, "revoked")
    /\ LogTransition(c, "active", "revoked")
    /\ UNCHANGED now

\* The draft that replaces c: c's terms, with the given fields changed.
Replacement(c, user, d, fields) ==
    NewContract(Amended(contracts[c], d, fields), user, now, c)

\* Mutant of AmendContract: only the new draft is logged.
HalfLoggedAmendment(c, new, user, d, fields) ==
    LET draft == Replacement(c, user, d, fields) IN
    /\ Exists(c) /\ ~Exists(new)
    /\ ValidTransition(contracts[c].state, "amended")
    /\ Validate(draft)
    /\ contracts' = [contracts EXCEPT ![c].state = "amended", ![new] = draft]
    /\ LogTransition(new, "none", "draft")
    /\ UNCHANGED now

AmendContract(c, new, user, d, fields) ==
    LET draft == Replacement(c, user, d, fields) IN
    /\ Exists(c) /\ ~Exists(new)
    /\ ValidTransition(contracts[c].state, "amended")
    /\ Validate(draft)
    /\ contracts' = [contracts EXCEPT ![c].state = "amended", ![new] = draft]
    /\ trail' = [trail EXCEPT ![c] = Append(@, Transition("active", "amended")),
                              ![new] = Append(@, Transition("none", "draft"))]
    /\ UNCHANGED now

\* amend logs active -> amended before it builds the new draft: when the draft
\* is rejected the exception leaves that entry behind and nothing is saved.
AmendContractThrows(c, user, d, fields) ==
    /\ Exists(c)
    /\ ValidTransition(contracts[c].state, "amended")
    /\ ~Validate(Replacement(c, user, d, fields))
    /\ Len(trail[c]) < MaxTrail
    /\ LogTransition(c, "active", "amended")
    /\ UNCHANGED <<contracts, now>>

\* lifecycleManager.expire and repository.save for each member of S in turn.
ExpireEach(S) ==
    /\ contracts' = [c \in ContractIds |->
          IF c \in S THEN [contracts[c] EXCEPT !.state = "expired"] ELSE contracts[c]]
    /\ trail' = [c \in ContractIds |->
          IF c \in S THEN Append(trail[c], Transition("active", "expired")) ELSE trail[c]]

\* Mutant of ExpiredContracts: whatever the state.
PastExpiration ==
    {c \in ContractIds : /\ Exists(c)
                         /\ contracts[c].expiration # NoTime
                         /\ contracts[c].expiration < now}

\* repository.getExpiredContracts.
ExpiredContracts ==
    {c \in ContractIds : /\ InState(c, "active")
                         /\ contracts[c].expiration # NoTime
                         /\ contracts[c].expiration < now}

ExpireOldContracts == ExpireEach(ExpiredContracts) /\ UNCHANGED now

Tick == now < MaxTime /\ now' = now + 1 /\ UNCHANGED <<contracts, trail>>

\* The operations on contracts that exist.
ContractStep ==
    \/ \E c \in ContractIds : SubmitForReview(c) \/ ActivateContract(c) \/ RevokeContract(c)
    \/ \E c, new \in ContractIds, user \in Users, d \in Drafts, fields \in ChangeSets :
          AmendContract(c, new, user, d, fields)
    \/ \E c \in ContractIds, user \in Users, d \in Drafts, fields \in ChangeSets :
          AmendContractThrows(c, user, d, fields)
    \/ ExpireOldContracts

\* Every step of the lifecycle but the clock's.
LifecycleStep ==
    \/ \E c \in ContractIds, user \in Users, d \in Drafts : CreateContract(c, user, d)
    \/ ContractStep

Next == LifecycleStep \/ Tick

Spec == Init /\ [][Next]_lifecycleVars
-----------------------------------------------------------------------------
StateOf(c) == IF Exists(c) THEN contracts[c].state ELSE "none"

\* The lifecycle diagram of README.md and docs/internal/specs.md section 3: every
\* step of the system is a step of the diagram or leaves all states alone.
Diagram == INSTANCE LifecycleDiagram WITH state <- [c \in ContractIds |-> StateOf(c)]
DiagramSpec == Diagram!Spec

LastLogged(c) == trail[c][Len(trail[c])].new_state

\* The audit log never lags behind the store: the last transition logged of a
\* contract is the one that led to its stored state.  The one exception is an
\* amendment that threw: the log then says amended of a contract still active.
TrailTracksStore ==
    \A c \in ContractIds :
       IF Exists(c)
       THEN /\ trail[c] # <<>>
            /\ \/ LastLogged(c) = contracts[c].state
               \/ LastLogged(c) = "amended" /\ contracts[c].state = "active"
       ELSE trail[c] = <<>>

\* Explicit consent: whichever way a contract became active, the step before in
\* its audit trail submitted it for review, also when it was amended and came back.
EveryActivationReviewed ==
    \A c \in ContractIds : \A i \in DOMAIN trail[c] :
       trail[c][i].new_state = "active" =>
          i > 1 /\ trail[c][i - 1].new_state = "review"

\* An expired or revoked contract is closed for good: after that entry the audit
\* log never records another transition of it.
NothingAfterTheEnd ==
    \A c \in ContractIds : \A i \in DOMAIN trail[c] :
       trail[c][i].new_state \in {"expired", "revoked"} => i = Len(trail[c])

\* An amendment in the store has an original that exists, was created no later, and
\* whose trail records that it was amended; it is never its own original.
AmendmentsAreAccountedFor ==
    \A c \in ContractIds : Exists(c) /\ contracts[c].amended_from # NoContract =>
       LET from == contracts[c].amended_from IN
       /\ Exists(from) /\ from # c
       /\ contracts[from].created_at <= contracts[c].created_at
       /\ \E i \in DOMAIN trail[from] : trail[from][i].new_state = "amended"

\* The store never changes the state of a contract without appending exactly one
\* entry with the new state to its trail, and no entry is ever rewritten.
NoUnloggedTransition ==
    [][\A c \in ContractIds :
          /\ StateOf(c)' # StateOf(c) =>
                \E from \in ContractState \cup {"none"} :
                   trail'[c] = Append(trail[c], Transition(from, StateOf(c)'))
          /\ Len(trail'[c]) >= Len(trail[c])
          /\ SubSeq(trail'[c], 1, Len(trail[c])) = trail[c]]_lifecycleVars
-----------------------------------------------------------------------------
(***************************************************************************)
(* What the documents say, and the code does not keep.                     *)
(***************************************************************************)

\* docs/internal/specs.md section 3: amending an active contract logs it, moves it
\* to amended and creates the new draft.  So the log never says amended of a
\* contract that is still active.
AuditMatchesStore ==
    \A c \in ContractIds : Exists(c) => LastLogged(c) = contracts[c].state

\* src/types/audit.ts calls previous_state the previous state of a transition: each
\* entry starts where the entry before it ended.
LoggedPreviousStateIsTrue ==
    \A c \in ContractIds : \A i \in DOMAIN trail[c] :
       i > 1 => trail[c][i].previous_state = trail[c][i - 1].new_state

\* src/contracts/factory.ts and docs/internal/specs.md section 4.5: an active
\* prohibited contract that is not revocable stops being enforced only by expiring.
ProhibitedOnlyExpires ==
    [][\A c \in ContractIds :
          InState(c, "active") /\ contracts[c].contract_type = "prohibited"
             /\ ~contracts[c].revocable
          => contracts'[c].state \in {"active", "expired"}]_lifecycleVars
=============================================================================
