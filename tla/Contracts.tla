------------------------------ MODULE Contracts ------------------------------
(***************************************************************************)
(* The data of the system: what a learning contract is, which contracts    *)
(* the validator accepts and which lifecycle transitions it lets through.  *)
(* No state.                                                               *)
(*                                                                         *)
(* A time is a natural number, NoTime an absent date.  Users and the       *)
(* entries of a scope are model values; prose (generalization conditions,  *)
(* reasons) is left out, and of the metadata only amended_from is kept.    *)
(***************************************************************************)
EXTENDS Integers

CONSTANTS
    ContractIds,   \* the uuids the program may draw as contract_id
    Users,         \* user identifiers
    Domains,       \* what scope.domains may list
    Contexts,      \* what scope.contexts may list
    Tools,         \* what scope.tools may list
    NoTime,        \* an absent date
    NoContract     \* what an id that names no contract resolves to

ASSUME NoTimeAssumption == NoTime \notin Nat

ContractType == {"observation", "episodic", "procedural", "strategic", "prohibited"}
ContractState == {"draft", "review", "active", "expired", "revoked", "amended"}
AbstractionLevel == {"raw", "pattern", "heuristic", "strategy"}
RetentionDuration == {"session", "timebound", "permanent"}
BoundaryMode == {"restricted", "normal", "trusted", "privileged"}
Time == Nat \cup {NoTime}

LearningScope ==
    [domains : SUBSET Domains, contexts : SUBSET Contexts, tools : SUBSET Tools,
     max_abstraction : AbstractionLevel, transferable : BOOLEAN]

\* classification_cap is typed Int: a caller may pass any number, the validator
\* keeps it within 0..5.
MemoryPermissions ==
    [may_store : BOOLEAN, classification_cap : Int,
     retention : RetentionDuration, retention_until : Time]

GeneralizationRules == [allowed : BOOLEAN]
RecallRules == [requires_owner : BOOLEAN, boundary_mode_min : BoundaryMode]

\* What a caller hands to createDraft, created_by apart.
ContractDraft ==
    [contract_type : ContractType, scope : LearningScope,
     memory_permissions : MemoryPermissions,
     generalization_rules : GeneralizationRules, recall_rules : RecallRules,
     expiration : Time, revocable : BOOLEAN]

DraftFields ==
    {"contract_type", "scope", "memory_permissions", "generalization_rules",
     "recall_rules", "expiration", "revocable"}

LearningContract ==
    [contract_type : ContractType, scope : LearningScope,
     memory_permissions : MemoryPermissions,
     generalization_rules : GeneralizationRules, recall_rules : RecallRules,
     expiration : Time, revocable : BOOLEAN,
     created_at : Nat, created_by : Users, state : ContractState,
     amended_from : ContractIds \cup {NoContract}]

ASSUME NoContractAssumption ==
    /\ NoContract \notin ContractIds
    /\ NoContract \notin LearningContract
-----------------------------------------------------------------------------
(***************************************************************************)
(* The validator.                                                          *)
(***************************************************************************)
\* Mutant of ValidTransitions: a draft may skip its review.
SkippedReview ==
    [draft   |-> {"review", "active"},
     review  |-> {"active", "draft"},
     active  |-> {"expired", "revoked", "amended"},
     expired |-> {},
     revoked |-> {},
     amended |-> {"review"}]

ValidTransitions ==
    [draft   |-> {"review"},
     review  |-> {"active", "draft"},
     active  |-> {"expired", "revoked", "amended"},
     expired |-> {},
     revoked |-> {},
     amended |-> {"review"}]

ValidTransition(from, to) == to \in ValidTransitions[from]

\* Mutant of TypeSpecificRules: a strategic contract may be recalled in any mode.
AnyModeRules(c) ==
    /\ c.contract_type \in {"observation", "prohibited"} => ~c.memory_permissions.may_store
    /\ c.contract_type \in {"observation", "episodic", "prohibited"} =>
          ~c.generalization_rules.allowed

TypeSpecificRules(c) ==
    /\ c.contract_type \in {"observation", "prohibited"} => ~c.memory_permissions.may_store
    /\ c.contract_type \in {"observation", "episodic", "prohibited"} =>
          ~c.generalization_rules.allowed
    /\ c.contract_type = "strategic" =>
          c.recall_rules.boundary_mode_min \in {"trusted", "privileged"}

ValidMemoryPermissions(m) ==
    /\ m.classification_cap \in 0..5
    /\ m.retention = "timebound" => m.retention_until # NoTime

\* Only errors reject a contract: a retention_until in the past, an empty scope
\* or a generalization without conditions are warnings.
Validate(c) ==
    /\ TypeSpecificRules(c)
    /\ ValidMemoryPermissions(c.memory_permissions)
    /\ c.expiration # NoTime => c.expiration >= c.created_at
-----------------------------------------------------------------------------
\* The contract object createDraft builds before it validates it.
NewContract(d, user, at, from) ==
    [contract_type |-> d.contract_type, scope |-> d.scope,
     memory_permissions |-> d.memory_permissions,
     generalization_rules |-> d.generalization_rules,
     recall_rules |-> d.recall_rules,
     expiration |-> d.expiration, revocable |-> d.revocable,
     created_at |-> at, created_by |-> user, state |-> "draft",
     amended_from |-> from]

\* amend: changes.x ?? contract.x for each field.  The change record is the part
\* of d that lies in `fields'; a null expiration counts as not given.
Amended(c, d, fields) ==
    [contract_type |-> IF "contract_type" \in fields THEN d.contract_type ELSE c.contract_type,
     scope |-> IF "scope" \in fields THEN d.scope ELSE c.scope,
     memory_permissions |->
        IF "memory_permissions" \in fields THEN d.memory_permissions ELSE c.memory_permissions,
     generalization_rules |->
        IF "generalization_rules" \in fields THEN d.generalization_rules
                                             ELSE c.generalization_rules,
     recall_rules |-> IF "recall_rules" \in fields THEN d.recall_rules ELSE c.recall_rules,
     expiration |->
        IF "expiration" \in fields /\ d.expiration # NoTime THEN d.expiration ELSE c.expiration,
     revocable |-> IF "revocable" \in fields THEN d.revocable ELSE c.revocable]

\* isExpired, at time t.
IsExpired(c, t) ==
    \/ c.state = "expired"
    \/ c.expiration # NoTime /\ c.expiration < t

IsEnforceable(c, t) == c.state = "active" /\ ~IsExpired(c, t)
=============================================================================
