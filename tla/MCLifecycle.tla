----------------------------- MODULE MCLifecycle -----------------------------
(***************************************************************************)
(* A small instance of Lifecycle for TLC.                                  *)
(***************************************************************************)
EXTENDS Lifecycle, TLC

CONSTANTS c1, c2, c3, alice, work

MCContractIds == {c1, c2, c3}
MCUsers == {alice}
MCDomains == {work}
MCContexts == {}
MCTools == {}

Symmetry == Permutations(MCContractIds)

Scope == [domains |-> {work}, contexts |-> {}, tools |-> {},
          max_abstraction |-> "raw", transferable |-> FALSE]

\* What ContractFactory builds for an episodic contract, with a contract-level
\* expiration after one tick.
Episodic ==
    [contract_type |-> "episodic", scope |-> Scope,
     memory_permissions |-> [may_store |-> TRUE, classification_cap |-> 3,
                             retention |-> "timebound", retention_until |-> 1],
     generalization_rules |-> [allowed |-> FALSE],
     recall_rules |-> [requires_owner |-> TRUE, boundary_mode_min |-> "normal"],
     expiration |-> 1, revocable |-> TRUE]

\* ContractFactory.createProhibitedContract: no storage, not revocable.
Prohibited ==
    [contract_type |-> "prohibited", scope |-> Scope,
     memory_permissions |-> [may_store |-> FALSE, classification_cap |-> 0,
                             retention |-> "session", retention_until |-> NoTime],
     generalization_rules |-> [allowed |-> FALSE],
     recall_rules |-> [requires_owner |-> TRUE, boundary_mode_min |-> "restricted"],
     expiration |-> NoTime, revocable |-> FALSE]

\* A procedural contract that generalizes: changing the type of an episodic
\* contract to it is fine, changing only the rules of an episodic one is not.
Procedural ==
    [Episodic EXCEPT !.contract_type = "procedural",
                     !.generalization_rules = [allowed |-> TRUE],
                     !.memory_permissions.retention = "permanent",
                     !.memory_permissions.retention_until = NoTime,
                     !.expiration = NoTime]

MCDrafts == {Episodic, Procedural}
MCProhibitedDrafts == {Prohibited}
MCChangeSets == {{}, {"generalization_rules"}}
=============================================================================
