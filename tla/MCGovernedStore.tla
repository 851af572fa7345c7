---------------------------- MODULE MCGovernedStore ----------------------------
(***************************************************************************)
(* A small instance of GovernedStore for TLC.                              *)
(***************************************************************************)
EXTENDS GovernedStore, TLC

CONSTANTS c1, c2, m1, m2, k1, k2, alice, work, stream

MCContractIds == {c1, c2}
MCMemoryIds == {m1, m2}
OneCall == {k1}
TwoCalls == {k1, k2}
MCUsers == {alice}
MCDomains == {work}
MCContexts == {stream}
MCTools == {}

Symmetry == Permutations(MCContractIds) \cup Permutations(MCMemoryIds) \cup Permutations(TwoCalls)

\* Work only, nothing said of contexts.
Episodic ==
    [contract_type |-> "episodic",
     scope |-> [domains |-> {work}, contexts |-> {}, tools |-> {},
                max_abstraction |-> "raw", transferable |-> FALSE],
     memory_permissions |-> [may_store |-> TRUE, classification_cap |-> 3,
                             retention |-> "permanent", retention_until |-> NoTime],
     generalization_rules |-> [allowed |-> FALSE],
     recall_rules |-> [requires_owner |-> TRUE, boundary_mode_min |-> "normal"],
     expiration |-> NoTime, revocable |-> TRUE]

Prohibited ==
    [Episodic EXCEPT !.contract_type = "prohibited", !.memory_permissions.may_store = FALSE,
                     !.memory_permissions.classification_cap = 0, !.revocable = FALSE]

Asks(context, level) ==
    [domain |-> work, context |-> context, tool |-> Unset, boundary_mode |-> "normal",
     requester |-> alice, classification |-> level, target |-> "raw"]

MCDrafts == {Episodic, Prohibited}
MCChangeSets == {{}}
\* One request at the cap, one beyond it.
MCRequests == {Asks(stream, 3), Asks(Unset, 4)}
=============================================================================
