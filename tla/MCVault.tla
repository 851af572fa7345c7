-------------------------------- MODULE MCVault --------------------------------
(***************************************************************************)
(* A small instance of Vault for TLC.                                      *)
(***************************************************************************)
EXTENDS Vault, TLC

CONSTANTS c1, m1, m2, k1, k2, k3, alice, work, home

MCContractIds == {c1}
MCMemoryIds == {m1, m2}
MCCalls == {k1, k2, k3}
MCUsers == {alice}
MCDomains == {work, home}
MCContexts == {}
MCTools == {}

Symmetry == Permutations(MCMemoryIds) \cup Permutations(MCCalls)

\* Work, up to classification 3, recalled by its owner in a privileged mode.
\* Expires at the first tick.
Episodic ==
    [contract_type |-> "episodic",
     scope |-> [domains |-> {work}, contexts |-> {}, tools |-> {},
                max_abstraction |-> "raw", transferable |-> FALSE],
     memory_permissions |-> [may_store |-> TRUE, classification_cap |-> 3,
                             retention |-> "permanent", retention_until |-> NoTime],
     generalization_rules |-> [allowed |-> FALSE],
     recall_rules |-> [requires_owner |-> TRUE, boundary_mode_min |-> "privileged"],
     expiration |-> 0, revocable |-> TRUE]

Asks(domain, user, level) ==
    [domain |-> domain, context |-> Unset, tool |-> Unset, boundary_mode |-> "normal",
     requester |-> user, classification |-> level, target |-> "raw"]

MCDrafts == {Episodic}
MCChangeSets == {{}}
\* Requests within the terms, above the cap, and of another domain.
MCRequests == {Asks(work, alice, 3), Asks(work, Unset, 4), Asks(home, alice, 3)}
MCVaultModes == {"normal", "restricted"}
=============================================================================
