------------------------------- MODULE MCAccess -------------------------------
(***************************************************************************)
(* A small instance of Access for TLC.                                     *)
(***************************************************************************)
EXTENDS Access, TLC

CONSTANTS c1, c2, alice, bob, mail, work

MCContractIds == {c1, c2}
MCUsers == {alice, bob, mail}
MCDomains == {work}
MCContexts == {}
MCTools == {}

\* mail stands for an id such as an e-mail address, which validateId refuses.
MCWellFormedIds == {alice, bob}

\* ContractFactory.createObservationContract; not revocable, which only saves states.
Observation ==
    [contract_type |-> "observation",
     scope |-> [domains |-> {work}, contexts |-> {}, tools |-> {},
                max_abstraction |-> "raw", transferable |-> FALSE],
     memory_permissions |-> [may_store |-> FALSE, classification_cap |-> 0,
                             retention |-> "session", retention_until |-> NoTime],
     generalization_rules |-> [allowed |-> FALSE],
     recall_rules |-> [requires_owner |-> TRUE, boundary_mode_min |-> "normal"],
     expiration |-> NoTime, revocable |-> FALSE]

\* An observation contract that stores, which the validator refuses.
Storing == [Observation EXCEPT !.memory_permissions.may_store = TRUE]

MCDrafts == {Observation, Storing}
MCChangeSets == {{}}
MCExpirations == {1}

\* One contract per window of two ticks.
OnePerWindow == [enabled |-> TRUE, maxContractsPerWindow |-> 1, windowMs |-> 2]
MCRateLimits == {OnePerWindow}

Symmetry == Permutations(MCContractIds) \cup Permutations(MCWellFormedIds)
=============================================================================
