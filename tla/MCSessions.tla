------------------------------ MODULE MCSessions ------------------------------
(***************************************************************************)
(* A small instance of Sessions for TLC.                                   *)
(***************************************************************************)
EXTENDS Sessions, TLC

CONSTANTS c1, c2, s1, s2, alice, bob, work

MCContractIds == {c1, c2}
MCSessionIds == {s1, s2}
MCUsers == {alice, bob}
MCDomains == {work}
MCContexts == {}
MCTools == {}
MCTimeouts == {0}
MCMaxAges == {0, 1}

Symmetry ==
    Permutations(MCContractIds) \cup Permutations(MCSessionIds) \cup Permutations(MCUsers)

\* A contract with session retention, as the sessions are meant for.
SessionScoped ==
    [contract_type |-> "episodic",
     scope |-> [domains |-> {work}, contexts |-> {}, tools |-> {},
                max_abstraction |-> "raw", transferable |-> FALSE],
     memory_permissions |-> [may_store |-> TRUE, classification_cap |-> 3,
                             retention |-> "session", retention_until |-> NoTime],
     generalization_rules |-> [allowed |-> FALSE],
     recall_rules |-> [requires_owner |-> TRUE, boundary_mode_min |-> "normal"],
     expiration |-> NoTime, revocable |-> TRUE]

\* No session may take this one in.
Permanent == [SessionScoped EXCEPT !.memory_permissions.retention = "permanent"]

MCDrafts == {SessionScoped, Permanent}
MCChangeSets == {{}}
=============================================================================
