--------------------------- MODULE MCTimeboundExpiry ---------------------------
(***************************************************************************)
(* A small instance of TimeboundExpiry for TLC.                            *)
(***************************************************************************)
EXTENDS TimeboundExpiry

CONSTANTS c1, c2, alice, work, t1, t2

MCContractIds == {c1, c2}
MCUsers == {alice}
MCDomains == {work}
MCContexts == {}
MCTools == {}
MCIntervals == {t1, t2}

\* Its retention passes with the first tick.
Timebound ==
    [contract_type |-> "episodic",
     scope |-> [domains |-> {work}, contexts |-> {}, tools |-> {},
                max_abstraction |-> "raw", transferable |-> FALSE],
     memory_permissions |-> [may_store |-> TRUE, classification_cap |-> 3,
                             retention |-> "timebound", retention_until |-> 0],
     generalization_rules |-> [allowed |-> FALSE],
     recall_rules |-> [requires_owner |-> TRUE, boundary_mode_min |-> "normal"],
     expiration |-> NoTime, revocable |-> TRUE]

\* Never due: a cycle must leave it alone although it carries a date.
Permanent == [Timebound EXCEPT !.memory_permissions.retention = "permanent"]

MCDrafts == {Timebound, Permanent}
MCChangeSets == {{}}
=============================================================================
