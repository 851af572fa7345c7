----------------------------- MODULE MCForgetting -----------------------------
(***************************************************************************)
(* Forgetting over every list of four references that derive from one      *)
(* another in any way, where one belongs to the contract in question.      *)
(***************************************************************************)
EXTENDS Forgetting

CONSTANTS c1, c2, alice, bob

MCMemoryIds == 1..4
MCContractIds == {c1, c2}
MCUsers == {alice, bob}

MCContracts ==
    {[contract_id |-> c1, created_by |-> alice, state |-> s] : s \in {"active", "expired", "revoked"}}

MCMemoryLists ==
    {[i \in 1..4 |-> [memory_id |-> i, contract_id |-> IF i = direct THEN c1 ELSE c2,
                      derived_from |-> sources[i]]] :
        direct \in 1..4,
        sources \in {f \in [1..4 -> SUBSET (1..4)] : \A i \in 1..4 : i \notin f[i]}}

\* The owner with a good token, with one that is too old, and somebody else.
Confirms(user, age) ==
    [owner |-> user, confirmed_after |-> 0,
     token |-> [contract_id |-> c1, owner |-> user, age |-> age]]
MCConfirmations == {Confirms(alice, 5), Confirms(alice, 6), Confirms(bob, 5)}
=============================================================================
