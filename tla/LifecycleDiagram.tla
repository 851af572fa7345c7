--------------------------- MODULE LifecycleDiagram ---------------------------
(***************************************************************************)
(* The abstract specification: what the system promises of the state of    *)
(* its contracts,                                                          *)
(*                                                                         *)
(*     draft -> review -> active -> expired | revoked | amended            *)
(*                ^---------------------------------------'                *)
(*                                                                         *)
(* whatever manager drives them.  Expiry may take several contracts at     *)
(* once (a maintenance sweep, the end of a session); every other step      *)
(* moves one, and amending an active contract adds its replacement draft   *)
(* in the same step.                                                       *)
(***************************************************************************)
CONSTANT ContractIds

VARIABLE state

States == {"none", "draft", "review", "active", "expired", "revoked", "amended"}

Init == state = [c \in ContractIds |-> "none"]

Create(c) == state[c] = "none" /\ state' = [state EXCEPT ![c] = "draft"]

Submit(c) ==
    /\ state[c] \in {"draft", "amended"}
    /\ state' = [state EXCEPT ![c] = "review"]

Activate(c) == state[c] = "review" /\ state' = [state EXCEPT ![c] = "active"]

Revoke(c) == state[c] = "active" /\ state' = [state EXCEPT ![c] = "revoked"]

Amend(c, new) ==
    /\ state[c] = "active" /\ state[new] = "none"
    /\ state' = [state EXCEPT ![c] = "amended", ![new] = "draft"]

Expire(S) ==
    /\ \A c \in S : state[c] = "active"
    /\ state' = [c \in ContractIds |-> IF c \in S THEN "expired" ELSE state[c]]

Next ==
    \/ \E c \in ContractIds : Create(c) \/ Submit(c) \/ Activate(c) \/ Revoke(c)
    \/ \E c, new \in ContractIds : Amend(c, new)
    \/ \E S \in SUBSET ContractIds : Expire(S)

Spec == Init /\ [][Next]_state
=============================================================================
