------------------------------ MODULE MCBoundary ------------------------------
(***************************************************************************)
(* A small instance of Boundary for TLC.                                   *)
(***************************************************************************)
EXTENDS Boundary

CONSTANTS c1, c2

MCContractIds == {c1, c2}
\* One contract that needs trusted, one that needs an air gap.
MCMinMode == [c \in MCContractIds |-> IF c = c1 THEN "trusted" ELSE "privileged"]
MCTargets == {"restricted", "trusted", "coldroom", "lockdown"}
=============================================================================
