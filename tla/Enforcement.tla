------------------------------ MODULE Enforcement ------------------------------
(***************************************************************************)
(* EnforcementEngine: the four hooks as pure decisions on a contract, a    *)
(* request and a time.  A request names what it leaves out with Unset.     *)
(* While the emergency override is active every hook denies; the reasons   *)
(* and the audit entries of a decision are left out.                       *)
(***************************************************************************)
EXTENDS Contracts

CONSTANT Unset   \* an option the caller did not give

ASSUME UnsetAssumption == Unset \notin Domains \cup Contexts \cup Tools \cup Users

\* EnforcementContext, with the classification and the target of the hooks that take
\* one.
Request ==
    [domain : Domains \cup {Unset}, context : Contexts \cup {Unset}, tool : Tools \cup {Unset},
     boundary_mode : BoundaryMode, requester : Users \cup {Unset},
     classification : Int, target : AbstractionLevel]

Level == [raw |-> 0, pattern |-> 1, heuristic |-> 2, strategy |-> 3]
Mode == [restricted |-> 0, normal |-> 1, trusted |-> 2, privileged |-> 3]

IsAbstractionAllowed(target, max) == Level[target] <= Level[max]
IsBoundaryModeSufficient(current, minimum) == Mode[current] >= Mode[minimum]

\* One dimension of the scope: not asked, not restricted, or listed.
Fits(asked, listed) == asked = Unset \/ listed = {} \/ asked \in listed

IsEmptyScope(scope) == scope.domains = {} /\ scope.contexts = {} /\ scope.tools = {}

CheckScope(c, r) ==
    /\ Fits(r.domain, c.scope.domains)
    /\ Fits(r.context, c.scope.contexts)
    /\ Fits(r.tool, c.scope.tools)
    /\ IsEmptyScope(c.scope) => r.domain = Unset /\ r.context = Unset /\ r.tool = Unset

\* Mutant of CheckMemoryCreation: the cap is off by one.
CheckAboveCap(c, r, t, override) ==
    /\ ~override
    /\ IsEnforceable(c, t)
    /\ c.contract_type # "prohibited"
    /\ c.memory_permissions.may_store
    /\ r.classification <= c.memory_permissions.classification_cap + 1
    /\ CheckScope(c, r)

CheckMemoryCreation(c, r, t, override) ==
    /\ ~override
    /\ IsEnforceable(c, t)
    /\ c.contract_type # "prohibited"
    /\ c.memory_permissions.may_store
    /\ r.classification <= c.memory_permissions.classification_cap
    /\ CheckScope(c, r)

CheckAbstraction(c, r, t, override) ==
    /\ ~override
    /\ IsEnforceable(c, t)
    /\ c.contract_type # "prohibited"
    /\ c.generalization_rules.allowed
    /\ IsAbstractionAllowed(r.target, c.scope.max_abstraction)
    /\ CheckScope(c, r)

\* The one hook that does not ask isEnforceable: only the states expired and revoked
\* are refused, whatever the expiration date says.
CheckRecall(c, r, override) ==
    /\ ~override
    /\ c.state \notin {"expired", "revoked"}
    /\ c.recall_rules.requires_owner => r.requester = c.created_by
    /\ IsBoundaryModeSufficient(r.boundary_mode, c.recall_rules.boundary_mode_min)
    /\ CheckScope(c, r)

CheckExport(c, t, override) ==
    /\ ~override
    /\ IsEnforceable(c, t)
    /\ c.scope.transferable
=============================================================================
