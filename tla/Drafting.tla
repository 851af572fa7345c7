------------------------------- MODULE Drafting -------------------------------
(***************************************************************************)
(* The contract drafts the program makes itself: the five of               *)
(* ContractFactory, and the one createContractFromPlainLanguage makes of   *)
(* the draft a conversation ended with.  No state.  An option the caller   *)
(* leaves out is Unset; generalization conditions are left out.            *)
(***************************************************************************)
EXTENDS Enforcement

CONSTANT DefaultRetention   \* the factory's thirty days

ASSUME DefaultRetentionAssumption == DefaultRetention \in Nat

Given(option, default) == IF option = Unset THEN default ELSE option

\* Partial<LearningScope>: each list may be left out; transferable is never taken over.
PartialScope ==
    [domains : (SUBSET Domains) \cup {Unset}, contexts : (SUBSET Contexts) \cup {Unset},
     tools : (SUBSET Tools) \cup {Unset}, max_abstraction : AbstractionLevel \cup {Unset}]

FactoryOptions ==
    [classificationCap : Int \cup {Unset}, retention : RetentionDuration \cup {Unset},
     retentionUntil : Time, requiresOwner : BOOLEAN \cup {Unset}]

ScopeOf(scope, level) ==
    [domains |-> Given(scope.domains, {}), contexts |-> Given(scope.contexts, {}),
     tools |-> Given(scope.tools, {}), max_abstraction |-> level, transferable |-> FALSE]

Terms(type, scope, memory_permissions, generalizes, requires_owner, mode, revocable) ==
    [contract_type |-> type, scope |-> scope, memory_permissions |-> memory_permissions,
     generalization_rules |-> [allowed |-> generalizes],
     recall_rules |-> [requires_owner |-> requires_owner, boundary_mode_min |-> mode],
     expiration |-> NoTime, revocable |-> revocable]

Keeps(store, cap, retention, until) ==
    [may_store |-> store, classification_cap |-> cap, retention |-> retention,
     retention_until |-> until]

ObservationDraft(scope) ==
    Terms("observation", ScopeOf(scope, "raw"), Keeps(FALSE, 0, "session", NoTime),
          FALSE, TRUE, "normal", TRUE)

\* Timebound unless said otherwise, and then for thirty days unless said otherwise.
EpisodicDraft(scope, options, t) ==
    LET retention == Given(options.retention, "timebound")
        until == IF retention = "timebound" /\ options.retentionUntil = NoTime
                 THEN t + DefaultRetention ELSE options.retentionUntil
    IN Terms("episodic", ScopeOf(scope, Given(scope.max_abstraction, "raw")),
             Keeps(TRUE, Given(options.classificationCap, 3), retention, until),
             FALSE, Given(options.requiresOwner, TRUE), "normal", TRUE)

\* No default end here: a timebound procedural draft is one the validator refuses.
ProceduralDraft(scope, options) ==
    Terms("procedural", ScopeOf(scope, Given(scope.max_abstraction, "heuristic")),
          Keeps(TRUE, Given(options.classificationCap, 3),
                Given(options.retention, "permanent"), NoTime),
          TRUE, TRUE, "normal", TRUE)

StrategicDraft(scope, options) ==
    Terms("strategic", ScopeOf(scope, Given(scope.max_abstraction, "strategy")),
          Keeps(TRUE, Given(options.classificationCap, 4), "permanent", NoTime),
          TRUE, TRUE, "trusted", TRUE)

ProhibitedDraft(scope) ==
    Terms("prohibited", ScopeOf(scope, "raw"), Keeps(FALSE, 0, "session", NoTime),
          FALSE, TRUE, "restricted", FALSE)

FactoryDrafts(scope, options, t) ==
    {ObservationDraft(scope), EpisodicDraft(scope, options, t), ProceduralDraft(scope, options),
     StrategicDraft(scope, options), ProhibitedDraft(scope)}
-----------------------------------------------------------------------------
\* ContractDraftFromLanguage, the summary left out.
LanguageDraft ==
    [createdBy : Users, contractType : ContractType, domains : SUBSET Domains,
     contexts : SUBSET Contexts, tools : SUBSET Tools, retention : RetentionDuration,
     retentionUntil : Time, classificationCap : Int, allowGeneralization : BOOLEAN,
     requiresOwner : BOOLEAN, boundaryModeMin : BoundaryMode]

MaxAbstraction(type, generalizes) ==
    IF ~generalizes THEN "raw"
    ELSE CASE type = "strategic" -> "strategy" [] type = "procedural" -> "heuristic"
           [] type = "episodic" -> "pattern" [] OTHER -> "raw"

\* createContractFromPlainLanguage: whether the contract may store and be revoked follows
\* from its type alone.
DraftOf(d) ==
    Terms(d.contractType,
          [domains |-> d.domains, contexts |-> d.contexts, tools |-> d.tools,
           max_abstraction |-> MaxAbstraction(d.contractType, d.allowGeneralization),
           transferable |-> FALSE],
          Keeps(d.contractType \notin {"observation", "prohibited"}, d.classificationCap,
                d.retention, d.retentionUntil),
          d.allowGeneralization, d.requiresOwner, d.boundaryModeMin,
          d.contractType # "prohibited")
=============================================================================
