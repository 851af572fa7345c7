------------------------------ MODULE Conversation ------------------------------
(***************************************************************************)
(* ConversationalContractBuilder and what becomes of its drafts: the       *)
(* conversations between start and clean-up, the contract the system makes *)
(* of a confirmed draft (or of one by the factory, or by hand), and the    *)
(* hooks that then decide by it.                                           *)
(*                                                                         *)
(* A text is what the parser and the handlers tell apart in it: an intent, *)
(* a choice, a list.  The steps CONTEXTS, TOOLS and RECALL of the source   *)
(* have handlers, but no assignment ever enters them: they are left out.   *)
(* The questions asked and the answers logged are never read; of the       *)
(* responses only the draft shown at the review is kept.                   *)
(***************************************************************************)
EXTENDS Drafting

CONSTANTS
    ConversationIds,   \* the uuids drawn for conversationId
    NoConversation,    \* an id that names no conversation
    TemplateDomain,    \* the subject the templates that name one name
    TemplateContext,   \* and the context
    Days,              \* the numbers of days a text may mention
    Texts,             \* what users write: the intents the parser finds in it
    Drafts,            \* drafts written by hand
    Scopes, Options,   \* what callers pass to the factory
    Requests,          \* what the contract is asked for
    MaxAge,            \* cleanupOldConversations: idle for longer
    MaxTime            \* bound on the clock

ASSUME ConversationAssumption ==
    /\ TemplateDomain \in Domains /\ TemplateContext \in Contexts
    /\ Days \subseteq Nat /\ MaxAge \in Nat /\ MaxTime \in Nat
    /\ Drafts \subseteq ContractDraft
    /\ Scopes \subseteq PartialScope /\ Options \subseteq FactoryOptions
    /\ Requests \subseteq Request

VARIABLES
    conversations,   \* the map of conversations
    contract,        \* the contract the host made last, or NoContract
    now

vars == <<conversations, contract, now>>

Step == {"initial", "contract_type", "domains", "retention", "generalization", "review",
         "complete"}

\* Partial<ParsedIntent>: Unset stands for null and for undefined.
Intent ==
    [contractType : ContractType \cup {Unset}, domains : SUBSET Domains,
     contexts : SUBSET Contexts, tools : SUBSET Tools,
     retention : RetentionDuration \cup {Unset}, retentionDays : Days \cup {Unset},
     allowGeneralization : BOOLEAN \cup {Unset}, classificationCap : Int \cup {Unset},
     requireRecallApproval : BOOLEAN \cup {Unset}]

NoIntent ==
    [contractType |-> Unset, domains |-> {}, contexts |-> {}, tools |-> {}, retention |-> Unset,
     retentionDays |-> Unset, allowGeneralization |-> Unset, classificationCap |-> Unset,
     requireRecallApproval |-> Unset]

\* ConversationState, with what the last review showed; a draft not built yet is Unset.
ConversationState ==
    [userId : Users, currentStep : Step, parsedIntent : Intent, isComplete : BOOLEAN,
     contractDraft : LanguageDraft \cup {Unset}, lastActivityAt : Nat,
     shown : LanguageDraft \cup {Unset}]

ConversationTypeOK ==
    /\ conversations \in [ConversationIds -> ConversationState \cup {NoConversation}]
    /\ contract \in LearningContract \cup {NoContract}
    /\ now \in Nat

Init ==
    /\ conversations = [id \in ConversationIds |-> NoConversation]
    /\ contract = NoContract
    /\ now = 0
-----------------------------------------------------------------------------
(***************************************************************************)
(* The parser: what extractIntent can make of a text.                      *)
(***************************************************************************)
\* detectGeneralization by the type: the kinds that may not generalize never do, the kinds
\* that may say either, and without a type it may stay open.
Generalizations(type) ==
    CASE type \in {"observation", "episodic", "prohibited"} -> {FALSE}
      [] type \in {"procedural", "strategic"} -> BOOLEAN
      [] type = Unset -> BOOLEAN \cup {Unset}

\* Whether a text speaks of sensitive or of public matters.
ClassificationCaps == {4, 2, Unset}

ParsedIntents ==
    {i \in Intent : /\ i.allowGeneralization \in Generalizations(i.contractType)
                    /\ i.classificationCap \in ClassificationCaps}

ASSUME TextsAssumption == Texts \subseteq ParsedIntents

\* The seven templates, as useTemplate turns them into an intent: no number of days, and
\* nothing of boundaryModeMin.
Template(type, domains, contexts, retention, cap, generalizes, owner) ==
    [contractType |-> type, domains |-> domains, contexts |-> contexts, tools |-> {},
     retention |-> retention, retentionDays |-> Unset, allowGeneralization |-> generalizes,
     classificationCap |-> cap, requireRecallApproval |-> owner]

Templates ==
    LET topic == {TemplateDomain}
        setting == {TemplateContext}
    IN {Template("procedural", topic, {}, "permanent", 3, TRUE, FALSE),         \* coding
        Template("episodic", topic, setting, "timebound", 2, FALSE, TRUE),      \* gaming
        Template("observation", topic, setting, "session", 0, FALSE, TRUE),     \* journal
        Template("procedural", topic, {}, "timebound", 4, TRUE, TRUE),          \* work
        Template("prohibited", {}, {}, "session", 0, FALSE, TRUE),              \* prohibited
        Template("episodic", topic, {}, "permanent", 2, FALSE, FALSE),          \* study
        Template("strategic", {}, {}, "permanent", 4, TRUE, TRUE)}              \* strategic
-----------------------------------------------------------------------------
(***************************************************************************)
(* The builder.                                                            *)
(***************************************************************************)
Defaults(retention, cap, generalizes, owner, mode) ==
    [retention |-> retention, classificationCap |-> cap, allowGeneralization |-> generalizes,
     requiresOwner |-> owner, boundaryModeMin |-> mode]

\* Mutant of TypeDefaults: strategies are recalled in any mode.
UntrustedDefaults ==
    [observation |-> Defaults("session", 0, FALSE, TRUE, "normal"),
     episodic    |-> Defaults("timebound", 3, FALSE, FALSE, "normal"),
     procedural  |-> Defaults("permanent", 3, TRUE, FALSE, "normal"),
     strategic   |-> Defaults("permanent", 4, TRUE, TRUE, "normal"),
     prohibited  |-> Defaults("session", 0, FALSE, TRUE, "restricted")]

TypeDefaults ==
    [observation |-> Defaults("session", 0, FALSE, TRUE, "normal"),
     episodic    |-> Defaults("timebound", 3, FALSE, FALSE, "normal"),
     procedural  |-> Defaults("permanent", 3, TRUE, FALSE, "normal"),
     strategic   |-> Defaults("permanent", 4, TRUE, TRUE, "trusted"),
     prohibited  |-> Defaults("session", 0, FALSE, TRUE, "restricted")]

\* buildContractDraft.  A cap of 0 and 0 days are falsy: they count as not given.
BuildDraft(user, i, t) ==
    LET type == Given(i.contractType, "episodic")
        defaults == TypeDefaults[type]
    IN [createdBy |-> user, contractType |-> type,
        domains |-> i.domains, contexts |-> i.contexts, tools |-> i.tools,
        retention |-> Given(i.retention, defaults.retention),
        retentionUntil |->
           IF i.retention = "timebound" /\ i.retentionDays \notin {Unset, 0}
           THEN t + i.retentionDays ELSE NoTime,
        classificationCap |->
           IF i.classificationCap \in {Unset, 0} THEN defaults.classificationCap
                                                  ELSE i.classificationCap,
        allowGeneralization |-> Given(i.allowGeneralization, defaults.allowGeneralization),
        requiresOwner |-> Given(i.requireRecallApproval, defaults.requiresOwner),
        boundaryModeMin |-> defaults.boundaryModeMin]

\* Mutant of NextStep: the subject is asked for last, when the rest is known, and so never
\* of whoever has said all the rest.
NextStepAnyDomain(i) ==
    IF i.contractType = Unset THEN "contract_type"
    ELSE IF i.retention = Unset /\ i.contractType # "observation" THEN "retention"
    ELSE IF /\ i.allowGeneralization = Unset
            /\ i.contractType \notin {"observation", "prohibited", "episodic"}
         THEN "generalization"
    ELSE "review"

\* advanceConversation: the first thing still missing, else the review.
NextStep(i) ==
    IF i.contractType = Unset THEN "contract_type"
    ELSE IF i.domains = {} THEN "domains"
    ELSE IF i.retention = Unset /\ i.contractType # "observation" THEN "retention"
    ELSE IF /\ i.allowGeneralization = Unset
            /\ i.contractType \notin {"observation", "prohibited", "episodic"}
         THEN "generalization"
    ELSE "review"

InStep(id, step) == conversations[id] # NoConversation /\ conversations[id].currentStep = step

\* The conversation becomes c; whatever is said in one makes it active now.
Becomes(id, c) ==
    /\ contract = NoContract
    /\ conversations' = [conversations EXCEPT ![id] = [c EXCEPT !.lastActivityAt = now]]
    /\ UNCHANGED <<contract, now>>

\* The conversation with intent i goes on; goToReview shows the draft it would build.
Advanced(c, i) ==
    LET step == NextStep(i) IN
    [c EXCEPT !.parsedIntent = i, !.currentStep = step,
              !.shown = IF step = "review" THEN BuildDraft(c.userId, i, now) ELSE c.shown]

StartConversation(id, user) ==
    /\ contract = NoContract /\ conversations[id] = NoConversation
    /\ conversations' = [conversations EXCEPT ![id] =
          [userId |-> user, currentStep |-> "initial", parsedIntent |-> NoIntent,
           isComplete |-> FALSE, contractDraft |-> Unset, lastActivityAt |-> now,
           shown |-> Unset]]
    /\ UNCHANGED <<contract, now>>

\* Mutant of UseTemplate: the conversation stays at its step.
UseTemplateInPlace(id) ==
    /\ conversations[id] # NoConversation
    /\ \E i \in Templates : Becomes(id, [conversations[id] EXCEPT !.parsedIntent = i])

\* useTemplate: every template has questions, so the conversation goes to the domains,
\* from whatever step.
UseTemplate(id) ==
    /\ conversations[id] # NoConversation
    /\ \E i \in Templates :
          Becomes(id, [conversations[id] EXCEPT !.parsedIntent = i, !.currentStep = "domains",
                                                !.shown = Unset])

\* A text the parser finds too short changes nothing; one that suggests a template keeps
\* the intent and the step, so that the answer to the suggestion is parsed in its turn.
HandleInitialInput(id) ==
    /\ InStep(id, "initial")
    /\ LET c == conversations[id] IN
       \/ Becomes(id, c)
       \/ \E i \in Texts :
             \/ Becomes(id, [c EXCEPT !.parsedIntent = i])
             \/ Becomes(id, Advanced(c, i))

\* Another answer than a type asks again.
HandleContractTypeInput(id) ==
    /\ InStep(id, "contract_type")
    /\ LET c == conversations[id] IN
       \/ Becomes(id, Advanced(c, c.parsedIntent))
       \/ \E type \in ContractType :
             Becomes(id, Advanced(c, [c.parsedIntent EXCEPT !.contractType = type]))

\* A list of names, possibly empty; what is neither text nor list is ignored.
HandleDomainsInput(id) ==
    /\ InStep(id, "domains")
    /\ LET c == conversations[id] IN
       \E domains \in SUBSET Domains :
          Becomes(id, Advanced(c, [c.parsedIntent EXCEPT !.domains = domains]))

\* A limited time without a number of days is kept, and asked again; the number that may
\* come as the answer is no retention and is dropped.
HandleRetentionInput(id) ==
    /\ InStep(id, "retention")
    /\ LET c == conversations[id]
           With(retention) == [c.parsedIntent EXCEPT !.retention = retention]
       IN \/ Becomes(id, Advanced(c, c.parsedIntent))
          \/ \E retention \in RetentionDuration :
                IF retention = "timebound" /\ c.parsedIntent.retentionDays \in {Unset, 0}
                THEN Becomes(id, [c EXCEPT !.parsedIntent = With(retention)])
                ELSE Becomes(id, Advanced(c, With(retention)))

HandleGeneralizationInput(id) ==
    /\ InStep(id, "generalization")
    /\ LET c == conversations[id] IN
       \E generalizes \in BOOLEAN :
          Becomes(id, Advanced(c, [c.parsedIntent EXCEPT !.allowGeneralization = generalizes]))

\* yes: the draft is built anew, at the time of the answer; no: back to the domains; anything
\* else asks again.
HandleReviewInput(id) ==
    /\ InStep(id, "review")
    /\ LET c == conversations[id] IN
       \/ Becomes(id, [c EXCEPT !.contractDraft = BuildDraft(c.userId, c.parsedIntent, now),
                                !.isComplete = TRUE, !.currentStep = "complete"])
       \/ Becomes(id, [c EXCEPT !.currentStep = "domains", !.shown = Unset])
       \/ Becomes(id, c)

\* A complete conversation answers with an error, but is active again.
InvalidInput(id) == InStep(id, "complete") /\ Becomes(id, conversations[id])

CancelConversation(id) ==
    /\ conversations[id] # NoConversation
    /\ conversations' = [conversations EXCEPT ![id] = NoConversation]
    /\ UNCHANGED <<contract, now>>

Old(id) ==
    conversations[id] # NoConversation /\ now - conversations[id].lastActivityAt > MaxAge

CleanupOldConversations ==
    /\ conversations' = [id \in ConversationIds |->
          IF Old(id) THEN NoConversation ELSE conversations[id]]
    /\ UNCHANGED <<contract, now>>
-----------------------------------------------------------------------------
(***************************************************************************)
(* The system makes a contract of a draft, and moves it on.  The host      *)
(* makes one at a time, and no conversation goes on meanwhile.             *)
(***************************************************************************)
Create(d, user) ==
    LET made == NewContract(d, user, now, NoContract) IN
    /\ contract = NoContract /\ Validate(made)
    /\ contract' = made

\* The conversation's end: README.md hands over the draft of the response that is complete.
CreateContractFromPlainLanguage(id) ==
    /\ InStep(id, "complete")
    /\ Create(DraftOf(conversations[id].contractDraft), conversations[id].userId)
    /\ UNCHANGED <<conversations, now>>

Idle == \A id \in ConversationIds : conversations[id] = NoConversation

CreateFromFactory(user) ==
    /\ Idle
    /\ \E scope \in Scopes, options \in Options :
          \E d \in FactoryDrafts(scope, options, now) : Create(d, user)
    /\ UNCHANGED <<conversations, now>>

CreateByHand(user) ==
    /\ Idle
    /\ \E d \in Drafts : Create(d, user)
    /\ UNCHANGED <<conversations, now>>

\* Lifecycle says how; here only that the state moves on.
MoveOn ==
    /\ contract # NoContract
    /\ \E state \in ValidTransitions[contract.state] :
          contract' = [contract EXCEPT !.state = state]
    /\ UNCHANGED <<conversations, now>>

\* The host turns to the next contract.
NextContract ==
    /\ contract # NoContract
    /\ contract' = NoContract
    /\ UNCHANGED <<conversations, now>>

Tick == now < MaxTime /\ now' = now + 1 /\ UNCHANGED <<conversations, contract>>

HandleInput(id) ==
    \/ HandleInitialInput(id) \/ HandleContractTypeInput(id) \/ HandleDomainsInput(id)
    \/ HandleRetentionInput(id) \/ HandleGeneralizationInput(id) \/ HandleReviewInput(id)
    \/ InvalidInput(id)

Next ==
    \/ \E id \in ConversationIds :
          \/ \E user \in Users : StartConversation(id, user)
          \/ UseTemplate(id) \/ HandleInput(id) \/ CancelConversation(id)
          \/ CreateContractFromPlainLanguage(id)
    \/ CleanupOldConversations
    \/ \E user \in Users : CreateFromFactory(user) \/ CreateByHand(user)
    \/ MoveOn \/ NextContract \/ Tick

Spec == Init /\ [][Next]_vars
-----------------------------------------------------------------------------
Confirmed(id) == InStep(id, "complete")

Made(id) ==
    NewContract(DraftOf(conversations[id].contractDraft), conversations[id].userId, now,
                NoContract)

\* What a conversation ends with is what the review showed: the same terms in everything,
\* with an end that is no earlier.
ConfirmedAsShown ==
    \A id \in ConversationIds : Confirmed(id) =>
       LET confirmed == conversations[id].contractDraft
           shown == conversations[id].shown
       IN /\ confirmed = [shown EXCEPT !.retentionUntil = confirmed.retentionUntil]
          /\ IF shown.retentionUntil = NoTime THEN confirmed.retentionUntil = NoTime
             ELSE confirmed.retentionUntil >= shown.retentionUntil

\* Nothing is shown for confirmation, or confirmed, that names no domain: with no domain
\* listed the hooks would let the contract's permissions apply to all of them.
ReviewNamesDomains ==
    \A id \in ConversationIds :
       LET c == conversations[id] IN
       c # NoConversation =>
          /\ c.shown # Unset => c.shown.domains # {}
          /\ c.contractDraft # Unset => c.contractDraft.domains # {}

\* The system accepts what a user confirmed, but for two kinds of drafts: a limited time
\* nobody gave a number of days for, and a kind that may not generalize chosen after a
\* text that asked to.
ConfirmedIsAccepted ==
    \A id \in ConversationIds : Confirmed(id) =>
       LET confirmed == conversations[id].contractDraft IN
       \/ Validate(Made(id))
       \/ confirmed.retention = "timebound" /\ confirmed.retentionUntil = NoTime
       \/ /\ confirmed.allowGeneralization
          /\ confirmed.contractType \in {"observation", "episodic", "prohibited"}

MayStore(r) == CheckMemoryCreation(contract, r, now, FALSE)
MayAbstract(r) == CheckAbstraction(contract, r, now, FALSE)
MayRecall(r) == CheckRecall(contract, r, FALSE)

\* The types mean at the hooks what section 4 of docs/internal/specs.md says, because
\* the validator let only fitting contracts through, whoever drafted them: observing and
\* prohibiting stores nothing, nothing generalizes but procedures and strategies, a
\* strategy is recalled only in a trusted mode, and no classification above 5 is stored.
TypesBindHooks ==
    contract # NoContract => \A r \in Requests :
       /\ MayStore(r) => /\ contract.contract_type \in {"episodic", "procedural", "strategic"}
                         /\ r.classification <= 5
       /\ MayAbstract(r) => contract.contract_type \in {"procedural", "strategic"}
       /\ MayRecall(r) /\ contract.contract_type = "strategic" =>
             r.boundary_mode \in {"trusted", "privileged"}
-----------------------------------------------------------------------------
(***************************************************************************)
(* What the documents say, and the code does not keep.                     *)
(***************************************************************************)

\* builder.ts, at the confirmation: "Contract draft created and ready for activation!"
ConfirmedIsReady == \A id \in ConversationIds : Confirmed(id) => Validate(Made(id))

\* types.ts: the draft of a conversation is the built one, "when complete".  A template
\* used after the end starts anew under the old draft and the old flag.
CompleteIsCurrent ==
    \A id \in ConversationIds :
       conversations[id] # NoConversation /\ conversations[id].isComplete => Confirmed(id)

\* docs/internal/specs.md section 4.3: a procedural contract abstracts to the heuristic
\* level at most.
ProceduralAtMostHeuristic ==
    contract # NoContract /\ contract.contract_type = "procedural" =>
       \A r \in Requests : MayAbstract(r) => Level[r.target] <= 2

\* The validator's warning of a contract without any scope: it "will deny all
\* operations".
EmptyScopeDeniesAll ==
    contract # NoContract /\ IsEmptyScope(contract.scope) =>
       \A r \in Requests : ~MayStore(r) /\ ~MayAbstract(r) /\ ~MayRecall(r)
=============================================================================
