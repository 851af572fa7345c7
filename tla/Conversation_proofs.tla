--------------------------- MODULE Conversation_proofs ---------------------------
(***************************************************************************)
(* Proofs about Conversation.  First the drafts: what the builder and the  *)
(* factory build is of its type.  Then the conversations, whose invariant  *)
(* says which intent the draft on show was built from.  Last the contracts *)
(* made of the drafts: what the validator let through is still valid when  *)
(* the hooks decide by it.                                                 *)
(***************************************************************************)
EXTENDS Conversation, TLAPS

LEMMA DefaultsAreTyped ==
    ASSUME NEW type \in ContractType
    PROVE  /\ TypeDefaults[type].retention \in RetentionDuration
           /\ TypeDefaults[type].classificationCap \in 0..5
           /\ TypeDefaults[type].allowGeneralization \in BOOLEAN
           /\ TypeDefaults[type].requiresOwner \in BOOLEAN
           /\ TypeDefaults[type].boundaryModeMin \in BoundaryMode
           /\ type = "strategic" => TypeDefaults[type].boundaryModeMin = "trusted"
<1>1. TypeDefaults[type] \in
        [retention : RetentionDuration, classificationCap : 0..5, allowGeneralization : BOOLEAN,
         requiresOwner : BOOLEAN, boundaryModeMin : BoundaryMode]
  <2> USE DEF TypeDefaults, Defaults, RetentionDuration, BoundaryMode
  <2>1. CASE type = "observation" BY <2>1
  <2>2. CASE type = "episodic" BY <2>2
  <2>3. CASE type = "procedural" BY <2>3
  <2>4. CASE type = "strategic" BY <2>4
  <2>5. CASE type = "prohibited" BY <2>5
  <2> QED BY <2>1, <2>2, <2>3, <2>4, <2>5 DEF ContractType
<1>2. type = "strategic" => TypeDefaults[type].boundaryModeMin = "trusted"
  BY DEF TypeDefaults, Defaults
<1> QED BY <1>1, <1>2

LEMMA BuildDraftType ==
    ASSUME NEW user \in Users, NEW i \in Intent, NEW t \in Nat
    PROVE  BuildDraft(user, i, t) \in LanguageDraft
<1> DEFINE d == BuildDraft(user, i, t)
           type == Given(i.contractType, "episodic")
<1>1. type \in ContractType
  BY DEF Intent, ContractType, Given
<1>2. /\ TypeDefaults[type].retention \in RetentionDuration
      /\ TypeDefaults[type].classificationCap \in 0..5
      /\ TypeDefaults[type].allowGeneralization \in BOOLEAN
      /\ TypeDefaults[type].requiresOwner \in BOOLEAN
      /\ TypeDefaults[type].boundaryModeMin \in BoundaryMode
  BY <1>1, DefaultsAreTyped
<1> HIDE DEF type
<1>3. d.retention \in RetentionDuration
  BY <1>2 DEF Intent, BuildDraft, Given, type
<1>4. d.allowGeneralization \in BOOLEAN
  BY <1>2 DEF Intent, BuildDraft, Given, type
<1>5. d.requiresOwner \in BOOLEAN
  BY <1>2 DEF Intent, BuildDraft, Given, type
<1>6. d.retentionUntil \in Time
  <2>1. CASE i.retentionDays = Unset BY <2>1 DEF BuildDraft, Time
  <2>2. CASE i.retentionDays \in Nat BY <2>2 DEF BuildDraft, Time
  <2> QED BY <2>1, <2>2, ConversationAssumption DEF Intent
<1>7. d.classificationCap \in Int
  BY <1>2 DEF Intent, BuildDraft, type
<1>8. d.createdBy \in Users /\ d.boundaryModeMin \in BoundaryMode /\ d.contractType \in ContractType
  BY <1>1, <1>2 DEF BuildDraft, type
<1>9. d.domains \in SUBSET Domains /\ d.contexts \in SUBSET Contexts /\ d.tools \in SUBSET Tools
  BY DEF Intent, BuildDraft
<1> QED BY <1>3, <1>4, <1>5, <1>6, <1>7, <1>8, <1>9 DEF BuildDraft, LanguageDraft
-----------------------------------------------------------------------------
(***************************************************************************)
(* The conversations.                                                      *)
(***************************************************************************)

\* Which intent a draft was built from, and when: at the review what is shown is the draft
\* of the intent, at the end what is confirmed is that draft built anew.
Sound(c, t) ==
    /\ c.parsedIntent.classificationCap \in (0..5) \cup {Unset}
    /\ c.currentStep = "review" =>
          \E at \in 0..t : c.shown = BuildDraft(c.userId, c.parsedIntent, at)
    /\ c.currentStep = "complete" =>
          \E at, end \in 0..t :
             /\ at <= end
             /\ c.shown = BuildDraft(c.userId, c.parsedIntent, at)
             /\ c.contractDraft = BuildDraft(c.userId, c.parsedIntent, end)
    /\ c.shown # Unset => c.shown.domains # {}
    /\ c.contractDraft # Unset => c.contractDraft.domains # {}
    /\ c.currentStep = "review" => c.parsedIntent.domains # {}

ConversationsSound ==
    \A id \in ConversationIds :
       conversations[id] # NoConversation => Sound(conversations[id], now)

\* The part of the type invariant about conversations.
ConversationsTyped ==
    /\ conversations \in [ConversationIds -> ConversationState \cup {NoConversation}]
    /\ now \in Nat

LEMMA TextsAreTyped ==
    \A i \in Texts \cup Templates :
       i \in Intent /\ i.classificationCap \in (0..5) \cup {Unset}
<1>1. \A i \in Texts : i \in Intent /\ i.classificationCap \in (0..5) \cup {Unset}
  BY TextsAssumption DEF ParsedIntents, ClassificationCaps
<1>2. ASSUME NEW type \in ContractType, NEW domains \in SUBSET Domains,
             NEW contexts \in SUBSET Contexts, NEW retention \in RetentionDuration,
             NEW cap \in 0..5, NEW generalizes \in BOOLEAN, NEW owner \in BOOLEAN
      PROVE  LET i == Template(type, domains, contexts, retention, cap, generalizes, owner)
             IN  i \in Intent /\ i.classificationCap \in (0..5) \cup {Unset}
  BY DEF Template, Intent
<1>3. \A i \in Templates : i \in Intent /\ i.classificationCap \in (0..5) \cup {Unset}
  <2> DEFINE topic == {TemplateDomain}
             setting == {TemplateContext}
  <2>1. /\ topic \in SUBSET Domains /\ setting \in SUBSET Contexts
        /\ {} \in SUBSET Domains /\ {} \in SUBSET Contexts
    BY ConversationAssumption
  <2>2. ContractType = {"observation", "episodic", "procedural", "strategic", "prohibited"}
    BY DEF ContractType
  <2>3. RetentionDuration = {"session", "timebound", "permanent"}
    BY DEF RetentionDuration
  <2>4. 0 \in 0..5 /\ 2 \in 0..5 /\ 3 \in 0..5 /\ 4 \in 0..5
    OBVIOUS
  <2> TAKE i \in Templates
  <2>5. \/ i = Template("procedural", topic, {}, "permanent", 3, TRUE, FALSE)
        \/ i = Template("episodic", topic, setting, "timebound", 2, FALSE, TRUE)
        \/ i = Template("observation", topic, setting, "session", 0, FALSE, TRUE)
        \/ i = Template("procedural", topic, {}, "timebound", 4, TRUE, TRUE)
        \/ i = Template("prohibited", {}, {}, "session", 0, FALSE, TRUE)
        \/ i = Template("episodic", topic, {}, "permanent", 2, FALSE, FALSE)
        \/ i = Template("strategic", {}, {}, "permanent", 4, TRUE, TRUE)
    BY DEF Templates
  <2> HIDE DEF topic, setting
  <2>6. CASE i = Template("procedural", topic, {}, "permanent", 3, TRUE, FALSE)
    BY <1>2, <2>1, <2>2, <2>3, <2>4, <2>6
  <2>7. CASE i = Template("episodic", topic, setting, "timebound", 2, FALSE, TRUE)
    BY <1>2, <2>1, <2>2, <2>3, <2>4, <2>7
  <2>8. CASE i = Template("observation", topic, setting, "session", 0, FALSE, TRUE)
    BY <1>2, <2>1, <2>2, <2>3, <2>4, <2>8
  <2>9. CASE i = Template("procedural", topic, {}, "timebound", 4, TRUE, TRUE)
    BY <1>2, <2>1, <2>2, <2>3, <2>4, <2>9
  <2>10. CASE i = Template("prohibited", {}, {}, "session", 0, FALSE, TRUE)
    BY <1>2, <2>1, <2>2, <2>3, <2>4, <2>10
  <2>11. CASE i = Template("episodic", topic, {}, "permanent", 2, FALSE, FALSE)
    BY <1>2, <2>1, <2>2, <2>3, <2>4, <2>11
  <2>12. CASE i = Template("strategic", {}, {}, "permanent", 4, TRUE, TRUE)
    BY <1>2, <2>1, <2>2, <2>3, <2>4, <2>12
  <2> QED BY <2>5, <2>6, <2>7, <2>8, <2>9, <2>10, <2>11, <2>12
<1> QED BY <1>1, <1>3

\* What advanceConversation makes of a sound conversation and another intent.
LEMMA AdvancedIsSound ==
    ASSUME NEW c \in ConversationState, NEW t \in Nat, Sound(c, t), t = now,
           NEW i \in Intent, i.classificationCap \in (0..5) \cup {Unset}
    PROVE  Advanced(c, i) \in ConversationState /\ Sound(Advanced(c, i), t)
<1> DEFINE d == BuildDraft(c.userId, i, now)
           a == Advanced(c, i)
<1>1. c.userId \in Users BY DEF ConversationState
<1>2. d \in LanguageDraft BY <1>1, BuildDraftType
<1>3. d.domains = i.domains BY DEF BuildDraft
<1>4. NextStep(i) \in Step /\ NextStep(i) # "complete" /\ (NextStep(i) = "review" => i.domains # {})
  BY DEF NextStep, Step
<1>5. /\ a.parsedIntent = i /\ a.currentStep = NextStep(i) /\ a.userId = c.userId
      /\ a.contractDraft = c.contractDraft
      /\ a.shown = IF NextStep(i) = "review" THEN d ELSE c.shown
  BY DEF Advanced, ConversationState
<1>6. a \in ConversationState
  BY <1>2, <1>4 DEF Advanced, ConversationState
<1> HIDE DEF d, a
<1>7. a.currentStep = "review" =>
         \E at \in 0..t : a.shown = BuildDraft(a.userId, a.parsedIntent, at)
  <2>1. d = BuildDraft(a.userId, a.parsedIntent, t) BY <1>5 DEF d
  <2> QED BY <1>5, <2>1
<1>8. a.shown # Unset => a.shown.domains # {}
  BY <1>3, <1>4, <1>5 DEF Sound
<1> QED BY <1>4, <1>5, <1>6, <1>7, <1>8 DEF Sound, a

\* A step that leaves one conversation in a sound state, with whatever activity.
LEMMA BecomesKeeps ==
    ASSUME ConversationsTyped, ConversationsSound, NEW id \in ConversationIds,
           NEW c \in ConversationState, Sound(c, now), Becomes(id, c)
    PROVE  ConversationsTyped' /\ ConversationsSound'
<1> DEFINE b == [c EXCEPT !.lastActivityAt = now]
<1>1. b \in ConversationState BY DEF ConversationsTyped, ConversationState
<1>2. Sound(b, now)
  <2>1. /\ b.parsedIntent = c.parsedIntent /\ b.currentStep = c.currentStep
        /\ b.userId = c.userId /\ b.shown = c.shown /\ b.contractDraft = c.contractDraft
    BY DEF ConversationState
  <2> HIDE DEF b
  <2> QED BY <2>1 DEF Sound
<1>3. conversations' = [conversations EXCEPT ![id] = b] /\ now' = now
  BY DEF Becomes
<1> HIDE DEF b
<1>4. ConversationsTyped' BY <1>1, <1>3 DEF ConversationsTyped
<1>5. ConversationsSound'
  BY <1>2, <1>3 DEF ConversationsSound, ConversationsTyped
<1> QED BY <1>4, <1>5

\* One answer in one conversation.
LEMMA HandleInputKeeps ==
    ASSUME ConversationsTyped, ConversationsSound, NEW id \in ConversationIds, HandleInput(id)
    PROVE  ConversationsTyped' /\ ConversationsSound'
<1> DEFINE c == conversations[id]
<1>1. c # NoConversation /\ c \in ConversationState /\ Sound(c, now) /\ now \in Nat
  BY DEF HandleInput, HandleInitialInput, HandleContractTypeInput, HandleDomainsInput,
         HandleRetentionInput, HandleGeneralizationInput, HandleReviewInput, InvalidInput,
         InStep, ConversationsTyped, ConversationsSound
<1>2. c.parsedIntent \in Intent /\ c.parsedIntent.classificationCap \in (0..5) \cup {Unset}
  BY <1>1 DEF ConversationState, Sound
<1>3. ASSUME NEW i \in Intent, i.classificationCap \in (0..5) \cup {Unset},
             Becomes(id, Advanced(c, i))
      PROVE  ConversationsTyped' /\ ConversationsSound'
  <2>1. Advanced(c, i) \in ConversationState /\ Sound(Advanced(c, i), now)
    BY <1>1, <1>3, AdvancedIsSound
  <2> QED BY <1>3, <2>1, BecomesKeeps
\* The same intent, in a conversation that is neither at the review nor at its end.
<1>4. ASSUME NEW i \in Intent, i.classificationCap \in (0..5) \cup {Unset},
             c.currentStep \notin {"review", "complete"},
             Becomes(id, [c EXCEPT !.parsedIntent = i])
      PROVE  ConversationsTyped' /\ ConversationsSound'
  <2> DEFINE b == [c EXCEPT !.parsedIntent = i]
  <2>1. b \in ConversationState BY <1>1, <1>4 DEF ConversationState
  <2>2. /\ b.parsedIntent = i /\ b.currentStep = c.currentStep /\ b.shown = c.shown
        /\ b.contractDraft = c.contractDraft
    BY <1>1 DEF ConversationState
  <2> HIDE DEF b
  <2>3. Sound(b, now) BY <1>1, <1>4, <2>2 DEF Sound
  <2> QED BY <1>4, <2>1, <2>3, BecomesKeeps DEF b
<1>5. CASE Becomes(id, c) BY <1>1, <1>5, BecomesKeeps
<1>6. CASE HandleInitialInput(id)
  <2>1. c.currentStep = "initial" BY <1>6 DEF HandleInitialInput, InStep
  <2>2. CASE \E i \in Texts : Becomes(id, [c EXCEPT !.parsedIntent = i])
    BY <1>4, <2>1, <2>2, TextsAreTyped
  <2>3. CASE \E i \in Texts : Becomes(id, Advanced(c, i))
    BY <1>3, <2>3, TextsAreTyped
  <2> QED BY <1>5, <1>6, <2>2, <2>3 DEF HandleInitialInput
<1>7. CASE HandleContractTypeInput(id)
  <2>1. CASE Becomes(id, Advanced(c, c.parsedIntent)) BY <1>2, <1>3, <2>1
  <2>2. ASSUME NEW type \in ContractType,
               Becomes(id, Advanced(c, [c.parsedIntent EXCEPT !.contractType = type]))
        PROVE  ConversationsTyped' /\ ConversationsSound'
    <3>1. /\ [c.parsedIntent EXCEPT !.contractType = type] \in Intent
          /\ [c.parsedIntent EXCEPT !.contractType = type].classificationCap
                = c.parsedIntent.classificationCap
      BY <1>2 DEF Intent
    <3> QED BY <1>2, <1>3, <2>2, <3>1
  <2> QED BY <1>7, <2>1, <2>2 DEF HandleContractTypeInput
<1>8. CASE HandleDomainsInput(id)
  <2>1. PICK domains \in SUBSET Domains :
           Becomes(id, Advanced(c, [c.parsedIntent EXCEPT !.domains = domains]))
    BY <1>8 DEF HandleDomainsInput
  <2>2. /\ [c.parsedIntent EXCEPT !.domains = domains] \in Intent
        /\ [c.parsedIntent EXCEPT !.domains = domains].classificationCap
              = c.parsedIntent.classificationCap
    BY <1>2 DEF Intent
  <2> QED BY <1>2, <1>3, <2>1, <2>2
<1>9. CASE HandleRetentionInput(id)
  <2>1. c.currentStep = "retention" BY <1>9 DEF HandleRetentionInput, InStep
  <2>2. CASE Becomes(id, Advanced(c, c.parsedIntent)) BY <1>2, <1>3, <2>2
  <2>3. ASSUME NEW retention \in RetentionDuration,
               LET i == [c.parsedIntent EXCEPT !.retention = retention] IN
               \/ Becomes(id, [c EXCEPT !.parsedIntent = i])
               \/ Becomes(id, Advanced(c, i))
        PROVE  ConversationsTyped' /\ ConversationsSound'
    <3>1. /\ [c.parsedIntent EXCEPT !.retention = retention] \in Intent
          /\ [c.parsedIntent EXCEPT !.retention = retention].classificationCap
                = c.parsedIntent.classificationCap
      BY <1>2 DEF Intent
    <3> QED BY <1>2, <1>3, <1>4, <2>1, <2>3, <3>1
  <2> QED BY <1>9, <2>2, <2>3 DEF HandleRetentionInput
<1>10. CASE HandleGeneralizationInput(id)
  <2>1. PICK generalizes \in BOOLEAN :
           Becomes(id, Advanced(c, [c.parsedIntent EXCEPT !.allowGeneralization = generalizes]))
    BY <1>10 DEF HandleGeneralizationInput
  <2>2. /\ [c.parsedIntent EXCEPT !.allowGeneralization = generalizes] \in Intent
        /\ [c.parsedIntent EXCEPT !.allowGeneralization = generalizes].classificationCap
              = c.parsedIntent.classificationCap
    BY <1>2 DEF Intent
  <2> QED BY <1>2, <1>3, <2>1, <2>2
<1>11. CASE HandleReviewInput(id)
  <2> DEFINE d == BuildDraft(c.userId, c.parsedIntent, now)
             yes == [c EXCEPT !.contractDraft = d, !.isComplete = TRUE,
                              !.currentStep = "complete"]
             no == [c EXCEPT !.currentStep = "domains", !.shown = Unset]
  <2>1. c.currentStep = "review" BY <1>11 DEF HandleReviewInput, InStep
  <2>2. CASE Becomes(id, yes)
    <3>1. d \in LanguageDraft /\ d.domains = c.parsedIntent.domains
      <4>1. c.userId \in Users BY <1>1 DEF ConversationState
      <4>2. d \in LanguageDraft BY <1>1, <1>2, <4>1, BuildDraftType
      <4>3. d.domains = c.parsedIntent.domains BY DEF BuildDraft
      <4> QED BY <4>2, <4>3
    <3>2. PICK at \in 0..now : c.shown = BuildDraft(c.userId, c.parsedIntent, at)
      BY <1>1, <2>1 DEF Sound
    <3>3. /\ yes.parsedIntent = c.parsedIntent /\ yes.currentStep = "complete"
          /\ yes.userId = c.userId /\ yes.shown = c.shown /\ yes.contractDraft = d
      BY <1>1 DEF ConversationState
    <3>4. yes \in ConversationState
      BY <1>1, <3>1 DEF ConversationState, Step
    <3> HIDE DEF yes
    <3>5. yes.contractDraft = BuildDraft(yes.userId, yes.parsedIntent, now)
      BY <3>3
    <3>6. c.parsedIntent.domains # {}
      BY <1>1, <2>1 DEF Sound
    <3> HIDE DEF d
    <3>7. \E end \in 0..now :
             /\ at <= end
             /\ yes.contractDraft = BuildDraft(yes.userId, yes.parsedIntent, end)
      BY <1>1, <3>5
    <3>8. yes.shown = BuildDraft(yes.userId, yes.parsedIntent, at)
      BY <3>2, <3>3
    <3>9. Sound(yes, now)
      BY <1>1, <3>1, <3>3, <3>6, <3>7, <3>8 DEF Sound
    <3> QED BY <2>2, <3>4, <3>9, BecomesKeeps
  <2>3. CASE Becomes(id, no)
    <3>1. /\ no.parsedIntent = c.parsedIntent /\ no.currentStep = "domains"
          /\ no.shown = Unset /\ no.contractDraft = c.contractDraft
      BY <1>1 DEF ConversationState
    <3>2. no \in ConversationState BY <1>1 DEF ConversationState, Step
    <3> HIDE DEF no
    <3>3. Sound(no, now) BY <1>1, <3>1 DEF Sound
    <3> QED BY <2>3, <3>2, <3>3, BecomesKeeps
  <2> QED BY <1>5, <1>11, <2>2, <2>3 DEF HandleReviewInput
<1>12. CASE InvalidInput(id) BY <1>5, <1>12 DEF InvalidInput
<1> QED BY <1>6, <1>7, <1>8, <1>9, <1>10, <1>11, <1>12 DEF HandleInput

LEMMA ConversationStep ==
    ASSUME ConversationsTyped, ConversationsSound, [Next]_vars
    PROVE  ConversationsTyped' /\ ConversationsSound'
<1>0. CASE UNCHANGED <<conversations, now>>
  BY <1>0 DEF ConversationsTyped, ConversationsSound
<1>1. ASSUME NEW id \in ConversationIds, NEW user \in Users, StartConversation(id, user)
      PROVE  ConversationsTyped' /\ ConversationsSound'
  <2> DEFINE new == [userId |-> user, currentStep |-> "initial", parsedIntent |-> NoIntent,
                     isComplete |-> FALSE, contractDraft |-> Unset, lastActivityAt |-> now,
                     shown |-> Unset]
  <2>1. new \in ConversationState
    BY DEF ConversationsTyped, ConversationState, Step, NoIntent, Intent
  <2>2. Sound(new, now) BY DEF Sound, NoIntent
  <2>3. conversations' = [conversations EXCEPT ![id] = new] /\ now' = now
    BY <1>1 DEF StartConversation
  <2> HIDE DEF new
  <2> QED BY <2>1, <2>2, <2>3 DEF ConversationsTyped, ConversationsSound
<1>2. ASSUME NEW id \in ConversationIds, UseTemplate(id)
      PROVE  ConversationsTyped' /\ ConversationsSound'
  <2> DEFINE c == conversations[id]
  <2>1. c \in ConversationState /\ Sound(c, now)
    BY <1>2 DEF UseTemplate, ConversationsTyped, ConversationsSound
  <2>2. PICK i \in Templates :
           Becomes(id, [c EXCEPT !.parsedIntent = i, !.currentStep = "domains",
                                 !.shown = Unset])
    BY <1>2 DEF UseTemplate
  <2> DEFINE b == [c EXCEPT !.parsedIntent = i, !.currentStep = "domains", !.shown = Unset]
  <2>3. i \in Intent /\ i.classificationCap \in (0..5) \cup {Unset} BY TextsAreTyped
  <2>4. b \in ConversationState BY <2>1, <2>3 DEF ConversationState, Step
  <2>5. /\ b.parsedIntent = i /\ b.currentStep = "domains" /\ b.shown = Unset
        /\ b.contractDraft = c.contractDraft
    BY <2>1 DEF ConversationState
  <2> HIDE DEF b
  <2>6. Sound(b, now) BY <2>1, <2>3, <2>5 DEF Sound
  <2> QED BY <2>2, <2>4, <2>6, BecomesKeeps DEF b
<1>3. ASSUME NEW id \in ConversationIds, CancelConversation(id)
      PROVE  ConversationsTyped' /\ ConversationsSound'
  BY <1>3 DEF CancelConversation, ConversationsTyped, ConversationsSound
<1>4. CASE CleanupOldConversations
  BY <1>4 DEF CleanupOldConversations, ConversationsTyped, ConversationsSound
<1>5. CASE Tick
  <2>1. now \in Nat /\ now' = now + 1 /\ conversations' = conversations
    BY <1>5 DEF Tick, ConversationsTyped
  <2>2. 0..now \subseteq 0..now' BY <2>1
  <2>3. ASSUME NEW c, Sound(c, now) PROVE Sound(c, now')
    <3>1. c.currentStep = "review" =>
             \E at \in 0..now' : c.shown = BuildDraft(c.userId, c.parsedIntent, at)
      BY <2>2, <2>3 DEF Sound
    <3>2. c.currentStep = "complete" =>
             \E at, end \in 0..now' :
                /\ at <= end
                /\ c.shown = BuildDraft(c.userId, c.parsedIntent, at)
                /\ c.contractDraft = BuildDraft(c.userId, c.parsedIntent, end)
      BY <2>2, <2>3 DEF Sound
    <3> QED BY <2>3, <3>1, <3>2 DEF Sound
  <2> QED BY <2>1, <2>3 DEF ConversationsTyped, ConversationsSound
<1>6. ASSUME NEW id \in ConversationIds, CreateContractFromPlainLanguage(id)
      PROVE  UNCHANGED <<conversations, now>>
  BY <1>6 DEF CreateContractFromPlainLanguage
<1>7. ASSUME NEW user \in Users, CreateFromFactory(user) \/ CreateByHand(user)
      PROVE  UNCHANGED <<conversations, now>>
  BY <1>7 DEF CreateFromFactory, CreateByHand
<1>8. MoveOn \/ NextContract \/ UNCHANGED vars => UNCHANGED <<conversations, now>>
  BY DEF MoveOn, NextContract, vars
<1> QED BY <1>0, <1>1, <1>2, <1>3, <1>4, <1>5, <1>6, <1>7, <1>8, HandleInputKeeps DEF Next

LEMMA ConversationInit == Init => ConversationsTyped /\ ConversationsSound
  BY DEF Init, ConversationsTyped, ConversationsSound

\* What a sound conversation shows at its end.
LEMMA SoundEnd ==
    ASSUME NEW c \in ConversationState, Sound(c, now), now \in Nat, c.currentStep = "complete"
    PROVE  /\ c.contractDraft \in LanguageDraft
           /\ c.contractDraft = [c.shown EXCEPT !.retentionUntil = c.contractDraft.retentionUntil]
           /\ IF c.shown.retentionUntil = NoTime THEN c.contractDraft.retentionUntil = NoTime
              ELSE c.contractDraft.retentionUntil >= c.shown.retentionUntil
<1>1. c.userId \in Users /\ c.parsedIntent \in Intent BY DEF ConversationState
<1>2. PICK at, end \in 0..now :
         /\ at <= end
         /\ c.shown = BuildDraft(c.userId, c.parsedIntent, at)
         /\ c.contractDraft = BuildDraft(c.userId, c.parsedIntent, end)
  BY DEF Sound
<1>3. c.contractDraft \in LanguageDraft /\ c.shown \in LanguageDraft
  BY <1>1, <1>2, BuildDraftType
<1>4. c.contractDraft = [c.shown EXCEPT !.retentionUntil = c.contractDraft.retentionUntil]
  BY <1>2 DEF BuildDraft
<1>5. IF c.shown.retentionUntil = NoTime THEN c.contractDraft.retentionUntil = NoTime
      ELSE c.contractDraft.retentionUntil >= c.shown.retentionUntil
  <2> DEFINE days == c.parsedIntent.retentionDays
             bounded == c.parsedIntent.retention = "timebound" /\ days \notin {Unset, 0}
  <2>1. days \in Nat \cup {Unset} BY <1>1, ConversationAssumption DEF Intent
  <2>2. /\ c.shown.retentionUntil = IF bounded THEN at + days ELSE NoTime
        /\ c.contractDraft.retentionUntil = IF bounded THEN end + days ELSE NoTime
    BY <1>2 DEF BuildDraft
  <2>3. CASE bounded
    <3>1. days \in Nat BY <2>1, <2>3
    <3> HIDE DEF days, bounded
    <3> QED BY <1>2, <2>2, <2>3, <3>1, NoTimeAssumption
  <2>4. CASE ~bounded
    <3> HIDE DEF bounded
    <3> QED BY <2>2, <2>4
  <2> QED BY <2>3, <2>4
<1> QED BY <1>3, <1>4, <1>5

\* What is confirmed is what the review showed (handleReviewInput builds the draft anew),
\* for every text, template and number of conversations.
THEOREM ConfirmedIsShown == Spec => []ConfirmedAsShown
<1>1. ConversationsTyped /\ ConversationsSound => ConfirmedAsShown
  <2> SUFFICES ASSUME ConversationsTyped, ConversationsSound, NEW id \in ConversationIds,
                      Confirmed(id)
               PROVE  LET confirmed == conversations[id].contractDraft
                          shown == conversations[id].shown
                      IN /\ confirmed = [shown EXCEPT !.retentionUntil = confirmed.retentionUntil]
                         /\ IF shown.retentionUntil = NoTime
                            THEN confirmed.retentionUntil = NoTime
                            ELSE confirmed.retentionUntil >= shown.retentionUntil
    BY DEF ConfirmedAsShown
  <2>1. /\ conversations[id] \in ConversationState /\ Sound(conversations[id], now)
        /\ conversations[id].currentStep = "complete" /\ now \in Nat
    BY DEF Confirmed, InStep, ConversationsTyped, ConversationsSound
  <2> QED BY <2>1, SoundEnd
<1> QED BY <1>1, ConversationInit, ConversationStep, PTL DEF Spec

\* Nothing is shown or confirmed that names no domain (advanceConversation asks for the
\* subject before it goes to the review, and every template comes back to it).
THEOREM ReviewsNameDomains == Spec => []ReviewNamesDomains
<1>1. ConversationsTyped /\ ConversationsSound => ReviewNamesDomains
  BY DEF ConversationsSound, Sound, ReviewNamesDomains
<1> QED BY <1>1, ConversationInit, ConversationStep, PTL DEF Spec

\* The default mode of a strategic draft is one the validator asks for, and every cap a
\* conversation can come to is one it takes.
LEMMA BuiltIsAccepted ==
    ASSUME NEW user \in Users, NEW i \in Intent, NEW t \in Nat, NEW at \in Nat,
           i.classificationCap \in (0..5) \cup {Unset},
           LET d == BuildDraft(user, i, t)
           IN /\ d.retention = "timebound" => d.retentionUntil # NoTime
              /\ d.allowGeneralization =>
                    d.contractType \notin {"observation", "episodic", "prohibited"}
    PROVE  Validate(NewContract(DraftOf(BuildDraft(user, i, t)), user, at, NoContract))
<1> DEFINE d == BuildDraft(user, i, t)
           type == Given(i.contractType, "episodic")
           made == NewContract(DraftOf(d), user, at, NoContract)
<1>1. type \in ContractType
  BY DEF Intent, ContractType, Given
<1>2. /\ TypeDefaults[type].classificationCap \in 0..5
      /\ type = "strategic" => TypeDefaults[type].boundaryModeMin = "trusted"
  BY <1>1, DefaultsAreTyped
<1>3. d.contractType = type /\ d.boundaryModeMin = TypeDefaults[type].boundaryModeMin
  BY DEF BuildDraft
<1>4. d.classificationCap \in 0..5
  <2> HIDE DEF type
  <2> QED BY <1>2 DEF BuildDraft, type
<1> HIDE DEF d, type
<1>5. /\ made.contract_type = d.contractType
      /\ made.memory_permissions.may_store
            = (d.contractType \notin {"observation", "prohibited"})
      /\ made.memory_permissions.classification_cap = d.classificationCap
      /\ made.memory_permissions.retention = d.retention
      /\ made.memory_permissions.retention_until = d.retentionUntil
      /\ made.generalization_rules.allowed = d.allowGeneralization
      /\ made.recall_rules.boundary_mode_min = d.boundaryModeMin
      /\ made.expiration = NoTime
  BY DEF NewContract, DraftOf, Terms, Keeps
<1> HIDE DEF made
<1>6. /\ d.retention = "timebound" => d.retentionUntil # NoTime
      /\ d.allowGeneralization => d.contractType \notin {"observation", "episodic", "prohibited"}
  BY DEF d
<1>7. TypeSpecificRules(made)
  BY <1>2, <1>3, <1>5, <1>6 DEF TypeSpecificRules
<1>8. ValidMemoryPermissions(made.memory_permissions)
  BY <1>4, <1>5, <1>6 DEF ValidMemoryPermissions
<1>9. Validate(made)
  BY <1>5, <1>7, <1>8 DEF Validate
<1> QED BY <1>9 DEF made, d

\* The validator refuses a confirmed draft for one of two reasons only (getTypeDefaults and
\* createContractFromPlainLanguage keep the rest of its rules).
THEOREM ConfirmedIsTaken == Spec => []ConfirmedIsAccepted
<1>1. ConversationsTyped /\ ConversationsSound => ConfirmedIsAccepted
  <2> SUFFICES ASSUME ConversationsTyped, ConversationsSound, NEW id \in ConversationIds,
                      Confirmed(id),
                      LET confirmed == conversations[id].contractDraft
                      IN /\ ~(confirmed.retention = "timebound" /\ confirmed.retentionUntil = NoTime)
                         /\ ~(/\ confirmed.allowGeneralization
                              /\ confirmed.contractType
                                    \in {"observation", "episodic", "prohibited"})
               PROVE  Validate(Made(id))
    BY DEF ConfirmedIsAccepted
  <2> DEFINE c == conversations[id]
  <2>1. c \in ConversationState /\ Sound(c, now) /\ c.currentStep = "complete" /\ now \in Nat
    BY DEF Confirmed, InStep, ConversationsTyped, ConversationsSound
  <2>2. /\ c.userId \in Users /\ c.parsedIntent \in Intent
        /\ c.parsedIntent.classificationCap \in (0..5) \cup {Unset}
    BY <2>1 DEF ConversationState, Sound
  <2>3. PICK end \in 0..now : c.contractDraft = BuildDraft(c.userId, c.parsedIntent, end)
    BY <2>1 DEF Sound
  <2>4. Made(id) = NewContract(DraftOf(c.contractDraft), c.userId, now, NoContract)
    BY DEF Made
  <2>5. end \in Nat BY <2>1, <2>3
  <2> HIDE DEF c
  <2>6. LET d == c.contractDraft
        IN /\ d.retention = "timebound" => d.retentionUntil # NoTime
           /\ d.allowGeneralization =>
                 d.contractType \notin {"observation", "episodic", "prohibited"}
    BY DEF c
  <2> QED BY <2>1, <2>2, <2>3, <2>4, <2>5, <2>6, BuiltIsAccepted
<1> QED BY <1>1, ConversationInit, ConversationStep, PTL DEF Spec
-----------------------------------------------------------------------------
(***************************************************************************)
(* The contracts made of the drafts.                                       *)
(***************************************************************************)

\* The contract the hooks decide by is one the validator let through: its state moves on,
\* its terms do not.
ContractAccepted ==
    contract # NoContract => contract \in LearningContract /\ Validate(contract)

LEMMA TermsAreTyped ==
    ASSUME NEW type \in ContractType, NEW scope \in LearningScope,
           NEW keeps \in MemoryPermissions, NEW generalizes \in BOOLEAN,
           NEW owner \in BOOLEAN, NEW mode \in BoundaryMode, NEW revocable \in BOOLEAN
    PROVE  Terms(type, scope, keeps, generalizes, owner, mode, revocable) \in ContractDraft
  BY DEF Terms, ContractDraft, GeneralizationRules, RecallRules, Time

LEMMA FactoryDraftsAreTyped ==
    ASSUME NEW scope \in PartialScope, NEW options \in FactoryOptions, NEW t \in Nat
    PROVE  FactoryDrafts(scope, options, t) \subseteq ContractDraft
<1>1. ASSUME NEW level \in AbstractionLevel PROVE ScopeOf(scope, level) \in LearningScope
  BY DEF ScopeOf, PartialScope, LearningScope, Given
<1>2. ASSUME NEW level \in AbstractionLevel
      PROVE  Given(scope.max_abstraction, level) \in AbstractionLevel
  BY DEF PartialScope, Given
<1>3. ASSUME NEW cap \in Int PROVE Given(options.classificationCap, cap) \in Int
  BY DEF FactoryOptions, Given
<1>4. ASSUME NEW retention \in RetentionDuration
      PROVE  Given(options.retention, retention) \in RetentionDuration
  BY DEF FactoryOptions, Given
<1>5. Given(options.requiresOwner, TRUE) \in BOOLEAN
  BY DEF FactoryOptions, Given
<1>6. ASSUME NEW store \in BOOLEAN, NEW cap \in Int, NEW retention \in RetentionDuration,
             NEW until \in Time
      PROVE  Keeps(store, cap, retention, until) \in MemoryPermissions
  BY DEF Keeps, MemoryPermissions
<1>7. /\ \A x \in {"observation", "episodic", "procedural", "strategic", "prohibited"} :
            x \in ContractType
      /\ \A x \in {"raw", "heuristic", "strategy"} : x \in AbstractionLevel
      /\ \A x \in {"session", "timebound", "permanent"} : x \in RetentionDuration
      /\ \A x \in {"restricted", "normal", "trusted"} : x \in BoundaryMode
      /\ NoTime \in Time /\ options.retentionUntil \in Time
      /\ 0 \in Int /\ 3 \in Int /\ 4 \in Int
  BY DEF ContractType, AbstractionLevel, RetentionDuration, BoundaryMode, Time, FactoryOptions
<1>8. ObservationDraft(scope) \in ContractDraft
  <2>1. ScopeOf(scope, "raw") \in LearningScope BY <1>1, <1>7
  <2>2. Keeps(FALSE, 0, "session", NoTime) \in MemoryPermissions BY <1>6, <1>7
  <2> QED BY <1>7, <2>1, <2>2, TermsAreTyped DEF ObservationDraft
<1>9. ProhibitedDraft(scope) \in ContractDraft
  <2>1. ScopeOf(scope, "raw") \in LearningScope BY <1>1, <1>7
  <2>2. Keeps(FALSE, 0, "session", NoTime) \in MemoryPermissions BY <1>6, <1>7
  <2> QED BY <1>7, <2>1, <2>2, TermsAreTyped DEF ProhibitedDraft
<1>10. StrategicDraft(scope, options) \in ContractDraft
  <2>1. ScopeOf(scope, Given(scope.max_abstraction, "strategy")) \in LearningScope
    BY <1>1, <1>2, <1>7
  <2>2. Given(options.classificationCap, 4) \in Int BY <1>3, <1>7
  <2>3. Keeps(TRUE, Given(options.classificationCap, 4), "permanent", NoTime)
           \in MemoryPermissions
    BY <1>6, <1>7, <2>2
  <2> QED BY <1>7, <2>1, <2>3, TermsAreTyped DEF StrategicDraft
<1>11. ProceduralDraft(scope, options) \in ContractDraft
  <2>1. ScopeOf(scope, Given(scope.max_abstraction, "heuristic")) \in LearningScope
    BY <1>1, <1>2, <1>7
  <2>2. Given(options.classificationCap, 3) \in Int BY <1>3, <1>7
  <2>3. Given(options.retention, "permanent") \in RetentionDuration BY <1>4, <1>7
  <2>4. Keeps(TRUE, Given(options.classificationCap, 3),
              Given(options.retention, "permanent"), NoTime) \in MemoryPermissions
    BY <1>6, <1>7, <2>2, <2>3
  <2> QED BY <1>7, <2>1, <2>4, TermsAreTyped DEF ProceduralDraft
<1>12. EpisodicDraft(scope, options, t) \in ContractDraft
  <2> DEFINE retention == Given(options.retention, "timebound")
             until == IF retention = "timebound" /\ options.retentionUntil = NoTime
                      THEN t + DefaultRetention ELSE options.retentionUntil
             keeps == Keeps(TRUE, Given(options.classificationCap, 3), retention, until)
             level == Given(scope.max_abstraction, "raw")
  <2>1. retention \in RetentionDuration BY <1>4, <1>7
  <2>2. t + DefaultRetention \in Time BY DefaultRetentionAssumption DEF Time
  <2>3. until \in Time BY <1>7, <2>2
  <2>4. level \in AbstractionLevel BY <1>2, <1>7
  <2>5. 3 \in Int OBVIOUS
  <2>6. Given(options.classificationCap, 3) \in Int BY <1>3, <2>5
  <2> HIDE DEF retention, until, level
  <2>7. keeps \in MemoryPermissions BY <1>6, <2>1, <2>3, <2>6
  <2>8. ScopeOf(scope, level) \in LearningScope BY <1>1, <2>4
  <2>9. EpisodicDraft(scope, options, t)
           = Terms("episodic", ScopeOf(scope, level), keeps, FALSE,
                   Given(options.requiresOwner, TRUE), "normal", TRUE)
    BY DEF EpisodicDraft, retention, until, level
  <2> HIDE DEF keeps
  <2> QED BY <1>5, <1>7, <2>7, <2>8, <2>9, TermsAreTyped
<1> QED BY <1>8, <1>9, <1>10, <1>11, <1>12 DEF FactoryDrafts

LEMMA DraftOfIsTyped ==
    ASSUME NEW d \in LanguageDraft
    PROVE  DraftOf(d) \in ContractDraft
<1> DEFINE scope == [domains |-> d.domains, contexts |-> d.contexts, tools |-> d.tools,
                     max_abstraction |-> MaxAbstraction(d.contractType, d.allowGeneralization),
                     transferable |-> FALSE]
           keeps == Keeps(d.contractType \notin {"observation", "prohibited"},
                          d.classificationCap, d.retention, d.retentionUntil)
<1>1. /\ d.contractType \in ContractType /\ d.allowGeneralization \in BOOLEAN
      /\ d.requiresOwner \in BOOLEAN /\ d.boundaryModeMin \in BoundaryMode
  BY DEF LanguageDraft
<1>2. MaxAbstraction(d.contractType, d.allowGeneralization) \in AbstractionLevel
  BY <1>1 DEF MaxAbstraction, AbstractionLevel, ContractType
<1>3. scope \in LearningScope
  BY <1>2 DEF LanguageDraft, LearningScope
<1>4. keeps \in MemoryPermissions
  BY DEF LanguageDraft, Keeps, MemoryPermissions
<1> DEFINE revocable == d.contractType # "prohibited"
<1>5. revocable \in BOOLEAN
  OBVIOUS
<1>6. DraftOf(d) = Terms(d.contractType, scope, keeps, d.allowGeneralization, d.requiresOwner,
                         d.boundaryModeMin, revocable)
  BY DEF DraftOf
<1> HIDE DEF scope, keeps, revocable
<1>7. Terms(d.contractType, scope, keeps, d.allowGeneralization, d.requiresOwner,
            d.boundaryModeMin, revocable) \in ContractDraft
  BY <1>1, <1>3, <1>4, <1>5, TermsAreTyped
<1> QED BY <1>6, <1>7

\* Whatever the draft, what is made of it is a contract the validator has accepted.
LEMMA CreateAccepts ==
    ASSUME NEW d \in ContractDraft, NEW user \in Users, now \in Nat, Create(d, user)
    PROVE  ContractAccepted'
<1>1. NewContract(d, user, now, NoContract) \in LearningContract
  BY DEF NewContract, ContractDraft, LearningContract, ContractState
<1>2. contract' = NewContract(d, user, now, NoContract) /\ Validate(contract')
  BY DEF Create
<1> QED BY <1>1, <1>2 DEF ContractAccepted

LEMMA AcceptedStep ==
    ASSUME ConversationsTyped, ConversationsSound, ContractAccepted, [Next]_vars
    PROVE  ContractAccepted'
<1>1. CASE UNCHANGED contract BY <1>1 DEF ContractAccepted, Validate
<1>2. now \in Nat BY DEF ConversationsTyped
<1>3. ASSUME NEW id \in ConversationIds, CreateContractFromPlainLanguage(id)
      PROVE  ContractAccepted'
  <2> DEFINE c == conversations[id]
  <2>1. /\ c \in ConversationState /\ Sound(c, now) /\ c.currentStep = "complete"
        /\ Create(DraftOf(c.contractDraft), c.userId)
    BY <1>3 DEF CreateContractFromPlainLanguage, InStep, ConversationsTyped, ConversationsSound
  <2>2. c.contractDraft \in LanguageDraft /\ c.userId \in Users
    BY <1>2, <2>1, SoundEnd DEF ConversationState
  <2> HIDE DEF c
  <2> QED BY <1>2, <2>1, <2>2, DraftOfIsTyped, CreateAccepts
<1>4. ASSUME NEW user \in Users, CreateFromFactory(user)
      PROVE  ContractAccepted'
  <2>1. PICK scope \in Scopes, options \in Options :
           \E d \in FactoryDrafts(scope, options, now) : Create(d, user)
    BY <1>4 DEF CreateFromFactory
  <2>2. scope \in PartialScope /\ options \in FactoryOptions
    BY ConversationAssumption
  <2> QED BY <1>2, <2>1, <2>2, FactoryDraftsAreTyped, CreateAccepts
<1>5. ASSUME NEW user \in Users, CreateByHand(user)
      PROVE  ContractAccepted'
  BY <1>2, <1>5, ConversationAssumption, CreateAccepts DEF CreateByHand
<1>6. CASE MoveOn
  <2>1. PICK state \in ValidTransitions[contract.state] :
           contract' = [contract EXCEPT !.state = state]
    BY <1>6 DEF MoveOn
  <2>2. contract \in LearningContract /\ Validate(contract)
    BY <1>6 DEF MoveOn, ContractAccepted
  <2>3. ValidTransitions[contract.state] \subseteq ContractState
    BY <2>2 DEF LearningContract, ContractState, ValidTransitions
  <2>4. contract' \in LearningContract
    BY <2>1, <2>2, <2>3 DEF LearningContract
  <2>5. /\ contract'.contract_type = contract.contract_type
        /\ contract'.memory_permissions = contract.memory_permissions
        /\ contract'.generalization_rules = contract.generalization_rules
        /\ contract'.recall_rules = contract.recall_rules
        /\ contract'.expiration = contract.expiration
        /\ contract'.created_at = contract.created_at
    BY <2>1, <2>2 DEF LearningContract
  <2>6. Validate(contract')
    BY <2>2, <2>5 DEF Validate, TypeSpecificRules
  <2> QED BY <2>4, <2>6 DEF ContractAccepted
<1>7. CASE NextContract BY <1>7 DEF NextContract, ContractAccepted
<1>8. ASSUME NEW id \in ConversationIds,
             \/ \E user \in Users : StartConversation(id, user)
             \/ UseTemplate(id) \/ HandleInput(id) \/ CancelConversation(id)
      PROVE  UNCHANGED contract
  BY <1>8 DEF StartConversation, UseTemplate, HandleInput, CancelConversation,
              HandleInitialInput, HandleContractTypeInput, HandleDomainsInput,
              HandleRetentionInput, HandleGeneralizationInput, HandleReviewInput,
              InvalidInput, Becomes
<1>9. CleanupOldConversations \/ Tick \/ UNCHANGED vars => UNCHANGED contract
  BY DEF CleanupOldConversations, Tick, vars
<1> QED BY <1>1, <1>3, <1>4, <1>5, <1>6, <1>7, <1>8, <1>9 DEF Next

\* What a contract's type forbids is refused at the hooks, for every request: the validator
\* let no contract of another shape through, whoever drafted it.
THEOREM HooksKeepTypes == Spec => []TypesBindHooks
<1>1. Init => ContractAccepted BY DEF Init, ContractAccepted
<1>2. ContractAccepted => TypesBindHooks
  <2> SUFFICES ASSUME contract # NoContract, contract \in LearningContract, Validate(contract),
                      NEW r \in Requests
               PROVE  /\ MayStore(r) =>
                            /\ contract.contract_type \in {"episodic", "procedural", "strategic"}
                            /\ r.classification <= 5
                      /\ MayAbstract(r) => contract.contract_type \in {"procedural", "strategic"}
                      /\ MayRecall(r) /\ contract.contract_type = "strategic" =>
                            r.boundary_mode \in {"trusted", "privileged"}
    BY DEF ContractAccepted, TypesBindHooks
  <2>1. r \in Request BY ConversationAssumption
  <2>2. contract.contract_type
           \in {"observation", "episodic", "procedural", "strategic", "prohibited"}
    BY DEF LearningContract, ContractType
  <2>3. TypeSpecificRules(contract) /\ contract.memory_permissions.classification_cap \in 0..5
    BY DEF Validate, ValidMemoryPermissions
  <2>4. ASSUME MayStore(r)
        PROVE  /\ contract.contract_type \in {"episodic", "procedural", "strategic"}
               /\ r.classification <= 5
    <3>1. /\ contract.memory_permissions.may_store
          /\ r.classification <= contract.memory_permissions.classification_cap
      BY <2>4 DEF MayStore, CheckMemoryCreation
    <3>2. r.classification \in Int BY <2>1 DEF Request
    <3>3. r.classification <= 5 BY <2>3, <3>1, <3>2
    <3> QED BY <2>2, <2>3, <3>1, <3>3 DEF TypeSpecificRules
  <2>5. ASSUME MayAbstract(r)
        PROVE  contract.contract_type \in {"procedural", "strategic"}
    BY <2>2, <2>3, <2>5 DEF MayAbstract, CheckAbstraction, TypeSpecificRules
  <2>6. ASSUME MayRecall(r), contract.contract_type = "strategic"
        PROVE  r.boundary_mode \in {"trusted", "privileged"}
    <3>1. contract.recall_rules.boundary_mode_min \in {"trusted", "privileged"}
      BY <2>3, <2>6 DEF TypeSpecificRules
    <3>2. Mode[r.boundary_mode] >= Mode[contract.recall_rules.boundary_mode_min]
      BY <2>6 DEF MayRecall, CheckRecall, IsBoundaryModeSufficient
    <3>3. r.boundary_mode \in {"restricted", "normal", "trusted", "privileged"}
      BY <2>1 DEF Request, BoundaryMode
    <3> QED BY <3>1, <3>2, <3>3 DEF Mode
  <2> QED BY <2>4, <2>5, <2>6
<1> QED BY <1>1, <1>2, ConversationInit, ConversationStep, AcceptedStep, PTL DEF Spec
=============================================================================
