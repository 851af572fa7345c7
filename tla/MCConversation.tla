----------------------------- MODULE MCConversation -----------------------------
(***************************************************************************)
(* A small instance of Conversation for TLC: one conversation at a time,   *)
(* and contracts of every shape by hand.                                   *)
(***************************************************************************)
EXTENDS Conversation

CONSTANTS alice, work, home, stream, talk

MCConversationIds == {talk}
MCUsers == {alice}
MCDomains == {work, home}
MCContexts == {stream}
MCTools == {}
MCContractIds == {}
MCDays == {0, 2}

\* Texts of every kind, with and without a domain, a length and a word on sensitivity or
\* approval.
MCTexts ==
    {i \in [contractType : ContractType \cup {Unset}, domains : {{}, {work}}, contexts : {{}},
            tools : {{}}, retention : RetentionDuration \cup {Unset},
            retentionDays : MCDays \cup {Unset}, allowGeneralization : BOOLEAN \cup {Unset},
            classificationCap : {4, Unset}, requireRecallApproval : {TRUE, Unset}] :
        i \in ParsedIntents}

\* An expiration of 0 has passed at time 1, one of 1 has not.
ByHand(type, domains, contexts, level, transferable, store, cap, general, mode, until) ==
    [contract_type |-> type,
     scope |-> [domains |-> domains, contexts |-> contexts, tools |-> {},
                max_abstraction |-> level, transferable |-> transferable],
     memory_permissions |-> [may_store |-> store, classification_cap |-> cap,
                             retention |-> "permanent", retention_until |-> NoTime],
     generalization_rules |-> [allowed |-> general],
     recall_rules |-> [requires_owner |-> TRUE, boundary_mode_min |-> mode],
     expiration |-> until, revocable |-> TRUE]

MCDrafts ==
    {ByHand(type, domains, contexts, level, FALSE, store, cap, general, mode, until) :
        type \in ContractType, domains \in {{}, {work}}, contexts \in {{}, {stream}},
        level \in {"heuristic", "strategy"}, store \in BOOLEAN, general \in BOOLEAN,
        cap \in {3, 6}, mode \in {"normal", "trusted"}, until \in {NoTime, 0}}

MCScopes ==
    {[domains |-> domains, contexts |-> Unset, tools |-> Unset, max_abstraction |-> level] :
        domains \in {Unset, {work}}, level \in {Unset, "strategy"}}

MCOptions ==
    {[classificationCap |-> cap, retention |-> retention, retentionUntil |-> until,
      requiresOwner |-> Unset] :
        cap \in {Unset, 6}, retention \in {Unset, "timebound", "session"},
        until \in {NoTime, 1}}

MCRequests ==
    {[domain |-> domain, context |-> context, tool |-> Unset, boundary_mode |-> mode,
      requester |-> user, classification |-> level, target |-> target] :
        domain \in {work, home, Unset}, context \in {stream, Unset},
        mode \in {"normal", "trusted"}, user \in {alice, Unset}, level \in {3, 6},
        target \in {"heuristic", "strategy"}}
=============================================================================
