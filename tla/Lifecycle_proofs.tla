--------------------------- MODULE Lifecycle_proofs ---------------------------
(***************************************************************************)
(* Proofs about Lifecycle, for any sets of contracts, users, scopes and    *)
(* drafts and any bounds.                                                  *)
(*                                                                         *)
(* The invariants of the audit trail are proved together: what is          *)
(* inductive is a condition on one contract, its state and its trail       *)
(* (ContractInv), which every operation either leaves alone or carries     *)
(* over one appended entry (AppendKeeps).                                  *)
(***************************************************************************)
EXTENDS Lifecycle, TLAPS

-----------------------------------------------------------------------------
(***************************************************************************)
(* Types of what the operations build.                                     *)
(***************************************************************************)

\* createDraft builds a contract in state draft out of any well-typed draft.
LEMMA NewContractType ==
    ASSUME NEW d \in ContractDraft, NEW user \in Users, NEW at \in Nat,
           NEW from \in ContractIds \cup {NoContract}
    PROVE  /\ NewContract(d, user, at, from) \in LearningContract
           /\ NewContract(d, user, at, from).state = "draft"
BY DEF NewContract, ContractDraft, LearningContract, ContractState

\* Merging a change set into a contract gives a well-typed draft.
LEMMA AmendedType ==
    ASSUME NEW c \in LearningContract, NEW d \in ContractDraft, NEW fields
    PROVE  Amended(c, d, fields) \in ContractDraft
BY DEF Amended, ContractDraft, LearningContract

\* A stored contract is one; it has a state of its own.
LEMMA StoredType ==
    ASSUME TypeOK, NEW c \in ContractIds
    PROVE  /\ Exists(c) => contracts[c] \in LearningContract
           /\ Exists(c) => StateOf(c) \in ContractState /\ StateOf(c) = contracts[c].state
           /\ StateOf(c) = "none" <=> ~Exists(c)
BY DEF TypeOK, Exists, StateOf, LearningContract, ContractState

States == ContractState \cup {"none"}
-----------------------------------------------------------------------------
(***************************************************************************)
(* One contract: its state s (or "none") and its trail t.                  *)
(***************************************************************************)
ContractInv(s, t) ==
    /\ s = "none" <=> t = <<>>
    /\ t # <<>> => \/ t[Len(t)].new_state = s
                   \/ t[Len(t)].new_state = "amended" /\ s = "active"
    /\ \A i \in DOMAIN t : t[i].new_state = "active" =>
          i > 1 /\ t[i - 1].new_state = "review"
    /\ \A i \in DOMAIN t : t[i].new_state \in {"expired", "revoked"} => i = Len(t)

TrailInv == \A c \in ContractIds : ContractInv(StateOf(c), trail[c])

\* Appending the entry of a legal transition keeps the condition: nothing follows
\* expired or revoked, and only review leads to active.  The new state s2 is the
\* logged one, or the contract stays active under an amendment that threw.
LEMMA AppendKeeps ==
    ASSUME NEW s \in States, NEW t \in Seq(LoggedTransition), ContractInv(s, t),
           NEW from \in States, NEW to \in ContractState, NEW s2,
           s \notin {"expired", "revoked"},
           to = "active" => s = "review",
           s2 = to \/ (to = "amended" /\ s2 = "active")
    PROVE  /\ ContractInv(s2, Append(t, Transition(from, to)))
           /\ Append(t, Transition(from, to)) \in Seq(LoggedTransition)
<1> DEFINE e == Transition(from, to)
           u == Append(t, e)
<1>1. e \in LoggedTransition /\ e.new_state = to
  BY DEF Transition, LoggedTransition, States, ContractState
<1>2. /\ u \in Seq(LoggedTransition) /\ Len(u) = Len(t) + 1
      /\ u[Len(u)] = e /\ u # <<>>
      /\ \A i \in DOMAIN t : u[i] = t[i]
      /\ DOMAIN t = 1..Len(t) /\ DOMAIN u = 1..Len(u) /\ Len(t) \in Nat
  BY <1>1
<1>3. s2 # "none"
  BY DEF ContractState
<1>4. u[Len(u)].new_state = s2 \/ (u[Len(u)].new_state = "amended" /\ s2 = "active")
  BY <1>1, <1>2
<1>5. ASSUME NEW i \in DOMAIN u, u[i].new_state = "active"
      PROVE  i > 1 /\ u[i - 1].new_state = "review"
  <2>1. CASE i = Len(u)
    <3>1. s = "review"
      BY <2>1, <1>5, <1>1, <1>2
    <3>2. t # <<>> /\ t[Len(t)].new_state = "review"
      BY <3>1 DEF ContractInv
    <3>3. Len(t) > 0 /\ Len(t) \in DOMAIN t
      BY <3>2, <1>2
    <3> QED BY <3>2, <3>3, <2>1, <1>2
  <2>2. CASE i # Len(u)
    <3>1. i \in DOMAIN t
      BY <2>2, <1>2
    <3>2. i > 1 /\ t[i - 1].new_state = "review"
      BY <3>1, <1>5, <1>2 DEF ContractInv
    <3>3. i - 1 \in DOMAIN t
      BY <3>1, <3>2, <1>2
    <3> QED BY <3>2, <3>3, <1>2
  <2> QED BY <2>1, <2>2
<1>6. ASSUME NEW i \in DOMAIN u, u[i].new_state \in {"expired", "revoked"}
      PROVE  i = Len(u)
  <2> SUFFICES ASSUME i # Len(u) PROVE FALSE
    OBVIOUS
  <2>1. i \in DOMAIN t
    BY <1>2
  <2>2. i = Len(t) /\ t # <<>>
    BY <2>1, <1>6, <1>2 DEF ContractInv
  <2>3. t[Len(t)].new_state \in {"expired", "revoked"}
    BY <2>1, <2>2, <1>6, <1>2
  <2> QED BY <2>2, <2>3 DEF ContractInv
<1> QED BY <1>2, <1>3, <1>4, <1>5, <1>6 DEF ContractInv
-----------------------------------------------------------------------------
(***************************************************************************)
(* What one step does to one contract x: nothing, or one entry appended    *)
(* and the state moved to the one logged.                                  *)
(***************************************************************************)
Moves(x, from, to) ==
    /\ StateOf(x) \notin {"expired", "revoked"}
    /\ to = "active" => StateOf(x) = "review"
    /\ trail'[x] = Append(trail[x], Transition(from, to))
    /\ StateOf(x)' = to \/ (to = "amended" /\ StateOf(x)' = StateOf(x) /\ StateOf(x) = "active")

Stays(x) == StateOf(x)' = StateOf(x) /\ trail'[x] = trail[x]

PointStep(x) ==
    Stays(x) \/ \E from \in States, to \in ContractState : Moves(x, from, to)

\* Replacing the state of a stored contract and logging it keeps the types and
\* moves that contract alone.
LEMMA SaveAndLog ==
    ASSUME TypeOK, NEW c \in ContractIds, Exists(c),
           NEW from \in States, NEW to \in ContractState,
           SaveState(c, to), LogTransition(c, from, to), now' = now,
           StateOf(c) \notin {"expired", "revoked"},
           to = "active" => StateOf(c) = "review"
    PROVE  /\ TypeOK'
           /\ \A x \in ContractIds : StateOf(x)' = IF x = c THEN to ELSE StateOf(x)
           /\ \A x \in ContractIds : PointStep(x)
<1>1. contracts[c] \in LearningContract
  BY StoredType
<1>2. [contracts[c] EXCEPT !.state = to] \in LearningContract
  BY <1>1 DEF LearningContract
<1>3. /\ contracts' = [contracts EXCEPT ![c] = [contracts[c] EXCEPT !.state = to]]
      /\ contracts' \in [ContractIds -> LearningContract \cup {NoContract}]
  BY <1>2 DEF SaveState, TypeOK
<1>4. Transition(from, to) \in LoggedTransition
  BY DEF Transition, LoggedTransition, States
<1>5. /\ trail' \in [ContractIds -> Seq(LoggedTransition)]
      /\ trail'[c] = Append(trail[c], Transition(from, to))
      /\ \A x \in ContractIds \ {c} : trail'[x] = trail[x]
  BY <1>4 DEF LogTransition, TypeOK
<1>6. TypeOK'
  BY <1>3, <1>5 DEF TypeOK
<1>7. \A x \in ContractIds \ {c} : contracts'[x] = contracts[x]
  BY <1>3 DEF TypeOK
<1>8. contracts'[c].state = to /\ contracts'[c] # NoContract
  <2>1. contracts'[c] = [contracts[c] EXCEPT !.state = to]
    BY <1>3 DEF TypeOK
  <2>2. contracts'[c] \in LearningContract
    BY <2>1, <1>2
  <2>3. contracts'[c].state = to
    BY <2>1, <1>1 DEF LearningContract
  <2> QED BY <2>2, <2>3, NoContractAssumption
<1>9. \A x \in ContractIds : StateOf(x)' = IF x = c THEN to ELSE StateOf(x)
  BY <1>7, <1>8 DEF StateOf, Exists
<1>10. ASSUME NEW x \in ContractIds PROVE PointStep(x)
  BY <1>5, <1>9 DEF PointStep, Moves, Stays
<1> QED BY <1>6, <1>9, <1>10

\* A new contract in the store: createContract's whole effect.
LEMMA CreateStep ==
    ASSUME TypeOK, NEW c \in ContractIds, NEW user \in Users, NEW d \in Drafts,
           CreateContract(c, user, d)
    PROVE  /\ TypeOK'
           /\ \A x \in ContractIds : PointStep(x)
           /\ Diagram!Create(c)
<1> DEFINE new == NewContract(d, user, now, NoContract)
<1>1. new \in LearningContract /\ new.state = "draft" /\ new # NoContract
  BY NewContractType, DraftsAssumption, NoContractAssumption DEF TypeOK
<1>2. Transition("none", "draft") \in LoggedTransition
  BY DEF Transition, LoggedTransition, ContractState
<1>3. /\ contracts' = [contracts EXCEPT ![c] = new]
      /\ trail' = [trail EXCEPT ![c] = Append(@, Transition("none", "draft"))]
      /\ now' = now /\ ~Exists(c)
  BY DEF CreateContract, LogTransition
<1>4. TypeOK'
  BY <1>1, <1>2, <1>3 DEF TypeOK
<1>5. \A x \in ContractIds : StateOf(x)' = IF x = c THEN "draft" ELSE StateOf(x)
  BY <1>1, <1>3 DEF TypeOK, StateOf, Exists
<1>6. ASSUME NEW x \in ContractIds PROVE PointStep(x)
  <2>1. CASE x = c
    <3>1. StateOf(x) = "none"
      BY <1>3, <2>1 DEF StateOf
    <3>2. trail'[x] = Append(trail[x], Transition("none", "draft"))
      BY <1>3, <2>1 DEF TypeOK
    <3>3. Moves(x, "none", "draft")
      BY <3>1, <3>2, <1>5, <2>1 DEF Moves
    <3> QED BY <3>3 DEF PointStep, States, ContractState
  <2>2. CASE x # c
    BY <2>2, <1>3, <1>5 DEF PointStep, Stays, TypeOK
  <2> QED BY <2>1, <2>2
<1>7. Diagram!Create(c)
  <2>1. StateOf(c) = "none"
    BY <1>3 DEF StateOf
  <2> QED BY <2>1, <1>5 DEF Diagram!Create
<1> QED BY <1>4, <1>6, <1>7

\* Submission moves one contract to review, out of draft or amended.
LEMMA SubmitStep ==
    ASSUME TypeOK, NEW c \in ContractIds, SubmitForReview(c)
    PROVE  /\ TypeOK'
           /\ \A x \in ContractIds : PointStep(x)
           /\ Diagram!Submit(c)
<1>1. Exists(c) /\ StateOf(c) = contracts[c].state /\ StateOf(c) \in ContractState
  BY StoredType DEF SubmitForReview
<1>2. StateOf(c) \in {"draft", "amended"}
  BY <1>1 DEF SubmitForReview, ValidTransition, ValidTransitions, ContractState
<1>3. /\ TypeOK'
      /\ \A x \in ContractIds : StateOf(x)' = IF x = c THEN "review" ELSE StateOf(x)
      /\ \A x \in ContractIds : PointStep(x)
  BY <1>1, <1>2, SaveAndLog DEF SubmitForReview, States, ContractState
<1> QED BY <1>2, <1>3 DEF Diagram!Submit

\* Activation moves one contract to active, out of review.
LEMMA ActivateStep ==
    ASSUME TypeOK, NEW c \in ContractIds, ActivateContract(c)
    PROVE  /\ TypeOK'
           /\ \A x \in ContractIds : PointStep(x)
           /\ Diagram!Activate(c)
<1>1. Exists(c) /\ StateOf(c) = contracts[c].state /\ StateOf(c) \in ContractState
  BY StoredType DEF ActivateContract
<1>2. StateOf(c) = "review"
  BY <1>1 DEF ActivateContract, ValidTransition, ValidTransitions, ContractState
<1>3. /\ TypeOK'
      /\ \A x \in ContractIds : StateOf(x)' = IF x = c THEN "active" ELSE StateOf(x)
      /\ \A x \in ContractIds : PointStep(x)
  BY <1>1, <1>2, SaveAndLog DEF ActivateContract, States, ContractState
<1> QED BY <1>2, <1>3 DEF Diagram!Activate

\* Revocation moves one contract to revoked, out of active.
LEMMA RevokeStep ==
    ASSUME TypeOK, NEW c \in ContractIds, RevokeContract(c)
    PROVE  /\ TypeOK'
           /\ \A x \in ContractIds : PointStep(x)
           /\ Diagram!Revoke(c)
<1>1. Exists(c) /\ StateOf(c) = contracts[c].state /\ StateOf(c) \in ContractState
  BY StoredType DEF RevokeContract
<1>2. StateOf(c) = "active"
  BY <1>1 DEF RevokeContract, ValidTransition, ValidTransitions, ContractState
<1>3. /\ TypeOK'
      /\ \A x \in ContractIds : StateOf(x)' = IF x = c THEN "revoked" ELSE StateOf(x)
      /\ \A x \in ContractIds : PointStep(x)
  BY <1>1, <1>2, SaveAndLog DEF RevokeContract, States, ContractState
<1> QED BY <1>2, <1>3 DEF Diagram!Revoke

\* amend moves two contracts in one step: the original and its replacement.
LEMMA AmendStep ==
    ASSUME TypeOK, NEW c \in ContractIds, NEW new \in ContractIds, NEW user \in Users,
           NEW d \in Drafts, NEW fields \in ChangeSets,
           AmendContract(c, new, user, d, fields)
    PROVE  /\ TypeOK'
           /\ \A x \in ContractIds : PointStep(x)
           /\ Diagram!Amend(c, new)
<1> DEFINE draft == Replacement(c, user, d, fields)
           old == [contracts[c] EXCEPT !.state = "amended"]
<1>1. /\ Exists(c) /\ StateOf(c) = contracts[c].state /\ StateOf(c) \in ContractState
      /\ contracts[c] \in LearningContract
  BY StoredType DEF AmendContract
<1>2. StateOf(c) = "active"
  BY <1>1 DEF AmendContract, ValidTransition, ValidTransitions, ContractState
<1>3. c # new /\ StateOf(new) = "none"
  BY <1>1 DEF AmendContract, StateOf
<1>4. draft \in LearningContract /\ draft.state = "draft" /\ draft # NoContract
  <2>1. Amended(contracts[c], d, fields) \in ContractDraft
    BY <1>1, AmendedType, DraftsAssumption
  <2>2. draft \in LearningContract /\ draft.state = "draft"
    BY <2>1, NewContractType DEF Replacement, TypeOK
  <2> QED BY <2>2, NoContractAssumption
<1>5. old \in LearningContract /\ old.state = "amended" /\ old # NoContract
  <2>1. old \in LearningContract /\ old.state = "amended"
    BY <1>1 DEF LearningContract, ContractState
  <2> QED BY <2>1, NoContractAssumption
<1>6. contracts' = [contracts EXCEPT ![c] = old, ![new] = draft] /\ now' = now
  BY <1>3 DEF AmendContract, TypeOK
<1>7. trail' = [trail EXCEPT ![c] = Append(@, Transition("active", "amended")),
                             ![new] = Append(@, Transition("none", "draft"))]
  BY DEF AmendContract
<1>8. /\ Transition("active", "amended") \in LoggedTransition
      /\ Transition("none", "draft") \in LoggedTransition
  BY DEF Transition, LoggedTransition, ContractState
<1>9. /\ trail' \in [ContractIds -> Seq(LoggedTransition)]
      /\ trail'[c] = Append(trail[c], Transition("active", "amended"))
      /\ trail'[new] = Append(trail[new], Transition("none", "draft"))
      /\ \A x \in ContractIds \ {c, new} : trail'[x] = trail[x]
  <2> DEFINE a == Append(trail[c], Transition("active", "amended"))
             b == Append(trail[new], Transition("none", "draft"))
  <2>1. trail[c] \in Seq(LoggedTransition) /\ trail[new] \in Seq(LoggedTransition)
    BY DEF TypeOK
  <2>2. a \in Seq(LoggedTransition) /\ b \in Seq(LoggedTransition)
    BY <2>1, <1>8
  <2>3. trail' = [trail EXCEPT ![c] = a, ![new] = b]
    BY <1>3, <1>7 DEF TypeOK
  <2> HIDE DEF a, b
  <2>4. /\ trail' \in [ContractIds -> Seq(LoggedTransition)]
        /\ trail'[c] = a /\ trail'[new] = b
        /\ \A x \in ContractIds \ {c, new} : trail'[x] = trail[x]
    BY <1>3, <2>2, <2>3 DEF TypeOK
  <2> QED BY <2>4 DEF a, b
<1>10. /\ contracts' \in [ContractIds -> LearningContract \cup {NoContract}]
       /\ contracts'[c] = old /\ contracts'[new] = draft
       /\ \A x \in ContractIds \ {c, new} : contracts'[x] = contracts[x]
  BY <1>3, <1>4, <1>5, <1>6 DEF TypeOK
<1>11. TypeOK'
  BY <1>6, <1>9, <1>10 DEF TypeOK
<1>12. \A x \in ContractIds : StateOf(x)' =
          IF x = c THEN "amended" ELSE IF x = new THEN "draft" ELSE StateOf(x)
  BY <1>4, <1>5, <1>10 DEF StateOf, Exists
<1>13. ASSUME NEW x \in ContractIds PROVE PointStep(x)
  <2>1. CASE x = c
    <3>1. Moves(x, "active", "amended")
      BY <2>1, <1>2, <1>9, <1>12 DEF Moves
    <3> QED BY <3>1 DEF PointStep, States, ContractState
  <2>2. CASE x = new
    <3>1. Moves(x, "none", "draft")
      BY <2>2, <1>3, <1>9, <1>12 DEF Moves
    <3> QED BY <3>1 DEF PointStep, States, ContractState
  <2>3. CASE x \notin {c, new}
    BY <2>3, <1>9, <1>12 DEF PointStep, Stays
  <2> QED BY <2>1, <2>2, <2>3
<1>14. Diagram!Amend(c, new)
  BY <1>2, <1>3, <1>12 DEF Diagram!Amend
<1> QED BY <1>11, <1>13, <1>14

\* An amendment that throws appends to the trail of an active contract that
\* stays active.
LEMMA AmendThrowsStep ==
    ASSUME TypeOK, NEW c \in ContractIds, NEW user \in Users, NEW d \in Drafts,
           NEW fields \in ChangeSets, AmendContractThrows(c, user, d, fields)
    PROVE  /\ TypeOK'
           /\ \A x \in ContractIds : PointStep(x)
           /\ \A x \in ContractIds : StateOf(x)' = StateOf(x)
<1>1. Exists(c) /\ StateOf(c) = contracts[c].state /\ StateOf(c) \in ContractState
  BY StoredType DEF AmendContractThrows
<1>2. StateOf(c) = "active"
  BY <1>1 DEF AmendContractThrows, ValidTransition, ValidTransitions, ContractState
<1>3. \A x \in ContractIds : StateOf(x)' = StateOf(x)
  BY DEF AmendContractThrows, StateOf, Exists
<1>4. Transition("active", "amended") \in LoggedTransition
  BY DEF Transition, LoggedTransition, ContractState
<1>5. /\ trail' \in [ContractIds -> Seq(LoggedTransition)]
      /\ trail'[c] = Append(trail[c], Transition("active", "amended"))
      /\ \A x \in ContractIds \ {c} : trail'[x] = trail[x]
  BY <1>4 DEF AmendContractThrows, LogTransition, TypeOK
<1>6. TypeOK'
  BY <1>5 DEF AmendContractThrows, TypeOK
<1>7. ASSUME NEW x \in ContractIds PROVE PointStep(x)
  <2>1. CASE x = c
    <3>1. Moves(x, "active", "amended")
      BY <2>1, <1>2, <1>3, <1>5 DEF Moves
    <3> QED BY <3>1 DEF PointStep, States, ContractState
  <2>2. CASE x # c
    BY <2>2, <1>3, <1>5 DEF PointStep, Stays
  <2> QED BY <2>1, <2>2
<1> QED BY <1>3, <1>6, <1>7

\* Expiring a set of active contracts, whoever asks for it.
LEMMA ExpireStep ==
    ASSUME TypeOK, NEW S \in SUBSET ContractIds, \A c \in S : InState(c, "active"),
           ExpireEach(S), now' = now
    PROVE  /\ TypeOK'
           /\ \A x \in ContractIds : PointStep(x)
           /\ Diagram!Expire(S)
<1>1. \A c \in S : /\ StateOf(c) = "active" /\ Exists(c)
                   /\ contracts[c] \in LearningContract
  BY StoredType DEF InState
<1>2. ASSUME NEW c \in S
      PROVE  /\ [contracts[c] EXCEPT !.state = "expired"] \in LearningContract
             /\ [contracts[c] EXCEPT !.state = "expired"].state = "expired"
  BY <1>1 DEF LearningContract, ContractState
<1>3. Transition("active", "expired") \in LoggedTransition
  BY DEF Transition, LoggedTransition, ContractState
<1>4. contracts' \in [ContractIds -> LearningContract \cup {NoContract}]
  BY <1>2 DEF ExpireEach, TypeOK
<1>5. trail' \in [ContractIds -> Seq(LoggedTransition)]
  BY <1>3 DEF ExpireEach, TypeOK
<1>6. TypeOK'
  BY <1>4, <1>5 DEF TypeOK
<1>7. \A x \in ContractIds : StateOf(x)' = IF x \in S THEN "expired" ELSE StateOf(x)
  <2> TAKE x \in ContractIds
  <2>1. CASE x \in S
    <3>1. contracts'[x] = [contracts[x] EXCEPT !.state = "expired"]
      BY <2>1 DEF ExpireEach
    <3>2. contracts'[x].state = "expired" /\ contracts'[x] # NoContract
      BY <3>1, <2>1, <1>2, NoContractAssumption
    <3> QED BY <3>2, <2>1 DEF StateOf, Exists
  <2>2. CASE x \notin S
    BY <2>2 DEF ExpireEach, StateOf, Exists
  <2> QED BY <2>1, <2>2
<1>8. ASSUME NEW x \in ContractIds PROVE PointStep(x)
  <2>1. CASE x \in S
    <3>1. Moves(x, "active", "expired")
      BY <2>1, <1>1, <1>7 DEF Moves, ExpireEach
    <3> QED BY <3>1 DEF PointStep, States, ContractState
  <2>2. CASE x \notin S
    BY <2>2, <1>7 DEF PointStep, Stays, ExpireEach
  <2> QED BY <2>1, <2>2
<1>9. Diagram!Expire(S)
  BY <1>1, <1>7 DEF Diagram!Expire
<1> QED BY <1>6, <1>8, <1>9
-----------------------------------------------------------------------------
(***************************************************************************)
(* All steps together.                                                     *)
(***************************************************************************)
DiagramStep ==
    Diagram!Next \/ [c \in ContractIds |-> StateOf(c)]' = [c \in ContractIds |-> StateOf(c)]

\* Every step keeps the types, moves each contract by at most one logged transition,
\* and is a step of the diagram or a stutter of it.
LEMMA StepLemma ==
    ASSUME TypeOK, [Next]_lifecycleVars
    PROVE  /\ TypeOK'
           /\ \A x \in ContractIds : PointStep(x)
           /\ DiagramStep
<1>1. ASSUME NEW c \in ContractIds, NEW user \in Users, NEW d \in Drafts,
             CreateContract(c, user, d)
      PROVE  TypeOK' /\ (\A x \in ContractIds : PointStep(x)) /\ DiagramStep
  BY <1>1, CreateStep DEF DiagramStep, Diagram!Next
<1>2. ASSUME NEW c \in ContractIds, SubmitForReview(c)
      PROVE  TypeOK' /\ (\A x \in ContractIds : PointStep(x)) /\ DiagramStep
  BY <1>2, SubmitStep DEF DiagramStep, Diagram!Next
<1>3. ASSUME NEW c \in ContractIds, ActivateContract(c)
      PROVE  TypeOK' /\ (\A x \in ContractIds : PointStep(x)) /\ DiagramStep
  BY <1>3, ActivateStep DEF DiagramStep, Diagram!Next
<1>4. ASSUME NEW c \in ContractIds, RevokeContract(c)
      PROVE  TypeOK' /\ (\A x \in ContractIds : PointStep(x)) /\ DiagramStep
  BY <1>4, RevokeStep DEF DiagramStep, Diagram!Next
<1>5. ASSUME NEW c \in ContractIds, NEW new \in ContractIds, NEW user \in Users,
             NEW d \in Drafts, NEW fields \in ChangeSets,
             AmendContract(c, new, user, d, fields)
      PROVE  TypeOK' /\ (\A x \in ContractIds : PointStep(x)) /\ DiagramStep
  BY <1>5, AmendStep DEF DiagramStep, Diagram!Next
<1>6. ASSUME NEW c \in ContractIds, NEW user \in Users, NEW d \in Drafts,
             NEW fields \in ChangeSets, AmendContractThrows(c, user, d, fields)
      PROVE  TypeOK' /\ (\A x \in ContractIds : PointStep(x)) /\ DiagramStep
  BY <1>6, AmendThrowsStep DEF DiagramStep
<1>7. ASSUME ExpireOldContracts
      PROVE  TypeOK' /\ (\A x \in ContractIds : PointStep(x)) /\ DiagramStep
  <2>1. ExpiredContracts \in SUBSET ContractIds
        /\ \A c \in ExpiredContracts : InState(c, "active")
    BY DEF ExpiredContracts
  <2>2. ExpireEach(ExpiredContracts) /\ now' = now
    BY <1>7 DEF ExpireOldContracts
  <2> QED BY <2>1, <2>2, ExpireStep DEF DiagramStep, Diagram!Next
<1>8. ASSUME Tick \/ UNCHANGED lifecycleVars
      PROVE  TypeOK' /\ (\A x \in ContractIds : PointStep(x)) /\ DiagramStep
  <2>1. contracts' = contracts /\ trail' = trail /\ (now' = now + 1 \/ now' = now)
    BY <1>8 DEF Tick, lifecycleVars
  <2>2. TypeOK'
    BY <2>1 DEF TypeOK
  <2>3. \A x \in ContractIds : StateOf(x)' = StateOf(x)
    BY <2>1 DEF StateOf, Exists
  <2> QED BY <2>1, <2>2, <2>3 DEF PointStep, Stays, DiagramStep
<1> QED BY <1>1, <1>2, <1>3, <1>4, <1>5, <1>6, <1>7, <1>8 DEF Next, LifecycleStep, ContractStep

\* What moves each contract by at most one logged transition keeps the trails right.
LEMMA TrailStep ==
    ASSUME TypeOK, TrailInv, \A x \in ContractIds : PointStep(x)
    PROVE  TrailInv'
<1> SUFFICES ASSUME NEW x \in ContractIds
             PROVE  ContractInv(StateOf(x)', trail'[x])
  BY DEF TrailInv, ContractInv
<1>1. /\ StateOf(x) \in States /\ trail[x] \in Seq(LoggedTransition)
      /\ ContractInv(StateOf(x), trail[x])
  BY StoredType DEF TrailInv, TypeOK, States
<1>2. CASE Stays(x)
  BY <1>1, <1>2 DEF Stays
<1>3. ASSUME NEW from \in States, NEW to \in ContractState, Moves(x, from, to)
      PROVE  ContractInv(StateOf(x)', trail'[x])
  BY <1>1, <1>3, AppendKeeps DEF Moves
<1> QED BY <1>2, <1>3 DEF PointStep

\* The variables always have their types.
THEOREM TypeCorrect == Spec => []TypeOK
<1>1. Init => TypeOK
  BY DEF Init, TypeOK
<1>2. TypeOK /\ [Next]_lifecycleVars => TypeOK'
  BY StepLemma
<1> QED BY <1>1, <1>2, PTL DEF Spec

\* The strengthened invariant of the trails.
LEMMA TrailInit == Init => TrailInv
<1>1. ContractInv("none", <<>>)
  BY DEF ContractInv
<1>2. Init => \A c \in ContractIds : StateOf(c) = "none" /\ trail[c] = <<>>
  BY DEF Init, StateOf, Exists
<1> QED BY <1>1, <1>2 DEF TrailInv

LEMMA TrailInvariant == Spec => []TrailInv
<1>1. TypeOK /\ TrailInv /\ [Next]_lifecycleVars => TrailInv'
  BY StepLemma, TrailStep
<1> QED BY <1>1, TrailInit, TypeCorrect, PTL DEF Spec

\* What the strengthened invariant is for.
LEMMA TrailSuffices ==
    ASSUME TypeOK, TrailInv
    PROVE  TrailTracksStore /\ EveryActivationReviewed /\ NothingAfterTheEnd
<1>1. EveryActivationReviewed /\ NothingAfterTheEnd
  BY DEF TrailInv, ContractInv, EveryActivationReviewed, NothingAfterTheEnd
<1>2. ASSUME NEW c \in ContractIds
      PROVE  IF Exists(c)
             THEN /\ trail[c] # <<>>
                  /\ \/ LastLogged(c) = contracts[c].state
                     \/ LastLogged(c) = "amended" /\ contracts[c].state = "active"
             ELSE trail[c] = <<>>
  <2>1. ContractInv(StateOf(c), trail[c])
    BY DEF TrailInv
  <2> QED BY <2>1, StoredType DEF ContractInv, LastLogged
<1>3. TrailTracksStore
  BY <1>2 DEF TrailTracksStore
<1> QED BY <1>1, <1>3

\* lifecycle.ts logs every transition it lets through: the trail ends in the stored
\* state, but for an amendment that threw.
THEOREM AuditTracksStore == Spec => []TrailTracksStore
BY TrailSuffices, TypeCorrect, TrailInvariant, PTL

\* No contract becomes active unless the entry before submitted it for review.
THEOREM ActivationsAreReviewed == Spec => []EveryActivationReviewed
BY TrailSuffices, TypeCorrect, TrailInvariant, PTL

\* Nothing follows expired or revoked in a contract's trail.
THEOREM EndedContractsStayEnded == Spec => []NothingAfterTheEnd
BY TrailSuffices, TypeCorrect, TrailInvariant, PTL

\* The system implements the lifecycle diagram.
THEOREM ImplementsDiagram == Spec => DiagramSpec
<1>1. Init => Diagram!Init
  BY DEF Init, Diagram!Init, StateOf, Exists
<1>2. TypeOK /\ [Next]_lifecycleVars => [Diagram!Next]_([c \in ContractIds |-> StateOf(c)])
  BY StepLemma DEF DiagramStep
<1> QED BY <1>1, <1>2, TypeCorrect, PTL DEF Spec, DiagramSpec, Diagram!Spec

\* No operation changes a stored state without appending its entry, and none
\* rewrites an entry.
THEOREM TransitionsAreLogged == Spec => NoUnloggedTransition
<1> DEFINE A == \A c \in ContractIds :
          /\ StateOf(c)' # StateOf(c) =>
                \E from \in ContractState \cup {"none"} :
                   trail'[c] = Append(trail[c], Transition(from, StateOf(c)'))
          /\ Len(trail'[c]) >= Len(trail[c])
          /\ SubSeq(trail'[c], 1, Len(trail[c])) = trail[c]
<1>1. ASSUME TypeOK, [Next]_lifecycleVars PROVE A
  <2> TAKE c \in ContractIds
  <2>1. PointStep(c) /\ trail[c] \in Seq(LoggedTransition)
    BY <1>1, StepLemma DEF TypeOK
  <2>2. CASE Stays(c)
    BY <2>1, <2>2 DEF Stays
  <2>3. ASSUME NEW from \in States, NEW to \in ContractState, Moves(c, from, to)
        PROVE  /\ StateOf(c)' # StateOf(c) => trail'[c] = Append(trail[c], Transition(from, StateOf(c)'))
               /\ Len(trail'[c]) >= Len(trail[c])
               /\ SubSeq(trail'[c], 1, Len(trail[c])) = trail[c]
    <3>1. Transition(from, to) \in LoggedTransition
      BY DEF Transition, LoggedTransition, States
    <3>2. trail'[c] = Append(trail[c], Transition(from, to))
      BY <2>3 DEF Moves
    <3>3. /\ Len(trail'[c]) = Len(trail[c]) + 1 /\ Len(trail[c]) \in Nat
          /\ SubSeq(trail'[c], 1, Len(trail[c])) = trail[c]
      BY <2>1, <3>1, <3>2
    <3>4. StateOf(c)' # StateOf(c) => StateOf(c)' = to
      BY <2>3 DEF Moves
    <3> QED BY <3>2, <3>3, <3>4
  <2> QED BY <2>1, <2>2, <2>3 DEF PointStep, States
<1>2. TypeOK /\ [Next]_lifecycleVars => [A]_lifecycleVars
  BY <1>1
<1> QED BY <1>2, TypeCorrect, PTL DEF Spec, NoUnloggedTransition
-----------------------------------------------------------------------------
(***************************************************************************)
(* What one step does to one stored contract: its terms are never touched, *)
(* only its state moves; a contract that enters the store is valid and     *)
(* created now, and when it amends another one the trail of that one says  *)
(* so.                                                                     *)
(***************************************************************************)
Restated(x) ==
    /\ Exists(x)
    /\ \E s \in ContractState : contracts'[x] = [contracts[x] EXCEPT !.state = s]

Enters(x) ==
    /\ ~Exists(x)
    /\ contracts'[x] \in LearningContract /\ Validate(contracts'[x])
    /\ contracts'[x].created_at = now
    /\ contracts'[x].amended_from # NoContract =>
          LET from == contracts'[x].amended_from IN
          /\ Exists(from) /\ from # x
          /\ trail'[from] = Append(trail[from], Transition("active", "amended"))

StoreStep(x) == contracts'[x] = contracts[x] \/ Restated(x) \/ Enters(x)

\* Saving a contract with another state touches nothing else of it and no other contract.
LEMMA SaveStore ==
    ASSUME TypeOK, NEW c \in ContractIds, Exists(c), NEW s \in ContractState, SaveState(c, s)
    PROVE  \A x \in ContractIds : StoreStep(x)
<1>1. contracts' = [contracts EXCEPT ![c] = [contracts[c] EXCEPT !.state = s]]
  BY DEF SaveState
<1> TAKE x \in ContractIds
<1>2. CASE x = c
  BY <1>1, <1>2 DEF TypeOK, StoreStep, Restated
<1>3. CASE x # c
  BY <1>1, <1>3 DEF TypeOK, StoreStep
<1> QED BY <1>2, <1>3

\* Expiring contracts, whoever does it, touches nothing else of them.
LEMMA ExpireStore ==
    ASSUME NEW S \in SUBSET ContractIds, \A c \in S : Exists(c), ExpireEach(S)
    PROVE  \A x \in ContractIds : StoreStep(x)
BY DEF ExpireEach, StoreStep, Restated, ContractState

\* Amending: the original changes its state, the new draft enters.
LEMMA AmendStore ==
    ASSUME TypeOK, NEW c \in ContractIds, NEW new \in ContractIds, NEW user \in Users,
           NEW d \in Drafts, NEW fields \in ChangeSets,
           AmendContract(c, new, user, d, fields)
    PROVE  \A x \in ContractIds : StoreStep(x)
<1> DEFINE draft == Replacement(c, user, d, fields)
<1>1. Exists(c) /\ ~Exists(new) /\ c # new /\ contracts[c] \in LearningContract
  BY StoredType DEF AmendContract
<1>2. draft \in LearningContract /\ draft.created_at = now /\ draft.amended_from = c
  <2>1. Amended(contracts[c], d, fields) \in ContractDraft
    BY <1>1, AmendedType, DraftsAssumption
  <2> QED BY <2>1, NewContractType DEF Replacement, NewContract, TypeOK
<1>3. /\ contracts' = [contracts EXCEPT ![c].state = "amended", ![new] = draft]
      /\ trail' = [trail EXCEPT ![c] = Append(@, Transition("active", "amended")),
                                ![new] = Append(@, Transition("none", "draft"))]
      /\ Validate(draft)
  BY DEF AmendContract
<1> HIDE DEF draft
<1> TAKE x \in ContractIds
<1>4. CASE x = c
  <2>1. contracts'[x] = [contracts[x] EXCEPT !.state = "amended"]
    BY <1>1, <1>3, <1>4 DEF TypeOK
  <2> QED BY <2>1, <1>1, <1>4 DEF StoreStep, Restated, ContractState
<1>5. CASE x = new
  <2>1. contracts'[x] = draft
    BY <1>1, <1>3, <1>5 DEF TypeOK
  <2>2. trail'[c] = Append(trail[c], Transition("active", "amended"))
    BY <1>1, <1>3 DEF TypeOK
  <2> QED BY <2>1, <2>2, <1>1, <1>2, <1>3, <1>5 DEF StoreStep, Enters
<1>6. CASE x \notin {c, new}
  BY <1>3, <1>6 DEF TypeOK, StoreStep
<1> QED BY <1>4, <1>5, <1>6

\* Every step of the lifecycle.
LEMMA StoreLemma ==
    ASSUME TypeOK, [Next]_lifecycleVars
    PROVE  \A x \in ContractIds : StoreStep(x)
<1>1. ASSUME NEW c \in ContractIds, NEW user \in Users, NEW d \in Drafts,
             CreateContract(c, user, d)
      PROVE  \A x \in ContractIds : StoreStep(x)
  <2> DEFINE new == NewContract(d, user, now, NoContract)
  <2>1. new \in LearningContract /\ new.created_at = now /\ new.amended_from = NoContract
    BY NewContractType, DraftsAssumption DEF TypeOK, NewContract
  <2>2. contracts' = [contracts EXCEPT ![c] = new] /\ ~Exists(c) /\ Validate(new)
    BY <1>1 DEF CreateContract
  <2> HIDE DEF new
  <2> QED BY <2>1, <2>2 DEF TypeOK, StoreStep, Enters
<1>2. ASSUME NEW c \in ContractIds, SubmitForReview(c)
      PROVE  \A x \in ContractIds : StoreStep(x)
  BY <1>2, SaveStore DEF SubmitForReview, ContractState
<1>3. ASSUME NEW c \in ContractIds, ActivateContract(c)
      PROVE  \A x \in ContractIds : StoreStep(x)
  BY <1>3, SaveStore DEF ActivateContract, ContractState
<1>4. ASSUME NEW c \in ContractIds, RevokeContract(c)
      PROVE  \A x \in ContractIds : StoreStep(x)
  BY <1>4, SaveStore DEF RevokeContract, ContractState
<1>5. ASSUME NEW c \in ContractIds, NEW new \in ContractIds, NEW user \in Users,
             NEW d \in Drafts, NEW fields \in ChangeSets,
             AmendContract(c, new, user, d, fields)
      PROVE  \A x \in ContractIds : StoreStep(x)
  BY <1>5, AmendStore
<1>6. ASSUME NEW c \in ContractIds, NEW user \in Users, NEW d \in Drafts,
             NEW fields \in ChangeSets, AmendContractThrows(c, user, d, fields)
      PROVE  \A x \in ContractIds : StoreStep(x)
  BY <1>6 DEF AmendContractThrows, StoreStep
<1>7. ASSUME ExpireOldContracts
      PROVE  \A x \in ContractIds : StoreStep(x)
  <2>1. /\ ExpiredContracts \in SUBSET ContractIds
        /\ \A c \in ExpiredContracts : Exists(c)
    BY DEF ExpiredContracts, InState
  <2> QED BY <1>7, <2>1, ExpireStore DEF ExpireOldContracts
<1>8. ASSUME Tick \/ UNCHANGED lifecycleVars
      PROVE  \A x \in ContractIds : StoreStep(x)
  BY <1>8 DEF Tick, lifecycleVars, StoreStep
<1> QED BY <1>1, <1>2, <1>3, <1>4, <1>5, <1>6, <1>7, <1>8 DEF Next, LifecycleStep, ContractStep

\* A stored contract stays stored, with its type, owner, creation and terms.
LEMMA TermsStay ==
    ASSUME TypeOK, NEW x \in ContractIds, StoreStep(x), Exists(x)
    PROVE  /\ Exists(x)' /\ contracts'[x] \in LearningContract
           /\ contracts'[x].created_at = contracts[x].created_at
           /\ contracts'[x].created_by = contracts[x].created_by
           /\ contracts'[x].amended_from = contracts[x].amended_from
           /\ contracts'[x].memory_permissions = contracts[x].memory_permissions
           /\ contracts'[x].contract_type = contracts[x].contract_type
           /\ contracts'[x].scope = contracts[x].scope
           /\ contracts'[x].recall_rules = contracts[x].recall_rules
           /\ contracts'[x].generalization_rules = contracts[x].generalization_rules
           /\ contracts'[x].expiration = contracts[x].expiration
           /\ contracts'[x].revocable = contracts[x].revocable
<1>1. contracts[x] \in LearningContract
  BY StoredType
<1>2. CASE contracts'[x] = contracts[x]
  BY <1>1, <1>2 DEF Exists
<1>3. ASSUME NEW s \in ContractState, contracts'[x] = [contracts[x] EXCEPT !.state = s]
      PROVE  /\ contracts'[x] \in LearningContract
             /\ contracts'[x].created_at = contracts[x].created_at
             /\ contracts'[x].created_by = contracts[x].created_by
             /\ contracts'[x].amended_from = contracts[x].amended_from
             /\ contracts'[x].memory_permissions = contracts[x].memory_permissions
             /\ contracts'[x].contract_type = contracts[x].contract_type
             /\ contracts'[x].scope = contracts[x].scope
             /\ contracts'[x].recall_rules = contracts[x].recall_rules
             /\ contracts'[x].generalization_rules = contracts[x].generalization_rules
             /\ contracts'[x].expiration = contracts[x].expiration
             /\ contracts'[x].revocable = contracts[x].revocable
  BY <1>1, <1>3 DEF LearningContract
<1> QED BY <1>2, <1>3, NoContractAssumption DEF StoreStep, Restated, Enters, Exists

\* What is stored was validated when it was built, and its terms stayed.
StoredValid == \A c \in ContractIds : Exists(c) => Validate(contracts[c])

LEMMA ValidStep ==
    ASSUME TypeOK, StoredValid, \A x \in ContractIds : StoreStep(x)
    PROVE  StoredValid'
<1> SUFFICES ASSUME NEW c \in ContractIds, Exists(c)' PROVE Validate(contracts'[c])
  BY DEF StoredValid
<1>1. CASE Exists(c)
  <2>1. Validate(contracts[c])
    BY <1>1 DEF StoredValid
  <2>2. /\ contracts'[c].created_at = contracts[c].created_at
        /\ contracts'[c].memory_permissions = contracts[c].memory_permissions
        /\ contracts'[c].contract_type = contracts[c].contract_type
        /\ contracts'[c].recall_rules = contracts[c].recall_rules
        /\ contracts'[c].generalization_rules = contracts[c].generalization_rules
        /\ contracts'[c].expiration = contracts[c].expiration
    BY <1>1, TermsStay
  <2> QED BY <2>1, <2>2 DEF Validate, TypeSpecificRules
<1>2. CASE ~Exists(c)
  BY <1>2 DEF StoreStep, Restated, Enters, Exists
<1> QED BY <1>1, <1>2

\* What an amendment needs to stay accounted for: no contract is younger than the clock.
CreatedInPast == \A c \in ContractIds : Exists(c) => contracts[c].created_at <= now

LEMMA ClockStep ==
    ASSUME TypeOK, CreatedInPast, \A x \in ContractIds : StoreStep(x), now' \in Nat, now' >= now
    PROVE  CreatedInPast'
<1> SUFFICES ASSUME NEW c \in ContractIds, Exists(c)'
             PROVE  contracts'[c].created_at <= now'
  BY DEF CreatedInPast
<1>1. CASE Exists(c)
  <2>1. contracts'[c].created_at = contracts[c].created_at /\ contracts[c] \in LearningContract
    BY <1>1, TermsStay, StoredType
  <2> QED BY <2>1, <1>1 DEF CreatedInPast, TypeOK, LearningContract
<1>2. CASE ~Exists(c)
  BY <1>2 DEF StoreStep, Restated, Enters, Exists, TypeOK
<1> QED BY <1>1, <1>2

\* A trail that is appended to keeps what it says, and gains what is appended.
WasLogged(x, s) == \E i \in DOMAIN trail[x] : trail[x][i].new_state = s

LEMMA AppendLogs ==
    ASSUME TypeOK, NEW x \in ContractIds, NEW from \in States, NEW to \in ContractState,
           trail'[x] = Append(trail[x], Transition(from, to))
    PROVE  /\ WasLogged(x, to)'
           /\ \A s : WasLogged(x, s) => WasLogged(x, s)'
<1> DEFINE e == Transition(from, to)
<1>1. e \in LoggedTransition /\ e.new_state = to
  BY DEF Transition, LoggedTransition, States
<1>2. trail[x] \in Seq(LoggedTransition) /\ trail'[x] = Append(trail[x], e)
  BY DEF TypeOK
<1> HIDE DEF e
<1>3. Len(trail[x]) + 1 \in DOMAIN trail'[x] /\ trail'[x][Len(trail[x]) + 1] = e
  BY <1>1, <1>2
<1>4. \A i \in DOMAIN trail[x] : i \in DOMAIN trail'[x] /\ trail'[x][i] = trail[x][i]
  BY <1>1, <1>2
<1> QED BY <1>1, <1>3, <1>4 DEF WasLogged

LEMMA TrailGrows ==
    ASSUME TypeOK, NEW x \in ContractIds, PointStep(x), NEW s, WasLogged(x, s)
    PROVE  WasLogged(x, s)'
<1>1. CASE Stays(x)
  BY <1>1 DEF Stays, WasLogged
<1>2. ASSUME NEW from \in States, NEW to \in ContractState, Moves(x, from, to)
      PROVE  WasLogged(x, s)'
  BY <1>2, AppendLogs DEF Moves
<1> QED BY <1>1, <1>2 DEF PointStep

LEMMA AmendmentsStep ==
    ASSUME TypeOK, TypeOK', CreatedInPast, AmendmentsAreAccountedFor,
           \A x \in ContractIds : StoreStep(x) /\ PointStep(x)
    PROVE  AmendmentsAreAccountedFor'
<1> SUFFICES ASSUME NEW c \in ContractIds, Exists(c)', NEW from \in ContractIds,
                    contracts'[c].amended_from = from
             PROVE  /\ contracts'[from] # NoContract /\ from # c
                    /\ contracts'[from].created_at <= contracts'[c].created_at
                    /\ \E i \in DOMAIN trail'[from] : trail'[from][i].new_state = "amended"
  <2>1. \A c \in ContractIds : Exists(c)' => contracts'[c].amended_from \in ContractIds \cup {NoContract}
    BY DEF TypeOK, Exists, LearningContract
  <2> QED BY <2>1 DEF AmendmentsAreAccountedFor, Exists
<1>0. Exists(from) =>
         contracts'[from] # NoContract /\ contracts'[from].created_at = contracts[from].created_at
  <2>1. Exists(from) => Exists(from)' /\ contracts'[from].created_at = contracts[from].created_at
    BY TermsStay
  <2> QED BY <2>1 DEF Exists
<1>1. CASE Exists(c)
  <2>1. from = contracts[c].amended_from /\ contracts'[c].created_at = contracts[c].created_at
    BY <1>1, TermsStay
  <2>2. /\ Exists(from) /\ from # c
        /\ contracts[from].created_at <= contracts[c].created_at
        /\ \E i \in DOMAIN trail[from] : trail[from][i].new_state = "amended"
    BY <1>1, <2>1, NoContractAssumption DEF AmendmentsAreAccountedFor
  <2>3. contracts'[from] # NoContract /\ contracts'[from].created_at = contracts[from].created_at
    BY <1>0, <2>2
  <2>4. \E i \in DOMAIN trail'[from] : trail'[from][i].new_state = "amended"
    BY <2>2, TrailGrows DEF WasLogged
  <2> QED BY <2>1, <2>2, <2>3, <2>4
<1>2. CASE ~Exists(c)
  <2>1. /\ contracts'[c].created_at = now
        /\ Exists(from) /\ from # c
        /\ trail'[from] = Append(trail[from], Transition("active", "amended"))
    BY <1>2, NoContractAssumption DEF StoreStep, Restated, Enters, Exists
  <2>2. contracts'[from] # NoContract /\ contracts'[from].created_at = contracts[from].created_at
    BY <1>0, <2>1
  <2>3. contracts'[from].created_at <= now
    BY <2>1, <2>2 DEF CreatedInPast
  <2>4. \E i \in DOMAIN trail'[from] : trail'[from][i].new_state = "amended"
    <3>1. "active" \in States /\ "amended" \in ContractState
      BY DEF States, ContractState
    <3>2. WasLogged(from, "amended")'
      BY <2>1, <3>1, AppendLogs
    <3> QED BY <3>2 DEF WasLogged
  <2> QED BY <2>1, <2>2, <2>3, <2>4
<1> QED BY <1>1, <1>2

\* The clock never goes back.
LEMMA ClockMoves ==
    ASSUME TypeOK, [Next]_lifecycleVars
    PROVE  now' \in Nat /\ now' >= now
<1>1. now' = now \/ now' = now + 1
  BY DEF Next, LifecycleStep, ContractStep, CreateContract, SubmitForReview, ActivateContract,
         RevokeContract, AmendContract, AmendContractThrows, ExpireOldContracts, Tick,
         lifecycleVars
<1> QED BY <1>1 DEF TypeOK

LEMMA PastInvariant == Spec => []CreatedInPast
<1>1. Init => CreatedInPast
  BY DEF Init, CreatedInPast, Exists
<1>2. TypeOK /\ CreatedInPast /\ [Next]_lifecycleVars => CreatedInPast'
  BY StoreLemma, ClockMoves, ClockStep
<1> QED BY <1>1, <1>2, TypeCorrect, PTL DEF Spec

\* lifecycle.ts amend: whatever happens to the original later, an amendment in the
\* store leads back to an older contract whose trail says it was amended.
THEOREM AmendmentsAccounted == Spec => []AmendmentsAreAccountedFor
<1>1. Init => AmendmentsAreAccountedFor
  BY DEF Init, AmendmentsAreAccountedFor, Exists
<1>2. TypeOK /\ CreatedInPast /\ AmendmentsAreAccountedFor /\ [Next]_lifecycleVars
      => AmendmentsAreAccountedFor'
  BY StepLemma, StoreLemma, AmendmentsStep
<1> QED BY <1>1, <1>2, TypeCorrect, PastInvariant, PTL DEF Spec

\* Whatever is active was activated: its trail says so, also of a contract whose last
\* entry is an amendment that threw.
ActiveInv == \A c \in ContractIds : InState(c, "active") => WasLogged(c, "active")

LEMMA ActiveStep ==
    ASSUME TypeOK, ActiveInv, \A x \in ContractIds : PointStep(x)
    PROVE  ActiveInv'
<1> SUFFICES ASSUME NEW c \in ContractIds, StateOf(c)' = "active"
             PROVE  WasLogged(c, "active")'
  BY DEF ActiveInv, InState, StateOf
<1>1. StateOf(c) = "active" => WasLogged(c, "active")
  BY StoredType DEF ActiveInv, InState
<1>2. CASE Stays(c)
  BY <1>1, <1>2, TrailGrows DEF Stays
<1>3. ASSUME NEW from \in States, NEW to \in ContractState, Moves(c, from, to)
      PROVE  WasLogged(c, "active")'
  <2>1. CASE to = "active"
    BY <1>3, <2>1, AppendLogs DEF Moves
  <2>2. CASE to # "active"
    BY <1>1, <1>3, <2>2, AppendLogs DEF Moves
  <2> QED BY <2>1, <2>2
<1> QED BY <1>2, <1>3 DEF PointStep
=============================================================================
