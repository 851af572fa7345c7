------------------------------ MODULE Forgetting ------------------------------
(***************************************************************************)
(* MemoryForgetting: which memories an expired, revoked or purged contract *)
(* takes with it.  The host hands in its contracts and the references of   *)
(* its memories, and acts on the report.                                   *)
(*                                                                         *)
(* tombstoneMemories and deepPurge follow the derivations between memories *)
(* with findRecursive; stack holds its activations.  Classifications and   *)
(* dates of memories are left out, and a reference that is not is_derived  *)
(* is one that derives from nothing.  How a purge token is signed is left  *)
(* out: nobody has one that was not generated for what it names.           *)
(***************************************************************************)
EXTENDS Integers, Sequences

CONSTANTS
    MemoryIds,
    ContractIds,
    Users,
    Contracts,         \* the contracts that callers hand in
    MemoryLists,       \* the lists of references that hosts have
    Confirmations,     \* the ownerConfirmation objects that callers hand in
    TokenValidity,     \* TOKEN_VALIDITY_MS
    None               \* no call under way, no report yet

Reference ==
    [memory_id : MemoryIds, contract_id : ContractIds, derived_from : SUBSET MemoryIds]

Contract ==
    [contract_id : ContractIds, created_by : Users,
     state : {"draft", "review", "active", "expired", "revoked", "amended"}]

\* A token names what it was generated for and how old it is; confirmed_after says how
\* long after the token the owner confirmed.
Confirmation ==
    [owner : Users, confirmed_after : Int,
     token : [contract_id : ContractIds, owner : Users, age : Nat]]

Operation == [kind : {"tombstone", "purge"}, contract_id : ContractIds]

ASSUME ForgettingAssumption ==
    /\ Contracts \subseteq Contract /\ MemoryLists \subseteq Seq(Reference)
    /\ Confirmations \subseteq Confirmation
    /\ None \notin Operation

VARIABLES
    memories,          \* the host's list
    call,              \* the operation under way
    stack,             \* findRecursive: currentIds and the loop's index, innermost last
    seen,              \* its set of derived memories found
    report             \* the last ForgettingResult, as the audit log was told of it

forgettingVars == <<memories, call, stack, seen, report>>

Frame == [currentIds : SUBSET MemoryIds, next : Nat \ {0}]

ForgettingInit ==
    /\ memories \in MemoryLists
    /\ call = None /\ report = None
    /\ stack = <<>> /\ seen = {}
-----------------------------------------------------------------------------
DirectMemories(c) ==
    {memories[i].memory_id : i \in {j \in DOMAIN memories : memories[j].contract_id = c}}

ValidPurgeToken(contract, confirmation) ==
    LET token == confirmation.token IN
    /\ token.age <= TokenValidity
    /\ confirmation.confirmed_after >= 0
    /\ token.contract_id = contract.contract_id /\ token.owner = confirmation.owner

\* Expired contracts only; derived memories are left alone.
FreezeMemories(contract) ==
    /\ call = None
    /\ contract.state = "expired"
    /\ report' = [kind |-> "freeze", contract_id |-> contract.contract_id,
                  affected |-> DirectMemories(contract.contract_id), derived |-> {}]
    /\ UNCHANGED <<memories, call, stack, seen>>

FindDerived(kind, c) ==
    /\ call = None
    /\ call' = [kind |-> kind, contract_id |-> c]
    /\ stack' = <<[currentIds |-> DirectMemories(c), next |-> 1]>>
    /\ seen' = {}
    /\ report' = None
    /\ UNCHANGED memories

TombstoneMemories(contract) ==
    /\ contract.state = "revoked"
    /\ FindDerived("tombstone", contract.contract_id)

\* In whatever state the contract is.  A token serves as often as it is presented.
DeepPurge(contract, confirmation) ==
    /\ confirmation.owner = contract.created_by
    /\ ValidPurgeToken(contract, confirmation)
    /\ FindDerived("purge", contract.contract_id)

Top == stack[Len(stack)]
Below == SubSeq(stack, 1, Len(stack) - 1)

\* Whether the loop's memory derives from what the activation looks for and is new.
Derives == /\ Top.next <= Len(memories)
           /\ memories[Top.next].memory_id \notin seen
           /\ memories[Top.next].derived_from \cap Top.currentIds # {}

Advanced == Append(Below, [Top EXCEPT !.next = @ + 1])

\* Mutant of Found: the loop returns with the first it finds.
FoundLast ==
    /\ stack # <<>> /\ Derives
    /\ LET m == memories[Top.next].memory_id IN
       /\ seen' = seen \cup {m}
       /\ stack' = Append(Below, [currentIds |-> {m}, next |-> 1])
    /\ UNCHANGED <<memories, call, report>>

\* A derived memory is found: the loop stops there for what derives from it.
Found ==
    /\ stack # <<>> /\ Derives
    /\ LET m == memories[Top.next].memory_id IN
       /\ seen' = seen \cup {m}
       /\ stack' = Append(Advanced, [currentIds |-> {m}, next |-> 1])
    /\ UNCHANGED <<memories, call, report>>

\* Mutant of Skip: a memory seen before starts the loop over.
SkipSeen ==
    /\ stack # <<>> /\ ~Derives /\ Top.next <= Len(memories)
    /\ stack' = IF memories[Top.next].memory_id \in seen
                THEN Append(Below, [Top EXCEPT !.next = 1]) ELSE Advanced
    /\ UNCHANGED <<memories, call, seen, report>>

Skip ==
    /\ stack # <<>> /\ ~Derives /\ Top.next <= Len(memories)
    /\ stack' = Advanced
    /\ UNCHANGED <<memories, call, seen, report>>

FindRecursiveReturns ==
    /\ stack # <<>> /\ Top.next > Len(memories)
    /\ stack' = Below
    /\ UNCHANGED <<memories, call, seen, report>>

\* The rest of tombstoneMemories or deepPurge.
Report ==
    /\ call # None /\ stack = <<>>
    /\ report' = [kind |-> call.kind, contract_id |-> call.contract_id,
                  affected |-> DirectMemories(call.contract_id), derived |-> seen]
    /\ call' = None
    /\ UNCHANGED <<memories, stack, seen>>

Compute == Found \/ Skip \/ FindRecursiveReturns \/ Report

ForgettingNext ==
    \/ \E contract \in Contracts :
          \/ FreezeMemories(contract) \/ TombstoneMemories(contract)
          \/ \E confirmation \in Confirmations : DeepPurge(contract, confirmation)
    \/ Compute

ForgettingSpec == ForgettingInit /\ [][ForgettingNext]_forgettingVars

\* A call that was made runs to its end.
FairSpec == ForgettingSpec /\ WF_forgettingVars(Compute)
-----------------------------------------------------------------------------
\* Everything that derives from a member of D is in D.
Closed(D) ==
    \A i \in DOMAIN memories :
       memories[i].derived_from \cap D # {} => memories[i].memory_id \in D

\* What a contract takes with it: the least closed set with its memories.
Forgotten(c) ==
    {m \in MemoryIds :
        \A D \in SUBSET MemoryIds : DirectMemories(c) \subseteq D /\ Closed(D) => m \in D}

\* A tombstone or a purge takes the contract's memories and whatever derives from them
\* over any number of steps, across contracts and around circles, and nothing else.
ForgetsExactlyWhatDerives ==
    report # None /\ report.kind # "freeze" =>
       report.affected \cup report.derived = Forgotten(report.contract_id)

\* findRecursive comes to an end on any list of references, circular ones included.
CallsEnd == call # None ~> call = None
=============================================================================
