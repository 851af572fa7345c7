----------------------------- MODULE GovernedStore -----------------------------
(***************************************************************************)
(* ContractGovernedStore: every store and recall asks the enforcement      *)
(* hooks before it goes to the backing store, a MemoryStore the host       *)
(* application supplies.                                                   *)
(*                                                                         *)
(* The hook and the call of the backing store are one step; the backing    *)
(* store is asynchronous and answers calls in any order, so contracts and  *)
(* the emergency override may change while a call is in flight.  Contents  *)
(* of memories are left out, a query's limit too.                          *)
(***************************************************************************)
EXTENDS Lifecycle, Enforcement

CONSTANTS
    MemoryIds,     \* the uuids drawn for memory_id
    NoMemory,      \* an id that names no memory
    Calls,         \* the calls of the backing store that may be in flight at once
    NoCall,        \* a call that is not in flight
    Requests       \* what callers ask for

Memory ==
    [contract_id : ContractIds, classification : Int, domain : Domains,
     context : Contexts \cup {Unset}, tool : Tools \cup {Unset}]

\* store: memory_id and memory; recall: the contract and the query; list and forget:
\* the two halves of forgetByContract.
Call ==
    [kind : {"store"}, memory_id : MemoryIds, memory : Memory, discovered : BOOLEAN]
      \cup [kind : {"recall"}, contract_id : ContractIds, query : Request]
      \cup [kind : {"list"}, contract_id : ContractIds]
      \cup [kind : {"forget"}, memory_ids : SUBSET MemoryIds]

ASSUME GovernedAssumption ==
    /\ NoMemory \notin MemoryIds /\ NoMemory \notin Memory /\ NoCall \notin Call
    /\ Requests \subseteq Request /\ \A r \in Requests : r.domain # Unset

VARIABLES
    memories,      \* the backing store: id -> memory or NoMemory
    calls,         \* the calls in flight
    delivered,     \* the last recall that returned
    override       \* emergencyOverride.isActive()

storeVars == <<memories, calls, delivered, override>>
vars == <<contracts, trail, now, memories, calls, delivered, override>>

Delivery == [contract_id : ContractIds, query : Request, found : SUBSET Memory]
NoDelivery == [contract_id |-> NoContract, found |-> {}]

GovernedTypeOK ==
    /\ TypeOK
    /\ memories \in [MemoryIds -> Memory \cup {NoMemory}]
    /\ \A k \in Calls : calls[k] # NoCall =>
          LET call == calls[k] IN
          CASE call.kind = "store" -> /\ call.memory_id \in MemoryIds /\ call.memory \in Memory
                                      /\ call.discovered \in BOOLEAN
            [] call.kind = "recall" -> call.contract_id \in ContractIds /\ call.query \in Requests
            [] call.kind = "list" -> call.contract_id \in ContractIds
            [] call.kind = "forget" -> call.memory_ids \subseteq MemoryIds
    /\ delivered = NoDelivery \/ /\ delivered.contract_id \in ContractIds
                                 /\ delivered.query \in Requests
                                 /\ delivered.found \subseteq Memory
    /\ override \in BOOLEAN

GovernedInit ==
    /\ Init
    /\ memories = [m \in MemoryIds |-> NoMemory]
    /\ calls = [k \in Calls |-> NoCall]
    /\ delivered = NoDelivery
    /\ override = FALSE
-----------------------------------------------------------------------------
\* The discovery of a contract: repository.query with active_only asks for an
\* expiration after now, where isExpired asks for one before now.
Discoverable(c) ==
    /\ InState(c, "active")
    /\ contracts[c].expiration = NoTime \/ contracts[c].expiration > now

InScope(c, r) ==
    LET scope == contracts[c].scope IN
    /\ Fits(r.domain, scope.domains) /\ Fits(r.context, scope.contexts) /\ Fits(r.tool, scope.tools)

\* A prohibited contract covers what one of its dimensions lists.
Prohibits(c, r) ==
    LET scope == contracts[c].scope IN
    /\ Discoverable(c) /\ contracts[c].contract_type = "prohibited"
    /\ \/ r.domain \in scope.domains \/ r.context \in scope.contexts \/ r.tool \in scope.tools

\* Mutant of ApplicableContracts: prohibited contracts are not looked for first.
ContractsInScope(r) == {c \in ContractIds : Discoverable(c) /\ InScope(c, r)}

\* findApplicableContract returns one of these: a prohibited contract that covers the
\* request if there is one, else an active contract in whose scope it lies.  Which one
\* depends on the order of the store.
ApplicableContracts(r) ==
    LET prohibiting == {c \in ContractIds : Prohibits(c, r)} IN
    IF prohibiting # {} THEN prohibiting
    ELSE {c \in ContractIds : Discoverable(c) /\ InScope(c, r)}
-----------------------------------------------------------------------------
InFlight(k) == calls[k] # NoCall
Send(k, call) == ~InFlight(k) /\ calls' = [calls EXCEPT ![k] = call]
Done(k) == calls' = [calls EXCEPT ![k] = NoCall]

FreshMemory(m) ==
    /\ memories[m] = NoMemory
    /\ \A k \in Calls : InFlight(k) /\ calls[k].kind = "store" => calls[k].memory_id # m

\* The system's hooks: the contract is looked up, an unknown one throws, and the engine
\* decides on what is stored of it now.
MayCreateMemory(c, r) == Exists(c) /\ CheckMemoryCreation(contracts[c], r, now, override)
MayRecall(c, r) == Exists(c) /\ CheckRecall(contracts[c], r, override)

StoreUnder(k, m, c, r, discovered) ==
    /\ MayCreateMemory(c, r)
    /\ FreshMemory(m)
    /\ Send(k, [kind |-> "store", memory_id |-> m, discovered |-> discovered,
                memory |-> [contract_id |-> c, classification |-> r.classification,
                            domain |-> r.domain, context |-> r.context, tool |-> r.tool]])
    /\ UNCHANGED <<lifecycleVars, memories, delivered, override>>

Store(k, m, c, r) == StoreUnder(k, m, c, r, FALSE)

StoreWithDiscovery(k, m, r) ==
    \E c \in ApplicableContracts(r) : StoreUnder(k, m, c, r, TRUE)

Recall(k, c, r) ==
    /\ MayRecall(c, r)
    /\ Send(k, [kind |-> "recall", contract_id |-> c, query |-> r])
    /\ UNCHANGED <<lifecycleVars, memories, delivered, override>>

\* forgetByContract asks no hook and not even whether the contract exists.
ForgetByContract(k, c) ==
    /\ Send(k, [kind |-> "list", contract_id |-> c])
    /\ UNCHANGED <<lifecycleVars, memories, delivered, override>>
-----------------------------------------------------------------------------
(***************************************************************************)
(* The backing store answers.                                              *)
(***************************************************************************)
StoreLands(k) ==
    /\ InFlight(k) /\ calls[k].kind = "store"
    /\ memories' = [memories EXCEPT ![calls[k].memory_id] = calls[k].memory]
    /\ Done(k)
    /\ UNCHANGED <<lifecycleVars, delivered, override>>

\* InMemoryStore.recall: the domain must match, the others if they are given.
Matches(memory, query) ==
    /\ memory.domain = query.domain
    /\ query.context # Unset => memory.context = query.context
    /\ query.tool # Unset => memory.tool = query.tool

Stored == {memories[m] : m \in MemoryIds} \ {NoMemory}

\* Mutant of OwnMemories: all that was found.
AnyMemories(c, found) == found

\* recall filters what the backing store found down to the contract's own memories.
OwnMemories(c, found) == {memory \in found : memory.contract_id = c}

RecallReturns(k) ==
    /\ InFlight(k) /\ calls[k].kind = "recall"
    /\ LET c == calls[k].contract_id
           query == calls[k].query
           found == {memory \in Stored : Matches(memory, query)}
       IN delivered' = [contract_id |-> c, query |-> query, found |-> OwnMemories(c, found)]
    /\ Done(k)
    /\ UNCHANGED <<lifecycleVars, memories, override>>

ListReturns(k) ==
    /\ InFlight(k) /\ calls[k].kind = "list"
    /\ LET listed == {m \in MemoryIds : /\ memories[m] # NoMemory
                                        /\ memories[m].contract_id = calls[k].contract_id}
       IN IF listed = {} THEN Done(k)
          ELSE calls' = [calls EXCEPT ![k] = [kind |-> "forget", memory_ids |-> listed]]
    /\ UNCHANGED <<lifecycleVars, memories, delivered, override>>

ForgetLands(k) ==
    /\ InFlight(k) /\ calls[k].kind = "forget"
    /\ memories' = [m \in MemoryIds |->
          IF m \in calls[k].memory_ids THEN NoMemory ELSE memories[m]]
    /\ Done(k)
    /\ UNCHANGED <<lifecycleVars, delivered, override>>
-----------------------------------------------------------------------------
\* EmergencyOverride says when it may be switched.
SwitchOverride == override' = ~override /\ UNCHANGED <<lifecycleVars, memories, calls, delivered>>

LifecycleOperation == Next /\ UNCHANGED storeVars

GovernedNext ==
    \/ \E k \in Calls, c \in ContractIds, r \in Requests :
          \/ \E m \in MemoryIds : Store(k, m, c, r)
          \/ Recall(k, c, r)
    \/ \E k \in Calls, m \in MemoryIds, r \in Requests : StoreWithDiscovery(k, m, r)
    \/ \E k \in Calls, c \in ContractIds : ForgetByContract(k, c)
    \/ \E k \in Calls : StoreLands(k) \/ RecallReturns(k) \/ ListReturns(k) \/ ForgetLands(k)
    \/ SwitchOverride
    \/ LifecycleOperation

GovernedSpec == GovernedInit /\ [][GovernedNext]_vars
-----------------------------------------------------------------------------
StoresInFlight == {calls[k].memory : k \in {i \in Calls : InFlight(i) /\ calls[i].kind = "store"}}

Starts(k, kind) == ~InFlight(k) /\ InFlight(k)' /\ calls'[k].kind = kind

\* Whatever happened to its contract since, every memory stored or on its way is one its
\* contract's terms allowed: the contract was once active, may store, and neither the
\* classification nor the domain is beyond its cap and its scope.
MemoriesWithinTerms ==
    \A memory \in Stored \cup StoresInFlight :
       LET c == memory.contract_id IN
       /\ Exists(c)
       /\ \E i \in DOMAIN trail[c] : trail[c][i].new_state = "active"
       /\ contracts[c].memory_permissions.may_store
       /\ contracts[c].contract_type \notin {"observation", "prohibited"}
       /\ memory.classification <= contracts[c].memory_permissions.classification_cap
       /\ memory.domain \in contracts[c].scope.domains \/ contracts[c].scope.domains = {}

\* The store is of its type and its memories are within their contracts' terms.
StoreIsGoverned == GovernedTypeOK /\ MemoriesWithinTerms

\* A recall under one contract never returns what was stored under another one, even if
\* the two share domain, context and tool and calls overlap.
NoCrossContractRecall ==
    \A memory \in delivered.found :
       memory.contract_id = delivered.contract_id /\ memory.domain = delivered.query.domain

\* With discovery, nothing is stored that an active prohibited contract covers at the
\* moment of the call, whichever other contract would allow it.
DiscoveryRespectsProhibition ==
    [][\A k \in Calls : Starts(k, "store") /\ calls'[k].discovered =>
          ~ \E c \in ContractIds : Prohibits(c, calls'[k].memory)]_vars

-----------------------------------------------------------------------------
(***************************************************************************)
(* What the documents say, and the code does not keep.                     *)
(***************************************************************************)

\* src/enforcement/engine.ts, in checkRecall: "Contract must be active".
RecallRequiresActive ==
    [][\A k \in Calls : Starts(k, "recall") => InState(calls'[k].contract_id, "active")]_vars

\* src/storage/repository.ts: active prohibited contracts override all others.  So
\* nothing is stored in a domain that one of them lists.
ProhibitedOverridesAll ==
    [][\A k \in Calls : Starts(k, "store") =>
          ~ \E c \in ContractIds : Prohibits(c, calls'[k].memory)]_vars

\* README.md: a dimension the contract leaves unspecified denies.
UnspecifiedDimensionDenies ==
    \A memory \in Stored :
       memory.context # Unset => memory.context \in contracts[memory.contract_id].scope.contexts

\* src/integration/memory-store.ts: forgetByContract is called automatically when a
\* contract is revoked.
RevocationForgets ==
    [][\A c \in ContractIds : RevokeContract(c) =>
          \E k \in Calls : Starts(k, "list") /\ calls'[k].contract_id = c]_vars
=============================================================================
