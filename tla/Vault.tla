--------------------------------- MODULE Vault ---------------------------------
(***************************************************************************)
(* The vault adapter package: ContractEnforcedVault decides by the         *)
(* contract, MockMemoryVaultAdapter keeps memories and tombstones.         *)
(*                                                                         *)
(* Every operation awaits the adapter at least once, and contracts, the    *)
(* lock and the boundary mode change meanwhile.  The adapter's own reads   *)
(* and checks happen when it is called; a store lands later, and any call  *)
(* may be rejected.                                                        *)
(*                                                                         *)
(* Contents, hashes, encryption and the audit are left out; so are backups *)
(* and recall requests, which no operation here uses, and queryMemories    *)
(* for users, which changes nothing.                                       *)
(***************************************************************************)
EXTENDS Lifecycle, Enforcement

CONSTANTS
    MemoryIds,     \* the ids drawn for memories
    NoMemory,      \* an id that names no memory
    Calls,         \* the operations that may be under way at once
    NoCall,        \* one that is not
    VaultModes,    \* what setBoundaryMode is called with
    Requests       \* what callers ask for

Memory ==
    [contract_id : ContractIds, classification : Int, domain : Domains \cup {Unset},
     context : Contexts \cup {Unset}, tool : Tools \cup {Unset}]

\* recall waits for getMemory, read, its second half, for the adapter's recallMemory, which
\* has read success; sweep is tombstoneContractMemories with the memories its query found;
\* late are the stores then on their way.
Call ==
    [kind : {"store"}, memory_id : MemoryIds, memory : Memory]
      \cup [kind : {"recall"}, memory_id : MemoryIds, query : Request]
      \cup [kind : {"read"}, memory_id : MemoryIds, query : Request, success : BOOLEAN]
      \cup [kind : {"sweep"}, contract_id : ContractIds, queue : SUBSET MemoryIds,
            late : SUBSET MemoryIds]

ASSUME VaultAssumption ==
    /\ NoMemory \notin MemoryIds /\ NoMemory \notin Memory /\ NoCall \notin Call
    /\ VaultModes \subseteq BoundaryMode
    /\ Requests \subseteq Request

VARIABLES
    memories,      \* the adapter's memories: id -> memory or NoMemory
    tombstones,    \* ids that have one
    isLocked,
    boundaryMode,
    calls,         \* operations that wait for the adapter
    delivered,     \* call -> the memory its recall has returned, if any
    missed,        \* history: contract -> the memories its sweeps may have missed: once one
                   \* that found it ended returns, those whose stores were then on their way
    rightful       \* history: call -> at some moment since its recall was called it was right
                   \* to hand the memory out

vaultVars == <<memories, tombstones, isLocked, boundaryMode, calls, delivered, missed>>
vars ==
    <<contracts, trail, now, memories, tombstones, isLocked, boundaryMode, calls, delivered,
      missed, rightful>>

VaultInit ==
    /\ Init
    /\ memories = [m \in MemoryIds |-> NoMemory]
    /\ tombstones = {}
    /\ isLocked = FALSE
    /\ boundaryMode \in VaultModes
    /\ calls = [k \in Calls |-> NoCall]
    /\ delivered = [k \in Calls |-> NoMemory]
    /\ missed = [c \in ContractIds |-> MemoryIds]
    /\ rightful = [k \in Calls |-> FALSE]
-----------------------------------------------------------------------------
(***************************************************************************)
(* The two decisions.                                                      *)
(***************************************************************************)
\* Mutant of CheckStorePermission: the classification is not asked.
CheckStoreScope(c, r) ==
    /\ InState(c, "active")
    /\ contracts[c].contract_type \notin {"observation", "prohibited"}
    /\ contracts[c].memory_permissions.may_store
    /\ Fits(r.domain, contracts[c].scope.domains)
    /\ Fits(r.context, contracts[c].scope.contexts)
    /\ Fits(r.tool, contracts[c].scope.tools)

\* The boundary mode earns a warning only.
CheckStorePermission(c, r) ==
    /\ InState(c, "active")
    /\ contracts[c].contract_type \notin {"observation", "prohibited"}
    /\ contracts[c].memory_permissions.may_store
    /\ r.classification <= contracts[c].memory_permissions.classification_cap
    /\ Fits(r.domain, contracts[c].scope.domains)
    /\ Fits(r.context, contracts[c].scope.contexts)
    /\ Fits(r.tool, contracts[c].scope.tools)

\* boundaryMode < boundary_mode_min compares the strings of the enumeration.
Alphabetical == [normal |-> 0, privileged |-> 1, restricted |-> 2, trusted |-> 3]

CheckRecallPermission(c, r) ==
    /\ InState(c, "active") \/ InState(c, "amended")
    /\ Alphabetical[boundaryMode] >= Alphabetical[contracts[c].recall_rules.boundary_mode_min]
    /\ Fits(r.domain, contracts[c].scope.domains)
    /\ Fits(r.context, contracts[c].scope.contexts)
    /\ contracts[c].recall_rules.requires_owner => r.requester = contracts[c].created_by
-----------------------------------------------------------------------------
InFlight(k) == calls[k] # NoCall
Send(k, call) == ~InFlight(k) /\ calls' = [calls EXCEPT ![k] = call]
Done(k) == calls' = [calls EXCEPT ![k] = NoCall]
Waits(k, kind) == InFlight(k) /\ calls[k].kind = kind

MemoriesOf(c) == {m \in MemoryIds : memories[m] # NoMemory /\ memories[m].contract_id = c}
StoresFor(c) ==
    {calls[k].memory_id : k \in {i \in Calls : Waits(i, "store") /\ calls[i].memory.contract_id = c}}

FreshMemory(m) ==
    memories[m] = NoMemory /\ \A k \in Calls : Waits(k, "store") => calls[k].memory_id # m

Ended(c) == InState(c, "revoked") \/ InState(c, "expired")

\* Under the contract the caller names, or the one the host's contractFinder returns.
StoreMemory(k, m, c, r) ==
    /\ Exists(c) /\ CheckStorePermission(c, r)
    /\ ~isLocked /\ FreshMemory(m)
    /\ Send(k, [kind |-> "store", memory_id |-> m,
                memory |-> [contract_id |-> c, classification |-> r.classification,
                            domain |-> r.domain, context |-> r.context, tool |-> r.tool]])
    /\ UNCHANGED <<lifecycleVars, memories, tombstones, isLocked, boundaryMode, delivered, missed>>

\* The adapter asked for the lock before it awaited the hash.
StoreLands(k) ==
    /\ Waits(k, "store")
    /\ memories' = [memories EXCEPT ![calls[k].memory_id] = calls[k].memory]
    /\ Done(k)
    /\ UNCHANGED <<lifecycleVars, tombstones, isLocked, boundaryMode, delivered, missed>>

\* getMemory finds tombstoned memories too.
RecallMemory(k, m, r) ==
    /\ memories[m] # NoMemory
    /\ Send(k, [kind |-> "recall", memory_id |-> m, query |-> r])
    /\ delivered' = [delivered EXCEPT ![k] = NoMemory]
    /\ UNCHANGED <<lifecycleVars, memories, tombstones, isLocked, boundaryMode, missed>>

\* Mutant of RecallDecided: the contract is not asked once more after the await.
RecallFound(k) ==
    /\ Waits(k, "recall")
    /\ LET m == calls[k].memory_id
       IN calls' = [calls EXCEPT ![k] =
             [kind |-> "read", memory_id |-> m, query |-> calls[k].query,
              success |-> ~isLocked /\ m \notin tombstones]]
    /\ UNCHANGED <<lifecycleVars, memories, tombstones, isLocked, boundaryMode, delivered, missed>>

\* After the first await: the contract as it is now.  Only then is the adapter's recallMemory
\* called, which reads at once and answers later.
RecallDecided(k) ==
    /\ Waits(k, "recall")
    /\ LET m == calls[k].memory_id
       IN IF CheckRecallPermission(memories[m].contract_id, calls[k].query)
          THEN calls' = [calls EXCEPT ![k] =
                  [kind |-> "read", memory_id |-> m, query |-> calls[k].query,
                   success |-> ~isLocked /\ m \notin tombstones]]
          ELSE Done(k)
    /\ UNCHANGED <<lifecycleVars, memories, tombstones, isLocked, boundaryMode, delivered, missed>>

\* After the second await nothing is asked again.
RecallReturns(k) ==
    /\ Waits(k, "read")
    /\ delivered' = [delivered EXCEPT ![k] = IF calls[k].success THEN calls[k].memory_id ELSE NoMemory]
    /\ Done(k)
    /\ UNCHANGED <<lifecycleVars, memories, tombstones, isLocked, boundaryMode, missed>>

\* Whatever the contract's state, and locked or not.
TombstoneContractMemories(k, c) ==
    /\ Exists(c)
    /\ Send(k, [kind |-> "sweep", contract_id |-> c, queue |-> MemoriesOf(c) \ tombstones,
                late |-> IF Ended(c) THEN StoresFor(c) ELSE MemoryIds])
    /\ UNCHANGED <<lifecycleVars, memories, tombstones, isLocked, boundaryMode, delivered, missed>>

\* One round of its loop; the next one waits for the adapter.
TombstoneNext(k, m) ==
    /\ Waits(k, "sweep") /\ m \in calls[k].queue
    /\ tombstones' = tombstones \cup {m}
    /\ calls' = [calls EXCEPT ![k].queue = @ \ {m}]
    /\ UNCHANGED <<lifecycleVars, memories, isLocked, boundaryMode, delivered, missed>>

\* Mutant of SweepReturns: the sweep does not wait for its rounds.
SweepReturnsEarly(k) ==
    /\ Waits(k, "sweep")
    /\ missed' = [missed EXCEPT ![calls[k].contract_id] = @ \cap calls[k].late]
    /\ Done(k)
    /\ UNCHANGED <<lifecycleVars, memories, tombstones, isLocked, boundaryMode, delivered>>

SweepReturns(k) ==
    /\ Waits(k, "sweep") /\ calls[k].queue = {}
    /\ missed' = [missed EXCEPT ![calls[k].contract_id] = @ \cap calls[k].late]
    /\ Done(k)
    /\ UNCHANGED <<lifecycleVars, memories, tombstones, isLocked, boundaryMode, delivered>>

\* A store that is rejected has not landed; a sweep stops where it is.
AdapterRejects(k) ==
    /\ InFlight(k) /\ Done(k)
    /\ UNCHANGED <<lifecycleVars, memories, tombstones, isLocked, boundaryMode, delivered, missed>>

SetBoundaryMode(mode) ==
    /\ boundaryMode' = mode
    /\ UNCHANGED <<lifecycleVars, memories, tombstones, isLocked, calls, delivered, missed>>

\* lockdown and unlock.
SetLock(lock) ==
    /\ isLocked' = lock
    /\ UNCHANGED <<lifecycleVars, memories, tombstones, boundaryMode, calls, delivered, missed>>

LifecycleOperation == Next /\ UNCHANGED vaultVars

\* It would be right to answer the recall now, all conditions at once.
MayAnswer(k) ==
    LET m == calls[k].memory_id
        c == memories[m].contract_id
    IN /\ Exists(c) /\ ~Ended(c)
       /\ contracts[c].recall_rules.requires_owner => calls[k].query.requester = contracts[c].created_by
       /\ m \notin tombstones /\ ~isLocked

Recalling(k) == Waits(k, "recall") \/ Waits(k, "read")
Record == rightful' = [k \in Calls |-> Recalling(k)' /\ (rightful[k] \/ MayAnswer(k)')]

VaultOperation ==
    \/ \E k \in Calls, m \in MemoryIds, r \in Requests :
          \/ \E c \in ContractIds : StoreMemory(k, m, c, r)
          \/ RecallMemory(k, m, r)
    \/ \E k \in Calls :
          \/ StoreLands(k) \/ RecallDecided(k) \/ RecallReturns(k)
          \/ SweepReturns(k) \/ AdapterRejects(k)
          \/ \E c \in ContractIds : TombstoneContractMemories(k, c)
          \/ \E m \in MemoryIds : TombstoneNext(k, m)
    \/ \E mode \in VaultModes : SetBoundaryMode(mode)
    \/ \E lock \in BOOLEAN : SetLock(lock)
    \/ LifecycleOperation

VaultNext == VaultOperation /\ Record

VaultSpec == VaultInit /\ [][VaultNext]_vars
-----------------------------------------------------------------------------
StoredOrOnTheWay ==
    ({memories[m] : m \in MemoryIds} \ {NoMemory})
       \cup {calls[k].memory : k \in {i \in Calls : Waits(i, "store")}}

\* Types; and docs/internal/specs.md section 10, the write gate: whatever became of the
\* contract and the call since, what is in the vault or on its way was within the cap
\* and the scope of a contract that had been activated and stores.
WriteGate ==
    /\ TypeOK
    /\ tombstones \subseteq MemoryIds /\ isLocked \in BOOLEAN /\ boundaryMode \in BoundaryMode
    /\ \A m \in tombstones : memories[m] # NoMemory
    /\ \A memory \in StoredOrOnTheWay :
          LET c == memory.contract_id IN
          /\ Exists(c) /\ \E i \in DOMAIN trail[c] : trail[c][i].new_state = "active"
          /\ contracts[c].contract_type \in {"episodic", "procedural", "strategic"}
          /\ contracts[c].memory_permissions.may_store
          /\ memory.classification <= contracts[c].memory_permissions.classification_cap
          /\ Fits(memory.domain, contracts[c].scope.domains)

\* enforced-vault.ts, recallMemory: it waits twice, and asks the contract in between.  Still
\* it answers as if it had been done at one moment since it was called: at that moment the
\* contract had neither been revoked nor expired, the requester was the owner where the
\* contract says so, the memory had no tombstone and the vault was unlocked, all at once.
\* So what was forbidden when it was called, and stays so, is never handed out.
RecallsHonourContract ==
    [][\A k \in Calls : delivered'[k] \notin {delivered[k], NoMemory} =>
          rightful[k] /\ delivered'[k] = calls[k].memory_id]_vars

\* enforced-vault.ts, tombstoneContractMemories: once a sweep over a contract that has
\* ended returns, its memories are and stay tombstoned, also when an earlier sweep broke
\* off; the one exception are stores that were on their way when the sweep began.
SweptIsForgotten ==
    \A c \in ContractIds :
       Ended(c) => MemoriesOf(c) \ tombstones \subseteq missed[c]
-----------------------------------------------------------------------------
(***************************************************************************)
(* What the documents say, and the code does not keep.                     *)
(***************************************************************************)

\* README.md orders the modes restricted < normal < trusted < privileged.  Compared as
\* strings, restricted is enough for privileged, and privileged is not for trusted.
RecallsRespectModeOrder ==
    [][\A k \in Calls : Waits(k, "recall") /\ Waits(k, "read")' =>
          IsBoundaryModeSufficient(boundaryMode,
             contracts[memories[calls[k].memory_id].contract_id].recall_rules.boundary_mode_min)]_vars

\* docs/internal/specs.md section 10: no write without a valid, active contract.  The
\* vault asks for the state alone: a contract past its expiration takes memories until
\* somebody marks it expired.
WritesNeedEnforceableContract ==
    [][\A k \in Calls : ~InFlight(k) /\ Waits(k, "store")' =>
          IsEnforceable(contracts[calls'[k].memory.contract_id], now)]_vars

\* A swept contract has no memory left: a store that was on its way lands behind the
\* sweep.
SweptLeavesNothing ==
    \A c \in ContractIds :
       Ended(c) /\ StoresFor(c) = {} /\ missed[c] # MemoryIds => MemoriesOf(c) \subseteq tombstones

\* recallMemory validates that the contract is active: not when it answers.  What ends, is
\* swept or locked while the adapter's own recallMemory is awaited is handed out after it.
AnswersAreCurrent ==
    [][\A k \in Calls : delivered'[k] \notin {delivered[k], NoMemory} => MayAnswer(k)]_vars

\* A locked vault takes no memory: the lock is asked before the hash is awaited.
LockStopsStores == [][isLocked => memories' = memories]_vars
=============================================================================
