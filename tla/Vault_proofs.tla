----------------------------- MODULE Vault_proofs -----------------------------
(***************************************************************************)
(* Proofs about Vault, for any number of contracts, memories and calls     *)
(* under way, and any requests.                                            *)
(*                                                                         *)
(* The write gate is a condition on one memory (Gated) that nothing can    *)
(* undo: the terms of a contract never change and its trail only grows.    *)
(* Forgetting is about what a contract still has to forget (Pending): its  *)
(* memories without a tombstone and the stores on their way.  It never     *)
(* grows once the contract has ended, which never ends; so it stays within *)
(* what a sweep started from, its queue and the late stores (SweepsCover), *)
(* and, when the sweep returns with nothing queued, within missed.         *)
(***************************************************************************)
EXTENDS Vault, Lifecycle_proofs

-----------------------------------------------------------------------------
(***************************************************************************)
(* Types.                                                                  *)
(***************************************************************************)
VaultTypeOK ==
    /\ TypeOK
    /\ memories \in [MemoryIds -> Memory \cup {NoMemory}]
    /\ tombstones \in SUBSET MemoryIds
    /\ isLocked \in BOOLEAN /\ boundaryMode \in BoundaryMode
    /\ calls \in [Calls -> Call \cup {NoCall}]
    /\ delivered \in [Calls -> MemoryIds \cup {NoMemory}]
    /\ missed \in [ContractIds -> SUBSET MemoryIds]
    /\ rightful \in [Calls -> BOOLEAN]

\* What the adapter is asked to do, by kind.
LEMMA CallKinds ==
    ASSUME VaultTypeOK, NEW k \in Calls, InFlight(k)
    PROVE  /\ calls[k] \in Call /\ calls[k] # NoCall
           /\ calls[k].kind = "store" => calls[k].memory_id \in MemoryIds /\ calls[k].memory \in Memory
           /\ calls[k].kind \in {"recall", "read"} =>
                 calls[k].memory_id \in MemoryIds /\ calls[k].query \in Request
           /\ calls[k].kind = "sweep" =>
                 /\ calls[k].contract_id \in ContractIds
                 /\ calls[k].queue \in SUBSET MemoryIds /\ calls[k].late \in SUBSET MemoryIds
                 /\ \A Q \in SUBSET MemoryIds :
                       [calls[k] EXCEPT !.queue = Q] \in Call
BY DEF VaultTypeOK, InFlight, Call

\* A store sent, a sweep sent.
LEMMA SentStore ==
    ASSUME NEW m \in MemoryIds, NEW c \in ContractIds, NEW r \in Request
    PROVE  LET memory == [contract_id |-> c, classification |-> r.classification,
                          domain |-> r.domain, context |-> r.context, tool |-> r.tool]
           IN /\ memory \in Memory
              /\ [kind |-> "store", memory_id |-> m, memory |-> memory] \in Call
BY DEF Request, Memory, Call

\* What RecallDecided makes of a call.
LEMMA DecidedCall ==
    ASSUME VaultTypeOK, NEW k \in Calls, RecallDecided(k)
    PROVE  /\ InFlight(k) /\ calls[k].kind = "recall"
           /\ \E success \in BOOLEAN, call \in Call \cup {NoCall} :
                 /\ calls' = [calls EXCEPT ![k] = call]
                 /\ call \in {NoCall, [kind |-> "read", memory_id |-> calls[k].memory_id,
                                      query |-> calls[k].query, success |-> success]}
<1>1. InFlight(k) /\ calls[k].kind = "recall"
  BY DEF RecallDecided, Waits
<1>2. calls[k].memory_id \in MemoryIds /\ calls[k].query \in Request
  BY <1>1, CallKinds
<1> DEFINE m == calls[k].memory_id
           Read(success) == [kind |-> "read", memory_id |-> m, query |-> calls[k].query,
                             success |-> success]
<1>3. \A success \in BOOLEAN : Read(success) \in Call
  BY <1>2 DEF Call
<1>4. \/ calls' = [calls EXCEPT ![k] = Read(~isLocked /\ m \notin tombstones)]
      \/ calls' = [calls EXCEPT ![k] = NoCall]
  BY DEF RecallDecided, Done
<1>5. (~isLocked /\ m \notin tombstones) \in BOOLEAN
  OBVIOUS
<1> QED BY <1>1, <1>3, <1>4, <1>5

\* The record of the recalls.
LEMMA Recorded ==
    ASSUME Record
    PROVE  /\ rightful' \in [Calls -> BOOLEAN]
           /\ \A k \in Calls :
                 rightful'[k] = (Recalling(k)' /\ (rightful[k] \/ MayAnswer(k)'))
<1> DEFINE R(k) == Recalling(k)' /\ (rightful[k] \/ MayAnswer(k)')
<1>1. rightful' = [k \in Calls |-> R(k)]
  BY DEF Record
<1>2. \A k \in Calls : R(k) \in BOOLEAN
  OBVIOUS
<1> QED BY <1>1, <1>2

\* Only lifecycle operations touch the lifecycle.
LEMMA VaultUnderneath ==
    ASSUME [VaultNext]_vars
    PROVE  [Next]_lifecycleVars
<1>1. CASE LifecycleOperation
  BY <1>1 DEF LifecycleOperation
<1>2. CASE UNCHANGED vars
  BY <1>2 DEF vars, lifecycleVars
<1> QED BY <1>1, <1>2
        DEF VaultNext, VaultOperation, StoreMemory, RecallMemory, StoreLands, RecallDecided,
            RecallReturns, SweepReturns, AdapterRejects, TombstoneContractMemories, TombstoneNext, SetBoundaryMode, SetLock

\* The vault's own variables but the tables of calls, in each step.
LEMMA VaultTypeStep ==
    ASSUME VaultTypeOK, [VaultNext]_vars
    PROVE  VaultTypeOK'
<1> DEFINE Mem == memories' \in [MemoryIds -> Memory \cup {NoMemory}]
           Flags == /\ tombstones' \in SUBSET MemoryIds
                    /\ isLocked' \in BOOLEAN /\ boundaryMode' \in BoundaryMode
           Cls == calls' \in [Calls -> Call \cup {NoCall}]
           Del == delivered' \in [Calls -> MemoryIds \cup {NoMemory}]
           Mis == missed' \in [ContractIds -> SUBSET MemoryIds]
           Rig == rightful' \in [Calls -> BOOLEAN]
           Good == Mem /\ Flags /\ Cls /\ Del /\ Mis
<1>0. TypeOK'
  BY VaultUnderneath, StepLemma DEF VaultTypeOK
<1>1. ASSUME NEW k \in Calls, NEW m \in MemoryIds, NEW c \in ContractIds, NEW r \in Requests,
             StoreMemory(k, m, c, r)
      PROVE  Good
  <2> DEFINE call == [kind |-> "store", memory_id |-> m,
                      memory |-> [contract_id |-> c, classification |-> r.classification,
                                  domain |-> r.domain, context |-> r.context, tool |-> r.tool]]
  <2>1. call \in Call
    BY SentStore, VaultAssumption
  <2>2. calls' = [calls EXCEPT ![k] = call]
    BY <1>1 DEF StoreMemory, Send
  <2> HIDE DEF call
  <2> QED BY <1>1, <2>1, <2>2 DEF StoreMemory, VaultTypeOK
<1>2. ASSUME NEW k \in Calls, StoreLands(k) PROVE Good
  BY <1>2, CallKinds DEF StoreLands, Waits, Done, VaultTypeOK
<1>3. ASSUME NEW k \in Calls, NEW m \in MemoryIds, NEW r \in Requests, RecallMemory(k, m, r)
      PROVE  Good
  <2> DEFINE call == [kind |-> "recall", memory_id |-> m, query |-> r]
  <2>1. call \in Call
    BY VaultAssumption DEF Call
  <2>2. calls' = [calls EXCEPT ![k] = call] /\ delivered' = [delivered EXCEPT ![k] = NoMemory]
    BY <1>3 DEF RecallMemory, Send
  <2> HIDE DEF call
  <2> QED BY <1>3, <2>1, <2>2 DEF RecallMemory, VaultTypeOK
<1>4. ASSUME NEW k \in Calls, RecallDecided(k) PROVE Good
  <2>1. PICK call \in Call \cup {NoCall} : calls' = [calls EXCEPT ![k] = call]
    BY <1>4, DecidedCall
  <2> QED BY <1>4, <2>1 DEF RecallDecided, VaultTypeOK
<1>15. ASSUME NEW k \in Calls, RecallReturns(k) PROVE Good
  <2>1. calls[k].memory_id \in MemoryIds
    BY <1>15, CallKinds DEF RecallReturns, Waits
  <2>2. PICK a \in {calls[k].memory_id, NoMemory} : delivered' = [delivered EXCEPT ![k] = a]
    BY <1>15 DEF RecallReturns
  <2>3. Cls
    BY <1>15 DEF RecallReturns, Done, VaultTypeOK
  <2> QED BY <1>15, <2>1, <2>2, <2>3 DEF RecallReturns, VaultTypeOK
<1>5. ASSUME NEW k \in Calls, NEW c \in ContractIds, TombstoneContractMemories(k, c)
      PROVE  Good
  <2>1. StoresFor(c) \in SUBSET MemoryIds
    BY CallKinds DEF StoresFor, Waits
  <2> DEFINE call == [kind |-> "sweep", contract_id |-> c, queue |-> MemoriesOf(c) \ tombstones,
                      late |-> IF Ended(c) THEN StoresFor(c) ELSE MemoryIds]
  <2>2. call \in Call
    BY <2>1 DEF MemoriesOf, Call
  <2>3. calls' = [calls EXCEPT ![k] = call]
    BY <1>5 DEF TombstoneContractMemories, Send
  <2> HIDE DEF call
  <2> QED BY <1>5, <2>2, <2>3 DEF TombstoneContractMemories, VaultTypeOK
<1>6. ASSUME NEW k \in Calls, NEW m \in MemoryIds, TombstoneNext(k, m) PROVE Good
  <2>1. [calls[k] EXCEPT !.queue = @ \ {m}] \in Call
    BY <1>6, CallKinds DEF TombstoneNext, Waits
  <2> QED BY <1>6, <2>1 DEF TombstoneNext, VaultTypeOK
<1>7. ASSUME NEW k \in Calls, SweepReturns(k) PROVE Good
  <2>1. calls[k].contract_id \in ContractIds
    BY <1>7, CallKinds DEF SweepReturns, Waits
  <2> QED BY <1>7, <2>1 DEF SweepReturns, Done, VaultTypeOK
<1>8. ASSUME NEW k \in Calls, AdapterRejects(k) PROVE Good
  BY <1>8 DEF AdapterRejects, Done, VaultTypeOK
<1>9. ASSUME NEW mode \in VaultModes, SetBoundaryMode(mode) PROVE Good
  BY <1>9, VaultAssumption DEF SetBoundaryMode, VaultTypeOK
<1>10. ASSUME NEW lock \in BOOLEAN, SetLock(lock) PROVE Good
  BY <1>10 DEF SetLock, VaultTypeOK
<1>11. ASSUME UNCHANGED vaultVars PROVE Good
  BY <1>11 DEF vaultVars, VaultTypeOK
<1> HIDE DEF Good
<1>12. LifecycleOperation \/ UNCHANGED vars => UNCHANGED vaultVars
  BY DEF LifecycleOperation, vars, vaultVars
<1>13. Good
  BY <1>1, <1>2, <1>3, <1>4, <1>5, <1>6, <1>7, <1>8, <1>9, <1>10, <1>11, <1>12, <1>15
     DEF VaultNext, VaultOperation
<1>14. Rig
  <2>1. CASE UNCHANGED vars
    BY <2>1 DEF vars, VaultTypeOK
  <2>2. CASE Record
    BY <2>2, Recorded
  <2> QED BY <2>1, <2>2 DEF VaultNext
<1> QED BY <1>0, <1>13, <1>14 DEF Good, VaultTypeOK

LEMMA VaultTypes == VaultSpec => []VaultTypeOK
<1>1. VaultInit => VaultTypeOK
  <2>1. Init => TypeOK
    BY DEF Init, TypeOK
  <2> QED BY <2>1, VaultAssumption DEF VaultInit, VaultTypeOK
<1>2. VaultTypeOK /\ [VaultNext]_vars => VaultTypeOK'
  BY VaultTypeStep
<1> QED BY <1>1, <1>2, PTL DEF VaultSpec

\* The vault adds nothing to what the lifecycle may do.
THEOREM VaultKeepsLifecycle == VaultSpec => Spec
<1>1. VaultInit => Init
  BY DEF VaultInit
<1>2. [VaultNext]_vars => [Next]_lifecycleVars
  BY VaultUnderneath
<1> QED BY <1>1, <1>2, PTL DEF VaultSpec, Spec
-----------------------------------------------------------------------------
(***************************************************************************)
(* What a step does to one call and to one memory.                         *)
(***************************************************************************)
CallStep(k) ==
    \/ calls'[k] = calls[k]
    \/ calls'[k] = NoCall
    \/ \E m \in MemoryIds, c \in ContractIds, r \in Requests : StoreMemory(k, m, c, r)
    \/ \E m \in MemoryIds, r \in Requests : RecallMemory(k, m, r)
    \/ \E c \in ContractIds : TombstoneContractMemories(k, c)
    \/ \E m \in MemoryIds : TombstoneNext(k, m)
    \/ RecallDecided(k)

LEMMA CallSteps ==
    ASSUME VaultTypeOK, [VaultNext]_vars, NEW k \in Calls
    PROVE  CallStep(k)
<1>1. ASSUME NEW i \in Calls,
             StoreLands(i) \/ RecallReturns(i) \/ SweepReturns(i) \/ AdapterRejects(i)
      PROVE  CallStep(k)
  <2>1. calls' = [calls EXCEPT ![i] = NoCall]
    BY <1>1 DEF StoreLands, RecallReturns, SweepReturns, AdapterRejects, Done
  <2> QED BY <2>1 DEF CallStep, VaultTypeOK
<1>2. ASSUME NEW i \in Calls, NEW m \in MemoryIds, NEW r \in Requests, NEW c \in ContractIds,
             StoreMemory(i, m, c, r)
      PROVE  CallStep(k)
  <2>1. CASE i = k
    BY <1>2, <2>1 DEF CallStep
  <2>2. CASE i # k
    BY <1>2, <2>2 DEF StoreMemory, Send, VaultTypeOK, CallStep
  <2> QED BY <2>1, <2>2
<1>3. ASSUME UNCHANGED calls PROVE CallStep(k)
  BY <1>3 DEF CallStep
<1>4. (\E mode \in VaultModes : SetBoundaryMode(mode)) \/ (\E lock \in BOOLEAN : SetLock(lock))
         \/ LifecycleOperation \/ UNCHANGED vars
      => UNCHANGED calls
  BY DEF SetBoundaryMode, SetLock, LifecycleOperation, vaultVars, vars
<1>5. ASSUME NEW i \in Calls, NEW c \in ContractIds, TombstoneContractMemories(i, c)
      PROVE  CallStep(k)
  <2>1. CASE i = k
    BY <1>5, <2>1 DEF CallStep
  <2>2. CASE i # k
    BY <1>5, <2>2 DEF TombstoneContractMemories, Send, VaultTypeOK, CallStep
  <2> QED BY <2>1, <2>2
<1>6. ASSUME NEW i \in Calls, NEW m \in MemoryIds, TombstoneNext(i, m)
      PROVE  CallStep(k)
  <2>1. CASE i = k
    BY <1>6, <2>1 DEF CallStep
  <2>2. CASE i # k
    BY <1>6, <2>2 DEF TombstoneNext, VaultTypeOK, CallStep
  <2> QED BY <2>1, <2>2
<1>7. ASSUME NEW i \in Calls, NEW m \in MemoryIds, NEW r \in Requests, RecallMemory(i, m, r)
      PROVE  CallStep(k)
  <2>1. CASE i = k
    BY <1>7, <2>1 DEF CallStep
  <2>2. CASE i # k
    BY <1>7, <2>2 DEF RecallMemory, Send, VaultTypeOK, CallStep
  <2> QED BY <2>1, <2>2
<1>8. ASSUME NEW i \in Calls, RecallDecided(i) PROVE CallStep(k)
  <2>1. CASE i = k
    BY <1>8, <2>1 DEF CallStep
  <2>2. CASE i # k
    BY <1>8, <2>2, DecidedCall DEF VaultTypeOK, CallStep
  <2> QED BY <2>1, <2>2
<1> QED BY <1>1, <1>2, <1>3, <1>4, <1>5, <1>6, <1>7, <1>8 DEF VaultNext, VaultOperation

\* One round of a sweep takes one id off its queue.
LEMMA RoundDone ==
    ASSUME VaultTypeOK, NEW k \in Calls, NEW m \in MemoryIds, TombstoneNext(k, m)
    PROVE  /\ calls'[k].kind = calls[k].kind /\ calls'[k].contract_id = calls[k].contract_id
           /\ calls'[k].late = calls[k].late
           /\ calls'[k].queue = calls[k].queue \ {m}
<1>1. calls[k] \in Call /\ calls[k].kind = "sweep"
  BY CallKinds DEF TombstoneNext, Waits
<1>2. calls'[k] = [calls[k] EXCEPT !.queue = @ \ {m}]
  BY DEF TombstoneNext, VaultTypeOK
<1> QED BY <1>1, <1>2 DEF Call

\* A call that waits to store did so before, or was sent by this step.
LEMMA StoreCalls ==
    ASSUME VaultTypeOK, [VaultNext]_vars, NEW k \in Calls, Waits(k, "store")'
    PROVE  \/ calls'[k] = calls[k] /\ Waits(k, "store")
           \/ \E m \in MemoryIds, c \in ContractIds, r \in Requests : StoreMemory(k, m, c, r)
<1>1. calls'[k] # NoCall /\ calls'[k].kind = "store"
  BY DEF Waits, InFlight
<1>2. ASSUME NEW m \in MemoryIds, NEW r \in Requests, RecallMemory(k, m, r) PROVE FALSE
  BY <1>1, <1>2 DEF RecallMemory, Send, VaultTypeOK
<1>3. ASSUME NEW c \in ContractIds, TombstoneContractMemories(k, c) PROVE FALSE
  BY <1>1, <1>3 DEF TombstoneContractMemories, Send, VaultTypeOK
<1>4. ASSUME NEW m \in MemoryIds, TombstoneNext(k, m) PROVE FALSE
  <2>1. calls'[k].kind = calls[k].kind /\ calls[k].kind = "sweep"
    BY <1>4, RoundDone DEF TombstoneNext, Waits
  <2> QED BY <1>1, <2>1
<1>5. calls'[k] = calls[k] => Waits(k, "store")
  BY <1>1 DEF Waits, InFlight
<1>6. ~RecallDecided(k)
  BY <1>1, DecidedCall DEF VaultTypeOK
<1> QED BY <1>1, <1>2, <1>3, <1>4, <1>5, <1>6, CallSteps DEF CallStep

\* A sweep under way was so before, was sent by this step, or has done one more round.
LEMMA SweepCalls ==
    ASSUME VaultTypeOK, [VaultNext]_vars, NEW k \in Calls, Waits(k, "sweep")'
    PROVE  \/ calls'[k] = calls[k] /\ Waits(k, "sweep")
           \/ \E c \in ContractIds : TombstoneContractMemories(k, c)
           \/ /\ Waits(k, "sweep") /\ calls'[k].queue \subseteq calls[k].queue
              /\ calls'[k].contract_id = calls[k].contract_id
              /\ calls'[k].late = calls[k].late
              /\ calls[k].queue \ calls'[k].queue \subseteq tombstones'
<1>1. calls'[k] # NoCall /\ calls'[k].kind = "sweep"
  BY DEF Waits, InFlight
<1>2. ASSUME NEW m \in MemoryIds, NEW r \in Requests, RecallMemory(k, m, r) PROVE FALSE
  BY <1>1, <1>2 DEF RecallMemory, Send, VaultTypeOK
<1>3. ASSUME NEW m \in MemoryIds, NEW c \in ContractIds, NEW r \in Requests,
             StoreMemory(k, m, c, r)
      PROVE  FALSE
  BY <1>1, <1>3 DEF StoreMemory, Send, VaultTypeOK
<1>4. calls'[k] = calls[k] => Waits(k, "sweep")
  BY <1>1 DEF Waits, InFlight
<1>5. (\E m \in MemoryIds : TombstoneNext(k, m)) =>
         /\ Waits(k, "sweep") /\ calls'[k].queue \subseteq calls[k].queue
         /\ calls'[k].contract_id = calls[k].contract_id
         /\ calls'[k].late = calls[k].late
         /\ calls[k].queue \ calls'[k].queue \subseteq tombstones'
  BY RoundDone DEF TombstoneNext
<1>6. ~RecallDecided(k)
  BY <1>1, DecidedCall DEF VaultTypeOK
<1> QED BY <1>1, <1>2, <1>3, <1>4, <1>5, <1>6, CallSteps DEF CallStep

\* A memory stays as it is, but for a store that lands on its id; a tombstone comes from
\* the queue of a sweep.
LEMMA MemorySteps ==
    ASSUME VaultTypeOK, [VaultNext]_vars
    PROVE  /\ \A m \in MemoryIds :
                 \/ memories'[m] = memories[m]
                 \/ \E k \in Calls : Waits(k, "store") /\ calls[k].memory_id = m
                                        /\ memories'[m] = calls[k].memory
           /\ tombstones \subseteq tombstones'
           /\ \A m \in tombstones' \ tombstones :
                 \E k \in Calls : Waits(k, "sweep") /\ m \in calls[k].queue
<1> DEFINE Mem == \A m \in MemoryIds :
                     \/ memories'[m] = memories[m]
                     \/ \E k \in Calls : Waits(k, "store") /\ calls[k].memory_id = m
                                            /\ memories'[m] = calls[k].memory
           Tomb == /\ tombstones \subseteq tombstones'
                   /\ \A m \in tombstones' \ tombstones :
                         \E k \in Calls : Waits(k, "sweep") /\ m \in calls[k].queue
<1>1. ASSUME NEW k \in Calls, StoreLands(k) PROVE Mem /\ Tomb
  BY <1>1 DEF StoreLands, VaultTypeOK
<1>2. ASSUME NEW k \in Calls, NEW m \in MemoryIds, TombstoneNext(k, m) PROVE Mem /\ Tomb
  BY <1>2 DEF TombstoneNext
<1>3. ASSUME UNCHANGED <<memories, tombstones>> PROVE Mem /\ Tomb
  BY <1>3
<1> HIDE DEF Mem, Tomb
<1>4. Mem /\ Tomb
  BY <1>1, <1>2, <1>3
     DEF VaultNext, VaultOperation, StoreMemory, RecallMemory, RecallDecided, RecallReturns,
         SweepReturns, AdapterRejects, TombstoneContractMemories, SetBoundaryMode, SetLock, LifecycleOperation, vaultVars, vars
<1> QED BY <1>4 DEF Mem, Tomb
-----------------------------------------------------------------------------
(***************************************************************************)
(* The write gate.                                                         *)
(***************************************************************************)
Gated(memory) ==
    LET c == memory.contract_id IN
    /\ Exists(c) /\ WasLogged(c, "active")
    /\ contracts[c].contract_type \in {"episodic", "procedural", "strategic"}
    /\ contracts[c].memory_permissions.may_store
    /\ memory.classification <= contracts[c].memory_permissions.classification_cap
    /\ Fits(memory.domain, contracts[c].scope.domains)

GateInv ==
    /\ ActiveInv
    /\ \A m \in MemoryIds : memories[m] # NoMemory => Gated(memories[m])
    /\ \A k \in Calls : Waits(k, "store") => Gated(calls[k].memory)
    /\ \A m \in tombstones : memories[m] # NoMemory
    /\ \A k \in Calls : Waits(k, "sweep") => \A m \in calls[k].queue : memories[m] # NoMemory

\* What was let through stays so: no lifecycle operation takes back what the contract
\* allowed, nor that it was active.
LEMMA GatedStays ==
    ASSUME VaultTypeOK, [VaultNext]_vars, NEW memory \in Memory, Gated(memory)
    PROVE  Gated(memory)'
<1> DEFINE c == memory.contract_id
<1>0. c \in ContractIds /\ Exists(c)
  BY DEF Memory, Gated
<1> HIDE DEF c
<1>1. TypeOK /\ PointStep(c) /\ StoreStep(c)
  BY <1>0, VaultUnderneath, StepLemma, StoreLemma DEF VaultTypeOK
<1>2. WasLogged(c, "active") => WasLogged(c, "active")'
  BY <1>0, <1>1, TrailGrows
<1>3. /\ Exists(c)'
      /\ contracts'[c].contract_type = contracts[c].contract_type
      /\ contracts'[c].memory_permissions = contracts[c].memory_permissions
      /\ contracts'[c].scope = contracts[c].scope
  BY <1>0, <1>1, TermsStay
<1> QED BY <1>2, <1>3 DEF Gated, c

\* The vault's decision is what the gate asks for.
LEMMA CheckedIsGated ==
    ASSUME VaultTypeOK, ActiveInv, NEW c \in ContractIds, NEW r, CheckStorePermission(c, r),
           NEW memory, memory.contract_id = c, memory.classification = r.classification,
           memory.domain = r.domain
    PROVE  Gated(memory)
<1>1. contracts[c] \in LearningContract /\ Exists(c)
  BY StoredType DEF VaultTypeOK, CheckStorePermission, InState
<1>2. contracts[c].contract_type \in {"episodic", "procedural", "strategic"}
  BY <1>1 DEF CheckStorePermission, LearningContract, ContractType
<1>3. WasLogged(c, "active")
  BY DEF CheckStorePermission, ActiveInv
<1> QED BY <1>1, <1>2, <1>3 DEF CheckStorePermission, Gated

LEMMA GateStep ==
    ASSUME VaultTypeOK, GateInv, [VaultNext]_vars
    PROVE  GateInv'
<1>1. ActiveInv'
  BY VaultUnderneath, StepLemma, ActiveStep DEF VaultTypeOK, GateInv
<1>2. ASSUME NEW m \in MemoryIds, memories[m] # NoMemory
      PROVE  memories'[m] # NoMemory
  BY <1>2, MemorySteps, CallKinds, VaultAssumption DEF Waits
<1>3. ASSUME NEW m \in MemoryIds, NEW x, x = memories'[m], x # NoMemory
      PROVE  Gated(x)'
  <2>1. x \in Memory /\ Gated(x)
    BY <1>3, MemorySteps, CallKinds DEF GateInv, Waits, VaultTypeOK
  <2> QED BY <2>1, GatedStays
<1>4. ASSUME NEW k \in Calls, Waits(k, "store")', NEW x, x = calls'[k].memory
      PROVE  Gated(x)'
  <2>1. CASE calls'[k] = calls[k] /\ Waits(k, "store")
    <3>1. x \in Memory /\ Gated(x)
      BY <1>4, <2>1, CallKinds DEF GateInv, Waits
    <3> QED BY <3>1, GatedStays
  <2>2. ASSUME NEW m \in MemoryIds, NEW c \in ContractIds, NEW r \in Requests,
               StoreMemory(k, m, c, r)
        PROVE  Gated(x)'
    <3> DEFINE memory == [contract_id |-> c, classification |-> r.classification,
                          domain |-> r.domain, context |-> r.context, tool |-> r.tool]
    <3>1. x = memory /\ CheckStorePermission(c, r)
      BY <1>4, <2>2 DEF StoreMemory, Send, VaultTypeOK
    <3>2. memory \in Memory
      BY SentStore, VaultAssumption
    <3>3. Gated(memory)
      BY <3>1, CheckedIsGated DEF GateInv
    <3> QED BY <3>1, <3>2, <3>3, GatedStays
  <2> QED BY <1>4, <2>1, <2>2, StoreCalls
<1>5. ASSUME NEW m \in tombstones' PROVE memories'[m] # NoMemory
  <2>1. m \in MemoryIds /\ memories[m] # NoMemory
    BY <1>5, MemorySteps, CallKinds DEF GateInv, Waits, VaultTypeOK
  <2> QED BY <1>2, <2>1
<1>6. ASSUME NEW k \in Calls, Waits(k, "sweep")', NEW m \in calls'[k].queue
      PROVE  memories'[m] # NoMemory
  <2>1. m \in MemoryIds /\ memories[m] # NoMemory
    <3>1. CASE calls'[k] = calls[k] /\ Waits(k, "sweep")
      BY <1>6, <3>1, CallKinds DEF GateInv, Waits
    <3>2. ASSUME NEW c \in ContractIds, TombstoneContractMemories(k, c)
          PROVE  m \in MemoryIds /\ memories[m] # NoMemory
      BY <1>6, <3>2 DEF TombstoneContractMemories, Send, MemoriesOf, VaultTypeOK
    <3>3. ASSUME Waits(k, "sweep"), calls'[k].queue \subseteq calls[k].queue
          PROVE  m \in MemoryIds /\ memories[m] # NoMemory
      BY <1>6, <3>3, CallKinds DEF GateInv, Waits
    <3> QED BY <1>6, <3>1, <3>2, <3>3, SweepCalls
  <2> QED BY <1>2, <2>1
<1>7. GateInv' =
         (/\ ActiveInv'
          /\ \A m \in MemoryIds : memories'[m] # NoMemory => Gated(memories[m])'
          /\ \A k \in Calls : Waits(k, "store")' => Gated(calls[k].memory)'
          /\ \A m \in tombstones' : memories'[m] # NoMemory
          /\ \A k \in Calls : Waits(k, "sweep")' => \A m \in calls'[k].queue : memories'[m] # NoMemory)
  BY DEF GateInv
<1>8. \A m \in MemoryIds : memories'[m] # NoMemory => Gated(memories[m])'
  BY <1>3 DEF Gated, Exists, WasLogged
<1>9. \A k \in Calls : Waits(k, "store")' => Gated(calls[k].memory)'
  BY <1>4 DEF Gated, Exists, WasLogged
<1> QED BY <1>1, <1>5, <1>6, <1>7, <1>8, <1>9

LEMMA GateInvariant == VaultSpec => []GateInv
<1>1. VaultInit => GateInv
  <2> SUFFICES ASSUME VaultInit PROVE GateInv
    OBVIOUS
  <2>1. \A c \in ContractIds : ~InState(c, "active")
    BY DEF VaultInit, Init, InState, Exists
  <2>2. \A k \in Calls, kind \in {"store", "sweep"} : ~Waits(k, kind)
    BY DEF VaultInit, Waits, InFlight
  <2> QED BY <2>1, <2>2 DEF VaultInit, GateInv, ActiveInv
<1>2. VaultTypeOK /\ GateInv /\ [VaultNext]_vars => GateInv'
  BY GateStep
<1> QED BY <1>1, <1>2, VaultTypes, PTL DEF VaultSpec

\* storeMemory lets nothing in that a contract, once activated, did not allow: neither the
\* contract's later fate nor that of the call makes what is stored or on its way exceed
\* the contract's cap and scope.
THEOREM NothingPastTheGate == VaultSpec => []WriteGate
<1>1. VaultTypeOK /\ GateInv => WriteGate
  <2> SUFFICES ASSUME VaultTypeOK, GateInv, NEW memory \in StoredOrOnTheWay
               PROVE  Gated(memory)
    BY DEF WriteGate, Gated, WasLogged, GateInv, VaultTypeOK
  <2> QED BY DEF GateInv, StoredOrOnTheWay
<1> QED BY <1>1, VaultTypes, GateInvariant, PTL
-----------------------------------------------------------------------------
(***************************************************************************)
(* Recalls.                                                                *)
(***************************************************************************)
\* What makes it right to hand the memory of a recall out is found whole by the step that
\* asks the contract and the adapter, or was before; the record keeps it.
RecallInv ==
    \A k \in Calls :
       /\ Waits(k, "recall") /\ MayAnswer(k) => rightful[k]
       /\ Waits(k, "read") /\ calls[k].success => rightful[k]

\* A call that waits for the adapter's recallMemory did so before, or asked it in this step,
\* and has success only if all conditions held.
LEMMA ReadCalls ==
    ASSUME VaultTypeOK, [VaultNext]_vars, NEW k \in Calls, Waits(k, "read")'
    PROVE  \/ calls'[k] = calls[k] /\ Waits(k, "read")
           \/ /\ Waits(k, "recall")
              /\ calls'[k].success => MayAnswer(k)
<1>1. calls'[k] # NoCall /\ calls'[k].kind = "read"
  BY DEF Waits, InFlight
<1>2. ASSUME NEW m \in MemoryIds, NEW r \in Requests, RecallMemory(k, m, r) PROVE FALSE
  BY <1>1, <1>2 DEF RecallMemory, Send, VaultTypeOK
<1>3. ASSUME NEW m \in MemoryIds, NEW c \in ContractIds, NEW r \in Requests,
             StoreMemory(k, m, c, r)
      PROVE  FALSE
  BY <1>1, <1>3 DEF StoreMemory, Send, VaultTypeOK
<1>4. ASSUME NEW c \in ContractIds, TombstoneContractMemories(k, c) PROVE FALSE
  BY <1>1, <1>4 DEF TombstoneContractMemories, Send, VaultTypeOK
<1>5. ASSUME NEW m \in MemoryIds, TombstoneNext(k, m) PROVE FALSE
  <2>1. calls'[k].kind = calls[k].kind /\ calls[k].kind = "sweep"
    BY <1>5, RoundDone DEF TombstoneNext, Waits
  <2> QED BY <1>1, <2>1
<1>6. calls'[k] = calls[k] => Waits(k, "read")
  BY <1>1 DEF Waits, InFlight
<1>7. ASSUME RecallDecided(k)
      PROVE  Waits(k, "recall") /\ (calls'[k].success => MayAnswer(k))
  <2> DEFINE m == calls[k].memory_id
             allowed == CheckRecallPermission(memories[m].contract_id, calls[k].query)
  <2>1. allowed
    BY <1>1, <1>7 DEF RecallDecided, Done, VaultTypeOK
  <2>2. calls'[k].success = (~isLocked /\ m \notin tombstones)
    BY <1>7, <2>1 DEF RecallDecided, VaultTypeOK
  <2>3. ~isLocked /\ m \notin tombstones => MayAnswer(k)
    BY <2>1 DEF CheckRecallPermission, MayAnswer, InState, Ended
  <2> QED BY <1>7, <2>2, <2>3 DEF RecallDecided
<1> QED BY <1>1, <1>2, <1>3, <1>4, <1>5, <1>6, <1>7, CallSteps DEF CallStep

LEMMA RecallStep ==
    ASSUME VaultTypeOK, RecallInv, [VaultNext]_vars
    PROVE  RecallInv'
<1>1. CASE UNCHANGED vars
  BY <1>1 DEF vars, RecallInv, Waits, InFlight, MayAnswer, Ended, InState, Exists
<1>2. CASE Record
  <2> SUFFICES ASSUME NEW k \in Calls
               PROVE  /\ Waits(k, "recall")' /\ MayAnswer(k)' => rightful'[k]
                      /\ Waits(k, "read")' /\ calls'[k].success => rightful'[k]
    BY DEF RecallInv
  <2>1. Waits(k, "recall")' /\ MayAnswer(k)' => rightful'[k]
    BY <1>2, Recorded DEF Recalling
  <2>2. ASSUME Waits(k, "read")', calls'[k].success PROVE rightful'[k]
    <3>1. rightful[k]
      BY <2>2, ReadCalls DEF RecallInv
    <3> QED BY <1>2, <2>2, <3>1, Recorded DEF Recalling
  <2> QED BY <2>1, <2>2
<1> QED BY <1>1, <1>2 DEF VaultNext

LEMMA RecallInvariant == VaultSpec => []RecallInv
<1>1. VaultInit => RecallInv
  BY DEF VaultInit, RecallInv, Waits, InFlight
<1>2. VaultTypeOK /\ RecallInv /\ [VaultNext]_vars => RecallInv'
  BY RecallStep
<1> QED BY <1>1, <1>2, VaultTypes, PTL DEF VaultSpec

\* recallMemory, however late the adapter answers it, twice: what it returns it could
\* rightly have returned at some moment since it was called, all conditions at once.
THEOREM RecallsHonour == VaultSpec => RecallsHonourContract
<1> DEFINE A == \A k \in Calls : delivered'[k] \notin {delivered[k], NoMemory} =>
                   rightful[k] /\ delivered'[k] = calls[k].memory_id
<1>1. VaultTypeOK /\ RecallInv /\ [VaultNext]_vars => A
  <2> SUFFICES ASSUME VaultTypeOK, RecallInv, [VaultNext]_vars, NEW k \in Calls,
                      delivered'[k] \notin {delivered[k], NoMemory}
               PROVE  rightful[k] /\ delivered'[k] = calls[k].memory_id
    OBVIOUS
  <2>1. ASSUME NEW i \in Calls, NEW m \in MemoryIds, NEW r \in Requests, RecallMemory(i, m, r)
        PROVE  FALSE
    BY <2>1 DEF RecallMemory, VaultTypeOK
  <2>2. ASSUME NEW i \in Calls, RecallReturns(i) PROVE i = k
    BY <2>2 DEF RecallReturns, VaultTypeOK
  <2>3. delivered' # delivered
    OBVIOUS
  <2>4. RecallReturns(k)
    BY <2>1, <2>2, <2>3
       DEF VaultNext, VaultOperation, StoreMemory, StoreLands, RecallDecided, SweepReturns,
           AdapterRejects, TombstoneContractMemories, TombstoneNext, SetBoundaryMode, SetLock,
           LifecycleOperation, vaultVars, vars
  <2>5. Waits(k, "read") /\ calls[k].success /\ delivered'[k] = calls[k].memory_id
    BY <2>4 DEF RecallReturns, VaultTypeOK
  <2> QED BY <2>5 DEF RecallInv
<1> QED BY <1>1, VaultTypes, RecallInvariant, PTL DEF VaultSpec, RecallsHonourContract
-----------------------------------------------------------------------------
(***************************************************************************)
(* Forgetting.                                                             *)
(***************************************************************************)
\* What a contract still has to forget.
Pending(c) == (MemoriesOf(c) \cup StoresFor(c)) \ tombstones

\* A sweep begun before its contract ended vouches for nothing.
Covers(k, c) ==
    /\ ~Ended(c) => calls[k].late = MemoryIds
    /\ Pending(c) \subseteq calls[k].queue \cup calls[k].late

SweepsCover ==
    \A c \in ContractIds :
       /\ ~Ended(c) => missed[c] = MemoryIds
       /\ Pending(c) \subseteq missed[c]
       /\ \A k \in Calls : Waits(k, "sweep") /\ calls[k].contract_id = c => Covers(k, c)

\* What has ended stays so.
LEMMA EndedStays ==
    ASSUME VaultTypeOK, [VaultNext]_vars, NEW c \in ContractIds, Ended(c)
    PROVE  Ended(c)'
<1>1. StateOf(c) \in {"revoked", "expired"}
  BY DEF Ended, InState, StateOf
<1>2. StateOf(c)' = StateOf(c)
  BY <1>1, VaultUnderneath, StepLemma DEF VaultTypeOK, PointStep, Stays, Moves
<1> QED BY <1>1, <1>2 DEF Ended, InState, StateOf

\* Once a contract has ended nothing is added to what it has to forget.
LEMMA PendingShrinks ==
    ASSUME VaultTypeOK, [VaultNext]_vars, NEW c \in ContractIds, Ended(c)
    PROVE  Pending(c)' \subseteq Pending(c)
<1> SUFFICES ASSUME NEW m \in Pending(c)'
             PROVE  m \in Pending(c)
  OBVIOUS
<1>0. m \in MemoryIds /\ m \notin tombstones'
  BY CallKinds, VaultTypeStep DEF Pending, MemoriesOf, StoresFor, Waits, VaultTypeOK, InFlight, Call
<1>1. m \notin tombstones
  BY <1>0, MemorySteps
<1>2. CASE m \in MemoriesOf(c)'
  BY <1>0, <1>1, <1>2, MemorySteps DEF MemoriesOf, StoresFor, Pending
<1>3. ASSUME NEW k \in Calls, Waits(k, "store")', calls'[k].memory.contract_id = c,
             calls'[k].memory_id = m
      PROVE  m \in StoresFor(c)
  <2>1. ASSUME NEW i \in MemoryIds, NEW x \in ContractIds, NEW r \in Requests,
               StoreMemory(k, i, x, r)
        PROVE  FALSE
    <3>1. calls'[k].memory.contract_id = x
      BY <2>1 DEF StoreMemory, Send, VaultTypeOK
    <3> QED BY <1>3, <2>1, <3>1 DEF StoreMemory, CheckStorePermission, InState, Ended
  <2> QED BY <1>3, <2>1, StoreCalls DEF StoresFor
<1> QED BY <1>1, <1>2, <1>3 DEF Pending, StoresFor

\* What a sweep that returns leaves the contract.
LEMMA MissedSteps ==
    ASSUME VaultTypeOK, [VaultNext]_vars, NEW c \in ContractIds
    PROVE  \/ missed'[c] = missed[c]
           \/ \E k \in Calls : /\ Waits(k, "sweep") /\ calls[k].contract_id = c
                               /\ calls[k].queue = {}
                               /\ missed'[c] = missed[c] \cap calls[k].late
<1>1. ASSUME NEW k \in Calls, SweepReturns(k)
      PROVE  missed'[c] = missed[c] \/ /\ Waits(k, "sweep") /\ calls[k].contract_id = c
                                       /\ calls[k].queue = {}
                                       /\ missed'[c] = missed[c] \cap calls[k].late
  BY <1>1 DEF SweepReturns, VaultTypeOK
<1> QED BY <1>1
        DEF VaultNext, VaultOperation, StoreMemory, StoreLands, RecallMemory, RecallDecided,
            RecallReturns, AdapterRejects, TombstoneContractMemories, TombstoneNext, SetBoundaryMode, SetLock,
            LifecycleOperation, vaultVars, vars

LEMMA CoverStep ==
    ASSUME VaultTypeOK, SweepsCover, [VaultNext]_vars
    PROVE  SweepsCover'
<1>0. VaultTypeOK'
  BY VaultTypeStep
<1> SUFFICES ASSUME NEW c \in ContractIds
             PROVE  /\ ~Ended(c)' => missed'[c] = MemoryIds
                    /\ Pending(c)' \subseteq missed'[c]
                    /\ \A k \in Calls :
                          Waits(k, "sweep")' /\ calls'[k].contract_id = c => Covers(k, c)'
  BY DEF SweepsCover
<1>1. Ended(c) => Ended(c)' /\ Pending(c)' \subseteq Pending(c)
  BY EndedStays, PendingShrinks
<1>2. ASSUME NEW m \in Pending(c)' PROVE m \in MemoryIds
  BY <1>0, <1>2 DEF Pending, MemoriesOf, StoresFor, Waits, VaultTypeOK, InFlight, Call
<1>3. ASSUME ~Ended(c) PROVE missed'[c] = MemoryIds
  <2>1. missed[c] = MemoryIds
    BY <1>3 DEF SweepsCover
  <2>2. \A k \in Calls : Waits(k, "sweep") /\ calls[k].contract_id = c
                            => calls[k].late = MemoryIds
    BY <1>3 DEF SweepsCover, Covers
  <2>3. MemoryIds \cap MemoryIds = MemoryIds
    OBVIOUS
  <2> QED BY <2>1, <2>2, <2>3, MissedSteps
<1>4. ASSUME Ended(c) PROVE Pending(c)' \subseteq missed'[c]
  BY <1>1, <1>4, MissedSteps DEF SweepsCover, Covers
<1>5. ASSUME NEW k \in Calls, Waits(k, "sweep")', calls'[k].contract_id = c
      PROVE  Covers(k, c)'
  <2>1. CASE calls'[k] = calls[k] /\ Waits(k, "sweep")
    BY <1>1, <1>2, <1>5, <2>1 DEF SweepsCover, Covers
  <2>2. ASSUME NEW x \in ContractIds, TombstoneContractMemories(k, x)
        PROVE  Covers(k, c)'
    <3>1. /\ x = c /\ calls'[k].queue = MemoriesOf(c) \ tombstones
          /\ calls'[k].late = IF Ended(c) THEN StoresFor(c) ELSE MemoryIds
      BY <1>5, <2>2 DEF TombstoneContractMemories, Send, VaultTypeOK
    <3>2. Ended(c)' <=> Ended(c)
      BY <2>2 DEF TombstoneContractMemories, lifecycleVars, Ended, InState, Exists
    <3> QED BY <1>1, <1>2, <3>1, <3>2 DEF Covers, Pending
  <2>3. CASE /\ Waits(k, "sweep") /\ calls'[k].contract_id = calls[k].contract_id
             /\ calls'[k].late = calls[k].late
             /\ calls[k].queue \ calls'[k].queue \subseteq tombstones'
    <3>1. Covers(k, c)
      BY <1>5, <2>3 DEF SweepsCover
    <3>2. Pending(c)' \cap tombstones' = {}
      BY DEF Pending
    <3> QED BY <1>1, <1>2, <2>3, <3>1, <3>2 DEF Covers
  <2> QED BY <1>5, <2>1, <2>2, <2>3, SweepCalls
<1> QED BY <1>1, <1>2, <1>3, <1>4, <1>5

LEMMA CoverInvariant == VaultSpec => []SweepsCover
<1>1. VaultInit => SweepsCover
  <2> SUFFICES ASSUME VaultInit PROVE SweepsCover
    OBVIOUS
  <2>1. \A k \in Calls, kind \in {"store", "sweep"} : ~Waits(k, kind)
    BY DEF VaultInit, Waits, InFlight
  <2>2. \A c \in ContractIds : MemoriesOf(c) = {} /\ StoresFor(c) = {}
    BY <2>1 DEF VaultInit, MemoriesOf, StoresFor
  <2> QED BY <2>1, <2>2 DEF VaultInit, SweepsCover, Pending
<1>2. VaultTypeOK /\ SweepsCover /\ [VaultNext]_vars => SweepsCover'
  BY CoverStep
<1> QED BY <1>1, <1>2, VaultTypes, PTL DEF VaultSpec

\* tombstoneContractMemories: what a contract that has ended still has untombstoned is
\* what its completed sweeps could not see, the stores on their way when they began,
\* however sweeps, stores, rejections and the end itself interleave.
THEOREM SweepsForget == VaultSpec => []SweptIsForgotten
<1>1. SweepsCover => SweptIsForgotten
  BY DEF SweepsCover, SweptIsForgotten, Pending
<1> QED BY <1>1, CoverInvariant, PTL
=============================================================================
