# Learning contracts in TLA+

A formal model of the Learning Contracts system of this repository: TLA+ modules for the
components that decide what may be learned, kept and recalled, TLC configurations that check
them on small instances, and theorems about them that TLAPS checks for every instance.

Paths are relative to the repository; `lifecycle.ts` is `src/contracts/lifecycle.ts` and so on;
specs.md is `docs/internal/specs.md`. `PROJECT.json` holds the same information for tools: the
runs, for each definition the lines it models, for each checked property a plausible bug that
breaks it, and the hazards.

## 1. The system

The library is one `LearningContractsSystem` object (`src/system.ts`) in one JavaScript process,
and two packages that wrap it for an external memory vault and an external boundary daemon. Every
exported operation of the core runs to completion before the event loop gives the turn to anybody
else. Concurrency comes from four places only: the order in which callers and timers get their
turn, listeners that call back into a component while it is in the middle of an operation, the
`await`s of the storage adapter, of a host's memory store, of the vault and of the daemon, and
crashes of the process.

| Component | State | Operations | Talks to | What is hard |
|---|---|---|---|---|
| Contract lifecycle (`contracts/lifecycle.ts`, `validator.ts`) | none of its own: contract objects | createDraft, submitForReview, activate, expire, revoke, amend | audit log (call) | amend logs before it validates; amended contracts may come back |
| System facade (`system.ts`) | rate limiter buckets | all of the above behind the repository; createContract with limiter and owner | everything | one operation writes to four subsystems and may fail half-way |
| Repository (`storage/repository.ts`) | cache map, pendingWrites, initialized | save, delete, queries, initialize, flush, close | storage adapter (promises) | background writes, flush, expiry comparisons, prohibited contracts first |
| File adapter (`storage/file-adapter.ts`) | map, the storage file and its `.tmp` | initialize, save, delete, close | file system | several saves at once, failures of any file operation, crashes |
| Audit log (`audit/logger.ts`) | events | log*, queries | - | must agree with the store |
| Permissions (`user-management/permissions.ts`) | entries per contract | setOwner, grant, revoke, transfer, checks, cleanup | - | owner stays unique; expiry instants |
| User connections (`user-management/manager.ts`) | users, connections, counters, a timer | register, connect, disconnect, kick, activity, time-outs | listeners, audit log | listeners call back while the two maps are being changed |
| Enforcement hooks (`enforcement/engine.ts`) | none | checkMemoryCreation, checkAbstraction, checkRecall, checkExport | override, lifecycle, audit | rules split between validator and hooks |
| Timebound expiry (`expiry/manager.ts`) | interval, statistics, listeners | start, stop, runExpiryCycle, forceExpire, setCheckInterval | repository, lifecycle, listeners | listeners re-enter the manager; timers restart |
| Sessions (`session/manager.ts`) | sessions, contract-to-session map | start, associate, disassociate, end, time out, clean up | repository, lifecycle | two maps that must agree; shared contracts |
| Emergency override (`emergency-override/manager.ts`) | active, counters, timer | trigger, disable, auto-disable, checkOperation, destroy | hooks | stale timers, refused call-backs |
| Governed store (`integration/memory-store.ts`) | the backing store | store, storeWithDiscovery, recall, forgetByContract | hooks, a host's `MemoryStore` | decisions go stale while a call is in flight |
| Middleware (`integration/middleware.ts`) | none | wrappers around one hook and one function | hooks | as the governed store |
| Memory forgetting (`memory/forgetting.ts`) | none of its own | freeze, tombstone, deep purge | audit log | following derived memories through any graph |
| Contract factory (`contracts/factory.ts`) | none | five kinds of drafts | validator | defaults the validator must accept |
| Plain language (`plain-language/*`) | conversations | start, answer, template, cancel, clean up; parsing and wording | factory's place: it builds drafts | answers in any order, templates at any step |
| Boundary package (`packages/boundary-adapter`) | cached mode, suspended contracts; the daemon's mode and lockdown | suspend, resume, mode changes, ceremonies, lockdown, gates | daemon, listeners, host's active contracts | nested mode changes, a live map, stale reads |
| Vault package (`packages/vault-adapter`) | boundary mode; the vault's memories, tombstones, lock | store, recall, sweep, query | vault (promises), repository | checks before, use after the await; sweeps that break off |
| Errors | - | construction and formatting | - | - |

What makes each of them correct, in a line:

- lifecycle: explicit consent before activity, nothing after the end, a truthful audit trail;
- facade: the limiter's allowance is kept, every contract is owned by at most one user;
- persistence: what was acknowledged survives, the file is whole, calls return;
- permissions: access comes from an owner, one owner, expiry does not depend on a sweep;
- connections: status and connection map agree whenever a listener can look, the trail accounts for
  every connection, idle ones end;
- hooks, factory and conversation: what a type forbids is refused by validator and hooks together,
  whoever drafted the contract, and a user confirms what he was shown;
- expiry: only what is due expires, all of it does, and it is counted once;
- sessions: the two maps agree, an ending session takes its own contracts and no others;
- override: it stops everything, is not cut short, and ends;
- governed store and vault: memories stay within the terms of their contract, recalls within one
  contract, and what has ended is not handed out;
- boundary: nothing runs in a mode below its own, everything that may run again does;
- forgetting: all that derives from a contract goes, and nothing else.

## 2. The modules

    Contracts ---- the data: types, validator, transitions, expiry (no state)
       |
       +-- Lifecycle --- LifecycleDiagram     the core and the abstract specification it implements
       |      +-- Access            rate limiter + permissions + lifecycle
       |      +-- TimeboundExpiry   expiry manager + lifecycle
       |      +-- Sessions          session manager + lifecycle
       |      +-- GovernedStore     governed store + override switch + lifecycle + Enforcement
       |      +-- Vault             enforced vault over an asynchronous adapter + lifecycle
       |
       +-- Enforcement              the four hooks as operators (no state)
              +-- Drafting          the factory's drafts, and a conversation's (no state)
                     +-- Conversation
    EmergencyOverride, Forgetting, FileStore, Connections, Boundary     each on its own
    MC*                 an instance of each for TLC

and the proofs, in modules of their own:

    Lifecycle_proofs                Lifecycle, and that it implements LifecycleDiagram
       +-- System_proofs            Access, GovernedStore
       +-- Expiry_proofs            Sessions, TimeboundExpiry
       +-- Vault_proofs             Vault
    Conversation_proofs             Conversation, and the drafts and hooks under it
    Connections_proofs              Connections
    Safeguards_proofs               EmergencyOverride, Forgetting
    Environment_proofs              FileStore, Boundary

A module that composes components with `Lifecycle` carries the whole of its next-state relation, so
what one component decided may be changed by any lifecycle operation before its next step.

### Contracts

`LearningContract`, `MemoryPermissions` and the other records have the fields of
`src/types/contract.ts` that some property can tell apart. Times are naturals, a missing date is
`NoTime`. `Validate` is `ContractValidator.validate` as far as it *rejects*: warnings do not stop a
contract. `Amended` is the field by field merge of `amend`; a null `expiration` in the change set
counts as not given, as `??` makes it. `IsExpired` and `IsEnforceable` are methods of the lifecycle
manager.

### Lifecycle and LifecycleDiagram

State: `contracts` (the repository's map), `trail` (per contract, the lifecycle transitions the audit
log holds), `now`. One action per operation of the facade, with the log entry and the save it makes:
`CreateContract`, `SubmitForReview`, `ActivateContract`, `RevokeContract`, `AmendContract`,
`AmendContractThrows` (the new draft is refused after active -> amended was logged) and
`ExpireOldContracts`, which expires all of its contracts in one turn of the event loop. An operation
that throws before it has changed anything is a stuttering step.

`LifecycleDiagram` is the abstract specification: a state per contract and the arrows of the
lifecycle. `Lifecycle` implements it under `state <- [c |-> StateOf(c)]`. The one arrow of the
transition table that is not in it, review -> draft, has no operation that takes it.

### Access

`createContract` whole (`Create`, `CreateThrows`: token, draft, save, owner, and where each may throw),
`configureRateLimit`, and all of `PermissionManager`. The token bucket refills lazily at the next
attempt; `Refilled` is that arithmetic. Entries are a set per contract (the code keeps an array; as
`OwnedByOne` shows a user has one entry, its order decides nothing). A user outside `WellFormedIds`
stands for an id `validateId` refuses, for instance an e-mail address.

### TimeboundExpiry

`frames` is the stack of manager calls under way. `ExpireContract` handles one contract of the top
frame's queue (`Expiring` is what that does to the frame) and hands the turn to the expiry listeners; `CompleteCycle` adds up and hands it to the
cycle listeners; `Return` pops the frame, and for a `start` creates the interval, which the code does
only after the initial cycle has returned. A listener may make one call - of the manager or of the
system - before it returns. Timers fire only when the stack is empty.

### Sessions

`sessions` and `contractToSession` as in the code. `EndEach` ends sessions one after another as
`endSession` does, including the case of a contract listed by two of them, of which the map names one.
`ExpireTimedOutSessions` sets the status and then finds `endSession` refusing, as the code does.

### EmergencyOverride

Timers are counted down to zero, `age` counts up from the last trigger, so no clock needs a bound.
`EffectiveDelay` is the runtime's rule that a delay above 2^31 - 1 becomes 1 ms, with `MaxDelay` for
2^31 - 1. `AutoDisable` is the timer's callback: `disableOverride` without a token, refusals included.

### FileStore

`ContractRepository` over `FileStorageAdapter`, split at each `await`: a save is open (which
truncates), write, rename, chmod, and on failure access and unlink. Any number of writers share one
`.tmp` name, as `repository.save` starts a write without waiting for the one before. Names lead to
inodes, whose content is empty, torn or complete; one that no name and no writer leads to is gone
(`Reachable`). `Save`, `Delete`, `Flush`, `Close` and `Initialize` are the synchronous parts of the
repository's methods; `Settle` is what happens when a save's promise settles. `Crash` may hit between any two steps and may leave a half-written file.
`acked` is history: the newest version of each contract whose save resolved; a start that had to
make do with what an overlap left, or could not read the file, resets it. `overlap` is history too:
whether saves have overlapped ("some"), and whether one that started alone is about to put things
right ("mending", until its rename). The properties speak of the time without overlap or after it,
for while saves overlap the file may be anything (section 5).

### Enforcement and GovernedStore

`CheckMemoryCreation`, `CheckAbstraction`, `CheckRecall` and `CheckExport` decide as the engine does,
scope, abstraction level and boundary mode included. `GovernedStore` makes the hook's decision and the
call of the backing store one step, as the code does (no `await` between them), and lets the backing
store answer in any order later, while contracts and the override change. `ApplicableContracts` is
`findApplicableContract`: the prohibited ones first. The backing store itself is the repository's
`InMemoryStore`, made asynchronous.

### Drafting and Conversation

`Drafting` has the five drafts of `ContractFactory` with their defaults, and `DraftOf`, what
`createContractFromPlainLanguage` makes of a conversation's draft. `Conversation` is
`ConversationalContractBuilder`: one action per handler, each the whole of it, `advanceConversation`
and `goToReview` (`NextStep`, `Advanced`) included, plus `useTemplate`, `cancelConversation` and
`cleanupOldConversations`. What users write is a set `Texts` of intents the parser can produce
(`ParsedIntents`). The steps contexts, tools and recall have handlers in the source but no assignment
enters them; they are left out. `shown` is history: the draft the last review displayed. The host then
makes a contract - of the confirmed draft, by the factory or by hand - moves it through its states and
asks the hooks, so that `TypesBindHooks` speaks of every way a contract comes to be.

### Connections

`UserManager`: `users` and `connections` are its two maps, `frames` the stack of its calls under way.
A call that tells listeners leaves a frame; while it is on top a listener may make a call, or return.
`Connect` has the code's three outcomes (new, replacing after a nested disconnect, rejected),
`CheckTimeouts` walks the live map user by user, `TimerFires` is its interval. `log` is, per
connection, what the audit trail was told, in the order it was told; the code logs after its listeners.
A connection's `idle` time is counted instead of a clock.

### Boundary

`BoundaryEnforcedSystem` over the daemon (`MockBoundaryDaemonAdapter`, the adapter in the repository).
`mode` and `inLockdown` are the daemon's, `cached` and `suspended` the system's, `active` is what the
host's provider returns. A mode change is one pass over contracts, kept as a frame: a downgrade has the
list it started with, an upgrade visits the live map. After each contract the listeners may call
anything, further mode changes included. Reads of the mode start and return separately. Contracts
activated since the last pass (`unevaluated`) and those suspended by hand or become able to run
without an upgrade (`held`) are history the properties need.

### Vault

`ContractEnforcedVault` over a vault that answers later, in any order, or rejects. `StoreMemory` and
`RecallMemory` are what happens before the first `await`, `StoreLands` is a store's end. A recall
waits twice: `RecallDecided` asks the contract as it is after the first wait and calls the adapter's
`recallMemory`, which reads at once; `RecallReturns` hands its answer out after the second wait and
asks nothing. So an answer may be late, and what can be said of it is what linearizability says: at
some moment since the recall was called it was right. `rightful` is the history that says so. A sweep
is `TombstoneContractMemories` followed by one `TombstoneNext` for each memory. `Alphabetical` is the order in which the code compares boundary modes: they are strings.
`missed` is history: the stores on their way when a contract was last swept.

### Forgetting

`MemoryForgetting` on an arbitrary list of references. `findDerivedMemories` is a stack of frames, one
for each recursive call, that walk the whole list; `Skip`, `Found` and `FindRecursiveReturns` are the
turns of its loop. Freeze, tombstone and purge (with token, owner and confirmation) report what they
affected.

## 3. The runs

Every run finishes without an error. Deadlock is checked everywhere. Numbers are distinct states.

| Run | Instance and bounds | States | Checks |
|---|---|---|---|
| `lifecycle` | 3 contracts, 1 user, 2 drafts, change sets {} and {generalization_rules}, clock 0..2, trail cap 5 for throwing amendments | 75,960 | TrailTracksStore, EveryActivationReviewed, NothingAfterTheEnd, AmendmentsAreAccountedFor, NoUnloggedTransition, DiagramSpec |
| `access` | 2 contracts, 2 users and one with a refused id, valid and invalid draft, one contract per window of two ticks, clock 0..2 | 429,799 | OwnedByOne, RateRespected, AccessComesFromOwner, CleanupChangesNoAccess |
| `timebound_expiry` | 2 contracts, one due after a tick and one never, 2 interval handles, calls nested two deep | 152,794 | CountsAreRight, ExpiredWhenDue, DueContractsExpire |
| `sessions` | 2 contracts (a session's and a permanent one), 2 sessions, 2 users, time-out 0, ages 0 and 1 | 587,524 | MapsAgree, EndingExpiresItsOwn, ClosedSessionsStayClosed |
| `emergency_override` | 2 timer handles, duration 8 of at most 10, 3 blocked operations | 109 | NotDisabledEarly, OverrideEnds |
| `file_store` | 1 contract, 2 saves at once, 3 inodes, 2 versions; write, chmod and read may fail | 867,655 | AckedSavesSurvive, StorageIsSound, CallsReturn |
| `governed_store` | 2 contracts, 2 memories, 2 calls in flight, a request at the cap and one beyond | 127,906 | StoreIsGoverned, NoCrossContractRecall, DiscoveryRespectsProhibition |
| `conversation` | 1 conversation at a time, texts of every type, retention, generalization, with and without domain, days, cap and approval; 7 templates; factory drafts and 1,280 drafts by hand; 96 requests; clock 0..1 | 106,055 | ConfirmedAsShown, ReviewNamesDomains, ConfirmedIsAccepted, TypesBindHooks |
| `connections` | 2 users, 3 connections, time-out 1, calls nested three deep | 296,848 | ConnectionsAgree, OneInstancePerUser, AuditAccountsForConnections, IdleConnectionsEnd |
| `boundary` | 2 contracts (one needs trusted, one privileged), 4 modes asked for, loops nested two deep, 1 read under way | 1,119,846 | LockdownHolds, NobodyRunsBelow, UpgradeResumes |
| `vault` | 1 contract that may be revoked or expire, 2 memories, 3 operations under way, requests within the terms, above the cap and of another domain, clock 0..1 | 1,066,408 | WriteGate, SweptIsForgotten, RecallsHonourContract |
| `forgetting` | every way in which 4 memories derive from one another (16,384 lists), one of them the contract's; tokens good, too old and somebody else's | 760,960 | ForgetsExactlyWhatDerives, CallsEnd |

A property whose run also needs the types starts with them (`CountsAreRight`, `MapsAgree`,
`StorageIsSound`, `StoreIsGoverned`, `ConnectionsAgree`, `LockdownHolds`, `WriteGate`). The types of
`Lifecycle` and `Access` are proved (section 4) rather than run, those of `Conversation` are proved as
part of its invariant.

Why the bounds are enough. Three contracts are the least with which a contract, its amendment and
the amendment of the amendment exist at once; a trail is unbounded but for repeated throwing
amendments (`MaxTrail`), which add equal entries. Two contracts suffice where a property speaks of
one contract and of what happens to it because of another. Two ticks put each date before, at and
after the clock. Two sessions are the least that share a contract, two users the least that
transfer it forth and back. Nesting two deep covers a cycle, or a mode change, inside a listener of
another; deeper frames only meet the same operations. Connections nest three deep and are three,
because a replacement already is a disconnect inside a connect, and a third connection is what a
listener can add to an old and a new one. Two saves are an old and a new version of a file, and the least that overlap; an
initialize, a close or a delete is the one that mends. All contracts go to the file together, so one
shows what happens to each. Three inodes are the storage file, the temporary file and one a writer
still has open. A failed open or rename only takes a save to its error path earlier or later than a
failed write does; the proofs cover all five. Three operations
of the vault let a store land behind a sweep that a recall reads across. With one contract nothing is
amended there: of the vault an amendment only matters as one more way to end a contract, and the
proofs have any number of contracts. Four memories have every shape of derivation that matters to a search by levels: chains
of three, diamonds, circles with and without a way in, unreachable ones. Symmetry sets are used
where no property is temporal in a way that symmetry would make unsound: `timebound_expiry`,
`file_store`, `emergency_override`, `connections` and `forgetting` check liveness and use none.

Bounds in guards: `MaxTime` (Tick), `MaxTrail` (AmendContractThrows), `MaxDepth` and the number of
`Intervals` (TimeboundExpiry), `MaxDepth` (Connections, Boundary), `MaxReads` (Boundary), `MaxVersion`
and the number of `Writers` (FileStore), `MaxBlocked` (EmergencyOverride), and the finite pools of ids,
calls and timers.

### Fairness

- `ExpirySpec`: weak fairness of the manager's own steps, of a listener's return and of the interval
  firing. JavaScript runs a started function to its end, and `setInterval` keeps firing when the
  stack is empty. No operation of a caller is assumed, nor that time passes. `DueContractsExpire` says
  that a due contract does not stay active while the manager runs.
- `EmergencyOverride!Spec`: time passes and due timers fire.
- `FileStore!Spec`: a file operation that was started completes or fails, and an awaited call goes on
  once it can. `CallsReturn` then says that initialize, flush and close return even when writes
  fail and overlap.
- `Connections!FairSpec`: calls and listeners run to their ends (weak fairness); time passes, and the
  interval fires, again and again (strong fairness: both wait for an empty stack, and other calls may
  come in between, but no caller holds the event loop for ever). `IdleConnectionsEnd` needs both.
- `Forgetting!FairSpec`: a search that was started goes on. `CallsEnd` then says that it ends, on
  circles too.
- The other specifications state safety only and assume no fairness.

### Mutants

For each checked property `PROJECT.json` names a definition and an altered form of it, defined right
before it in the module under the comment "Mutant of ...": a dropped guard, a missing log entry, a
comparison off by one instant. With the altered form in place TLC finds the property violated in the
same run, so no property holds whatever the code does.

## 4. What is proved

TLAPS checks these for all values of the constants: any sets of contracts, users, scopes, drafts,
change sets, texts and references, any bounds.

| Theorem | Says |
|---|---|
| `TypeCorrect` | `Spec => []TypeOK` (Lifecycle) |
| `AuditTracksStore`, `ActivationsAreReviewed`, `EndedContractsStayEnded`, `AmendmentsAccounted` | the lifecycle's four invariants `TrailTracksStore`, `EveryActivationReviewed`, `NothingAfterTheEnd`, `AmendmentsAreAccountedFor` |
| `ImplementsDiagram` | `Spec => DiagramSpec`: the system implements the abstract lifecycle |
| `TransitionsAreLogged` | `Spec => NoUnloggedTransition` |
| `KeepsLifecycle` | `AccessSpec => Spec`: limiter and permissions change nothing of the lifecycle |
| `AccessKeepsTrail` (corollary) | hence the trail invariants hold of the system with them |
| `AccessTypeCorrect`, `OneOwner`, `WithinRate` | `AccessSpec => []P` for `AccessTypeOK`, `OwnedByOne`, `RateRespected` |
| `AccessFromOwner`, `CleanupIsInvisible` | `AccessSpec => P` for the action properties `AccessComesFromOwner`, `CleanupChangesNoAccess` |
| `StoreKeepsLifecycle` | `GovernedSpec => Spec` |
| `StoreGoverned`, `RecallsOwnOnly`, `DiscoveryRespects` | `StoreIsGoverned`, `NoCrossContractRecall`, `DiscoveryRespectsProhibition` of the governed store |
| `SessionMapsAgree`, `EndingsExpireTheirOwn`, `ClosedStayClosed` | `MapsAgree`, `EndingExpiresItsOwn`, `ClosedSessionsStayClosed` of the sessions |
| `SessionsImplementDiagram`, `SessionsKeepTrail` | with sessions, which expire contracts themselves, still `DiagramSpec` and the trail invariants |
| `ExpiryTypeCorrect`, `OnlyDueExpired`, `NothingCountedTwice` | `ExpiryTypeOK`, `ExpiredWhenDue`, `CountsAreRight` of the expiry manager |
| `ExpiryImplementsDiagram`, `ExpiryKeepsTrail` | with the expiry manager still `DiagramSpec` and the trail invariants |
| `NoEarlyDisable` | `maxDurationMs <= MaxDelay => (Spec => []NotDisabledEarly)` for the emergency override |
| `ForgettingIsExact` | `ForgettingSpec => []ForgetsExactlyWhatDerives` |
| `ConfirmedIsShown`, `ReviewsNameDomains`, `ConfirmedIsTaken`, `HooksKeepTypes` | `ConfirmedAsShown`, `ReviewNamesDomains`, `ConfirmedIsAccepted`, `TypesBindHooks` of the conversation |
| `VaultKeepsLifecycle` | `VaultSpec => Spec` |
| `NothingPastTheGate`, `RecallsHonour`, `SweepsForget` | `WriteGate`, `RecallsHonourContract`, `SweptIsForgotten` of the vault |
| `MapsAndCountersAgree`, `OneInstance`, `AuditAccounts` | `ConnectionsAgree`, `OneInstancePerUser`, `AuditAccountsForConnections` |
| `StorageSound`, `AckedSurvive` | `StorageIsSound` and `AckedSavesSurvive` of the file store, with any number of saves at once and any failing operations |
| `LockdownHeld`, `NobodyBelow`, `UpgradesResume` | `LockdownHolds`, `NobodyRunsBelow`, `UpgradeResumes` of the boundary |

So every invariant and every action property of the runs is a theorem.

Assumptions: `NoTimeAssumption`, `NoContractAssumption`, `DraftsAssumption`, `AccessAssumption`,
`SessionAssumption`, `IntervalAssumption`, `GovernedAssumption`, `VaultAssumption`,
`ConnectionsAssumption`, `OverrideAssumption`, `UnsetAssumption`, `DefaultRetentionAssumption`,
`ConversationAssumption`, `TextsAssumption`, `ForgettingAssumption`, `FileStoreAssumption` and
`BoundaryAssumption`. They say that the values for "absent" are none of the real ones, that the inputs
have their types, that what users write is what the parser can make of a text, that the bounds on
nesting are numbers, and that there is some contract id. TLC evaluates them in the runs.

One theorem has a hypothesis besides, because without it the property fails (section 5): for
`NoEarlyDisable` the duration is within the timer's range. The instance of the run meets it.

The arguments.

- Lifecycle. None of the trail properties is inductive alone: that an activation follows a review
  needs that the last entry tells the state, which an amendment that threw breaks. `ContractInv(s, t)`
  conjoins them for one contract with state `s` and trail `t`; `TrailInv` is that for all contracts.
  `AppendKeeps` shows the one fact on sequences that matters: an appended legal transition keeps
  `ContractInv`. Each operation has a lemma (`CreateStep`, `SubmitStep`, ...) which says three things:
  types are kept, each contract either stays or moves by one such entry (`PointStep`), and the step is
  one of the diagram. `StepLemma` puts them together, and the theorems on trail and diagram follow from
  it. `StoreStep` says the same of a contract's terms: only its state ever changes, and what enters the
  store is valid, new, and an amendment only of a contract whose trail says so. With `CreatedInPast`
  (nothing stored is younger than the clock) that makes `AmendmentsAreAccountedFor` inductive.
- Access. `GoodEntries(P)` is the condition on one contract's entries, with one lemma for each of the
  four ways entries change (grant, removal by revocation or cleanup, transfer, first owner); that
  entries exist only for contracts that do is the second half of `OwnersInv`. Whose access grows then
  comes down to which entries a step adds, and by whom; an entry that expires only takes access away.
  For `RateRespected` what must be inductive (`RateInv`) includes that the contracts counted against a
  bucket are finitely many, and that a refill at this instant starts from none (`CreatedInPast`).
- Governed store. `StoreInv`: each memory in the store or on its way is within its contract's terms
  (`Within`). The hook establishes it at the call, and nothing takes it back, since terms do not change
  and trails only grow. It needs that an active contract was activated (`ActiveInv`) and that what is
  stored is valid (`StoredValid`): that an observation contract stores nothing is a rule of the
  validator, which the hook does not repeat.
- Vault. `GateInv` is the same for the write gate. For recalls: the step that asks the contract asks the
  adapter too, so if both agree it was right to answer at that step, and the history records it
  (`RecallInv`); a waiting answer keeps its record, whatever happens to the contract. For sweeps: what an ended contract still has to
  forget (`Pending`) never grows, so it stays within what a sweep started from (`SweepsCover`), its queue
  and the late stores; when the sweep returns its queue is empty.
- Sessions. Only an ended session has an end (`EndsInv`), which clean-up relies on; what a session lists
  is stored with session retention (`ListedInv`); then the two maps agree and endings are exact.
- Expiry manager. What a cycle queued stays due (`QueuesDue`): the clock does not go back and terms do
  not change, so the question asked again after the listeners need only be about the state. That
  nothing is counted twice is stated as a sharing of the expired contracts among the totals, the cycles
  under way and nobody. `CountInv` keeps such a sharing: a contract goes to the cycle that expires it, a
  cycle's share to the totals when it is over, and since expired contracts stay expired (the diagram)
  nobody can count one again.
- Connections. Told to the audit log, or still to be told by a call on the stack (`On`), a connection is
  made and ended at most once each, and is in the connection map exactly in between (`AuditInv`).
  `AgreeInv` and `SoleInv` hold at every listener's turn; `SoundStack` says which stacks there are.
- File store. While saves overlap nothing is known of the disk but that the two names lead to
  different inodes (`NamesApart`), and of the adapter that it has everything acknowledged (`Kept`).
  That is enough to start from: a save that starts while no other is under way stays alone, or the
  overlap is noted (`Alone`). As long as it is, what it has written is in the temporary file alone
  (`Ready`) and is what the adapter's map holds (`Turn`), so its rename makes the file whole and right,
  whatever was there. Every step starts a save, moves it, settles it, leaves the writers alone or is a
  crash; one lemma for each (`Starts`, `Moves`, `Settles`, `Crashes`) says what it can change.
- Boundary. At rest the two properties speak of nobody waiting; in the middle of loops a contract below
  its mode waits in the queue of a loop that suspends (`Evaluated`), and one that could be resumed in the
  queue of one that resumes (`Resumed`). The one fact on stacks (`Keeps`) is that a call, an entry into
  the live map, a round or a return takes at most one contract off the queues, and that one has been
  dealt with. `UpgradesExposeNobody` is the fact on modes.
- Override. `TimersInStep` says what makes a stray timer impossible: whatever is pending is the timer
  the manager holds, its override is active, and its time left and the override's age add up to the
  duration. The hypothesis is needed: above `MaxDelay` the property fails (section 5).
- Forgetting. What a contract takes with it is defined as the least set that has its memories and is
  closed under derivation; the code searches recursively and loops over the list in each activation.
  The invariant has two halves: `FollowsForgotten`, nothing was found that is not in every closed set,
  and `NothingOverlooked`, whatever derives from what was found is found already or still ahead of
  the loop of one activation on the stack. When the stack is empty nothing is ahead, so what was found
  is closed; with the first half it is the least closed set.
- Conversation. What was confirmed equals what was shown only because of which intent each was built
  from, so the invariant `ConversationsSound` says that: at the review `shown` is the draft of the
  current intent, built at some time not after now; at the end `shown` and `contractDraft` are drafts
  of the same intent, the second built no earlier. `BuildDraft` then gives equality but for an end that
  may have moved on. `ConfirmedIsTaken` adds the range of the classification cap and
  `DefaultsAreTyped`. For `HooksKeepTypes` the invariant is `ContractAccepted`: the contract at hand is
  one the validator accepted, and moving its state leaves its terms alone (`AcceptedStep`), with a
  lemma for each source of drafts.

Only model-checked: liveness (`DueContractsExpire`, `OverrideEnds`, `CallsReturn`, `IdleConnectionsEnd`,
`CallsEnd`), which needs ENABLED and fairness and is out of the prover's reach.

## 5. Where code and documents disagree

Each of these is a property of a module that TLC refutes. None is listed as a run: to see one, take the
configuration named, with the change given, and make it the only property (and drop SYMMETRY).

| Property | Configuration | Says who | What happens |
|---|---|---|---|
| `AuditMatchesStore` | MCLifecycle | specs.md:62-70 | a refused amendment leaves "amended" in the log of an active contract |
| `LoggedPreviousStateIsTrue` | MCLifecycle | `types/audit.ts:45` | submitForReview always logs draft -> review |
| `ProhibitedOnlyExpires` | MCLifecycle, Drafts <- MCProhibitedDrafts | specs.md:98 | an unrevocable prohibited contract can be amended away |
| `CreatorBecomesOwner` | MCAccess | specs.md:780 | setOwner may throw after the save; amended drafts get no owner |
| `StopStops` | MCTimeboundExpiry | `expiry/manager.ts`, stop | a listener of start's first cycle calls start or stop: an interval is left that nobody can clear |
| `TimeoutExpiresContracts` | MCSessions | specs.md:413-414, contracts expire when a session ends, and sessions end by time-out | expireTimedOutSessions changes the status first, and endSession then refuses: the contracts stay active |
| `ListedContractIsInSession`, `CleanupForgetsClosedSessions` | MCSessions | `session/manager.ts` | shared contracts lose their mapping; a timed-out session has no ended_at and is never forgotten |
| `OverrideEnds` | MCEmergencyOverride, maxDurationMs = 3, requireConfirmationToDisable = TRUE | `emergency-override/types.ts:95`, "before auto-disable" | the timer's callback is refused for want of a token and the override stays on |
| `NotDisabledEarly` | MCEmergencyOverride, maxDurationMs = 11 | the same | a delay above the timer's range fires after 1 ms |
| `FileIsComplete` | MCFileStore | `file-adapter.ts:5` and `:367`, specs.md:616, :714, "atomic writes" | saves share one temporary file; one renames what another has just truncated |
| `AckedSavesAlwaysSurvive` | MCFileStore | the same | overlapping saves rename in the wrong order |
| `FlushKnowsAllWrites` | MCFileStore | specs.md:616, :714 | flush drops writes pushed while it waited |
| `CreatesOnlyIfMissing` | MCFileStore | `file-adapter.ts` | a failed read counts as a missing file, which is overwritten |
| `ProhibitedOverridesAll` | MCGovernedStore | README.md:114, `repository.ts:255`, prohibited contracts override all others | only findApplicableContract looks for them: a store under a named contract succeeds in their domain |
| `RecallRequiresActive` | MCGovernedStore | `engine.ts:210` | recall lets contracts in other states through |
| `UnspecifiedDimensionDenies` | MCGovernedStore | README.md:193, specs.md:114 | an empty dimension allows everything |
| `RevocationForgets` | MCGovernedStore | `memory-store.ts:308-309` | nothing calls forgetByContract when a contract is revoked |
| `ConfirmedIsReady` | MCConversation | `builder.ts`, "ready for activation!" | the number of days asked for is never stored, so a limited time has no end; nor has the gaming or the work template: the validator refuses the draft |
| `CompleteIsCurrent` | MCConversation | `plain-language/types.ts` | a template used after the end restarts the conversation under isComplete and the old draft |
| `ProceduralAtMostHeuristic` | MCConversation | specs.md:88 | neither validator nor hook bounds a procedural contract's level |
| `EmptyScopeDeniesAll` | MCConversation | `validator.ts:164` | a request that names no dimension passes an empty scope |
| `OneInstanceAlways` | MCConnections | `user-management/manager.ts`, specs.md | a disconnect listener that reconnects during a replacement leaves two connections |
| `RejectionNamesHolder` | MCConnections | `user-management/types.ts`, ConnectionResult | a rejection listener that disconnects the user makes connect throw |
| `LeavingLockdownResumes` | MCBoundary | specs.md, section 11 | leaving lockdown counts as a downgrade: nothing is resumed |
| `ReadsKeepTheCacheRight` | MCBoundary | `enforced-system.ts`, getCachedMode | a read answered before a change puts the old mode back |
| `LockdownHasItsFlag` | MCBoundary | `adapter.ts:349` | a ceremony into lockdown, or an adapter that starts in it, sets no flag, and a plain request leaves it |
| `LockdownBlocksTools` | MCBoundary | `types.ts`, lockdown | a tool without network use runs |
| `AnswersAreCurrent` | MCVault | `enforced-vault.ts:302-305`, recallMemory validates that the contract is active | the adapter is awaited once more after that: what ends, is swept or locked meanwhile is handed out |
| `RecallsRespectModeOrder` | MCVault | README.md, the modes' order | modes are compared as strings |
| `WritesNeedEnforceableContract` | MCVault | specs.md, section 10 | a contract past its expiration takes memories until somebody marks it |
| `SweptLeavesNothing` | MCVault | `enforced-vault.ts`, tombstoneContractMemories | a store on its way lands behind the sweep |
| `LockStopsStores` | MCVault | `adapter.ts`, lockdown | the lock is asked before the hash is awaited |

Seen while reading, outside what the properties can tell apart:

- A text that suggests a template asks "yes" or "no"; the answer is parsed as a text of its own, is too
  short, and never uses the template. After "no" at the review, the answer to the question what to
  change becomes the list of domains. `useTemplate` drops a template's boundaryModeMin, the work
  template's trusted among them.
- deepPurge compares the confirming owner with created_by, also after a transfer, and a token may be
  used again within its validity. invalidateHeuristics looks at direct sources only.
- `ContractEnforcedVault.queryMemories` filters by the query alone, not by the contract's terms.
- `requires_owner` compares with created_by, so after a transfer the old owner recalls and the new one
  does not; no lifecycle operation asks the permission manager.

## 6. What is not modelled

- The wording of the plain-language interface, how the parser finds an intent in a text (only which
  intents it can produce), the summarizer, and the error classes: functions of text and records.
- `MemoryStorageAdapter`: a map without asynchrony. The middleware: one hook, then one call.
- Audit entries other than lifecycle transitions and connections, the query side of the log and its
  bound; statistics.
- Memory freezing on expiry and session end: `LearningContractsSystem` configures no memory provider.
- `clear` and `reset` everywhere (their comments say they are for tests), `createIfMissing = false`,
  encryption and checksum beyond "this file can be read or not", and a loss of power (the model's crash
  is that of the process).
- The limit of a recall query: the backing store applies it before the governed store filters by
  contract, so a limited recall may return fewer memories than there are.
- Listeners make one call each; nesting is bounded by `MaxDepth`.
- The vault's backups, recall requests, integrity check and queryMemories; how purge tokens are signed;
  invalidateHeuristics and isMemoryAccessible, which answer questions and change nothing.
- Conversations do not go on while the host moves a contract through its states: neither reads the
  other, and the interleavings would only multiply states.
- The token bucket allows up to twice the allowance around the edge of a window. `RateRespected`
  states what it does keep: the allowance since the bucket was last full.

## 7. Plan

Done, in this order: Contracts and Lifecycle with their diagram; the expiry manager, sessions, the
override; persistence; hooks and governed store; access; connections; the boundary and the vault
package; forgetting; factory, conversation; and the proofs of all safety properties of their runs.

Next:

1. What components promise each other: `AmendmentsAreAccountedFor` under sessions and the expiry
   manager, whose steps are not all lifecycle steps.
2. The measures that liveness rests on, as action properties: what each round of a search, a cycle or a
   loop lowers, and that nothing else raises it.
3. The memory operations of the facade with the audit of enforcement decisions.
