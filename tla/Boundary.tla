------------------------------- MODULE Boundary -------------------------------
(***************************************************************************)
(* The boundary adapter package: a daemon with its modes, its lockdown and *)
(* its ceremony (MockBoundaryDaemonAdapter), and BoundaryEnforcedSystem,   *)
(* which caches the daemon's mode and suspends and resumes contracts.      *)
(*                                                                         *)
(* A mode change runs a loop over contracts, and each suspension or        *)
(* resumption calls listeners that may call either object again: frames is *)
(* the stack of loops under way.  A read of the daemon's mode is answered  *)
(* with what the mode was at the call, and applied once no call is under   *)
(* way.                                                                    *)
(*                                                                         *)
(* The contracts come from the host: which are active, and what mode each  *)
(* asks for.  Reasons and audit entries are left out, and so are tripwire  *)
(* and mode listeners of others, and reset and setMode, which are for      *)
(* tests.                                                                  *)
(***************************************************************************)
EXTENDS Integers, Sequences, SequencesExt, FiniteSets

CONSTANTS
    ContractIds,       \* contracts the host's contractResolver knows
    MinMode,           \* recall_rules.boundary_mode_min of each
    Targets,           \* the modes that callers ask the daemon for
    MaxDepth,          \* bound on loops nested through listeners
    MaxReads           \* bound on reads of the mode under way

DaemonMode == {"open", "restricted", "trusted", "airgap", "coldroom", "lockdown"}

ASSUME BoundaryAssumption ==
    /\ MinMode \in [ContractIds -> {"restricted", "normal", "trusted", "privileged"}]
    /\ Targets \subseteq DaemonMode
    /\ MaxDepth \in Nat

VARIABLES
    mode,              \* the daemon's currentMode
    inLockdown,        \* the daemon's flag
    active,            \* what activeContractsProvider returns
    autoResume,        \* autoResumeOnUpgrade
    subscribed,        \* until destroy
    cached,            \* the enforced system's currentMode
    suspended,         \* suspendedContracts
    frames,
    reads,             \* reads under way: who reads, and the mode he will get
    unevaluated,       \* history: active contracts no loop has looked at in the cached mode
    held               \* history: suspensions the last resuming loop has not looked at

daemonVars == <<mode, inLockdown>>
history == <<unevaluated, held>>
boundaryVars ==
    <<daemonVars, active, autoResume, subscribed, cached, suspended, frames, reads, history>>

\* A loop with the contracts still to visit, or one suspension or resumption by hand
\* ("single"); listening while the listeners of the last visit run, each of which
\* makes at most one call.
Frame ==
    [loop : {"downgrade", "initial", "upgrade", "single"}, queue : SUBSET ContractIds,
     listening : BOOLEAN, called : BOOLEAN]

Read == [by : {"initialize", "getCurrentMode"}, mode : DaemonMode]

BoundaryInit ==
    /\ mode \in Targets /\ inLockdown = FALSE
    /\ active = {} /\ suspended = {}
    /\ autoResume \in BOOLEAN /\ subscribed = TRUE
    /\ cached = "open"
    /\ frames = <<>> /\ reads = {}
    /\ unevaluated = {} /\ held = {}
-----------------------------------------------------------------------------
(***************************************************************************)
(* Modes.                                                                  *)
(***************************************************************************)
Restrictiveness ==
    [open |-> 0, restricted |-> 1, trusted |-> 2, airgap |-> 3, coldroom |-> 4, lockdown |-> 5]

RequiredMode ==
    [restricted |-> "restricted", normal |-> "open", trusted |-> "trusted",
     privileged |-> "airgap"]

ClassificationCap ==
    [open |-> 1, restricted |-> 2, trusted |-> 3, airgap |-> 4, coldroom |-> 5, lockdown |-> -1]

IsDowngrade(from, to) == Restrictiveness[to] < Restrictiveness[from]

CanOperateIn(m, c) ==
    /\ m # "lockdown"
    /\ Restrictiveness[m] >= Restrictiveness[RequiredMode[MinMode[c]]]

\* canContractOperate goes by the cached mode.
CanOperate(c) == CanOperateIn(cached, c)

\* checkRecall and checkTool.
RecallAllowed(class) == ~inLockdown /\ class <= ClassificationCap[mode]
ToolAllowed(network) == network => mode \in {"open", "restricted", "trusted"}

Exposed(m) == {c \in active \ suspended : ~CanOperateIn(m, c)}
Resumable(m) == {c \in suspended : CanOperateIn(m, c)}
-----------------------------------------------------------------------------
(***************************************************************************)
(* Calls.                                                                  *)
(***************************************************************************)
Idle == frames = <<>>
Top == Last(frames)

MayCall == Idle \/ (~Idle /\ Top.listening /\ ~Top.called)

CallMade == IF Idle THEN frames ELSE [frames EXCEPT ![Len(frames)].called = TRUE]

Calling(loop, queue, listening) ==
    /\ Len(frames) < MaxDepth
    /\ frames' = Append(CallMade, [loop |-> loop, queue |-> queue, listening |-> listening,
                                   called |-> FALSE])

\* The stack once c has entered or left the map: loops of handleUpgrade iterate over
\* the live map.
Entered(stack, c) ==
    [i \in DOMAIN stack |-> IF stack[i].loop = "upgrade" /\ c \notin suspended
                            THEN [stack[i] EXCEPT !.queue = @ \cup {c}] ELSE stack[i]]
Left(stack, c) ==
    [i \in DOMAIN stack |-> IF stack[i].loop = "upgrade"
                            THEN [stack[i] EXCEPT !.queue = @ \ {c}] ELSE stack[i]]

Single == [loop |-> "single", queue |-> {}, listening |-> TRUE, called |-> FALSE]

\* suspendContract asks for nothing but that the contract exists.
SuspendContract(c) ==
    /\ MayCall /\ Len(frames) < MaxDepth
    /\ suspended' = suspended \cup {c}
    /\ frames' = Append(Entered(CallMade, c), Single)
    /\ held' = held \cup {c}
    /\ UNCHANGED <<daemonVars, active, autoResume, subscribed, cached, reads, unevaluated>>

ResumeContract(c) ==
    /\ MayCall /\ Len(frames) < MaxDepth
    /\ c \in suspended /\ CanOperate(c)
    /\ suspended' = suspended \ {c}
    /\ frames' = Append(Left(CallMade, c), Single)
    /\ UNCHANGED <<daemonVars, active, autoResume, subscribed, cached, reads, history>>
-----------------------------------------------------------------------------
(***************************************************************************)
(* handleModeChange, and its loops.                                        *)
(***************************************************************************)
Downgrade(to) ==
    /\ Calling("downgrade", active, FALSE)
    /\ unevaluated' = {} /\ held' = held \cup Resumable(to)

\* An upgrade exposes nobody, unless the cache did not hold the mode it starts from.
Upgrade(from, to) ==
    /\ IF autoResume THEN Calling("upgrade", suspended, FALSE) /\ held' = {}
                     ELSE frames' = CallMade /\ UNCHANGED held
    /\ unevaluated' = IF cached = from THEN unevaluated ELSE unevaluated \cup Exposed(to)

\* Mutant of HandleModeChange: lockdown is one more restrictive mode.
OrdersOnly(from, to) ==
    /\ cached' = to
    /\ IF IsDowngrade(from, to) THEN Downgrade(to) ELSE Upgrade(from, to)

\* Leaving lockdown goes to a less restrictive mode, so it is a downgrade.
HandleModeChange(from, to) ==
    /\ cached' = to
    /\ IF to = "lockdown" \/ IsDowngrade(from, to) THEN Downgrade(to) ELSE Upgrade(from, to)

NotifyModeChange(from, to) ==
    IF subscribed THEN HandleModeChange(from, to)
                  ELSE frames' = CallMade /\ UNCHANGED <<cached, history>>

\* The rest of an operation of the daemon that has set its mode.
ModeSet ==
    /\ IF mode' # mode THEN NotifyModeChange(mode, mode')
                       ELSE frames' = CallMade /\ UNCHANGED <<cached, history>>
    /\ UNCHANGED <<active, autoResume, subscribed, suspended, reads>>

LoopIs(loops, c) == ~Idle /\ Top.loop \in loops /\ ~Top.listening /\ c \in Top.queue

\* A loop is through with c, and waits for the listeners if they are called.
Round(frame, c, listening) ==
    [frame EXCEPT !.queue = @ \ {c}, !.listening = listening, !.called = FALSE]

Visited(c, listening) ==
    [frames EXCEPT ![Len(frames)] = Round(frames[Len(frames)], c, listening)]

\* One round of handleDowngrade, or of evaluateAllContracts, which suspends what is
\* suspended already a second time.
VisitActive(c) ==
    /\ LoopIs({"downgrade", "initial"}, c)
    /\ IF ~CanOperate(c) /\ (c \notin suspended \/ Top.loop = "initial")
       THEN suspended' = suspended \cup {c} /\ frames' = Entered(Visited(c, TRUE), c)
       ELSE suspended' = suspended /\ frames' = Visited(c, FALSE)
    /\ UNCHANGED <<daemonVars, active, autoResume, subscribed, cached, reads, history>>

\* Mutant of VisitSuspended: only contracts that are active are resumed.
VisitActiveOnly(c) ==
    /\ LoopIs({"upgrade"}, c)
    /\ IF CanOperate(c) /\ c \in active
       THEN suspended' = suspended \ {c} /\ frames' = Left(Visited(c, TRUE), c)
       ELSE suspended' = suspended /\ frames' = Visited(c, FALSE)
    /\ UNCHANGED <<daemonVars, active, autoResume, subscribed, cached, reads, history>>

\* One round of handleUpgrade, which does not ask whether the contract is still active.
VisitSuspended(c) ==
    /\ LoopIs({"upgrade"}, c)
    /\ IF CanOperate(c)
       THEN suspended' = suspended \ {c} /\ frames' = Left(Visited(c, TRUE), c)
       ELSE suspended' = suspended /\ frames' = Visited(c, FALSE)
    /\ UNCHANGED <<daemonVars, active, autoResume, subscribed, cached, reads, history>>

ListenersReturn ==
    /\ ~Idle /\ Top.listening
    /\ frames' = [frames EXCEPT ![Len(frames)].listening = FALSE]
    /\ UNCHANGED <<daemonVars, active, autoResume, subscribed, cached, suspended, reads, history>>

LoopReturns ==
    /\ ~Idle /\ ~Top.listening /\ Top.queue = {}
    /\ frames' = Front(frames)
    /\ UNCHANGED <<daemonVars, active, autoResume, subscribed, cached, suspended, reads, history>>
-----------------------------------------------------------------------------
(***************************************************************************)
(* The daemon.                                                             *)
(***************************************************************************)
\* Mutant of RequestModeTransition: the lockdown flag is not asked.
TransitionFromLockdown(target, token) ==
    /\ MayCall
    /\ Restrictiveness[mode] - Restrictiveness[target] > 1 => token
    /\ mode' = target
    /\ inLockdown' = (inLockdown \/ (target = "lockdown" /\ mode # target))
    /\ ModeSet

\* Towards a more restrictive mode at once; more than one step back takes an override
\* token.
RequestModeTransition(target, token) ==
    /\ MayCall
    /\ inLockdown => target = "lockdown"
    /\ Restrictiveness[mode] - Restrictiveness[target] > 1 => token
    /\ mode' = target
    /\ inLockdown' = (inLockdown \/ (target = "lockdown" /\ mode # target))
    /\ ModeSet

\* With physical presence and a confirmation code; refused without a trace otherwise.
\* A ceremony may also go to lockdown, and then leaves the flag alone.
PerformOverrideCeremony(target) ==
    /\ MayCall
    /\ mode' = target
    /\ inLockdown' = (inLockdown /\ target = "lockdown")
    /\ ModeSet

TriggerLockdown ==
    /\ MayCall
    /\ mode' = "lockdown" /\ inLockdown' = TRUE
    /\ ModeSet

\* simulateTripwire notifies in any case; a manual one leaves the daemon's mode alone.
Tripwire(manual) ==
    /\ MayCall
    /\ IF manual THEN UNCHANGED daemonVars ELSE mode' = "lockdown" /\ inLockdown' = TRUE
    /\ NotifyModeChange(mode, "lockdown")
    /\ UNCHANGED <<active, autoResume, subscribed, suspended, reads>>
-----------------------------------------------------------------------------
(***************************************************************************)
(* Reads, the end of the subscription, and the host's contracts.           *)
(***************************************************************************)
StartRead(by) ==
    /\ MayCall /\ Cardinality(reads) < MaxReads
    /\ reads' = reads \cup {[by |-> by, mode |-> mode]}
    /\ frames' = CallMade
    /\ UNCHANGED <<daemonVars, active, autoResume, subscribed, cached, suspended, history>>

\* initialize and getCurrentMode after their await: what was read goes into the cache,
\* whatever the daemon has announced meanwhile; initialize then evaluates contracts.
ReadReturns(read) ==
    /\ Idle /\ read \in reads
    /\ reads' = reads \ {read}
    /\ cached' = read.mode
    /\ held' = held \cup Resumable(read.mode)
    /\ IF read.by = "initialize" THEN Calling("initial", active, FALSE) /\ unevaluated' = {}
       ELSE frames' = frames /\ unevaluated' = unevaluated \cup Exposed(read.mode)
    /\ UNCHANGED <<daemonVars, active, autoResume, subscribed, suspended>>

Destroy ==
    /\ MayCall /\ frames' = CallMade
    /\ subscribed' = FALSE
    /\ UNCHANGED <<daemonVars, active, autoResume, cached, suspended, reads, history>>

\* The lifecycle of the host's contracts; nobody tells the enforced system.
ContractActivated(c) ==
    /\ MayCall /\ frames' = CallMade
    /\ c \notin active /\ active' = active \cup {c}
    /\ unevaluated' = unevaluated \cup {c}
    /\ UNCHANGED <<daemonVars, autoResume, subscribed, cached, suspended, reads, held>>

ContractEnds(c) ==
    /\ MayCall /\ frames' = CallMade
    /\ c \in active /\ active' = active \ {c}
    /\ UNCHANGED <<daemonVars, autoResume, subscribed, cached, suspended, reads, history>>

DaemonStep ==
    \/ \E target \in Targets :
          \/ PerformOverrideCeremony(target)
          \/ \E token \in BOOLEAN : RequestModeTransition(target, token)
    \/ TriggerLockdown
    \/ \E manual \in BOOLEAN : Tripwire(manual)

BoundaryNext ==
    \/ \E c \in ContractIds :
          \/ SuspendContract(c) \/ ResumeContract(c)
          \/ VisitActive(c) \/ VisitSuspended(c)
          \/ ContractActivated(c) \/ ContractEnds(c)
    \/ ListenersReturn \/ LoopReturns
    \/ DaemonStep
    \/ \E by \in {"initialize", "getCurrentMode"} : StartRead(by)
    \/ \E read \in reads : ReadReturns(read)
    \/ Destroy

BoundarySpec == BoundaryInit /\ [][BoundaryNext]_boundaryVars
-----------------------------------------------------------------------------
\* Types; and the daemon's lockdown holds: while its flag is set its mode is lockdown,
\* and in that mode, however it was entered, no recall and no network use is let through.
LockdownHolds ==
    /\ mode \in DaemonMode /\ cached \in DaemonMode
    /\ active \subseteq ContractIds /\ suspended \subseteq ContractIds
    /\ frames \in Seq(Frame) /\ Len(frames) <= MaxDepth
    /\ reads \subseteq Read
    /\ inLockdown => mode = "lockdown"
    /\ mode = "lockdown" => ~ToolAllowed(TRUE) /\ \A class \in 0..5 : ~RecallAllowed(class)

\* docs/internal/specs.md section 11: a downgrade or a lockdown suspends the contracts
\* that need more.  Once the listeners are done, whatever they called meanwhile, an
\* active contract below its mode is suspended, unless it was activated since or a
\* read of the mode replaced the cached one.
NobodyRunsBelow == Idle => Exposed(cached) \subseteq unevaluated

\* docs/internal/specs.md section 11: an upgrade resumes.  After it only what was
\* suspended by hand since, or became able to operate without an upgrade, is held.
UpgradeResumes == Idle /\ autoResume => Resumable(cached) \subseteq held
-----------------------------------------------------------------------------
(***************************************************************************)
(* What the documents say, and the code does not keep.                     *)
(***************************************************************************)

\* docs/internal/specs.md section 11: "LOCKDOWN mode suspends ALL contracts
\* immediately" and an upgrade resumes them.  Leaving lockdown is a downgrade to
\* isDowngrade, and what only the lockdown suspended stays suspended.
LeavingLockdownResumes ==
    [][cached = "lockdown" /\ cached' # "lockdown" /\ reads' = reads /\ autoResume
          => held' \subseteq held]_boundaryVars

\* enforced-system.ts: getCachedMode is the current mode.  A read that was answered
\* before a change of mode puts the old mode back after it.
ReadsKeepTheCacheRight ==
    [][\A read \in reads : ReadReturns(read) /\ cached = mode => cached' = mode]_boundaryVars

\* adapter.ts: no transition out of lockdown without a ceremony.  A lockdown that was
\* entered by a ceremony has no flag, and a mode request leaves it.
LockdownHasItsFlag == mode = "lockdown" => inLockdown

\* types.ts: lockdown blocks all.  A tool without network use runs.
LockdownBlocksTools == mode = "lockdown" => ~ToolAllowed(FALSE)
=============================================================================
