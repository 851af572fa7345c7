---------------------------- MODULE TimeboundExpiry ----------------------------
(***************************************************************************)
(* TimeboundExpiryManager: an interval timer that expires active contracts *)
(* whose retention_until has passed.                                       *)
(*                                                                         *)
(* A cycle is not atomic: expiry listeners run after each contract, cycle  *)
(* listeners after the last one, and a listener may call anything, the     *)
(* manager included.  frames is the stack of the calls that are under way; *)
(* its last frame is the one that runs.  While the stack is empty the      *)
(* event loop is free: callers and timers get their turn.                  *)
(*                                                                         *)
(* Not here: memory freezing (LearningContractsSystem configures no        *)
(* memoryProvider), the error texts and the counters of cycles and errors. *)
(***************************************************************************)
EXTENDS Lifecycle, FiniteSets

CONSTANTS
    Intervals,     \* the handles setInterval may return
    NoInterval,    \* intervalId = null
    MaxDepth       \* bound on nested calls: a listener that calls the manager

ASSUME IntervalAssumption == NoInterval \notin Intervals /\ MaxDepth \in Nat

VARIABLES
    live,          \* the intervals that keep firing
    intervalId,    \* the handle the manager holds
    frames,        \* calls under way
    totalContractsExpired

managerVars == <<live, intervalId, frames, totalContractsExpired>>
expiryVars == <<contracts, trail, now, live, intervalId, frames, totalContractsExpired>>

\* call: who runs the frame.  queue: the contracts it has yet to expire.  count:
\* those it did expire.  at: what it does next.
Frame ==
    [call : {"start", "cycle", "force"}, queue : SUBSET ContractIds, count : Nat,
     at : {"work", "expiryListener", "cycleListener", "return"}]

ExpiryTypeOK ==
    /\ TypeOK
    /\ live \subseteq Intervals
    /\ intervalId \in live \cup {NoInterval}
    /\ frames \in Seq(Frame) /\ Len(frames) <= MaxDepth
    /\ totalContractsExpired \in Nat

ExpiryInit ==
    /\ Init
    /\ live = {} /\ intervalId = NoInterval
    /\ frames = <<>>
    /\ totalContractsExpired = 0
-----------------------------------------------------------------------------
IsRunning == intervalId # NoInterval
Idle == frames = <<>>
Top == frames[Len(frames)]
TopAt(at) == frames # <<>> /\ Top.at = at

\* repository.getTimeboundExpiredContracts.
RetentionPassed(c) ==
    LET m == contracts[c].memory_permissions IN
    /\ m.retention = "timebound" /\ m.retention_until # NoTime
    /\ m.retention_until < now

\* Mutant of TimeboundExpired: a contract is due as soon as its retention is timebound.
EveryTimebound ==
    {c \in ContractIds :
        InState(c, "active") /\ contracts[c].memory_permissions.retention = "timebound"}

TimeboundExpired == {c \in ContractIds : InState(c, "active") /\ RetentionPassed(c)}

\* A listener calls at most one operation, then it has returned: the frame below a
\* call made by a listener is past its callback.
AfterListener(frame) == [frame EXCEPT !.at = IF @ = "expiryListener" THEN "work" ELSE "return"]

CallerResumes ==
    IF Idle THEN frames ELSE [frames EXCEPT ![Len(frames)] = AfterListener(@)]

\* The event loop is free, or a listener has the turn.
MayCall == Idle \/ TopAt("expiryListener") \/ TopAt("cycleListener")

Push(call, queue) ==
    /\ MayCall /\ Len(frames) < MaxDepth
    /\ frames' = Append(CallerResumes, [call |-> call, queue |-> queue, count |-> 0, at |-> "work"])

\* The bound on intervals: each start under way will still create one.
SpareInterval ==
    Cardinality(live) + Cardinality({i \in DOMAIN frames : frames[i].call = "start"})
       < Cardinality(Intervals)
-----------------------------------------------------------------------------
\* start: the initial cycle runs before the interval is created.
Start ==
    /\ ~IsRunning
    /\ SpareInterval
    /\ Push("start", TimeboundExpired)
    /\ UNCHANGED <<lifecycleVars, live, intervalId, totalContractsExpired>>

Stop ==
    /\ MayCall
    /\ live' = live \ {intervalId}
    /\ intervalId' = NoInterval
    /\ frames' = CallerResumes
    /\ UNCHANGED <<lifecycleVars, totalContractsExpired>>

RunExpiryCycle ==
    /\ Push("cycle", TimeboundExpired)
    /\ UNCHANGED <<lifecycleVars, live, intervalId, totalContractsExpired>>

\* An interval fires: only once the current call has run to completion.
IntervalFires ==
    /\ live # {} /\ Idle
    /\ Push("cycle", TimeboundExpired)
    /\ UNCHANGED <<lifecycleVars, live, intervalId, totalContractsExpired>>

\* Mutant of SetCheckInterval: the old interval is cleared, none is created.
IntervalCleared ==
    /\ IsRunning
    /\ Push("cycle", TimeboundExpired)
    /\ live' = live \ {intervalId}
    /\ UNCHANGED <<lifecycleVars, intervalId, totalContractsExpired>>

\* setCheckInterval restarts a running manager: stop, then start.
SetCheckInterval ==
    /\ IsRunning
    /\ Push("start", TimeboundExpired)
    /\ live' = live \ {intervalId}
    /\ intervalId' = NoInterval
    /\ UNCHANGED <<lifecycleVars, totalContractsExpired>>

ForceExpire(c) ==
    /\ InState(c, "active")
    /\ Push("force", {c})
    /\ UNCHANGED <<lifecycleVars, live, intervalId, totalContractsExpired>>

ResetStats ==
    /\ MayCall
    /\ totalContractsExpired' = 0
    /\ frames' = CallerResumes
    /\ UNCHANGED <<lifecycleVars, live, intervalId>>

\* Any other operation of the system, called from outside or by a listener.
OtherOperation ==
    /\ MayCall
    /\ LifecycleStep
    /\ frames' = CallerResumes
    /\ UNCHANGED <<live, intervalId, totalContractsExpired>>

ListenerReturns ==
    /\ TopAt("expiryListener") \/ TopAt("cycleListener")
    /\ frames' = CallerResumes
    /\ UNCHANGED <<lifecycleVars, live, intervalId, totalContractsExpired>>
-----------------------------------------------------------------------------
\* Mutant of StillActive: what was queued is expired.
StillQueued(c) == Exists(c)

\* expireContract asks again: a listener may have changed the contract meanwhile.
StillActive(c) == InState(c, "active")

\* The contract has expired; the expiry listeners have the turn.
Expiring(frame, c) == [frame EXCEPT !.queue = @ \ {c}, !.count = @ + 1, !.at = "expiryListener"]

\* The next contract of the queue; its order is that of the store, which no property
\* depends on.
ExpireContract(c) ==
    /\ TopAt("work") /\ c \in Top.queue
    /\ IF StillActive(c)
       THEN /\ ExpireEach({c})
            /\ frames' = [frames EXCEPT ![Len(frames)] = Expiring(@, c)]
       ELSE /\ frames' = [frames EXCEPT ![Len(frames)].queue = @ \ {c}]
            /\ UNCHANGED <<contracts, trail>>
    /\ UNCHANGED <<now, live, intervalId, totalContractsExpired>>

\* The end of the for loop: the totals, then the cycle listeners.  forceExpire does
\* not count.
CompleteCycle ==
    /\ TopAt("work") /\ Top.queue = {}
    /\ IF Top.call = "force"
       THEN /\ frames' = [frames EXCEPT ![Len(frames)].at = "return"]
            /\ UNCHANGED totalContractsExpired
       ELSE /\ frames' = [frames EXCEPT ![Len(frames)].at = "cycleListener"]
            /\ totalContractsExpired' = totalContractsExpired + Top.count
    /\ UNCHANGED <<lifecycleVars, live, intervalId>>

\* The call returns; start creates its interval first, whatever its listeners did.
Return ==
    /\ TopAt("return")
    /\ frames' = SubSeq(frames, 1, Len(frames) - 1)
    /\ IF Top.call = "start"
       THEN \E i \in Intervals \ live : live' = live \cup {i} /\ intervalId' = i
       ELSE UNCHANGED <<live, intervalId>>
    /\ UNCHANGED <<lifecycleVars, totalContractsExpired>>

ExpiryTick == Tick /\ UNCHANGED managerVars

Running == (\E c \in ContractIds : ExpireContract(c)) \/ CompleteCycle \/ Return

ExpiryNext ==
    \/ Start \/ Stop \/ RunExpiryCycle \/ IntervalFires \/ SetCheckInterval
    \/ \E c \in ContractIds : ForceExpire(c)
    \/ ResetStats \/ OtherOperation \/ ListenerReturns
    \/ Running
    \/ ExpiryTick

\* A call that is under way runs on, listeners return, and a live interval fires
\* again and again.  Nobody has to call anything.
Fairness ==
    /\ WF_expiryVars(Running)
    /\ WF_expiryVars(ListenerReturns)
    /\ WF_expiryVars(IntervalFires)

ExpirySpec == ExpiryInit /\ [][ExpiryNext]_expiryVars /\ Fairness
-----------------------------------------------------------------------------
\* However listeners re-enter the manager, a contract expires only once it is due: its
\* retention or its expiration has passed, or forceExpire asked for it.
ExpiredWhenDue ==
    [][\A c \in ContractIds :
          StateOf(c) = "active" /\ StateOf(c)' = "expired" =>
             \/ RetentionPassed(c)
             \/ c \in ExpiredContracts
             \/ ~Idle /\ Top.call = "force"]_expiryVars

Expired == {c \in ContractIds : InState(c, "expired")}

\* The cycles whose count is not in the totals yet.
Counting == {i \in DOMAIN frames : /\ frames[i].call # "force"
                                  /\ frames[i].at \in {"work", "expiryListener"}}

\* The statistics never count a contract twice, neither when cycles nest nor when a
\* listener expires what the outer cycle still has in its queue: the expired contracts
\* can be shared out to the totals (0), to the cycles under way, and to what is not
\* counted (-1), so that the totals and every cycle have as many as they counted.
CountedAtMostOnce ==
    \E countedBy \in [Expired -> {-1, 0} \cup Counting] :
       /\ totalContractsExpired = Cardinality({c \in Expired : countedBy[c] = 0})
       /\ \A i \in Counting : frames[i].count = Cardinality({c \in Expired : countedBy[c] = i})

\* The manager's state is of its type, down to the interval the handle names, and the
\* statistics count no contract twice.
CountsAreRight == ExpiryTypeOK /\ CountedAtMostOnce

\* While the manager runs, a contract whose retention has passed does not stay active.
DueContractsExpire ==
    \A c \in ContractIds :
       IsRunning /\ c \in TimeboundExpired ~> ~InState(c, "active") \/ ~IsRunning

\* What stop() promises ("Stop automatic expiry checking"): afterwards nothing fires.
StopStops == [][Stop => live' = {}]_expiryVars
=============================================================================
