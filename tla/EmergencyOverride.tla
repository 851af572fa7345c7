--------------------------- MODULE EmergencyOverride ---------------------------
(***************************************************************************)
(* EmergencyOverrideManager: the switch that blocks every hook, and the    *)
(* timer that turns it off after maxDurationMs.                            *)
(*                                                                         *)
(* The manager runs on the event loop: an operation is one step, and a     *)
(* pending timer fires some time after its delay has passed, between two   *)
(* operations.  Time is counted from the last trigger (age) and down to    *)
(* each timer, so the clock itself needs no bound.  The reasons, the       *)
(* listeners (state is settled before they are called) and the audit       *)
(* entries are left out.                                                   *)
(***************************************************************************)
EXTENDS Integers, FiniteSets

CONSTANTS
    maxDurationMs,                  \* config, 0 = no limit
    requireConfirmationToDisable,   \* config
    MaxDelay,                       \* the longest delay setTimeout keeps (2^31 - 1)
    TimerIds,                       \* the handles setTimeout may return
    NoTimer,                        \* autoDisableTimeout = undefined
    MaxBlocked                      \* bound of operationsBlocked

ASSUME OverrideAssumption ==
    /\ maxDurationMs \in Nat /\ MaxDelay \in Nat \ {0} /\ MaxBlocked \in Nat
    /\ requireConfirmationToDisable \in BOOLEAN
    /\ NoTimer \notin TimerIds

VARIABLES
    active,
    age,                  \* time since triggeredAt, no further than maxDurationMs
    operationsBlocked,
    autoDisableTimeout,   \* the handle the manager holds
    pending               \* handle -> time left, for the timers not fired or cleared

vars == <<active, age, operationsBlocked, autoDisableTimeout, pending>>

Delays == 0..(IF maxDurationMs > MaxDelay THEN 1 ELSE maxDurationMs)

OverrideTypeOK ==
    /\ active \in BOOLEAN
    /\ age \in 0..maxDurationMs
    /\ operationsBlocked \in 0..MaxBlocked
    /\ autoDisableTimeout \in TimerIds \cup {NoTimer}
    /\ pending \in [TimerIds -> Delays \cup {NoTimer}]

Init ==
    /\ active = FALSE
    /\ age = 0
    /\ operationsBlocked = 0
    /\ autoDisableTimeout = NoTimer
    /\ pending = [t \in TimerIds |-> NoTimer]
-----------------------------------------------------------------------------
IsPending(t) == pending[t] # NoTimer

\* setTimeout: a delay beyond MaxDelay becomes 1.
EffectiveDelay(ms) == IF ms > MaxDelay THEN 1 ELSE ms

SetTimeout(t) ==
    /\ ~IsPending(t)
    /\ pending' = [pending EXCEPT ![t] = EffectiveDelay(maxDurationMs)]

\* clearTimeout of the timer the manager holds; no effect on one that has fired.
ClearAutoDisable(timers) ==
    /\ pending' = [t \in TimerIds |-> IF t = autoDisableTimeout THEN NoTimer ELSE timers[t]]
    /\ autoDisableTimeout' = NoTimer

TriggerOverride ==
    /\ ~active
    /\ active' = TRUE
    /\ age' = 0
    /\ operationsBlocked' = 0
    /\ IF maxDurationMs > 0
       THEN \E t \in TimerIds : SetTimeout(t) /\ autoDisableTimeout' = t
       ELSE UNCHANGED <<autoDisableTimeout, pending>>

\* Mutant of Disable: the timer runs on.
DisableKeepingTimer(timers) ==
    /\ pending' = timers
    /\ autoDisableTimeout' = NoTimer
    /\ active' = FALSE
    /\ age' = 0
    /\ operationsBlocked' = 0

\* Once it is allowed: cancel the timer, reset the state.
Disable(timers) ==
    /\ ClearAutoDisable(timers)
    /\ active' = FALSE
    /\ age' = 0
    /\ operationsBlocked' = 0

\* Mutant of MayDisable: a token is always required.
NeedsToken(token) == active /\ token

MayDisable(token) == active /\ (requireConfirmationToDisable => token)

DisableOverride(token) == MayDisable(token) /\ Disable(pending)

\* The timer's callback: disableOverride without a token, refused like any other.
AutoDisable(t) ==
    /\ IsPending(t) /\ pending[t] = 0
    /\ LET left == [pending EXCEPT ![t] = NoTimer] IN
       IF MayDisable(FALSE)
       THEN Disable(left)
       ELSE /\ pending' = left
            /\ UNCHANGED <<active, age, operationsBlocked, autoDisableTimeout>>

\* checkOperation of a hook, while the override is active.
BlockOperation ==
    /\ active
    /\ operationsBlocked < MaxBlocked
    /\ operationsBlocked' = operationsBlocked + 1
    /\ UNCHANGED <<active, age, autoDisableTimeout, pending>>

\* destroy only releases the timer and the listeners.
Destroy ==
    /\ ClearAutoDisable(pending)
    /\ UNCHANGED <<active, age, operationsBlocked>>

Tick ==
    /\ age' = IF active /\ age < maxDurationMs THEN age + 1 ELSE age
    /\ pending' = [t \in TimerIds |->
          IF IsPending(t) /\ pending[t] > 0 THEN pending[t] - 1 ELSE pending[t]]
    /\ UNCHANGED <<active, operationsBlocked, autoDisableTimeout>>

Next ==
    \/ TriggerOverride
    \/ \E token \in BOOLEAN : DisableOverride(token)
    \/ \E t \in TimerIds : AutoDisable(t)
    \/ BlockOperation
    \/ Destroy
    \/ Tick

\* Time passes and due timers fire; nobody has to disable the override.
Spec == Init /\ [][Next]_vars /\ WF_vars(Tick) /\ WF_vars(\E t \in TimerIds : AutoDisable(t))
-----------------------------------------------------------------------------
\* An override is not cut short, by a timer of an earlier override or by its own: when
\* a timer is about to fire during an override, that override has lasted maxDurationMs.
NotDisabledEarly ==
    \A t \in TimerIds : active /\ IsPending(t) /\ pending[t] = 0 => age = maxDurationMs

\* An override with a maximum duration ends, unless destroy took its timer away.
OverrideEnds ==
    maxDurationMs > 0 =>
       (active /\ autoDisableTimeout # NoTimer ~> ~active \/ autoDisableTimeout = NoTimer)
=============================================================================
