\* Two handles, so that a stray timer of an earlier override could be pending.
CONSTANTS
    t1 = t1
    t2 = t2
    NoTimer = NoTimer
    TimerIds <- MCTimerIds
    maxDurationMs = 8
    requireConfirmationToDisable = FALSE
    MaxDelay = 10
    MaxBlocked = 3
SPECIFICATION Spec
INVARIANTS
    NotDisabledEarly
PROPERTIES
    OverrideEnds
