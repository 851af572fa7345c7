--------------------------- MODULE Safeguards_proofs ---------------------------
(***************************************************************************)
(* Proofs about the two components that stop the system and that take      *)
(* back what it has learned: EmergencyOverride, for any duration, any      *)
(* number of timer handles and any bound on the operations counted; and    *)
(* Forgetting, for every list of references, of any length and with any    *)
(* circles.                                                                *)
(*                                                                         *)
(* That no timer cuts an override short is not inductive: it needs that no *)
(* timer outlives its override and that the time left to it and the age of *)
(* the override always add up to the duration (TimersInStep).              *)
(*                                                                         *)
(* findRecursive is right because what it has found derives from the       *)
(* contract (FollowsForgotten), and what it has not found yet is still     *)
(* ahead of one of its activations (NothingOverlooked).                    *)
(***************************************************************************)
EXTENDS EmergencyOverride, Forgetting, SequenceTheorems, TLAPS
-----------------------------------------------------------------------------
(***************************************************************************)
(* The emergency override.                                                 *)
(***************************************************************************)
\* Any pending timer is the one the manager holds, of the override that is active,
\* and due when that has lasted maxDurationMs.
TimersInStep ==
    \A t \in TimerIds : IsPending(t) =>
       /\ active /\ t = autoDisableTimeout
       /\ pending[t] \in 0..maxDurationMs
       /\ pending[t] + age = maxDurationMs

\* The timer's delay is one setTimeout keeps.
DurationIsKept == maxDurationMs <= MaxDelay

\* Clearing the held timer, after one has fired or not, leaves none.
LEMMA ClearLeavesNone ==
    ASSUME TimersInStep, NEW timers,
           \A t \in TimerIds : timers[t] = pending[t] \/ timers[t] = NoTimer,
           ClearAutoDisable(timers)
    PROVE  /\ pending' = [t \in TimerIds |-> NoTimer]
           /\ autoDisableTimeout' = NoTimer
<1>1. ASSUME NEW t \in TimerIds, t # autoDisableTimeout PROVE timers[t] = NoTimer
  BY <1>1 DEF TimersInStep, IsPending
<1> QED BY <1>1 DEF ClearAutoDisable

\* One step keeps types and timers in step with the override.
LEMMA OverrideStep ==
    ASSUME OverrideTypeOK, TimersInStep, DurationIsKept, [Next]_vars
    PROVE  OverrideTypeOK' /\ TimersInStep'
<1> USE OverrideAssumption
<1> DEFINE NoTimers == [t \in TimerIds |-> NoTimer]
<1>0. Delays = 0..maxDurationMs /\ EffectiveDelay(maxDurationMs) = maxDurationMs
  BY DEF DurationIsKept, Delays, EffectiveDelay
<1>1. ASSUME pending' = NoTimers, active' \in BOOLEAN, age' \in 0..maxDurationMs,
             operationsBlocked' \in 0..MaxBlocked,
             autoDisableTimeout' \in TimerIds \cup {NoTimer}
      PROVE  OverrideTypeOK' /\ TimersInStep'
  BY <1>1 DEF OverrideTypeOK, TimersInStep, IsPending
<1>2. ASSUME NEW timers, Disable(timers),
             \A t \in TimerIds : timers[t] = pending[t] \/ timers[t] = NoTimer
      PROVE  OverrideTypeOK' /\ TimersInStep'
  <2>1. ClearAutoDisable(timers)
    BY <1>2 DEF Disable
  <2>2. pending' = NoTimers /\ autoDisableTimeout' = NoTimer
    BY <1>2, <2>1, ClearLeavesNone
  <2>3. active' \in BOOLEAN
    BY <1>2, Zenon DEF Disable
  <2>4. age' \in 0..maxDurationMs /\ operationsBlocked' \in 0..MaxBlocked
    BY <1>2 DEF Disable
  <2> QED BY <1>1, <2>2, <2>3, <2>4
<1>3. CASE TriggerOverride
  <2>1. \A t \in TimerIds : pending[t] = NoTimer
    BY <1>3 DEF TriggerOverride, TimersInStep, IsPending
  <2>2. CASE maxDurationMs > 0
    <3>1. PICK t \in TimerIds : SetTimeout(t) /\ autoDisableTimeout' = t
      BY <1>3, <2>2 DEF TriggerOverride
    <3>2. pending' = [pending EXCEPT ![t] = maxDurationMs] /\ active' = TRUE /\ age' = 0
      BY <1>3, <3>1, <1>0 DEF TriggerOverride, SetTimeout
    <3>3. TimersInStep'
      BY <3>1, <3>2, <2>1 DEF TimersInStep, IsPending, OverrideTypeOK
    <3> QED BY <1>3, <3>1, <3>2, <3>3, <1>0 DEF TriggerOverride, OverrideTypeOK
  <2>3. CASE maxDurationMs = 0
    BY <1>3, <2>1, <2>3 DEF TriggerOverride, OverrideTypeOK, TimersInStep, IsPending
  <2> QED BY <2>2, <2>3
<1>4. ASSUME NEW token \in BOOLEAN, DisableOverride(token)
      PROVE  OverrideTypeOK' /\ TimersInStep'
  BY <1>2, <1>4 DEF DisableOverride
<1>5. ASSUME NEW t \in TimerIds, AutoDisable(t)
      PROVE  OverrideTypeOK' /\ TimersInStep'
  <2> DEFINE left == [pending EXCEPT ![t] = NoTimer]
  <2>1. \A x \in TimerIds : left[x] = pending[x] \/ left[x] = NoTimer
    BY DEF OverrideTypeOK
  <2>2. CASE MayDisable(FALSE)
    BY <1>2, <1>5, <2>1, <2>2 DEF AutoDisable
  <2>3. CASE ~MayDisable(FALSE)
    BY <1>5, <2>3 DEF AutoDisable, OverrideTypeOK, TimersInStep, IsPending
  <2> QED BY <2>2, <2>3
<1>6. CASE BlockOperation
  BY <1>6 DEF BlockOperation, OverrideTypeOK, TimersInStep, IsPending
<1>7. CASE Destroy
  <2>1. pending' = NoTimers /\ autoDisableTimeout' = NoTimer
    BY <1>7, ClearLeavesNone DEF Destroy
  <2> QED BY <1>1, <1>7, <2>1 DEF Destroy, OverrideTypeOK
<1>8. CASE Tick
  <2>1. ASSUME NEW t \in TimerIds
        PROVE  /\ pending'[t] \in Delays \cup {NoTimer}
               /\ IsPending(t)' => /\ active /\ t = autoDisableTimeout
                                   /\ pending'[t] \in 0..maxDurationMs
                                   /\ pending'[t] + age' = maxDurationMs
    <3>1. CASE IsPending(t)
      BY <1>8, <2>1, <3>1, <1>0 DEF Tick, OverrideTypeOK, TimersInStep, IsPending
    <3>2. CASE ~IsPending(t)
      BY <1>8, <2>1, <3>2 DEF Tick, OverrideTypeOK, IsPending
    <3> QED BY <3>1, <3>2
  <2>2. age' \in 0..maxDurationMs
    BY <1>8 DEF Tick, OverrideTypeOK
  <2>3. pending' \in [TimerIds -> Delays \cup {NoTimer}]
    BY <1>8, <2>1 DEF Tick
  <2> QED BY <1>8, <2>1, <2>2, <2>3 DEF Tick, OverrideTypeOK, TimersInStep
<1>9. CASE UNCHANGED vars
  BY <1>9 DEF vars, OverrideTypeOK, TimersInStep, IsPending
<1> QED BY <1>3, <1>4, <1>5, <1>6, <1>7, <1>8, <1>9 DEF Next

\* If the runtime keeps the configured delay, no timer ends an override before it has
\* lasted maxDurationMs: none survives the override it was set for, however triggers,
\* disables, refused callbacks and destroy follow each other.
THEOREM NoEarlyDisable == DurationIsKept => (Spec => []NotDisabledEarly)
<1> SUFFICES ASSUME DurationIsKept PROVE Spec => []NotDisabledEarly
  OBVIOUS
<1>1. Init => OverrideTypeOK /\ TimersInStep
  <2> SUFFICES ASSUME Init PROVE OverrideTypeOK /\ TimersInStep
    OBVIOUS
  <2>1. active \in BOOLEAN
    BY Zenon DEF Init
  <2>2. age \in 0..maxDurationMs /\ operationsBlocked \in 0..MaxBlocked
    BY OverrideAssumption DEF Init
  <2>3. autoDisableTimeout \in TimerIds \cup {NoTimer} /\ \A t \in TimerIds : pending[t] = NoTimer
    BY DEF Init
  <2>4. pending \in [TimerIds -> Delays \cup {NoTimer}]
    BY DEF Init
  <2> QED BY <2>1, <2>2, <2>3, <2>4 DEF OverrideTypeOK, TimersInStep, IsPending
<1>2. OverrideTypeOK /\ TimersInStep /\ [Next]_vars => OverrideTypeOK' /\ TimersInStep'
  BY OverrideStep
<1>3. OverrideTypeOK /\ TimersInStep => NotDisabledEarly
  BY OverrideAssumption DEF OverrideTypeOK, TimersInStep, NotDisabledEarly
<1> QED BY <1>1, <1>2, <1>3, PTL DEF Spec
-----------------------------------------------------------------------------
(***************************************************************************)
(* Forgetting.                                                             *)
(***************************************************************************)
ForgettingTypeOK ==
    /\ memories \in Seq(Reference)
    /\ call \in Operation \cup {None}
    /\ stack \in Seq(Frame)
    /\ seen \subseteq MemoryIds

\* Nothing is followed that does not derive from the contract.
FollowsForgotten ==
    call # None =>
       /\ seen \subseteq Forgotten(call.contract_id)
       /\ \A i \in DOMAIN stack : stack[i].currentIds \subseteq Forgotten(call.contract_id)

\* The loop of activation i has memory j still ahead and will take it.
Ahead(i, j) ==
    memories[j].derived_from \cap stack[i].currentIds # {} /\ stack[i].next <= j

\* What derives from what was found is found, or ahead.
NothingOverlooked ==
    call # None =>
       \A j \in DOMAIN memories :
          memories[j].derived_from \cap (DirectMemories(call.contract_id) \cup seen) # {} =>
             memories[j].memory_id \in seen \/ \E i \in DOMAIN stack : Ahead(i, j)

ForgettingInv ==
    /\ ForgettingTypeOK
    /\ FollowsForgotten
    /\ NothingOverlooked
    /\ ForgetsExactlyWhatDerives
-----------------------------------------------------------------------------
(***************************************************************************)
(* Facts about closed sets.                                                *)
(***************************************************************************)

\* What the elements of the host's list are.
LEMMA References ==
    ASSUME memories \in Seq(Reference), NEW j \in DOMAIN memories
    PROVE  /\ j \in 1..Len(memories)
           /\ memories[j].memory_id \in MemoryIds
           /\ memories[j].derived_from \subseteq MemoryIds
  <1>1. j \in 1..Len(memories) /\ memories[j] \in Reference
    OBVIOUS
  <1> QED
    BY <1>1 DEF Reference

\* The contract's memories are memories, and forgotten.
LEMMA DirectForgotten ==
    ASSUME memories \in Seq(Reference), NEW c
    PROVE  DirectMemories(c) \subseteq MemoryIds /\ DirectMemories(c) \subseteq Forgotten(c)
  <1>1. \A i \in DOMAIN memories : memories[i].memory_id \in MemoryIds
    BY References
  <1> QED
    BY <1>1 DEF DirectMemories, Forgotten

\* A memory that derives from a forgotten one is forgotten.
LEMMA ForgottenClosed ==
    ASSUME memories \in Seq(Reference), NEW c, NEW j \in DOMAIN memories,
           memories[j].derived_from \cap Forgotten(c) # {}
    PROVE  memories[j].memory_id \in Forgotten(c)
  <1>1. memories[j].memory_id \in MemoryIds
    BY References
  <1>2. PICK m \in memories[j].derived_from : m \in Forgotten(c)
    OBVIOUS
  <1>3. ASSUME NEW D \in SUBSET MemoryIds, DirectMemories(c) \subseteq D, Closed(D)
        PROVE  memories[j].memory_id \in D
    <2>1. m \in D
      BY <1>2, <1>3 DEF Forgotten
    <2> QED
      BY <1>2, <1>3, <2>1 DEF Closed
  <1> QED
    BY <1>1, <1>3 DEF Forgotten

\* A closed set with the contract's memories has every forgotten one.
LEMMA ForgottenLeast ==
    ASSUME NEW c, NEW D \in SUBSET MemoryIds, DirectMemories(c) \subseteq D, Closed(D)
    PROVE  Forgotten(c) \subseteq D
  BY DEF Forgotten
-----------------------------------------------------------------------------
LEMMA InitInvariant == ForgettingInit => ForgettingInv
  <1> SUFFICES ASSUME ForgettingInit PROVE ForgettingInv
    OBVIOUS
  <1>1. memories \in Seq(Reference)
    BY ForgettingAssumption DEF ForgettingInit
  <1> QED
    BY <1>1 DEF ForgettingInit, ForgettingInv, ForgettingTypeOK, FollowsForgotten, NothingOverlooked,
                ForgetsExactlyWhatDerives

\* The list of references stays, so what a contract takes with it stays.
LEMMA SameForgotten ==
    ASSUME UNCHANGED memories
    PROVE  \A c : DirectMemories(c)' = DirectMemories(c) /\ Forgotten(c)' = Forgotten(c)
  BY DEF DirectMemories, Forgotten, Closed

\* A call that begins has the contract's memories ahead.
LEMMA FindDerivedPreserves ==
    ASSUME ForgettingInv, NEW kind \in {"tombstone", "purge"}, NEW c \in ContractIds, FindDerived(kind, c)
    PROVE  ForgettingInv'
  <1> USE DEF FindDerived
  <1>1. memories \in Seq(Reference)
    BY DEF ForgettingInv, ForgettingTypeOK
  <1>2. DirectMemories(c) \subseteq MemoryIds /\ DirectMemories(c) \subseteq Forgotten(c)
    BY <1>1, DirectForgotten
  <1>3. call' = [kind |-> kind, contract_id |-> c] /\ call' \in Operation
    BY DEF Operation
  <1>4. stack' = <<[currentIds |-> DirectMemories(c), next |-> 1]>> /\ stack' \in Seq(Frame)
    BY <1>2 DEF Frame
  <1>5. ForgettingTypeOK'
    BY <1>1, <1>3, <1>4 DEF ForgettingTypeOK
  <1>6. FollowsForgotten'
    BY <1>2, <1>3, <1>4, SameForgotten DEF FollowsForgotten
  <1>7. NothingOverlooked'
    <2> SUFFICES ASSUME NEW j \in DOMAIN memories,
                        memories[j].derived_from \cap DirectMemories(c) # {}
                 PROVE  \E i \in DOMAIN stack' : Ahead(i, j)'
      BY <1>3, SameForgotten DEF NothingOverlooked
    <2>1. 1 \in DOMAIN stack' /\ stack'[1] = [currentIds |-> DirectMemories(c), next |-> 1]
      BY <1>4
    <2>2. j \in Nat /\ 1 <= j
      BY <1>1, References
    <2>3. Ahead(1, j)'
      BY <2>1, <2>2 DEF Ahead
    <2> QED
      BY <2>1, <2>3
  <1>8. ForgetsExactlyWhatDerives'
    BY DEF ForgetsExactlyWhatDerives
  <1> QED
    BY <1>5, <1>6, <1>7, <1>8 DEF ForgettingInv

\* A step of the loop keeps the types of the stack.
LEMMA StackTypes ==
    ASSUME ForgettingTypeOK, stack # <<>>
    PROVE  /\ Len(stack) \in Nat \ {0} /\ Top \in Frame /\ Below \in Seq(Frame)
           /\ Len(Below) = Len(stack) - 1
           /\ \A i \in 1..Len(stack) - 1 : Below[i] = stack[i]
           /\ Advanced \in Seq(Frame) /\ Len(Advanced) = Len(stack)
           /\ \A i \in 1..Len(stack) - 1 : Advanced[i] = stack[i]
           /\ Advanced[Len(stack)] = [currentIds |-> Top.currentIds, next |-> Top.next + 1]
  <1>1. stack \in Seq(Frame) /\ Len(stack) \in Nat \ {0}
    BY DEF ForgettingTypeOK
  <1>2. Top \in Frame
    BY <1>1 DEF Top
  <1>3. /\ Below \in Seq(Frame) /\ Len(Below) = Len(stack) - 1
        /\ \A i \in 1..Len(stack) - 1 : Below[i] = stack[i]
    <2>n. PICK n \in Nat : n = Len(stack) - 1
      BY <1>1
    <2>1. \A i \in 1..n : stack[i] \in Frame
      BY <1>1, <2>n
    <2>2. /\ SubSeq(stack, 1, n) \in Seq(Frame)
          /\ Len(SubSeq(stack, 1, n)) = IF 1 <= n THEN n - 1 + 1 ELSE 0
          /\ \A i \in 1..n - 1 + 1 : SubSeq(stack, 1, n)[i] = stack[1 + i - 1]
      BY <2>1, SubSeqProperties, SMT
    <2>3. Below = SubSeq(stack, 1, n)
      BY <2>n DEF Below
    <2>4. \A i \in 1..n : SubSeq(stack, 1, n)[i] = stack[i]
      BY <2>2
    <2>5. Len(SubSeq(stack, 1, n)) = n
      BY <2>2
    <2> QED
      BY <2>n, <2>2, <2>3, <2>4, <2>5
  <1>4. [Top EXCEPT !.next = @ + 1] = [currentIds |-> Top.currentIds, next |-> Top.next + 1]
    BY <1>2 DEF Frame
  <1>5. [currentIds |-> Top.currentIds, next |-> Top.next + 1] \in Frame
    BY <1>2 DEF Frame
  <1> QED
    BY <1>1, <1>2, <1>3, <1>4, <1>5 DEF Advanced

\* A found memory derives from the contract; what derives from it is ahead.
LEMMA FoundPreserves ==
    ASSUME ForgettingInv, Found
    PROVE  ForgettingInv'
  <1> USE DEF ForgettingInv
  <1> DEFINE j0 == Top.next
             m == memories[j0].memory_id
             frame == [currentIds |-> {m}, next |-> 1]
             c == call.contract_id
  <1>1. stack # <<>> /\ Derives /\ seen' = seen \cup {m} /\ stack' = Append(Advanced, frame)
        /\ UNCHANGED <<memories, call, report>>
    BY DEF Found
  <1>n. PICK n \in Nat \ {0} : n = Len(stack)
    BY <1>1, StackTypes DEF ForgettingInv
  <1>2. /\ memories \in Seq(Reference) /\ stack \in Seq(Frame) /\ n = Len(stack)
        /\ ForgettingTypeOK
    BY <1>1, <1>n DEF ForgettingTypeOK
  <1>d. DOMAIN memories = 1..Len(memories) /\ DOMAIN stack = 1..n
    BY <1>2
  <1>3. j0 \in 1..Len(memories) /\ m \notin seen
        /\ memories[j0].derived_from \cap Top.currentIds # {} /\ m \in MemoryIds
    <2>1. j0 \in Nat \ {0} /\ j0 <= Len(memories) /\ m \notin seen
          /\ memories[j0].derived_from \cap Top.currentIds # {}
      BY <1>1, <1>2, StackTypes DEF Derives, Frame
    <2>2. j0 \in DOMAIN memories
      BY <1>2, <1>d, <2>1
    <2> QED
      BY <1>2, <2>1, <2>2, References
  <1>4. frame \in Frame /\ Advanced \in Seq(Frame) /\ Len(Advanced) = n
    BY <1>1, <1>2, <1>3, StackTypes DEF Frame
  <1>5. /\ stack' \in Seq(Frame) /\ Len(stack') = n + 1 /\ stack'[n + 1] = frame
        /\ \A i \in 1..n - 1 : stack'[i] = stack[i]
        /\ stack'[n] = [currentIds |-> Top.currentIds, next |-> j0 + 1]
    <2>1. stack' \in Seq(Frame) /\ Len(stack') = n + 1 /\ stack'[n + 1] = frame
      BY <1>1, <1>4
    <2>2. \A i \in 1..n : stack'[i] = Advanced[i]
      BY <1>1, <1>n, <1>4
    <2> QED
      BY <1>1, <1>n, <1>2, <2>1, <2>2, StackTypes
  <1>6. ForgettingTypeOK'
    BY <1>1, <1>3, <1>5 DEF ForgettingTypeOK
  <1>7. FollowsForgotten'
    <2> SUFFICES ASSUME call # None
                 PROVE  /\ seen' \subseteq Forgotten(c)
                        /\ \A i \in 1..n + 1 : stack'[i].currentIds \subseteq Forgotten(c)
      BY <1>1, <1>5, SameForgotten DEF FollowsForgotten
    <2>1. Top.currentIds \subseteq Forgotten(c)
      BY <1>2 DEF FollowsForgotten, Top
    <2>2. m \in Forgotten(c)
      BY <1>2, <1>3, <2>1, ForgottenClosed
    <2>3. \A i \in 1..n + 1 : stack'[i].currentIds \subseteq Forgotten(c)
      <3> SUFFICES ASSUME NEW i \in 1..n + 1
                   PROVE  stack'[i].currentIds \subseteq Forgotten(c)
        OBVIOUS
      <3>1. i \in 1..n - 1 \/ i = n \/ i = n + 1
        BY <1>2
      <3>2. CASE i \in 1..n - 1
        BY <1>d, <1>n, <1>5, <3>2 DEF FollowsForgotten
      <3>3. CASE i = n
        BY <1>5, <2>1, <3>3
      <3>4. CASE i = n + 1
        BY <1>5, <2>2, <3>4
      <3> QED
        BY <3>1, <3>2, <3>3, <3>4
    <2> QED
      BY <1>1, <2>2, <2>3 DEF FollowsForgotten
  <1>8. NothingOverlooked'
    <2> SUFFICES ASSUME call # None, NEW j \in 1..Len(memories),
                        memories[j].derived_from \cap (DirectMemories(c) \cup seen') # {},
                        memories[j].memory_id \notin seen'
                 PROVE  \E i \in 1..n + 1 : Ahead(i, j)'
      <3>1. DOMAIN stack' = 1..n + 1 /\ DOMAIN memories' = 1..Len(memories)
        BY <1>1, <1>d, <1>5
      <3> QED
        BY <1>1, <3>1, SameForgotten DEF NothingOverlooked
    <2>1. CASE m \in memories[j].derived_from
      <3>1. stack'[n + 1].currentIds = {m} /\ stack'[n + 1].next = 1 /\ n + 1 \in 1..n + 1
        BY <1>2, <1>5
      <3>2. stack'[n + 1].next <= j
        BY <1>2, <3>1
      <3>3. Ahead(n + 1, j)'
        BY <1>1, <2>1, <3>1, <3>2 DEF Ahead
      <3> QED
        BY <3>1, <3>3
    <2>2. CASE m \notin memories[j].derived_from
      <3>0. /\ memories[j].derived_from \cap (DirectMemories(c) \cup seen) # {}
            /\ memories[j].memory_id \notin seen /\ j \in DOMAIN memories
        BY <1>1, <1>d, <2>2
      <3>1. PICK i \in 1..n : Ahead(i, j)
        BY <1>d, <3>0 DEF NothingOverlooked
      <3>2. CASE i \in 1..n - 1
        <4>1. stack'[i] = stack[i] /\ i \in 1..n + 1
          BY <1>2, <1>5, <3>2
        <4>2. Ahead(i, j)'
          BY <1>1, <3>1, <4>1 DEF Ahead
        <4> QED
          BY <4>1, <4>2
      <3>3. CASE i = n
        <4>1. memories[j].derived_from \cap Top.currentIds # {} /\ j0 <= j
          BY <1>n, <3>1, <3>3 DEF Ahead, Top
        <4>2. j # j0
          BY <1>1
        <4>3. stack'[n].currentIds = Top.currentIds /\ stack'[n].next <= j /\ n \in 1..n + 1
          BY <1>2, <1>3, <1>5, <4>1, <4>2
        <4>4. Ahead(n, j)'
          BY <1>1, <4>1, <4>3 DEF Ahead
        <4> QED
          BY <4>3, <4>4
      <3> QED
        BY <1>2, <3>2, <3>3
    <2> QED
      BY <2>1, <2>2
  <1>9. ForgetsExactlyWhatDerives'
    BY <1>1, SameForgotten DEF ForgetsExactlyWhatDerives
  <1> QED
    BY <1>6, <1>7, <1>8, <1>9

\* What the loop passes over is found already, or is ahead of another activation.
LEMMA SkipPreserves ==
    ASSUME ForgettingInv, Skip
    PROVE  ForgettingInv'
  <1> USE DEF ForgettingInv
  <1> DEFINE j0 == Top.next
             c == call.contract_id
  <1>1. stack # <<>> /\ ~Derives /\ j0 <= Len(memories) /\ stack' = Advanced
        /\ UNCHANGED <<memories, call, seen, report>>
    BY DEF Skip
  <1>n. PICK n \in Nat \ {0} : n = Len(stack)
    BY <1>1, StackTypes DEF ForgettingInv
  <1>2. /\ memories \in Seq(Reference) /\ stack \in Seq(Frame) /\ n = Len(stack) /\ j0 \in Nat
    BY <1>1, <1>n, StackTypes DEF ForgettingTypeOK, Frame
  <1>d. DOMAIN memories = 1..Len(memories) /\ DOMAIN stack = 1..n
    BY <1>2
  <1>3. /\ stack' \in Seq(Frame) /\ Len(stack') = n
        /\ \A i \in 1..n - 1 : stack'[i] = stack[i]
        /\ stack'[n] = [currentIds |-> Top.currentIds, next |-> j0 + 1]
    BY <1>1, <1>2, StackTypes
  <1>4. ForgettingTypeOK'
    BY <1>1, <1>3 DEF ForgettingTypeOK
  <1>5. FollowsForgotten'
    <2> SUFFICES ASSUME call # None, NEW i \in 1..n
                 PROVE  stack'[i].currentIds \subseteq Forgotten(c)
      BY <1>1, <1>3, SameForgotten DEF FollowsForgotten
    <2>1. stack[i].currentIds \subseteq Forgotten(c)
      BY <1>2 DEF FollowsForgotten
    <2>2. stack'[i].currentIds = stack[i].currentIds
      BY <1>2, <1>3 DEF Top
    <2> QED
      BY <2>1, <2>2
  <1>6. NothingOverlooked'
    <2> SUFFICES ASSUME call # None, NEW j \in 1..Len(memories),
                        memories[j].derived_from \cap (DirectMemories(c) \cup seen) # {},
                        memories[j].memory_id \notin seen
                 PROVE  \E i \in 1..n : Ahead(i, j)'
      BY <1>1, <1>d, <1>3, SameForgotten DEF NothingOverlooked
    <2>1. PICK i \in 1..n : Ahead(i, j)
      BY <1>d DEF NothingOverlooked
    <2>2. CASE i \in 1..n - 1
      <3>1. stack'[i] = stack[i]
        BY <1>3, <2>2
      <3>2. Ahead(i, j)'
        BY <1>1, <1>2, <2>1, <3>1 DEF Ahead
      <3> QED
        BY <3>2
    <2>3. CASE i = n
      <3>1. memories[j].derived_from \cap Top.currentIds # {} /\ j0 <= j
        BY <1>n, <2>1, <2>3 DEF Ahead, Top
      <3>2. j # j0
        BY <1>1, <3>1 DEF Derives
      <3>3. stack'[n].currentIds = Top.currentIds /\ stack'[n].next <= j
        BY <1>2, <1>3, <3>1, <3>2
      <3>4. Ahead(n, j)'
        BY <1>1, <3>1, <3>3 DEF Ahead
      <3> QED
        BY <1>2, <3>4
    <2> QED
      BY <1>2, <2>2, <2>3
  <1>7. ForgetsExactlyWhatDerives'
    BY <1>1, SameForgotten DEF ForgetsExactlyWhatDerives
  <1> QED
    BY <1>4, <1>5, <1>6, <1>7

\* An activation that returns has nothing ahead.
LEMMA ReturnPreserves ==
    ASSUME ForgettingInv, FindRecursiveReturns
    PROVE  ForgettingInv'
  <1> USE DEF ForgettingInv
  <1> DEFINE c == call.contract_id
  <1>1. stack # <<>> /\ Top.next > Len(memories) /\ stack' = Below
        /\ UNCHANGED <<memories, call, seen, report>>
    BY DEF FindRecursiveReturns
  <1>n. PICK n \in Nat \ {0} : n = Len(stack)
    BY <1>1, StackTypes DEF ForgettingInv
  <1>2. /\ memories \in Seq(Reference) /\ stack \in Seq(Frame) /\ n = Len(stack) /\ Top.next \in Nat
    BY <1>1, <1>n, StackTypes DEF ForgettingTypeOK, Frame
  <1>d. DOMAIN memories = 1..Len(memories) /\ DOMAIN stack = 1..n
    BY <1>2
  <1>3. /\ stack' \in Seq(Frame) /\ Len(stack') = n - 1
        /\ \A i \in 1..n - 1 : stack'[i] = stack[i]
    BY <1>1, <1>2, StackTypes
  <1>4. ForgettingTypeOK'
    BY <1>1, <1>3 DEF ForgettingTypeOK
  <1>5. FollowsForgotten'
    <2> SUFFICES ASSUME call # None, NEW i \in 1..n - 1
                 PROVE  stack'[i].currentIds \subseteq Forgotten(c)
      BY <1>1, <1>3, SameForgotten DEF FollowsForgotten
    <2>1. stack'[i] = stack[i] /\ i \in DOMAIN stack
      BY <1>2, <1>3, <1>d
    <2> QED
      BY <2>1 DEF FollowsForgotten
  <1>6. NothingOverlooked'
    <2> SUFFICES ASSUME call # None, NEW j \in 1..Len(memories),
                        memories[j].derived_from \cap (DirectMemories(c) \cup seen) # {},
                        memories[j].memory_id \notin seen
                 PROVE  \E i \in 1..n - 1 : Ahead(i, j)'
      BY <1>1, <1>d, <1>3, SameForgotten DEF NothingOverlooked
    <2>1. PICK i \in 1..n : Ahead(i, j)
      BY <1>d DEF NothingOverlooked
    <2>2. i # n
      BY <1>1, <1>2, <2>1 DEF Ahead, Top
    <2>3. i \in 1..n - 1 /\ stack'[i] = stack[i]
      BY <1>2, <1>3, <2>2
    <2>4. Ahead(i, j)'
      BY <1>1, <2>1, <2>3 DEF Ahead
    <2> QED
      BY <2>3, <2>4
  <1>7. ForgetsExactlyWhatDerives'
    BY <1>1, SameForgotten DEF ForgetsExactlyWhatDerives
  <1> QED
    BY <1>4, <1>5, <1>6, <1>7

\* With no activation left nothing is ahead: what was found is closed.
LEMMA ReportPreserves ==
    ASSUME ForgettingInv, Report
    PROVE  ForgettingInv'
  <1> USE DEF ForgettingInv
  <1> DEFINE c == call.contract_id
             D == DirectMemories(c) \cup seen
  <1>1. /\ call # None /\ stack = <<>> /\ call' = None
        /\ report' = [kind |-> call.kind, contract_id |-> c,
                      affected |-> DirectMemories(c), derived |-> seen]
        /\ UNCHANGED <<memories, stack, seen>>
    BY DEF Report
  <1>2. memories \in Seq(Reference) /\ seen \subseteq MemoryIds
    BY DEF ForgettingTypeOK
  <1>3. D \subseteq Forgotten(c) /\ D \in SUBSET MemoryIds
    BY <1>1, <1>2, DirectForgotten DEF FollowsForgotten
  <1>4. Closed(D)
    <2> SUFFICES ASSUME NEW j \in DOMAIN memories, memories[j].derived_from \cap D # {}
                 PROVE  memories[j].memory_id \in D
      BY DEF Closed
    <2>1. DOMAIN stack = {}
      BY <1>1
    <2> QED
      BY <1>1, <2>1 DEF NothingOverlooked
  <1>5. D = Forgotten(c)
    BY <1>3, <1>4, ForgottenLeast
  <1>6. ForgetsExactlyWhatDerives'
    BY <1>1, <1>5, SameForgotten DEF ForgetsExactlyWhatDerives
  <1> QED
    BY <1>1, <1>6 DEF ForgettingTypeOK, FollowsForgotten, NothingOverlooked
-----------------------------------------------------------------------------
LEMMA StepPreserves == ForgettingInv /\ [ForgettingNext]_forgettingVars => ForgettingInv'
  <1> SUFFICES ASSUME ForgettingInv, [ForgettingNext]_forgettingVars PROVE ForgettingInv'
    OBVIOUS
  <1>1. ASSUME NEW contract \in Contracts, FreezeMemories(contract)
        PROVE  ForgettingInv'
    <2>1. ForgettingTypeOK' /\ FollowsForgotten' /\ NothingOverlooked'
      BY <1>1 DEF ForgettingInv, FreezeMemories, ForgettingTypeOK, FollowsForgotten, NothingOverlooked
    <2>2. ForgetsExactlyWhatDerives'
      BY <1>1 DEF FreezeMemories, ForgetsExactlyWhatDerives
    <2> QED
      BY <2>1, <2>2 DEF ForgettingInv
  <1>2. \A contract \in Contracts : contract.contract_id \in ContractIds
    BY ForgettingAssumption DEF Contract
  <1>3. ASSUME NEW contract \in Contracts, TombstoneMemories(contract)
        PROVE  ForgettingInv'
    BY <1>2, <1>3, FindDerivedPreserves DEF TombstoneMemories
  <1>4. ASSUME NEW contract \in Contracts, NEW confirmation \in Confirmations,
               DeepPurge(contract, confirmation)
        PROVE  ForgettingInv'
    BY <1>2, <1>4, FindDerivedPreserves DEF DeepPurge
  <1>5. CASE Compute
    BY <1>5, FoundPreserves, SkipPreserves, ReturnPreserves, ReportPreserves DEF Compute
  <1>6. CASE UNCHANGED forgettingVars
    <2>1. /\ DirectMemories(call.contract_id)' = DirectMemories(call.contract_id)
          /\ Forgotten(call.contract_id)' = Forgotten(call.contract_id)
          /\ Forgotten(report.contract_id)' = Forgotten(report.contract_id)
      BY <1>6 DEF forgettingVars, DirectMemories, Forgotten, Closed
    <2> QED
      BY <1>6, <2>1 DEF forgettingVars, ForgettingInv, ForgettingTypeOK, FollowsForgotten,
                        NothingOverlooked, Ahead, ForgetsExactlyWhatDerives
  <1> QED
    BY <1>1, <1>3, <1>4, <1>5, <1>6 DEF ForgettingNext

\* For every list of references, however long and however its derivations run, what a
\* tombstone or a purge reports is the contract's memories and exactly what derives
\* from them.
THEOREM ForgettingIsExact == ForgettingSpec => []ForgetsExactlyWhatDerives
  <1>1. ForgettingInv => ForgetsExactlyWhatDerives
    BY DEF ForgettingInv
  <1> QED
    BY <1>1, InitInvariant, StepPreserves, PTL DEF ForgettingSpec
=============================================================================
