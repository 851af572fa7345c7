----------------------------- MODULE System_proofs -----------------------------
(***************************************************************************)
(* Proofs about what LearningContractsSystem puts between its callers and  *)
(* the contracts: who may create and use them (Access), and what may be    *)
(* remembered under them (GovernedStore); for any sets of contracts,       *)
(* users, drafts, memories and calls in flight, any expirations, rate      *)
(* limits and requests.                                                    *)
(*                                                                         *)
(* Every step is a lifecycle step or leaves the lifecycle alone, so what   *)
(* Lifecycle_proofs shows holds here too.  OwnedByOne is a condition on    *)
(* the entries of one contract (GoodEntries), which each operation of the  *)
(* permission manager keeps; it is inductive next to the types.  That a    *)
(* memory is within its contract's terms is a condition on one memory and  *)
(* what no operation changes of a contract (Within): the hook establishes  *)
(* it when the call is sent, and nothing takes it back.                    *)
(***************************************************************************)
EXTENDS Access, GovernedStore, Lifecycle_proofs, FiniteSetTheorems

-----------------------------------------------------------------------------
(***************************************************************************)
(* The lifecycle under it.                                                 *)
(***************************************************************************)
\* Seen from the store, the log and the clock, a step is a step of the lifecycle.
LEMMA LifecycleUnderneath ==
    ASSUME [AccessNext]_accessVars
    PROVE  [Next]_lifecycleVars
<1>1. ASSUME NEW c \in ContractIds, NEW u \in Users, NEW d \in Drafts, Create(c, u, d)
      PROVE  Next
  BY <1>1 DEF Create, Next, LifecycleStep
<1>2. ASSUME NEW u \in Users, NEW d \in Drafts, CreateThrows(u, d)
      PROVE  UNCHANGED lifecycleVars
  BY <1>2 DEF CreateThrows, lifecycleVars
<1>3. ASSUME NEW config \in RateLimits, ConfigureRateLimit(config)
      PROVE  UNCHANGED lifecycleVars
  BY <1>3 DEF ConfigureRateLimit, lifecycleVars
<1>4. CASE PermissionStep
  BY <1>4 DEF PermissionStep, GrantPermission, RevokePermission, TransferOwnership,
              RemoveContractPermissions, CleanupExpired, lifecycleVars
<1>5. CASE OtherStep
  BY <1>5 DEF OtherStep, Next, LifecycleStep
<1>6. CASE UNCHANGED accessVars
  BY <1>6 DEF accessVars, lifecycleVars
<1> QED BY <1>1, <1>2, <1>3, <1>4, <1>5, <1>6 DEF AccessNext

\* Rate limiter and permissions add nothing to what the lifecycle may do: what is
\* proved of Lifecycle!Spec holds of the system with them.
THEOREM KeepsLifecycle == AccessSpec => Spec
<1>1. AccessInit => Init
  BY DEF AccessInit
<1>2. [AccessNext]_accessVars => [Next]_lifecycleVars
  BY LifecycleUnderneath
<1> QED BY <1>1, <1>2, PTL DEF AccessSpec, Spec
-----------------------------------------------------------------------------
(***************************************************************************)
(* Types.                                                                  *)
(***************************************************************************)
\* tryConsume leaves a bucket, never with fewer tokens than none.
LEMMA ConsumeType ==
    ASSUME AccessTypeOK, NEW u \in Users, TryConsume(u)
    PROVE  buckets' \in [Users -> Bucket \cup {NoBucket}]
<1>1. Refilled(u) \in Bucket
  BY DEF AccessTypeOK, TypeOK, Refilled, Bucket, RateLimitConfig
<1>2. [Refilled(u) EXCEPT !.tokens = IF @ > 0 THEN @ - 1 ELSE @] \in Bucket
  BY <1>1 DEF Bucket
<1> QED BY <1>2 DEF TryConsume, AccessTypeOK

\* The entries the operations write are well-typed.
LEMMA EntryType ==
    ASSUME NEW u \in Users, NEW level \in PermissionLevel, NEW by \in Users, NEW until \in Time
    PROVE  /\ Entry(u, level, by, until) \in ContractPermission
           /\ Entry(u, level, by, until).user_id = u
           /\ Entry(u, level, by, until).level = level
           /\ Entry(u, level, by, until).expires_at = until
BY DEF Entry, ContractPermission

\* One step keeps the types.
LEMMA AccessTypeStep ==
    ASSUME AccessTypeOK, [AccessNext]_accessVars
    PROVE  AccessTypeOK'
<1> DEFINE PermOK == permissions' \in [ContractIds -> SUBSET ContractPermission]
           BuckOK == buckets' \in [Users -> Bucket \cup {NoBucket}]
           RateOK == rateLimit' \in RateLimitConfig
<1>0. TypeOK'
  BY LifecycleUnderneath, StepLemma DEF AccessTypeOK
<1>1. ASSUME NEW c \in ContractIds, NEW u \in Users, NEW d \in Drafts, Create(c, u, d)
      PROVE  PermOK /\ BuckOK /\ RateOK
  <2>1. BuckOK
    BY <1>1, ConsumeType DEF Create
  <2>2. Entry(u, "owner", u, NoTime) \in ContractPermission
    BY EntryType DEF PermissionLevel, Time
  <2>3. PermOK
    BY <1>1, <2>2 DEF Create, SetOwner, AccessTypeOK
  <2> QED BY <1>1, <2>1, <2>3 DEF Create, AccessTypeOK
<1>2. ASSUME NEW u \in Users, NEW d \in Drafts, CreateThrows(u, d)
      PROVE  PermOK /\ BuckOK /\ RateOK
  BY <1>2, ConsumeType DEF CreateThrows, AccessTypeOK
<1>3. ASSUME NEW config \in RateLimits, ConfigureRateLimit(config)
      PROVE  PermOK /\ BuckOK /\ RateOK
  BY <1>3, AccessAssumption DEF ConfigureRateLimit, AccessTypeOK
<1>4. ASSUME NEW c \in ContractIds, NEW by \in Users, NEW u \in Users,
             NEW level \in PermissionLevel, NEW until \in Expirations,
             GrantPermission(c, by, u, level, until)
      PROVE  PermOK /\ BuckOK /\ RateOK
  <2>1. Entry(u, level, by, until) \in ContractPermission
    BY EntryType, AccessAssumption
  <2> QED BY <1>4, <2>1 DEF GrantPermission, AccessTypeOK
<1>5. ASSUME NEW c \in ContractIds, NEW by \in Users, NEW u \in Users,
             RevokePermission(c, by, u)
      PROVE  PermOK /\ BuckOK /\ RateOK
  BY <1>5 DEF RevokePermission, AccessTypeOK
<1>6. ASSUME NEW c \in ContractIds, NEW by \in Users, NEW u \in Users,
             TransferOwnership(c, by, u)
      PROVE  PermOK /\ BuckOK /\ RateOK
  <2>1. Entry(u, "owner", by, NoTime) \in ContractPermission
    BY EntryType DEF PermissionLevel, Time
  <2> QED BY <1>6, <2>1 DEF TransferOwnership, AccessTypeOK
<1>7. ASSUME NEW c \in ContractIds, RemoveContractPermissions(c)
      PROVE  PermOK /\ BuckOK /\ RateOK
  BY <1>7 DEF RemoveContractPermissions, AccessTypeOK
<1>8. ASSUME CleanupExpired PROVE PermOK /\ BuckOK /\ RateOK
  <2>1. \A c \in ContractIds : Kept(c) \in SUBSET ContractPermission
    BY DEF Kept, AccessTypeOK
  <2>2. PermOK
    BY <1>8, <2>1 DEF CleanupExpired
  <2> QED BY <1>8, <2>2 DEF CleanupExpired, AccessTypeOK
<1>9. ASSUME UNCHANGED <<permissions, buckets, rateLimit>>
      PROVE  PermOK /\ BuckOK /\ RateOK
  BY <1>9 DEF AccessTypeOK
<1> HIDE DEF PermOK, BuckOK, RateOK
<1>10. OtherStep \/ UNCHANGED accessVars => UNCHANGED <<permissions, buckets, rateLimit>>
  BY DEF OtherStep, accessVars
<1>11. PermOK /\ BuckOK /\ RateOK
  BY <1>10, <1>1, <1>2, <1>3, <1>4, <1>5, <1>6, <1>7, <1>8, <1>9 DEF AccessNext, PermissionStep
<1> QED BY <1>0, <1>11 DEF AccessTypeOK, PermOK, BuckOK, RateOK

\* The variables always have their types: no bucket goes below zero tokens.
THEOREM AccessTypeCorrect == AccessSpec => []AccessTypeOK
<1>1. AccessInit => AccessTypeOK
  <2>1. Init => TypeOK
    BY DEF Init, TypeOK
  <2> QED BY <2>1 DEF AccessInit, AccessTypeOK, DEFAULT_RATE_LIMIT, RateLimitConfig
<1>2. AccessTypeOK /\ [AccessNext]_accessVars => AccessTypeOK'
  BY AccessTypeStep
<1> QED BY <1>1, <1>2, PTL DEF AccessSpec
-----------------------------------------------------------------------------
(***************************************************************************)
(* The entries P of one contract: none, or one owner for good and one      *)
(* entry per user.                                                         *)
(***************************************************************************)
IsOwner(P, p) == /\ p \in P /\ p.level = "owner" /\ p.expires_at = NoTime
                 /\ \A q \in P : q.level = "owner" => q = p

GoodEntries(P) ==
    /\ P # {} => \E p \in P : IsOwner(P, p)
    /\ \A p, q \in P : p.user_id = q.user_id => p = q

\* A grant by the owner to another user replaces that user's entry.
LEMMA GrantKeeps ==
    ASSUME NEW P, GoodEntries(P), NEW e, NEW by,
           \E p \in P : p.user_id = by /\ p.level = "owner",
           e.level # "owner", e.user_id # by
    PROVE  GoodEntries({p \in P : p.user_id # e.user_id \/ p.level = "owner"} \cup {e})
<1> DEFINE Q == {p \in P : p.user_id # e.user_id \/ p.level = "owner"} \cup {e}
<1>1. PICK o \in P : IsOwner(P, o)
  BY DEF GoodEntries
<1>2. o.user_id = by
  BY <1>1 DEF IsOwner
<1>3. IsOwner(Q, o)
  BY <1>1 DEF IsOwner
<1>4. \A p \in Q : p # e => p \in P /\ p.user_id # e.user_id
  BY <1>1, <1>2 DEF IsOwner
<1>5. \A p, q \in Q : p.user_id = q.user_id => p = q
  BY <1>4 DEF GoodEntries
<1>6. o \in Q
  BY <1>3 DEF IsOwner
<1> HIDE DEF Q
<1>7. GoodEntries(Q)
  BY <1>3, <1>5, <1>6 DEF GoodEntries
<1> QED BY <1>7 DEF Q

\* Removing entries but the owner's, by revocation or cleanup.
LEMMA RemovalKeeps ==
    ASSUME NEW P, GoodEntries(P), NEW Q \in SUBSET P,
           \A p \in P : p.level = "owner" /\ p.expires_at = NoTime => p \in Q
    PROVE  GoodEntries(Q)
<1>1. CASE P = {}
  BY <1>1 DEF GoodEntries
<1>2. CASE P # {}
  <2>1. PICK o \in P : IsOwner(P, o)
    BY <1>2 DEF GoodEntries
  <2>2. IsOwner(Q, o)
    BY <2>1 DEF IsOwner
  <2> QED BY <2>2 DEF GoodEntries, IsOwner
<1> QED BY <1>1, <1>2

\* A transfer by the owner: the new owner's entry takes the place of both.
LEMMA TransferKeeps ==
    ASSUME NEW P, GoodEntries(P), NEW e, NEW by,
           \E p \in P : p.user_id = by /\ p.level = "owner",
           e.level = "owner", e.expires_at = NoTime
    PROVE  GoodEntries({p \in P : p.user_id \notin {by, e.user_id}} \cup {e})
<1> DEFINE Q == {p \in P : p.user_id \notin {by, e.user_id}} \cup {e}
<1>1. \A p \in P : p.level = "owner" => p.user_id = by
  BY DEF GoodEntries, IsOwner
<1>2. IsOwner(Q, e)
  BY <1>1 DEF IsOwner
<1>3. \A p, q \in Q : p.user_id = q.user_id => p = q
  BY DEF GoodEntries
<1> QED BY <1>2, <1>3 DEF GoodEntries

\* The entries of each contract are good, and those of no contract are none.
OwnersInv ==
    \A c \in ContractIds :
       /\ GoodEntries(permissions[c])
       /\ permissions[c] # {} => Exists(c)
-----------------------------------------------------------------------------
\* A contract in the store stays there.
LEMMA ContractsStay ==
    ASSUME AccessTypeOK, [AccessNext]_accessVars, NEW c \in ContractIds, Exists(c)
    PROVE  Exists(c)'
<1>1. TypeOK /\ PointStep(c)
  BY LifecycleUnderneath, StepLemma DEF AccessTypeOK
<1>2. StateOf(c) # "none"
  BY <1>1, StoredType
<1>3. StateOf(c)' # "none"
  BY <1>1, <1>2 DEF PointStep, Stays, Moves, ContractState
<1> QED BY <1>3 DEF StateOf

\* One step keeps the invariant of the owners.
LEMMA OwnersStep ==
    ASSUME AccessTypeOK, OwnersInv, [AccessNext]_accessVars
    PROVE  OwnersInv'
<1> DEFINE Good == \A x \in ContractIds :
                      /\ GoodEntries(permissions'[x])
                      /\ permissions'[x] # {} => permissions[x] # {} \/ Exists(x)'
<1>0. permissions \in [ContractIds -> SUBSET ContractPermission]
  BY DEF AccessTypeOK
<1>1. ASSUME UNCHANGED permissions PROVE Good
  BY <1>1 DEF OwnersInv
<1>2. ASSUME NEW c \in ContractIds, NEW u \in Users, NEW d \in Drafts, Create(c, u, d)
      PROVE  Good
  <2>1. CASE u \notin WellFormedIds
    BY <1>1, <1>2, <2>1 DEF Create
  <2>2. CASE u \in WellFormedIds
    <3> DEFINE e == Entry(u, "owner", u, NoTime)
    <3>1. e.level = "owner" /\ e.expires_at = NoTime
      BY DEF Entry
    <3>2. permissions[c] = {}
      BY <1>2 DEF Create, CreateContract, OwnersInv
    <3>3. permissions' = [permissions EXCEPT ![c] = {e}]
      <4>1. {p \in permissions[c] : p.level # "owner"} \cup {e} = {e}
        BY <3>2
      <4> QED BY <1>0, <1>2, <2>2, <4>1 DEF Create, SetOwner
    <3>4. GoodEntries({e})
      BY <3>1 DEF GoodEntries, IsOwner
    <3>5. Exists(c)'
      <4>1. CreateContract(c, u, d) /\ TypeOK
        BY <1>2 DEF Create, AccessTypeOK
      <4>2. NewContract(d, u, now, NoContract) # NoContract
        BY <4>1, NewContractType, DraftsAssumption, NoContractAssumption DEF TypeOK
      <4> QED BY <4>1, <4>2 DEF CreateContract, TypeOK, Exists
    <3> HIDE DEF e
    <3>6. permissions'[c] = {e} /\ \A x \in ContractIds \ {c} : permissions'[x] = permissions[x]
      BY <1>0, <3>3
    <3> QED BY <3>4, <3>5, <3>6 DEF OwnersInv
  <2> QED BY <2>1, <2>2
<1>3. ASSUME NEW c \in ContractIds, NEW by \in Users, NEW u \in Users,
             NEW level \in PermissionLevel, NEW until \in Expirations,
             GrantPermission(c, by, u, level, until)
      PROVE  Good
  <2> DEFINE e == Entry(u, level, by, until)
             Q == {p \in permissions[c] : p.user_id # u \/ p.level = "owner"} \cup {e}
  <2>1. e.user_id = u /\ e.level = level
    BY DEF Entry
  <2>2. /\ \E p \in permissions[c] : p.user_id = by /\ p.level = "owner"
        /\ level # "owner" /\ u # by
    BY <1>3 DEF GrantPermission, HasLevel
  <2>3. permissions'[c] = Q /\ \A x \in ContractIds \ {c} : permissions'[x] = permissions[x]
    BY <1>0, <1>3 DEF GrantPermission
  <2>4. GoodEntries(permissions[c]) /\ permissions[c] # {}
    BY <2>2 DEF OwnersInv
  <2>5. GoodEntries(Q)
    <3> HIDE DEF e
    <3> QED BY <2>1, <2>2, <2>4, GrantKeeps
  <2> QED BY <2>3, <2>4, <2>5 DEF OwnersInv
<1>4. ASSUME NEW c \in ContractIds, NEW by \in Users, NEW u \in Users,
             RevokePermission(c, by, u)
      PROVE  Good
  <2> DEFINE Q == {p \in permissions[c] : p.user_id # u}
  <2>1. (\E p \in permissions[c] : p.user_id = by /\ p.level = "owner") /\ u # by
    BY <1>4 DEF RevokePermission, HasLevel
  <2>2. permissions'[c] = Q /\ \A x \in ContractIds \ {c} : permissions'[x] = permissions[x]
    BY <1>0, <1>4 DEF RevokePermission
  <2>3. GoodEntries(permissions[c]) /\ permissions[c] # {}
    BY <2>1 DEF OwnersInv
  <2>4. \A p \in permissions[c] : p.level = "owner" => p.user_id = by
    BY <2>1, <2>3 DEF GoodEntries, IsOwner
  <2>5. GoodEntries(Q)
    BY <2>1, <2>3, <2>4, RemovalKeeps
  <2> QED BY <2>2, <2>3, <2>5 DEF OwnersInv
<1>5. ASSUME NEW c \in ContractIds, NEW by \in Users, NEW u \in Users,
             TransferOwnership(c, by, u)
      PROVE  Good
  <2> DEFINE e == Entry(u, "owner", by, NoTime)
             Q == {p \in permissions[c] : p.user_id \notin {by, u}} \cup {e}
  <2>1. e.user_id = u /\ e.level = "owner" /\ e.expires_at = NoTime
    BY DEF Entry
  <2>2. \E p \in permissions[c] : p.user_id = by /\ p.level = "owner"
    BY <1>5 DEF TransferOwnership, HasLevel
  <2>3. permissions'[c] = Q /\ \A x \in ContractIds \ {c} : permissions'[x] = permissions[x]
    BY <1>0, <1>5 DEF TransferOwnership
  <2>4. GoodEntries(permissions[c]) /\ permissions[c] # {}
    BY <2>2 DEF OwnersInv
  <2>5. GoodEntries(Q)
    <3> HIDE DEF e
    <3>1. GoodEntries({p \in permissions[c] : p.user_id \notin {by, e.user_id}} \cup {e})
      BY <2>1, <2>2, <2>4, TransferKeeps
    <3> QED BY <2>1, <3>1
  <2> QED BY <2>3, <2>4, <2>5 DEF OwnersInv
<1>6. ASSUME NEW c \in ContractIds, RemoveContractPermissions(c)
      PROVE  Good
  BY <1>0, <1>6 DEF RemoveContractPermissions, OwnersInv, GoodEntries
<1>7. ASSUME CleanupExpired PROVE Good
  <2>1. \A x \in ContractIds : permissions'[x] = Kept(x)
    BY <1>7 DEF CleanupExpired
  <2>2. \A x \in ContractIds : GoodEntries(Kept(x)) /\ Kept(x) \in SUBSET permissions[x]
    BY RemovalKeeps DEF Kept, OwnersInv
  <2> SUFFICES ASSUME NEW x \in ContractIds
               PROVE  /\ GoodEntries(permissions'[x])
                      /\ permissions'[x] # {} => permissions[x] # {} \/ Exists(x)'
    OBVIOUS
  <2>3. permissions'[x] \in SUBSET permissions[x]
    BY <2>1, <2>2
  <2> QED BY <2>1, <2>2, <2>3
<1> HIDE DEF Good
<1>8. \/ \E u \in Users, d \in Drafts : CreateThrows(u, d)
      \/ \E config \in RateLimits : ConfigureRateLimit(config)
      \/ OtherStep
      \/ UNCHANGED accessVars
      => UNCHANGED permissions
  BY DEF CreateThrows, ConfigureRateLimit, OtherStep, accessVars
<1>9. Good
  BY <1>1, <1>2, <1>3, <1>4, <1>5, <1>6, <1>7, <1>8 DEF AccessNext, PermissionStep
<1> SUFFICES ASSUME NEW x \in ContractIds
             PROVE  GoodEntries(permissions'[x]) /\ (permissions'[x] # {} => Exists(x)')
  BY DEF OwnersInv, GoodEntries, IsOwner
<1>10. permissions[x] # {} => Exists(x)'
  BY ContractsStay DEF OwnersInv
<1> QED BY <1>9, <1>10 DEF Good

LEMMA OwnersInvariant == AccessSpec => []OwnersInv
<1>1. AccessInit => OwnersInv
  BY DEF AccessInit, OwnersInv, GoodEntries
<1>2. AccessTypeOK /\ OwnersInv /\ [AccessNext]_accessVars => OwnersInv'
  BY OwnersStep
<1> QED BY <1>1, <1>2, AccessTypeCorrect, PTL DEF AccessSpec

\* No sequence of operations leaves a contract with two owners, with entries but no
\* owner, or a user with two entries.
THEOREM OneOwner == AccessSpec => []OwnedByOne
<1>1. OwnersInv => OwnedByOne
  <2> SUFFICES ASSUME OwnersInv, NEW c \in ContractIds
               PROVE  /\ permissions[c] # {} =>
                            /\ Exists(c)
                            /\ \E p \in OwnersOf(c) : OwnersOf(c) = {p} /\ p.expires_at = NoTime
                      /\ \A p, q \in permissions[c] : p.user_id = q.user_id => p = q
    BY DEF OwnedByOne
  <2>1. GoodEntries(permissions[c]) /\ (permissions[c] # {} => Exists(c))
    BY DEF OwnersInv
  <2>2. ASSUME permissions[c] # {}
        PROVE  \E p \in OwnersOf(c) : OwnersOf(c) = {p} /\ p.expires_at = NoTime
    <3>1. PICK o \in permissions[c] : IsOwner(permissions[c], o)
      BY <2>1, <2>2 DEF GoodEntries
    <3>2. o \in OwnersOf(c) /\ OwnersOf(c) = {o} /\ o.expires_at = NoTime
      BY <3>1 DEF OwnersOf, IsOwner
    <3> QED BY <3>2
  <2> QED BY <2>1, <2>2 DEF GoodEntries
<1> QED BY <1>1, OwnersInvariant, PTL

\* What Lifecycle_proofs shows of the audit trail, shown of the system with its rate
\* limiter and its permissions.
COROLLARY AccessKeepsTrail == AccessSpec => [](TrailTracksStore /\ NothingAfterTheEnd)
BY KeepsLifecycle, AuditTracksStore, EndedContractsStayEnded, PTL
-----------------------------------------------------------------------------
(***************************************************************************)
(* Who gains access, and how.                                              *)
(***************************************************************************)

\* The sweep keeps exactly the entries that the check still counts.
LEMMA KeptIsUnexpired ==
    ASSUME NEW c \in ContractIds
    PROVE  Kept(c) = {p \in permissions[c] : Unexpired(p)}
BY DEF Kept, Unexpired

\* permissions/manager.ts cleanupExpired: the sweep takes no access away, and gives none.
THEOREM CleanupIsInvisible == AccessSpec => CleanupChangesNoAccess
<1>1. ASSUME CleanupExpired, NEW c \in ContractIds, NEW u, NEW op
      PROVE  CheckOperation(c, u, op)' = CheckOperation(c, u, op)
  <2>1. permissions'[c] = {p \in permissions[c] : Unexpired(p)} /\ now' = now
    BY <1>1, KeptIsUnexpired DEF CleanupExpired
  <2>2. ASSUME NEW level PROVE HasLevel(c, u, level)' <=> HasLevel(c, u, level)
    BY <2>1 DEF HasLevel, Unexpired
  <2> QED BY <2>2 DEF CheckOperation
<1>2. [AccessNext]_accessVars =>
         [CleanupExpired =>
            \A c \in ContractIds : \A u \in {p.user_id : p \in permissions[c]}, op \in Operation :
               CheckOperation(c, u, op)' = CheckOperation(c, u, op)]_accessVars
  BY <1>1
<1> QED BY <1>2, PTL DEF AccessSpec, CleanupChangesNoAccess

\* An entry of contract c that a step adds: the creator's own, or one written by the
\* owner of that moment.
FromOwner(c, p) ==
    IF Exists(c) THEN HasLevel(c, p.granted_by, "owner")
                 ELSE contracts'[c].created_by = p.user_id

LEMMA NewEntries ==
    ASSUME AccessTypeOK, OwnersInv, [AccessNext]_accessVars, NEW x \in ContractIds,
           NEW p \in permissions'[x], p \notin permissions[x]
    PROVE  FromOwner(x, p)
<1>0. permissions \in [ContractIds -> SUBSET ContractPermission]
  BY DEF AccessTypeOK
<1>1. ASSUME NEW c \in ContractIds, NEW u \in Users, NEW d \in Drafts, Create(c, u, d)
      PROVE  FromOwner(x, p)
  <2>1. /\ ~Exists(c) /\ contracts' = [contracts EXCEPT ![c] = NewContract(d, u, now, NoContract)]
        /\ SetOwner(c, u) \/ UNCHANGED permissions
    BY <1>1 DEF Create, CreateContract
  <2>2. x = c /\ p = Entry(u, "owner", u, NoTime)
    BY <1>0, <2>1 DEF SetOwner
  <2>3. contracts'[c].created_by = u /\ p.user_id = u
    BY <2>1, <2>2 DEF AccessTypeOK, TypeOK, NewContract, Entry
  <2> QED BY <2>1, <2>2, <2>3 DEF FromOwner
<1>2. ASSUME NEW c \in ContractIds, NEW by \in Users, NEW u \in Users,
             NEW level \in PermissionLevel, NEW until \in Expirations,
             GrantPermission(c, by, u, level, until)
      PROVE  FromOwner(x, p)
  <2>1. x = c /\ p = Entry(u, level, by, until)
    BY <1>0, <1>2 DEF GrantPermission
  <2>2. HasLevel(c, by, "owner") /\ Exists(c)
    BY <1>2 DEF GrantPermission, HasLevel, OwnersInv
  <2> QED BY <2>1, <2>2 DEF FromOwner, Entry
<1>3. ASSUME NEW c \in ContractIds, NEW by \in Users, NEW u \in Users,
             TransferOwnership(c, by, u)
      PROVE  FromOwner(x, p)
  <2>1. x = c /\ p = Entry(u, "owner", by, NoTime)
    BY <1>0, <1>3 DEF TransferOwnership
  <2>2. HasLevel(c, by, "owner") /\ Exists(c)
    BY <1>3 DEF TransferOwnership, HasLevel, OwnersInv
  <2> QED BY <2>1, <2>2 DEF FromOwner, Entry
<1>4. ASSUME permissions'[x] \subseteq permissions[x] PROVE FromOwner(x, p)
  BY <1>4
<1>5. ASSUME NEW c \in ContractIds, NEW by \in Users, NEW u \in Users,
             RevokePermission(c, by, u)
      PROVE  permissions'[x] \subseteq permissions[x]
  BY <1>0, <1>5 DEF RevokePermission
<1>6. ASSUME NEW c \in ContractIds, RemoveContractPermissions(c)
      PROVE  permissions'[x] \subseteq permissions[x]
  BY <1>0, <1>6 DEF RemoveContractPermissions
<1>7. CleanupExpired => permissions'[x] \subseteq permissions[x]
  BY DEF CleanupExpired, Kept
<1>8. \/ \E u \in Users, d \in Drafts : CreateThrows(u, d)
      \/ \E config \in RateLimits : ConfigureRateLimit(config)
      \/ OtherStep
      \/ UNCHANGED accessVars
      => permissions'[x] \subseteq permissions[x]
  BY DEF CreateThrows, ConfigureRateLimit, OtherStep, accessVars
<1> QED BY <1>1, <1>2, <1>3, <1>4, <1>5, <1>6, <1>7, <1>8 DEF AccessNext, PermissionStep

\* permissions/manager.ts: a user who may do something that was refused before got a
\* new entry from the owner, or created the contract; time alone gives nothing.
THEOREM AccessFromOwner == AccessSpec => AccessComesFromOwner
<1> DEFINE A == \A c \in ContractIds :
          \A u \in {p.user_id : p \in permissions'[c]}, op \in Operation :
             CheckOperation(c, u, op)' /\ ~CheckOperation(c, u, op) =>
                \E p \in permissions'[c] \ permissions[c] :
                   /\ p.user_id = u
                   /\ IF Exists(c) THEN HasLevel(c, p.granted_by, "owner")
                                   ELSE contracts'[c].created_by = u
<1>1. ASSUME AccessTypeOK, OwnersInv, [AccessNext]_accessVars PROVE A
  <2> SUFFICES ASSUME NEW c \in ContractIds, NEW u, NEW op,
                      CheckOperation(c, u, op)', ~CheckOperation(c, u, op)
               PROVE  \E p \in permissions'[c] \ permissions[c] :
                         p.user_id = u /\ FromOwner(c, p)
    BY DEF FromOwner
  <2>1. PICK level \in Sufficient(op), p \in permissions'[c] :
           p.user_id = u /\ p.level = level /\ Unexpired(p)'
    BY DEF CheckOperation, HasLevel
  <2>2. p \notin permissions[c]
    <3> SUFFICES ASSUME p \in permissions[c] PROVE FALSE
      OBVIOUS
    <3>1. p.expires_at \in Time /\ now \in Nat /\ now' \in Nat /\ now' >= now
      <4>1. p \in ContractPermission
        BY <1>1 DEF AccessTypeOK
      <4>2. now' \in Nat /\ now' >= now
        BY <1>1, LifecycleUnderneath, ClockMoves DEF AccessTypeOK
      <4> QED BY <1>1, <4>1, <4>2 DEF ContractPermission, AccessTypeOK, TypeOK
    <3>2. Unexpired(p)
      BY <2>1, <3>1 DEF Unexpired, Time
    <3> QED BY <2>1, <3>2 DEF CheckOperation, HasLevel
  <2>3. FromOwner(c, p)
    BY <1>1, <2>2, NewEntries
  <2> QED BY <2>1, <2>2, <2>3
<1>2. AccessTypeOK /\ OwnersInv /\ [AccessNext]_accessVars => [A]_accessVars
  BY <1>1
<1> QED BY <1>2, AccessTypeCorrect, OwnersInvariant, PTL DEF AccessSpec, AccessComesFromOwner
-----------------------------------------------------------------------------
(***************************************************************************)
(* The rate limiter.  The contracts counted against a bucket are finitely  *)
(* many although the ids and the store need not be: that is part of what   *)
(* is inductive, next to no contract being younger than the clock, which   *)
(* makes a full bucket start from none.                                    *)
(***************************************************************************)

\* Contract x counts against a window of u that began at t.
Counts(x, u, t) ==
    /\ Exists(x)
    /\ contracts[x].created_by = u
    /\ contracts[x].amended_from = NoContract
    /\ contracts[x].created_at > t

Counted(u, t) == {x \in ContractIds : Counts(x, u, t)}

WithinAllowance(u) ==
    LET since == Counted(u, buckets[u].lastRefill) IN
    /\ IsFiniteSet(since)
    /\ Cardinality(since) + buckets[u].tokens <= rateLimit.maxContractsPerWindow

RateInv == \A u \in Users : rateLimit.enabled /\ buckets[u] # NoBucket => WithinAllowance(u)

\* No contract is younger than the clock: a window that begins now has none yet.
LEMMA NoneCountedYet ==
    ASSUME TypeOK, CreatedInPast, NEW u, NEW t, t = now
    PROVE  Counted(u, t) = {} /\ IsFiniteSet(Counted(u, t)) /\ Cardinality(Counted(u, t)) = 0
<1>1. \A x \in ContractIds : Exists(x) => ~(contracts[x].created_at > now)
  BY StoredType DEF TypeOK, CreatedInPast, LearningContract
<1>2. Counted(u, t) = {}
  BY <1>1 DEF Counted, Counts
<1> QED BY <1>2, FS_EmptySet

\* Only createContract adds to what counts: an amendment names its original.
LEMMA OthersCountNothing ==
    ASSUME TypeOK, ContractStep \/ Tick \/ UNCHANGED contracts, NEW u, NEW t
    PROVE  Counted(u, t)' = Counted(u, t)
<1>1. \A x \in ContractIds : StoreStep(x)
  <2>1. CASE UNCHANGED contracts
    BY <2>1 DEF StoreStep
  <2>2. CASE ContractStep \/ Tick
    BY <2>2, StoreLemma DEF Next, LifecycleStep
  <2> QED BY <2>1, <2>2
<1>2. ASSUME NEW x \in ContractIds, ~Exists(x), Exists(x)'
      PROVE  contracts'[x].amended_from # NoContract
  <2>1. ASSUME NEW c \in ContractIds, NEW s, SaveState(c, s), Exists(c)
        PROVE  FALSE
    BY <1>2, <2>1 DEF SaveState, TypeOK, Exists
  <2>2. ASSUME NEW c \in ContractIds, NEW new \in ContractIds, NEW user \in Users,
               NEW d \in Drafts, NEW fields \in ChangeSets,
               AmendContract(c, new, user, d, fields)
        PROVE  contracts'[x].amended_from # NoContract
    <3> DEFINE draft == Replacement(c, user, d, fields)
    <3>1. draft.amended_from = c
      BY DEF Replacement, NewContract
    <3>2. contracts' = [contracts EXCEPT ![c].state = "amended", ![new] = draft] /\ Exists(c)
      BY <2>2 DEF AmendContract
    <3> HIDE DEF draft
    <3>3. x = new /\ contracts'[x] = draft
      BY <1>2, <3>2 DEF TypeOK, Exists
    <3> QED BY <3>1, <3>3, NoContractAssumption
  <2>3. ASSUME NEW S \in SUBSET ContractIds, ExpireEach(S), \A c \in S : Exists(c) PROVE FALSE
    BY <1>2, <2>3 DEF ExpireEach, Exists
  <2>4. ~ExpireOldContracts
    <3>1. ExpiredContracts \in SUBSET ContractIds /\ \A c \in ExpiredContracts : Exists(c)
      BY DEF ExpiredContracts, InState
    <3> QED BY <2>3, <3>1 DEF ExpireOldContracts
  <2>5. ~UNCHANGED contracts
    BY <1>2 DEF Exists
  <2> QED BY <2>1, <2>2, <2>4, <2>5
          DEF ContractStep, Tick, SubmitForReview, ActivateContract, RevokeContract,
              AmendContractThrows
<1>3. ASSUME NEW x \in ContractIds PROVE Counts(x, u, t)' <=> Counts(x, u, t)
  <2>1. CASE Exists(x)
    BY <1>1, <2>1, TermsStay DEF Counts
  <2>2. CASE ~Exists(x)
    BY <1>2, <2>2 DEF Counts
  <2> QED BY <2>1, <2>2
<1> QED BY <1>3 DEF Counted

\* createContract adds the one contract it saves, for its creator alone.
LEMMA CreationCountsOne ==
    ASSUME TypeOK, NEW c \in ContractIds, NEW user \in Users, NEW d \in Drafts,
           CreateContract(c, user, d), NEW u, NEW t
    PROVE  /\ c \notin Counted(u, t)
           /\ Counted(u, t)' = Counted(u, t) \/ (u = user /\ Counted(u, t)' = Counted(u, t) \cup {c})
<1> DEFINE new == NewContract(d, user, now, NoContract)
<1>1. new.created_by = user /\ new # NoContract
  <2>1. new \in LearningContract
    BY NewContractType, DraftsAssumption DEF TypeOK
  <2> QED BY <2>1, NoContractAssumption DEF NewContract
<1>2. contracts' = [contracts EXCEPT ![c] = new] /\ ~Exists(c)
  BY DEF CreateContract
<1> HIDE DEF new
<1>3. \A x \in ContractIds \ {c} : Counts(x, u, t)' <=> Counts(x, u, t)
  BY <1>2 DEF TypeOK, Counts, Exists
<1>4. Counts(c, u, t)' => u = user
  BY <1>1, <1>2 DEF TypeOK, Counts
<1>5. ~Counts(c, u, t)
  BY <1>2 DEF Counts
<1> QED BY <1>3, <1>4, <1>5 DEF Counted

\* A user's bucket after one token was taken, or the last was missed, of a bucket that
\* was within the allowance or is full again.
LEMMA Refills ==
    ASSUME AccessTypeOK, CreatedInPast, RateInv, rateLimit.enabled, NEW u \in Users
    PROVE  LET b == Refilled(u)
               since == Counted(u, b.lastRefill)
           IN /\ b \in Bucket
              /\ IsFiniteSet(since) /\ Cardinality(since) \in Nat
              /\ Cardinality(since) + b.tokens <= rateLimit.maxContractsPerWindow
              /\ b.lastRefill = now => since = {}
<1> DEFINE b == Refilled(u)
           since == Counted(u, b.lastRefill)
<1>0. rateLimit.maxContractsPerWindow \in Nat /\ now \in Nat /\ TypeOK
  BY DEF AccessTypeOK, TypeOK, RateLimitConfig
<1>1. CASE b = [tokens |-> rateLimit.maxContractsPerWindow, lastRefill |-> now]
  <2>1. b.lastRefill = now /\ b.tokens = rateLimit.maxContractsPerWindow /\ b \in Bucket
    BY <1>0, <1>1 DEF Bucket
  <2> HIDE DEF b
  <2>2. since = {} /\ IsFiniteSet(since) /\ Cardinality(since) = 0
    BY <1>0, <2>1, NoneCountedYet
  <2> QED BY <1>0, <2>1, <2>2 DEF b
<1>2. CASE b = buckets[u] /\ buckets[u] # NoBucket
  <2>1. b \in Bucket
    BY <1>2 DEF AccessTypeOK
  <2>2. IsFiniteSet(since) /\ Cardinality(since) + b.tokens <= rateLimit.maxContractsPerWindow
    BY <1>2 DEF RateInv, WithinAllowance
  <2>3. b.lastRefill = now => since = {}
    <3> HIDE DEF b
    <3> QED BY <1>0, NoneCountedYet
  <2>4. Cardinality(since) \in Nat
    BY <2>2, FS_CardinalityType
  <2> HIDE DEF b, since
  <2> QED BY <2>1, <2>2, <2>3, <2>4 DEF b, since
<1>3. b = [tokens |-> rateLimit.maxContractsPerWindow, lastRefill |-> now]
      \/ (b = buckets[u] /\ buckets[u] # NoBucket)
  BY DEF Refilled
<1> QED BY <1>1, <1>2, <1>3

\* What tryConsume leaves in the bucket of u, and in the others.
LEMMA Consumed ==
    ASSUME AccessTypeOK, NEW u \in Users, TryConsume(u), rateLimit.enabled
    PROVE  /\ buckets'[u].lastRefill = Refilled(u).lastRefill
           /\ buckets'[u].tokens =
                 IF Refilled(u).tokens > 0 THEN Refilled(u).tokens - 1 ELSE Refilled(u).tokens
           /\ \A v \in Users \ {u} : buckets'[v] = buckets[v]
<1> DEFINE b == Refilled(u)
<1>1. b \in Bucket
  BY DEF AccessTypeOK, TypeOK, Refilled, Bucket, RateLimitConfig
<1>2. buckets' = [buckets EXCEPT ![u] = [b EXCEPT !.tokens = IF @ > 0 THEN @ - 1 ELSE @]]
  BY DEF TryConsume
<1> HIDE DEF b
<1>3. buckets'[u] = [b EXCEPT !.tokens = IF @ > 0 THEN @ - 1 ELSE @]
  BY <1>2 DEF AccessTypeOK
<1>4. /\ buckets'[u].lastRefill = b.lastRefill
      /\ buckets'[u].tokens = IF b.tokens > 0 THEN b.tokens - 1 ELSE b.tokens
  BY <1>1, <1>3 DEF Bucket
<1>5. \A v \in Users \ {u} : buckets'[v] = buckets[v]
  BY <1>2 DEF AccessTypeOK
<1> QED BY <1>4, <1>5 DEF b

LEMMA RateStep ==
    ASSUME AccessTypeOK, CreatedInPast, RateInv, [AccessNext]_accessVars
    PROVE  RateInv'
<1> SUFFICES ASSUME NEW v \in Users, rateLimit'.enabled, buckets'[v] # NoBucket,
                    NEW t, t = buckets'[v].lastRefill,
                    NEW k, k = buckets'[v].tokens
             PROVE  /\ IsFiniteSet(Counted(v, t)')
                    /\ Cardinality(Counted(v, t)') + k <= rateLimit'.maxContractsPerWindow
  BY DEF RateInv, WithinAllowance, Counted, Counts, Exists
<1> DEFINE Good == /\ IsFiniteSet(Counted(v, t)')
                   /\ Cardinality(Counted(v, t)') + k <= rateLimit'.maxContractsPerWindow
<1>0. TypeOK /\ rateLimit.maxContractsPerWindow \in Nat
  BY DEF AccessTypeOK, RateLimitConfig
<1>1. ASSUME rateLimit' = rateLimit, buckets'[v] = buckets[v], Counted(v, t)' = Counted(v, t)
      PROVE  Good
  <2>1. WithinAllowance(v)
    BY <1>1 DEF RateInv
  <2> QED BY <1>1, <2>1 DEF WithinAllowance
<1>2. ASSUME NEW u \in Users, TryConsume(u), rateLimit.enabled, rateLimit' = rateLimit, v = u
      PROVE  LET b == Refilled(u) IN
             /\ t = b.lastRefill /\ k = IF b.tokens > 0 THEN b.tokens - 1 ELSE b.tokens
             /\ b.tokens \in Nat
             /\ IsFiniteSet(Counted(v, t)) /\ Cardinality(Counted(v, t)) \in Nat
             /\ Cardinality(Counted(v, t)) + b.tokens <= rateLimit'.maxContractsPerWindow
  <2>1. Refilled(u) \in Bucket => Refilled(u).tokens \in Nat
    BY DEF Bucket
  <2> QED BY <1>2, <2>1, Consumed, Refills
<1>3. ASSUME NEW c \in ContractIds, NEW u \in Users, NEW d \in Drafts, Create(c, u, d)
      PROVE  Good
  <2>0. /\ CreateContract(c, u, d) /\ TryConsume(u) /\ rateLimit' = rateLimit
        /\ rateLimit.enabled => Refilled(u).tokens > 0
    BY <1>3 DEF Create, Allowed
  <2>1. /\ c \notin Counted(v, t)
        /\ \/ Counted(v, t)' = Counted(v, t)
           \/ v = u /\ Counted(v, t)' = Counted(v, t) \cup {c}
    BY <1>0, <2>0, CreationCountsOne
  <2>2. CASE v # u
    BY <1>1, <2>0, <2>1, <2>2, Consumed
  <2>3. CASE v = u
    <3> DEFINE S == Counted(v, t)
               b == Refilled(u)
    <3>1. /\ b.tokens \in Nat /\ b.tokens > 0 /\ k = b.tokens - 1
          /\ IsFiniteSet(S) /\ Cardinality(S) \in Nat
          /\ Cardinality(S) + b.tokens <= rateLimit'.maxContractsPerWindow
      BY <1>2, <2>0, <2>3
    <3>2. /\ IsFiniteSet(S \cup {c}) /\ Cardinality(S \cup {c}) = Cardinality(S) + 1
      BY <2>1, <3>1, FS_AddElement
    <3>3. Counted(v, t)' = S \/ Counted(v, t)' = S \cup {c}
      BY <2>1
    <3>4. rateLimit'.maxContractsPerWindow \in Nat
      BY <1>0, <2>0
    <3> HIDE DEF S, b
    <3>5. CASE Counted(v, t)' = S
      BY <3>1, <3>4, <3>5
    <3>6. CASE Counted(v, t)' = S \cup {c}
      BY <3>1, <3>2, <3>4, <3>6
    <3> QED BY <3>3, <3>5, <3>6
  <2> QED BY <2>2, <2>3
<1>4. ASSUME NEW u \in Users, NEW d \in Drafts, CreateThrows(u, d)
      PROVE  Good
  <2>0. TryConsume(u) /\ rateLimit' = rateLimit /\ UNCHANGED contracts
    BY <1>4 DEF CreateThrows
  <2>1. Counted(v, t)' = Counted(v, t)
    BY <1>0, <2>0, OthersCountNothing
  <2>2. CASE v # u
    BY <1>1, <2>0, <2>1, <2>2, Consumed
  <2>3. CASE v = u
    <3> DEFINE S == Counted(v, t)
               b == Refilled(u)
    <3>1. /\ b.tokens \in Nat /\ k = IF b.tokens > 0 THEN b.tokens - 1 ELSE b.tokens
          /\ IsFiniteSet(S) /\ Cardinality(S) \in Nat
          /\ Cardinality(S) + b.tokens <= rateLimit'.maxContractsPerWindow
      BY <1>2, <2>0, <2>3
    <3>2. Counted(v, t)' = S /\ rateLimit'.maxContractsPerWindow \in Nat
      BY <1>0, <2>0, <2>1
    <3> HIDE DEF S, b
    <3> QED BY <3>1, <3>2
  <2> QED BY <2>2, <2>3
<1>5. ~ \E config \in RateLimits : ConfigureRateLimit(config)
  BY DEF ConfigureRateLimit
<1>6. ASSUME PermissionStep \/ OtherStep \/ UNCHANGED accessVars PROVE Good
  <2>1. /\ rateLimit' = rateLimit /\ buckets' = buckets
        /\ ContractStep \/ Tick \/ UNCHANGED contracts
    BY <1>6 DEF PermissionStep, GrantPermission, RevokePermission, TransferOwnership,
                RemoveContractPermissions, CleanupExpired, OtherStep, accessVars
  <2>2. Counted(v, t)' = Counted(v, t)
    BY <1>0, <2>1, OthersCountNothing
  <2> QED BY <1>1, <2>1, <2>2
<1> HIDE DEF Good
<1>7. Good
  BY <1>3, <1>4, <1>5, <1>6 DEF AccessNext
<1> QED BY <1>7 DEF Good

\* rate-limiter.ts: while the limiter is on, no sequence of creations, failures, refills
\* and new configurations lets a user save more contracts in a window than it allows.
THEOREM WithinRate == AccessSpec => []RateRespected
<1>1. AccessInit => RateInv
  BY DEF AccessInit, RateInv
<1>2. AccessTypeOK /\ CreatedInPast /\ RateInv /\ [AccessNext]_accessVars => RateInv'
  BY RateStep
<1>3. RateInv => RateRespected
  BY DEF RateInv, WithinAllowance, Counted, Counts, RateRespected
<1> QED BY <1>1, <1>2, <1>3, AccessTypeCorrect, KeepsLifecycle, PastInvariant, PTL DEF AccessSpec
-----------------------------------------------------------------------------
(***************************************************************************)
(* The governed store: types.                                              *)
(***************************************************************************)
StoreTypes ==
    /\ TypeOK
    /\ memories \in [MemoryIds -> Memory \cup {NoMemory}]
    /\ calls \in [Calls -> Call \cup {NoCall}]
    /\ \A k \in Calls : InFlight(k) /\ calls[k].kind = "recall" => calls[k].query \in Requests
    /\ delivered = NoDelivery \/ (delivered \in Delivery /\ delivered.query \in Requests)
    /\ override \in BOOLEAN

\* What the backing store is asked to do, by kind.
LEMMA CallsByKind ==
    ASSUME StoreTypes, NEW k \in Calls, InFlight(k)
    PROVE  /\ calls[k].kind \in {"store", "recall", "list", "forget"}
           /\ calls[k].kind = "store" =>
                 /\ calls[k].memory_id \in MemoryIds /\ calls[k].memory \in Memory
                 /\ calls[k].discovered \in BOOLEAN
           /\ calls[k].kind = "recall" =>
                 calls[k].contract_id \in ContractIds /\ calls[k].query \in Requests
           /\ calls[k].kind = "list" => calls[k].contract_id \in ContractIds
           /\ calls[k].kind = "forget" => calls[k].memory_ids \in SUBSET MemoryIds
BY DEF StoreTypes, InFlight, Call

\* The memory and the call of a store.
MemoryOf(c, r) ==
    [contract_id |-> c, classification |-> r.classification, domain |-> r.domain,
     context |-> r.context, tool |-> r.tool]
StoreCall(m, c, r, discovered) ==
    [kind |-> "store", memory_id |-> m, discovered |-> discovered, memory |-> MemoryOf(c, r)]

LEMMA StoreSent ==
    ASSUME NEW m \in MemoryIds, NEW c \in ContractIds, NEW r \in Requests,
           NEW discovered \in BOOLEAN
    PROVE  /\ MemoryOf(c, r) \in Memory
           /\ StoreCall(m, c, r, discovered) \in Call
           /\ StoreCall(m, c, r, discovered).kind = "store"
           /\ StoreCall(m, c, r, discovered).memory = MemoryOf(c, r)
<1>1. MemoryOf(c, r) \in Memory
  BY GovernedAssumption DEF MemoryOf, Memory, Request
<1> QED BY <1>1 DEF StoreCall, Call

\* What a step starts, whichever way a store names its contract.
StoreStarts(k, m, c, r, discovered) ==
    /\ MayCreateMemory(c, r) /\ ~InFlight(k)
    /\ calls' = [calls EXCEPT ![k] = StoreCall(m, c, r, discovered)]
    /\ UNCHANGED <<lifecycleVars, memories, delivered, override>>
    /\ discovered => c \in ApplicableContracts(r)

\* The steps, with the two ways to store taken together.
LEMMA GovernedSteps ==
    ASSUME [GovernedNext]_vars
    PROVE  \/ \E k \in Calls, m \in MemoryIds, c \in ContractIds, r \in Requests,
                 discovered \in BOOLEAN : StoreStarts(k, m, c, r, discovered)
           \/ \E k \in Calls, c \in ContractIds, r \in Requests : Recall(k, c, r)
           \/ \E k \in Calls, c \in ContractIds : ForgetByContract(k, c)
           \/ \E k \in Calls : StoreLands(k) \/ RecallReturns(k) \/ ListReturns(k) \/ ForgetLands(k)
           \/ SwitchOverride
           \/ [Next]_lifecycleVars /\ UNCHANGED storeVars
<1>1. ASSUME NEW k \in Calls, NEW m \in MemoryIds, NEW c \in ContractIds, NEW r \in Requests,
             Store(k, m, c, r)
      PROVE  StoreStarts(k, m, c, r, FALSE)
  BY <1>1 DEF Store, StoreUnder, Send, StoreStarts, StoreCall, MemoryOf
<1>2. ASSUME NEW k \in Calls, NEW m \in MemoryIds, NEW r \in Requests,
             StoreWithDiscovery(k, m, r)
      PROVE  \E c \in ContractIds : StoreStarts(k, m, c, r, TRUE)
  <2>1. PICK c \in ApplicableContracts(r) : StoreUnder(k, m, c, r, TRUE)
    BY <1>2 DEF StoreWithDiscovery
  <2>2. c \in ContractIds
    BY DEF ApplicableContracts
  <2>3. StoreStarts(k, m, c, r, TRUE)
    BY <2>1 DEF StoreUnder, Send, StoreStarts, StoreCall, MemoryOf
  <2> QED BY <2>2, <2>3
<1>3. LifecycleOperation \/ UNCHANGED vars => [Next]_lifecycleVars /\ UNCHANGED storeVars
  BY DEF LifecycleOperation, vars, storeVars, lifecycleVars
<1> QED BY <1>1, <1>2, <1>3 DEF GovernedNext

LEMMA StoreUnderneath ==
    ASSUME [GovernedNext]_vars
    PROVE  [Next]_lifecycleVars
BY GovernedSteps
   DEF StoreStarts, Recall, ForgetByContract, StoreLands, RecallReturns, ListReturns, ForgetLands,
       SwitchOverride

LEMMA StoreTypesStep ==
    ASSUME StoreTypes, [GovernedNext]_vars
    PROVE  StoreTypes'
<1> DEFINE Mem == memories' \in [MemoryIds -> Memory \cup {NoMemory}]
           Cls == /\ calls' \in [Calls -> Call \cup {NoCall}]
                  /\ \A k \in Calls : calls'[k] # NoCall /\ calls'[k].kind = "recall"
                                         => calls'[k].query \in Requests
           Del == delivered' = NoDelivery \/ (delivered' \in Delivery /\ delivered'.query \in Requests)
           Ovr == override' \in BOOLEAN
           Good == Mem /\ Cls /\ Del /\ Ovr
<1>0. TypeOK'
  BY StoreUnderneath, StepLemma DEF StoreTypes
<1>1. ASSUME NEW k \in Calls, NEW call \in Call \cup {NoCall},
             call.kind = "recall" /\ call # NoCall => call.query \in Requests,
             calls' = [calls EXCEPT ![k] = call]
      PROVE  Cls
  BY <1>1 DEF StoreTypes, InFlight
<1>2. ASSUME UNCHANGED storeVars PROVE Good
  BY <1>2 DEF storeVars, StoreTypes, InFlight
<1> HIDE DEF Cls
<1>3. ASSUME NEW k \in Calls, NEW m \in MemoryIds, NEW c \in ContractIds, NEW r \in Requests,
             NEW discovered \in BOOLEAN, StoreStarts(k, m, c, r, discovered)
      PROVE  Good
  <2> DEFINE call == StoreCall(m, c, r, discovered)
  <2>1. call \in Call /\ call.kind = "store"
    BY StoreSent
  <2>2. calls' = [calls EXCEPT ![k] = call] /\ UNCHANGED <<memories, delivered, override>>
    BY <1>3 DEF StoreStarts
  <2> HIDE DEF call
  <2>3. Cls
    BY <1>1, <2>1, <2>2
  <2> QED BY <2>2, <2>3 DEF StoreTypes
<1>4. ASSUME NEW k \in Calls, NEW c \in ContractIds, NEW r \in Requests, Recall(k, c, r)
      PROVE  Good
  <2> DEFINE call == [kind |-> "recall", contract_id |-> c, query |-> r]
  <2>1. call \in Call /\ call.query \in Requests
    BY GovernedAssumption DEF Call
  <2>2. calls' = [calls EXCEPT ![k] = call] /\ UNCHANGED <<memories, delivered, override>>
    BY <1>4 DEF Recall, Send
  <2> HIDE DEF call
  <2>3. Cls
    BY <1>1, <2>1, <2>2
  <2> QED BY <2>2, <2>3 DEF StoreTypes
<1>5. ASSUME NEW k \in Calls, NEW c \in ContractIds, ForgetByContract(k, c) PROVE Good
  <2> DEFINE call == [kind |-> "list", contract_id |-> c]
  <2>1. call \in Call /\ call.kind = "list"
    BY DEF Call
  <2>2. calls' = [calls EXCEPT ![k] = call] /\ UNCHANGED <<memories, delivered, override>>
    BY <1>5 DEF ForgetByContract, Send
  <2> HIDE DEF call
  <2>3. Cls
    BY <1>1, <2>1, <2>2
  <2> QED BY <2>2, <2>3 DEF StoreTypes
<1>6. ASSUME NEW k \in Calls, Done(k) PROVE Cls
  BY <1>1, <1>6 DEF Done
<1>7. ASSUME NEW k \in Calls, StoreLands(k) PROVE Good
  BY <1>6, <1>7, CallsByKind DEF StoreLands, StoreTypes
<1>8. ASSUME NEW k \in Calls, RecallReturns(k) PROVE Good
  <2>1. InFlight(k) /\ calls[k].kind = "recall" /\ Done(k) /\ UNCHANGED <<memories, override>>
    BY <1>8 DEF RecallReturns
  <2>2. /\ calls[k].contract_id \in ContractIds
        /\ calls[k].query \in Requests /\ calls[k].query \in Request
    BY <2>1, CallsByKind, GovernedAssumption
  <2>3. Stored \subseteq Memory
    BY DEF Stored, StoreTypes
  <2>4. \A c, Q : Q \subseteq Memory => OwnMemories(c, Q) \in SUBSET Memory
    BY DEF OwnMemories
  <2>5. PICK found \in SUBSET Memory :
           delivered' = [contract_id |-> calls[k].contract_id, query |-> calls[k].query,
                         found |-> found]
    BY <1>8, <2>3, <2>4 DEF RecallReturns
  <2>6. Del
    BY <2>2, <2>5 DEF Delivery
  <2> QED BY <1>6, <2>1, <2>6 DEF StoreTypes
<1>9. ASSUME NEW k \in Calls, ListReturns(k) PROVE Good
  <2>1. PICK listed \in SUBSET MemoryIds :
           Done(k) \/ calls' = [calls EXCEPT ![k] = [kind |-> "forget", memory_ids |-> listed]]
    BY <1>9 DEF ListReturns
  <2> DEFINE call == [kind |-> "forget", memory_ids |-> listed]
  <2>2. call \in Call /\ call.kind = "forget"
    BY DEF Call
  <2>3. Done(k) \/ calls' = [calls EXCEPT ![k] = call]
    BY <2>1
  <2> HIDE DEF call
  <2>4. Cls
    BY <1>1, <1>6, <2>2, <2>3
  <2> QED BY <1>9, <2>4 DEF ListReturns, StoreTypes
<1>10. ASSUME NEW k \in Calls, ForgetLands(k) PROVE Good
  BY <1>6, <1>10 DEF ForgetLands, StoreTypes
<1>11. ASSUME SwitchOverride PROVE Good
  BY <1>11 DEF SwitchOverride, StoreTypes, Cls, InFlight
<1> HIDE DEF Good
<1>12. Good
  BY <1>2, <1>3, <1>4, <1>5, <1>7, <1>8, <1>9, <1>10, <1>11, GovernedSteps
<1> QED BY <1>0, <1>12 DEF Good, Cls, StoreTypes, InFlight

LEMMA StoreTypesInvariant == GovernedSpec => []StoreTypes
<1>1. Init => TypeOK
  BY DEF Init, TypeOK
<1>2. GovernedInit => StoreTypes
  BY <1>1 DEF GovernedInit, StoreTypes, InFlight
<1>3. StoreTypes /\ [GovernedNext]_vars => StoreTypes'
  BY StoreTypesStep
<1> QED BY <1>2, <1>3, PTL DEF GovernedSpec

\* Neither the governed store nor its backing store touches a contract.
THEOREM StoreKeepsLifecycle == GovernedSpec => Spec
<1>1. GovernedInit => Init
  BY DEF GovernedInit
<1>2. [GovernedNext]_vars => [Next]_lifecycleVars
  BY StoreUnderneath
<1> QED BY <1>1, <1>2, PTL DEF GovernedSpec, Spec
-----------------------------------------------------------------------------
(***************************************************************************)
(* The governed store: what is in it.                                      *)
(***************************************************************************)
Within(memory) ==
    LET c == memory.contract_id IN
    /\ Exists(c) /\ WasLogged(c, "active")
    /\ contracts[c].memory_permissions.may_store
    /\ contracts[c].contract_type \notin {"observation", "prohibited"}
    /\ memory.classification <= contracts[c].memory_permissions.classification_cap
    /\ memory.domain \in contracts[c].scope.domains \/ contracts[c].scope.domains = {}

StoreInv ==
    /\ ActiveInv /\ StoredValid
    /\ \A m \in MemoryIds : memories[m] # NoMemory => Within(memories[m])
    /\ \A k \in Calls : InFlight(k) /\ calls[k].kind = "store" => Within(calls[k].memory)

\* No lifecycle operation takes back what the contract allowed, nor that it was active.
LEMMA WithinStays ==
    ASSUME StoreTypes, [GovernedNext]_vars, NEW memory \in Memory, Within(memory)
    PROVE  Within(memory)'
<1> DEFINE c == memory.contract_id
<1>0. c \in ContractIds /\ Exists(c)
  BY DEF Memory, Within
<1> HIDE DEF c
<1>1. TypeOK /\ PointStep(c) /\ StoreStep(c)
  BY <1>0, StoreUnderneath, StepLemma, StoreLemma DEF StoreTypes
<1>2. WasLogged(c, "active") => WasLogged(c, "active")'
  BY <1>0, <1>1, TrailGrows
<1>3. /\ Exists(c)'
      /\ contracts'[c].contract_type = contracts[c].contract_type
      /\ contracts'[c].memory_permissions = contracts[c].memory_permissions
      /\ contracts'[c].scope = contracts[c].scope
  BY <1>0, <1>1, TermsStay
<1> QED BY <1>2, <1>3 DEF Within, c

\* The hook's decision is what the terms ask for.
LEMMA HookIsWithin ==
    ASSUME StoreTypes, ActiveInv, StoredValid, NEW c \in ContractIds, NEW r \in Requests, MayCreateMemory(c, r)
    PROVE  Within(MemoryOf(c, r))
<1> DEFINE memory == MemoryOf(c, r)
<1>1. /\ memory.contract_id = c /\ memory.classification = r.classification
      /\ memory.domain = r.domain
  BY DEF MemoryOf
<1> HIDE DEF memory
<1>2. InState(c, "active") /\ Exists(c) /\ contracts[c].memory_permissions.may_store
  BY DEF MayCreateMemory, CheckMemoryCreation, IsEnforceable, InState
<1>3. contracts[c].contract_type # "observation"
  BY <1>2 DEF StoredValid, Validate, TypeSpecificRules
<1>4. WasLogged(c, "active")
  BY <1>2 DEF ActiveInv
<1>5. r.domain # Unset
  BY GovernedAssumption
<1> QED BY <1>1, <1>2, <1>3, <1>4, <1>5
        DEF memory, MayCreateMemory, CheckMemoryCreation, CheckScope, Fits, Within

\* The backing store changes a memory only by forgetting it or by landing a store.
LEMMA MemorySteps ==
    ASSUME StoreTypes, [GovernedNext]_vars, NEW m \in MemoryIds
    PROVE  \/ memories'[m] \in {memories[m], NoMemory}
           \/ \E k \in Calls : /\ InFlight(k) /\ calls[k].kind = "store"
                               /\ memories'[m] = calls[k].memory
<1>1. CASE UNCHANGED memories
  BY <1>1
<1>2. ASSUME NEW k \in Calls, StoreLands(k)
      PROVE  \/ memories'[m] \in {memories[m], NoMemory}
             \/ InFlight(k) /\ calls[k].kind = "store" /\ memories'[m] = calls[k].memory
  BY <1>2 DEF StoreLands, StoreTypes
<1>3. ASSUME NEW k \in Calls, ForgetLands(k)
      PROVE  memories'[m] \in {memories[m], NoMemory}
  BY <1>3 DEF ForgetLands
<1> QED BY <1>1, <1>2, <1>3, GovernedSteps
        DEF StoreStarts, Recall, ForgetByContract, RecallReturns, ListReturns, SwitchOverride,
            storeVars

\* A store that is in flight was, or it has just asked the hook.
LEMMA StoreCallSteps ==
    ASSUME StoreTypes, [GovernedNext]_vars, NEW k \in Calls,
           calls'[k] # NoCall, calls'[k].kind = "store"
    PROVE  \/ calls'[k] = calls[k]
           \/ \E m \in MemoryIds, c \in ContractIds, r \in Requests, discovered \in BOOLEAN :
                 StoreStarts(k, m, c, r, discovered)
<1>0. ASSUME NEW i \in Calls, NEW call, calls' = [calls EXCEPT ![i] = call],
             call = NoCall \/ call.kind # "store"
      PROVE  calls'[k] = calls[k]
  BY <1>0 DEF StoreTypes
<1>1. ASSUME NEW i \in Calls, NEW m \in MemoryIds, NEW c \in ContractIds, NEW r \in Requests,
             NEW discovered \in BOOLEAN, StoreStarts(i, m, c, r, discovered), i # k
      PROVE  calls'[k] = calls[k]
  BY <1>1 DEF StoreStarts, StoreTypes
<1>2. ASSUME NEW i \in Calls, NEW c \in ContractIds, NEW r \in Requests, Recall(i, c, r)
      PROVE  calls'[k] = calls[k]
  BY <1>0, <1>2 DEF Recall, Send
<1>3. ASSUME NEW i \in Calls, NEW c \in ContractIds, ForgetByContract(i, c)
      PROVE  calls'[k] = calls[k]
  BY <1>0, <1>3 DEF ForgetByContract, Send
<1>4. ASSUME NEW i \in Calls, StoreLands(i) \/ RecallReturns(i) \/ ListReturns(i) \/ ForgetLands(i)
      PROVE  calls'[k] = calls[k]
  <2>1. \/ calls' = [calls EXCEPT ![i] = NoCall]
        \/ \E listed : calls' = [calls EXCEPT ![i] = [kind |-> "forget", memory_ids |-> listed]]
    BY <1>4 DEF StoreLands, RecallReturns, ListReturns, ForgetLands, Done
  <2> QED BY <1>0, <2>1
<1>5. CASE UNCHANGED calls
  BY <1>5
<1> QED BY <1>1, <1>2, <1>3, <1>4, <1>5, GovernedSteps DEF SwitchOverride, storeVars

LEMMA StoreInvStep ==
    ASSUME StoreTypes, StoreInv, [GovernedNext]_vars
    PROVE  StoreInv'
<1>1. ActiveInv' /\ StoredValid'
  BY StoreUnderneath, StepLemma, StoreLemma, ActiveStep, ValidStep DEF StoreTypes, StoreInv
<1>2. ASSUME NEW m \in MemoryIds, NEW x, x = memories'[m], x # NoMemory
      PROVE  Within(x)'
  <2>1. x \in Memory /\ Within(x)
    BY <1>2, MemorySteps, CallsByKind DEF StoreInv, StoreTypes
  <2> QED BY <2>1, WithinStays
<1>3. ASSUME NEW k \in Calls, calls'[k] # NoCall, calls'[k].kind = "store",
             NEW x, x = calls'[k].memory
      PROVE  Within(x)'
  <2>1. CASE calls'[k] = calls[k]
    <3>1. x \in Memory /\ Within(x)
      BY <1>3, <2>1, CallsByKind DEF StoreInv, InFlight
    <3> QED BY <3>1, WithinStays
  <2>2. ASSUME NEW m \in MemoryIds, NEW c \in ContractIds, NEW r \in Requests,
               NEW discovered \in BOOLEAN, StoreStarts(k, m, c, r, discovered)
        PROVE  Within(x)'
    <3>1. calls'[k] = StoreCall(m, c, r, discovered) /\ MayCreateMemory(c, r)
      BY <2>2 DEF StoreStarts, StoreTypes
    <3>2. x = MemoryOf(c, r) /\ x \in Memory
      BY <1>3, <3>1, StoreSent
    <3>3. Within(x)
      BY <3>1, <3>2, HookIsWithin DEF StoreInv
    <3> QED BY <3>2, <3>3, WithinStays
  <2> QED BY <1>3, <2>1, <2>2, StoreCallSteps
<1>4. StoreInv' =
         (/\ ActiveInv' /\ StoredValid'
          /\ \A m \in MemoryIds : memories'[m] # NoMemory => Within(memories[m])'
          /\ \A k \in Calls : calls'[k] # NoCall /\ calls'[k].kind = "store"
                => Within(calls[k].memory)')
  BY DEF StoreInv, InFlight
<1>5. \A m \in MemoryIds : memories'[m] # NoMemory => Within(memories[m])'
  BY <1>2 DEF Within, Exists, WasLogged
<1>6. \A k \in Calls : calls'[k] # NoCall /\ calls'[k].kind = "store" => Within(calls[k].memory)'
  BY <1>3 DEF Within, Exists, WasLogged
<1> QED BY <1>1, <1>4, <1>5, <1>6

LEMMA StoreInvariant == GovernedSpec => []StoreInv
<1>1. GovernedInit => StoreInv
  BY DEF GovernedInit, Init, StoreInv, ActiveInv, StoredValid, InState, InFlight, Exists
<1>2. StoreTypes /\ StoreInv /\ [GovernedNext]_vars => StoreInv'
  BY StoreInvStep
<1> QED BY <1>1, <1>2, StoreTypesInvariant, PTL DEF GovernedSpec

\* store asks the hook once and the backing store answers later, when the contract may
\* have been revoked, amended or expired: still every memory stored or on its way is one
\* its contract's terms allowed while it was active.
THEOREM StoreGoverned == GovernedSpec => []StoreIsGoverned
<1>1. StoreTypes => GovernedTypeOK
  <2> SUFFICES ASSUME StoreTypes PROVE GovernedTypeOK
    OBVIOUS
  <2>1. ASSUME NEW k \in Calls, calls[k] # NoCall
        PROVE  CASE calls[k].kind = "store" -> /\ calls[k].memory_id \in MemoryIds
                                               /\ calls[k].memory \in Memory
                                               /\ calls[k].discovered \in BOOLEAN
                 [] calls[k].kind = "recall" -> /\ calls[k].contract_id \in ContractIds
                                                /\ calls[k].query \in Requests
                 [] calls[k].kind = "list" -> calls[k].contract_id \in ContractIds
                 [] calls[k].kind = "forget" -> calls[k].memory_ids \subseteq MemoryIds
    BY <2>1, CallsByKind DEF InFlight
  <2>2. delivered = NoDelivery \/ /\ delivered.contract_id \in ContractIds
                                  /\ delivered.query \in Requests
                                  /\ delivered.found \subseteq Memory
    BY DEF StoreTypes, Delivery
  <2> QED BY <2>1, <2>2 DEF StoreTypes, GovernedTypeOK
<1>2. StoreInv => MemoriesWithinTerms
  <2> SUFFICES ASSUME StoreInv, NEW memory \in Stored \cup StoresInFlight PROVE Within(memory)
    BY DEF MemoriesWithinTerms, Within, WasLogged
  <2> QED BY DEF StoreInv, Stored, StoresInFlight
<1>3. StoreTypes /\ StoreInv => StoreIsGoverned
  BY <1>1, <1>2 DEF StoreIsGoverned
<1> QED BY <1>3, StoreTypesInvariant, StoreInvariant, PTL

\* recall filters what the backing store found: whatever calls overlap, the last answer
\* holds only the contract's own memories of the domain that was asked for.
THEOREM RecallsOwnOnly == GovernedSpec => []NoCrossContractRecall
<1>1. GovernedInit => NoCrossContractRecall
  BY DEF GovernedInit, NoDelivery, NoCrossContractRecall
<1>2. ASSUME NoCrossContractRecall, [GovernedNext]_vars PROVE NoCrossContractRecall'
  <2>1. CASE UNCHANGED delivered
    BY <1>2, <2>1 DEF NoCrossContractRecall
  <2>2. ASSUME NEW k \in Calls, RecallReturns(k) PROVE NoCrossContractRecall'
    <3>1. delivered' =
             [contract_id |-> calls[k].contract_id, query |-> calls[k].query,
              found |-> OwnMemories(calls[k].contract_id,
                                    {memory \in Stored : Matches(memory, calls[k].query)})]
      BY <2>2 DEF RecallReturns
    <3> QED BY <3>1 DEF NoCrossContractRecall, OwnMemories, Matches
  <2> QED BY <1>2, <2>1, <2>2, GovernedSteps
          DEF StoreStarts, Recall, ForgetByContract, StoreLands, ListReturns, ForgetLands,
              SwitchOverride, storeVars
<1> QED BY <1>1, <1>2, PTL DEF GovernedSpec

\* findApplicableContract looks for prohibited contracts first: a store by discovery that
\* one of them covers finds only prohibited contracts, and the hook refuses those.
THEOREM DiscoveryRespects == GovernedSpec => DiscoveryRespectsProhibition
<1> DEFINE A == \A k \in Calls : Starts(k, "store") /\ calls'[k].discovered =>
                   ~ \E c \in ContractIds : Prohibits(c, calls'[k].memory)
<1>1. ASSUME StoreTypes, [GovernedNext]_vars PROVE A
  <2> SUFFICES ASSUME NEW k \in Calls, Starts(k, "store"), calls'[k].discovered,
                      NEW p \in ContractIds, Prohibits(p, calls'[k].memory)
               PROVE  FALSE
    OBVIOUS
  <2>1. calls[k] = NoCall /\ calls'[k] # NoCall /\ calls'[k].kind = "store"
    BY DEF Starts, InFlight
  <2>2. PICK m \in MemoryIds, c \in ContractIds, r \in Requests, discovered \in BOOLEAN :
                 StoreStarts(k, m, c, r, discovered)
    BY <1>1, <2>1, StoreCallSteps
  <2>3. calls'[k] = StoreCall(m, c, r, discovered)
    BY <1>1, <2>2 DEF StoreStarts, StoreTypes
  <2>4. c \in ApplicableContracts(r)
    BY <2>2, <2>3 DEF StoreStarts, StoreCall
  <2>5. Prohibits(p, r)
    BY <2>3 DEF StoreCall, MemoryOf, Prohibits
  <2>6. Prohibits(c, r)
    BY <2>4, <2>5 DEF ApplicableContracts
  <2> QED BY <2>2, <2>6 DEF StoreStarts, Prohibits, MayCreateMemory, CheckMemoryCreation
<1>2. StoreTypes /\ [GovernedNext]_vars => [A]_vars
  BY <1>1
<1> QED BY <1>2, StoreTypesInvariant, PTL DEF GovernedSpec, DiscoveryRespectsProhibition
=============================================================================
