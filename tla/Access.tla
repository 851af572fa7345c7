-------------------------------- MODULE Access --------------------------------
(***************************************************************************)
(* Who may create contracts, and who may use them: the token bucket in     *)
(* front of LearningContractsSystem.createContract, and PermissionManager, *)
(* which createContract tells who owns the new contract.                   *)
(*                                                                         *)
(* The manager keeps an array of entries per contract; no operation        *)
(* depends on its order as long as a user has one entry (OwnedByOne), so   *)
(* it is a set here.  granted_at is left out.                              *)
(***************************************************************************)
EXTENDS Lifecycle, FiniteSets

CONSTANTS
    WellFormedIds, \* the users whose id validateId accepts
    Expirations,   \* the expires_at callers pass to grantPermission
    RateLimits,    \* the merged configurations callers install
    NoBucket       \* a user the limiter has not seen

PermissionLevel == {"owner", "delegate", "reader"}
Operation == {"read", "use", "modify", "share"}

RateLimitConfig == [enabled : BOOLEAN, maxContractsPerWindow : Nat, windowMs : Nat]
DEFAULT_RATE_LIMIT == [enabled |-> FALSE, maxContractsPerWindow |-> 100, windowMs |-> 60000]

ContractPermission ==
    [user_id : Users, level : PermissionLevel, granted_by : Users, expires_at : Time]

Bucket == [tokens : Nat, lastRefill : Nat]

ASSUME AccessAssumption ==
    /\ WellFormedIds \subseteq Users
    /\ Expirations \subseteq Time
    /\ RateLimits \subseteq RateLimitConfig
    /\ NoBucket \notin Bucket

VARIABLES
    permissions,   \* contract id -> entries
    buckets,       \* user -> bucket or NoBucket
    rateLimit      \* the limiter's configuration

accessVars == <<contracts, trail, now, permissions, buckets, rateLimit>>

AccessTypeOK ==
    /\ TypeOK
    /\ permissions \in [ContractIds -> SUBSET ContractPermission]
    /\ buckets \in [Users -> Bucket \cup {NoBucket}]
    /\ rateLimit \in RateLimitConfig

AccessInit ==
    /\ Init
    /\ permissions = [c \in ContractIds |-> {}]
    /\ buckets = [u \in Users |-> NoBucket]
    /\ rateLimit = DEFAULT_RATE_LIMIT
-----------------------------------------------------------------------------
(***************************************************************************)
(* The rate limiter.                                                       *)
(***************************************************************************)
\* Mutant of Refilled: the refill forgets to restart the window.
RefilledInPlace(u) ==
    IF buckets[u] = NoBucket
    THEN [tokens |-> rateLimit.maxContractsPerWindow, lastRefill |-> now]
    ELSE IF now - buckets[u].lastRefill >= rateLimit.windowMs
         THEN [buckets[u] EXCEPT !.tokens = rateLimit.maxContractsPerWindow]
         ELSE buckets[u]

\* The bucket of u as tryConsume finds it: new, or full again after a window.
Refilled(u) ==
    IF buckets[u] = NoBucket \/ now - buckets[u].lastRefill >= rateLimit.windowMs
    THEN [tokens |-> rateLimit.maxContractsPerWindow, lastRefill |-> now]
    ELSE buckets[u]

Allowed(u) == rateLimit.enabled => Refilled(u).tokens > 0

TryConsume(u) ==
    buckets' = IF rateLimit.enabled
               THEN [buckets EXCEPT ![u] =
                       [Refilled(u) EXCEPT !.tokens = IF @ > 0 THEN @ - 1 ELSE @]]
               ELSE buckets

\* configureRateLimit installs a new limiter, with no buckets.
ConfigureRateLimit(config) ==
    /\ rateLimit' = config
    /\ buckets' = [u \in Users |-> NoBucket]
    /\ UNCHANGED <<contracts, trail, now, permissions>>
-----------------------------------------------------------------------------
(***************************************************************************)
(* Creation.                                                               *)
(***************************************************************************)
Entry(user, level, by, until) ==
    [user_id |-> user, level |-> level, granted_by |-> by, expires_at |-> until]

SetOwner(c, u) ==
    permissions' = [permissions EXCEPT ![c] =
       {p \in @ : p.level # "owner"} \cup {Entry(u, "owner", u, NoTime)}]

\* The whole of createContract.  When the limiter and the validator accept, the
\* contract is logged and saved before setOwner looks at the creator's id: with an id
\* it refuses, createContract throws and leaves a contract behind that nobody owns.
Create(c, u, d) ==
    /\ Allowed(u)
    /\ TryConsume(u)
    /\ CreateContract(c, u, d)
    /\ IF u \in WellFormedIds THEN SetOwner(c, u) ELSE UNCHANGED permissions
    /\ UNCHANGED rateLimit

\* createContract throws, on an empty bucket or, its token gone, on an invalid draft.
CreateThrows(u, d) ==
    /\ Allowed(u) => ~Validate(NewContract(d, u, now, NoContract))
    /\ TryConsume(u)
    /\ UNCHANGED <<contracts, trail, now, permissions, rateLimit>>
-----------------------------------------------------------------------------
(***************************************************************************)
(* Permissions.                                                            *)
(***************************************************************************)
\* Mutant of Unexpired: the comparison the wrong way round.
NotYet(p) == p.expires_at # NoTime => p.expires_at <= now

Unexpired(p) == p.expires_at # NoTime => p.expires_at >= now

\* getUserPermissionLevel(c, u) = level.
HasLevel(c, u, level) ==
    \E p \in permissions[c] : p.user_id = u /\ p.level = level /\ Unexpired(p)

\* The levels that suffice for an operation: getRequiredLevel, isLevelSufficient.
Sufficient(op) ==
    CASE op = "read" -> {"reader", "delegate", "owner"}
      [] op = "use" -> {"delegate", "owner"}
      [] op \in {"modify", "share"} -> {"owner"}

CheckOperation(c, u, op) == \E level \in Sufficient(op) : HasLevel(c, u, level)

\* Neither the contract's existence nor its state is looked at.
GrantPermission(c, granter, u, level, until) ==
    /\ {granter, u} \subseteq WellFormedIds
    /\ HasLevel(c, granter, "owner")
    /\ level # "owner" /\ u # granter
    /\ permissions' = [permissions EXCEPT ![c] =
          {p \in @ : p.user_id # u \/ p.level = "owner"} \cup {Entry(u, level, granter, until)}]
    /\ UNCHANGED <<contracts, trail, now, buckets, rateLimit>>

\* An entry may be revoked after it expired.
RevokePermission(c, revoker, u) ==
    /\ {revoker, u} \subseteq WellFormedIds
    /\ HasLevel(c, revoker, "owner")
    /\ u # revoker
    /\ \E p \in permissions[c] : p.user_id = u
    /\ permissions' = [permissions EXCEPT ![c] = {p \in @ : p.user_id # u}]
    /\ UNCHANGED <<contracts, trail, now, buckets, rateLimit>>

\* Mutant of TransferOwnership: the new owner keeps the entry it had.
TransferAdding(c, owner, u) ==
    /\ {owner, u} \subseteq WellFormedIds
    /\ HasLevel(c, owner, "owner")
    /\ u # owner
    /\ permissions' = [permissions EXCEPT ![c] =
          {p \in @ : p.user_id # owner} \cup {Entry(u, "owner", owner, NoTime)}]
    /\ UNCHANGED <<contracts, trail, now, buckets, rateLimit>>

TransferOwnership(c, owner, u) ==
    /\ {owner, u} \subseteq WellFormedIds
    /\ HasLevel(c, owner, "owner")
    /\ u # owner
    /\ permissions' = [permissions EXCEPT ![c] =
          {p \in @ : p.user_id \notin {owner, u}} \cup {Entry(u, "owner", owner, NoTime)}]
    /\ UNCHANGED <<contracts, trail, now, buckets, rateLimit>>

\* Public, for a contract that was deleted; no code of the system calls it.
RemoveContractPermissions(c) ==
    /\ permissions' = [permissions EXCEPT ![c] = {}]
    /\ UNCHANGED <<contracts, trail, now, buckets, rateLimit>>

\* Mutant of Kept: an entry that expires now is gone already.
KeptStrictly(c) == {p \in permissions[c] : p.expires_at # NoTime => p.expires_at > now}

Kept(c) == {p \in permissions[c] : p.expires_at # NoTime => p.expires_at >= now}

CleanupExpired ==
    /\ permissions' = [c \in ContractIds |-> Kept(c)]
    /\ UNCHANGED <<contracts, trail, now, buckets, rateLimit>>

PermissionStep ==
    \/ \E c \in ContractIds, by, u \in Users :
          \/ \E level \in PermissionLevel, until \in Expirations :
                GrantPermission(c, by, u, level, until)
          \/ RevokePermission(c, by, u)
          \/ TransferOwnership(c, by, u)
    \/ \E c \in ContractIds : RemoveContractPermissions(c)
    \/ CleanupExpired

\* The other operations of the system, and the clock.  An amendment takes no token
\* and gives the new draft no owner.
OtherStep == (ContractStep \/ Tick) /\ UNCHANGED <<permissions, buckets, rateLimit>>

AccessNext ==
    \/ \E c \in ContractIds, u \in Users, d \in Drafts : Create(c, u, d)
    \/ \E u \in Users, d \in Drafts : CreateThrows(u, d)
    \/ \E config \in RateLimits : ConfigureRateLimit(config)
    \/ PermissionStep
    \/ OtherStep

AccessSpec == AccessInit /\ [][AccessNext]_accessVars
-----------------------------------------------------------------------------
OwnersOf(c) == {p \in permissions[c] : p.level = "owner"}

\* Whatever sequence of grants, revocations, transfers and cleanups: a contract with
\* entries has one owner, whose entry never expires, no user has two entries, and
\* there are no entries for a contract that was never created.
OwnedByOne ==
    \A c \in ContractIds :
       /\ permissions[c] # {} =>
             /\ Exists(c)
             /\ \E p \in OwnersOf(c) : OwnersOf(c) = {p} /\ p.expires_at = NoTime
       /\ \A p, q \in permissions[c] : p.user_id = q.user_id => p = q

\* Access comes from the owner alone: a user may do something with a contract that
\* was refused before only by creating it, or by a new entry of whoever owned it then;
\* neither the passing of time nor a cleanup gives access.
AccessComesFromOwner ==
    [][\A c \in ContractIds : \A u \in {p.user_id : p \in permissions'[c]}, op \in Operation :
          CheckOperation(c, u, op)' /\ ~CheckOperation(c, u, op) =>
             \E p \in permissions'[c] \ permissions[c] :
                /\ p.user_id = u
                /\ IF Exists(c) THEN HasLevel(c, p.granted_by, "owner")
                                ELSE contracts'[c].created_by = u]_accessVars

\* When cleanupExpired runs makes no difference to what anyone may do: the sweep and
\* the check agree on the instant an entry expires.
CleanupChangesNoAccess ==
    [][CleanupExpired =>
          \A c \in ContractIds : \A u \in {p.user_id : p \in permissions[c]}, op \in Operation :
             CheckOperation(c, u, op)' = CheckOperation(c, u, op)]_accessVars

\* While the limiter is on, a user's contracts saved since the bucket was last full
\* and its tokens left do not exceed the window's allowance.  (Those saved in the very
\* tick of the refill may belong to the window before, and are not counted;
\* amendments take no token.)
RateRespected ==
    \A u \in Users : rateLimit.enabled /\ buckets[u] # NoBucket =>
       LET since == {c \in ContractIds : /\ Exists(c)
                                         /\ contracts[c].created_by = u
                                         /\ contracts[c].amended_from = NoContract
                                         /\ contracts[c].created_at > buckets[u].lastRefill}
       IN Cardinality(since) + buckets[u].tokens <= rateLimit.maxContractsPerWindow
-----------------------------------------------------------------------------
(***************************************************************************)
(* What the documents say, and the code does not keep.                     *)
(***************************************************************************)

\* docs/internal/specs.md, Permission Sharing: "Create a contract (creator becomes
\* owner)".  No contract enters the store without its creator owning it.
CreatorBecomesOwner ==
    [][\A c \in ContractIds : ~Exists(c) /\ Exists(c)' =>
          HasLevel(c, contracts[c].created_by, "owner")']_accessVars
=============================================================================
