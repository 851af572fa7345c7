\* Two contracts, two sessions, two users: a contract shared by two sessions, a
\* session with two contracts, sessions of two users.
CONSTANTS
    c1 = c1
    c2 = c2
    s1 = s1
    s2 = s2
    alice = alice
    bob = bob
    work = work
    NoTime = NoTime
    NoContract = NoContract
    NoSession = NoSession
    ContractIds <- MCContractIds
    Users <- MCUsers
    Domains <- MCDomains
    Contexts <- MCContexts
    Tools <- MCTools
    Drafts <- MCDrafts
    ChangeSets <- MCChangeSets
    SessionIds <- MCSessionIds
    Timeouts <- MCTimeouts
    MaxAges <- MCMaxAges
    MaxTime = 1
    MaxTrail = 5
SYMMETRY Symmetry
SPECIFICATION SessionsSpec
INVARIANTS
    MapsAgree
PROPERTIES
    EndingExpiresItsOwn
    ClosedSessionsStayClosed
