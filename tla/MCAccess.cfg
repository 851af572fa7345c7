\* Two contracts, so that one amends the other or both count against one bucket; two
\* users who own, share and transfer and one whose id the manager refuses.
CONSTANTS
    c1 = c1
    c2 = c2
    alice = alice
    bob = bob
    mail = mail
    work = work
    NoTime = NoTime
    NoContract = NoContract
    NoBucket = NoBucket
    ContractIds <- MCContractIds
    Users <- MCUsers
    Domains <- MCDomains
    Contexts <- MCContexts
    Tools <- MCTools
    Drafts <- MCDrafts
    ChangeSets <- MCChangeSets
    WellFormedIds <- MCWellFormedIds
    Expirations <- MCExpirations
    RateLimits <- MCRateLimits
    MaxTime = 2
    MaxTrail = 5
SYMMETRY Symmetry
SPECIFICATION AccessSpec
INVARIANTS
    OwnedByOne
    RateRespected
PROPERTIES
    AccessComesFromOwner
    CleanupChangesNoAccess
