\* Two contracts; a listener may call the manager once more. No symmetry: liveness.
CONSTANTS
    c1 = c1
    c2 = c2
    alice = alice
    work = work
    t1 = t1
    t2 = t2
    NoTime = NoTime
    NoContract = NoContract
    NoInterval = NoInterval
    ContractIds <- MCContractIds
    Users <- MCUsers
    Domains <- MCDomains
    Contexts <- MCContexts
    Tools <- MCTools
    Drafts <- MCDrafts
    ChangeSets <- MCChangeSets
    Intervals <- MCIntervals
    MaxTime = 1
    MaxTrail = 5
    MaxDepth = 2
SPECIFICATION ExpirySpec
INVARIANTS
    CountsAreRight
PROPERTIES
    ExpiredWhenDue
    DueContractsExpire
