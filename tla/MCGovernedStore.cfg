\* Two contracts, two memories and two calls in flight.
CONSTANTS
    c1 = c1
    c2 = c2
    m1 = m1
    m2 = m2
    k1 = k1
    k2 = k2
    alice = alice
    work = work
    stream = stream
    NoTime = NoTime
    NoContract = NoContract
    NoMemory = NoMemory
    NoCall = NoCall
    Unset = Unset
    ContractIds <- MCContractIds
    Users <- MCUsers
    Domains <- MCDomains
    Contexts <- MCContexts
    Tools <- MCTools
    Drafts <- MCDrafts
    ChangeSets <- MCChangeSets
    MemoryIds <- MCMemoryIds
    Calls <- TwoCalls
    Requests <- MCRequests
    MaxTime = 0
    MaxTrail = 5
SYMMETRY Symmetry
SPECIFICATION GovernedSpec
INVARIANTS
    StoreIsGoverned
    NoCrossContractRecall
PROPERTIES
    DiscoveryRespectsProhibition
