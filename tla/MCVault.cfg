\* One contract, which may be revoked or expire, two memories, three operations under way.
CONSTANTS
    c1 = c1
    m1 = m1
    m2 = m2
    k1 = k1
    k2 = k2
    k3 = k3
    alice = alice
    work = work
    home = home
    NoTime = NoTime
    NoContract = NoContract
    NoMemory = NoMemory
    NoCall = NoCall
    Unset = Unset
    ContractIds <- MCContractIds
    Users <- MCUsers
    Domains <- MCDomains
    Contexts <- MCContexts
    Tools <- MCTools
    Drafts <- MCDrafts
    ChangeSets <- MCChangeSets
    MemoryIds <- MCMemoryIds
    Calls <- MCCalls
    VaultModes <- MCVaultModes
    Requests <- MCRequests
    MaxTime = 1
    MaxTrail = 5
SYMMETRY Symmetry
SPECIFICATION VaultSpec
INVARIANTS
    WriteGate
    SweptIsForgotten
PROPERTIES
    RecallsHonourContract
