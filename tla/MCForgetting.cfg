\* Every way in which four memories may derive from one another.
CONSTANTS
    c1 = c1
    c2 = c2
    alice = alice
    bob = bob
    None = None
    MemoryIds <- MCMemoryIds
    ContractIds <- MCContractIds
    Users <- MCUsers
    Contracts <- MCContracts
    MemoryLists <- MCMemoryLists
    Confirmations <- MCConfirmations
    TokenValidity = 5
SPECIFICATION FairSpec
INVARIANT
    ForgetsExactlyWhatDerives
PROPERTY
    CallsEnd
