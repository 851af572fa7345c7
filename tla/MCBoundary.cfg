\* Two contracts, four modes, loops nested two deep, one read under way.
CONSTANTS
    c1 = c1
    c2 = c2
    ContractIds <- MCContractIds
    MinMode <- MCMinMode
    Targets <- MCTargets
    MaxDepth = 2
    MaxReads = 1
SPECIFICATION BoundarySpec
INVARIANTS
    LockdownHolds
    NobodyRunsBelow
    UpgradeResumes
