\* Three contracts, so that one, its amendment and the amendment of either meet.
CONSTANTS
    c1 = c1
    c2 = c2
    c3 = c3
    alice = alice
    work = work
    NoTime = NoTime
    NoContract = NoContract
    ContractIds <- MCContractIds
    Users <- MCUsers
    Domains <- MCDomains
    Contexts <- MCContexts
    Tools <- MCTools
    Drafts <- MCDrafts
    ChangeSets <- MCChangeSets
    MaxTime = 2
    MaxTrail = 5
SYMMETRY Symmetry
SPECIFICATION Spec
INVARIANTS
    TrailTracksStore
    EveryActivationReviewed
    NothingAfterTheEnd
    AmendmentsAreAccountedFor
PROPERTIES
    NoUnloggedTransition
    DiagramSpec
