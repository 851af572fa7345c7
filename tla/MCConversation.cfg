\* One conversation, one contract at a time.
CONSTANTS
    alice = alice
    work = work
    home = home
    stream = stream
    talk = talk
    NoTime = NoTime
    NoContract = NoContract
    NoConversation = NoConversation
    Unset = Unset
    ContractIds <- MCContractIds
    Users <- MCUsers
    Domains <- MCDomains
    Contexts <- MCContexts
    Tools <- MCTools
    ConversationIds <- MCConversationIds
    TemplateDomain = work
    TemplateContext = stream
    DefaultRetention = 2
    Days <- MCDays
    Texts <- MCTexts
    Drafts <- MCDrafts
    Scopes <- MCScopes
    Options <- MCOptions
    Requests <- MCRequests
    MaxAge = 0
    MaxTime = 1
SPECIFICATION Spec
INVARIANTS
    ConfirmedAsShown
    ReviewNamesDomains
    ConfirmedIsAccepted
    TypesBindHooks
