SPECIFICATION Spec
CONSTANTS
    admin = admin
    agent = agent
    contact = contact
    stranger = stranger
    Users <- MCUsers
    Role <- MCRole
    Today = 2
    Before <- MCBefore
    FirstId = 11
    Scenarios <- MCScenarios
    Names <- MCNames
    Lower <- MCLower
    Addresses <- MCAddresses
    Threads <- MCThreads
    Mail <- MCMail
    Resources <- MCResources
    Tokens <- MCTokens
    Days <- MCDays
    Window <- MCWindow
INVARIANTS
    ReferencesHold
    AnswersStayScoped
    BilledIffDrafted
    RebilledOnlyByARace
    OpenAlertsAreTicketed
    NoSessionWithoutConsent
    
    FirstResponseIsReal
PROPERTIES
    OnlyOverlapUndoes
    MailIsKept
CHECK_DEADLOCK FALSE
