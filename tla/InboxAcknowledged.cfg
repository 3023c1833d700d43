SPECIFICATION Spec
CONSTANTS
    admin = admin
    agent = agent
    contact = contact
    stranger = stranger
    Users <- MCUsers
    Role <- MCRole
    Today = 2
    Before <- MCBefore
    FirstId = 11
    Scenarios <- MCInbox
    Names <- MCNames
    Lower <- MCLower
    Addresses <- MCAddresses
    Threads <- MCThreads
    Mail <- MCMail
    Resources <- MCResources
    Tokens <- MCTokens
    Days <- MCDays
    Window <- MCWindow
PROPERTY AcknowledgedIsStored
CHECK_DEADLOCK FALSE
