SPECIFICATION Spec
CONSTANTS
    t1 = t1
    t2 = t2
    alice = alice
    bob = bob
    p1 = p1
    p2 = p2
    r1 = r1
    r2 = r2
    Tabs <- TwoTabs
    People <- TwoPeople
    Payloads <- TwoPayloads
    Requests <- TwoRequests
    NoOne = NoOne
    Nothing = Nothing
    Scenarios <- MCScenarios
SYMMETRY Symmetry
INVARIANTS
    OneTicketPerKey
    AnswersMatch
    NoDraftLost
