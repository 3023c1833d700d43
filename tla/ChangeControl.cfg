\* One change and one ticket, two requests at once, an agent and a client, two approvals.
SPECIFICATION Spec
CONSTANTS
    agent = agent
    client = client
    c1 = c1
    r1 = r1
    r2 = r2
    NoOne = NoOne
    Users <- MCUsers
    Role <- MCRole
    Changes <- MCChanges
    Requests <- MCRequests
    MaxTickets = 1
    MaxApprovals = 2
SYMMETRY Symmetry
INVARIANTS
    ApprovalGate
    DecidedOnce
    ApprovalIsAskedFor
