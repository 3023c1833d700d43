SPECIFICATION Spec
CONSTANTS
    agent = agent
    client = client
    system = system
    noOne = noOne
    low = low
    high = high
    keep = keep
    j1 = j1
    j2 = j2
    Users <- MCUsers
    Staff <- MCStaff
    Creator = client
    System = system
    NoOne = noOne
    Priorities <- MCPriorities
    InitialPriority = low
    Keep = keep
    Rules <- MCRules
    Jobs <- MCJobs
    MaxChanges = 2
    MaxWork = 3
    Lag = 2
SYMMETRY JobSymmetry
INVARIANTS
    EditsAreListedLast
    ResolutionStands
PROPERTY DecidedOnThisRow
