\* Two clients with room for one message each, two events; no symmetry, because the run
\* checks liveness.  The system may stop: after shutdown nothing is left to do.
CONSTANTS
    c1 = c1
    c2 = c2
    Clients = {c1, c2}
    Principals <- MCPrincipals
    Revocable = {c1}
    Events <- MCEvents
    Buffer = 1
SPECIFICATION HubFairSpec
INVARIANTS
    ChannelOpenIffRegistered
    StreamHasNoGaps
PROPERTY EverybodyReturns
CHECK_DEADLOCK FALSE
