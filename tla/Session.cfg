\* One account, two requests at once, three token pairs, one challenge.
CONSTANTS
    Users = {alice}
    Roles = {agent}
    Pairs = {p1, p2, p3}
    Challenges = {c1}
    Requests = {r1, r2}
    MaxAttempts = 1
    MaxChanges = 2
    NoPair = NoPair
    NoChallenge = NoChallenge
    NoRow = NoRow
    NoClaims = NoClaims
SPECIFICATION Spec
SYMMETRY Symmetry
INVARIANTS
    ChallengeOpensOneSession
    CredentialsProved
    OneRotationWinner
    NoSurvivor
PROPERTY NeverRevives
