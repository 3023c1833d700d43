\* Three logins in flight, a threshold of three, one failed statement; no symmetry,
\* because the run checks a liveness property.
CONSTANTS
    Requests = {r1, r2, r3}
    MaxFailed = 3
    LockoutDuration = 2
    MaxErrors = 1
SPECIFICATION FairSpec
INVARIANT GuessBudget
PROPERTY LockEnds
