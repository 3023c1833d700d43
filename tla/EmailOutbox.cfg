\* Two emails, two workers, two attempts, one crash, up to two overruns, one lost reply; no
\* symmetry, because the run checks a liveness property.
CONSTANTS
    EmailCount = 2
    Workers = {w1, w2}
    MaxAttempts = 2
    MaxCrashes = 1
    MaxOverruns = 2
    MaxLostReplies = 1
SPECIFICATION FairSpec
INVARIANT OneSettler
PROPERTIES
    ImplementsDelivery
    EveryEmailSettles
CHECK_DEADLOCK FALSE
