\* One ticket with the three deadlines, one worker, one retry, two errors, one crash; no
\* symmetry, because the run checks a liveness property.
CONSTANTS
    Tickets = {t1}
    Deadlines = {1, 2, 3}
    Workers = {w1}
    MaxRetries = 1
    MaxErrors = 2
    MaxCrashes = 1
    NoOne = NoOne
    Api = Api
SPECIFICATION FairSpec
INVARIANT EventAtMostOnce
PROPERTY DueIsHandled
