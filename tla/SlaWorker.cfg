\* Two tickets with a response deadline, two workers, no retries as in server.go.
CONSTANTS
    Tickets = {t1, t2}
    Deadlines = {2}
    Workers = {w1, w2}
    MaxRetries = 0
    MaxErrors = 1
    MaxCrashes = 1
    NoOne = NoOne
    Api = Api
SPECIFICATION Spec
SYMMETRY Symmetry
INVARIANTS
    RecordedOnce
    HealthyLostNothing
PROPERTY BreachIsCurrent
