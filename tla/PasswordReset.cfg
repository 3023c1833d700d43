\* Three tokens and two transactions at once; no symmetry, because the run checks a
\* liveness property.
CONSTANTS
    Tokens = {t1, t2, t3}
    Procs = {x1, x2}
    NoProc = NoProc
SPECIFICATION ResetFairSpec
INVARIANTS
    SingleUse
    NoOvertakenToken
PROPERTY TransactionsEnd
