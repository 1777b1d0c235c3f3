\* The cron, two handlers, a charge, two calendar years and one cycle end.
CONSTANTS
    Subs = {s1}
    Charges = {c1}
    Requests = {r1, r2}
    Cron = cron
    MaxNow = 1
    MaxYear = 2
    MaxSeq = 2
    NoSub = NoSub
SPECIFICATION Spec
SYMMETRY Symmetry
INVARIANTS
    ChargesBilledOnce
    PeriodsContiguous
PROPERTY
    IssuesInOrder
CHECK_DEADLOCK FALSE
