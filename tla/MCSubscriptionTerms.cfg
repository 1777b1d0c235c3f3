\* Two firings of the timer, two handlers, two subscriptions.
CONSTANTS
    Runs = {r1, r2}
    None = None
    Subscriptions = {s1, s2}
    MaxCallers = 2
    AutoRenew = {s2}
    Assigned = {s1}
SPECIFICATION FairTermsSpec
INVARIANTS
    OneRunAtATime
    OneCurrent
    ExpiredHasEnded
PROPERTIES
    LockIsFreed
    CancelledForGood
CHECK_DEADLOCK FALSE
