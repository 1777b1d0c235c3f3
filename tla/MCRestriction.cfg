\* Two invoices, one failing command; two readers and a writer on two instances.
CONSTANTS
    i1 = i1
    i2 = i2
    s1 = s1
    s2 = s2
    n1 = n1
    r1 = r1
    Invoices = {i1, i2}
    Subscriptions = {s1, s2}
    SubscriptionOf <- MCSubscriptionOf
    Mode <- MCMode
    Ending = {s2}
    MaxFailures = 1
    Instances = {n1, n2}
    Readers = {r1, r2}
    Writers = {w1}
    None = None
SPECIFICATION RestrictionSpec
INVARIANTS
    LiftedWhenSettled
    EntryIsCurrent
PROPERTIES
    DebtorIsRestricted
    Answered
