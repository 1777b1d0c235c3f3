CONSTANTS
    Invoices = {i1}
    Payments = {p1, p2}
    Calls = {r1, r2, r3, r4, r5}
    Amounts = {1}
    InitialTotals = {0, 2}
    NoInvoice = NoInvoice
    NoPayment = NoPayment
SPECIFICATION PaymentsSpec
SYMMETRY Symmetry
INVARIANTS
    CreditsMatchApprovals
    StatusMatchesBalance
PROPERTY PaidIsFinal
CHECK_DEADLOCK FALSE
