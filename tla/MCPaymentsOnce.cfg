CONSTANTS
    Invoices = {i1}
    Payments = {p1}
    Calls = {r1, r2, r3, r4, r5}
    Amounts = {1}
    InitialTotals = {2}
    NoInvoice = NoInvoice
    NoPayment = NoPayment
SPECIFICATION PaymentsSpec
SYMMETRY Symmetry
INVARIANT CaptureProcessedOnce
CHECK_DEADLOCK FALSE
