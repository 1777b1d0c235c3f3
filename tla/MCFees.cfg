\* Created: three overlapping requests for two students.
\* Collected: four handlers on two bills and one order.
CONSTANTS
    tuition = tuition
    exam = exam
    Students = {i1, i2}
    Types = {tuition, exam}
    Months = {apr, may}
    MonthsOf <- MCMonthsOf
    NoMonth = NoMonth
    Runs = {r1, r2, r3, r4}
    Bills = {i1, i2}
    Total <- MCTotal
    Orders = {o1}
    Requests = {r1, r2, r3, r4}
    Amounts = {2}
    Discounts = {1}
    NoBill = NoBill
    NoOrder = NoOrder
    NoRequest = NoRequest
SPECIFICATION FeesSpec
SYMMETRY Symmetry
INVARIANTS
    BilledExactlyOnce
    BillMatchesRows
    OrderRecordedOnce
    NothingWithoutPayment
CHECK_DEADLOCK FALSE
