--------------------------- MODULE FeeCollection ---------------------------
(***************************************************************************)
(* Collecting a student's fee bills (fees.service.ts): counter payments,   *)
(* online payments through Razorpay orders, deleted payments and bulk      *)
(* discounts, with the finance income a payment books.                     *)
(*                                                                         *)
(* A request is one run of a handler; an action is the code between two    *)
(* awaits, a transaction one action.  Amounts are in paise, so the 0.01    *)
(* the code allows a payment to exceed the balance by is Tolerance.  The   *)
(* bills are those of one student and fee type.                            *)
(***************************************************************************)
EXTENDS Integers, FiniteSetsExt

CONSTANTS
    Bills,
    Total,       \* total_amount of each bill
    Orders,      \* Razorpay orders, each opened once
    Requests,    \* runs of the handlers, each used once
    Amounts,     \* amounts asked for
    Discounts,   \* discounts granted
    NoBill, NoOrder, NoRequest

ASSUME TotalAssumption == Total \in [Bills -> Nat]
ASSUME AmountsAssumption == Amounts \subseteq Nat \ {0} /\ Discounts \subseteq Nat \ {0}
ASSUME NoneAssumption == NoBill \notin Bills /\ NoOrder \notin Orders /\ NoRequest \notin Requests

VARIABLES
    bill,        \* table fee_bills
    discounts,   \* table fee_discounts: the sum of the rows of each bill
    payments,    \* table fee_bill_payments
    incomes,     \* table finance_income: the live rows, by the request that booked one
    order,       \* table fee_payment_gateway_orders
    captured,    \* the gateway: orders whose payment it has captured
    pc, local,   \* what each request does next and what it has read
    raced,       \* history: bills with a write computed from a row that had changed
    disturbed,   \* history: orders whose handlers overlapped, or one of which ended
                 \* between the payment and the order's new status
    removed,     \* history: orders whose payment was deleted
    orphaned     \* history: incomes whose payment was not inserted, or whose reversal
                 \* failed

tables == <<bill, discounts, payments, incomes, order>>
history == <<raced, disturbed, removed, orphaned>>
vars == <<bill, discounts, payments, incomes, order, captured, pc, local,
          raced, disturbed, removed, orphaned>>

BillStatus == {"PENDING", "PARTIAL", "PAID"}
Bill == [discount : Nat, paid : Nat, status : BillStatus]
NewBill == [discount |-> 0, paid |-> 0, status |-> "PENDING"]

OrderStatus == {"NONE", "CREATED", "PAID", "FAILED"}
Order == [status : OrderStatus, bill : Bills \cup {NoBill}, amount : Nat]

\* income: the payment booked a finance income, under its own request.
Payment == [by : Requests, bill : Bills, amount : Nat, order : Orders \cup {NoOrder},
            income : BOOLEAN]

Steps == {"idle", "order", "bill", "income", "write", "markPaid", "markFailed",
          "delBill", "delIncome", "delWrite", "discount", "discountRow", "done"}
Local == [bill : Bills \cup {NoBill}, amount : Nat, order : Orders \cup {NoOrder},
          income : BOOLEAN, pay : Requests \cup {NoRequest},
          seen : [Bills -> Bill], todo : SUBSET Bills]

Nothing == [bill |-> NoBill, amount |-> 0, order |-> NoOrder, income |-> FALSE,
            pay |-> NoRequest, seen |-> [b \in Bills |-> NewBill], todo |-> {}]

Init ==
    /\ bill = [b \in Bills |-> NewBill]
    /\ discounts = [b \in Bills |-> 0]
    /\ payments = {}
    /\ incomes = {}
    /\ order = [o \in Orders |-> [status |-> "NONE", bill |-> NoBill, amount |-> 0]]
    /\ captured = {}
    /\ pc = [r \in Requests |-> "idle"]
    /\ local = [r \in Requests |-> Nothing]
    /\ raced = {} /\ disturbed = {} /\ removed = {} /\ orphaned = {}

Goto(r, step, seen) ==
    /\ pc' = [pc EXCEPT ![r] = step]
    /\ local' = [local EXCEPT ![r] = seen]

Finish(r) == Goto(r, "done", Nothing)

\* History: a write of bill b, stale when its row is not what the request relied on.
Note(b, stale) == raced' = IF stale THEN raced \cup {b} ELSE raced

(***************************************************************************)
(* payBill                                                                 *)
(***************************************************************************)
Tolerance == 1

remaining(b) == Total[b] - bill[b].paid - bill[b].discount

Payable(b, amount) ==
    /\ bill[b].status # "PAID"
    /\ amount <= remaining(b) + Tolerance

Mutant_MarksAnyway(r, ask) ==
    IF Payable(ask.bill, ask.amount)
    THEN Goto(r, IF ask.income THEN "income" ELSE "write", [ask EXCEPT !.seen = bill])
    ELSE IF ask.order # NoOrder THEN Goto(r, "markPaid", ask) ELSE Finish(r)
\* The first read of payBill; the checks throw.
ReadBill(r, ask) ==
    IF Payable(ask.bill, ask.amount)
    THEN Goto(r, IF ask.income THEN "income" ELSE "write", [ask EXCEPT !.seen = bill])
    ELSE Finish(r)

\* At the counter, with an account to credit or without.
PayAtCounter(r, b, amount, income) ==
    /\ pc[r] = "idle"
    /\ ReadBill(r, [Nothing EXCEPT !.bill = b, !.amount = amount, !.income = income])
    /\ UNCHANGED <<tables, captured, history>>

PayOrder(r) ==
    /\ pc[r] = "bill"
    /\ ReadBill(r, local[r])
    /\ UNCHANGED <<tables, captured, history>>

\* financeService.createIncome, in a transaction of its own.
BookIncome(r) ==
    /\ pc[r] = "income"
    /\ incomes' = incomes \cup {r}
    /\ Goto(r, "write", local[r])
    /\ UNCHANGED <<bill, discounts, payments, order, captured, history>>

StatusFor(b, paid, discount) ==
    IF paid >= Total[b] - discount THEN "PAID" ELSE IF paid > 0 THEN "PARTIAL" ELSE "PENDING"

SetPaid(b, paid, seen) ==
    bill' = [bill EXCEPT ![b].paid = paid, ![b].status = StatusFor(b, paid, seen.discount)]

Mutant_PaidAgain(seen, amount) == amount
newPaid(seen, amount) == seen.paid + amount

\* createBillPaymentAndUpdateBill
InsertPayment(r) ==
    LET ask == local[r]
        seen == ask.seen[ask.bill]
    IN  /\ pc[r] = "write"
        /\ payments' = payments \cup
              {[by |-> r, bill |-> ask.bill, amount |-> ask.amount, order |-> ask.order,
                income |-> ask.income]}
        /\ SetPaid(ask.bill, newPaid(seen, ask.amount), seen)
        /\ Note(ask.bill, bill[ask.bill] # seen)
        /\ IF ask.order = NoOrder THEN Finish(r) ELSE Goto(r, "markPaid", ask)
        /\ UNCHANGED <<discounts, incomes, order, captured, disturbed, removed, orphaned>>

(***************************************************************************)
(* Razorpay orders                                                         *)
(***************************************************************************)
\* createRazorpayOrder: the checks, the call to the gateway, the new row.
OpenOrder(r, o, b, amount) ==
    /\ pc[r] = "idle" /\ order[o].status = "NONE"
    /\ \A q \in Requests : ~(pc[q] = "order" /\ local[q].order = o)
    /\ Payable(b, amount)
    /\ Goto(r, "order", [Nothing EXCEPT !.bill = b, !.amount = amount, !.order = o])
    /\ UNCHANGED <<tables, captured, history>>

InsertOrder(r) ==
    LET ask == local[r]
    IN  /\ pc[r] = "order"
        /\ order' = [order EXCEPT ![ask.order] =
                        [status |-> "CREATED", bill |-> ask.bill, amount |-> ask.amount]]
        /\ Finish(r)
        /\ UNCHANGED <<bill, discounts, payments, incomes, captured, history>>

\* The parent pays the order at the gateway.
Captures(o) ==
    /\ order[o].status # "NONE" /\ o \notin captured
    /\ captured' = captured \cup {o}
    /\ UNCHANGED <<tables, pc, local, history>>

HandlesOrder(q, o) ==
    pc[q] \in {"bill", "write", "markPaid", "markFailed"} /\ local[q].order = o

ReadsOrder(r, o) ==
    /\ pc[r] = "idle" /\ order[o].status # "NONE"
    /\ disturbed' = IF \E q \in Requests : HandlesOrder(q, o) THEN disturbed \cup {o}
                                                              ELSE disturbed
    /\ UNCHANGED <<tables, captured, raced, removed, orphaned>>

Mutant_Unchecked(o) == FALSE
AlreadyPaid(o) == order[o].status = "PAID"

Asks(o) == [Nothing EXCEPT !.order = o, !.bill = order[o].bill, !.amount = order[o].amount]

\* payment.captured and the client callback with a valid signature: payBill, then
\* markPaid.  Both return early on a PAID order.
RecordCaptured(r, o) ==
    /\ ReadsOrder(r, o)
    /\ o \in captured
    /\ IF AlreadyPaid(o) THEN Finish(r) ELSE Goto(r, "bill", Asks(o))

\* payment.failed, or a callback whose signature is not valid.
RecordFailed(r, o) ==
    /\ ReadsOrder(r, o)
    /\ IF order[o].status = "PAID" THEN Finish(r) ELSE Goto(r, "markFailed", Asks(o))

Mark(r, step, status) ==
    /\ pc[r] = step
    /\ order' = [order EXCEPT ![local[r].order].status = status]
    /\ Finish(r)
    /\ UNCHANGED <<bill, discounts, payments, incomes, captured, history>>

markPaid(r) == Mark(r, "markPaid", "PAID")
markFailed(r) == Mark(r, "markFailed", "FAILED")

(***************************************************************************)
(* deletePayment                                                           *)
(***************************************************************************)
DeletePayment(r, p) ==
    /\ pc[r] = "idle" /\ p \in payments
    /\ Goto(r, "delBill", [Nothing EXCEPT !.bill = p.bill, !.amount = p.amount,
                              !.order = p.order, !.income = p.income, !.pay = p.by])
    /\ UNCHANGED <<tables, captured, history>>

DeleteReadsBill(r) ==
    /\ pc[r] = "delBill"
    /\ Goto(r, IF local[r].income THEN "delIncome" ELSE "delWrite",
            [local[r] EXCEPT !.seen = bill])
    /\ UNCHANGED <<tables, captured, history>>

\* Any failure of removeIncome is swallowed.
ReverseIncome(r) ==
    LET i == local[r].pay
    IN  /\ pc[r] = "delIncome"
        /\ \/ incomes' = incomes \ {i} /\ UNCHANGED orphaned
           \/ incomes' = incomes /\ orphaned' = orphaned \cup {i}
        /\ Goto(r, "delWrite", local[r])
        /\ UNCHANGED <<bill, discounts, payments, order, captured, raced, disturbed, removed>>

\* Math.max(0, ...)
Reduced(seen, amount) == Max({0, seen.paid - amount})

\* updateBillAndDeletePayment
DeleteRow(r) ==
    LET ask == local[r]
        seen == ask.seen[ask.bill]
        rows == {p \in payments : p.by = ask.pay}
    IN  /\ pc[r] = "delWrite"
        /\ SetPaid(ask.bill, Reduced(seen, ask.amount), seen)
        /\ payments' = payments \ rows
        /\ Note(ask.bill, bill[ask.bill] # seen \/ rows = {})
        /\ removed' = IF ask.order # NoOrder THEN removed \cup {ask.order} ELSE removed
        /\ Finish(r)
        /\ UNCHANGED <<discounts, incomes, order, captured, disturbed, orphaned>>

(***************************************************************************)
(* applyBulkDiscount                                                       *)
(***************************************************************************)
Discountable(rows) == {b \in Bills : rows[b].status # "PAID"}

DiscountReads(r, d) ==
    /\ pc[r] = "idle"
    /\ IF Discountable(bill) = {} THEN Finish(r)
       ELSE Goto(r, "discount", [Nothing EXCEPT !.amount = d, !.seen = bill,
                                    !.todo = Discountable(bill)])
    /\ UNCHANGED <<tables, captured, history>>

newDiscount(seen, d) == seen.discount + d

GrantDiscount(r, b) ==
    LET seen == local[r].seen[b]
    IN  /\ pc[r] = "discount" /\ b \in local[r].todo
        /\ bill' = [bill EXCEPT ![b].discount = newDiscount(seen, local[r].amount)]
        /\ Note(b, bill[b].discount # seen.discount)
        /\ Goto(r, "discountRow", [local[r] EXCEPT !.bill = b, !.todo = @ \ {b}])
        /\ UNCHANGED <<discounts, payments, incomes, order, captured, disturbed, removed,
                       orphaned>>

InsertDiscount(r) ==
    /\ pc[r] = "discountRow"
    /\ discounts' = [discounts EXCEPT ![local[r].bill] = @ + local[r].amount]
    /\ IF local[r].todo = {} THEN Finish(r) ELSE Goto(r, "discount", local[r])
    /\ UNCHANGED <<bill, payments, incomes, order, captured, history>>

(***************************************************************************)
(* A statement fails or the process restarts: the request ends where it is *)
(***************************************************************************)
Ends(r) ==
    /\ pc[r] \notin {"idle", "done"}
    /\ Finish(r)
    /\ raced' = IF pc[r] = "discountRow" THEN raced \cup {local[r].bill} ELSE raced
    /\ disturbed' = IF pc[r] = "markPaid" THEN disturbed \cup {local[r].order} ELSE disturbed
    /\ orphaned' = IF pc[r] = "write" /\ local[r].income THEN orphaned \cup {r} ELSE orphaned
    /\ UNCHANGED <<tables, captured, removed>>

Handler(r) ==
    \/ \E b \in Bills, amount \in Amounts :
          \/ \E income \in BOOLEAN : PayAtCounter(r, b, amount, income)
          \/ \E o \in Orders : OpenOrder(r, o, b, amount)
    \/ \E o \in Orders : RecordCaptured(r, o) \/ RecordFailed(r, o)
    \/ \E p \in payments : DeletePayment(r, p)
    \/ \E d \in Discounts : DiscountReads(r, d)
    \/ \E b \in Bills : GrantDiscount(r, b)
    \/ PayOrder(r) \/ BookIncome(r) \/ InsertPayment(r) \/ InsertOrder(r)
    \/ markPaid(r) \/ markFailed(r)
    \/ DeleteReadsBill(r) \/ ReverseIncome(r) \/ DeleteRow(r)
    \/ InsertDiscount(r) \/ Ends(r)

Next == (\E r \in Requests : Handler(r)) \/ (\E o \in Orders : Captures(o))

Spec == Init /\ [][Next]_vars

(***************************************************************************)
(* Properties                                                              *)
(***************************************************************************)

TypeOK ==
    /\ bill \in [Bills -> Bill]
    /\ discounts \in [Bills -> Nat]
    /\ payments \subseteq Payment
    /\ incomes \subseteq Requests
    /\ order \in [Orders -> Order]
    /\ captured \subseteq Orders
    /\ pc \in [Requests -> Steps]
    /\ local \in [Requests -> Local]
    /\ raced \subseteq Bills /\ disturbed \subseteq Orders
    /\ removed \subseteq Orders /\ orphaned \subseteq Requests

\* Without a write on a stale row, a bill's paid_amount is the sum of its payments, its
\* discount_amount the sum of the discounts granted, once their rows are inserted; PAID
\* means that the two cover the bill, PENDING that nothing is paid, and nobody has paid more
\* than the tolerance above the total.
BillMatchesRows ==
    \A b \in Bills \ raced :
        /\ bill[b].paid = MapThenSumSet(LAMBDA p : p.amount, {p \in payments : p.bill = b})
        /\ (\A r \in Requests : ~(pc[r] = "discountRow" /\ local[r].bill = b)) =>
              bill[b].discount = discounts[b]
        /\ bill[b].status = "PAID" => bill[b].paid + bill[b].discount >= Total[b]
        /\ bill[b].status = "PENDING" => bill[b].paid = 0
        /\ bill[b].paid <= Total[b] + Tolerance

\* An order is recorded as a payment at most once, unless its handlers overlapped or
\* one was cut off (verifyAndRecordRazorpayPayment, handleRazorpayWebhook).
OrderRecordedOnce ==
    \A o \in Orders \ disturbed : Cardinality({p \in payments : p.order = o}) <= 1

\* However handlers overlap, fail and repeat: an order is PAID only with its payment
\* recorded, or deleted later (markPaid follows payBill), and a live income booked for a fee
\* belongs to a payment or to a request about to insert it, unless that request was cut off
\* or the reversal failed.
NothingWithoutPayment ==
    /\ \A o \in Orders : order[o].status = "PAID" =>
          o \in removed \/ \E p \in payments : p.order = o
    /\ \A i \in incomes \ orphaned :
          (\E p \in payments : p.by = i /\ p.income) \/ pc[i] = "write"

=============================================================================
