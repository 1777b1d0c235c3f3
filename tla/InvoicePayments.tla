-------------------------- MODULE InvoicePayments --------------------------
(***************************************************************************)
(* Payments of invoices: payments.service.ts, the listener that reconciles *)
(* an invoice after an approval (payment-approved.listener.ts), the        *)
(* overdue cron and the line items added to an issued invoice.             *)
(*                                                                         *)
(* A request is one run of an HTTP handler.  Handlers interleave at every  *)
(* await, so an action is the code between two awaits: a database read     *)
(* with the checks made on it, or one statement that writes.  nextStep[r]  *)
(* is what request r does next; context[r] holds the rows it has read.  No *)
(* row is locked or checked again between the read and the write.          *)
(*                                                                         *)
(* Amounts are whole units.  School scoping and roles are left out: they   *)
(* only end a request before it writes.                                    *)
(***************************************************************************)
EXTENDS Integers, FiniteSetsExt

CONSTANTS
    Invoices,        \* ids of the invoices that exist
    Payments,        \* ids of payment rows
    Calls,           \* runs of the HTTP handlers, each used once
    Amounts,         \* amounts a user may enter (DTOs: @IsPositive)
    InitialTotals,   \* totals an invoice may be generated with
    NoInvoice, NoPayment   \* a request that handles no such row

ASSUME AmountsAssumption == Amounts \subseteq Nat \ {0}
ASSUME TotalsAssumption == InitialTotals \subseteq Nat
ASSUME NoInvoiceAssumption == NoInvoice \notin Invoices
ASSUME NoPaymentAssumption == NoPayment \notin Payments
ASSUME PaymentsFinite == IsFiniteSet(Payments)

VARIABLES
    invoice,      \* table invoices: [Invoices -> InvoiceRow]
    payment,      \* table subscription_payments: [Payments -> Payment]
    pastDue,      \* invoices whose due_date has passed
    nextStep,     \* what each request does next
    context,      \* what each request has read
    scan,         \* candidates the overdue cron has read and not yet marked
    gatewaySent,  \* <<payment, event>> the gateway reports, once or more often
    published,    \* history: the payment each request published as approved
    meddled,      \* history: payments whose status changed between a handler's
                  \* check and its write, or reported failed after succeeding
    raced         \* history: invoices written after what the writer had read of
                  \* them and relied on had changed

paymentVars == <<invoice, payment, pastDue, nextStep, context, scan, gatewaySent,
                 published, meddled, raced>>

(***************************************************************************)
(* Rows.  DRAFT and VOID are statuses the schema has and no code writes.   *)
(* lines is the sum of the invoice's committed line items.                 *)
(***************************************************************************)
InvoiceStatus == {"ISSUED", "PARTIALLY_PAID", "PAID", "OVERDUE"}
InvoiceRow == [status : InvoiceStatus, total : Nat, lines : Nat, paid : Nat]

PaymentStatus == {"NONE", "PENDING", "PENDING_VERIFICATION", "SUCCESS", "FAILED"}
Payment == [status : PaymentStatus, invoice : Invoices \cup {NoInvoice},
            amount : Nat, gateway : BOOLEAN]

\* createInvoiceWithLines: an invoice with nothing to collect is PAID at once.
NewInvoice(total) ==
    [status |-> IF total = 0 THEN "PAID" ELSE "ISSUED",
     total  |-> total, lines |-> total, paid |-> 0]

\* A payment as submitPayment and createRazorpayOrder insert it.
NewPayment(i, amount, gateway) ==
    [status  |-> IF gateway THEN "PENDING" ELSE "PENDING_VERIFICATION",
     invoice |-> i, amount |-> amount, gateway |-> gateway]

NoRow == [status |-> "NONE", invoice |-> NoInvoice, amount |-> 0, gateway |-> FALSE]

GatewayEvents == {"captured", "failed"}

PaymentSteps == {"idle", "submit", "order", "approve", "reject", "captured", "failed",
                 "credit", "reconcile", "line", "recompute", "done", "lost"}

Context == [inv : Invoices \cup {NoInvoice}, pay : Payments \cup {NoPayment},
            amount : Nat, seenInv : InvoiceRow, seenPay : Payment]

NoContext == [inv |-> NoInvoice, pay |-> NoPayment, amount |-> 0,
              seenInv |-> NewInvoice(0), seenPay |-> NoRow]

PaymentsInit ==
    /\ invoice \in {[i \in Invoices |-> NewInvoice(t[i])] : t \in [Invoices -> InitialTotals]}
    /\ payment = [p \in Payments |-> NoRow]
    /\ pastDue = {}
    /\ nextStep = [r \in Calls |-> "idle"]
    /\ context = [r \in Calls |-> NoContext]
    /\ scan = {}
    /\ gatewaySent = {}
    /\ published = [r \in Calls |-> NoPayment]
    /\ meddled = {}
    /\ raced = {}

(***************************************************************************)
(* Where a request goes: Continue has it read more rows, Conclude ends it. *)
(***************************************************************************)
Continue(r, step, seen) ==
    /\ nextStep' = [nextStep EXCEPT ![r] = step]
    /\ context' = [context EXCEPT ![r] = seen]

Conclude(r, step) == Continue(r, step, NoContext)

\* History: x is recorded when the write of a handler meets a changed row.
Note(x, changed) == IF changed THEN {x} ELSE {}

StalePayment(r) == payment[context[r].pay].status # context[r].seenPay.status

\* submitPayment and createRazorpayOrder refuse these; addLineItem too.
Payable(i) == invoice[i].status # "PAID"

(***************************************************************************)
(* submitPayment: a manual payment, waiting for verification.              *)
(***************************************************************************)
SubmitRead(r, i, a) ==
    /\ nextStep[r] = "idle"
    /\ Payable(i)
    /\ Continue(r, "submit", [NoContext EXCEPT !.inv = i, !.amount = a])
    /\ UNCHANGED <<invoice, payment, pastDue, scan, gatewaySent, published, meddled, raced>>

\* createRazorpayOrder: the balance is what the invoice still owes when read.
balance(i) == invoice[i].total - invoice[i].paid

Outstanding(i) == balance(i) > 0

OrderRead(r, i) ==
    /\ nextStep[r] = "idle"
    /\ Payable(i)
    /\ Outstanding(i)
    /\ Continue(r, "order", [NoContext EXCEPT !.inv = i, !.amount = balance(i)])
    /\ UNCHANGED <<invoice, payment, pastDue, scan, gatewaySent, published, meddled, raced>>

\* The insert that ends either of them (for an order, after the gateway answered).
InsertPayment(r, p) ==
    /\ nextStep[r] \in {"submit", "order"}
    /\ payment[p].status = "NONE"
    /\ payment' = [payment EXCEPT
                     ![p] = NewPayment(context[r].inv, context[r].amount, nextStep[r] = "order")]
    /\ Conclude(r, "done")
    /\ UNCHANGED <<invoice, pastDue, scan, gatewaySent, published, meddled, raced>>

(***************************************************************************)
(* approvePayment and rejectPayment: the status is read and checked, and   *)
(* the row is updated by id in a later statement.                          *)
(***************************************************************************)
VerifyRead(r, p, step) ==
    /\ nextStep[r] = "idle"
    /\ payment[p].status = "PENDING_VERIFICATION"
    /\ Continue(r, step, [NoContext EXCEPT !.pay = p, !.seenPay = payment[p]])
    /\ UNCHANGED <<invoice, payment, pastDue, scan, gatewaySent, published, meddled, raced>>

ApproveRead(r, p) == VerifyRead(r, p, "approve")
RejectRead(r, p) == VerifyRead(r, p, "reject")

\* update(SUCCESS), then emitAsync(PAYMENT_APPROVED): the listener's read is next.
Publish(r) ==
    LET p == context[r].pay
    IN  /\ payment' = [payment EXCEPT ![p].status = "SUCCESS"]
        /\ published' = [published EXCEPT ![r] = p]
        /\ meddled' = meddled \cup Note(p, StalePayment(r))
        /\ Continue(r, "credit", [NoContext EXCEPT !.pay = p, !.inv = payment[p].invoice,
                                                  !.amount = payment[p].amount])
        /\ UNCHANGED <<invoice, pastDue, scan, gatewaySent, raced>>

ApproveUpdate(r) ==
    /\ nextStep[r] = "approve"
    /\ Publish(r)

RejectUpdate(r) ==
    LET p == context[r].pay
    IN  /\ nextStep[r] = "reject"
        /\ payment' = [payment EXCEPT ![p].status = "FAILED"]
        /\ meddled' = meddled \cup Note(p, StalePayment(r))
        /\ Conclude(r, "done")
        /\ UNCHANGED <<invoice, pastDue, scan, gatewaySent, published, raced>>

(***************************************************************************)
(* The gateway: an order may fail several times and is captured at most    *)
(* once, after which nothing else happens to it.  It may deliver what it   *)
(* reports more than once and in any order.                                *)
(***************************************************************************)
GatewayReports(p, e) ==
    /\ payment[p].gateway
    /\ <<p, "captured">> \notin gatewaySent
    /\ gatewaySent' = gatewaySent \cup {<<p, e>>}
    /\ UNCHANGED <<invoice, payment, pastDue, nextStep, context, scan, published, meddled, raced>>

Mutant_Unchecked(p, e) == TRUE
NotProcessed(p, e) == e = "captured" => payment[p].status # "SUCCESS"

\* handleRazorpayWebhook, up to its read and the check of the event 'captured'.
WebhookRead(r, p, e) ==
    /\ nextStep[r] = "idle"
    /\ <<p, e>> \in gatewaySent
    /\ NotProcessed(p, e)
    /\ Continue(r, e, [NoContext EXCEPT !.pay = p, !.seenPay = payment[p]])
    /\ UNCHANGED <<invoice, payment, pastDue, scan, gatewaySent, published, meddled, raced>>

WebhookCaptured(r) ==
    /\ nextStep[r] = "captured"
    /\ Publish(r)

\* 'payment.failed' checks nothing: a payment that has succeeded becomes FAILED.
WebhookFailed(r) ==
    LET p == context[r].pay
    IN  /\ nextStep[r] = "failed"
        /\ payment' = [payment EXCEPT ![p].status = "FAILED"]
        /\ meddled' = meddled \cup Note(p, StalePayment(r) \/ payment[p].status = "SUCCESS")
        /\ Conclude(r, "done")
        /\ UNCHANGED <<invoice, pastDue, scan, gatewaySent, published, raced>>

(***************************************************************************)
(* PaymentApprovedListener.handlePaymentApproved: the invoice is read, and *)
(* amount_paid and status are written from what was read.                  *)
(***************************************************************************)
ListenerRead(r) ==
    LET i == context[r].inv
    IN  /\ nextStep[r] = "credit"
        /\ Continue(r, "reconcile", [context[r] EXCEPT !.seenInv = invoice[i]])
        /\ UNCHANGED <<invoice, payment, pastDue, scan, gatewaySent, published, meddled, raced>>

newAmountPaid(r) == context[r].seenInv.paid + context[r].amount

Mutant_PaidWhenOverpaid(paid, total) == IF paid > total THEN "PAID" ELSE "PARTIALLY_PAID"
StatusFor(paid, total) == IF paid >= total THEN "PAID" ELSE "PARTIALLY_PAID"

ListenerWrite(r) ==
    LET i == context[r].inv
        seen == context[r].seenInv
        paid == newAmountPaid(r)
    IN  /\ nextStep[r] = "reconcile"
        /\ invoice' = [invoice EXCEPT ![i].paid = paid,
                                      ![i].status = StatusFor(paid, seen.total)]
        /\ raced' = raced \cup Note(i, \/ invoice[i].paid # seen.paid
                                       \/ invoice[i].total # seen.total)
        /\ Conclude(r, "done")
        /\ UNCHANGED <<payment, pastDue, scan, gatewaySent, published, meddled>>

\* Either statement of the listener fails; the error is caught and logged.
ListenerFails(r) ==
    /\ nextStep[r] \in {"credit", "reconcile"}
    /\ Conclude(r, "lost")
    /\ UNCHANGED <<invoice, payment, pastDue, scan, gatewaySent, published, meddled, raced>>

(***************************************************************************)
(* InvoicesService.addLineItem.  The transaction inserts the line, sums    *)
(* the lines it can see (READ COMMITTED: the committed ones and its own)   *)
(* and updates the total; the line becomes visible at the commit.  The row *)
(* lock of the UPDATE orders the commits.                                  *)
(***************************************************************************)
LineRead(r, i, a) ==
    /\ nextStep[r] = "idle"
    /\ Payable(i)
    /\ Continue(r, "line", [NoContext EXCEPT !.inv = i, !.amount = a])
    /\ UNCHANGED <<invoice, payment, pastDue, scan, gatewaySent, published, meddled, raced>>

LineSum(r) ==
    LET i == context[r].inv
    IN  /\ nextStep[r] = "line"
        /\ Continue(r, "recompute", [context[r] EXCEPT !.seenInv = invoice[i]])
        /\ UNCHANGED <<invoice, payment, pastDue, scan, gatewaySent, published, meddled, raced>>

LineCommit(r) ==
    LET i == context[r].inv
        subtotal == context[r].seenInv.lines + context[r].amount
    IN  /\ nextStep[r] = "recompute"
        /\ invoice' = [invoice EXCEPT ![i].lines = invoice[i].lines + context[r].amount,
                                      ![i].total = subtotal]
        /\ raced' = raced \cup Note(i, \/ invoice[i].lines # context[r].seenInv.lines
                                       \/ ~Payable(i))
        /\ Conclude(r, "done")
        /\ UNCHANGED <<payment, pastDue, scan, gatewaySent, published, meddled>>

(***************************************************************************)
(* InvoiceGenerationTask.handleOverdueInvoices: the candidates are read,   *)
(* and later all of them are set OVERDUE by id.                            *)
(***************************************************************************)
DueDatePasses(i) ==
    /\ i \notin pastDue
    /\ pastDue' = pastDue \cup {i}
    /\ UNCHANGED <<invoice, payment, nextStep, context, scan, gatewaySent, published,
                   meddled, raced>>

Mutant_AnyStatus(i) == TRUE
OverdueStatus(i) == invoice[i].status \in {"ISSUED", "PARTIALLY_PAID"}
OverdueCandidates == {i \in pastDue : OverdueStatus(i)}

OverdueScan ==
    /\ scan = {}
    /\ OverdueCandidates # {}
    /\ scan' = OverdueCandidates
    /\ UNCHANGED <<invoice, payment, pastDue, nextStep, context, gatewaySent, published,
                   meddled, raced>>

MarkOverdue ==
    /\ scan # {}
    /\ invoice' = [i \in Invoices |-> IF i \in scan THEN [invoice[i] EXCEPT !.status = "OVERDUE"]
                                                    ELSE invoice[i]]
    /\ raced' = raced \cup {i \in scan : ~OverdueStatus(i)}
    /\ scan' = {}
    /\ UNCHANGED <<payment, pastDue, nextStep, context, gatewaySent, published, meddled>>

(***************************************************************************)
(* The process restarts (a deploy): what was running is gone, and nothing  *)
(* resumes it.  An uncommitted line item is rolled back.                   *)
(***************************************************************************)
PaymentsRestart ==
    /\ \E r \in Calls : nextStep[r] \notin {"idle", "done", "lost"}
    /\ nextStep' = [r \in Calls |->
                CASE nextStep[r] \in {"idle", "done", "lost"} -> nextStep[r]
                  [] nextStep[r] \in {"credit", "reconcile"} -> "lost"
                  [] OTHER -> "done"]
    /\ context' = [r \in Calls |-> NoContext]
    /\ scan' = {}
    /\ UNCHANGED <<invoice, payment, pastDue, gatewaySent, published, meddled, raced>>

PaymentHandler(r) ==
    \/ \E i \in Invoices, a \in Amounts : SubmitRead(r, i, a) \/ LineRead(r, i, a)
    \/ \E i \in Invoices : OrderRead(r, i)
    \/ \E p \in Payments : InsertPayment(r, p) \/ ApproveRead(r, p) \/ RejectRead(r, p)
    \/ \E p \in Payments, e \in GatewayEvents : WebhookRead(r, p, e)
    \/ ApproveUpdate(r) \/ RejectUpdate(r) \/ WebhookCaptured(r) \/ WebhookFailed(r)
    \/ ListenerRead(r) \/ ListenerWrite(r) \/ ListenerFails(r)
    \/ LineSum(r) \/ LineCommit(r)

PaymentsNext ==
    \/ \E r \in Calls : PaymentHandler(r)
    \/ \E p \in Payments, e \in GatewayEvents : GatewayReports(p, e)
    \/ \E i \in Invoices : DueDatePasses(i)
    \/ OverdueScan \/ MarkOverdue \/ PaymentsRestart

PaymentsSpec == PaymentsInit /\ [][PaymentsNext]_paymentVars

(***************************************************************************)
(* Properties                                                              *)
(***************************************************************************)

PaymentsTypeOK ==
    /\ invoice \in [Invoices -> InvoiceRow]
    /\ payment \in [Payments -> Payment]
    /\ pastDue \subseteq Invoices
    /\ nextStep \in [Calls -> PaymentSteps]
    /\ context \in [Calls -> Context]
    /\ scan \subseteq Invoices
    /\ gatewaySent \subseteq Payments \X GatewayEvents
    /\ published \in [Calls -> Payments \cup {NoPayment}]
    /\ meddled \subseteq Payments
    /\ raced \subseteq Invoices

\* A payment is approved at most once, and an approved payment stays SUCCESS
\* (approvePayment, rejectPayment, handleRazorpayWebhook): unless its status
\* changed between a handler's check and its write, or the gateway's report of
\* a failed attempt arrived after that of the capture.
ApprovedOnce ==
    \A p \in Payments \ meddled : \A r \in Calls :
        published[r] = p =>
            /\ payment[p].status = "SUCCESS"
            /\ \A q \in Calls : published[q] = p => q = r

\* A captured order is approved once, however often and in whatever order the gateway
\* delivers what it reports: "already processed" (handleRazorpayWebhook).
CaptureProcessedOnce ==
    \A q, r \in Calls :
        (published[q] \in Payments /\ payment[published[q]].gateway) =>
            (published[q] = published[r] => q = r)

\* The payments of invoice i that are approved, but for those whose listener is not done
\* or did not finish.
Uncredited(p) ==
    \E r \in Calls : published[r] = p /\ nextStep[r] \in {"credit", "reconcile", "lost"}
CreditedPayments(i) ==
    {p \in Payments : /\ payment[p].invoice = i
                      /\ payment[p].status = "SUCCESS"
                      /\ ~Uncredited(p)}
Undisturbed(i) == i \notin raced /\ \A p \in meddled : payment[p].invoice # i

\* amount_paid is the sum of the approved payments of the invoice, each counted once and
\* none left out or kept after a rejection, but for a payment whose listener is running,
\* failed or was cut off (approvePayment, rejectPayment, handleRazorpayWebhook and
\* handlePaymentApproved together): unless two writers of the invoice overlapped, or the
\* status of one of its payments changed between a handler's check and its write.
CreditsMatchApprovals ==
    \A i \in Invoices :
        Undisturbed(i) =>
            invoice[i].paid = MapThenSumSet(LAMBDA p : payment[p].amount, CreditedPayments(i))

\* An invoice is PAID exactly when amount_paid covers its total, and its total
\* is the sum of its line items (the listener, addLineItem and markOverdue
\* together): unless one of them wrote after another had changed what it read.
StatusMatchesBalance ==
    \A i \in Invoices \ raced :
        /\ invoice[i].status = "PAID" <=> invoice[i].paid >= invoice[i].total
        /\ invoice[i].total = invoice[i].lines

\* No step takes an invoice out of PAID, adds to what a paid invoice asks for
\* or takes back a credit, unless it raced with another writer of the invoice.
PaidIsFinalStep ==
    \A i \in Invoices \ raced' :
        /\ invoice'[i].paid >= invoice[i].paid
        /\ invoice[i].status = "PAID" => /\ invoice'[i].status = "PAID"
                                         /\ invoice'[i].total = invoice[i].total
PaidIsFinal == [][PaidIsFinalStep]_paymentVars

=============================================================================
