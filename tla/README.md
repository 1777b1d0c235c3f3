# School ERP backend: TLA+ verification

This directory holds a verification project for the NestJS backend in `src/`: TLA+
modules translated from its code, TLC configurations that check them on small
instances, and proofs of the central theorems for every instance, checked by TLAPS.
Paths below are relative to `src/src/modules/` unless they start with `src/`.

The backend is a set of HTTP handlers, cron tasks and event listeners around PostgreSQL
(through drizzle) and Redis. Handlers share nothing but these two stores. Almost none of
them locks a row or repeats a check in the statement that writes, so the questions worth
asking are about interleavings: what stays true of the tables however handlers overlap,
fail and are cut off, and exactly which overlaps break it. That is how most properties
here are stated. A history variable (`raced`, `disturbed`, `cut`, ...) records that a
write relied on a row that had changed, or that a handler ended half way; the invariant
says what holds without it, and so that nothing else can break it. History variables guard
no step.

## 1. Inventory

### Modelled

**Invoice payments** (`invoices/payments.service.ts`, `invoices/events/payment-approved.listener.ts`,
`addLineItem` and `markOverdue` of `invoices/`). State: `invoices` (status, total_amount,
amount_paid, line items) and `subscription_payments`. Operations: submit, approve and
reject a manual payment; open a Razorpay order; webhooks `payment.captured` and
`payment.failed`; the PAYMENT_APPROVED listener that credits the invoice; line items
added later; the overdue cron. Hard: every handler reads, checks and writes in separate
statements; the gateway repeats and reorders its reports; the listener's error is only logged. Correct when: amount_paid is the sum of the approved payments, PAID means covered,
PAID is final.

**Invoice generation** (`invoices/invoices.service.ts`, `createInvoiceWithLines`,
`scheduler/tasks/invoice-generation.task.ts`). State: `invoices`,
`subscription_one_time_charges`, `invoice_counters`, `subscriptions.next_billing_date` and the
dates it is counted from. Operations: one-time charges for devices, the listener of a new
subscription, the manual run, the nightly cron, and the update of a subscription that sets
next_billing_date anew. Hard: the numbering transaction runs under READ COMMITTED, pending
charges are read before it, `next_billing_date` is written after it and by two handlers.
Correct when: numbers are unique and gapless, a charge is billed once, the billed periods of a
subscription follow each other.

**Fee collection** (`fees/fees.service.ts`, `fees/fees.repository.ts`,
`fees/fee-payment-gateway-orders.repository.ts`). State: `fee_bills`, `fee_discounts`,
`fee_bill_payments`, `fee_payment_gateway_orders`, `finance_income`. Operations: counter
payment, order, client callback, webhook, deletion of a payment, bulk discount. Hard: one
order is reported twice (callback and webhook), income and payment are two transactions,
balances are computed from rows read earlier. Correct when: a bill agrees with its rows,
an order is recorded once, income belongs to a payment.

**Fee bill generation** (same service). State: `fee_bills`. Operations: for a student,
for a class and month, as an extra charge. Hard: check-then-insert without a unique index;
loops that may be cut off. Correct when: a student has one bill per fee and month, and a
finished generation misses none.

**Finance ledger and payroll** (`finance/`, `salary/`). State: `finance_accounts`
(current_balance, is_enabled), `finance_expenses`, `finance_income`, `finance_transfers`,
`salary_transactions`. Operations: post and remove entries, enable and disable accounts,
create, process and delete a salary transaction. The two modules talk through awaited
events: TRANSACTION_PROCESSED makes finance post an expense, SALARY_EXPENSE_POSTED makes
salary store its id, TRANSACTION_VOIDED makes finance remove it. Hard: three tables of two
modules without a common transaction, listeners that log their errors. Correct when: a
balance is the sum of its live entries, a salary is posted once, payroll and ledger agree.

**Read-through cache** (`redis/redis.service.ts`). State: keys with a stale and an absolute
age, a build lock per key, a small map per instance. Operations: `getOrSet`, `del`,
`delByPattern`. Every service reads through it. Hard: fills race with invalidations; the
lock expires under its holder; holders die. Correct when: one builder at a time, an old
entry is always explained, a caller is answered.

**Scheduled job lock** (`scheduler/tasks/*.task.ts`). State: one key per job. Hard: SETNX
and EXPIRE are two commands, DEL does not ask who holds the lock. Correct when: one run
works at a time, and the lock is freed.

**School restriction** (`scheduler/tasks/restriction-enforcement.task.ts`,
`invoices/events/invoice-paid.listener.ts`). State: `schools.restriction_level`, derived from
invoices and subscriptions. Operations: the daily job that restricts, the INVOICE_PAID
listener that lifts; payment, renewal, cancellation and expiry around them. Hard: both
decide on rows read in earlier statements. Correct when: a settled school is not
restricted, a debtor is.

**Subscriptions** (`subscriptions/`, `scheduler/tasks/subscription-expiry.task.ts`). State:
`subscriptions` (status, end_date, trial_ends_at). Operations: assign, update, cancel, renew by
payment, the nightly job, the deletion of the school. Hard: every handler reads the current
subscription and writes by id afterwards; the job expires by ids it has read. Correct when: a
school has one current subscription, EXPIRED means over, CANCELLED is final.

**Academic years and students** (`academic-years/`, `students/`,
`src/src/common/guards/frozen-academic-year.guard.ts`). State: `academic_years` (dates,
is_current, is_frozen) and what the cache holds of them, `students`, `student_academic_info`, the number counters. Operations:
years are created, moved, made current, frozen; students are enrolled, edited, moved between
years, deleted. Hard: numbers are checked or drawn before the insert and unique in no index;
flags are cleared and set in two statements; a PATCH with one date is checked with the other date as the cache has it; the guard looks once, when a request arrives.
Correct when: years do not overlap and one is current, numbers are unique, a student has one
current record, a frozen year takes nothing new.

**Leave and staff attendance** (`employee-leave/`, the teachers' half of `leave/`,
`staff-attendance/`). State: leave types, assignments with used_days, applications,
`staff_attendances`. Operations: assign, revoke, apply, review, cancel, mark, tap. Hard: the
application is read through the cache; status, used_days and one attendance row per day are
separate statements. Correct when: used days are the approved ones, the balance bounds them,
approved leave shows in the attendance.

**Student attendance and RFID** (`attendance/`, `rfid/`, the students' half of `leave/`,
`early-exits/` where it writes attendance). State: `attendances`, the audit log, the punch log.
Operations: marks by hand, updates, removals, cards read at the gate, missing punches, leave.
Hard: the punch is inserted before the row; the audit record takes the old status from an
earlier read; the engine asks for leave and holidays before it writes. Correct when: a tap
shows in the attendance, approved leave is not overwritten, the audit log tells the history of
a row.

**Exam timetable and seating** (`exam/exam-manage/`, `exam/exam-schedule/`,
`exam/exam-sitting/`, `exam/exam-hall/`, `exam/events/`). State: `exams` with their classes,
`exam_schedules`, `exam_sitting_plans`, room capacities. Operations: create, copy, generate,
regenerate, move, publish, delete, restore; rows in bulk or one by one, locks; seats in bulk,
shuffled, moved. Hard: a request checks against the table and not against itself or others;
listeners delete and write rows later. Correct when: exams of a class and rows of a class,
room or teacher do not meet, PUBLISHED is complete, a locked row stays, seats suffice.

**Exam results** (`results/`, `exam/exam-attendance/`). State: exam attendance, results,
report cards with the status of their PDF, events under way. Operations: mark attendance,
enter marks, publish, generate and delete cards, status changes of the exam. Hard: listeners
are not awaited and may come out of order; the exam's status is looked at once. Correct when:
results follow attendance, a card agrees with its PDF, a LOCKED exam does not change.

**Class timetable** (`timetable/`). State: `timetables`, `timetable_period_times`,
`timetable_entries`. Operations: create, replace, generate, remove. Hard: three tables written
in up to five statements; busy teachers are looked up before. Correct when: a teacher has one
lesson at a time, the day is filled.

### How they interact

    Subscriptions --assigned--> InvoiceGeneration --invoices--> InvoicePayments
    RFID device stock --one-time charges--> InvoiceGeneration
    the job lock guards the expiry, overdue, generation and enforcement jobs
    InvoicePayments --INVOICE_PAID--> SchoolRestriction --level--> guards (read-through cache)
    Fee bill generation --fee_bills--> Fee collection --createIncome/removeIncome--> Finance
    Payroll --TRANSACTION_PROCESSED/VOIDED--> Finance --SALARY_EXPENSE_POSTED--> Payroll
    Academic years --is_current, is_frozen--> Students, Leave, Attendance
    Leave --attendance rows--> Staff attendance, Student attendance
    Exams --EXAM_DELETED--> rows, seats, results;  seats --ROOMS_ASSIGNED--> rows
    Exam attendance --ABSENT/PRESENT_MARKED--> results

Composed in TLA+: SalaryPosting EXTENDS FinanceLedger; SubscriptionTerms EXTENDS CronLock (the
job's statements in place of the step it takes there); StudentRecords EXTENDS AcademicYears;
StudentAttendance EXTENDS StaffLeave; ExamSeating EXTENDS ExamTimetable, ClassTimetable EXTENDS
ExamSeating. InvoiceGeneration implements InvoiceBook.

### Not modelled

`PROJECT.json` lists every component with its reason. In short: authentication and sessions
are left to a review of their own. Fee and payroll set-up, exam set-up and templates, the
academic structure, staff, roles, permissions, gate and calendar records edit single rows
behind guards; where they check for a duplicate and insert, they do what FeeBilling shows.
Listings, dashboards, search, exports, uploads, backup, PDF rendering, messages and the load
test read, or move data in and out. Role and tenant checks are left out everywhere: they end
a request before it writes. More than half of the code is of these kinds: controllers, DTOs
with their validation decorators, Nest modules, and the selects of listings.

Parts of modelled components that are left out are named in the header of each module. The
larger ones: heads and reports of finance; leave policies, balances, workflows (whose steps
can not be decided, see section 6) and the copies the roll-over makes of both; room numbers of
seats, adding and removing rooms; assignment of RFID cards, device events and the exam attendance a card
causes; enquiries, documents, parents and batch imports of students.

## 2. Plan

Money first, then the infrastructure that all services stand on, then access, then the
school's own workflows. All of the following is done; what is left comes last.

| step | modules | abstract specification, proofs |
|---|---|---|
| 1 | InvoicePayments, InvoiceGeneration | InvoiceBook is implemented; safety proved |
| 2 | FeeCollection, FeeBilling | safety proved |
| 3 | ReadThroughCache, CronLock | safety proved |
| 4 | SubscriptionTerms over CronLock, SchoolRestriction | the job implements CronLock; safety proved |
| 5 | FinanceLedger, SalaryPosting over it | safety proved |
| 6 | ExamTimetable, ExamSeating over it | safety proved |
| 6 | ClassTimetable over both | safety proved |
| 6 | ExamResults | safety proved |
| 7 | AcademicYears, StudentRecords over it | safety proved |
| 8 | StaffLeave, StudentAttendance over it | safety proved |
| next | leave policies and balances with the yearly job; roll-over; enquiries and imports; early exits, gate passes and movements as one module of approvals | |

The suite is kept small on purpose: one run for each question, with the components that share
a table in one instance. It takes about ten minutes.

## 3. Modules and how they correspond to the code

A request is one run of a handler. An action is the code between two awaits: one read with
the checks made on it, or one statement or transaction that writes. `pc[r]` names what the
request does next, `local[r]` the rows it has read, under the names the code uses (`stage` and
`context` in SalaryPosting, `stage` and `left` in FeeBilling, `nextStep` and `context` in
InvoicePayments, `doing` and `call` in ReadThroughCache, `phase` in CronLock, `step` and `task`
in StudentAttendance). A handler may end at any await (an error, a deploy
restarts pm2): `Ends`, `Dies`, `Fails`, `Restart`.

| module | models | state | actions |
|---|---|---|---|
| InvoicePayments | payments, crediting, line items, overdue cron | `invoice`, `payment`, `pastDue`, `scan`, `gatewaySent` | SubmitRead/OrderRead + InsertPayment; ApproveRead + ApproveUpdate; RejectRead + RejectUpdate; WebhookRead + WebhookCaptured/WebhookFailed; ListenerRead + ListenerWrite; LineRead + LineSum + LineCommit; OverdueScan + MarkOverdue |
| InvoiceGeneration | the four ways to an invoice, numbering | `charge`, `lastSeq`, `invoices`, `anchor`, `nextBilling`, `trial`, `queue` | CreateCharge/SubscriptionAssigned + PendingRead; CreateManual or CronScan + CronTakes, then SubscriptionRead + PeriodRead + ChargesRead; CounterRead + Commit; Advance; UpdateRead + UpdateWrite |
| FeeCollection | paying bills | `bill`, `discounts`, `payments`, `incomes`, `order`, `captured` | PayAtCounter or RecordCaptured + PayOrder, then BookIncome + InsertPayment + markPaid; RecordFailed + markFailed; DeletePayment + DeleteReadsBill + ReverseIncome + DeleteRow; DiscountReads + GrantDiscount + InsertDiscount |
| FeeBilling | creating bills | `bills` | GenerateForStudent + Check + CreateChecked; BulkCreate + CreateUnchecked |
| FinanceLedger | accounts and entries | `balance`, `enabled`, `entry` | PostEntry, RemoveEntry, SwitchAccount (each a database transaction) |
| SalaryPosting | payroll over the ledger | `txn` and the ledger | Create/RemoveByHand; Process + MarkProcessed + Check + Post + Link; Delete + Find + Remove + SoftDelete |
| ReadThroughCache | getOrSet and invalidation | `db`, `entry`, `lock`, `l1` | Call, Get, TryLock, Factory, Store, Unlock, Poll, Deadline; Update + Scan + Delete; EntryAges, LockExpires, Crash |
| CronLock | the lock of a job | `lock`, `ttl` | Acquire, Skip, Expire, JobEnds, Release, Dies, TimeToLiveEnds |
| SchoolRestriction | restricting and lifting | `invoice`, `sub`, `level`, `cron`, `listener` | ReadInvoices + ReadLapsed + CompareLevel + Apply; CheckOverdue + CheckLapsed + ClearRestriction; Pay, PayPart, Renew, Cancel, ExpireSubscription, MarkOverdue |
| SubscriptionTerms | subscriptions of a school, over CronLock | `sub`, `at`, `held`, `stage`, `due` | Create + InsertSubscription; Update + WriteUpdate; Cancel + WriteCancel; AddPayment + WriteRenewal; EndTrials, ReadDue, RenewDue, ExpireDue; DeleteSchool |
| InvoiceBook | what invoice generation promises | `book`, `open` | Open, Issue |
| AcademicYears | the years of a school | `year`, `copy` | CreateYear + InsertYear; UpdateYear + WriteYear; SetCurrentYear + ClearCurrent + SetCurrent; Freeze, Unfreeze; CopyGoes |
| StudentRecords | enrolment, over AcademicYears | `student`, `record`, `counter`, `startNumber` | CreateStudent/UpdateStudent + Resolve + ReserveAdmission + DrawRoll + NextSystem + InsertStudent; ClearRecords + InsertRecord; DeleteStudent |
| StaffLeave | an employee's leave and attendance | `type`, `assigned`, `application`, `attendance`, `cached` | AssignLeave + CreateAssignment; ApplyLeave + CreateApplication; FindApplication + UpdateApplication + IncrementUsedDays + SyncDay + BustCache; ReviewTeacherLeave; Mark, ResolveTap + InsertTap |
| StudentAttendance | a student's attendance, cards and leave | `row`, `audit`, `punch`, `asked`, `holiday` | MarkStudent + UpsertRow; UpdateRow + AuditRow + WriteRow; ReadCard + InsertPunch + ResolveCard + InsertRow or TapOut; ResolvePunch, ApproveExit + WriteDay; ReviewStudentLeave + SyncStudentDay |
| ExamTimetable | exams and their rows | `exam`, `row`, `cascade` | Create/AutoGenerate/Copy + InsertExam + LinkClasses + InsertRows; UpdateExam + Redate + Unlink; ReadStatus + SetStatus; BulkCreate, BulkUpdate, BulkRemove, BulkLock, UpdateRow + WriteRows; Regenerate + Replace; RemoveExam, RestoreExam |
| ExamSeating | seats, over ExamTimetable | `seat`, `capacity`, `assigned` | AssignSeats, AutoShuffle + ClearSeats + InsertSeats; MoveSeat + WriteSeat; ResizeRoom; CountSeats + setHallForClass; DeleteExamData |
| ClassTimetable | weekly timetables | `plan`, `times`, `entries` | GeneratePlan + FindBusy or CreatePlan, then InsertPlan + InsertTimes + InsertEntries; UpdatePlan + ClearTimes + ClearEntries; RemovePlan |
| ExamResults | attendance, results, report cards | `exam`, `rows`, `attendance`, `result`, `card`, `events` | MarkAttendance + SaveAttendance; EnterMarks + SaveMarks; PublishResults; GenerateReportCards + FindResults + PlaceCard + RecordPdf; DeleteReportCard; the listeners handleAbsentMarked, handlePresentMarked, handleExamDeleted |

Abstractions. Amounts are integers (paise): the float arithmetic of the code is not
modelled. An expense, an income and a transfer are one kind of entry with a side missing,
since the three pairs of transactions in `finance.repository.ts` differ in nothing else.
Time is counted in billing cycles (InvoiceGeneration), as before, after, and after the
grace period (SchoolRestriction), as ahead or past (SubscriptionTerms), or in slots of a
timetable in which two rows meet or do not (ExamTimetable). In SchoolRestriction the
crediting of an invoice and the overdue job are single steps, as InvoicePayments takes them
apart. Cached reads inside other modules are reads of the row, except where a decision is
made on them (StaffLeave, AcademicYears): what the cache may add is said once, by
ReadThroughCache. In InvoiceGeneration an update moves the anchor of a subscription by whole
cycles: a change of plan also changes their length, which is left out. The start and the end of
an academic year are those of numbered terms. Admission and roll numbers are naturals, so that
'01' and '1', which the code tells apart, are one number; a number that is no numeral is left
out. A null that a DTO lets through for the room or the invigilator of an exam's row is sent and
written (`Values`, `Clears`); so is a seat's student.
Ids that tell nothing are drawn in order where that keeps an instance small.

EXTENDS also joins components that only share rows and never read each other's: one student
and one employee have the days and the academic year in common, an exam and a lesson the
teachers. There an instance takes either side and no step of the other, and says so. So do the
instances of MCFees (bills that are created, bills that are collected), MCRestriction (a school
that is restricted, the cache through which the guard reads it) and MCStudentRecords (students,
years alone): one run answers for both sides, each in its own bounds.

`Mutant_...` operators are wrong variants of the definition that follows them; each property
is confirmed to be violated by one of them, so none holds by the shape of the model.

## 4. Runs

All but payments_once pass. A property names its excuses: what it holds without, and what alone
breaks it.

| run | bounds | shows |
|---|---|---|
| invoice_payments | 1 invoice, 2 payments, 5 handlers, totals 0 or 2 | CreditsMatchApprovals: amount_paid is the sum of the approved payments, each once, but for those whose listener is on its way, failed or was cut off, unless two writers of the invoice overlapped or a payment's status changed between a check and its write. StatusMatchesBalance, PaidIsFinal: PAID is exactly "covered" and is never left, without a race. |
| payments_once | 1 invoice, 1 order, 5 handlers | CaptureProcessedOnce, the promise of `payments.service.ts:221`, is violated: a captured order is approved, and credited, twice. See section 6. |
| invoice_generation | 1 subscription, 1 charge, 2 handlers and the cron, 1 cycle end, anchors 0 and 1, 2 years | ChargesBilledOnce: a charge is on two invoices only when a transaction read it PENDING before another billed it. PeriodsContiguous: periods follow each other, also after a generation that broke off and after updates that reset next_billing_date, unless two generations read the same latest period. IssuesInOrder: the module implements InvoiceBook, so numbers have no gap, without any condition. |
| fees | 2 students, a monthly and a session fee, 2 months, 3 requests; or 2 bills of 3, 1 order, 4 handlers, payments of 2, discounts of 1 | BilledExactlyOnce: no bill twice unless an insert did not look or looked too early, and a finished generation misses none, whatever was skipped, repeated or cut off. BillMatchesRows without a stale write; OrderRecordedOnce unless handlers of the order overlapped or one was cut off; NothingWithoutPayment however they overlap. |
| subscription_terms | 2 firings of the job, 2 handlers, 2 subscriptions | OneRunAtATime until a job outlives its lock; LockIsFreed (liveness) unless a run ended between SETNX and EXPIRE; OneCurrent, ExpiredHasEnded, CancelledForGood unless a write relied on a row that had changed. |
| restriction | 2 invoices, 2 subscriptions of modes COMPLETE and SOFT, 1 failing command; or a cached row with 2 readers, 1 writer, 2 instances | LiftedWhenSettled: a settled school stays restricted only after a payment during the job, a silent renewal or cancellation, or a failed listener. DebtorIsRestricted (liveness): a debt past its grace period for good is restricted for good, at its own severity. EntryIsCurrent: an old entry is explained by an overlapping fill or a writer that has not deleted yet. Answered (liveness): a caller is answered, also when the builder died. |
| salary_posting | 2 accounts, 2 entries, 1 salary, amounts 1 and 2, 3 handlers | BalanceMatchesEntries unless an entry was removed twice; LedgerMatchesPayroll: a salary is posted once unless a write relied on a changed row, and payroll and ledger agree unless, further, a handler was cut off. |
| exam_results | 2 students, 1 row of an exam, 3 handlers and their listeners | ResultFollowsAttendance and CardAgreesWithPdf but for the named disorders, losses and overlaps; LockedIsFinal: after the lock, and what began before it, marks and cards stay. |
| timetables | 2 exams, 2 classes of 2 subjects and 1 student, 1 room, 3 requests, 2 slots; or 3 class timetables of 2 days of 5 minutes, 3 starts | ExamsApart, RowsApart, PublishedIsComplete, LockedRowKept: which overlaps, and which single requests, let exams, rows or invigilators collide, or leave a published exam without a room. TeachersApart, DayIsFilled for generated class timetables. |
| seating | 2 exams, 2 students, 2 rooms of 1 seat that may get a second, 3 requests | SeatsSuffice: which overlaps, and which single requests (repeated entries and rooms, an update for a student who has a seat, a shuffle that keeps the seats), give a student two seats or fill a room beyond its seats. |
| attendance | 2 handlers at a time, 5 starts for an employee or 4 for a student, 2 days | UsedDaysMatchApprovals, BalanceNotExceeded for the employee; TapIsOnRecord, LeaveIsOnRecord, AuditTellsHistory for the rows. |
| student_records | 2 years, 2 students, 2 handlers at a time: 4 starts for years whose dates are given, or 3 for years alone, of 3 terms | NumbersApart, OneCurrentRecord, FrozenYearTakesNone. OneYearAtATime: two years overlap only when a year was checked beside others than there are when it is written, or a date of it beside one that another update or an old copy made out of date; one year is current unless two calls crossed or one broke off. |

Each module also states a type invariant (`TypeOK` or a name of its own). It is proved where
the module has proofs, and holds in the same instances elsewhere.

### Bounds and why they suffice

Every overlap of interest needs two handlers on one row, and often a third that makes the
second one possible (a payment must be submitted before two approvals race on it; an order must
be opened before its callback and webhook race; an exam needs rows before two edits of them
meet). Handlers are used once, or their starts are counted (`MaxStarted`), and that bounds the
depth. Two invoices, bills, entries, exams or students are needed only where a step compares
rows or handles several in a loop; elsewhere rows do not influence each other and one suffices.

* One invoice of total 2 with payments of 1 gives unpaid, part paid, paid and overpaid. A fee
  bill of 3 with payments of 2, a discount of 1 and a tolerance of 1 hits the bill exactly, by
  the tolerance and too high.
* MaxNow bounds the clock and the anchors of InvoiceGeneration, MaxYear the calendar years.
  MaxSeq bounds the invoices of a calendar year to two: a third transaction of that year does
  not commit, and ends by failing. MaxFailures bounds the
  failing commands of SchoolRestriction, so that a fair job can be expected to finish.
* Three terms are the least with which two updates of one year, each valid, leave it on another:
  a year after the other one is moved before it, while its end is sent again as it was.
* A request names a student, a room or a class at most twice (`SeatPlaces`, `twice`).
* Two slots are the least in which rows can meet and be moved apart; the one room is what rows
  lack or share. Two rooms of one seat are the least in which a student is moved, or a room full.
  A day of 5 minutes with 3 subjects, or with lunch, does not divide evenly, so the rounding of
  the periods shows.
* MaxStarted and MaxTasks count the handlers that are started (MaxTasks those for a student's
  attendance), MaxMarks bounds a mark and MaxCallers the handlers of the subscriptions.

Ids are symmetric where a run has no liveness property. MCRestriction, which has two, fixes the
instance of one reader instead, as instances are interchangeable. MCFees gives bills and students
the same two ids, requests and runs the same four, of which three create bills: the sides never
meet, and a symmetry of one is one of the other. CHECK_DEADLOCK FALSE stands where the
handlers are used up and the system would only wait for the next request. SchoolRestriction,
whose job comes back every day, checks deadlock, and so do attendance and student_records,
which rest at their bound; the cache of the same run rests by a step of its own.

### Fairness

All fairness is weak, and stated in specifications of their own beside the safety ones.
ReadThroughCache (`FairCacheSpec`): a call that has begun goes on, because Redis and the database
answer or fail and the polling loop is bounded by a timer of five seconds; nobody has to call,
write, or let a lock expire. CronLock and SubscriptionTerms (`FairLockSpec`, `FairTermsSpec`): the
job, its statements and its commands finish, and a key with a time to live expires; the timer
need not fire and no handler has to run. SchoolRestriction (`FairSpec`): the daily job and a
listener that has been given an event take their steps; nobody has to pay, renew or expire.
MCRestriction asks the same of each side (`RestrictionSpec`).
The other modules need none: their properties are about what may not happen, and a request that
stops half way is one of the cases they cover.

## 5. Proofs

`*Proofs.tla` hold the theorems, for every number of rows, handlers and amounts, from the
named assumptions on constants (sets of ids do not contain the "none" values; amounts and
bounds are naturals; tables of constants have their types) and nothing else. Each is proved the
same way: an inductive invariant IInv that the initial states have and every action keeps, one
lemma per action; the property follows from it. What has to be added to the property, and why:

* **FinanceProofs**, of FeeCollection and of SalaryPosting over FinanceLedger, which share
  nothing. Fees: CollectionTypeCorrect, OrdersRecordedOnce, PaymentsComeFirst, BillsMatchRows.
  RequestsInv says what each handler holds: an order it inserts is new and its own, one it
  handles exists, its payment is recorded when it marks the order PAID, and the income it
  reverses is that of the row it read. OnceInv says of an order whose handlers neither
  overlapped nor broke off that one request at a time handles it, and once the payment is
  there, the order is PAID or that request is about to mark it. RowInv ties a payment to the
  one request that inserted it. BillInv is for the sums: a bill nobody raced on equals its rows
  and the discounts written to it whose rows are yet to come; a payment fits what its request has
  read of the bill, and a deletion knows the bill and the amount of its row. Ledger:
  PayrollTypeCorrect, BalancesMatchEntries, LedgerAgreesWithPayroll. HandlerInv and EntriesInv
  are what a handler holds and who posted an entry. PostingInv, of a transaction that no write
  overtook: one handler at a time is on the way to post it, nothing is posted before it, one
  entry after it, and until the entry is linked this handler is on its way or was cut off.
  DeleterInv and DeletedInv: the entry that a deletion has read of exists, and is gone before
  the transaction is. Both halves sum over finite sets, with the lemmas of FiniteSums.
* **BillingProofs**, of FeeBilling, SchoolRestriction and ReadThroughCache, which share no row:
  BillingTypeCorrect, EachBilledOnce, RestrictionTypeCorrect, SettledIsLifted, TypesCorrect,
  OneReaderBuilds, InvalidationWorks. LookInv: what a run is about to
  insert, unless noted as unseen, is not billed. GenerationInv: what a run has left, with what
  it has just looked up, belongs to one student, and this student's other items are billed.
  NeedIsOwed: what the job is about to apply is owed, until a payment comes between.
  RestrictionIsOwed: a restriction is owed or a listener is on its way to lift it.
  BuilderHoldsLock: who builds has set the lock, until a lock runs out under its builder.
  OldEntryIsExplained strengthens EntryIsCurrent: a writer explains an old entry only while it
  is yet to scan, has died, or has found the key and is about to delete it.
* **SubscriptionProofs**, of CronLock, SubscriptionTerms, InvoiceGeneration and InvoicePayments,
  an invariant for each. The lock:
  LockTypeCorrect, RunsExclude (who works has set the key), ImplementsLock (the job taken apart
  into its statements implements CronLock, so ExpiryRunsExclude follows from RunsExclude).
  Subscriptions: TermsTypeCorrect, CancellationIsFinal, ExpiredOnlyAtTheEnd, OneIsCurrent.
  HeldInv: who creates has found no current subscription and has an id of its own; who pays has
  not read CANCELLED. Invoices: TypeCorrect, NumbersGapless, ChargesBilled, PeriodsFollow, and ImplementsBook (the refinement of InvoiceBook). HandlerInv
  bounds the number a transaction has read by the next free one, so that a commit whose number
  is not taken takes exactly the next. PeriodsInv says of an undisturbed subscription that one
  process at a time bills a period of it, and that the start this process has read is still the
  latest end; the end it adds is later, wherever the anchor is by then (PeriodsLast). When the
  cron bills is no part of it: next_billing_date may be any.
  Payments: PaymentsTyped, PaymentsApprovedOnce, CreditsAreApprovals, PaidMeansCovered,
  PaidStaysPaid. PaymentsInv adds what a handler's context says of the rows it is about to
  write: RowsInv (a row that exists has an invoice and a positive amount), PaymentHandlerInv
  (who is about to approve has read a payment that was not SUCCESS; who credits has published
  exactly the payment it holds) and PublishedInv (who published is crediting, done or lost).
  CreditsInv is the property with the sum over a function of the payments, so that an approval,
  a rejection and a listener each change it by one term (with the lemmas of FiniteSums).
* **StudentRecordsProofs**: Invariant, TypeCorrect, YearsOneAtATime, StudentNumbersApart,
  StudentOneCurrentRecord, FrozenYears. YearsInv: the dates a handler has checked meet none that it has seen, and what it writes are these dates unless it is noted (YearHandlersInv), and after the flags were cleared no year is
  current but the one to be set (CurrentYearInv). StudentsInv: a request that inserts a record
  has found or made its student (ServingInv, PlaceInv); a number it holds from a counter is one
  that the counter has passed and that no row and no other request holds (SystemInv,
  AdmissionInv); the roll number it has read is still the next one, unless a record came to the
  class (RollInv); between the two statements that replace a current record the student has none
  (CurrentRecordInv). The next number is a maximum; that a finite set has one (MaxExists) is
  proved by taking a least subset without one.
* **TimetableProofs**, of ExamTimetable, ExamSeating and ClassTimetable. The exams, whatever the
  class timetables do beside them: Invariant, TypeCorrect, WindowsApart, PapersApart,
  PublishedComplete, RoomForAll, LockHolds. WindowInv: no exam that counts meets the window and classes that a handler has
  checked, until it writes them; NewInv and PlanInv: the rows it is about to insert or change
  meet no row that counts, and one another only where they are marked. PublishInv: what it is
  about to publish is complete, unless rows came to it; NothingTaken: no regeneration takes
  a teacher from a row, and an update that does is noted. SeatInv: the places of a request still
  fit the seats of an exam that nobody crowded, and a seat to be moved is still one of that exam;
  who names a student or a room twice has crowded it (OnceOrTwice, FilledFits).
  Inserted rows and seats have ids drawn by a CHOOSE (Numbered): NumberedRows proves that they
  are free and that each row gets one. LockHolds is proved action by action.
  The lessons: LessonsTyped, TeachersStayApart, DayStaysFilled, with LessonsInv. TeachersApart
  speaks of the tables, LessonsInv also of what is on its way there: a request that generated a
  timetable still has the periods of its timing and entries that suit the timetables beside it
  (LessonInv), and nobody else writes a timetable that has no row yet (Unwritten) or that
  another was generated beside (Quiet); once a timetable is updated the property, and `beside`,
  no longer speak of it. So the tables of a generated timetable hold no periods or exactly its
  own (MadeInv). What the periods are
  for any number of subjects is an induction over the turns of buildPeriodSlots: its fold exists
  and is the only one (BuildsExist, BuildsAgree), each turn adds one period and the lunch that
  is due (AddFills), and no turn is the first that fails to (SlotsFill).
* **AttendanceProofs**, of StaffLeave and StudentAttendance, one invariant for each side:
  AttendanceTypeCorrect, BalanceIsKept, UsedDaysAreApproved, TapsAreOnRecord, LeavesAreOnRecord,
  AuditTellsAll. The employee: OnRecordInv says of every day of an approved leave that it is on
  record or that its own handler still has it among its days, which the property only says of
  some handler. BalanceInv speaks of what is yet to be used: one application, or one handler
  about to make one, claims days at a time, and they fit. UsedInv is the sum of the property
  without what a handler has approved and is yet to count; CountInv: one handler counts an
  application, and no assignment has it among those approved before. The student: TaskInv gives
  each handler a number of its own, so that PunchInv can tell its punch from others; ShownInv is
  OnRecordInv again, with StatusInv: who writes a row after a leave was granted has asked for it.
  AuditInv: the records of a row form a chain; between an update's audit record and its row, one
  handler at a time is there, the row still has the status it read, and the last record ends with
  the one it is about to write.
* **ExamResultsProofs**: ResultsTyped, ResultsFollow, CardsAgree, LockedStays.
  ResultFollowsAttendance only speaks of cells that no event awaits, so ResultsInv says what the
  events will do: a cell has one event at most (OneEventEach), of the kind its attendance has by
  now (EventsAgree), and no attendance outlives its row (AttendedRows). CardsDrawn is about a
  card between its two statements: one run is there, the card has the figures of that run and
  the id under which it will look for the card again, unless it was generated before. HandlerInv
  has the card that a run goes on with, which no step deletes for good. For LockedIsFinal it
  adds that whoever can still write results or cards began before the exam was LOCKED, and
  EventInv that the event in flight came from such a handler; LockedStays is proved action by
  action with the invariant.
* **FiniteSums** has the lemmas on sums and finite sets that FinanceProofs, SubscriptionProofs,
  AttendanceProofs, ExamResultsProofs and TimetableProofs need. The recursion of a fold exists and is the only one
  (SumsExist, SumsAgree, by taking a least set on which two would differ), so that a sum changes
  by one term when an element comes or goes (SumOverAny) and by nothing when the terms stay
  (SumOverSame). MinExists: a finite set of days has an earliest one.

The assumptions say of the ids what a database has: students, payments, rows, seats, rooms and classes are
finite in number, and a draw finds a free one. They bound nothing: the number of exams, requests
and years is any, except where a maximum is taken over them. Of the class timetables they say
that ids, days and minutes are naturals and that what is written by hand has the shape of its DTO.

Only model-checked: liveness (Answered, LockIsFreed, DebtorIsRestricted), which needs fairness
and ENABLED. Every invariant and every action
property that a passing run checks is a theorem.

## 6. What the work has shown about the code

Most of what comments and names promise holds, for requests that do not overlap. The excuses in
the properties mark where it does not. These are the ones a reader of the code may not expect.
Each is a behaviour of a module here, most are named by the excuse of a property, unless it is
marked *not modelled*.

**Money**

* `payments.service.ts:221` "already processed - webhook may retry": two deliveries in flight
  both pass the check, or a late `payment.failed` resets the row and the next retry is credited
  again (run payments_once; excuse of CreditsMatchApprovals).
* `invoices.repository.ts:243-246` "can never ... double-bill a charge": two runs read the charge
  PENDING before either transaction (`:326`; excuse of ChargesBilledOnce). `:200-201` "can't
  produce a total that doesn't match": under READ COMMITTED each of two transactions sums
  without the other's line (`raced` of StatusMatchesBalance).
* `invoices/events/subscription-assigned.listener.ts:14-15` "billed later, in arrears": not after a
  generation that ended between its invoice and `next_billing_date`, nor after an update of the
  subscription that sets it one cycle after the start, however many cycles are billed
  (`subscriptions.service.ts:277`): the cron then bills the next period, and none twice, ahead of
  time.
* `fees.service.ts:881-883` "rather than recording a second fee_bill_payments row": callback and
  webhook both read the order CREATED (`:902`; `disturbed` of OrderRecordedOnce).
* `fees.schema.ts:165` "One row per student x fee_type x month": no index says so, and bulk
  generation does not look (`unseen` of BilledExactlyOnce).
* `finance.repository.ts:282` does not ask whether an entry is deleted already: two overlapping
  removals give the money back twice (`twice` of BalanceMatchesEntries).
* `payment-approved.listener.ts:23` adds and compares numeric(10,2) values as floats: 0.7 + 0.1 <
  0.8 leaves an invoice PARTIALLY_PAID (*not modelled*).

**Infrastructure and access**

* `redis.service.ts:275` "only 1 request hits DB": a request that missed before the entry was
  stored takes the lock after it was released and builds again.
* `invoice-generation.task.ts:33` "already running on another instance": a run that ended between
  SETNX and EXPIRE blocks all later ones with this message (excuse of LockIsFreed).
* `invoice-paid.listener.ts:22` "Lifts a school's restriction once it has no other OVERDUE
  invoices": the last invoice is paid while the job runs; the job then restricts
  (`restriction-enforcement.task.ts:114`) and nothing lifts (excuse of LiftedWhenSettled).
* `src/src/common/guards/school-restriction.guard.ts:63` "clear outstanding invoices to restore
  access": a school suspended for a lapsed subscription and then renewed stays suspended until
  some invoice is paid. The SOFT list of blocked resources (`:101`) is read from an ACTIVE or
  TRIAL subscription only, so a school whose only one has EXPIRED is refused nothing (*not
  modelled*).
* A payment revives a subscription cancelled meanwhile, or an EXPIRED one beside a newer one; a
  later end_date leaves EXPIRED as EXPIRED; the job expires by ids one that was renewed in
  between; deleting a school leaves its EXPIRED subscriptions payable.

**Students and years**

* `promotions.repository.ts:57-75`: the body of updateStudentPromotion is commented out, so a
  promotion changes nothing. No code reads a year's is_enabled (*not modelled*).
* `academic-years.service.ts:146-152`: a PATCH with one date is checked with the other one as the
  cache has it and writes its own, so two updates of one year can leave it overlapping another
  (`yearsRaced` of OneYearAtATime).
* Moving a student to another year clears is_current of a record in a frozen one. The guard of
  frozen years lets a request through when its look-up fails (*not modelled*).
* A generated admission number is not compared with typed ones.
* Repeating the roll-over copies leave policies and balances again (*not modelled*).

**Leave and attendance**

* Assigning a leave type again after a revocation starts used_days from zero. Reviews of teachers'
  and students' leave do not ask for the status; a rejection writes ABSENT over each day.
* `leave.repository.ts:319-325` looks up the approval steps of a request by a step's id, so
  deciding a step always ends in 404 (*not modelled*).
* A first tap whose row is not written makes the next tap an exit (TapIsOnRecord). Resolved
  punches, early exits and leave change a row without an audit record (AuditTellsHistory).
  Nothing is ever inserted into `attendance_conflicts`, and assigning a card does not take it
  from its holder (*not modelled*).

**Exams and timetables**

* `exam-schedule.service.ts:170-173` "Validates conflicts and duplicates across all items": items of
  one request are not compared with each other, and a regeneration compares its rows with
  nothing (excuses of RowsApart). An update writes an exam's dates before its classes.
* An update may send null for the room or the invigilator of a published exam's row
  (PublishedIsComplete), and an update of a seat gives it to any student
  (`exam-sitting.service.ts:171`), whether that one has a seat or not.
* Bulk seating does not compare its entries with each other, a shuffle not the rooms and classes
  it is sent; a shuffle that keeps the old seats ignores them; changing a capacity ignores the seats taken; moving or removing a seat does not
  write rooms into the timetable again (SeatsSuffice, PublishedIsComplete).
* A regenerated card's PDF is recorded under another id, so the card stays PENDING; a card
  generated for one student gets rank 1; a deleted card that is generated again stays deleted;
  marks entry does not ask for attendance; a LOCKED exam that is published again by hand takes
  attendance (excuses of CardAgreesWithPdf, ResultFollowsAttendance and LockedIsFinal).
* `timetable.service.ts:284` "exactly `subjectCount` equal-length teaching periods": all but the last
  are the rounded share, the last takes the rest (DayIsFilled). Timetables written by hand are
  compared with nothing, and two generated at once may give a teacher two lessons (TeachersApart).
