------------------------- MODULE InvoiceGeneration -------------------------
(***************************************************************************)
(* Generating invoices: invoices.service.ts (one-time charges, the manual  *)
(* run, the recurring cron) and createInvoiceWithLines, the transaction    *)
(* that numbers an invoice and bills one-time charges with it.             *)
(*                                                                         *)
(* A process is one handler, or the nightly cron, which generates for one  *)
(* subscription after another.  An action is the code between two awaits.  *)
(* The transaction runs under READ COMMITTED, PostgreSQL's default, which  *)
(* nothing in the code changes: its first statement reads the counter, and *)
(* the rest takes effect at the commit, where the UNIQUE invoice_number    *)
(* makes a transaction abort if another has committed the number meanwhile.*)
(*                                                                         *)
(* Time counts billing cycles.  An update of the subscription moves its    *)
(* anchor by whole cycles and sets next_billing_date anew; that a change   *)
(* of plan also changes the length of a cycle is left out, and so are      *)
(* amounts, lines and student counts, which do not decide any step.        *)
(***************************************************************************)
EXTENDS Integers, FiniteSets

CONSTANTS
    Subs,        \* subscriptions, one per school
    Charges,     \* one-time charges
    Requests,    \* runs of the HTTP handlers, each used once
    Cron,        \* the run of handleRecurringInvoices
    MaxNow,      \* bound on the billing cycles that pass, and on the anchors
    MaxYear,     \* bound on the calendar years the invoice numbers use
    MaxSeq,      \* bound on the invoices of a year
    NoSub

ASSUME CronAssumption == Cron \notin Requests
ASSUME BoundsAssumption == MaxNow \in Nat /\ MaxYear \in Nat \ {0} /\ MaxSeq \in Nat
ASSUME NoSubAssumption == NoSub \notin Subs

VARIABLES
    charge,      \* table subscription_one_time_charges
    lastSeq,     \* table invoice_counters: the last number of each year, 0 = no row
    invoices,    \* table invoices
    anchor,      \* billingAnchor of each subscription: its start, or the end of its trial
    nextBilling, \* subscriptions.next_billing_date
    trial,       \* subscriptions with status TRIAL (the others are ACTIVE)
    now, year,   \* the clock
    pc, local,   \* what each process does next and what it has read
    queue,       \* subscriptions the cron has read as due and not billed yet
    doubled,     \* history: charges billed by a transaction that read them PENDING
                 \* before another one billed them
    disturbed    \* history: subscriptions whose latest period end was read while another
                 \* process had read it and not yet committed its invoice

tables == <<charge, lastSeq, invoices, anchor, nextBilling>>
clock == <<trial, now, year>>
vars == <<charge, lastSeq, invoices, anchor, nextBilling, trial, now, year, pc, local, queue,
          doubled, disturbed>>

Procs == Requests \cup {Cron}
Years == 1..MaxYear

ChargeStatus == {"NONE", "PENDING", "INVOICED"}
Charge == [status : ChargeStatus, sub : Subs \cup {NoSub}]

\* A billing period starts and ends at a cycle boundary; -1 stands for no period.
NoPeriod == -1
Date == Nat \cup {NoPeriod}
Invoice == [by : Procs, year : Years, seq : Nat, sub : Subs, start : Date, end : Date,
            charges : SUBSET Charges]

\* What an update changes; each of them sets next_billing_date too.
Updates == {"start", "plan", "trial", "noTrial"}
Steps == {"idle", "pending", "subscription", "period", "charges", "counter", "commit",
          "advance", "done"} \cup Updates
Local == [sub : Subs \cup {NoSub}, anchor : Nat, start : Date,
          charges : SUBSET Charges, year : Years, seq : Nat]

Nothing == [sub |-> NoSub, anchor |-> 0, start |-> NoPeriod, charges |-> {}, year |-> 1, seq |-> 0]

Init ==
    /\ charge = [c \in Charges |-> [status |-> "NONE", sub |-> NoSub]]
    /\ lastSeq = [y \in Years |-> 0]
    /\ invoices = {}
    /\ anchor = [s \in Subs |-> 0]
    /\ nextBilling = [s \in Subs |-> 1]
    /\ trial \in SUBSET Subs
    /\ now = 0 /\ year = 1
    /\ pc = [p \in Procs |-> "idle"]
    /\ local = [p \in Procs |-> Nothing]
    /\ queue = {}
    /\ doubled = {}
    /\ disturbed = {}

(***************************************************************************)
(* What a process reads                                                    *)
(***************************************************************************)

PeriodsOf(s) == {i \in invoices : i.sub = s /\ i.start # NoPeriod}
PeriodEnds(s) == {i.end : i \in PeriodsOf(s)}

\* findLatestBillingPeriodEnd
LatestEnd(s) == CHOOSE e \in PeriodEnds(s) : \A f \in PeriodEnds(s) : f <= e

findPendingOneTimeCharges(s) == {c \in Charges : charge[c] = [status |-> "PENDING", sub |-> s]}

Goto(p, step, seen) ==
    /\ pc' = [pc EXCEPT ![p] = step]
    /\ local' = [local EXCEPT ![p] = seen]

\* A request is over; the cron turns to the next subscription of its list.
Finish(p) == Goto(p, IF p = Cron THEN "idle" ELSE "done", Nothing)

\* History: q has read the latest period end of s, and its invoice is not committed.
BillsPeriod(q, s) ==
    /\ local[q].sub = s /\ local[q].start # NoPeriod
    /\ pc[q] \in {"charges", "counter", "commit"}

(***************************************************************************)
(* createOneTimeCharge and generateOneTimeChargesInvoice                   *)
(***************************************************************************)
CreateCharge(r, c, s) ==
    /\ pc[r] = "idle" /\ r # Cron
    /\ charge[c].status = "NONE"
    /\ charge' = [charge EXCEPT ![c] = [status |-> "PENDING", sub |-> s]]
    /\ Goto(r, "pending", [Nothing EXCEPT !.sub = s])
    /\ UNCHANGED <<lastSeq, invoices, anchor, nextBilling, clock, queue, doubled, disturbed>>

\* SubscriptionAssignedListener runs it for charges the school already has.
SubscriptionAssigned(r, s) ==
    /\ pc[r] = "idle" /\ r # Cron
    /\ Goto(r, "pending", [Nothing EXCEPT !.sub = s])
    /\ UNCHANGED <<tables, clock, queue, doubled, disturbed>>

\* No invoice when nothing is pending.
PendingRead(r) ==
    LET pending == findPendingOneTimeCharges(local[r].sub)
    IN  /\ pc[r] = "pending"
        /\ IF pending = {}
           THEN Finish(r)
           ELSE Goto(r, "counter", [local[r] EXCEPT !.charges = pending])
        /\ UNCHANGED <<tables, clock, queue, doubled, disturbed>>

(***************************************************************************)
(* createManual and the cron: generateForSubscription                      *)
(***************************************************************************)
CreateManual(r, s) ==
    /\ pc[r] = "idle" /\ r # Cron
    /\ s \notin trial
    /\ Goto(r, "subscription", [Nothing EXCEPT !.sub = s])
    /\ UNCHANGED <<tables, clock, queue, doubled, disturbed>>

Due(s) == s \notin trial /\ nextBilling[s] <= now

CronScan ==
    LET due == {s \in Subs : Due(s)}
    IN  /\ pc[Cron] = "idle" /\ queue = {}
        /\ due # {}
        /\ queue' = due
        /\ UNCHANGED <<tables, clock, pc, local, doubled, disturbed>>

CronTakes(s) ==
    /\ pc[Cron] = "idle" /\ s \in queue
    /\ queue' = queue \ {s}
    /\ Goto(Cron, "subscription", [Nothing EXCEPT !.sub = s])
    /\ UNCHANGED <<tables, clock, doubled, disturbed>>

SubscriptionRead(p) ==
    /\ pc[p] = "subscription"
    /\ Goto(p, "period", [local[p] EXCEPT !.anchor = anchor[local[p].sub]])
    /\ UNCHANGED <<tables, clock, queue, doubled, disturbed>>

\* The next period starts where the last one billed ends, the first one at the anchor.
Mutant_AlwaysFromAnchor(p) == local[p].anchor
periodStart(p) ==
    LET s == local[p].sub
    IN  IF PeriodEnds(s) = {} THEN local[p].anchor ELSE LatestEnd(s)

PeriodRead(p) ==
    LET s == local[p].sub
    IN  /\ pc[p] = "period"
        /\ Goto(p, "charges", [local[p] EXCEPT !.start = periodStart(p)])
        /\ disturbed' = IF \E q \in Procs \ {p} : BillsPeriod(q, s)
                        THEN disturbed \cup {s} ELSE disturbed
        /\ UNCHANGED <<tables, clock, queue, doubled>>

ChargesRead(p) ==
    /\ pc[p] = "charges"
    /\ Goto(p, "counter",
            [local[p] EXCEPT !.charges = findPendingOneTimeCharges(local[p].sub)])
    /\ UNCHANGED <<tables, clock, queue, doubled, disturbed>>

(***************************************************************************)
(* createInvoiceWithLines                                                  *)
(***************************************************************************)
CounterRead(p) ==
    /\ pc[p] = "counter"
    /\ Goto(p, "commit", [local[p] EXCEPT !.year = year, !.seq = lastSeq[year] + 1])
    /\ UNCHANGED <<tables, clock, queue, doubled, disturbed>>

\* nextCycleBoundary: the first boundary of the anchor, itself left out, after a date.
BoundaryAfter(from, date) == IF date < from THEN from + 1 ELSE date + 1
periodEnd(p) == BoundaryAfter(local[p].anchor, local[p].start)

Mutant_NotUnique(p) == FALSE
NumberTaken(p) == \E i \in invoices : i.year = local[p].year /\ i.seq = local[p].seq

Mutant_ChargesStayPending(cs) == charge
MarkInvoiced(cs) == [c \in Charges |-> IF c \in cs THEN [charge[c] EXCEPT !.status = "INVOICED"]
                                                   ELSE charge[c]]

Commit(p) ==
    LET new == local[p]
    IN  /\ pc[p] = "commit"
        /\ ~NumberTaken(p) /\ new.seq <= MaxSeq
        /\ lastSeq' = [lastSeq EXCEPT ![new.year] = new.seq]
        /\ invoices' = invoices \cup
              {[by |-> p, year |-> new.year, seq |-> new.seq, sub |-> new.sub,
                start |-> new.start,
                end |-> IF new.start = NoPeriod THEN NoPeriod ELSE periodEnd(p),
                charges |-> new.charges]}
        /\ charge' = MarkInvoiced(new.charges)
        /\ doubled' = doubled \cup {c \in new.charges : charge[c].status # "PENDING"}
        /\ IF new.start = NoPeriod THEN Finish(p)
                                   ELSE Goto(p, "advance", new)
        /\ UNCHANGED <<anchor, nextBilling, clock, queue, disturbed>>

\* The boundary after the period is counted from the anchor that was read.
Advance(p) ==
    /\ pc[p] = "advance"
    /\ nextBilling' = [nextBilling EXCEPT ![local[p].sub] =
                          BoundaryAfter(local[p].anchor, periodEnd(p))]
    /\ Finish(p)
    /\ UNCHANGED <<charge, lastSeq, invoices, anchor, clock, queue, doubled, disturbed>>

\* A statement fails: an error of the database, or the number is already taken.
\* The transaction is rolled back; the cron logs it and goes on.
Fails(p) ==
    /\ pc[p] \notin {"idle", "done"}
    /\ Finish(p)
    /\ UNCHANGED <<tables, clock, queue, doubled, disturbed>>

Restart ==
    /\ queue # {} \/ \E p \in Procs : pc[p] \notin {"idle", "done"}
    /\ pc' = [p \in Procs |-> IF p # Cron /\ pc[p] # "idle" THEN "done" ELSE "idle"]
    /\ local' = [p \in Procs |-> Nothing]
    /\ queue' = {}
    /\ UNCHANGED <<tables, clock, doubled, disturbed>>

(***************************************************************************)
(* SubscriptionsService.update, where it changes the billing cycle: the    *)
(* start date is sent, the plan, or the trial (whose end is the anchor).   *)
(* What is not sent comes from the row that was read.                      *)
(***************************************************************************)
UpdateRead(r, s, what, from) ==
    /\ pc[r] = "idle" /\ r # Cron
    /\ what = "plan" => from = anchor[s]
    /\ what = "trial" => from > now
    /\ Goto(r, what, [Nothing EXCEPT !.sub = s, !.anchor = from])
    /\ UNCHANGED <<tables, clock, queue, doubled, disturbed>>

UpdateWrite(r) ==
    LET s == local[r].sub
        from == local[r].anchor
    IN  /\ pc[r] \in Updates
        /\ nextBilling' = [nextBilling EXCEPT ![s] = BoundaryAfter(from, from)]
        /\ anchor' = IF pc[r] = "plan" THEN anchor ELSE [anchor EXCEPT ![s] = from]
        /\ trial' = CASE pc[r] = "trial"   -> trial \cup {s}
                     [] pc[r] = "noTrial" -> trial \ {s}
                     [] OTHER             -> trial
        /\ Finish(r)
        /\ UNCHANGED <<charge, lastSeq, invoices, now, year, queue, doubled, disturbed>>

(***************************************************************************)
(* The clock and the expiry task's end of a trial                          *)
(***************************************************************************)
CycleEnds == now < MaxNow /\ now' = now + 1 /\ UNCHANGED <<trial, year>>
NewYear == year < MaxYear /\ year' = year + 1 /\ UNCHANGED <<trial, now>>
TrialEnds(s) == s \in trial /\ trial' = trial \ {s} /\ UNCHANGED <<now, year>>

Environment ==
    /\ CycleEnds \/ NewYear \/ \E s \in Subs : TrialEnds(s)
    /\ UNCHANGED <<tables, pc, local, queue, doubled, disturbed>>

Handler(p) ==
    \/ \E s \in Subs : \/ SubscriptionAssigned(p, s) \/ CreateManual(p, s)
                       \/ \E c \in Charges : CreateCharge(p, c, s)
                       \/ \E what \in Updates, from \in 0..MaxNow : UpdateRead(p, s, what, from)
    \/ SubscriptionRead(p) \/ UpdateWrite(p)
    \/ PendingRead(p) \/ PeriodRead(p) \/ ChargesRead(p) \/ CounterRead(p)
    \/ Commit(p) \/ Advance(p) \/ Fails(p)

Next ==
    \/ \E p \in Procs : Handler(p)
    \/ CronScan \/ \E s \in Subs : CronTakes(s)
    \/ Restart \/ Environment

Spec == Init /\ [][Next]_vars

(***************************************************************************)
(* Properties                                                              *)
(***************************************************************************)

TypeOK ==
    /\ charge \in [Charges -> Charge]
    /\ lastSeq \in [Years -> Nat]
    /\ invoices \subseteq Invoice
    /\ anchor \in [Subs -> Nat]
    /\ nextBilling \in [Subs -> Nat]
    /\ trial \subseteq Subs
    /\ now \in 0..MaxNow /\ year \in Years
    /\ pc \in [Procs -> Steps]
    /\ local \in [Procs -> Local]
    /\ queue \subseteq Subs
    /\ doubled \subseteq Charges /\ disturbed \subseteq Subs

\* The invoices of a year are numbered 1, 2, ... up to the counter, each number once
\* and none skipped, whatever runs overlap, fail or are cut off
\* (createInvoiceWithLines and the UNIQUE invoice_number).
NumbersHaveNoGap ==
    /\ \A i, j \in invoices : i.year = j.year /\ i.seq = j.seq => i = j
    /\ \A y \in Years : {i.seq : i \in {j \in invoices : j.year = y}} = 1..lastSeq[y]

\* A charge is INVOICED exactly when some invoice bills it, and no two invoices do
\* unless both were drawn up while it was PENDING.
ChargesBilledOnce ==
    /\ \A c \in Charges : charge[c].status = "INVOICED" <=> \E i \in invoices : c \in i.charges
    /\ \A c \in Charges \ doubled : \A i, j \in invoices :
          c \in i.charges /\ c \in j.charges => i = j

\* No cycle is billed twice and none is left out: the periods of a subscription do not
\* overlap, and each but the first starts where another ends (generateForSubscription).
\* Generations may fail or be cut off anywhere, follow an advanced or a reset
\* next_billing_date, and the anchor may move, but no two may read the latest period
\* end before either commits.
PeriodsContiguous ==
    \A s \in Subs \ disturbed : \A i \in PeriodsOf(s) :
        /\ \A j \in PeriodsOf(s) : i = j \/ i.end <= j.start \/ j.end <= i.start
        /\ i.start \in PeriodEnds(s) \/ \A j \in PeriodsOf(s) : i.start <= j.start

(***************************************************************************)
(* What the transaction promises                                           *)
(***************************************************************************)

\* The invoice of year y with number n, as the book has it.
Entry(y, n) ==
    LET i == CHOOSE i \in invoices : i.year = y /\ i.seq = n
    IN  [sub |-> i.sub, charges |-> i.charges]

Book == INSTANCE InvoiceBook WITH
    Bills <- [sub : Subs, charges : SUBSET Charges],
    book <- [y \in Years |-> [n \in 1..lastSeq[y] |-> Entry(y, n)]],
    open <- {c \in Charges : charge[c].status # "NONE"},
    billed <- {c \in Charges : charge[c].status = "INVOICED"}

\* invoices.repository.ts:242-247: read as a book, the invoices of a year are only ever
\* added to, each with the next number, and a charge is billed by its first invoice,
\* whatever handlers overlap, fail or are cut off.
IssuesInOrder == Book!Spec
=============================================================================
