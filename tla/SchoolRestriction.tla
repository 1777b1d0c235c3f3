-------------------------- MODULE SchoolRestriction --------------------------
(***************************************************************************)
(* The restriction of a school that does not pay: applied by the job of    *)
(* scheduler/tasks/restriction-enforcement.task.ts, lifted by the listener *)
(* of invoices/events/invoice-paid.listener.ts.  The guard that enforces   *)
(* it reads the level through the cache of ReadThroughCache; the key that  *)
(* both handlers delete is left to that module.                            *)
(*                                                                         *)
(* One school, its subscriptions and its invoices.  A date is abstracted   *)
(* to an age: 0 before it, 1 after it, 2 when the grace period is over     *)
(* too.  The amounts of an invoice are abstracted to whether nothing, a    *)
(* part or all of it is paid (InvoicePayments has the amounts).  The       *)
(* overdue job's read and update are one step here; InvoicePayments        *)
(* separates them.  So are a renewal, a cancellation and an expiry, which  *)
(* SubscriptionTerms takes apart; that a school can have two subscriptions *)
(* in force, as at the start here, is shown there.                         *)
(***************************************************************************)
EXTENDS Integers, FiniteSets

CONSTANTS
    Invoices, Subscriptions,
    SubscriptionOf,    \* the subscription that an invoice bills
    Mode,              \* restriction_mode of a subscription
    Ending,            \* the subscriptions that have an end date
    MaxFailures        \* bound: commands that fail

Levels == {"NONE", "SOFT", "PARTIAL", "COMPLETE"}

ASSUME RestrictionAssumption ==
    /\ SubscriptionOf \in [Invoices -> Subscriptions]
    /\ Mode \in [Subscriptions -> Levels]
    /\ Ending \subseteq Subscriptions
    /\ MaxFailures \in Nat

SEVERITY == [NONE |-> 0, SOFT |-> 1, PARTIAL |-> 2, COMPLETE |-> 3]
MostSevere(modes) ==
    CHOOSE m \in modes : \A n \in modes : SEVERITY[n] <= SEVERITY[m]

VARIABLES
    invoice,    \* status, paid and age of the due date of each invoice
    sub,        \* status and age of the end date of each subscription
    level,      \* schools.restriction_level
    cron,       \* the enforcement job: its next step and the level it needs
    listener,   \* next step of the listener for the INVOICE_PAID of each invoice
    failures,   \* commands that have failed
    excuse      \* history: why a settled school may still be restricted

vars == <<invoice, sub, level, cron, listener, failures, excuse>>

Ages == 0..2
Invoice == [status : {"ISSUED", "PARTIALLY_PAID", "OVERDUE", "PAID"},
            paid : {"nothing", "part", "all"}, age : Ages]
Subscription == [status : {"ACTIVE", "EXPIRED", "CANCELLED"}, age : Ages]

Unpaid == {i \in Invoices : invoice[i].status # "PAID"}
Overdue == {i \in Invoices : invoice[i].status = "OVERDUE"}
Lapsed == {s \in Subscriptions : /\ sub[s].status = "EXPIRED"
                                 /\ sub[s].age = 2
                                 /\ Mode[s] # "NONE"}

Init ==
    /\ invoice = [i \in Invoices |-> [status |-> "ISSUED", paid |-> "nothing", age |-> 0]]
    /\ sub = [s \in Subscriptions |-> [status |-> "ACTIVE", age |-> 0]]
    /\ level = "NONE"
    /\ cron = [pc |-> "idle", need |-> "NONE"]
    /\ listener = [i \in Invoices |-> "idle"]
    /\ failures = 0
    /\ excuse = "none"

\* The first reason stays until the restriction is lifted.
Excused(reason) == excuse' = IF excuse = "none" THEN reason ELSE excuse
CronRuns == cron.pc # "idle"
Listen(i, step) == listener' = [listener EXCEPT ![i] = step]

-----------------------------------------------------------------------------
(* Time, payments and subscriptions.                                       *)

Aged(row) == [row EXCEPT !.age = row.age + 1]

TimePasses ==
    /\ \/ \E i \in Invoices :
              /\ invoice[i].age < 2
              /\ invoice' = [invoice EXCEPT ![i] = Aged(invoice[i])]
              /\ UNCHANGED sub
       \/ \E s \in Ending :
              /\ sub[s].age < 2
              /\ sub' = [sub EXCEPT ![s] = Aged(sub[s])]
              /\ UNCHANGED invoice
    /\ UNCHANGED <<level, cron, listener, failures, excuse>>

Credit(i, paid, status) ==
    invoice' = [invoice EXCEPT ![i] = [status |-> status, paid |-> paid, age |-> invoice[i].age]]

\* An approved payment of a part sets PARTIALLY_PAID, an OVERDUE invoice included.
PayPart(i) ==
    /\ invoice[i].paid = "nothing"
    /\ Credit(i, "part", "PARTIALLY_PAID")
    /\ UNCHANGED <<sub, level, cron, listener, failures, excuse>>

Mutant_PaidSilently(i) ==
    /\ invoice[i].paid # "all"
    /\ Credit(i, "all", "PAID")
    /\ IF CronRuns THEN Excused("raced") ELSE UNCHANGED excuse
    /\ UNCHANGED <<sub, level, cron, listener, failures>>
\* The last payment: PAID, and INVOICE_PAID is emitted.
Pay(i) ==
    /\ invoice[i].paid # "all"
    /\ Credit(i, "all", "PAID")
    /\ Listen(i, "overdue")
    /\ IF CronRuns THEN Excused("raced") ELSE UNCHANGED excuse
    /\ UNCHANGED <<sub, level, cron, failures>>

\* The subscription expiry job.
ExpireSubscription(s) ==
    /\ sub[s].status = "ACTIVE" /\ sub[s].age > 0
    /\ sub' = [sub EXCEPT ![s] = [sub[s] EXCEPT !.status = "EXPIRED"]]
    /\ UNCHANGED <<invoice, level, cron, listener, failures, excuse>>

\* addPayment of a full cycle, or cancel: neither looks at the restriction.
Settled(s, status, age) ==
    /\ s \in Ending /\ sub[s].status # "CANCELLED"
    /\ sub' = [sub EXCEPT ![s] = [status |-> status, age |-> age]]
    /\ IF s \in Lapsed THEN Excused(IF CronRuns THEN "late" ELSE "silent")
                       ELSE UNCHANGED excuse
    /\ UNCHANGED <<invoice, level, cron, listener, failures>>
Renew(s) == Settled(s, "ACTIVE", 0)
Cancel(s) == Settled(s, "CANCELLED", sub[s].age)

-----------------------------------------------------------------------------
(* The overdue job.                                                        *)

Candidates == {i \in Invoices : /\ invoice[i].status \in {"ISSUED", "PARTIALLY_PAID"}
                                /\ invoice[i].age > 0}

MarkOverdue ==
    /\ Candidates # {}
    /\ invoice' = [i \in Invoices |->
                      IF i \in Candidates THEN [invoice[i] EXCEPT !.status = "OVERDUE"]
                                          ELSE invoice[i]]
    /\ UNCHANGED <<sub, level, cron, listener, failures, excuse>>

-----------------------------------------------------------------------------
(* The enforcement job.                                                    *)

Cron(from, step, need) ==
    /\ cron.pc = from
    /\ cron' = [pc |-> step, need |-> need]
    /\ UNCHANGED <<invoice, sub, listener, failures, excuse>>

PastGrace == {i \in Unpaid : invoice[i].age = 2}
InvoiceModes == {Mode[SubscriptionOf[i]] : i \in PastGrace}

ReadInvoices ==
    /\ Cron("idle", "lapsed", MostSevere(InvoiceModes \cup {"NONE"}))
    /\ UNCHANGED level

ReadLapsed ==
    /\ LET need == MostSevere({Mode[s] : s \in Lapsed} \cup {cron.need})
       IN  IF need = "NONE" THEN Cron("lapsed", "idle", "NONE")
                            ELSE Cron("lapsed", "compare", need)
    /\ UNCHANGED level

Mutant_AnyRestriction ==
    /\ IF level # "NONE" THEN Cron("compare", "idle", "NONE")
                         ELSE Cron("compare", "apply", cron.need)
    /\ UNCHANGED level
\* restriction_level is read first: a school that has the level is skipped.
CompareLevel ==
    /\ IF level = cron.need THEN Cron("compare", "idle", "NONE")
                            ELSE Cron("compare", "apply", cron.need)
    /\ UNCHANGED level

Apply ==
    /\ Cron("apply", "idle", "NONE")
    /\ level' = cron.need

\* The error is logged, and the next day's job starts over.
CronFails ==
    /\ CronRuns /\ failures < MaxFailures
    /\ failures' = failures + 1
    /\ cron' = [pc |-> "idle", need |-> "NONE"]
    /\ UNCHANGED <<invoice, sub, level, listener, excuse>>

CronStep == ReadInvoices \/ ReadLapsed \/ CompareLevel \/ Apply

-----------------------------------------------------------------------------
(* The listener of INVOICE_PAID.                                           *)

ListenerUnchanged ==
    UNCHANGED <<invoice, sub, cron, failures>>

HasOverdueInvoices == Overdue # {}
HasLapsedSubscription == Lapsed # {}

CheckOverdue(i) ==
    /\ listener[i] = "overdue"
    /\ Listen(i, IF HasOverdueInvoices THEN "idle" ELSE "lapsed")
    /\ ListenerUnchanged /\ UNCHANGED <<level, excuse>>

CheckLapsed(i) ==
    /\ listener[i] = "lapsed"
    /\ Listen(i, IF HasLapsedSubscription THEN "idle" ELSE "clear")
    /\ ListenerUnchanged /\ UNCHANGED <<level, excuse>>

ClearRestriction(i) ==
    /\ listener[i] = "clear"
    /\ level' = "NONE"
    /\ Listen(i, "idle")
    /\ excuse' = IF CronRuns THEN excuse ELSE "none"
    /\ ListenerUnchanged

\* "Failed to lift restriction": logged, and the event is not emitted again.
ListenerFails(i) ==
    /\ listener[i] # "idle" /\ failures < MaxFailures
    /\ failures' = failures + 1
    /\ Listen(i, "idle")
    /\ Excused("failed")
    /\ UNCHANGED <<invoice, sub, level, cron>>

ListenerStep(i) ==
    CheckOverdue(i) \/ CheckLapsed(i) \/ ClearRestriction(i)

Next ==
    \/ TimePasses
    \/ \E i \in Invoices : PayPart(i) \/ Pay(i) \/ ListenerStep(i) \/ ListenerFails(i)
    \/ \E s \in Subscriptions : ExpireSubscription(s) \/ Renew(s) \/ Cancel(s)
    \/ MarkOverdue
    \/ CronStep \/ CronFails

Spec == Init /\ [][Next]_vars

\* The job runs every day and its database answers, and an event once emitted is
\* handled.  Nobody has to pay or to renew.
FairSpec ==
    /\ Spec
    /\ WF_vars(CronStep)
    /\ \A i \in Invoices : WF_vars(ListenerStep(i))

-----------------------------------------------------------------------------
(* Properties.                                                             *)

TypeOK ==
    /\ invoice \in [Invoices -> Invoice]
    /\ sub \in [Subscriptions -> Subscription]
    /\ level \in Levels
    /\ cron \in [pc : {"idle", "lapsed", "compare", "apply"}, need : Levels]
    /\ listener \in [Invoices -> {"idle", "overdue", "lapsed", "clear"}]
    /\ failures \in 0..MaxFailures
    /\ excuse \in {"none", "raced", "late", "silent", "failed"}

Quiet == ~CronRuns /\ \A i \in Invoices : listener[i] = "idle"
\* Some invoice past its due date is unpaid, or a subscription has lapsed.
Owing == (\E i \in Unpaid : invoice[i].age > 0) \/ Lapsed # {}

\* With nothing owed and no handler running, the school is not restricted, unless an
\* invoice was paid while the job was running, a lapsed subscription was renewed or
\* cancelled, or the listener failed.
LiftedWhenSettled == Quiet /\ ~Owing /\ excuse = "none" => level = "NONE"

\* A debt past its grace period for good is restricted for good, at least as severely
\* as its subscription says, whatever other payments lift in between.
DebtorIsRestricted ==
    \A i \in Invoices :
        <>[](i \in PastGrace) => <>[](SEVERITY[level] >= SEVERITY[Mode[SubscriptionOf[i]]])
=============================================================================
