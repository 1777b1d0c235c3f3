--------------------------- MODULE SubscriptionTerms ---------------------------
(***************************************************************************)
(* The subscriptions of one school: assigned, updated, paid and cancelled  *)
(* by the handlers of subscriptions/subscriptions.service.ts, cancelled    *)
(* with their school, and expired or renewed every night by the job of     *)
(* scheduler/tasks/subscription-expiry.task.ts.                            *)
(*                                                                         *)
(* The job is the one that the lock of CronLock guards here: its runs are  *)
(* those of CronLock, with the statements of the job in place of the one   *)
(* step JobEnds.  A date is abstracted to whether it is ahead or past; a   *)
(* subscription without an end, which is never due, is left out, and so is *)
(* the end of a trial once the status is no longer TRIAL.                  *)
(* Prices, plans, invoices (InvoiceGeneration) and restrictions            *)
(* (SchoolRestriction) are left out.                                       *)
(***************************************************************************)
EXTENDS CronLock

CONSTANTS
    Subscriptions,
    MaxCallers,    \* bound: handlers, numbered in the order in which they arrive
    AutoRenew,     \* the subscriptions with auto_renew
    Assigned       \* the subscription that the school has at the start, if any

ASSUME TermsAssumption ==
    /\ AutoRenew \subseteq Subscriptions
    /\ Assigned \subseteq Subscriptions
    /\ \A s, t \in Assigned : s = t
    /\ MaxCallers \in Nat

Callers == 1..MaxCallers

VARIABLES
    sub,        \* the rows of subscriptions
    at, held,   \* next step of each request, and what it holds
    stage, due, \* next step of each run of the job, and the rows it has found due
    excused     \* history, until it ends: written relying on what had changed meanwhile,
                \* revived by a payment, or given a later end when it had expired already

terms == <<sub, at, held, stage, due, excused>>

SubStatus == {"ACTIVE", "EXPIRED", "CANCELLED", "TRIAL"}
Absent == [status |-> "none", ends |-> "none", trial |-> "none"]
Subscription ==
    [status : SubStatus, ends : {"ahead", "past"}, trial : {"none", "ahead", "past"}]

\* findCurrentBySchoolId
Current == {s \in Subscriptions : sub[s].status \in {"ACTIVE", "TRIAL"}}

\* What a request holds: the row to insert and the current ones it has found, or the
\* status it has read and the fields to change.
Creation == [sub : Subscriptions, found : SUBSET Subscriptions, row : Subscription]
Change ==
    [sub : Subscriptions, was : SubStatus,
     ends : {"keep", "ahead"}, trial : {"keep", "none", "ahead"}]
Idle == [op |-> "none"]

TermsInit ==
    /\ LockInit
    /\ sub = [s \in Subscriptions |->
                 IF s \in Assigned THEN [status |-> "ACTIVE", ends |-> "ahead", trial |-> "none"]
                                   ELSE Absent]
    /\ at = [r \in Callers |-> "idle"] /\ held = [r \in Callers |-> Idle]
    /\ stage = [r \in Runs |-> "trials"] /\ due = [r \in Runs |-> {}]
    /\ excused = {}

Ops == {"create", "update", "cancel", "pay"}
Begin(r, op, rec) ==
    /\ at[r] = "idle" /\ \A q \in 1..(r - 1) : at[q] # "idle"
    /\ at' = [at EXCEPT ![r] = op]
    /\ held' = [held EXCEPT ![r] = rec]
End(r) == at' = [at EXCEPT ![r] = "ended"] /\ held' = [held EXCEPT ![r] = Idle]
Reads == UNCHANGED <<lockVars, sub, stage, due, excused>>

In(row, status) == [row EXCEPT !.status = status, !.trial = "none"]

\* A write of row for s, and whether it is to be excused.
Write(s, row, excuse) ==
    /\ sub' = [sub EXCEPT ![s] = row]
    /\ excused' = IF excuse THEN excused \cup {s} ELSE excused
Changed(r) == sub[held[r].sub].status # held[r].was

-----------------------------------------------------------------------------
(* The handlers.                                                           *)

Mutant_NoActive == {s \in Current : sub[s].status = "ACTIVE"} = {}
\* "This school already has a subscription - cancel it before assigning a new one"
NoCurrent == Current = {}

NewRow(trial) ==
    [status |-> IF trial = "none" THEN "ACTIVE" ELSE "TRIAL", ends |-> "ahead", trial |-> trial]

Create(r) ==
    \E s \in Subscriptions, trial \in {"none", "ahead"} :
        /\ sub[s] = Absent /\ \A q \in Callers : at[q] = "create" => held[q].sub # s
        /\ NoCurrent
        /\ Begin(r, "create", [sub |-> s, found |-> Current, row |-> NewRow(trial)])
        /\ Reads

InsertSubscription(r) ==
    /\ at[r] = "create"
    /\ Write(held[r].sub, held[r].row, Current # held[r].found)
    /\ End(r)
    /\ UNCHANGED <<lockVars, stage, due>>

NotCancelled == SubStatus \ {"CANCELLED"}
Existing(r, op, statuses, ends, trial) ==
    \E s \in Subscriptions :
        /\ sub[s].status \in statuses
        /\ Begin(r, op, [sub |-> s, was |-> sub[s].status, ends |-> ends, trial |-> trial])
        /\ Reads

\* A trial is on or off with its date: is_trial without trial_end_date is refused.  The
\* status is set only when the trial is touched and the subscription is current.
Update(r) ==
    \E ends \in {"keep", "ahead"}, trial \in {"keep", "none", "ahead"} :
        /\ ends # "keep" \/ trial # "keep"
        /\ Existing(r, "update", SubStatus, ends, trial)

SetsStatus(h) == h.trial # "keep" /\ h.was \in {"ACTIVE", "TRIAL"}
Updated(h, row) ==
    LET dated == [row EXCEPT !.ends = IF h.ends = "keep" THEN @ ELSE h.ends]
    IN  IF ~SetsStatus(h) THEN dated
        ELSE IF h.trial = "none" THEN In(dated, "ACTIVE")
        ELSE [dated EXCEPT !.status = "TRIAL", !.trial = h.trial]

WriteUpdate(r) ==
    /\ at[r] = "update"
    /\ LET h == held[r]
           row == Updated(h, sub[h.sub])
       IN  Write(h.sub, row, \/ SetsStatus(h) /\ Changed(r)
                             \/ row.status = "EXPIRED" /\ row.ends = "ahead")
    /\ End(r)
    /\ UNCHANGED <<lockVars, stage, due>>

Cancel(r) == Existing(r, "cancel", NotCancelled, "keep", "keep")

WriteCancel(r) ==
    /\ at[r] = "cancel"
    /\ sub' = [sub EXCEPT ![held[r].sub] = In(@, "CANCELLED")]
    /\ excused' = excused \ {held[r].sub}
    /\ End(r)
    /\ UNCHANGED <<lockVars, stage, due>>

Mutant_AlsoCancelled(r) == Existing(r, "pay", SubStatus, "keep", "keep")
\* "Cannot record a payment on a cancelled subscription".  The payment is inserted and
\* the amount of the cycle worked out before the subscription is written.
AddPayment(r) == Existing(r, "pay", NotCancelled, "keep", "keep")

Renewed(row) == [In(row, "ACTIVE") EXCEPT !.ends = "ahead"]

WriteRenewal(r) ==
    /\ at[r] = "pay"
    /\ Write(held[r].sub, Renewed(sub[held[r].sub]), Changed(r) \/ held[r].was = "EXPIRED")
    /\ End(r)
    /\ UNCHANGED <<lockVars, stage, due>>

\* A part payment, or one that is not manual, renews nothing; any statement may fail.
HandlerEnds(r) ==
    /\ at[r] \in Ops
    /\ End(r)
    /\ Reads

\* softDelete of the school, in one transaction.
DeleteSchool ==
    /\ Current # {}
    /\ sub' = [s \in Subscriptions |->
                  IF s \in Current THEN In(sub[s], "CANCELLED") ELSE sub[s]]
    /\ excused' = excused \ Current
    /\ UNCHANGED <<lockVars, at, held, stage, due>>

-----------------------------------------------------------------------------
(* The job, between the lock's EXPIRE and its DEL.                         *)

Job(r, from, to) ==
    /\ phase[r] = "job" /\ stage[r] = from
    /\ stage' = [stage EXCEPT ![r] = to]
    /\ UNCHANGED <<lockVars, at, held>>

EndTrials(r) ==
    /\ Job(r, "trials", "read")
    /\ sub' = [s \in Subscriptions |->
                  IF sub[s].status = "TRIAL" /\ sub[s].trial = "past"
                  THEN In(sub[s], "ACTIVE") ELSE sub[s]]
    /\ UNCHANGED <<due, excused>>

Mutant_AnyActive(row) == row.status = "ACTIVE"
IsDue(row) == row.status = "ACTIVE" /\ row.ends = "past"
ReadDue(r) ==
    /\ Job(r, "read", "renew")
    /\ due' = [due EXCEPT ![r] = {s \in Subscriptions : IsDue(sub[s])}]
    /\ UNCHANGED <<sub, excused>>

\* One statement for each: the end moves on by cycles until it is ahead.
RenewDue(r) ==
    \E s \in due[r] \cap AutoRenew :
        /\ Job(r, "renew", "renew")
        /\ Write(s, [sub[s] EXCEPT !.ends = "ahead"], ~IsDue(sub[s]))
        /\ due' = [due EXCEPT ![r] = @ \ {s}]

\* One statement for all of the rest, by their ids.
ExpireDue(r) ==
    /\ due[r] \cap AutoRenew = {}
    /\ Job(r, "renew", "done")
    /\ sub' = [s \in Subscriptions |->
                  IF s \in due[r] THEN In(sub[s], "EXPIRED") ELSE sub[s]]
    /\ excused' = (excused \ due[r]) \cup {s \in due[r] : ~IsDue(sub[s])}
    /\ due' = [due EXCEPT ![r] = {}]

\* What a run has in hand is lost with it.
Forget(r) ==
    /\ stage' = [stage EXCEPT ![r] = "trials"] /\ due' = [due EXCEPT ![r] = {}]
    /\ UNCHANGED <<sub, at, held, excused>>

\* The job is over, or one of its statements has thrown.
JobOver(r) == JobEnds(r) /\ Forget(r)
RunDies(r) == Dies(r) /\ Forget(r)

Locking(r) == (Acquire(r) \/ Skip(r) \/ Expire(r) \/ Release(r)) /\ UNCHANGED terms
KeyExpires == TimeToLiveEnds /\ UNCHANGED terms

DatePasses ==
    /\ \E s \in Subscriptions :
          \/ sub[s].ends = "ahead" /\ sub' = [sub EXCEPT ![s] = [@ EXCEPT !.ends = "past"]]
          \/ sub[s].trial = "ahead" /\ sub' = [sub EXCEPT ![s] = [@ EXCEPT !.trial = "past"]]
    /\ UNCHANGED <<lockVars, at, held, stage, due, excused>>

-----------------------------------------------------------------------------
JobStep(r) == EndTrials(r) \/ ReadDue(r) \/ RenewDue(r) \/ ExpireDue(r)
TermsHandler(r) ==
    \/ Create(r) \/ InsertSubscription(r)
    \/ Update(r) \/ WriteUpdate(r)
    \/ Cancel(r) \/ WriteCancel(r)
    \/ AddPayment(r) \/ WriteRenewal(r)
    \/ HandlerEnds(r)

TermsNext ==
    \/ \E r \in Callers : TermsHandler(r)
    \/ \E r \in Runs : JobStep(r) \/ JobOver(r) \/ RunDies(r) \/ Locking(r)
    \/ KeyExpires
    \/ DeleteSchool
    \/ DatePasses

TermsSpec == TermsInit /\ [][TermsNext]_<<lockVars, terms>>

\* As in CronLock: a run that has the lock goes on, and a key with a time to live expires.
FairTermsSpec ==
    /\ TermsSpec
    /\ \A r \in Runs : WF_<<lockVars, terms>>((Expire(r) \/ Release(r)) /\ UNCHANGED terms)
    /\ \A r \in Runs : WF_<<lockVars, terms>>(JobStep(r) \/ JobOver(r))
    /\ WF_<<lockVars, terms>>(KeyExpires)

-----------------------------------------------------------------------------
(* Properties.                                                             *)

TermsTypeOK ==
    /\ sub \in [Subscriptions -> Subscription \cup {Absent}]
    /\ at \in [Callers -> {"idle", "ended"} \cup Ops]
    /\ held \in [Callers -> {Idle} \cup Creation \cup Change]
    /\ stage \in [Runs -> {"trials", "read", "renew", "done"}]
    /\ due \in [Runs -> SUBSET Subscriptions]
    /\ excused \subseteq Subscriptions

\* A school has one current subscription at most (the check of create), apart from those
\* that became current by a write that relied on what had changed meanwhile, or by a
\* payment for an expired one, which looks for no newer one.
OneCurrent == \A s, t \in Current \ excused : s = t

\* A subscription is EXPIRED only when its end is past: a renewal is not undone by the
\* job, unless the job had found it due before the renewal, and unless it was given a
\* later end by hand afterwards, which does not make it ACTIVE again.
ExpiredHasEnded ==
    \A s \in Subscriptions \ excused :
        sub[s].status = "EXPIRED" => sub[s].ends = "past"

\* A CANCELLED subscription stays so, unless the step that changes it relies on a row
\* read before it was cancelled: a payment, an update of the trial, the job.
CancelledForGood ==
    [][\A s \in Subscriptions :
          sub[s].status = "CANCELLED" /\ s \notin excused' => sub'[s].status = "CANCELLED"
      ]_<<lockVars, terms>>
=============================================================================
