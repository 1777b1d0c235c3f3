------------------------- MODULE SubscriptionProofs -------------------------
(***************************************************************************)
(* The subscriptions of the schools, the nightly job on them, and the      *)
(* invoices for them.                                                      *)
(*                                                                         *)
(* For every number of subscriptions, handlers and runs of the job: under  *)
(* its lock one run works at a time until a job outlives it; the lock is   *)
(* that of CronLock, so this holds of the expiry job; a school has one     *)
(* current subscription, a renewal is not undone, and a cancellation is    *)
(* final, as SubscriptionTerms states with its excuses.                    *)
(*                                                                         *)
(* For any number of processes that generate invoices: their numbering,    *)
(* the billing of charges and the sequence of billing periods.  For any    *)
(* number of requests that pay them: what an invoice is credited with and  *)
(* when it is PAID.                                                        *)
(***************************************************************************)
EXTENDS SubscriptionTerms, InvoiceGeneration, InvoicePayments, Sequences,
        SequenceTheorems, FiniteSums

-----------------------------------------------------------------------------
(* The lock of CronLock, for any job.                                      *)

\* The key has been set by whoever works, until a lock expires under its run.
WorkerSetTheLock == ~overrun => \A r \in Runs : Working(r) => lock = r

LEMMA NextTypes == ASSUME LockTypeOK, [LockNext]_lockVars PROVE LockTypeOK'
<1> USE NoneAssumption
<1>1. CASE UNCHANGED lockVars
    BY <1>1 DEF LockTypeOK, lockVars
<1>2. ASSUME NEW r \in Runs, Acquire(r) PROVE LockTypeOK'
    BY <1>2 DEF Acquire, Enter, LockTypeOK, RunSteps
<1>3. ASSUME NEW r \in Runs, Skip(r) PROVE LockTypeOK'
    BY <1>3 DEF Skip, Enter, LockTypeOK, RunSteps
<1>4. ASSUME NEW r \in Runs, Expire(r) PROVE LockTypeOK'
    BY <1>4 DEF Expire, Enter, LockTypeOK, RunSteps
<1>5. ASSUME NEW r \in Runs, JobEnds(r) PROVE LockTypeOK'
    BY <1>5 DEF JobEnds, Enter, LockTypeOK, RunSteps
<1>6. ASSUME NEW r \in Runs, Release(r) PROVE LockTypeOK'
    BY <1>6 DEF Release, Enter, LockTypeOK, RunSteps
<1>7. ASSUME NEW r \in Runs, Dies(r) PROVE LockTypeOK'
    <2>1. abandoned' \in BOOLEAN
        BY <1>7, Zenon DEF Dies
    <2> QED
        BY <1>7, <2>1 DEF Dies, Enter, LockTypeOK, RunSteps
<1>8. CASE TimeToLiveEnds
    <2>1. overrun' \in BOOLEAN
        BY <1>8, Zenon DEF TimeToLiveEnds
    <2> QED
        BY <1>8, <2>1 DEF TimeToLiveEnds, LockTypeOK
<1> QED
    BY <1>1, <1>2, <1>3, <1>4, <1>5, <1>6, <1>7, <1>8 DEF LockNext, Run

LEMMA NextSetTheLock ==
    ASSUME LockTypeOK, WorkerSetTheLock, [LockNext]_lockVars PROVE WorkerSetTheLock'
<1> USE NoneAssumption
<1> SUFFICES ASSUME ~overrun', NEW q \in Runs, Working(q)' PROVE lock' = q
    BY DEF WorkerSetTheLock
<1>old. ~overrun => (\A r \in Runs : Working(r) => lock = r)
    BY DEF WorkerSetTheLock
<1>1. CASE UNCHANGED lockVars
    BY <1>1, <1>old DEF lockVars, Working
<1>2. ASSUME NEW r \in Runs, Acquire(r) PROVE lock' = q
    <2>1. CASE r # q
        <3>1. Working(q) /\ lock = None
            BY <1>2, <2>1 DEF Acquire, Enter, LockTypeOK, Working
        <3> QED
            BY <1>2, <3>1, <1>old DEF Acquire
    <2> QED
        BY <1>2, <2>1 DEF Acquire
<1>3. ASSUME NEW r \in Runs, Skip(r) PROVE lock' = q
    <2>1. Working(q)
        BY <1>3 DEF Skip, Enter, LockTypeOK, Working
    <2> QED
        BY <1>3, <2>1, <1>old DEF Skip
<1>4. ASSUME NEW r \in Runs, Expire(r) PROVE lock' = q
    <2>1. Working(q)
        BY <1>4 DEF Expire, Enter, LockTypeOK, Working
    <2> QED
        BY <1>4, <2>1, <1>old DEF Expire
<1>5. ASSUME NEW r \in Runs, JobEnds(r) PROVE lock' = q
    <2>1. Working(q)
        BY <1>5 DEF JobEnds, Enter, LockTypeOK, Working
    <2> QED
        BY <1>5, <2>1, <1>old DEF JobEnds
<1>6. ASSUME NEW r \in Runs, Release(r) PROVE lock' = q
    <2>1. r # q /\ Working(q) /\ Working(r)
        BY <1>6 DEF Release, Enter, LockTypeOK, Working
    <2> QED
        BY <1>6, <2>1, <1>old DEF Release
<1>7. ASSUME NEW r \in Runs, Dies(r) PROVE lock' = q
    <2>1. Working(q)
        BY <1>7 DEF Dies, Enter, LockTypeOK, Working
    <2> QED
        BY <1>7, <2>1, <1>old DEF Dies
<1>8. CASE TimeToLiveEnds
    <2>1. ~overrun /\ ~Working(lock)
        BY <1>8, Zenon DEF TimeToLiveEnds
    <2>2. Working(q)
        BY <1>8 DEF TimeToLiveEnds, Working
    <2> QED
        BY <2>1, <2>2, <1>old
<1> QED
    BY <1>1, <1>2, <1>3, <1>4, <1>5, <1>6, <1>7, <1>8 DEF LockNext, Run

\* The type invariant of the lock.
THEOREM LockTypeCorrect == LockSpec => []LockTypeOK
<1>1. LockInit => LockTypeOK
    BY DEF LockInit, LockTypeOK, RunSteps
<1>2. LockTypeOK /\ [LockNext]_lockVars => LockTypeOK'
    BY NextTypes
<1> QED
    BY <1>1, <1>2, PTL DEF LockSpec

\* The jobs of scheduler/tasks exclude each other: until a job outlives the 300
\* seconds of its lock, one run of it works at a time.
THEOREM RunsExclude == LockSpec => []OneRunAtATime
<1>1. LockInit => LockTypeOK /\ WorkerSetTheLock
    BY DEF LockInit, LockTypeOK, RunSteps, WorkerSetTheLock, Working
<1>2. LockTypeOK /\ WorkerSetTheLock /\ [LockNext]_lockVars => (LockTypeOK /\ WorkerSetTheLock)'
    BY NextTypes, NextSetTheLock
<1>3. WorkerSetTheLock => OneRunAtATime
    BY DEF WorkerSetTheLock, OneRunAtATime
<1> QED
    BY <1>1, <1>2, <1>3, PTL DEF LockSpec

-----------------------------------------------------------------------------
(* The lock of the expiry job.                                             *)

tvars == <<lockVars, terms>>

\* A step of the composition is a step of the lock, or leaves it alone.
LEMMA LockStep == ASSUME [TermsNext]_tvars PROVE [LockNext]_lockVars
<1>1. CASE UNCHANGED tvars
    BY <1>1 DEF tvars
<1>2. ASSUME NEW r \in Callers, TermsHandler(r) PROVE UNCHANGED lockVars
    BY <1>2 DEF TermsHandler, Create, InsertSubscription, Update, WriteUpdate, Cancel, WriteCancel,
                AddPayment, WriteRenewal, HandlerEnds, Existing, Reads
<1>3. ASSUME NEW r \in Runs, JobStep(r) PROVE UNCHANGED lockVars
    BY <1>3 DEF JobStep, EndTrials, ReadDue, RenewDue, ExpireDue, Job
<1>4. ASSUME NEW r \in Runs, JobOver(r) \/ RunDies(r) \/ Locking(r) PROVE LockNext
    BY <1>4 DEF JobOver, RunDies, Locking, LockNext, Run
<1>5. CASE KeyExpires
    BY <1>5 DEF KeyExpires, LockNext
<1>6. CASE DeleteSchool \/ DatePasses
    BY <1>6 DEF DeleteSchool, DatePasses
<1> QED
    BY <1>1, <1>2, <1>3, <1>4, <1>5, <1>6 DEF TermsNext

\* The expiry job, step by step, implements the job with one step that CronLock guards.
THEOREM ImplementsLock == TermsSpec => LockSpec
<1>1. TermsInit => LockInit
    BY DEF TermsInit
<1>2. [TermsNext]_tvars => [LockNext]_lockVars
    BY LockStep
<1> QED
    BY <1>1, <1>2, PTL DEF TermsSpec, LockSpec, tvars

\* The expiry job runs once at a time until a run outlives its lock.
THEOREM ExpiryRunsExclude == TermsSpec => []OneRunAtATime
    BY ImplementsLock, RunsExclude, PTL

-----------------------------------------------------------------------------
(* The subscriptions.                                                      *)

\* Who creates a subscription has found none and has an id of its own; who changes one
\* has read it, and pays for none that it has read CANCELLED.
HeldInv ==
    \A r \in Callers :
        /\ at[r] = "create" =>
              /\ held[r] \in Creation /\ held[r].found = {}
              /\ held[r].row.status \in {"ACTIVE", "TRIAL"}
              /\ sub[held[r].sub] = Absent
              /\ \A q \in Callers : at[q] = "create" /\ held[q].sub = held[r].sub => q = r
        /\ at[r] \in {"update", "cancel", "pay"} =>
              /\ held[r] \in Change
              /\ sub[held[r].sub] \in Subscription
        /\ at[r] = "pay" => held[r].was # "CANCELLED"

DueInv == \A r \in Runs : \A s \in due[r] : sub[s] \in Subscription

TermsInv == TermsTypeOK /\ HeldInv /\ DueInv

USE TermsAssumption DEF Callers

LEMMA AbsentRow == Absent \notin Subscription /\ Absent.status = "none"
    BY DEF Absent, Subscription, SubStatus

LEMMA RowChanges ==
    ASSUME NEW row \in Subscription
    PROVE  /\ \A status \in SubStatus : In(row, status) \in Subscription
           /\ \A status \in SubStatus : In(row, status).status = status
           /\ \A status \in SubStatus : In(row, status).ends = row.ends
           /\ Renewed(row) \in Subscription
           /\ Renewed(row).status = "ACTIVE"
           /\ \A h \in Change :
                 /\ Updated(h, row) \in Subscription
                 /\ Updated(h, row).status \in (IF SetsStatus(h) THEN {"ACTIVE", "TRIAL"}
                                                              ELSE {row.status})
                 /\ Updated(h, row).ends = "ahead" \/ Updated(h, row).ends = row.ends
<1>1. \A status \in SubStatus : /\ In(row, status) \in Subscription
                                /\ In(row, status).status = status
                                /\ In(row, status).ends = row.ends
    BY DEF In, Subscription, SubStatus
<1>2. Renewed(row) \in Subscription /\ Renewed(row).status = "ACTIVE"
    BY DEF Renewed, In, Subscription, SubStatus
<1>3. ASSUME NEW h \in Change
      PROVE  /\ Updated(h, row) \in Subscription
             /\ Updated(h, row).status \in (IF SetsStatus(h) THEN {"ACTIVE", "TRIAL"}
                                                          ELSE {row.status})
             /\ Updated(h, row).ends = "ahead" \/ Updated(h, row).ends = row.ends
    <2> DEFINE dated == [row EXCEPT !.ends = IF h.ends = "keep" THEN @ ELSE h.ends]
    <2>1. /\ dated \in Subscription /\ dated.status = row.status
          /\ dated.ends = "ahead" \/ dated.ends = row.ends
        BY DEF Subscription, Change
    <2>2. Updated(h, row) = IF ~SetsStatus(h) THEN dated
                            ELSE IF h.trial = "none" THEN In(dated, "ACTIVE")
                            ELSE [dated EXCEPT !.status = "TRIAL", !.trial = h.trial]
        BY DEF Updated
    <2> HIDE DEF dated
    <2>3. CASE ~SetsStatus(h)
        BY <2>1, <2>2, <2>3
    <2>4. CASE SetsStatus(h) /\ h.trial = "none"
        BY <2>1, <2>2, <2>4 DEF In, Subscription, SubStatus
    <2>5. CASE SetsStatus(h) /\ h.trial # "none"
        <3>1. h.trial \in {"none", "ahead"}
            BY <2>5 DEF SetsStatus, Change
        <3> QED
            BY <2>1, <2>2, <2>5, <3>1 DEF Subscription, SubStatus
    <2> QED
        BY <2>3, <2>4, <2>5
<1> QED
    BY <1>1, <1>2, <1>3

\* What every step but an insert does to the rows: those that exist go on to exist, the
\* others do not come into being.
RowsStay(S) ==
    /\ sub' \in [Subscriptions -> Subscription \cup {Absent}]
    /\ \A s \in Subscriptions : sub[s] \in Subscription => sub'[s] \in Subscription
    /\ \A s \in S : sub[s] = Absent => sub'[s] = Absent

\* A step of the job, the clock or the school: the requests keep what they hold.
LEMMA OthersKeep ==
    ASSUME TermsInv, UNCHANGED <<at, held>>, RowsStay(Subscriptions),
           stage' \in [Runs -> {"trials", "read", "renew", "done"}],
           due' \in [Runs -> SUBSET Subscriptions],
           \A r \in Runs : \A s \in due'[r] : sub[s] \in Subscription,
           excused' \subseteq Subscriptions
    PROVE  TermsInv'
<1>1. TermsTypeOK'
    BY DEF TermsInv, TermsTypeOK, RowsStay
<1>2. HeldInv'
    BY DEF TermsInv, HeldInv, RowsStay, Creation, Change
<1>3. DueInv'
    BY DEF RowsStay, DueInv
<1> QED
    BY <1>1, <1>2, <1>3 DEF TermsInv

\* A request ends; only its own row may come into being.
LEMMA EndKeeps ==
    ASSUME TermsInv, NEW r \in Callers, End(r), UNCHANGED <<stage, due>>,
           RowsStay(IF at[r] = "create" THEN Subscriptions \ {held[r].sub} ELSE Subscriptions),
           excused' \subseteq Subscriptions
    PROVE  TermsInv'
<1>1. TermsTypeOK'
    BY DEF TermsInv, TermsTypeOK, RowsStay, End
<1>2. HeldInv'
    <2> SUFFICES ASSUME NEW q \in Callers
                 PROVE  /\ at'[q] = "create" =>
                           /\ held'[q] \in Creation /\ held'[q].found = {}
                           /\ held'[q].row.status \in {"ACTIVE", "TRIAL"}
                           /\ sub'[held'[q].sub] = Absent
                           /\ \A p \in Callers :
                                 at'[p] = "create" /\ held'[p].sub = held'[q].sub => p = q
                        /\ at'[q] \in {"update", "cancel", "pay"} =>
                           /\ held'[q] \in Change
                           /\ sub'[held'[q].sub] \in Subscription
                        /\ at'[q] = "pay" => held'[q].was # "CANCELLED"
        BY DEF HeldInv
    <2>1. CASE q = r
        BY <2>1 DEF End, TermsInv, TermsTypeOK
    <2>2. CASE q # r
        <3>1. at'[q] = at[q] /\ held'[q] = held[q]
            BY <2>2 DEF End, TermsInv, TermsTypeOK
        <3>2. \A p \in Callers : at'[p] = "create" => at[p] = "create" /\ held'[p] = held[p]
            BY DEF End, TermsInv, TermsTypeOK
        <3>3. at[q] = "create" => sub'[held[q].sub] = Absent
            BY <2>2 DEF TermsInv, HeldInv, RowsStay, Creation
        <3> QED
            BY <3>1, <3>2, <3>3 DEF TermsInv, HeldInv, RowsStay, Change
    <2> QED
        BY <2>1, <2>2
<1>3. DueInv'
    BY DEF TermsInv, TermsTypeOK, DueInv, RowsStay
<1> QED
    BY <1>1, <1>2, <1>3 DEF TermsInv

LEMMA BeginKeeps ==
    ASSUME TermsInv, NEW r \in Callers, NEW op \in Ops, NEW rec, Begin(r, op, rec), Reads,
           op = "create" =>
              /\ rec \in Creation /\ rec.found = {} /\ rec.row.status \in {"ACTIVE", "TRIAL"}
              /\ sub[rec.sub] = Absent
              /\ \A q \in Callers : at[q] = "create" => held[q].sub # rec.sub,
           op # "create" => rec \in Change /\ sub[rec.sub] \in Subscription,
           op = "pay" => rec.was # "CANCELLED"
    PROVE  TermsInv'
<1>0. /\ at[r] = "idle" /\ at' = [at EXCEPT ![r] = op] /\ held' = [held EXCEPT ![r] = rec]
      /\ UNCHANGED <<sub, stage, due, excused>>
    BY DEF Begin, Reads
<1>1. TermsTypeOK'
    BY <1>0 DEF TermsInv, TermsTypeOK, Ops
<1>2. HeldInv'
    <2>1. \A q \in Callers : q # r => at'[q] = at[q] /\ held'[q] = held[q]
        BY <1>0 DEF TermsInv, TermsTypeOK
    <2>2. at'[r] = op /\ held'[r] = rec
        BY <1>0 DEF TermsInv, TermsTypeOK
    <2> QED
        BY <1>0, <2>1, <2>2 DEF TermsInv, HeldInv, Ops
<1>3. DueInv'
    BY <1>0 DEF TermsInv, DueInv
<1> QED
    BY <1>1, <1>2, <1>3 DEF TermsInv

LEMMA HandlerKeeps == ASSUME TermsInv, NEW r \in Callers, TermsHandler(r) PROVE TermsInv'
<1> USE AbsentRow
<1>1. CASE Create(r)
    <2>1. PICK s \in Subscriptions, free \in {"none", "ahead"} :
              /\ sub[s] = Absent /\ \A q \in Callers : at[q] = "create" => held[q].sub # s
              /\ Current = {} /\ Reads
              /\ Begin(r, "create", [sub |-> s, found |-> Current, row |-> NewRow(free)])
        BY <1>1 DEF Create, NoCurrent
    <2> DEFINE rec == [sub |-> s, found |-> Current, row |-> NewRow(free)]
    <2>2. rec \in Creation /\ rec.found = {} /\ rec.row.status \in {"ACTIVE", "TRIAL"} /\ rec.sub = s
        BY <2>1 DEF Creation, NewRow, Subscription, SubStatus
    <2> HIDE DEF rec
    <2> QED
        BY <2>1, <2>2, BeginKeeps DEF Ops, rec
<1>2. ASSUME NEW op \in {"update", "cancel", "pay"}, NEW statuses \in SUBSET SubStatus,
             NEW ends \in {"keep", "ahead"}, NEW free \in {"keep", "none", "ahead"},
             Existing(r, op, statuses, ends, free), op = "pay" => "CANCELLED" \notin statuses
      PROVE  TermsInv'
    <2>1. PICK s \in Subscriptions :
              /\ sub[s].status \in statuses /\ Reads
              /\ Begin(r, op, [sub |-> s, was |-> sub[s].status, ends |-> ends, trial |-> free])
        BY <1>2 DEF Existing
    <2> DEFINE rec == [sub |-> s, was |-> sub[s].status, ends |-> ends, trial |-> free]
    <2>2. sub[s] \in Subscription
        BY <2>1 DEF TermsInv, TermsTypeOK, SubStatus
    <2>3. rec \in Change /\ rec.sub = s /\ (op = "pay" => rec.was # "CANCELLED")
        BY <1>2, <2>1, <2>2 DEF Change, Subscription
    <2> HIDE DEF rec
    <2> QED
        BY <2>1, <2>2, <2>3, BeginKeeps DEF Ops, rec
<1>3. CASE InsertSubscription(r)
    <2>1. /\ at[r] = "create" /\ End(r) /\ UNCHANGED <<stage, due>>
          /\ sub' = [sub EXCEPT ![held[r].sub] = held[r].row]
          /\ excused' \in {excused, excused \cup {held[r].sub}}
        BY <1>3 DEF InsertSubscription, Write
    <2>2. held[r].sub \in Subscriptions /\ held[r].row \in Subscription
        BY <2>1 DEF TermsInv, HeldInv, Creation
    <2> QED
        BY <2>1, <2>2, EndKeeps DEF TermsInv, TermsTypeOK, RowsStay
<1>4. ASSUME at[r] \in {"update", "cancel", "pay"}, NEW row \in Subscription, End(r),
             sub' = [sub EXCEPT ![held[r].sub] = row], UNCHANGED <<stage, due>>,
             excused' \subseteq excused \cup {held[r].sub}
      PROVE  TermsInv'
    <2>1. held[r].sub \in Subscriptions /\ sub[held[r].sub] \in Subscription
        BY <1>4 DEF TermsInv, HeldInv, Change
    <2> QED
        BY <1>4, <2>1, EndKeeps DEF TermsInv, TermsTypeOK, RowsStay
<1>5. at[r] \in {"update", "cancel", "pay"} =>
          held[r] \in Change /\ sub[held[r].sub] \in Subscription
    BY DEF TermsInv, HeldInv
<1>6. held[r] \in Change => held[r].sub \in Subscriptions
    BY DEF Change
<1>7. CASE WriteUpdate(r)
    BY <1>4, <1>5, <1>7, RowChanges DEF WriteUpdate, Write
<1>8. CASE WriteCancel(r)
    <2>1. sub' = [sub EXCEPT ![held[r].sub] = In(sub[held[r].sub], "CANCELLED")]
        BY <1>5, <1>6, <1>8 DEF WriteCancel, TermsInv, TermsTypeOK
    <2> QED
        BY <1>4, <1>5, <1>8, <2>1, RowChanges DEF WriteCancel, SubStatus
<1>9. CASE WriteRenewal(r)
    BY <1>4, <1>5, <1>9, RowChanges DEF WriteRenewal, Write
<1>10. CASE HandlerEnds(r)
    BY <1>10, EndKeeps DEF HandlerEnds, Reads, RowsStay, TermsInv, TermsTypeOK
<1>11. CASE Update(r)
    BY <1>2, <1>11 DEF Update
<1>12. CASE Cancel(r)
    BY <1>2, <1>12 DEF Cancel, NotCancelled
<1>13. CASE AddPayment(r)
    BY <1>2, <1>13 DEF AddPayment, NotCancelled
<1> QED
    BY <1>1, <1>3, <1>7, <1>8, <1>9, <1>10, <1>11, <1>12, <1>13 DEF TermsHandler

LEMMA JobKeeps ==
    ASSUME TermsInv, NEW r \in Runs, JobStep(r) \/ JobOver(r) \/ RunDies(r) \/ Locking(r)
    PROVE  TermsInv'
<1> USE AbsentRow
<1>0. /\ sub \in [Subscriptions -> Subscription \cup {Absent}]
      /\ stage \in [Runs -> {"trials", "read", "renew", "done"}]
      /\ due \in [Runs -> SUBSET Subscriptions] /\ excused \subseteq Subscriptions
      /\ \A q \in Runs : \A s \in due[q] : sub[s] \in Subscription
    BY DEF TermsInv, TermsTypeOK, DueInv
<1>1. CASE EndTrials(r)
    <2>1. \A s \in Subscriptions : sub[s] \in Subscription => In(sub[s], "ACTIVE") \in Subscription
        BY RowChanges DEF SubStatus
    <2>2. RowsStay(Subscriptions)
        BY <1>0, <1>1, <2>1 DEF EndTrials, RowsStay
    <2> QED
        BY <1>0, <1>1, <2>2, OthersKeep DEF EndTrials, Job
<1>2. CASE ReadDue(r)
    <2>1. \A s \in Subscriptions : IsDue(sub[s]) => sub[s] \in Subscription
        BY <1>0 DEF IsDue
    <2> QED
        BY <1>0, <1>2, <2>1, OthersKeep DEF ReadDue, Job, RowsStay
<1>3. CASE RenewDue(r)
    <2>1. PICK s \in due[r] : /\ sub' = [sub EXCEPT ![s] = [sub[s] EXCEPT !.ends = "ahead"]]
                              /\ excused' \in {excused, excused \cup {s}}
                              /\ due' = [due EXCEPT ![r] = due[r] \ {s}]
        BY <1>0, <1>3 DEF RenewDue, Write
    <2>2. s \in Subscriptions /\ [sub[s] EXCEPT !.ends = "ahead"] \in Subscription
        BY <1>0 DEF Subscription
    <2>3. RowsStay(Subscriptions)
        BY <1>0, <2>1, <2>2 DEF RowsStay
    <2> QED
        BY <1>0, <1>3, <2>1, <2>2, <2>3, OthersKeep DEF RenewDue, Job
<1>4. CASE ExpireDue(r)
    <2>1. \A s \in due[r] : In(sub[s], "EXPIRED") \in Subscription
        BY <1>0, RowChanges DEF SubStatus
    <2>2. RowsStay(Subscriptions)
        BY <1>0, <1>4, <2>1 DEF ExpireDue, RowsStay
    <2> QED
        BY <1>0, <1>4, <2>2, OthersKeep DEF ExpireDue, Job
<1>5. CASE JobOver(r) \/ RunDies(r)
    BY <1>0, <1>5, OthersKeep DEF JobOver, RunDies, Forget, RowsStay
<1>6. CASE Locking(r)
    BY <1>0, <1>6, OthersKeep DEF Locking, terms, RowsStay
<1> QED
    BY <1>1, <1>2, <1>3, <1>4, <1>5, <1>6 DEF JobStep

LEMMA TermsNextKeeps == ASSUME TermsInv, [TermsNext]_tvars PROVE TermsInv'
<1> USE AbsentRow
<1>0. /\ sub \in [Subscriptions -> Subscription \cup {Absent}]
      /\ stage \in [Runs -> {"trials", "read", "renew", "done"}]
      /\ due \in [Runs -> SUBSET Subscriptions] /\ excused \subseteq Subscriptions
      /\ \A q \in Runs : \A s \in due[q] : sub[s] \in Subscription
    BY DEF TermsInv, TermsTypeOK, DueInv
<1>1. CASE DeleteSchool
    <2>1. \A s \in Subscriptions :
              sub[s] \in Subscription => In(sub[s], "CANCELLED") \in Subscription
        BY RowChanges DEF SubStatus
    <2>2. RowsStay(Subscriptions)
        BY <1>0, <1>1, <2>1 DEF DeleteSchool, RowsStay, Current
    <2> QED
        BY <1>0, <1>1, <2>2, OthersKeep DEF DeleteSchool
<1>2. CASE DatePasses
    <2>1. PICK s \in Subscriptions :
              \/ sub[s].ends = "ahead" /\ sub' = [sub EXCEPT ![s] = [sub[s] EXCEPT !.ends = "past"]]
              \/ /\ sub[s].trial = "ahead"
                 /\ sub' = [sub EXCEPT ![s] = [sub[s] EXCEPT !.trial = "past"]]
        BY <1>0, <1>2 DEF DatePasses
    <2>2. sub[s] \in Subscription
        BY <1>0, <2>1 DEF Absent
    <2>3. /\ [sub[s] EXCEPT !.ends = "past"] \in Subscription
          /\ [sub[s] EXCEPT !.trial = "past"] \in Subscription
        BY <2>2 DEF Subscription
    <2>4. RowsStay(Subscriptions)
        BY <1>0, <2>1, <2>2, <2>3 DEF RowsStay
    <2> QED
        BY <1>0, <1>2, <2>4, OthersKeep DEF DatePasses
<1>3. CASE KeyExpires
    BY <1>0, <1>3, OthersKeep DEF KeyExpires, terms, RowsStay
<1>4. CASE UNCHANGED tvars
    BY <1>0, <1>4, OthersKeep DEF tvars, terms, RowsStay
<1> QED
    BY <1>1, <1>2, <1>3, <1>4, HandlerKeeps, JobKeeps DEF TermsNext

LEMMA InitTerms == TermsInit => TermsInv
<1> SUFFICES ASSUME TermsInit PROVE TermsInv
    OBVIOUS
<1>1. [status |-> "ACTIVE", ends |-> "ahead", trial |-> "none"] \in Subscription
    BY DEF Subscription, SubStatus
<1>2. TermsTypeOK
    BY <1>1 DEF TermsInit, TermsTypeOK, Ops
<1>3. HeldInv /\ DueInv
    BY DEF TermsInit, HeldInv, DueInv
<1> QED
    BY <1>2, <1>3 DEF TermsInv

\* The type invariant of the subscriptions.
THEOREM TermsTypeCorrect == TermsSpec => []TermsTypeOK
<1>1. TermsInv => TermsTypeOK
    BY DEF TermsInv
<1> QED
    BY <1>1, InitTerms, TermsNextKeeps, PTL DEF TermsSpec, tvars

-----------------------------------------------------------------------------
(* What a step may do to a row that it leaves without an excuse.           *)

\* A cancelled row stays so; an expired one is past its end, or was expired and has kept
\* its end; a current one was so, or is the only one.
GoodRow(s) ==
    /\ sub[s].status = "CANCELLED" => sub'[s].status = "CANCELLED"
    /\ sub'[s].status = "EXPIRED" =>
          \/ sub'[s].ends = "past"
          \/ s \notin excused /\ sub[s].status = "EXPIRED" /\ sub'[s].ends = sub[s].ends
    /\ sub'[s].status \in {"ACTIVE", "TRIAL"} =>
          \/ s \notin excused /\ sub[s].status \in {"ACTIVE", "TRIAL"}
          \/ Current = {} /\ \A t \in Subscriptions : t # s => sub'[t] = sub[t]

LEMMA SameRow ==
    ASSUME NEW s, UNCHANGED sub[s], s \notin excused PROVE GoodRow(s)
    BY DEF GoodRow

LEMMA HandlerRows ==
    ASSUME TermsInv, NEW r \in Callers, TermsHandler(r), NEW s \in Subscriptions, s \notin excused'
    PROVE  GoodRow(s)
<1> USE AbsentRow
<1>0. sub \in [Subscriptions -> Subscription \cup {Absent}]
    BY DEF TermsInv, TermsTypeOK
<1>1. CASE Reads
    BY <1>1, SameRow DEF Reads
<1>2. CASE InsertSubscription(r)
    <2>1. /\ held[r].sub \in Subscriptions /\ held[r].found = {} /\ sub[held[r].sub] = Absent
          /\ held[r].row.status \in {"ACTIVE", "TRIAL"}
        BY <1>2 DEF InsertSubscription, TermsInv, HeldInv, Creation
    <2>2. /\ sub' = [sub EXCEPT ![held[r].sub] = held[r].row]
          /\ excused' = IF Current # {} THEN excused \cup {held[r].sub} ELSE excused
        BY <1>2, <2>1 DEF InsertSubscription, Write
    <2>3. CASE s # held[r].sub
        BY <1>0, <2>1, <2>2, <2>3, SameRow
    <2>4. CASE s = held[r].sub
        <3>1. Current = {} /\ sub'[s] = held[r].row
            BY <1>0, <2>1, <2>2, <2>4
        <3>2. \A t \in Subscriptions : t # s => sub'[t] = sub[t]
            BY <1>0, <2>1, <2>2, <2>4
        <3> QED
            BY <2>1, <2>4, <3>1, <3>2 DEF GoodRow
    <2> QED
        BY <2>3, <2>4
<1>3. at[r] \in {"update", "cancel", "pay"} =>
          /\ held[r] \in Change /\ held[r].sub \in Subscriptions
          /\ sub[held[r].sub] \in Subscription
          /\ at[r] = "pay" => held[r].was # "CANCELLED"
    BY DEF TermsInv, HeldInv, Change
<1>4. CASE WriteUpdate(r)
    <2> DEFINE h == held[r]
               row == Updated(h, sub[h.sub])
    <2>1. /\ h \in Change /\ h.sub \in Subscriptions /\ sub[h.sub] \in Subscription
          /\ sub' = [sub EXCEPT ![h.sub] = row]
          /\ excused' = IF \/ SetsStatus(h) /\ Changed(r)
                           \/ row.status = "EXPIRED" /\ row.ends = "ahead"
                        THEN excused \cup {h.sub} ELSE excused
        BY <1>3, <1>4 DEF WriteUpdate, Write
    <2>2. /\ row.status \in (IF SetsStatus(h) THEN {"ACTIVE", "TRIAL"} ELSE {sub[h.sub].status})
          /\ row \in Subscription
          /\ row.ends = "ahead" \/ row.ends = sub[h.sub].ends
        BY <2>1, RowChanges
    <2>3. SetsStatus(h) /\ ~Changed(r) => sub[h.sub].status \in {"ACTIVE", "TRIAL"}
        BY DEF SetsStatus, Changed
    <2> HIDE DEF row
    <2>4. CASE s # h.sub
        BY <1>0, <2>1, <2>4, SameRow
    <2>5. CASE s = h.sub
        <3>1. sub'[s] = row /\ s \notin excused
            BY <1>0, <2>1, <2>5
        <3>2. row.ends \in {"ahead", "past"}
            BY <2>2 DEF Subscription
        <3> QED
            BY <2>1, <2>2, <2>3, <2>5, <3>1, <3>2 DEF GoodRow
    <2> QED
        BY <2>4, <2>5
<1>5. CASE WriteCancel(r)
    <2>1. sub' = [sub EXCEPT ![held[r].sub] = In(sub[held[r].sub], "CANCELLED")]
        BY <1>0, <1>3, <1>5 DEF WriteCancel
    <2>2. excused' = excused \ {held[r].sub} /\ In(sub[held[r].sub], "CANCELLED").status = "CANCELLED"
        BY <1>3, <1>5, RowChanges DEF WriteCancel, SubStatus
    <2>3. CASE s # held[r].sub
        BY <1>0, <2>1, <2>2, <2>3, SameRow
    <2>4. CASE s = held[r].sub
        BY <1>0, <2>1, <2>2, <2>4 DEF GoodRow
    <2> QED
        BY <2>3, <2>4
<1>6. CASE WriteRenewal(r)
    <2>1. /\ sub' = [sub EXCEPT ![held[r].sub] = Renewed(sub[held[r].sub])]
          /\ excused' = IF Changed(r) \/ held[r].was = "EXPIRED"
                        THEN excused \cup {held[r].sub} ELSE excused
          /\ Renewed(sub[held[r].sub]).status = "ACTIVE" /\ at[r] = "pay"
        BY <1>3, <1>6, RowChanges DEF WriteRenewal, Write
    <2>2. held[r].was \in SubStatus
        BY <1>3, <2>1 DEF Change
    <2>3. CASE s # held[r].sub
        BY <1>0, <2>1, <2>3, SameRow
    <2>4. CASE s = held[r].sub
        <3>1. s \notin excused /\ sub[s].status \in {"ACTIVE", "TRIAL"}
            BY <1>3, <2>1, <2>2, <2>4 DEF Changed, SubStatus
        <3> QED
            BY <1>0, <2>1, <2>4, <3>1 DEF GoodRow
    <2> QED
        BY <2>3, <2>4
<1> QED
    BY <1>1, <1>2, <1>4, <1>5, <1>6
       DEF TermsHandler, Create, Update, Cancel, AddPayment, Existing, HandlerEnds

LEMMA JobRows ==
    ASSUME TermsInv, NEW r \in Runs, JobStep(r), NEW s \in Subscriptions, s \notin excused'
    PROVE  GoodRow(s)
<1> USE AbsentRow
<1>0. /\ sub \in [Subscriptions -> Subscription \cup {Absent}]
      /\ due \in [Runs -> SUBSET Subscriptions]
      /\ \A q \in Runs : \A t \in due[q] : sub[t] \in Subscription
    BY DEF TermsInv, TermsTypeOK, DueInv
<1>1. CASE EndTrials(r)
    <2>1. excused' = excused /\ sub'[s] = IF sub[s].status = "TRIAL" /\ sub[s].trial = "past"
                                          THEN In(sub[s], "ACTIVE") ELSE sub[s]
        BY <1>1 DEF EndTrials
    <2>2. CASE sub[s].status = "TRIAL" /\ sub[s].trial = "past"
        <3>1. sub[s] \in Subscription
            BY <1>0, <2>2
        <3>2. In(sub[s], "ACTIVE").status = "ACTIVE"
            BY <3>1, RowChanges DEF SubStatus
        <3> QED
            BY <2>1, <2>2, <3>2 DEF GoodRow
    <2> QED
        BY <2>1, <2>2, SameRow
<1>2. CASE ReadDue(r)
    BY <1>2, SameRow DEF ReadDue
<1>3. CASE RenewDue(r)
    <2>1. PICK t \in due[r] :
              /\ sub' = [sub EXCEPT ![t] = [sub[t] EXCEPT !.ends = "ahead"]]
              /\ excused' = IF ~IsDue(sub[t]) THEN excused \cup {t} ELSE excused
        BY <1>0, <1>3 DEF RenewDue, Write
    <2>2. CASE s # t
        BY <1>0, <2>1, <2>2, SameRow
    <2>3. CASE s = t
        <3>1. sub[s].status = "ACTIVE" /\ s \notin excused
            BY <2>1, <2>3 DEF IsDue
        <3>2. sub'[s].status = "ACTIVE"
            BY <1>0, <2>1, <2>3, <3>1 DEF Subscription
        <3> QED
            BY <3>1, <3>2 DEF GoodRow
    <2> QED
        BY <2>2, <2>3
<1>4. CASE ExpireDue(r)
    <2>1. /\ sub'[s] = IF s \in due[r] THEN In(sub[s], "EXPIRED") ELSE sub[s]
          /\ excused' = (excused \ due[r]) \cup {t \in due[r] : ~IsDue(sub[t])}
        BY <1>4 DEF ExpireDue
    <2>2. CASE s \in due[r]
        <3>1. IsDue(sub[s]) /\ sub[s] \in Subscription
            BY <1>0, <2>1, <2>2
        <3>2. In(sub[s], "EXPIRED").status = "EXPIRED" /\ In(sub[s], "EXPIRED").ends = sub[s].ends
            BY <3>1, RowChanges DEF SubStatus
        <3> QED
            BY <2>1, <2>2, <3>1, <3>2 DEF GoodRow, IsDue
    <2> QED
        BY <2>1, <2>2, SameRow
<1> QED
    BY <1>1, <1>2, <1>3, <1>4 DEF JobStep

LEMMA GoodRows ==
    ASSUME TermsInv, [TermsNext]_tvars, NEW s \in Subscriptions, s \notin excused'
    PROVE  GoodRow(s)
<1> USE AbsentRow
<1>0. sub \in [Subscriptions -> Subscription \cup {Absent}]
    BY DEF TermsInv, TermsTypeOK
<1>1. CASE DeleteSchool
    <2>1. excused' = excused \ Current /\ sub'[s] = IF s \in Current THEN In(sub[s], "CANCELLED")
                                                                     ELSE sub[s]
        BY <1>1 DEF DeleteSchool
    <2>2. CASE s \in Current
        <3>1. In(sub[s], "CANCELLED").status = "CANCELLED"
            BY <1>0, <2>2, RowChanges DEF Current, SubStatus
        <3> QED
            BY <2>1, <2>2, <3>1 DEF GoodRow
    <2> QED
        BY <2>1, <2>2, SameRow
<1>2. CASE DatePasses
    <2>1. PICK t \in Subscriptions :
              \/ sub[t].ends = "ahead" /\ sub' = [sub EXCEPT ![t] = [sub[t] EXCEPT !.ends = "past"]]
              \/ /\ sub[t].trial = "ahead"
                 /\ sub' = [sub EXCEPT ![t] = [sub[t] EXCEPT !.trial = "past"]]
        BY <1>0, <1>2 DEF DatePasses
    <2>2. excused' = excused
        BY <1>2 DEF DatePasses
    <2>3. CASE s # t
        BY <1>0, <2>1, <2>2, <2>3, SameRow
    <2>4. CASE s = t
        <3>1. sub[s] \in Subscription
            BY <1>0, <2>1, <2>4 DEF Absent
        <3>2. sub'[s].status = sub[s].status /\ sub'[s].ends \in {sub[s].ends, "past"}
            BY <1>0, <2>1, <2>4, <3>1 DEF Subscription
        <3> QED
            BY <2>2, <3>2 DEF GoodRow
    <2> QED
        BY <2>3, <2>4
<1>3. CASE UNCHANGED <<sub, excused>>
    BY <1>3, SameRow
<1> QED
    BY <1>1, <1>2, <1>3, HandlerRows, JobRows
       DEF TermsNext, JobOver, RunDies, Forget, Locking, KeyExpires, terms, tvars

\* A cancellation is final: only a step that relies on a row read before it undoes it.
THEOREM CancellationIsFinal == TermsSpec => CancelledForGood
<1>1. TermsInv /\ [TermsNext]_tvars =>
          [\A s \in Subscriptions :
               sub[s].status = "CANCELLED" /\ s \notin excused' => sub'[s].status = "CANCELLED"
          ]_tvars
    BY GoodRows DEF GoodRow
<1> QED
    BY <1>1, InitTerms, TermsNextKeeps, PTL DEF TermsSpec, tvars, CancelledForGood

\* The job expires what has ended, and a renewal before it is not undone.
THEOREM ExpiredOnlyAtTheEnd == TermsSpec => []ExpiredHasEnded
<1>1. TermsInit => ExpiredHasEnded
    BY DEF TermsInit, ExpiredHasEnded, Absent
<1>2. TermsInv /\ ExpiredHasEnded /\ [TermsNext]_tvars => ExpiredHasEnded'
    BY GoodRows DEF GoodRow, ExpiredHasEnded
<1> QED
    BY <1>1, <1>2, InitTerms, TermsNextKeeps, PTL DEF TermsSpec, tvars

\* The check of create keeps a school to one current subscription, with the excuses that
\* OneCurrent states.
THEOREM OneIsCurrent == TermsSpec => []OneCurrent
<1>1. TermsInit => OneCurrent
    BY DEF TermsInit, OneCurrent, Current, Absent
<1>2. TermsInv /\ OneCurrent /\ [TermsNext]_tvars => OneCurrent'
    <2> SUFFICES ASSUME TermsInv, OneCurrent, [TermsNext]_tvars,
                        NEW s \in Subscriptions, NEW t \in Subscriptions,
                        sub'[s].status \in {"ACTIVE", "TRIAL"}, s \notin excused',
                        sub'[t].status \in {"ACTIVE", "TRIAL"}, t \notin excused'
                 PROVE  s = t
        BY DEF OneCurrent, Current
    <2>1. GoodRow(s) /\ GoodRow(t)
        BY GoodRows
    <2> QED
        BY <2>1 DEF GoodRow, OneCurrent, Current
<1> QED
    BY <1>1, <1>2, InitTerms, TermsNextKeeps, PTL DEF TermsSpec, tvars

HIDE TermsAssumption DEF Callers

(***************************************************************************)
(* InvoiceGeneration                                                       *)
(***************************************************************************)

(***************************************************************************)
(* The inductive invariant                                                 *)
(***************************************************************************)

\* A subscription with a billed period has a latest period end.
HasLatest ==
    \A s \in Subs : PeriodEnds(s) # {} =>
        \E e \in PeriodEnds(s) : \A f \in PeriodEnds(s) : f <= e

\* No period is empty.
PeriodsLast == \A i \in invoices : i.start # NoPeriod => i.end \in Nat /\ i.start < i.end

\* A handler past its first step works for a subscription; the number read for its
\* transaction is at most the next free one.
HandlerInv(p) ==
    /\ pc[p] \notin {"idle", "done"} => local[p].sub \in Subs
    /\ pc[p] = "pending" => local[p].start = NoPeriod
    /\ pc[p] = "advance" => local[p].start # NoPeriod
    /\ pc[p] = "commit" => local[p].seq >= 1 /\ local[p].seq <= lastSeq[local[p].year] + 1
    /\ p = Cron => pc[p] # "done"

\* The period that p is about to bill starts where the latest one ends.
Follows(p, s) ==
    /\ \A i \in PeriodsOf(s) : i.end <= local[p].start
    /\ PeriodsOf(s) = {} \/ local[p].start \in PeriodEnds(s)

Chained(s) ==
    \A i \in PeriodsOf(s) :
        /\ \A j \in PeriodsOf(s) : i = j \/ i.end <= j.start \/ j.end <= i.start
        /\ i.start \in PeriodEnds(s) \/ \A j \in PeriodsOf(s) : i.start <= j.start

\* What holds of a subscription whose generations never overlapped.
PeriodsInv(s) ==
    /\ Chained(s)
    /\ \A p, q \in Procs : BillsPeriod(p, s) /\ BillsPeriod(q, s) => p = q
    /\ \A p \in Procs : BillsPeriod(p, s) => Follows(p, s)

IInv ==
    /\ TypeOK
    /\ HasLatest /\ PeriodsLast
    /\ \A p \in Procs : HandlerInv(p)
    /\ NumbersHaveNoGap
    /\ ChargesBilledOnce
    /\ \A s \in Subs \ disturbed : PeriodsInv(s)

(***************************************************************************)
(* The latest period end                                                   *)
(***************************************************************************)

LEMMA PeriodsTyped ==
    ASSUME TypeOK, PeriodsLast, NEW s, NEW i \in PeriodsOf(s)
    PROVE  i \in invoices /\ i.start \in Nat /\ i.end \in Nat /\ i.start < i.end
BY DEF TypeOK, PeriodsLast, Invoice, Date, PeriodsOf, NoPeriod

LEMMA LatestEndIsLatest ==
    ASSUME TypeOK, HasLatest, PeriodsLast, NEW s \in Subs, PeriodEnds(s) # {}
    PROVE  /\ LatestEnd(s) \in PeriodEnds(s)
           /\ LatestEnd(s) \in Nat
           /\ \A f \in PeriodEnds(s) : f <= LatestEnd(s)
<1>1. \E e \in PeriodEnds(s) : \A f \in PeriodEnds(s) : f <= e
  BY DEF HasLatest
<1>2. PeriodEnds(s) \subseteq Nat
  BY PeriodsTyped DEF PeriodEnds
<1> QED
  BY <1>1, <1>2 DEF LatestEnd

LEMMA BoundaryTyped ==
    ASSUME NEW from \in Nat, NEW date \in Nat
    PROVE  BoundaryAfter(from, date) \in Nat /\ date < BoundaryAfter(from, date)
BY DEF BoundaryAfter

(***************************************************************************)
(* Initial states                                                          *)
(***************************************************************************)

LEMMA NothingTyped == Nothing \in Local
BY BoundsAssumption DEF Nothing, Local, Date, NoPeriod, Years

LEMMA InitIInv == Init => IInv
<1> SUFFICES ASSUME Init PROVE IInv
  OBVIOUS
<1>1. TypeOK
  BY NothingTyped, BoundsAssumption DEF Init, TypeOK, Charge, ChargeStatus, Steps, Years
<1>2. \A s \in Subs : PeriodsOf(s) = {} /\ PeriodEnds(s) = {}
  BY DEF Init, PeriodsOf, PeriodEnds
<1>3. HasLatest /\ PeriodsLast
  BY <1>2 DEF Init, HasLatest, PeriodsLast
<1>4. \A p \in Procs : HandlerInv(p)
  BY DEF Init, HandlerInv
<1>5. NumbersHaveNoGap
  BY DEF Init, NumbersHaveNoGap
<1>6. ChargesBilledOnce
  BY DEF Init, ChargesBilledOnce
<1>7. \A s \in Subs : \A p \in Procs : ~BillsPeriod(p, s)
  BY DEF Init, BillsPeriod
<1>8. \A s \in Subs : PeriodsInv(s)
  BY <1>2, <1>7 DEF PeriodsInv, Chained
<1> QED
  BY <1>1, <1>3, <1>4, <1>5, <1>6, <1>8 DEF IInv

(***************************************************************************)
(* Steps that leave the invoices, the counters and the charges alone       *)
(***************************************************************************)

LEMMA GotoTyped ==
    ASSUME TypeOK, NEW p \in Procs, NEW step \in Steps, NEW seen \in Local,
           Goto(p, step, seen)
    PROVE  /\ pc' \in [Procs -> Steps]
           /\ local' \in [Procs -> Local]
           /\ pc'[p] = step
           /\ local'[p] = seen
           /\ \A q \in Procs : q # p => pc'[q] = pc[q] /\ local'[q] = local[q]
BY DEF TypeOK, Goto

LEMMA FinishTyped ==
    ASSUME TypeOK, NEW p \in Procs, Finish(p)
    PROVE  /\ pc' \in [Procs -> Steps]
           /\ local' \in [Procs -> Local]
           /\ pc'[p] = IF p = Cron THEN "idle" ELSE "done"
           /\ local'[p] = Nothing
           /\ \A q \in Procs : q # p => pc'[q] = pc[q] /\ local'[q] = local[q]
BY NothingTyped, GotoTyped DEF Finish, Steps

\* No process begins to bill s, and those that do keep their period.
Goes(s) ==
    \A q \in Procs : BillsPeriod(q, s)' => BillsPeriod(q, s) /\ local'[q].start = local[q].start

LEMMA StepsAside ==
    ASSUME NEW s, PeriodsInv(s), PeriodsOf(s)' = PeriodsOf(s), Goes(s)
    PROVE  PeriodsInv(s)'
<1>1. PeriodEnds(s)' = PeriodEnds(s)
  BY DEF PeriodEnds
<1>2. Chained(s)'
  BY <1>1 DEF PeriodsInv, Chained
<1>3. \A p, q \in Procs : BillsPeriod(p, s)' /\ BillsPeriod(q, s)' => p = q
  BY DEF PeriodsInv, Goes
<1>4. ASSUME NEW p \in Procs, BillsPeriod(p, s)' PROVE Follows(p, s)'
  <2>1. Follows(p, s) /\ local'[p].start = local[p].start
    BY <1>4 DEF PeriodsInv, Goes
  <2> QED
    BY <1>1, <2>1 DEF Follows
<1> QED
  BY <1>2, <1>3, <1>4 DEF PeriodsInv

\* A step of p, after which p bills no period it did not bill before.
LEMMA MoveStep ==
    ASSUME IInv, NEW p \in Procs, UNCHANGED <<lastSeq, invoices, doubled>>,
           \A c \in Charges : charge'[c].status = "INVOICED" <=> charge[c].status = "INVOICED",
           disturbed \subseteq disturbed',
           \A q \in Procs : q # p => pc'[q] = pc[q] /\ local'[q] = local[q],
           TypeOK', HandlerInv(p)',
           \A s \in Subs \ disturbed' : BillsPeriod(p, s)' =>
              BillsPeriod(p, s) /\ local'[p].start = local[p].start
    PROVE  IInv'
<1>1. \A s : PeriodsOf(s)' = PeriodsOf(s) /\ PeriodEnds(s)' = PeriodEnds(s)
  BY DEF PeriodsOf, PeriodEnds
<1>2. HasLatest' /\ PeriodsLast'
  BY <1>1 DEF IInv, HasLatest, PeriodsLast
<1>3. \A q \in Procs : HandlerInv(q)'
  BY DEF IInv, HandlerInv
<1>4. NumbersHaveNoGap' /\ ChargesBilledOnce'
  BY DEF IInv, NumbersHaveNoGap, ChargesBilledOnce
<1>5. ASSUME NEW s \in Subs \ disturbed' PROVE PeriodsInv(s)'
  <2>1. PeriodsInv(s)
    BY DEF IInv
  <2>2. Goes(s)
    BY DEF Goes, BillsPeriod
  <2> QED
    BY <1>1, <2>1, <2>2, StepsAside
<1> QED
  BY <1>2, <1>3, <1>4, <1>5 DEF IInv

\* A new request, or the cron, turns to a subscription.
LEMMA Starts ==
    ASSUME IInv, NEW p \in Procs, NEW s \in Subs,
           NEW step \in {"pending", "subscription"} \cup Updates,
           NEW seen \in Local, seen.sub = s, seen.start = NoPeriod,
           Goto(p, step, seen),
           UNCHANGED <<lastSeq, invoices, anchor, nextBilling, clock, doubled, disturbed>>,
           queue' \subseteq queue,
           charge' \in [Charges -> Charge],
           \A c \in Charges : charge'[c].status = "INVOICED" <=> charge[c].status = "INVOICED"
    PROVE  IInv'
<1>1. TypeOK /\ step \in Steps
  BY DEF Steps, IInv
<1>2. /\ pc' \in [Procs -> Steps] /\ local' \in [Procs -> Local]
      /\ pc'[p] = step /\ local'[p] = seen
      /\ \A q \in Procs : q # p => pc'[q] = pc[q] /\ local'[q] = local[q]
  BY <1>1, GotoTyped
<1>3. TypeOK'
  BY <1>1, <1>2 DEF TypeOK, clock
<1>4. HandlerInv(p)'
  BY <1>2 DEF HandlerInv, Updates
<1>5. \A t \in Subs : ~BillsPeriod(p, t)'
  BY <1>2 DEF BillsPeriod, Updates
<1> QED
  BY <1>2, <1>3, <1>4, <1>5, MoveStep DEF clock

\* What a process knows when it has only named its subscription.
LEMMA NamesSub ==
    ASSUME NEW s \in Subs
    PROVE  LET seen == [Nothing EXCEPT !.sub = s]
           IN  seen \in Local /\ seen.sub = s /\ seen.start = NoPeriod /\ seen.charges = {}
BY NothingTyped DEF Local, Nothing

LEMMA CreateChargeStep ==
    ASSUME IInv, NEW r \in Procs, NEW c \in Charges, NEW s \in Subs, CreateCharge(r, c, s)
    PROVE  IInv'
<1>1. charge' \in [Charges -> Charge]
  BY DEF CreateCharge, IInv, TypeOK, Charge, ChargeStatus
<1>2. \A d \in Charges : charge'[d].status = "INVOICED" <=> charge[d].status = "INVOICED"
  BY DEF CreateCharge, IInv, TypeOK
<1> QED
  BY <1>1, <1>2, NamesSub, Starts DEF CreateCharge

LEMMA SubscriptionAssignedStep ==
    ASSUME IInv, NEW r \in Procs, NEW s \in Subs, SubscriptionAssigned(r, s)
    PROVE  IInv'
<1>1. charge' \in [Charges -> Charge]
  BY DEF SubscriptionAssigned, tables, IInv, TypeOK
<1> QED
  BY <1>1, NamesSub, Starts DEF SubscriptionAssigned, tables

LEMMA CreateManualStep ==
    ASSUME IInv, NEW r \in Procs, NEW s \in Subs, CreateManual(r, s)
    PROVE  IInv'
<1>1. charge' \in [Charges -> Charge]
  BY DEF CreateManual, tables, IInv, TypeOK
<1> QED
  BY <1>1, NamesSub, Starts DEF CreateManual, tables

LEMMA CronTakesStep ==
    ASSUME IInv, NEW s \in Subs, CronTakes(s)
    PROVE  IInv'
<1>1. charge' \in [Charges -> Charge] /\ Cron \in Procs
  BY DEF CronTakes, tables, IInv, TypeOK, Procs
<1> QED
  BY <1>1, NamesSub, Starts DEF CronTakes, tables

LEMMA UpdateReadStep ==
    ASSUME IInv, NEW r \in Procs, NEW s \in Subs, NEW what \in Updates, NEW from \in 0..MaxNow,
           UpdateRead(r, s, what, from)
    PROVE  IInv'
<1> DEFINE seen == [Nothing EXCEPT !.sub = s, !.anchor = from]
<1>1. from \in Nat /\ charge' \in [Charges -> Charge]
  BY BoundsAssumption DEF UpdateRead, tables, IInv, TypeOK
<1>2. seen \in Local /\ seen.sub = s /\ seen.start = NoPeriod
  BY <1>1, NothingTyped DEF Local, Nothing
<1>3. Goto(r, what, seen) /\ UNCHANGED <<tables, clock, queue, doubled, disturbed>>
  BY DEF UpdateRead
<1> HIDE DEF seen
<1> QED
  BY <1>1, <1>2, <1>3, Starts DEF tables

LEMMA FailsStep ==
    ASSUME IInv, NEW p \in Procs, Finish(p), UNCHANGED <<tables, clock, queue, doubled, disturbed>>
    PROVE  IInv'
<1>1. /\ pc' \in [Procs -> Steps] /\ local' \in [Procs -> Local]
      /\ pc'[p] = IF p = Cron THEN "idle" ELSE "done"
      /\ \A q \in Procs : q # p => pc'[q] = pc[q] /\ local'[q] = local[q]
  BY FinishTyped DEF IInv
<1>2. TypeOK'
  BY <1>1 DEF IInv, TypeOK, tables, clock
<1>3. HandlerInv(p)'
  BY <1>1 DEF HandlerInv
<1>4. \A s \in Subs : ~BillsPeriod(p, s)'
  BY <1>1 DEF BillsPeriod
<1> QED
  BY <1>1, <1>2, <1>3, <1>4, MoveStep DEF tables, clock

\* p reads on for its subscription; if it bills a period, it already did.
LEMMA ReadsOn ==
    ASSUME IInv, NEW p \in Procs, NEW step \in {"period", "counter", "commit"}, NEW seen \in Local,
           pc[p] \in {"pending", "subscription", "charges", "counter"},
           pc[p] = "subscription" <=> step = "period",
           Goto(p, step, seen), seen.sub = local[p].sub, seen.start = local[p].start,
           step = "commit" => seen.seq >= 1 /\ seen.seq <= lastSeq[seen.year] + 1,
           UNCHANGED <<tables, clock, queue, doubled, disturbed>>
    PROVE  IInv'
<1>1. TypeOK /\ HandlerInv(p) /\ step \in Steps
  BY DEF IInv, Steps
<1>2. /\ pc' \in [Procs -> Steps] /\ local' \in [Procs -> Local]
      /\ pc'[p] = step /\ local'[p] = seen
      /\ \A q \in Procs : q # p => pc'[q] = pc[q] /\ local'[q] = local[q]
  BY <1>1, GotoTyped
<1>3. TypeOK'
  BY <1>1, <1>2 DEF TypeOK, tables, clock
<1>4. HandlerInv(p)'
  BY <1>1, <1>2 DEF HandlerInv, tables
<1>5. \A s \in Subs : BillsPeriod(p, s)' => BillsPeriod(p, s) /\ local'[p].start = local[p].start
  BY <1>1, <1>2 DEF BillsPeriod, HandlerInv
<1> QED
  BY <1>2, <1>3, <1>4, <1>5, MoveStep DEF tables, clock

LEMMA PendingReadStep ==
    ASSUME IInv, NEW p \in Procs, PendingRead(p)
    PROVE  IInv'
<1> DEFINE pending == findPendingOneTimeCharges(local[p].sub)
           seen == [local[p] EXCEPT !.charges = pending]
<1>1. /\ pc[p] = "pending" /\ local[p] \in Local /\ pending \subseteq Charges
      /\ UNCHANGED <<tables, clock, queue, doubled, disturbed>>
      /\ Finish(p) \/ Goto(p, "counter", seen)
  BY DEF IInv, PendingRead, TypeOK, findPendingOneTimeCharges
<1> HIDE DEF pending
<1>2. seen \in Local /\ seen.sub = local[p].sub /\ seen.start = local[p].start
  BY <1>1 DEF Local
<1> HIDE DEF seen
<1> QED
  BY <1>1, <1>2, FailsStep, ReadsOn

LEMMA SubscriptionReadStep ==
    ASSUME IInv, NEW p \in Procs, SubscriptionRead(p)
    PROVE  IInv'
<1> DEFINE seen == [local[p] EXCEPT !.anchor = anchor[local[p].sub]]
<1>1. /\ Goto(p, "period", seen) /\ pc[p] = "subscription"
      /\ UNCHANGED <<tables, clock, queue, doubled, disturbed>>
      /\ local[p] \in Local /\ anchor[local[p].sub] \in Nat
  BY DEF SubscriptionRead, IInv, TypeOK, HandlerInv
<1>2. seen \in Local /\ seen.sub = local[p].sub /\ seen.start = local[p].start
  BY <1>1 DEF Local
<1> HIDE DEF seen
<1> QED
  BY <1>1, <1>2, ReadsOn

LEMMA ChargesReadStep ==
    ASSUME IInv, NEW p \in Procs, ChargesRead(p)
    PROVE  IInv'
<1> DEFINE pending == findPendingOneTimeCharges(local[p].sub)
           seen == [local[p] EXCEPT !.charges = pending]
<1>1. pending \subseteq Charges /\ local[p] \in Local
  BY DEF findPendingOneTimeCharges, IInv, TypeOK
<1>2. Goto(p, "counter", seen) /\ pc[p] = "charges"
  BY DEF ChargesRead
<1>3. UNCHANGED <<tables, clock, queue, doubled, disturbed>>
  BY DEF ChargesRead
<1> HIDE DEF pending
<1>4. seen \in Local /\ seen.sub = local[p].sub /\ seen.start = local[p].start
  BY <1>1 DEF Local
<1> HIDE DEF seen
<1> QED
  BY <1>2, <1>3, <1>4, ReadsOn

LEMMA CounterReadStep ==
    ASSUME IInv, NEW p \in Procs, CounterRead(p)
    PROVE  IInv'
<1> DEFINE n == lastSeq[year] + 1
           seen == [local[p] EXCEPT !.year = year, !.seq = n]
<1>1. year \in Years /\ n \in Nat /\ n >= 1 /\ local[p] \in Local
  BY DEF IInv, TypeOK
<1>2. Goto(p, "commit", seen) /\ pc[p] = "counter"
  BY DEF CounterRead
<1>3. UNCHANGED <<tables, clock, queue, doubled, disturbed>>
  BY DEF CounterRead
<1>4. n <= lastSeq[year] + 1
  BY <1>1
<1> HIDE DEF n
<1>5. /\ seen \in Local /\ seen.sub = local[p].sub /\ seen.start = local[p].start
      /\ seen.year = year /\ seen.seq = n
  BY <1>1 DEF Local
<1> HIDE DEF seen
<1>6. seen.seq >= 1 /\ seen.seq <= lastSeq[seen.year] + 1
  BY <1>1, <1>4, <1>5
<1> QED
  BY <1>2, <1>3, <1>5, <1>6, ReadsOn

(***************************************************************************)
(* The period                                                              *)
(***************************************************************************)

LEMMA StartTyped ==
    ASSUME IInv, NEW p \in Procs, pc[p] = "period"
    PROVE  periodStart(p) \in Nat /\ local[p].sub \in Subs
<1>1. TypeOK /\ HasLatest /\ PeriodsLast /\ HandlerInv(p) /\ local[p].anchor \in Nat
  BY DEF IInv, TypeOK, Local
<1>2. local[p].sub \in Subs
  BY <1>1 DEF HandlerInv
<1>3. PeriodEnds(local[p].sub) # {} => LatestEnd(local[p].sub) \in Nat
  BY <1>1, <1>2, LatestEndIsLatest
<1> QED
  BY <1>1, <1>2, <1>3 DEF periodStart

LEMMA PeriodReadStep ==
    ASSUME IInv, NEW p \in Procs, PeriodRead(p)
    PROVE  IInv'
<1> PICK s : s = local[p].sub
  OBVIOUS
<1> PICK start : start = periodStart(p)
  OBVIOUS
<1> DEFINE seen == [local[p] EXCEPT !.start = start]
<1>1. /\ TypeOK /\ HasLatest /\ PeriodsLast /\ HandlerInv(p) /\ pc[p] = "period"
      /\ local[p] \in Local /\ Goto(p, "charges", seen) /\ "charges" \in Steps
      /\ disturbed' = IF \E q \in Procs \ {p} : BillsPeriod(q, s)
                      THEN disturbed \cup {s} ELSE disturbed
      /\ UNCHANGED <<tables, clock, queue, doubled>>
  BY DEF IInv, PeriodRead, TypeOK, Steps
<1>2. s \in Subs /\ start \in Nat
  BY <1>1, StartTyped
<1>3. seen \in Local /\ seen.sub = s /\ seen.start = start
  BY <1>1, <1>2 DEF Local, Date
<1> HIDE DEF seen
<1>4. /\ pc' \in [Procs -> Steps] /\ local' \in [Procs -> Local]
      /\ pc'[p] = "charges" /\ local'[p] = seen
      /\ \A q \in Procs : q # p => pc'[q] = pc[q] /\ local'[q] = local[q]
  BY <1>1, <1>3, GotoTyped
<1>5. TypeOK'
  BY <1>1, <1>2, <1>4 DEF TypeOK, tables, clock
<1>6. \A q \in Procs : HandlerInv(q)'
  BY <1>1, <1>2, <1>3, <1>4 DEF IInv, HandlerInv, tables
<1>7. \A t : PeriodsOf(t)' = PeriodsOf(t) /\ PeriodEnds(t)' = PeriodEnds(t)
  BY <1>1 DEF PeriodsOf, PeriodEnds, tables
<1>8. HasLatest' /\ PeriodsLast' /\ NumbersHaveNoGap' /\ ChargesBilledOnce'
  BY <1>1, <1>7 DEF IInv, HasLatest, PeriodsLast, NumbersHaveNoGap, ChargesBilledOnce, tables
<1>9. ASSUME NEW t \in Subs \ disturbed' PROVE PeriodsInv(t)'
  <2>1. t \notin disturbed /\ PeriodsInv(t)
    BY <1>1 DEF IInv
  <2>2. CASE t # s
    <3>1. Goes(t)
      BY <1>3, <1>4, <2>2 DEF Goes, BillsPeriod
    <3> QED
      BY <1>7, <2>1, <3>1, StepsAside
  <2>3. CASE t = s
    <3>1. \A q \in Procs : BillsPeriod(q, s)' => q = p
      BY <1>1, <1>4, <2>3 DEF BillsPeriod
    <3>2. Chained(s)'
      BY <1>7, <2>1, <2>3 DEF PeriodsInv, Chained
    <3>3. Follows(p, s)'
      <4>1. CASE PeriodEnds(s) = {}
        <5>1. PeriodsOf(s) = {}
          BY <4>1 DEF PeriodEnds
        <5> QED
          BY <1>7, <5>1 DEF Follows
      <4>2. CASE PeriodEnds(s) # {}
        <5>1. LatestEnd(s) \in PeriodEnds(s) /\ \A f \in PeriodEnds(s) : f <= LatestEnd(s)
          BY <1>1, <1>2, <4>2, LatestEndIsLatest
        <5>2. start = LatestEnd(s)
          BY <4>2 DEF periodStart
        <5>3. \A i \in PeriodsOf(s) : i.end <= start
          BY <5>1, <5>2 DEF PeriodEnds
        <5> QED
          BY <1>3, <1>4, <1>7, <5>1, <5>2, <5>3 DEF Follows
      <4> QED
        BY <4>1, <4>2
    <3> QED
      BY <2>3, <3>1, <3>2, <3>3 DEF PeriodsInv
  <2> QED
    BY <2>2, <2>3
<1> QED
  BY <1>5, <1>6, <1>8, <1>9 DEF IInv

(***************************************************************************)
(* The transaction                                                         *)
(***************************************************************************)

\* The transaction that commits has the next free number.
LEMMA NextNumber ==
    ASSUME IInv, NEW p \in Procs, pc[p] = "commit", ~NumberTaken(p)
    PROVE  local[p].seq = lastSeq[local[p].year] + 1
<1> DEFINE y == local[p].year
           n == local[p].seq
<1>1. y \in Years /\ n \in Nat /\ lastSeq[y] \in Nat
  BY DEF IInv, TypeOK, Local
<1>2. n >= 1 /\ n <= lastSeq[y] + 1
  BY DEF IInv, HandlerInv
<1>3. {i.seq : i \in {j \in invoices : j.year = y}} = 1..lastSeq[y]
  BY <1>1 DEF IInv, NumbersHaveNoGap
<1>4. n \notin 1..lastSeq[y]
  BY <1>3 DEF NumberTaken
<1> QED
  BY <1>1, <1>2, <1>4

LEMMA CommitStep ==
    ASSUME IInv, NEW p \in Procs, Commit(p)
    PROVE  IInv'
<1> DEFINE new == local[p]
<1> PICK end : end = IF new.start = NoPeriod THEN NoPeriod ELSE periodEnd(p)
  OBVIOUS
<1> DEFINE row == [by |-> p, year |-> new.year, seq |-> new.seq, sub |-> new.sub,
                   start |-> new.start, end |-> end, charges |-> new.charges]
<1>1. /\ TypeOK /\ HandlerInv(p) /\ pc[p] = "commit" /\ ~NumberTaken(p)
      /\ lastSeq' = [lastSeq EXCEPT ![new.year] = new.seq]
      /\ invoices' = invoices \cup {row}
      /\ charge' = MarkInvoiced(new.charges)
      /\ doubled' = doubled \cup {c \in new.charges : charge[c].status # "PENDING"}
      /\ UNCHANGED <<anchor, nextBilling, clock, queue, disturbed>>
  BY DEF IInv, Commit
<1>2. /\ new \in Local /\ new.sub \in Subs /\ new.year \in Years /\ new.seq \in Nat
      /\ new.start \in Nat \cup {NoPeriod} /\ new.charges \subseteq Charges
      /\ new.seq = lastSeq[new.year] + 1 /\ new.anchor \in Nat
  BY <1>1, NextNumber DEF TypeOK, HandlerInv, Local, Date
<1>3. /\ pc' \in [Procs -> Steps] /\ local' \in [Procs -> Local]
      /\ \A q \in Procs : q # p => pc'[q] = pc[q] /\ local'[q] = local[q]
      /\ new.start = NoPeriod => pc'[p] \in {"idle", "done"} /\ (p = Cron => pc'[p] = "idle")
      /\ new.start # NoPeriod => pc'[p] = "advance" /\ local'[p] = new
  <2>1. CASE new.start = NoPeriod
    <3>1. Finish(p)
      BY <2>1 DEF Commit
    <3> QED
      BY <1>1, <2>1, <3>1, FinishTyped
  <2>2. CASE new.start # NoPeriod
    <3>1. Goto(p, "advance", new) /\ "advance" \in Steps
      BY <2>2 DEF Commit, Steps
    <3> QED
      BY <1>1, <1>2, <2>2, <3>1, GotoTyped
  <2> QED
    BY <2>1, <2>2
<1>4. end \in Date /\ (new.start # NoPeriod => end \in Nat /\ new.start < end)
  BY <1>2, BoundaryTyped DEF periodEnd, Date
<1>5. row \in Invoice
  BY <1>1, <1>2, <1>4 DEF Invoice, TypeOK, Date
<1>51. /\ row.by = p /\ row.year = new.year /\ row.seq = new.seq /\ row.sub = new.sub
      /\ row.start = new.start /\ row.charges = new.charges /\ row.end = end
  OBVIOUS
<1>6. /\ charge' \in [Charges -> Charge]
      /\ \A c \in Charges : charge'[c].status = IF c \in new.charges THEN "INVOICED"
                                                                    ELSE charge[c].status
  BY <1>1 DEF MarkInvoiced, TypeOK, Charge, ChargeStatus
<1> HIDE DEF row
<1>7. TypeOK'
  BY <1>1, <1>2, <1>3, <1>5, <1>6 DEF TypeOK, clock
<1>8. \A q \in Procs : HandlerInv(q)'
  <2>1. \A y \in Years : lastSeq'[y] \in Nat /\ lastSeq[y] \in Nat /\ lastSeq'[y] >= lastSeq[y]
    BY <1>1, <1>2 DEF TypeOK
  <2>2. HandlerInv(p)'
    BY <1>1, <1>2, <1>3 DEF HandlerInv
  <2>3. ASSUME NEW q \in Procs, q # p PROVE HandlerInv(q)'
    <3>1. HandlerInv(q) /\ local[q].year \in Years /\ local[q].seq \in Nat
      BY <1>1 DEF IInv, TypeOK, Local
    <3>2. pc'[q] = pc[q] /\ local'[q] = local[q]
      BY <1>3, <2>3
    <3>3. pc[q] = "commit" => local[q].seq >= 1 /\ local[q].seq <= lastSeq'[local[q].year] + 1
      BY <2>1, <3>1 DEF HandlerInv
    <3> QED
      BY <3>1, <3>2, <3>3 DEF HandlerInv
  <2> QED
    BY <2>2, <2>3
<1>9. NumbersHaveNoGap'
  <2>1. ASSUME NEW i \in invoices', NEW j \in invoices', i.year = j.year, i.seq = j.seq
        PROVE  i = j
    BY <1>1, <1>51, <2>1 DEF IInv, NumbersHaveNoGap, NumberTaken
  <2>2. ASSUME NEW y \in Years
        PROVE  {i.seq : i \in {j \in invoices' : j.year = y}} = 1..lastSeq'[y]
    <3>1. {i.seq : i \in {j \in invoices : j.year = y}} = 1..lastSeq[y] /\ lastSeq[y] \in Nat
      BY <1>1 DEF IInv, NumbersHaveNoGap, TypeOK
    <3>2. CASE y # new.year
      <4>1. {j \in invoices' : j.year = y} = {j \in invoices : j.year = y}
        BY <1>1, <1>51, <3>2
      <4>2. lastSeq'[y] = lastSeq[y]
        BY <1>1, <3>2 DEF TypeOK
      <4> QED
        BY <3>1, <4>1, <4>2
    <3>3. CASE y = new.year
      <4>1. {i.seq : i \in {j \in invoices' : j.year = y}} =
               {i.seq : i \in {j \in invoices : j.year = y}} \cup {new.seq}
        BY <1>1, <1>51, <3>3
      <4>2. lastSeq'[y] = lastSeq[y] + 1 /\ new.seq = lastSeq[y] + 1
        BY <1>1, <1>2, <3>3 DEF TypeOK
      <4>3. 1..(lastSeq[y] + 1) = 1..lastSeq[y] \cup {lastSeq[y] + 1}
        BY <3>1
      <4> QED
        BY <3>1, <4>1, <4>2, <4>3
    <3> QED
      BY <3>2, <3>3
  <2> QED
    BY <2>1, <2>2 DEF NumbersHaveNoGap
<1>10. ChargesBilledOnce'
  <2>1. ASSUME NEW c \in Charges
        PROVE  charge'[c].status = "INVOICED" <=> \E i \in invoices' : c \in i.charges
    BY <1>1, <1>51, <1>6 DEF IInv, ChargesBilledOnce
  <2>2. ASSUME NEW c \in Charges \ doubled', NEW i \in invoices', NEW j \in invoices',
               c \in i.charges, c \in j.charges
        PROVE  i = j
    <3>1. c \in new.charges => \A k \in invoices : c \notin k.charges
      BY <1>1, <2>2 DEF IInv, ChargesBilledOnce
    <3> QED
      BY <1>1, <1>51, <2>2, <3>1 DEF IInv, ChargesBilledOnce
  <2> QED
    BY <2>1, <2>2 DEF ChargesBilledOnce
<1>11. ASSUME NEW s, s # new.sub \/ new.start = NoPeriod
       PROVE  PeriodsOf(s)' = PeriodsOf(s) /\ PeriodEnds(s)' = PeriodEnds(s)
  <2>1. PeriodsOf(s)' = PeriodsOf(s)
    BY <1>1, <1>51, <1>11 DEF PeriodsOf
  <2> QED
    BY <2>1 DEF PeriodEnds
<1>12. ASSUME NEW s, s = new.sub, new.start # NoPeriod
       PROVE  PeriodsOf(s)' = PeriodsOf(s) \cup {row} /\ PeriodEnds(s)' = PeriodEnds(s) \cup {end}
  <2>1. PeriodsOf(s)' = PeriodsOf(s) \cup {row}
    BY <1>1, <1>51, <1>12 DEF PeriodsOf
  <2> QED
    BY <1>51, <2>1 DEF PeriodEnds
<1>13. PeriodsLast'
  BY <1>1, <1>4, <1>51 DEF IInv, PeriodsLast
<1>14. HasLatest'
  <2> SUFFICES ASSUME NEW s \in Subs, PeriodEnds(s)' # {}
               PROVE  \E e \in PeriodEnds(s)' : \A f \in PeriodEnds(s)' : f <= e
    BY DEF HasLatest
  <2>1. CASE s # new.sub \/ new.start = NoPeriod
    <3>1. PeriodEnds(s)' = PeriodEnds(s)
      BY <1>11, <2>1
    <3> QED
      BY <3>1 DEF IInv, HasLatest
  <2>2. CASE s = new.sub /\ new.start # NoPeriod
    <3>1. PeriodEnds(s)' = PeriodEnds(s) \cup {end} /\ end \in Nat
      BY <1>4, <1>12, <2>2
    <3>2. CASE PeriodEnds(s) = {}
      BY <3>1, <3>2
    <3>3. CASE PeriodEnds(s) # {}
      <4>1. PICK m \in PeriodEnds(s) : m \in Nat /\ \A f \in PeriodEnds(s) : f <= m
        BY <3>3, LatestEndIsLatest DEF IInv
      <4>2. PeriodEnds(s) \subseteq Nat
        BY PeriodsTyped DEF IInv, PeriodEnds
      <4>3. CASE end <= m
        BY <3>1, <4>1, <4>3
      <4>4. CASE m < end
        <5>1. \A f \in PeriodEnds(s) \cup {end} : f <= end
          BY <3>1, <4>1, <4>2, <4>4
        <5> QED
          BY <3>1, <5>1
      <4> QED
        BY <3>1, <4>1, <4>3, <4>4
    <3> QED
      BY <3>2, <3>3
  <2> QED
    BY <2>1, <2>2
<1>15. ASSUME NEW s \in Subs \ disturbed PROVE PeriodsInv(s)'
  <2>1. PeriodsInv(s)
    BY DEF IInv
  <2>2. CASE s # new.sub \/ new.start = NoPeriod
    <3>1. Goes(s)
      BY <1>1, <1>3, <2>2 DEF Goes, BillsPeriod
    <3> QED
      BY <1>11, <2>1, <2>2, <3>1, StepsAside
  <2>3. CASE s = new.sub /\ new.start # NoPeriod
    <3>1. BillsPeriod(p, s)
      BY <1>1, <2>3 DEF BillsPeriod
    <3>2. Follows(p, s) /\ Chained(s)
      BY <2>1, <3>1 DEF PeriodsInv
    <3>3. \A q \in Procs : ~BillsPeriod(q, s)'
      BY <1>3, <2>1, <2>3, <3>1 DEF BillsPeriod, PeriodsInv
    <3>4. PeriodsOf(s)' = PeriodsOf(s) \cup {row} /\ PeriodEnds(s)' = PeriodEnds(s) \cup {end}
      BY <1>12, <2>3
    <3>5. row.start \in Nat /\ row.end \in Nat /\ row.start < row.end
      BY <1>2, <1>4, <1>51, <2>3
    <3>6. \A i \in PeriodsOf(s) : /\ i.start \in Nat /\ i.end \in Nat /\ i.start < i.end
                                  /\ i.end <= row.start
      BY <1>51, <3>2, PeriodsTyped DEF IInv, Follows
    <3>7. PeriodsOf(s) = {} \/ row.start \in PeriodEnds(s)
      BY <1>51, <3>2 DEF Follows
    <3>8. ASSUME NEW i \in PeriodsOf(s)', NEW j \in PeriodsOf(s)'
          PROVE  i = j \/ i.end <= j.start \/ j.end <= i.start
      BY <3>2, <3>4, <3>6 DEF Chained
    <3>9. ASSUME NEW i \in PeriodsOf(s)'
          PROVE  i.start \in PeriodEnds(s)' \/ \A j \in PeriodsOf(s)' : i.start <= j.start
      <4>1. CASE i = row
        BY <3>4, <3>5, <3>7, <4>1
      <4>2. CASE i \in PeriodsOf(s)
        <5>1. i.start <= row.start
          BY <3>5, <3>6, <4>2
        <5>2. i.start \in PeriodEnds(s) \/ \A j \in PeriodsOf(s) : i.start <= j.start
          BY <3>2, <4>2 DEF Chained
        <5> QED
          BY <3>4, <5>1, <5>2
      <4> QED
        BY <3>4, <4>1, <4>2
    <3> QED
      BY <3>3, <3>8, <3>9 DEF PeriodsInv, Chained
  <2> QED
    BY <2>2, <2>3
<1> QED
  BY <1>1, <1>7, <1>8, <1>9, <1>10, <1>13, <1>14, <1>15 DEF IInv

(***************************************************************************)
(* The new next_billing_date, restarts and the clock                       *)
(***************************************************************************)

LEMMA AdvanceStep ==
    ASSUME IInv, NEW p \in Procs, Advance(p)
    PROVE  IInv'
<1>1. /\ TypeOK /\ HandlerInv(p) /\ pc[p] = "advance" /\ Finish(p)
      /\ nextBilling' = [nextBilling EXCEPT ![local[p].sub] =
                            BoundaryAfter(local[p].anchor, periodEnd(p))]
      /\ UNCHANGED <<charge, lastSeq, invoices, anchor, clock, queue, doubled, disturbed>>
  BY DEF IInv, Advance
<1>2. local[p].sub \in Subs /\ local[p].start \in Nat /\ local[p].anchor \in Nat
  BY <1>1 DEF HandlerInv, TypeOK, Local, Date
<1>3. /\ pc' \in [Procs -> Steps] /\ local' \in [Procs -> Local]
      /\ pc'[p] = IF p = Cron THEN "idle" ELSE "done"
      /\ \A q \in Procs : q # p => pc'[q] = pc[q] /\ local'[q] = local[q]
  BY <1>1, FinishTyped
<1>4. BoundaryAfter(local[p].anchor, periodEnd(p)) \in Nat
  BY <1>2, BoundaryTyped DEF periodEnd
<1>5. TypeOK'
  BY <1>1, <1>3, <1>4 DEF TypeOK, clock
<1>6. HandlerInv(p)'
  BY <1>3 DEF HandlerInv
<1>7. \A s \in Subs : ~BillsPeriod(p, s)'
  BY <1>3 DEF BillsPeriod
<1> QED
  BY <1>1, <1>3, <1>5, <1>6, <1>7, MoveStep DEF clock

LEMMA UpdateWriteStep ==
    ASSUME IInv, NEW r \in Procs, UpdateWrite(r)
    PROVE  IInv'
<1> PICK s, from : s = local[r].sub /\ from = local[r].anchor
  OBVIOUS
<1>1. /\ TypeOK /\ HandlerInv(r) /\ pc[r] \in Updates /\ Finish(r)
      /\ nextBilling' = [nextBilling EXCEPT ![s] = BoundaryAfter(from, from)]
      /\ anchor' = anchor \/ anchor' = [anchor EXCEPT ![s] = from]
      /\ trial' \in {trial, trial \cup {s}, trial \ {s}}
      /\ UNCHANGED <<charge, lastSeq, invoices, now, year, queue, doubled, disturbed>>
  BY DEF IInv, UpdateWrite
<1>2. s \in Subs /\ from \in Nat
  BY <1>1 DEF HandlerInv, TypeOK, Local, Updates
<1>3. /\ pc' \in [Procs -> Steps] /\ local' \in [Procs -> Local]
      /\ pc'[r] = IF r = Cron THEN "idle" ELSE "done"
      /\ \A q \in Procs : q # r => pc'[q] = pc[q] /\ local'[q] = local[q]
  BY <1>1, FinishTyped
<1>4. BoundaryAfter(from, from) \in Nat
  BY <1>2, BoundaryTyped
<1>5. TypeOK'
  BY <1>1, <1>2, <1>3, <1>4 DEF TypeOK
<1>6. HandlerInv(r)'
  BY <1>3 DEF HandlerInv
<1>7. \A t \in Subs : ~BillsPeriod(r, t)'
  BY <1>3 DEF BillsPeriod
<1> QED
  BY <1>1, <1>3, <1>5, <1>6, <1>7, MoveStep

\* A step of the cron's scan, a restart, the clock, or nothing: no process bills on.
LEMMA AsideStep ==
    ASSUME IInv, TypeOK', UNCHANGED <<charge, lastSeq, invoices, doubled, disturbed>>,
           \A q \in Procs : \/ pc'[q] = pc[q] /\ local'[q] = local[q]
                            \/ pc'[q] \in {"idle", "done"} /\ (q = Cron => pc'[q] # "done")
    PROVE  IInv'
<1>1. \A s : PeriodsOf(s)' = PeriodsOf(s) /\ PeriodEnds(s)' = PeriodEnds(s)
  BY DEF PeriodsOf, PeriodEnds
<1>2. HasLatest' /\ PeriodsLast'
  BY <1>1 DEF IInv, HasLatest, PeriodsLast
<1>3. \A q \in Procs : HandlerInv(q)'
  BY DEF IInv, HandlerInv
<1>4. NumbersHaveNoGap' /\ ChargesBilledOnce'
  BY DEF IInv, NumbersHaveNoGap, ChargesBilledOnce
<1>5. \A s \in Subs \ disturbed' : PeriodsInv(s)'
  BY <1>1, StepsAside DEF IInv, Goes, BillsPeriod
<1> QED
  BY <1>2, <1>3, <1>4, <1>5 DEF IInv

LEMMA CronScanStep ==
    ASSUME IInv, CronScan
    PROVE  IInv'
<1>1. TypeOK'
  BY DEF IInv, TypeOK, CronScan, tables, clock
<1> QED
  BY <1>1, AsideStep DEF CronScan, tables

LEMMA RestartStep ==
    ASSUME IInv, Restart
    PROVE  IInv'
<1>1. TypeOK'
  BY NothingTyped DEF IInv, TypeOK, Restart, tables, clock, Steps
<1> QED
  BY <1>1, AsideStep DEF Restart, tables

LEMMA EnvironmentStep ==
    ASSUME IInv, Environment
    PROVE  IInv'
<1>1. TypeOK'
  BY BoundsAssumption
     DEF IInv, TypeOK, Environment, CycleEnds, NewYear, TrialEnds, Years, tables
<1> QED
  BY <1>1, AsideStep DEF Environment, tables

LEMMA HandlerStep ==
    ASSUME IInv, NEW p \in Procs, Handler(p)
    PROVE  IInv'
<1>1. CASE Fails(p)
  BY <1>1, FailsStep DEF Fails
<1>2. CASE SubscriptionRead(p) \/ UpdateWrite(p)
  BY <1>2, SubscriptionReadStep, UpdateWriteStep
<1>3. ASSUME NEW s \in Subs, NEW what \in Updates, NEW from \in 0..MaxNow,
             UpdateRead(p, s, what, from)
      PROVE  IInv'
  BY <1>3, UpdateReadStep
<1> QED
  BY <1>1, <1>2, <1>3, CreateChargeStep, SubscriptionAssignedStep, CreateManualStep,
     PendingReadStep, PeriodReadStep, ChargesReadStep, CounterReadStep, CommitStep, AdvanceStep
     DEF Handler

LEMMA NextIInv == IInv /\ [Next]_vars => IInv'
<1> SUFFICES ASSUME IInv, [Next]_vars PROVE IInv'
  OBVIOUS
<1>1. ASSUME NEW p \in Procs, Handler(p) PROVE IInv'
  BY <1>1, HandlerStep
<1>2. ASSUME NEW s \in Subs, CronTakes(s) PROVE IInv'
  BY <1>2, CronTakesStep
<1>3. CASE UNCHANGED vars
  <2>1. TypeOK'
    BY <1>3 DEF IInv, TypeOK, vars
  <2> QED
    BY <1>3, <2>1, AsideStep DEF vars
<1> QED
  BY <1>1, <1>2, <1>3, CronScanStep, RestartStep, EnvironmentStep DEF Next

LEMMA Invariance == Spec => []IInv
BY InitIInv, NextIInv, PTL DEF Spec

(***************************************************************************)
(* Theorems                                                                *)
(***************************************************************************)

\* The tables, what the processes have read and the history keep their types.
THEOREM TypeCorrect == Spec => []TypeOK
<1>1. IInv => TypeOK
  BY DEF IInv
<1> QED
  BY <1>1, Invariance, PTL

\* Invoice numbers are unique and gapless for any number of concurrent generations,
\* although the counter is read before the transaction's other writes.
THEOREM NumbersGapless == Spec => []NumbersHaveNoGap
<1>1. IInv => NumbersHaveNoGap
  BY DEF IInv
<1> QED
  BY <1>1, Invariance, PTL

\* INVOICED charges are those some invoice bills; only a transaction that read a
\* charge PENDING before another billed it can bill it again.
THEOREM ChargesBilled == Spec => []ChargesBilledOnce
<1>1. IInv => ChargesBilledOnce
  BY DEF IInv
<1> QED
  BY <1>1, Invariance, PTL

\* The billed periods of a subscription follow each other, each starting where another
\* ends, whatever fails, is cut off or moves its anchor, unless two generations of it
\* had both read the latest period end before either committed.
THEOREM PeriodsFollow == Spec => []PeriodsContiguous
<1>1. IInv => PeriodsContiguous
  BY DEF IInv, PeriodsInv, Chained, PeriodsContiguous
<1> QED
  BY <1>1, Invariance, PTL

(***************************************************************************)
(* The book                                                                *)
(***************************************************************************)

\* A charge that a handler has read has been made.
ChargesMade == \A p \in Procs : \A c \in local[p].charges : charge[c].status # "NONE"

LEMMA InitMade == Init => ChargesMade
BY DEF Init, Nothing, ChargesMade

LEMMA GotoMade ==
    ASSUME TypeOK, ChargesMade, NEW p \in Procs, NEW step, NEW seen, Goto(p, step, seen),
           \A c \in seen.charges : charge'[c].status # "NONE",
           \A c \in Charges : charge[c].status # "NONE" => charge'[c].status # "NONE"
    PROVE  ChargesMade'
BY DEF TypeOK, Local, ChargesMade, Goto

LEMMA HandlerMade ==
    ASSUME TypeOK, ChargesMade, NEW p \in Procs, Handler(p)
    PROVE  ChargesMade'
<1>0. /\ Nothing.charges = {} /\ local[p] \in Local /\ local[p].charges \subseteq Charges
      /\ \A s \in Subs : [Nothing EXCEPT !.sub = s].charges = {}
      /\ \A c \in local[p].charges : charge[c].status # "NONE"
  BY DEF TypeOK, Local, Nothing, ChargesMade
<1>1. ASSUME UNCHANGED charge, Finish(p) PROVE ChargesMade'
  BY <1>0, <1>1, GotoMade DEF Finish
<1>2. ASSUME NEW s \in Subs, NEW c \in Charges, CreateCharge(p, c, s) PROVE ChargesMade'
  <2> DEFINE seen == [Nothing EXCEPT !.sub = s]
  <2>1. Goto(p, "pending", seen)
    BY <1>2 DEF CreateCharge
  <2>2. \A d \in Charges : charge[d].status # "NONE" => charge'[d].status # "NONE"
    BY <1>2 DEF CreateCharge, TypeOK
  <2>3. seen.charges = {}
    BY <1>0
  <2> HIDE DEF seen
  <2> QED
    BY <2>1, <2>2, <2>3, GotoMade
<1>3. ASSUME NEW s \in Subs, SubscriptionAssigned(p, s) \/ CreateManual(p, s) PROVE ChargesMade'
  <2> DEFINE seen == [Nothing EXCEPT !.sub = s]
  <2>1. seen.charges = {} /\ UNCHANGED charge
    BY <1>0, <1>3 DEF SubscriptionAssigned, CreateManual, tables
  <2>2. Goto(p, "pending", seen) \/ Goto(p, "subscription", seen)
    BY <1>3 DEF SubscriptionAssigned, CreateManual
  <2> HIDE DEF seen
  <2> QED
    BY <2>1, <2>2, GotoMade
<1>4. ASSUME NEW step, NEW seen, Goto(p, step, seen), UNCHANGED charge,
             seen.charges = local[p].charges
                \/ seen.charges \in {findPendingOneTimeCharges(s) : s \in Subs \cup {local[p].sub}}
      PROVE  ChargesMade'
  <2>1. \A s : \A c \in findPendingOneTimeCharges(s) : charge[c].status # "NONE"
    BY DEF findPendingOneTimeCharges
  <2>2. \A c \in seen.charges : charge'[c].status # "NONE"
    BY <1>0, <1>4, <2>1
  <2> QED
    BY <1>4, <2>2, GotoMade
<1>31. ASSUME NEW s \in Subs, NEW what, NEW from, UpdateRead(p, s, what, from) PROVE ChargesMade'
  <2> DEFINE seen == [Nothing EXCEPT !.sub = s, !.anchor = from]
  <2>1. seen.charges = {} /\ UNCHANGED charge /\ Goto(p, what, seen)
    BY <1>31 DEF UpdateRead, Nothing, tables
  <2> HIDE DEF seen
  <2> QED
    BY <2>1, GotoMade
<1>5. CASE PendingRead(p)
  <2> DEFINE pending == findPendingOneTimeCharges(local[p].sub)
             seen == [local[p] EXCEPT !.charges = pending]
  <2>1. UNCHANGED charge /\ (Finish(p) \/ Goto(p, "counter", seen))
    BY <1>5 DEF PendingRead, tables
  <2>2. seen.charges = pending
    BY <1>0 DEF Local
  <2> HIDE DEF seen
  <2> QED
    BY <1>1, <1>4, <2>1, <2>2
<1>6. CASE ChargesRead(p)
  <2> DEFINE seen == [local[p] EXCEPT !.charges = findPendingOneTimeCharges(local[p].sub)]
  <2>1. UNCHANGED charge /\ Goto(p, "counter", seen)
    BY <1>6 DEF ChargesRead, tables
  <2>2. seen.charges = findPendingOneTimeCharges(local[p].sub)
    BY <1>0 DEF Local
  <2> HIDE DEF seen
  <2> QED
    BY <1>4, <2>1, <2>2
<1>7. CASE PeriodRead(p)
  <2> DEFINE seen == [local[p] EXCEPT !.start = periodStart(p)]
  <2>1. UNCHANGED charge /\ Goto(p, "charges", seen)
    BY <1>7 DEF PeriodRead, tables
  <2>2. seen.charges = local[p].charges
    BY <1>0 DEF Local
  <2> HIDE DEF seen
  <2> QED
    BY <1>4, <2>1, <2>2
<1>71. CASE SubscriptionRead(p)
  <2> DEFINE seen == [local[p] EXCEPT !.anchor = anchor[local[p].sub]]
  <2>1. UNCHANGED charge /\ Goto(p, "period", seen)
    BY <1>71 DEF SubscriptionRead, tables
  <2>2. seen.charges = local[p].charges
    BY <1>0 DEF Local
  <2> HIDE DEF seen
  <2> QED
    BY <1>4, <2>1, <2>2
<1>8. CASE CounterRead(p)
  <2> DEFINE seen == [local[p] EXCEPT !.year = year, !.seq = lastSeq[year] + 1]
  <2>1. UNCHANGED charge /\ Goto(p, "commit", seen)
    BY <1>8 DEF CounterRead, tables
  <2>2. seen.charges = local[p].charges
    BY <1>0 DEF Local
  <2> HIDE DEF seen
  <2> QED
    BY <1>4, <2>1, <2>2
<1>9. CASE Commit(p)
  <2>1. \A c \in Charges : charge[c].status # "NONE" => charge'[c].status # "NONE"
    BY <1>9 DEF Commit, MarkInvoiced, TypeOK, Charge
  <2>2. Finish(p) \/ Goto(p, "advance", local[p])
    BY <1>9 DEF Commit
  <2>3. CASE Finish(p)
    BY <1>0, <2>1, <2>3, GotoMade DEF Finish
  <2>4. CASE Goto(p, "advance", local[p])
    BY <1>0, <2>1, <2>4, GotoMade
  <2> QED
    BY <2>2, <2>3, <2>4
<1>10. CASE Advance(p) \/ Fails(p) \/ UpdateWrite(p)
  BY <1>1, <1>10 DEF Advance, Fails, UpdateWrite, tables
<1> QED
  BY <1>2, <1>3, <1>31, <1>5, <1>6, <1>7, <1>71, <1>8, <1>9, <1>10 DEF Handler

LEMMA NextMade ==
    ASSUME TypeOK, ChargesMade, [Next]_vars
    PROVE  ChargesMade'
<1>1. ASSUME NEW p \in Procs, Handler(p) PROVE ChargesMade'
  BY <1>1, HandlerMade
<1>2. ASSUME NEW s \in Subs, CronTakes(s) PROVE ChargesMade'
  <2> DEFINE seen == [Nothing EXCEPT !.sub = s]
  <2>1. Goto(Cron, "subscription", seen) /\ UNCHANGED charge /\ Cron \in Procs
    BY <1>2 DEF CronTakes, tables, Procs
  <2>2. seen.charges = {}
    BY DEF Nothing
  <2> HIDE DEF seen
  <2> QED
    BY <2>1, <2>2, GotoMade
<1>3. CASE Restart
  BY <1>3 DEF Restart, ChargesMade, Nothing, tables
<1>4. CASE CronScan \/ Environment \/ UNCHANGED vars
  BY <1>4 DEF CronScan, Environment, ChargesMade, tables, vars
<1> QED
  BY <1>1, <1>2, <1>3, <1>4 DEF Next

\* The invoice that Entry finds.
LEMMA EntryIs ==
    ASSUME NEW S, NEW y, NEW n, NEW i \in S, i.year = y, i.seq = n,
           \A j \in S : j.year = y /\ j.seq = n => j = i
    PROVE  (CHOOSE j \in S : j.year = y /\ j.seq = n) = i
OBVIOUS

\* Every number up to the counter has one invoice.
LEMMA Numbered ==
    ASSUME TypeOK, NumbersHaveNoGap, NEW y \in Years, NEW n \in 1..lastSeq[y]
    PROVE  \E i \in invoices : /\ i.year = y /\ i.seq = n
                               /\ \A j \in invoices : j.year = y /\ j.seq = n => j = i
                               /\ Entry(y, n) = [sub |-> i.sub, charges |-> i.charges]
<1>1. PICK i \in invoices : i.year = y /\ i.seq = n
  BY DEF NumbersHaveNoGap
<1>2. \A j \in invoices : j.year = y /\ j.seq = n => j = i
  BY <1>1 DEF NumbersHaveNoGap
<1>3. (CHOOSE j \in invoices : j.year = y /\ j.seq = n) = i
  BY <1>1, <1>2, EntryIs
<1> QED
  BY <1>1, <1>2, <1>3 DEF Entry

BillSet == [sub : Subs, charges : SUBSET Charges]
Pages(y) == [n \in 1..lastSeq[y] |-> Entry(y, n)]

LEMMA PagesTyped ==
    ASSUME TypeOK, NumbersHaveNoGap, NEW y \in Years
    PROVE  Pages(y) \in Seq(BillSet) /\ Len(Pages(y)) = lastSeq[y]
<1>1. lastSeq[y] \in Nat
  BY DEF TypeOK
<1>2. \A n \in 1..lastSeq[y] : Entry(y, n) \in BillSet
  BY Numbered DEF TypeOK, Invoice, BillSet
<1> QED
  BY <1>1, <1>2 DEF Pages

LEMMA InitBook == Init => Book!Init
<1> SUFFICES ASSUME Init PROVE Book!Init
  OBVIOUS
<1>1. \A y \in Years : [n \in 1..lastSeq[y] |-> Entry(y, n)] = << >>
  BY DEF Init
<1>2. \A c \in Charges : charge[c].status = "NONE"
  BY DEF Init
<1> QED
  BY <1>1, <1>2 DEF Book!Init

\* A step that leaves the invoices, the counters and what is made or billed alone.
LEMMA BookStutters ==
    ASSUME UNCHANGED <<charge, lastSeq, invoices>>
    PROVE  UNCHANGED Book!vars
BY DEF Book!vars, Entry

LEMMA BookOpens ==
    ASSUME TypeOK, NEW p \in Procs, NEW c \in Charges, NEW s \in Subs, CreateCharge(p, c, s)
    PROVE  Book!Next
<1>1. /\ charge[c].status = "NONE"
      /\ charge' = [charge EXCEPT ![c] = [status |-> "PENDING", sub |-> s]]
      /\ UNCHANGED <<lastSeq, invoices>>
  BY DEF CreateCharge
<1>2. \A d \in Charges : charge'[d] = IF d = c THEN [status |-> "PENDING", sub |-> s] ELSE charge[d]
  BY <1>1 DEF TypeOK
<1>3. {d \in Charges : charge'[d].status # "NONE"} = {d \in Charges : charge[d].status # "NONE"} \cup {c}
  BY <1>2
<1>4. {d \in Charges : charge'[d].status = "INVOICED"} = {d \in Charges : charge[d].status = "INVOICED"}
  BY <1>1, <1>2
<1>5. [y \in Years |-> [n \in 1..lastSeq[y] |-> Entry(y, n)]]'
        = [y \in Years |-> [n \in 1..lastSeq[y] |-> Entry(y, n)]]
  BY <1>1 DEF Entry
<1>6. Book!Open(c)
  BY <1>1, <1>3, <1>4, <1>5 DEF Book!Open
<1> QED
  BY <1>6 DEF Book!Next

LEMMA CommitSub ==
    ASSUME IInv, NEW p \in Procs, pc[p] = "commit"
    PROVE  local[p].sub \in Subs
BY DEF IInv, HandlerInv

\* The transaction writes the next page of its year, and no other.
LEMMA CommitPages ==
    ASSUME IInv, IInv', NEW p \in Procs, Commit(p), NEW y, y = local[p].year,
           NEW bill, bill = [sub |-> local[p].sub, charges |-> local[p].charges]
    PROVE  /\ Pages(y)' = Append(Pages(y), bill)
           /\ \A z \in Years \ {y} : Pages(z)' = Pages(z)
<1> DEFINE new == local[p]
<1> PICK n : n = new.seq
  OBVIOUS
<1> PICK end : end = IF new.start = NoPeriod THEN NoPeriod ELSE periodEnd(p)
  OBVIOUS
<1> DEFINE row == [by |-> p, year |-> y, seq |-> n, sub |-> new.sub,
                   start |-> new.start, end |-> end, charges |-> new.charges]
<1>1. /\ TypeOK /\ TypeOK' /\ NumbersHaveNoGap /\ NumbersHaveNoGap'
      /\ pc[p] = "commit" /\ ~NumberTaken(p)
      /\ lastSeq' = [lastSeq EXCEPT ![y] = n] /\ invoices' = invoices \cup {row}
  BY DEF IInv, Commit
<1>2. /\ y \in Years /\ n \in Nat /\ new.sub \in Subs /\ new.charges \subseteq Charges
      /\ lastSeq \in [Years -> Nat]
  BY <1>1, CommitSub DEF TypeOK, Local
<1>3. n = lastSeq[y] + 1
  BY <1>1, NextNumber
<1>4. row \in invoices' /\ row.year = y /\ row.seq = n
      /\ row.sub = new.sub /\ row.charges = new.charges
  BY <1>1
<1>5. Entry(y, n)' = bill
  <2>1. n \in 1..lastSeq'[y]
    BY <1>1, <1>2, <1>3
  <2>2. \A j \in invoices' : j.year = y /\ j.seq = n => j = row
    BY <1>1, <1>4 DEF NumbersHaveNoGap
  <2>3. (CHOOSE j \in invoices' : j.year = y /\ j.seq = n) = row
    BY <1>4, <2>2, EntryIs
  <2> QED
    BY <1>4, <2>3 DEF Entry
<1>6. ASSUME NEW z \in Years, NEW k \in 1..lastSeq[z] PROVE Entry(z, k)' = Entry(z, k)
  <2>1. PICK i \in invoices : /\ i.year = z /\ i.seq = k
                              /\ \A j \in invoices : j.year = z /\ j.seq = k => j = i
                              /\ Entry(z, k) = [sub |-> i.sub, charges |-> i.charges]
    BY <1>1, Numbered
  <2>2. i \in invoices'
    BY <1>1
  <2>3. \A j \in invoices' : j.year = z /\ j.seq = k => j = i
    BY <1>1, <2>1, <2>2 DEF NumbersHaveNoGap
  <2>4. (CHOOSE j \in invoices' : j.year = z /\ j.seq = k) = i
    BY <2>1, <2>2, <2>3, EntryIs
  <2> QED
    BY <2>1, <2>4 DEF Entry
<1>7. Pages(y)' = Append(Pages(y), bill)
  <2>1. Pages(y) \in Seq(BillSet) /\ Len(Pages(y)) = lastSeq[y]
    BY <1>1, <1>2, PagesTyped
  <2>2. bill \in BillSet
    BY <1>2 DEF BillSet
  <2>3. Pages(y)' = [k \in 1..(lastSeq[y] + 1) |-> Entry(y, k)']
    BY <1>1, <1>2, <1>3 DEF Pages
  <2>4. \A k \in 1..(lastSeq[y] + 1) :
            Entry(y, k)' = IF k = lastSeq[y] + 1 THEN bill ELSE Pages(y)[k]
    BY <1>2, <1>3, <1>5, <1>6 DEF Pages
  <2>5. Append(Pages(y), bill)
          = [k \in 1..(lastSeq[y] + 1) |-> IF k = lastSeq[y] + 1 THEN bill ELSE Pages(y)[k]]
    BY <2>1, <2>2, AppendProperties
  <2> QED
    BY <2>3, <2>4, <2>5
<1>8. ASSUME NEW z \in Years \ {y} PROVE Pages(z)' = Pages(z)
  BY <1>1, <1>2, <1>6 DEF Pages
<1> QED
  BY <1>7, <1>8

LEMMA BookIssues ==
    ASSUME IInv, IInv', ChargesMade, NEW p \in Procs, Commit(p)
    PROVE  Book!Next
<1> DEFINE new == local[p]
<1> PICK y : y = new.year
  OBVIOUS
<1> PICK bill : bill = [sub |-> new.sub, charges |-> new.charges]
  OBVIOUS
<1>1. TypeOK /\ pc[p] = "commit" /\ charge' = MarkInvoiced(new.charges)
  BY DEF IInv, Commit
<1>2. y \in Years /\ bill \in BillSet /\ bill.charges = new.charges /\ new.charges \subseteq Charges
  BY <1>1, CommitSub DEF TypeOK, Local, BillSet
<1>3. \A c \in new.charges : charge[c].status # "NONE"
  BY DEF ChargesMade
<1>4. \A c \in Charges : charge'[c].status = IF c \in new.charges THEN "INVOICED" ELSE charge[c].status
  BY <1>1 DEF MarkInvoiced, TypeOK, Charge
<1>5. {c \in Charges : charge'[c].status # "NONE"} = {c \in Charges : charge[c].status # "NONE"}
  BY <1>2, <1>3, <1>4
<1>6. {c \in Charges : charge'[c].status = "INVOICED"}
        = {c \in Charges : charge[c].status = "INVOICED"} \cup bill.charges
  BY <1>2, <1>4
<1>7. [z \in Years |-> Pages(z)]' = [[z \in Years |-> Pages(z)] EXCEPT ![y] = Append(@, bill)]
  <2>1. /\ Pages(y)' = Append(Pages(y), bill)
        /\ \A z \in Years \ {y} : Pages(z)' = Pages(z)
    BY CommitPages
  <2> QED
    BY <1>2, <2>1
<1>8. Book!Issue(y, bill)
  BY <1>2, <1>3, <1>5, <1>6, <1>7 DEF Book!Issue, Pages
<1> QED
  BY <1>2, <1>8 DEF Book!Next, BillSet

LEMMA BookStep ==
    ASSUME IInv, IInv', ChargesMade, [Next]_vars
    PROVE  Book!Next \/ UNCHANGED Book!vars
<1>1. ASSUME NEW p \in Procs, Handler(p) PROVE Book!Next \/ UNCHANGED Book!vars
  <2>1. ASSUME NEW s \in Subs, NEW c \in Charges, CreateCharge(p, c, s) PROVE Book!Next
    BY <2>1, BookOpens DEF IInv
  <2>2. CASE Commit(p)
    BY <2>2, BookIssues
  <2>3. ASSUME NEW s \in Subs, SubscriptionAssigned(p, s) \/ CreateManual(p, s)
        PROVE  UNCHANGED <<charge, lastSeq, invoices>>
    BY <2>3 DEF SubscriptionAssigned, CreateManual, tables
  <2>4. CASE \/ PendingRead(p) \/ SubscriptionRead(p) \/ PeriodRead(p) \/ ChargesRead(p)
             \/ CounterRead(p) \/ Advance(p) \/ UpdateWrite(p) \/ Fails(p)
    <3>1. UNCHANGED <<charge, lastSeq, invoices>>
      BY <2>4 DEF PendingRead, SubscriptionRead, PeriodRead, ChargesRead, CounterRead, Advance,
                  UpdateWrite, Fails, tables
    <3> QED
      BY <3>1, BookStutters
  <2>5. ASSUME NEW s \in Subs, NEW what, NEW from, UpdateRead(p, s, what, from)
        PROVE  UNCHANGED <<charge, lastSeq, invoices>>
    BY <2>5 DEF UpdateRead, tables
  <2> QED
    BY <1>1, <2>1, <2>2, <2>3, <2>4, <2>5, BookStutters DEF Handler
<1>2. CASE CronScan \/ (\E s \in Subs : CronTakes(s)) \/ Restart \/ Environment \/ UNCHANGED vars
  <2>1. UNCHANGED <<charge, lastSeq, invoices>>
    BY <1>2 DEF CronScan, CronTakes, Restart, Environment, tables, vars
  <2> QED
    BY <2>1, BookStutters
<1> QED
  BY <1>1, <1>2 DEF Next

\* Invoice generation implements the book of invoices: read as pages, the invoices of a
\* year are only ever added to, each with the next number, and a charge is billed by the
\* first invoice that names it, for any number of handlers, failures and restarts.
THEOREM ImplementsBook == Spec => IssuesInOrder
<1>1. IInv => TypeOK
  BY DEF IInv
<1>2. Spec => []ChargesMade
  BY <1>1, Invariance, InitMade, NextMade, PTL DEF Spec
<1> QED
  BY <1>2, Invariance, InitBook, BookStep, PTL DEF Spec, IssuesInOrder, Book!Spec

(***************************************************************************)
(* InvoicePayments                                                         *)
(*                                                                         *)
(* For any sets of invoices, payments and requests.  The inductive         *)
(* invariant adds to PaymentsTypeOK what each kind of handler knows        *)
(* between its read and its write.                                         *)
(***************************************************************************)

\* Rows that exist belong to an invoice and are for a positive amount; what the
\* gateway reports is about an order that exists.
RowsInv ==
    /\ \A p \in Payments : payment[p].status # "NONE" =>
          payment[p].invoice \in Invoices /\ payment[p].amount > 0
    /\ \A p \in Payments : payment[p].status = "NONE" => payment[p].invoice = NoInvoice
    /\ \A p \in Payments : payment[p].gateway => payment[p].status # "NONE"
    /\ \A p \in Payments, e \in GatewayEvents :
          <<p, e>> \in gatewaySent => payment[p].gateway

\* What a handler holds between its read and its write.
PaymentHandlerInv(r) ==
    /\ nextStep[r] \in {"submit", "order", "line", "recompute", "credit", "reconcile"} =>
          context[r].inv \in Invoices /\ context[r].amount > 0
    /\ nextStep[r] \in {"approve", "reject", "captured", "failed", "credit", "reconcile"} =>
          context[r].pay \in Payments /\ payment[context[r].pay].status # "NONE"
    /\ nextStep[r] \in {"approve", "reject", "captured"} => context[r].seenPay.status # "SUCCESS"
    /\ nextStep[r] \in {"credit", "reconcile"} =>
          /\ published[r] = context[r].pay
          /\ payment[context[r].pay].invoice = context[r].inv
          /\ payment[context[r].pay].amount = context[r].amount

\* A request that published has done nothing since but credit its payment.
PublishedInv(r) ==
    published[r] # NoPayment =>
        /\ nextStep[r] \in {"credit", "reconcile", "done", "lost"}
        /\ payment[published[r]].status # "NONE"

\* The sum that CreditsInv writes, as a sum over a function.
AmountOf == [p \in Payments |-> payment[p].amount]
CreditsInv ==
    \A i \in Invoices :
        Undisturbed(i) => invoice[i].paid = SumOver(AmountOf, CreditedPayments(i))

PaymentsInv ==
    /\ PaymentsTypeOK
    /\ RowsInv
    /\ \A r \in Calls : PaymentHandlerInv(r) /\ PublishedInv(r)
    /\ ApprovedOnce
    /\ CreditsInv
    /\ StatusMatchesBalance

(***************************************************************************)
(* Initial states                                                          *)
(***************************************************************************)

LEMMA NewRowsTyped ==
    /\ \A t \in Nat : NewInvoice(t) \in InvoiceRow
    /\ NoContext \in Context
    /\ NoRow \in Payment
BY DEF NewInvoice, NoContext, NoRow, InvoiceRow, InvoiceStatus, Payment, PaymentStatus, Context

LEMMA InitPaymentsInv == PaymentsInit => PaymentsInv
<1> SUFFICES ASSUME PaymentsInit PROVE PaymentsInv
  OBVIOUS
<1>1. PICK t \in [Invoices -> InitialTotals] : invoice = [i \in Invoices |-> NewInvoice(t[i])]
  BY DEF PaymentsInit
<1>2. invoice \in [Invoices -> InvoiceRow]
  BY <1>1, NewRowsTyped, TotalsAssumption
<1>3. PaymentsTypeOK
  BY <1>2, NewRowsTyped DEF PaymentsInit, PaymentsTypeOK, PaymentSteps
<1>4. RowsInv
  BY DEF PaymentsInit, RowsInv, NoRow
<1>5. \A r \in Calls : PaymentHandlerInv(r) /\ PublishedInv(r)
  BY DEF PaymentsInit, PaymentHandlerInv, PublishedInv
<1>6. ApprovedOnce
  BY NoPaymentAssumption DEF PaymentsInit, ApprovedOnce
<1>7. CreditsInv
  <2>1. \A i \in Invoices : CreditedPayments(i) = {} /\ invoice[i].paid = 0
    BY <1>1, TotalsAssumption DEF PaymentsInit, CreditedPayments, NoRow, NewInvoice
  <2> QED
    BY <2>1, SumOverEmpty DEF CreditsInv
<1>8. StatusMatchesBalance
  <2> SUFFICES ASSUME NEW i \in Invoices
               PROVE  /\ invoice[i].status = "PAID" <=> invoice[i].paid >= invoice[i].total
                      /\ invoice[i].total = invoice[i].lines
    BY DEF StatusMatchesBalance
  <2>1. invoice[i] = NewInvoice(t[i]) /\ t[i] \in Nat
    BY <1>1, TotalsAssumption
  <2> QED
    BY <2>1 DEF NewInvoice
<1> QED
  BY <1>3, <1>4, <1>5, <1>6, <1>7, <1>8 DEF PaymentsInv

(***************************************************************************)
(* Steps that only read: they move one request and change no row           *)
(***************************************************************************)

LEMMA Continued ==
    ASSUME PaymentsTypeOK, NEW r \in Calls, NEW step \in PaymentSteps, NEW seen \in Context,
           Continue(r, step, seen)
    PROVE  /\ nextStep' \in [Calls -> PaymentSteps]
           /\ context' \in [Calls -> Context]
           /\ nextStep'[r] = step
           /\ context'[r] = seen
           /\ \A q \in Calls : q # r => nextStep'[q] = nextStep[q] /\ context'[q] = context[q]
BY DEF PaymentsTypeOK, Continue

\* A step that leaves the sums alone: no invoice that is still undisturbed is written, and
\* the payments it was credited with and their amounts stay.
LEMMA CreditsKept ==
    ASSUME PaymentsInv,
           \A i \in Invoices : Undisturbed(i)' =>
               /\ Undisturbed(i)
               /\ invoice'[i].paid = invoice[i].paid
               /\ CreditedPayments(i)' = CreditedPayments(i),
           \A p \in Payments : payment[p].status = "SUCCESS" =>
               payment'[p].amount = payment[p].amount
    PROVE  CreditsInv'
<1> SUFFICES ASSUME NEW i \in Invoices, Undisturbed(i)'
             PROVE  invoice'[i].paid = SumOver(AmountOf', CreditedPayments(i)')
  BY DEF CreditsInv
<1> DEFINE S == CreditedPayments(i)
<1>1. IsFiniteSet(S)
  BY PaymentsFinite, FS_Subset DEF CreditedPayments
<1>2. \A p \in S : AmountOf[p] = AmountOf'[p]
  BY DEF AmountOf, CreditedPayments
<1>3. invoice[i].paid = SumOver(AmountOf, S)
  BY DEF PaymentsInv, CreditsInv
<1>4. S' = S /\ invoice'[i].paid = invoice[i].paid
  OBVIOUS
<1> HIDE DEF S
<1>5. SumOver(AmountOf, S) = SumOver(AmountOf', S)
  BY <1>1, <1>2, SumOverSame
<1> QED
  BY <1>3, <1>4, <1>5 DEF S

\* Which payments are credited depends on the rows and on who is at which step.
LEMMA CreditedKept ==
    ASSUME UNCHANGED <<payment, published>>, NEW i,
           \A r \in Calls : published[r] # NoPayment =>
               (nextStep'[r] \in {"credit", "reconcile", "lost"}
                <=> nextStep[r] \in {"credit", "reconcile", "lost"})
    PROVE  CreditedPayments(i)' = CreditedPayments(i)
BY NoPaymentAssumption DEF CreditedPayments, Uncredited

LEMMA ReadStep ==
    ASSUME PaymentsInv,
           NEW r \in Calls, NEW step \in PaymentSteps, NEW seen \in Context,
           Continue(r, step, seen),
           UNCHANGED <<invoice, payment, pastDue, scan, gatewaySent, published, meddled, raced>>,
           nextStep[r] # "done",
           published[r] # NoPayment => step \in {"reconcile", "lost"},
           PaymentHandlerInv(r)'
    PROVE  PaymentsInv'
<1>1. /\ PaymentsTypeOK /\ RowsInv
      /\ \A q \in Calls : PaymentHandlerInv(q) /\ PublishedInv(q)
      /\ ApprovedOnce /\ CreditsInv /\ StatusMatchesBalance
  BY DEF PaymentsInv
<1>2. /\ nextStep' \in [Calls -> PaymentSteps]
      /\ context' \in [Calls -> Context]
      /\ nextStep'[r] = step
      /\ context'[r] = seen
      /\ \A q \in Calls : q # r => nextStep'[q] = nextStep[q] /\ context'[q] = context[q]
  BY <1>1, Continued
<1>3. PaymentsTypeOK'
  BY <1>1, <1>2 DEF PaymentsTypeOK
<1>4. RowsInv'
  BY <1>1 DEF RowsInv
<1>6. ASSUME NEW q \in Calls PROVE PaymentHandlerInv(q)' /\ PublishedInv(q)'
  <2>1. CASE q = r
    BY <1>1, <1>2, <2>1 DEF PublishedInv
  <2>2. CASE q # r
    BY <1>1, <1>2, <2>2 DEF PaymentHandlerInv, PublishedInv
  <2> QED
    BY <2>1, <2>2
<1>7. ApprovedOnce' /\ StatusMatchesBalance'
  BY <1>1 DEF ApprovedOnce, StatusMatchesBalance
<1>8. CreditsInv'
  <2>1. \A q \in Calls : published[q] # NoPayment =>
            (nextStep'[q] \in {"credit", "reconcile", "lost"}
             <=> nextStep[q] \in {"credit", "reconcile", "lost"})
    BY <1>1, <1>2 DEF PublishedInv
  <2>2. \A i \in Invoices : CreditedPayments(i)' = CreditedPayments(i)
    BY <2>1, CreditedKept
  <2> QED
    BY <2>2, CreditsKept DEF Undisturbed
<1> QED
  BY <1>3, <1>4, <1>6, <1>7, <1>8 DEF PaymentsInv

LEMMA IdleRequest ==
    ASSUME PaymentsInv, NEW r \in Calls, nextStep[r] \notin {"credit", "reconcile", "done", "lost"}
    PROVE  published[r] = NoPayment
BY DEF PaymentsInv, PublishedInv

LEMMA SubmitReadStep ==
    ASSUME PaymentsInv, NEW r \in Calls, NEW i \in Invoices, NEW a \in Amounts, SubmitRead(r, i, a)
    PROVE  PaymentsInv'
<1> DEFINE seen == [NoContext EXCEPT !.inv = i, !.amount = a]
<1>0. a \in Nat /\ a > 0
  BY AmountsAssumption
<1>1. seen \in Context /\ seen.inv = i /\ seen.amount = a
  BY <1>0, NewRowsTyped DEF Context, NoContext
<1>2. "submit" \in PaymentSteps /\ Continue(r, "submit", seen)
  BY DEF SubmitRead, PaymentSteps
<1>3. nextStep'[r] = "submit" /\ context'[r] = seen
  BY <1>1, <1>2, Continued DEF PaymentsInv
<1>4. PaymentHandlerInv(r)'
  BY <1>0, <1>1, <1>3 DEF PaymentHandlerInv
<1> HIDE DEF seen
<1> QED
  BY <1>1, <1>2, <1>4, IdleRequest, ReadStep DEF SubmitRead

LEMMA LineReadStep ==
    ASSUME PaymentsInv, NEW r \in Calls, NEW i \in Invoices, NEW a \in Amounts, LineRead(r, i, a)
    PROVE  PaymentsInv'
<1> DEFINE seen == [NoContext EXCEPT !.inv = i, !.amount = a]
<1>0. a \in Nat /\ a > 0
  BY AmountsAssumption
<1>1. seen \in Context /\ seen.inv = i /\ seen.amount = a
  BY <1>0, NewRowsTyped DEF Context, NoContext
<1>2. "line" \in PaymentSteps /\ Continue(r, "line", seen)
  BY DEF LineRead, PaymentSteps
<1>3. nextStep'[r] = "line" /\ context'[r] = seen
  BY <1>1, <1>2, Continued DEF PaymentsInv
<1>4. PaymentHandlerInv(r)'
  BY <1>0, <1>1, <1>3 DEF PaymentHandlerInv
<1> HIDE DEF seen
<1> QED
  BY <1>1, <1>2, <1>4, IdleRequest, ReadStep DEF LineRead

LEMMA OrderReadStep ==
    ASSUME PaymentsInv, NEW r \in Calls, NEW i \in Invoices, OrderRead(r, i)
    PROVE  PaymentsInv'
<1> DEFINE seen == [NoContext EXCEPT !.inv = i, !.amount = balance(i)]
<1>1. balance(i) \in Nat /\ balance(i) > 0
  BY DEF OrderRead, Outstanding, balance, PaymentsInv, PaymentsTypeOK, InvoiceRow
<1>2. Continue(r, "order", seen)
  BY DEF OrderRead
<1>3. seen \in Context /\ seen.inv = i /\ seen.amount = balance(i)
  BY <1>1, NewRowsTyped DEF Context, NoContext
<1>4. "order" \in PaymentSteps
  BY DEF PaymentSteps
<1>5. nextStep'[r] = "order" /\ context'[r] = seen
  BY <1>2, <1>3, <1>4, Continued DEF PaymentsInv
<1>6. PaymentHandlerInv(r)'
  BY <1>1, <1>3, <1>5 DEF PaymentHandlerInv
<1> HIDE DEF seen
<1> QED
  BY <1>2, <1>3, <1>4, <1>6, IdleRequest, ReadStep DEF OrderRead

\* approvePayment, rejectPayment and both webhooks: the payment's row is read.
LEMMA PaymentReadStep ==
    ASSUME PaymentsInv, NEW r \in Calls, NEW p \in Payments,
           NEW step \in {"approve", "reject", "captured", "failed"},
           nextStep[r] = "idle",
           Continue(r, step, [NoContext EXCEPT !.pay = p, !.seenPay = payment[p]]),
           UNCHANGED <<invoice, payment, pastDue, scan, gatewaySent, published, meddled, raced>>,
           payment[p].status # "NONE",
           step # "failed" => payment[p].status # "SUCCESS"
    PROVE  PaymentsInv'
<1> DEFINE seen == [NoContext EXCEPT !.pay = p, !.seenPay = payment[p]]
<1>1. payment[p] \in Payment
  BY DEF PaymentsInv, PaymentsTypeOK
<1>2. seen \in Context /\ seen.pay = p /\ seen.seenPay = payment[p]
  BY <1>1, NewRowsTyped DEF Context, NoContext
<1>3. step \in PaymentSteps /\ Continue(r, step, seen)
  BY DEF PaymentSteps
<1>4. nextStep'[r] = step /\ context'[r] = seen
  BY <1>2, <1>3, Continued DEF PaymentsInv
<1>5. PaymentHandlerInv(r)'
  BY <1>2, <1>4 DEF PaymentHandlerInv
<1> HIDE DEF seen
<1> QED
  BY <1>2, <1>3, <1>5, IdleRequest, ReadStep

LEMMA VerifyReadStep ==
    ASSUME PaymentsInv, NEW r \in Calls, NEW p \in Payments, ApproveRead(r, p) \/ RejectRead(r, p)
    PROVE  PaymentsInv'
BY PaymentReadStep DEF ApproveRead, RejectRead, VerifyRead

LEMMA WebhookReadStep ==
    ASSUME PaymentsInv, NEW r \in Calls, NEW p \in Payments, NEW e \in GatewayEvents,
           WebhookRead(r, p, e)
    PROVE  PaymentsInv'
<1>1. payment[p].status # "NONE"
  BY DEF WebhookRead, PaymentsInv, RowsInv
<1>2. e \in {"captured", "failed"}
  BY DEF GatewayEvents
<1> QED
  BY <1>1, <1>2, PaymentReadStep DEF WebhookRead, NotProcessed

LEMMA ListenerReadStep ==
    ASSUME PaymentsInv, NEW r \in Calls, ListenerRead(r)
    PROVE  PaymentsInv'
<1> DEFINE i == context[r].inv
           seen == [context[r] EXCEPT !.seenInv = invoice[i]]
<1>1. /\ PaymentHandlerInv(r) /\ PaymentsTypeOK /\ nextStep[r] = "credit"
  BY DEF ListenerRead, PaymentsInv
<1>2. i \in Invoices
  BY <1>1 DEF PaymentHandlerInv
<1>3. /\ seen \in Context
      /\ seen.inv = i /\ seen.pay = context[r].pay /\ seen.amount = context[r].amount
      /\ seen.seenInv = invoice[i]
  <2>1. context[r] \in Context /\ invoice[i] \in InvoiceRow
    BY <1>1, <1>2 DEF PaymentsTypeOK
  <2> QED
    BY <2>1 DEF Context
<1>4. "reconcile" \in PaymentSteps /\ Continue(r, "reconcile", seen)
  BY DEF ListenerRead, PaymentSteps
<1>5. /\ nextStep'[r] = "reconcile" /\ context'[r] = seen
      /\ \A q \in Calls : q # r => nextStep'[q] = nextStep[q]
  BY <1>1, <1>3, <1>4, Continued
<1>6. UNCHANGED <<invoice, payment, pastDue, scan, gatewaySent, published, meddled, raced>>
  BY DEF ListenerRead
<1>7. PaymentHandlerInv(r)'
  <2> HIDE DEF seen
  <2> QED
    BY <1>1, <1>2, <1>3, <1>5, <1>6 DEF PaymentHandlerInv
<1> HIDE DEF seen
<1> QED
  BY <1>1, <1>3, <1>4, <1>6, <1>7, ReadStep

LEMMA ListenerFailsStep ==
    ASSUME PaymentsInv, NEW r \in Calls, ListenerFails(r)
    PROVE  PaymentsInv'
<1>1. "lost" \in PaymentSteps /\ Continue(r, "lost", NoContext)
  BY DEF ListenerFails, Conclude, PaymentSteps
<1>2. nextStep'[r] = "lost"
  BY <1>1, NewRowsTyped, Continued DEF PaymentsInv
<1>3. PaymentHandlerInv(r)'
  BY <1>2 DEF PaymentHandlerInv
<1> QED
  BY <1>1, <1>3, NewRowsTyped, ReadStep DEF ListenerFails

LEMMA LineSumStep ==
    ASSUME PaymentsInv, NEW r \in Calls, LineSum(r)
    PROVE  PaymentsInv'
<1> DEFINE i == context[r].inv
           seen == [context[r] EXCEPT !.seenInv = invoice[i]]
<1>1. PaymentHandlerInv(r) /\ PaymentsTypeOK /\ nextStep[r] = "line"
  BY DEF LineSum, PaymentsInv
<1>2. i \in Invoices /\ context[r].amount > 0
  BY <1>1 DEF PaymentHandlerInv
<1>3. seen \in Context /\ seen.inv = i /\ seen.amount = context[r].amount
  <2>1. context[r] \in Context /\ invoice[i] \in InvoiceRow
    BY <1>1, <1>2 DEF PaymentsTypeOK
  <2> QED
    BY <2>1 DEF Context
<1>4. "recompute" \in PaymentSteps /\ Continue(r, "recompute", seen)
  BY DEF LineSum, PaymentSteps
<1>5. nextStep'[r] = "recompute" /\ context'[r] = seen
  BY <1>1, <1>3, <1>4, Continued
<1> HIDE DEF seen
<1>6. PaymentHandlerInv(r)'
  BY <1>2, <1>3, <1>5 DEF PaymentHandlerInv
<1> QED
  BY <1>1, <1>3, <1>4, <1>6, IdleRequest, ReadStep DEF LineSum

(***************************************************************************)
(* Steps that write a payment                                            *)
(***************************************************************************)

LEMMA InsertPaymentStep ==
    ASSUME PaymentsInv, NEW r \in Calls, NEW p \in Payments, InsertPayment(r, p)
    PROVE  PaymentsInv'
<1> DEFINE row == NewPayment(context[r].inv, context[r].amount, nextStep[r] = "order")
<1>1. /\ PaymentsTypeOK /\ RowsInv
      /\ \A q \in Calls : PaymentHandlerInv(q) /\ PublishedInv(q)
      /\ ApprovedOnce /\ CreditsInv /\ StatusMatchesBalance
  BY DEF PaymentsInv
<1>2. /\ nextStep[r] \in {"submit", "order"} /\ payment[p].status = "NONE"
      /\ context[r].inv \in Invoices /\ context[r].amount \in Nat /\ context[r].amount > 0
  BY <1>1 DEF InsertPayment, PaymentHandlerInv, PaymentsTypeOK, Context
<1>3. /\ row \in Payment /\ row.status # "NONE" /\ row.invoice \in Invoices /\ row.amount > 0
      /\ row.status # "SUCCESS"
  BY <1>2 DEF NewPayment, Payment, PaymentStatus
<1>4. payment' = [payment EXCEPT ![p] = row]
  BY DEF InsertPayment
<1>5. UNCHANGED <<invoice, pastDue, scan, gatewaySent, published, meddled, raced>>
  BY DEF InsertPayment
<1> HIDE DEF row
<1>6. /\ nextStep' \in [Calls -> PaymentSteps] /\ context' \in [Calls -> Context]
      /\ nextStep'[r] = "done" /\ context'[r] = NoContext
      /\ \A q \in Calls : q # r => nextStep'[q] = nextStep[q] /\ context'[q] = context[q]
  BY <1>1, Continued, NewRowsTyped DEF InsertPayment, Conclude, PaymentSteps
<1>7. /\ payment' \in [Payments -> Payment] /\ payment'[p] = row
      /\ \A s \in Payments : s # p => payment'[s] = payment[s]
  BY <1>1, <1>3, <1>4 DEF PaymentsTypeOK
<1>8. PaymentsTypeOK'
  BY <1>1, <1>5, <1>6, <1>7 DEF PaymentsTypeOK
<1>9. RowsInv'
  BY <1>1, <1>2, <1>3, <1>5, <1>7 DEF RowsInv
<1>10. published[r] = NoPayment
  BY <1>1, <1>2 DEF PublishedInv
\* No approval is for the new row: it did not exist.
<1>11. \A q \in Calls : published[q] # NoPayment =>
          published[q] \in Payments /\ published[q] # p /\ q # r
  BY <1>1, <1>2, <1>10 DEF PublishedInv, PaymentsTypeOK
<1>13. ASSUME NEW q \in Calls PROVE PaymentHandlerInv(q)' /\ PublishedInv(q)'
  <2>1. CASE q = r
    BY <1>5, <1>6, <1>10, <2>1 DEF PaymentHandlerInv, PublishedInv
  <2>2. CASE q # r
    BY <1>1, <1>2, <1>5, <1>6, <1>7, <1>11, <2>2 DEF PaymentHandlerInv, PublishedInv
  <2> QED
    BY <2>1, <2>2
<1>15. ApprovedOnce'
  BY <1>1, <1>5, <1>7, <1>11, NoPaymentAssumption DEF ApprovedOnce
<1>16. CreditsInv'
  <2>1. ASSUME NEW i \in Invoices PROVE CreditedPayments(i)' = CreditedPayments(i)
    <3>1. \A s \in Payments : s # p => (Uncredited(s)' <=> Uncredited(s))
      BY <1>5, <1>6, <1>10, NoPaymentAssumption DEF Uncredited
    <3> QED
      BY <1>2, <1>3, <1>7, <3>1 DEF CreditedPayments
  <2>2. ASSUME NEW i \in Invoices, Undisturbed(i)' PROVE Undisturbed(i)
    <3>1. payment[p].invoice # i
      BY <1>1, <1>2, NoInvoiceAssumption DEF RowsInv
    <3> QED
      BY <1>1, <1>5, <1>7, <2>2, <3>1 DEF Undisturbed, PaymentsTypeOK
  <2>3. \A s \in Payments : payment[s].status = "SUCCESS" => payment'[s] = payment[s]
    BY <1>2, <1>7
  <2> QED
    BY <1>5, <2>1, <2>2, <2>3, CreditsKept
<1>17. StatusMatchesBalance'
  BY <1>1, <1>5 DEF StatusMatchesBalance
<1> QED
  BY <1>5, <1>8, <1>9, <1>13, <1>15, <1>16, <1>17 DEF PaymentsInv

\* A payment's status is overwritten and its other fields are kept: rejection,
\* failure webhook and (with next step "credit") approval.
LEMMA StatusUpdate ==
    ASSUME PaymentsInv, NEW p \in Payments, NEW status \in PaymentStatus \ {"NONE"},
           payment[p].status # "NONE",
           payment' = [payment EXCEPT ![p].status = status]
    PROVE  /\ payment' \in [Payments -> Payment]
           /\ payment'[p].status = status
           /\ \A s \in Payments : /\ payment'[s].invoice = payment[s].invoice
                                  /\ payment'[s].amount = payment[s].amount
                                  /\ payment'[s].gateway = payment[s].gateway
                                  /\ s # p => payment'[s].status = payment[s].status
                                  /\ payment[s].status # "NONE" => payment'[s].status # "NONE"
<1>1. payment \in [Payments -> Payment]
  BY DEF PaymentsInv, PaymentsTypeOK
<1> QED
  BY <1>1 DEF Payment

\* rejectPayment and the webhook of a failed attempt: the payment becomes FAILED
\* and the request ends.
LEMMA FailStep ==
    ASSUME PaymentsInv, NEW r \in Calls, NEW p \in Payments,
           nextStep[r] \in {"reject", "failed"}, context[r].pay = p,
           payment' = [payment EXCEPT ![p].status = "FAILED"],
           meddled' \subseteq Payments, meddled \subseteq meddled',
           p \notin meddled' => payment[p].status # "SUCCESS",
           Continue(r, "done", NoContext),
           UNCHANGED <<invoice, pastDue, scan, gatewaySent, published, raced>>
    PROVE  PaymentsInv'
<1>1. /\ PaymentsTypeOK /\ RowsInv
      /\ \A q \in Calls : PaymentHandlerInv(q) /\ PublishedInv(q)
      /\ ApprovedOnce /\ CreditsInv /\ StatusMatchesBalance
  BY DEF PaymentsInv
<1>2. payment[p].status # "NONE" /\ published[r] = NoPayment
  BY <1>1 DEF PaymentHandlerInv, PublishedInv
<1>3. /\ payment' \in [Payments -> Payment]
      /\ payment'[p].status = "FAILED"
      /\ \A s \in Payments : /\ payment'[s].invoice = payment[s].invoice
                             /\ payment'[s].amount = payment[s].amount
                             /\ payment'[s].gateway = payment[s].gateway
                             /\ s # p => payment'[s].status = payment[s].status
                             /\ payment[s].status # "NONE" => payment'[s].status # "NONE"
  BY <1>2, StatusUpdate DEF PaymentStatus
<1>4. /\ nextStep' \in [Calls -> PaymentSteps] /\ context' \in [Calls -> Context]
      /\ nextStep'[r] = "done" /\ context'[r] = NoContext
      /\ \A q \in Calls : q # r => nextStep'[q] = nextStep[q] /\ context'[q] = context[q]
  BY <1>1, Continued, NewRowsTyped DEF PaymentSteps
<1>5. PaymentsTypeOK'
  BY <1>1, <1>3, <1>4 DEF PaymentsTypeOK
<1>6. RowsInv'
  BY <1>1, <1>2, <1>3 DEF RowsInv
<1>7. \A q \in Calls : published[q] # NoPayment => published[q] \in Payments
  BY <1>1 DEF PaymentsTypeOK
<1>9. ASSUME NEW q \in Calls PROVE PaymentHandlerInv(q)' /\ PublishedInv(q)'
  <2>1. CASE q = r
    BY <1>2, <1>4, <2>1 DEF PaymentHandlerInv, PublishedInv
  <2>2. CASE q # r
    BY <1>1, <1>3, <1>4, <1>7, <2>2 DEF PaymentHandlerInv, PublishedInv
  <2> QED
    BY <2>1, <2>2
<1>11. ApprovedOnce'
  BY <1>1, <1>3 DEF ApprovedOnce
<1>12. CreditsInv'
  <2>1. \A s \in Payments : Uncredited(s)' <=> Uncredited(s)
    BY <1>2, <1>4, NoPaymentAssumption DEF Uncredited
  <2>2. ASSUME NEW i \in Invoices, Undisturbed(i)'
        PROVE  CreditedPayments(i)' = CreditedPayments(i)
    <3>1. payment[p].invoice = i => p \notin meddled'
      BY <1>3, <2>2 DEF Undisturbed
    <3> QED
      BY <1>3, <2>1, <3>1 DEF CreditedPayments
  <2>3. \A i \in Invoices : Undisturbed(i)' => Undisturbed(i)
    BY <1>1, <1>3 DEF Undisturbed, PaymentsTypeOK
  <2> QED
    BY <1>3, <2>2, <2>3, CreditsKept
<1>13. StatusMatchesBalance'
  BY <1>1 DEF StatusMatchesBalance
<1> QED
  BY <1>5, <1>6, <1>9, <1>11, <1>12, <1>13 DEF PaymentsInv

LEMMA RejectUpdateStep ==
    ASSUME PaymentsInv, NEW r \in Calls, RejectUpdate(r)
    PROVE  PaymentsInv'
<1>1. PaymentHandlerInv(r) /\ PaymentsTypeOK /\ nextStep[r] = "reject"
  BY DEF PaymentsInv, RejectUpdate
<1>2. context[r].pay \in Payments /\ context[r].seenPay.status # "SUCCESS"
  BY <1>1 DEF PaymentHandlerInv
<1> QED
  BY <1>1, <1>2, FailStep DEF RejectUpdate, Conclude, Note, StalePayment, PaymentsTypeOK

LEMMA WebhookFailedStep ==
    ASSUME PaymentsInv, NEW r \in Calls, WebhookFailed(r)
    PROVE  PaymentsInv'
<1>1. PaymentHandlerInv(r) /\ PaymentsTypeOK /\ nextStep[r] = "failed"
  BY DEF PaymentsInv, WebhookFailed
<1>2. context[r].pay \in Payments
  BY <1>1 DEF PaymentHandlerInv
<1> QED
  BY <1>1, <1>2, FailStep DEF WebhookFailed, Conclude, Note, PaymentsTypeOK

LEMMA PublishStep ==
    ASSUME PaymentsInv, NEW r \in Calls, nextStep[r] \in {"approve", "captured"}, Publish(r)
    PROVE  PaymentsInv'
<1> DEFINE p == context[r].pay
           seen == [NoContext EXCEPT !.pay = p, !.inv = payment[p].invoice,
                                   !.amount = payment[p].amount]
<1>1. /\ PaymentsTypeOK /\ RowsInv
      /\ \A q \in Calls : PaymentHandlerInv(q) /\ PublishedInv(q)
      /\ ApprovedOnce /\ CreditsInv /\ StatusMatchesBalance
  BY DEF PaymentsInv
<1>2. /\ p \in Payments /\ payment[p].status # "NONE" /\ published[r] = NoPayment
      /\ context[r].seenPay.status # "SUCCESS"
  BY <1>1 DEF PaymentHandlerInv, PublishedInv
<1>3. payment[p] \in Payment /\ payment[p].invoice \in Invoices /\ payment[p].amount > 0
  BY <1>1, <1>2 DEF RowsInv, PaymentsTypeOK
<1>4. /\ seen \in Context /\ seen.pay = p
      /\ seen.inv = payment[p].invoice /\ seen.amount = payment[p].amount
  BY <1>2, <1>3, NewRowsTyped DEF Context, Payment, NoContext
<1>5. /\ payment' = [payment EXCEPT ![p].status = "SUCCESS"]
      /\ published' = [published EXCEPT ![r] = p]
      /\ meddled' = meddled \cup Note(p, StalePayment(r))
      /\ Continue(r, "credit", seen)
      /\ UNCHANGED <<invoice, pastDue, scan, gatewaySent, raced>>
  BY DEF Publish
<1>6. p \notin meddled' => payment[p].status # "SUCCESS"
  BY <1>2, <1>5 DEF Note, StalePayment
<1>7. meddled \subseteq meddled' /\ meddled' \subseteq Payments
  BY <1>1, <1>2, <1>5 DEF Note, PaymentsTypeOK
<1>8. /\ payment' \in [Payments -> Payment]
      /\ payment'[p].status = "SUCCESS"
      /\ \A s \in Payments : /\ payment'[s].invoice = payment[s].invoice
                             /\ payment'[s].amount = payment[s].amount
                             /\ payment'[s].gateway = payment[s].gateway
                             /\ s # p => payment'[s].status = payment[s].status
                             /\ payment[s].status # "NONE" => payment'[s].status # "NONE"
  <2>1. "SUCCESS" \in PaymentStatus \ {"NONE"}
    BY DEF PaymentStatus
  <2> HIDE DEF p, seen
  <2> QED
    BY <1>2, <1>5, <2>1, StatusUpdate
<1> HIDE DEF p, seen
<1>9. /\ nextStep' \in [Calls -> PaymentSteps] /\ context' \in [Calls -> Context]
      /\ nextStep'[r] = "credit" /\ context'[r] = seen
      /\ \A q \in Calls : q # r => nextStep'[q] = nextStep[q] /\ context'[q] = context[q]
  BY <1>1, <1>4, <1>5, Continued DEF PaymentSteps
<1>10. /\ published' \in [Calls -> Payments \cup {NoPayment}] /\ published'[r] = p
       /\ \A q \in Calls : q # r => published'[q] = published[q]
  BY <1>1, <1>2, <1>5 DEF PaymentsTypeOK
<1>11. PaymentsTypeOK'
  BY <1>1, <1>5, <1>7, <1>8, <1>9, <1>10 DEF PaymentsTypeOK
<1>12. RowsInv'
  BY <1>1, <1>2, <1>5, <1>8 DEF RowsInv
<1>13. \A q \in Calls : published[q] # NoPayment => published[q] \in Payments
  BY <1>1 DEF PaymentsTypeOK
<1>15. ASSUME NEW q \in Calls PROVE PaymentHandlerInv(q)' /\ PublishedInv(q)'
  <2>1. CASE q = r
    BY <1>2, <1>3, <1>4, <1>8, <1>9, <1>10, <2>1 DEF PaymentHandlerInv, PublishedInv
  <2>2. CASE q # r
    BY <1>1, <1>2, <1>5, <1>8, <1>9, <1>10, <1>13, <2>2 DEF PaymentHandlerInv, PublishedInv
  <2> QED
    BY <2>1, <2>2
<1>17. ApprovedOnce'
  BY <1>1, <1>2, <1>6, <1>7, <1>8, <1>10 DEF ApprovedOnce
<1>18. CreditsInv'
  <2>1. \A s \in Payments : s # p => (Uncredited(s)' <=> Uncredited(s))
    BY <1>2, <1>9, <1>10, NoPaymentAssumption DEF Uncredited
  <2>2. \E q \in Calls : published'[q] = p /\ nextStep'[q] \in {"credit", "reconcile", "lost"}
    BY <1>9, <1>10
  <2>3. ASSUME NEW i \in Invoices, Undisturbed(i)'
        PROVE  CreditedPayments(i)' = CreditedPayments(i)
    <3>1. payment[p].invoice = i => p \notin meddled'
      BY <1>2, <1>8, <2>3 DEF Undisturbed
    <3>2. p \notin CreditedPayments(i) /\ p \notin CreditedPayments(i)'
      BY <1>6, <2>2, <3>1 DEF CreditedPayments, Uncredited
    <3> QED
      BY <1>8, <2>1, <3>2 DEF CreditedPayments
  <2>4. \A i \in Invoices : Undisturbed(i)' => Undisturbed(i)
    BY <1>1, <1>5, <1>7, <1>8 DEF Undisturbed, PaymentsTypeOK
  <2> QED
    BY <1>5, <1>8, <2>3, <2>4, CreditsKept
<1>19. StatusMatchesBalance'
  BY <1>1, <1>5 DEF StatusMatchesBalance
<1> QED
  BY <1>5, <1>11, <1>12, <1>15, <1>17, <1>18, <1>19 DEF PaymentsInv

(***************************************************************************)
(* Steps that write an invoice                                           *)
(***************************************************************************)

\* What every step that writes invoices leaves alone.
LEMMA InvoiceStep ==
    ASSUME PaymentsInv,
           UNCHANGED <<payment, gatewaySent, published, meddled>>
    PROVE  RowsInv' /\ ApprovedOnce'
BY DEF PaymentsInv, RowsInv, ApprovedOnce

LEMMA ListenerWriteStep ==
    ASSUME PaymentsInv, NEW r \in Calls, ListenerWrite(r)
    PROVE  PaymentsInv'
<1> DEFINE i == context[r].inv
           seen == context[r].seenInv
           amt == context[r].amount
           newPaid == seen.paid + amt
           newStatus == StatusFor(newPaid, seen.total)
<1>1. /\ PaymentsTypeOK /\ RowsInv
      /\ \A q \in Calls : PaymentHandlerInv(q) /\ PublishedInv(q)
      /\ ApprovedOnce /\ CreditsInv /\ StatusMatchesBalance
  BY DEF PaymentsInv
<1>2. /\ i \in Invoices /\ amt \in Nat /\ amt > 0 /\ nextStep[r] = "reconcile"
      /\ published[r] \in Payments /\ payment[published[r]].invoice = i
  BY <1>1 DEF ListenerWrite, PaymentHandlerInv, PaymentsTypeOK, Context
<1>3. seen.paid \in Nat /\ seen.total \in Nat /\ newPaid \in Nat /\ newStatus \in InvoiceStatus
  BY <1>1, <1>2 DEF PaymentsTypeOK, Context, InvoiceRow, InvoiceStatus, StatusFor
<1>4. /\ invoice' = [invoice EXCEPT ![i].paid = newPaid, ![i].status = newStatus]
      /\ raced' = raced \cup Note(i, invoice[i].paid # seen.paid \/ invoice[i].total # seen.total)
      /\ Continue(r, "done", NoContext)
      /\ UNCHANGED <<payment, pastDue, scan, gatewaySent, published, meddled>>
  BY DEF ListenerWrite, Conclude, newAmountPaid
<1>5. i \notin raced' =>
        /\ i \notin raced
        /\ invoice[i].paid = seen.paid /\ invoice[i].total = seen.total
  BY <1>1, <1>2, <1>4 DEF Note
<1>6. raced \subseteq raced' /\ raced' \subseteq Invoices
  BY <1>1, <1>2, <1>4 DEF Note, PaymentsTypeOK
<1> HIDE DEF newPaid, newStatus
<1>7. /\ invoice' \in [Invoices -> InvoiceRow]
      /\ invoice'[i].paid = newPaid /\ invoice'[i].status = newStatus
      /\ invoice'[i].total = invoice[i].total /\ invoice'[i].lines = invoice[i].lines
      /\ \A j \in Invoices : j # i => invoice'[j] = invoice[j]
  BY <1>1, <1>2, <1>3, <1>4 DEF PaymentsTypeOK, InvoiceRow
<1>9. /\ nextStep' \in [Calls -> PaymentSteps] /\ context' \in [Calls -> Context]
      /\ nextStep'[r] = "done" /\ context'[r] = NoContext
      /\ \A q \in Calls : q # r => nextStep'[q] = nextStep[q] /\ context'[q] = context[q]
  BY <1>1, <1>4, Continued, NewRowsTyped DEF PaymentSteps
<1>10. PaymentsTypeOK'
  BY <1>1, <1>4, <1>6, <1>7, <1>9 DEF PaymentsTypeOK
<1>11. RowsInv' /\ ApprovedOnce'
  BY <1>4, InvoiceStep
<1>13. ASSUME NEW q \in Calls PROVE PaymentHandlerInv(q)' /\ PublishedInv(q)'
  <2>1. CASE q = r
    BY <1>1, <1>4, <1>9, <2>1 DEF PaymentHandlerInv, PublishedInv
  <2>2. CASE q # r
    BY <1>1, <1>4, <1>9, <2>2 DEF PaymentHandlerInv, PublishedInv
  <2> QED
    BY <2>1, <2>2
\* The write adds to amount_paid what the payment it is for adds to the sum.
<1>14. CreditsInv'
  <2>1. PICK p \in Payments : /\ p = published[r]
                              /\ payment[p].invoice = i /\ payment[p].amount = amt
    BY <1>1, <1>2 DEF PaymentHandlerInv
  <2>2. AmountOf' = AmountOf
    BY <1>4 DEF AmountOf
  <2> SUFFICES ASSUME NEW j \in Invoices, Undisturbed(j)'
               PROVE  invoice'[j].paid = SumOver(AmountOf, CreditedPayments(j)')
    BY <2>2 DEF CreditsInv
  <2> DEFINE S == CreditedPayments(j)
  <2>3. Undisturbed(j) /\ invoice[j].paid = SumOver(AmountOf, S)
    BY <1>1, <1>4, <1>6 DEF Undisturbed, CreditsInv
  <2>4. \A s \in Payments : s # p => (Uncredited(s)' <=> Uncredited(s))
    BY <1>4, <1>9, <2>1 DEF Uncredited
  <2>5. CASE j # i
    <3>1. CreditedPayments(j)' = S
      BY <1>4, <2>1, <2>4, <2>5 DEF CreditedPayments
    <3> QED
      BY <1>7, <2>3, <2>5, <3>1
  <2>6. CASE j = i
    <3>1. invoice[j].paid = seen.paid /\ p \notin meddled
      BY <1>4, <1>5, <2>1, <2>6 DEF Undisturbed
    <3>2. payment[p].status = "SUCCESS" /\ \A q \in Calls : published[q] = p => q = r
      BY <1>1, <2>1, <3>1 DEF ApprovedOnce
    <3>3. p \notin S
      BY <1>2, <2>1 DEF CreditedPayments, Uncredited
    <3>4. ~Uncredited(p)'
      BY <1>4, <1>9, <3>2 DEF Uncredited
    <3>5. CreditedPayments(j)' = S \cup {p}
      BY <1>4, <2>1, <2>4, <2>6, <3>2, <3>4 DEF CreditedPayments
    <3>6. IsFiniteSet(S \cup {p})
      BY PaymentsFinite, FS_Subset DEF CreditedPayments
    <3>7. AmountOf[p] = amt /\ \A s \in S \cup {p} : AmountOf[s] \in Int
      BY <1>1, <2>1 DEF AmountOf, CreditedPayments, PaymentsTypeOK, Payment
    <3>8. invoice'[j].paid = invoice[j].paid + amt
      BY <1>7, <2>6, <3>1 DEF newPaid
    <3>9. (S \cup {p}) \ {p} = S
      BY <3>3
    <3> HIDE DEF S
    <3>10. SumOver(AmountOf, S \cup {p}) = SumOver(AmountOf, (S \cup {p}) \ {p}) + AmountOf[p]
      BY <3>6, <3>7, SumOverAny
    <3> QED
      BY <2>3, <3>5, <3>7, <3>8, <3>9, <3>10
  <2> QED
    BY <2>5, <2>6
<1>16. StatusMatchesBalance'
  <2> SUFFICES ASSUME NEW j \in Invoices \ raced'
               PROVE  /\ invoice'[j].status = "PAID" <=> invoice'[j].paid >= invoice'[j].total
                      /\ invoice'[j].total = invoice'[j].lines
    BY DEF StatusMatchesBalance
  <2>1. CASE j = i
    BY <1>1, <1>2, <1>3, <1>5, <1>7, <2>1 DEF StatusMatchesBalance, newStatus, StatusFor
  <2>2. CASE j # i
    BY <1>1, <1>6, <1>7, <2>2 DEF StatusMatchesBalance
  <2> QED
    BY <2>1, <2>2
<1> QED
  BY <1>10, <1>11, <1>13, <1>14, <1>16 DEF PaymentsInv

LEMMA LineCommitStep ==
    ASSUME PaymentsInv, NEW r \in Calls, LineCommit(r)
    PROVE  PaymentsInv'
<1> DEFINE i == context[r].inv
           seen == context[r].seenInv
           amt == context[r].amount
<1>1. /\ PaymentsTypeOK /\ RowsInv
      /\ \A q \in Calls : PaymentHandlerInv(q) /\ PublishedInv(q)
      /\ ApprovedOnce /\ CreditsInv /\ StatusMatchesBalance
  BY DEF PaymentsInv
<1>2. /\ i \in Invoices /\ amt \in Nat /\ amt > 0 /\ nextStep[r] = "recompute"
      /\ published[r] = NoPayment
  BY <1>1 DEF LineCommit, PaymentHandlerInv, PublishedInv, PaymentsTypeOK, Context
<1>3. seen.lines \in Nat /\ invoice[i] \in InvoiceRow
  BY <1>1, <1>2 DEF PaymentsTypeOK, Context, InvoiceRow
<1>4. /\ invoice' = [invoice EXCEPT ![i].lines = invoice[i].lines + amt,
                                    ![i].total = seen.lines + amt]
      /\ raced' = raced \cup Note(i, invoice[i].lines # seen.lines \/ ~Payable(i))
      /\ Continue(r, "done", NoContext)
      /\ UNCHANGED <<payment, pastDue, scan, gatewaySent, published, meddled>>
  BY DEF LineCommit, Conclude
<1>5. raced \subseteq raced' /\ raced' \subseteq Invoices
  BY <1>1, <1>2, <1>4 DEF Note, PaymentsTypeOK
<1>6. i \notin raced' => invoice[i].lines = seen.lines /\ invoice[i].status # "PAID"
  BY <1>4 DEF Note, Payable
<1>7. /\ invoice' \in [Invoices -> InvoiceRow]
      /\ invoice'[i].paid = invoice[i].paid /\ invoice'[i].status = invoice[i].status
      /\ invoice'[i].total = seen.lines + amt
      /\ invoice'[i].lines = invoice[i].lines + amt
      /\ \A j \in Invoices : j # i => invoice'[j] = invoice[j]
  BY <1>1, <1>2, <1>3, <1>4 DEF PaymentsTypeOK, InvoiceRow
<1>8. /\ nextStep' \in [Calls -> PaymentSteps] /\ context' \in [Calls -> Context]
      /\ nextStep'[r] = "done" /\ context'[r] = NoContext
      /\ \A q \in Calls : q # r => nextStep'[q] = nextStep[q] /\ context'[q] = context[q]
  BY <1>1, <1>4, Continued, NewRowsTyped DEF PaymentSteps
<1>9. PaymentsTypeOK'
  BY <1>1, <1>4, <1>5, <1>7, <1>8 DEF PaymentsTypeOK
<1>10. RowsInv' /\ ApprovedOnce'
  BY <1>4, InvoiceStep
<1>12. ASSUME NEW q \in Calls PROVE PaymentHandlerInv(q)' /\ PublishedInv(q)'
  <2>1. CASE q = r
    BY <1>1, <1>2, <1>4, <1>8, <2>1 DEF PaymentHandlerInv, PublishedInv
  <2>2. CASE q # r
    BY <1>1, <1>4, <1>8, <2>2 DEF PaymentHandlerInv, PublishedInv
  <2> QED
    BY <2>1, <2>2
<1>14. CreditsInv'
  <2>1. \A j \in Invoices : CreditedPayments(j)' = CreditedPayments(j)
    BY <1>2, <1>4, <1>8, CreditedKept
  <2>2. \A j \in Invoices : invoice'[j].paid = invoice[j].paid
    BY <1>7
  <2> QED
    BY <1>4, <1>5, <2>1, <2>2, CreditsKept DEF Undisturbed
<1>15. StatusMatchesBalance'
  <2> SUFFICES ASSUME NEW j \in Invoices \ raced'
               PROVE  /\ invoice'[j].status = "PAID" <=> invoice'[j].paid >= invoice'[j].total
                      /\ invoice'[j].total = invoice'[j].lines
    BY DEF StatusMatchesBalance
  <2>1. CASE j = i
    <3>1. /\ invoice[i].status = "PAID" <=> invoice[i].paid >= invoice[i].total
          /\ invoice[i].total = invoice[i].lines
      BY <1>1, <1>2, <1>5, <2>1 DEF StatusMatchesBalance
    <3>2. invoice[i].paid \in Nat /\ invoice[i].total \in Nat
      BY <1>3 DEF InvoiceRow
    <3> QED
      BY <1>2, <1>3, <1>6, <1>7, <2>1, <3>1, <3>2
  <2>2. CASE j # i
    BY <1>1, <1>5, <1>7, <2>2 DEF StatusMatchesBalance
  <2> QED
    BY <2>1, <2>2
<1> QED
  BY <1>9, <1>10, <1>12, <1>14, <1>15 DEF PaymentsInv

LEMMA MarkOverdueStep ==
    ASSUME PaymentsInv, MarkOverdue
    PROVE  PaymentsInv'
<1>1. /\ PaymentsTypeOK /\ RowsInv
      /\ \A q \in Calls : PaymentHandlerInv(q) /\ PublishedInv(q)
      /\ ApprovedOnce /\ CreditsInv /\ StatusMatchesBalance
  BY DEF PaymentsInv
<1>2. /\ raced' = raced \cup {i \in scan : ~OverdueStatus(i)}
      /\ scan' = {}
      /\ UNCHANGED <<payment, pastDue, nextStep, context, gatewaySent, published, meddled>>
  BY DEF MarkOverdue
<1>3. raced \subseteq raced' /\ raced' \subseteq Invoices
  BY <1>1, <1>2 DEF PaymentsTypeOK
<1>4. /\ invoice' \in [Invoices -> InvoiceRow]
      /\ \A j \in Invoices : /\ invoice'[j].paid = invoice[j].paid
                             /\ invoice'[j].total = invoice[j].total
                             /\ invoice'[j].lines = invoice[j].lines
                             /\ j \notin scan => invoice'[j].status = invoice[j].status
                             /\ j \in scan => invoice'[j].status = "OVERDUE"
  BY <1>1 DEF MarkOverdue, PaymentsTypeOK, InvoiceRow, InvoiceStatus
<1>5. PaymentsTypeOK'
  BY <1>1, <1>2, <1>3, <1>4 DEF PaymentsTypeOK
<1>6. RowsInv' /\ ApprovedOnce'
  BY <1>2, InvoiceStep
<1>7. \A q \in Calls : PaymentHandlerInv(q)' /\ PublishedInv(q)'
  BY <1>1, <1>2 DEF PaymentHandlerInv, PublishedInv
<1>8. CreditsInv'
  <2>1. \A j \in Invoices : CreditedPayments(j)' = CreditedPayments(j)
    BY <1>2, CreditedKept
  <2> QED
    BY <1>2, <1>3, <1>4, <2>1, CreditsKept DEF Undisturbed
<1>11. StatusMatchesBalance'
  <2> SUFFICES ASSUME NEW j \in Invoices \ raced'
               PROVE  /\ invoice'[j].status = "PAID" <=> invoice'[j].paid >= invoice'[j].total
                      /\ invoice'[j].total = invoice'[j].lines
    BY DEF StatusMatchesBalance
  <2>1. /\ invoice[j].status = "PAID" <=> invoice[j].paid >= invoice[j].total
        /\ invoice[j].total = invoice[j].lines
    BY <1>1, <1>3 DEF StatusMatchesBalance
  <2>2. j \in scan => invoice[j].status # "PAID"
    BY <1>2 DEF OverdueStatus
  <2> QED
    BY <1>4, <2>1, <2>2
<1> QED
  BY <1>5, <1>6, <1>7, <1>8, <1>11 DEF PaymentsInv

(***************************************************************************)
(* The remaining steps: the environment, the cron's read and a restart     *)
(***************************************************************************)

LEMMA OutsideStep ==
    ASSUME PaymentsInv,
           UNCHANGED <<invoice, payment, nextStep, context, published, meddled, raced>>,
           PaymentsTypeOK', RowsInv'
    PROVE  PaymentsInv'
<1>1. CreditsInv'
  <2>1. \A j \in Invoices : CreditedPayments(j)' = CreditedPayments(j)
    BY CreditedKept
  <2> QED
    BY <2>1, CreditsKept DEF Undisturbed
<1> QED
  BY <1>1 DEF PaymentsInv, PaymentHandlerInv, PublishedInv, ApprovedOnce, StatusMatchesBalance

LEMMA GatewayReportsStep ==
    ASSUME PaymentsInv, NEW p \in Payments, NEW e \in GatewayEvents, GatewayReports(p, e)
    PROVE  PaymentsInv'
BY OutsideStep DEF GatewayReports, PaymentsInv, PaymentsTypeOK, RowsInv

LEMMA DueAndScanStep ==
    ASSUME PaymentsInv, OverdueScan \/ \E i \in Invoices : DueDatePasses(i)
    PROVE  PaymentsInv'
<1>1. PaymentsTypeOK'
  BY DEF PaymentsInv, PaymentsTypeOK, OverdueScan, DueDatePasses, OverdueCandidates
<1>2. RowsInv'
  BY DEF PaymentsInv, RowsInv, OverdueScan, DueDatePasses
<1> QED
  BY <1>1, <1>2, OutsideStep DEF OverdueScan, DueDatePasses

LEMMA PaymentsRestartStep ==
    ASSUME PaymentsInv, PaymentsRestart
    PROVE  PaymentsInv'
<1>1. /\ PaymentsTypeOK /\ RowsInv
      /\ \A q \in Calls : PaymentHandlerInv(q) /\ PublishedInv(q)
      /\ ApprovedOnce /\ CreditsInv /\ StatusMatchesBalance
  BY DEF PaymentsInv
<1>2. /\ context' = [r \in Calls |-> NoContext]
      /\ scan' = {}
      /\ UNCHANGED <<invoice, payment, pastDue, gatewaySent, published, meddled, raced>>
  BY DEF PaymentsRestart
<1>3. \A r \in Calls :
        /\ nextStep[r] \in {"idle", "done", "lost"} => nextStep'[r] = nextStep[r]
        /\ nextStep[r] \in {"credit", "reconcile"} => nextStep'[r] = "lost"
        /\ nextStep[r] \notin {"idle", "done", "lost", "credit", "reconcile"}
              => nextStep'[r] = "done"
  BY DEF PaymentsRestart
<1>4. nextStep' \in [Calls -> PaymentSteps]
  <2>1. \A r \in Calls : nextStep'[r] \in PaymentSteps
    BY <1>3 DEF PaymentSteps
  <2> QED
    BY <2>1 DEF PaymentsRestart
<1>5. PaymentsTypeOK'
  BY <1>1, <1>2, <1>4, NewRowsTyped DEF PaymentsTypeOK
<1>6. RowsInv' /\ ApprovedOnce' /\ StatusMatchesBalance'
  BY <1>1, <1>2 DEF RowsInv, ApprovedOnce, StatusMatchesBalance
<1>7. \A r \in Calls : PaymentHandlerInv(r)' /\ PublishedInv(r)'
  BY <1>1, <1>2, <1>3 DEF PaymentHandlerInv, PublishedInv
<1>8. CreditsInv'
  <2>1. \A q \in Calls : published[q] # NoPayment =>
            (nextStep'[q] \in {"credit", "reconcile", "lost"}
             <=> nextStep[q] \in {"credit", "reconcile", "lost"})
    BY <1>1, <1>3 DEF PublishedInv
  <2>2. \A j \in Invoices : CreditedPayments(j)' = CreditedPayments(j)
    BY <1>2, <2>1, CreditedKept
  <2> QED
    BY <1>2, <2>2, CreditsKept DEF Undisturbed
<1> QED
  BY <1>5, <1>6, <1>7, <1>8 DEF PaymentsInv

(***************************************************************************)
(* Theorems                                                                *)
(***************************************************************************)

LEMMA NextPaymentsInv == PaymentsInv /\ [PaymentsNext]_paymentVars => PaymentsInv'
<1> SUFFICES ASSUME PaymentsInv, [PaymentsNext]_paymentVars PROVE PaymentsInv'
  OBVIOUS
<1>1. CASE UNCHANGED paymentVars
  BY <1>1, OutsideStep DEF paymentVars, PaymentsInv, PaymentsTypeOK, RowsInv
<1>2. ASSUME NEW r \in Calls, PaymentHandler(r) PROVE PaymentsInv'
  BY <1>2, SubmitReadStep, LineReadStep, OrderReadStep, InsertPaymentStep, VerifyReadStep,
     WebhookReadStep, PublishStep, RejectUpdateStep, WebhookFailedStep, ListenerReadStep,
     ListenerWriteStep, ListenerFailsStep, LineSumStep, LineCommitStep
     DEF PaymentHandler, ApproveUpdate, WebhookCaptured
<1>3. CASE \E p \in Payments, e \in GatewayEvents : GatewayReports(p, e)
  BY <1>3, GatewayReportsStep
<1> QED
  BY <1>1, <1>2, <1>3, DueAndScanStep, MarkOverdueStep, PaymentsRestartStep DEF PaymentsNext

THEOREM PaymentsInvariant == PaymentsSpec => []PaymentsInv
BY InitPaymentsInv, NextPaymentsInv, PTL DEF PaymentsSpec

\* Every row, handler and history variable stays in its type.
THEOREM PaymentsTyped == PaymentsSpec => []PaymentsTypeOK
<1>1. PaymentsInv => PaymentsTypeOK
  BY DEF PaymentsInv
<1> QED
  BY <1>1, PaymentsInvariant, PTL

\* Without a disturbance of the payment, it is approved once and stays SUCCESS.
THEOREM PaymentsApprovedOnce == PaymentsSpec => []ApprovedOnce
<1>1. PaymentsInv => ApprovedOnce
  BY DEF PaymentsInv
<1> QED
  BY <1>1, PaymentsInvariant, PTL

\* The sum of CreditsMatchApprovals.
AmountSums(P, f, S) ==
    f = [s \in SUBSET S |-> IF s = {} THEN 0 ELSE P[First(s)].amount + f[s \ {First(s)}]]

LEMMA CreditsAreSum ==
    ASSUME NEW S \in SUBSET Payments, IsFiniteSet(S)
    PROVE  MapThenSumSet(LAMBDA p : payment[p].amount, S) = SumOver(AmountOf, S)
<1> DEFINE F == AmountOf
<1>1. MapThenSumSet(LAMBDA p : payment[p].amount, S) = (CHOOSE f : AmountSums(payment, f, S))[S]
  BY DEF MapThenSumSet, MapThenFoldSet, AmountSums, First
<1>2. \A s \in SUBSET S : s # {} => F[First(s)] = payment[First(s)].amount
  BY DEF First, AmountOf
<1> HIDE DEF F
<1>3. ASSUME NEW f PROVE AmountSums(payment, f, S) <=> Sums(F, f, S)
  <2>1. [s \in SUBSET S |-> IF s = {} THEN 0 ELSE payment[First(s)].amount + f[s \ {First(s)}]]
        = [s \in SUBSET S |-> IF s = {} THEN 0 ELSE F[First(s)] + f[s \ {First(s)}]]
    BY <1>2
  <2> QED
    BY <2>1 DEF AmountSums, Sums
<1> DEFINE g == CHOOSE f : AmountSums(payment, f, S)
<1>4. AmountSums(payment, g, S)
  BY <1>3, SumsExist
<1> HIDE DEF g
<1>5. g[S] = SumOver(F, S)
  BY <1>3, <1>4, SumOverSums
<1> QED
  BY <1>1, <1>5 DEF g, F

\* Without a race on the invoice and a disturbance of its payments, amount_paid is the sum
\* of its approved payments, but for those whose listener has not finished.
THEOREM CreditsAreApprovals == PaymentsSpec => []CreditsMatchApprovals
<1>1. ASSUME PaymentsInv, NEW i \in Invoices, Undisturbed(i)
      PROVE  invoice[i].paid
             = MapThenSumSet(LAMBDA p : payment[p].amount, CreditedPayments(i))
  <2>1. CreditedPayments(i) \in SUBSET Payments /\ IsFiniteSet(CreditedPayments(i))
    BY PaymentsFinite, FS_Subset DEF CreditedPayments
  <2>2. invoice[i].paid = SumOver(AmountOf, CreditedPayments(i))
    BY <1>1 DEF PaymentsInv, CreditsInv
  <2> QED
    BY <2>1, <2>2, CreditsAreSum
<1>2. PaymentsInv => CreditsMatchApprovals
  BY <1>1 DEF CreditsMatchApprovals
<1> QED
  BY <1>2, PaymentsInvariant, PTL

\* Without a race on the invoice, PAID means covered by what was paid.
THEOREM PaidMeansCovered == PaymentsSpec => []StatusMatchesBalance
<1>1. PaymentsInv => StatusMatchesBalance
  BY DEF PaymentsInv
<1> QED
  BY <1>1, PaymentsInvariant, PTL

\* Only a listener lowers amount_paid or leaves PAID, and only after a race; the
\* overdue cron leaves PAID only after a race; only a line item moves the total.
LEMMA PaidIsFinalLemma ==
    PaymentsInv /\ PaymentsInv' /\ [PaymentsNext]_paymentVars => PaidIsFinalStep
<1> SUFFICES ASSUME PaymentsInv, PaymentsInv', [PaymentsNext]_paymentVars,
                    NEW i \in Invoices \ raced'
             PROVE  /\ invoice'[i].paid >= invoice[i].paid
                    /\ invoice[i].status = "PAID" => /\ invoice'[i].status = "PAID"
                                                     /\ invoice'[i].total = invoice[i].total
  BY DEF PaidIsFinalStep
<1>1. invoice[i] \in InvoiceRow /\ invoice \in [Invoices -> InvoiceRow] /\ i \in Invoices
  BY DEF PaymentsInv, PaymentsTypeOK
<1>2. CASE UNCHANGED invoice
  BY <1>1, <1>2 DEF InvoiceRow
<1>3. ASSUME NEW r \in Calls, ListenerWrite(r) PROVE invoice'[i].paid >= invoice[i].paid
        /\ invoice'[i].total = invoice[i].total
  <2>1. /\ context[r].amount \in Nat /\ context[r].seenInv.paid \in Nat
    BY DEF PaymentsInv, PaymentsTypeOK, Context, InvoiceRow
  <2>2. context[r].inv = i => invoice[i].paid = context[r].seenInv.paid
    BY <1>3 DEF ListenerWrite, Note
  <2> QED
    BY <1>1, <1>3, <2>1, <2>2 DEF ListenerWrite, newAmountPaid, InvoiceRow
<1>4. ASSUME NEW r \in Calls, LineCommit(r)
      PROVE  /\ invoice'[i].paid = invoice[i].paid /\ invoice'[i].status = invoice[i].status
             /\ invoice[i].status = "PAID" => invoice'[i].total = invoice[i].total
  BY <1>1, <1>4 DEF LineCommit, Note, Payable, InvoiceRow
<1>5. ASSUME MarkOverdue
      PROVE  /\ invoice'[i].paid = invoice[i].paid /\ invoice'[i].total = invoice[i].total
             /\ invoice[i].status = "PAID" => invoice'[i].status = "PAID"
  BY <1>1, <1>5 DEF MarkOverdue, OverdueStatus, InvoiceRow
<1>6. \/ UNCHANGED invoice
      \/ \E r \in Calls : ListenerWrite(r) \/ LineCommit(r)
      \/ MarkOverdue
  BY DEF PaymentsNext, paymentVars, PaymentHandler, SubmitRead, LineRead, OrderRead,
         InsertPayment, ApproveRead, RejectRead, VerifyRead, WebhookRead, ApproveUpdate,
         RejectUpdate, WebhookCaptured, WebhookFailed, Publish, ListenerRead, ListenerFails,
         LineSum, GatewayReports, DueDatePasses, OverdueScan, PaymentsRestart
\* PAID before the listener's write means covered, and the write only adds to it.
<1>7. ASSUME NEW r \in Calls, ListenerWrite(r), invoice[i].status = "PAID"
      PROVE  invoice'[i].status = "PAID"
  <2>1. /\ i \notin raced
        /\ invoice'[i].status = "PAID" <=> invoice'[i].paid >= invoice'[i].total
    BY <1>1, <1>7 DEF PaymentsInv, StatusMatchesBalance, ListenerWrite
  <2>2. invoice[i].paid >= invoice[i].total
    BY <1>1, <1>7, <2>1 DEF PaymentsInv, StatusMatchesBalance
  <2>3. invoice'[i].paid \in Nat /\ invoice'[i].total \in Nat
    BY <1>1 DEF PaymentsInv, PaymentsTypeOK, InvoiceRow
  <2> QED
    BY <1>1, <1>3, <1>7, <2>1, <2>2, <2>3 DEF InvoiceRow
<1> QED
  BY <1>1, <1>2, <1>3, <1>4, <1>5, <1>6, <1>7 DEF InvoiceRow

\* Without a race on the invoice, PAID is final and credits only grow.
THEOREM PaidStaysPaid == PaymentsSpec => PaidIsFinal
<1>1. PaymentsInv /\ PaymentsInv' /\ [PaymentsNext]_paymentVars => [PaidIsFinalStep]_paymentVars
  BY PaidIsFinalLemma
<1> QED
  BY <1>1, PaymentsInvariant, PTL DEF PaymentsSpec, PaidIsFinal
=============================================================================
