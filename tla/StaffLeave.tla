----------------------------- MODULE StaffLeave -----------------------------
(***************************************************************************)
(* The leave of one employee: leave types, assignments and applications of *)
(* employee-leave.service.ts, the older teacher requests of                *)
(* leave.service.ts, and the staff attendance that both of them and        *)
(* staff-attendance.service.ts write.                                      *)
(*                                                                         *)
(* One employee, one leave type and one academic year, whose is_current    *)
(* flag academic-years.repository.ts clears and sets in two statements.    *)
(* A request runs one handler after the other; its guards are read in one  *)
(* step and every statement that writes is a step.  Applications are read  *)
(* through the cache.  Cached lists are left to ReadThroughCache.          *)
(***************************************************************************)
EXTENDS Integers, FiniteSets, FiniteSetsExt

CONSTANTS
    Assignments,    \* ids of rows of leave_assigned
    Applications,   \* ids of leave_applications and teacher_leave_requests
    Days,           \* the dates, as consecutive numbers
    Requests,
    MaxStarted,     \* bound on how often Start happens
    None            \* no application, no assignment

ASSUME LeaveAssumption ==
    /\ MaxStarted \in Nat /\ Days \subseteq Int /\ IsFiniteSet(Days) /\ IsFiniteSet(Applications)
    /\ None \notin Applications \cup Assignments

Ranges == {{d \in Days : from <= d /\ d <= to} : from \in Days, to \in Days} \ {{}}
Status == {"PENDING", "APPROVED", "REJECTED", "CANCELLED"}
Assigned == [used : Nat, deleted : BOOLEAN]
Application == [kind : {"employee", "teacher"}, days : Ranges, status : Status]
Record == [status : {"PRESENT", "ABSENT", "LEAVE"}, by : {"staff", "leave-sync", "rfid-auto"}]

VARIABLES
    type,         \* leave_types: leave_count_days and is_enabled
    assigned,     \* table leave_assigned
    application,  \* tables leave_applications and teacher_leave_requests
    attendance,   \* table staff_attendances, by date
    current,      \* some academic year is_current
    cached,       \* status of the applications in the cache
    pc, local,    \* what each request does next and what it has read or was sent
    started,      \* how often Start happened
    counted,      \* history: applications approved before each assignment was made
    overtaken,    \* history: applications decided when they were PENDING no more
    cut,          \* history: applications whose decision was not carried out in full
    rejected,     \* history: applications rejected at some time
    loose         \* history: the balance need not bound what is used

tables == <<type, assigned, application, attendance, current>>
history == <<counted, overtaken, cut, rejected, loose>>
vars == <<type, assigned, application, attendance, current, cached, pc, local, started,
          counted, overtaken, cut, rejected, loose>>

Nothing == [app |-> None, row |-> None, days |-> {}, to |-> "PENDING", seen |-> "PENDING"]
Local == [app : Applications \cup {None}, row : Assignments \cup {None},
          days : SUBSET Days, to : Status, seen : Status]
Steps == {"idle", "assign", "apply", "store", "update", "count", "sync", "bust", "tap"}
IsTable(table, S, T) == DOMAIN table \subseteq S /\ table \in [DOMAIN table -> T]
Upsert(table, k, v) == [j \in DOMAIN table \cup {k} |-> IF j = k THEN v ELSE table[j]]

Init ==
    /\ type = [count |-> Cardinality(Days), enabled |-> TRUE]
    /\ \E x \in Assignments : assigned = [y \in {x} |-> [used |-> 0, deleted |-> FALSE]]
    /\ application = << >> /\ attendance = << >> /\ cached = << >>
    /\ current = TRUE /\ started = 0
    /\ pc = [r \in Requests |-> "idle"]
    /\ local = [r \in Requests |-> Nothing]
    /\ counted = [x \in DOMAIN assigned |-> {}]
    /\ overtaken = {} /\ cut = {} /\ rejected = {} /\ loose = FALSE

Approved(kind) ==
    {a \in DOMAIN application : application[a].kind = kind /\ application[a].status = "APPROVED"}
Live == {x \in DOMAIN assigned : ~assigned[x].deleted}
Goto(r, step, seen) ==
    /\ pc' = [pc EXCEPT ![r] = step]
    /\ local' = [local EXCEPT ![r] = seen]
Finish(r) == Goto(r, "idle", Nothing)
\* Ids are drawn when a handler begins.
FreshRow(x) == x \notin DOMAIN assigned \cup {local[r].row : r \in Requests}
FreshId(a) == a \notin DOMAIN application \cup {local[r].app : r \in Requests}
At(steps, a) == {q \in Requests : pc[q] \in steps /\ local[q].app = a}

-----------------------------------------------------------------------------
(* Leave types and assignments.                                            *)

\* updateLeaveType and removeLeaveType.  A smaller count is not compared with what is used.
UpdateType(r, count, enabled) ==
    /\ pc[r] = "idle"
    /\ type' = [count |-> count, enabled |-> enabled]
    /\ loose' = (loose \/ count < type.count)
    /\ UNCHANGED <<assigned, application, attendance, current, cached, pc, local,
                   counted, overtaken, cut, rejected>>

AssignLeave(r, x) ==
    /\ pc[r] = "idle" /\ FreshRow(x)
    /\ type.enabled /\ Live = {}
    /\ Goto(r, "assign", [Nothing EXCEPT !.row = x])
    /\ UNCHANGED <<tables, cached, history>>

\* createAssignment: nothing keeps a second row for the employee, type and year out.
CreateAssignment(r) ==
    LET x == local[r].row
    IN  /\ pc[r] = "assign"
        /\ assigned' = Upsert(assigned, x, [used |-> 0, deleted |-> FALSE])
        /\ counted' = Upsert(counted, x,
                {a \in DOMAIN application : application[a].status = "APPROVED"
                                            /\ At({"count"}, a) = {}})
        /\ loose' = (loose \/ Live # {})
        /\ Finish(r)
        /\ UNCHANGED <<type, application, attendance, current, cached, overtaken, cut, rejected>>

RevokeAssignedLeave(r, x) ==
    /\ pc[r] = "idle" /\ x \in Live
    /\ assigned' = [assigned EXCEPT ![x] = [@ EXCEPT !.deleted = TRUE]]
    /\ UNCHANGED <<type, application, attendance, current, cached, pc, local, history>>

-----------------------------------------------------------------------------
(* Applying.                                                               *)

\* There is an application that counts, or may yet count, and is not in used_days.
Outstanding ==
    \/ \E r \in Requests : pc[r] = "apply"
    \/ \E a \in DOMAIN application :
          /\ application[a].kind = "employee"
          /\ application[a].status = "PENDING" \/ At({"update", "count"}, a) # {}

Mutant_NoBalanceCheck(r, a, days) ==
    /\ pc[r] = "idle" /\ FreshId(a)
    /\ type.enabled /\ Live # {}
    /\ Goto(r, "apply", [Nothing EXCEPT !.app = a, !.days = days])
    /\ loose' = (loose \/ Outstanding)
    /\ UNCHANGED <<tables, cached, counted, overtaken, cut, rejected>>
\* applyLeave and adminApplyLeave: the days must fit into what is left of an assignment.
ApplyLeave(r, a, days) ==
    /\ pc[r] = "idle" /\ FreshId(a)
    /\ type.enabled
    /\ \E x \in Live : Cardinality(days) <= type.count - assigned[x].used
    /\ Goto(r, "apply", [Nothing EXCEPT !.app = a, !.days = days])
    /\ loose' = (loose \/ Outstanding)
    /\ UNCHANGED <<tables, cached, counted, overtaken, cut, rejected>>

CreateApplication(r) ==
    LET a == local[r].app
    IN  /\ pc[r] = "apply"
        /\ application' = Upsert(application, a,
                [kind |-> "employee", days |-> local[r].days, status |-> "PENDING"])
        /\ Finish(r)
        /\ UNCHANGED <<type, assigned, attendance, current, cached, history>>

\* applyTeacherLeave asks for no balance.
ApplyTeacherLeave(r, a, days) ==
    /\ pc[r] = "idle" /\ FreshId(a)
    /\ application' = Upsert(application, a,
            [kind |-> "teacher", days |-> days, status |-> "PENDING"])
    /\ UNCHANGED <<type, assigned, attendance, current, cached, pc, local, history>>

-----------------------------------------------------------------------------
(* Deciding.                                                               *)

\* Only what is PENDING, or was when it was cached, is decided.
Judge(r, status, seen) ==
    IF status = "PENDING" THEN Goto(r, "update", seen) ELSE Finish(r)

\* findApplicationById, of reviewLeave and of cancelLeave.
FindApplication(r, a, to) ==
    /\ pc[r] = "idle" /\ a \in DOMAIN application /\ application[a].kind = "employee"
    /\ LET seen == [Nothing EXCEPT !.app = a, !.to = to, !.days = application[a].days]
       IN  IF a \in DOMAIN cached
           THEN Judge(r, cached[a], seen)
           ELSE Goto(r, "store", [seen EXCEPT !.seen = application[a].status])
    /\ UNCHANGED <<tables, cached, history>>

StoreApplication(r) ==
    /\ pc[r] = "store"
    /\ cached' = Upsert(cached, local[r].app, local[r].seen)
    /\ Judge(r, local[r].seen, [local[r] EXCEPT !.seen = "PENDING"])
    /\ UNCHANGED <<tables, history>>

\* syncStaffAttendanceForLeave of an employee does nothing while no year is current.
Sync(r, seen) ==
    /\ Goto(r, IF current THEN "sync" ELSE "bust", seen)
    /\ cut' = IF current THEN cut ELSE cut \cup {seen.app}

\* The history of a decision.
Decided(a, to) ==
    /\ application' = [application EXCEPT ![a] = [@ EXCEPT !.status = to]]
    /\ overtaken' = IF application[a].status # "PENDING" THEN overtaken \cup {a} ELSE overtaken
    /\ rejected' = IF to = "REJECTED" THEN rejected \cup {a} ELSE rejected
    /\ UNCHANGED <<type, assigned, attendance, current, cached, counted, loose>>

\* updateApplication; what is cancelled has no effect on the attendance.
UpdateApplication(r) ==
    LET l == local[r]
    IN  /\ pc[r] = "update"
        /\ Decided(l.app, l.to)
        /\ \/ l.to = "APPROVED" /\ Goto(r, "count", l) /\ UNCHANGED cut
           \/ l.to = "REJECTED" /\ Sync(r, l)
           \/ l.to = "CANCELLED" /\ Goto(r, "bust", l) /\ UNCHANGED cut

\* reviewTeacherLeave looks at no status, and at no academic year.
ReviewTeacherLeave(r, a, to) ==
    /\ pc[r] = "idle" /\ a \in DOMAIN application /\ application[a].kind = "teacher"
    /\ Decided(a, to)
    /\ Goto(r, "sync", [Nothing EXCEPT !.app = a, !.to = to, !.days = application[a].days])
    /\ UNCHANGED cut

Mutant_OneDay(r) ==
    /\ pc[r] = "count"
    /\ assigned' = [x \in DOMAIN assigned |-> [assigned[x] EXCEPT !.used = @ + 1]]
    /\ Sync(r, local[r])
    /\ UNCHANGED <<type, application, attendance, current, cached,
                   counted, overtaken, rejected, loose>>
\* incrementUsedDays: every row of the employee, type and year, the deleted ones too.
IncrementUsedDays(r) ==
    /\ pc[r] = "count"
    /\ assigned' = [x \in DOMAIN assigned |->
                       [assigned[x] EXCEPT !.used = @ + Cardinality(local[r].days)]]
    /\ Sync(r, local[r])
    /\ UNCHANGED <<type, application, attendance, current, cached,
                   counted, overtaken, rejected, loose>>

Mutant_FirstDayOnly(r) ==
    LET l == local[r]
        d == Min(l.days)
    IN  /\ pc[r] = "sync"
        /\ attendance' = Upsert(attendance, d,
              [status |-> IF l.to = "APPROVED" THEN "LEAVE" ELSE "ABSENT", by |-> "leave-sync"])
        /\ IF application[l.app].kind = "employee" THEN Goto(r, "bust", l) ELSE Finish(r)
        /\ UNCHANGED <<type, assigned, application, current, cached, history>>
\* One upsert for each day, the earliest first.
SyncDay(r) ==
    LET l == local[r]
        d == Min(l.days)
        rest == [l EXCEPT !.days = @ \ {d}]
    IN  /\ pc[r] = "sync"
        /\ attendance' = Upsert(attendance, d,
              [status |-> IF l.to = "APPROVED" THEN "LEAVE" ELSE "ABSENT", by |-> "leave-sync"])
        /\ IF rest.days # {} THEN Goto(r, "sync", rest)
           ELSE IF application[l.app].kind = "employee" THEN Goto(r, "bust", rest)
           ELSE Finish(r)
        /\ UNCHANGED <<type, assigned, application, current, cached, history>>

\* The cached applications are deleted, all of them.
BustCache(r) ==
    /\ pc[r] = "bust"
    /\ cached' = << >>
    /\ Finish(r)
    /\ UNCHANGED <<tables, history>>

-----------------------------------------------------------------------------
(* Marking, the academic year, failures.                                   *)

Mark(r, d) ==
    /\ pc[r] = "idle"
    /\ attendance' = Upsert(attendance, d, [status |-> "PRESENT", by |-> "staff"])
    /\ UNCHANGED <<type, assigned, application, current, cached, pc, local, history>>

\* autoMarkStaffAttendance: a card is read.  The engine asks for leave applications, not for
\* teacher requests; what is there already is kept.  Late arrivals and holidays are left out.
ResolveTap(r, d) ==
    LET onLeave == \E a \in Approved("employee") : d \in application[a].days
    IN  /\ pc[r] = "idle"
        /\ Goto(r, "tap", [Nothing EXCEPT !.days = {d},
                                          !.to = IF onLeave THEN "APPROVED" ELSE "PENDING"])
        /\ UNCHANGED <<tables, cached, history>>

InsertTap(r) ==
    LET d == Min(local[r].days)
        row == [status |-> IF local[r].to = "APPROVED" THEN "LEAVE" ELSE "PRESENT",
                by |-> "rfid-auto"]
    IN  /\ pc[r] = "tap"
        /\ attendance' = IF d \in DOMAIN attendance THEN attendance ELSE Upsert(attendance, d, row)
        /\ Finish(r)
        /\ UNCHANGED <<type, assigned, application, current, cached, history>>

\* setCurrent clears is_current of all years, then sets it for one.
SetCurrentYear ==
    /\ current' = ~current
    /\ UNCHANGED <<type, assigned, application, attendance, cached, pc, local, history>>

\* A statement fails, and the handler with it.
HandlerFails(r) ==
    /\ pc[r] # "idle"
    /\ cut' = IF pc[r] \in {"count", "sync"} THEN cut \cup {local[r].app} ELSE cut
    /\ Finish(r)
    /\ UNCHANGED <<tables, cached, counted, overtaken, rejected, loose>>

CacheExpires(a) ==
    /\ a \in DOMAIN cached
    /\ cached' = [b \in DOMAIN cached \ {a} |-> cached[b]]
    /\ UNCHANGED <<tables, pc, local, history>>

\* A handler begins, or something happens to the handlers.
Start ==
    \/ \E r \in Requests : pc[r] = "idle" /\
          \/ \E count \in 0..Cardinality(Days), enabled \in BOOLEAN : UpdateType(r, count, enabled)
          \/ \E x \in Assignments : AssignLeave(r, x) \/ RevokeAssignedLeave(r, x)
          \/ \E a \in Applications :
                \/ \E days \in Ranges : ApplyLeave(r, a, days) \/ ApplyTeacherLeave(r, a, days)
                \/ \E to \in {"APPROVED", "REJECTED"} : ReviewTeacherLeave(r, a, to)
                \/ \E to \in Status \ {"PENDING"} : FindApplication(r, a, to)
          \/ \E d \in Days : Mark(r, d) \/ ResolveTap(r, d)
    \/ \E r \in Requests : HandlerFails(r)
    \/ \E a \in Applications : CacheExpires(a)
    \/ SetCurrentYear

Continue(r) ==
    \/ CreateAssignment(r) \/ CreateApplication(r) \/ StoreApplication(r)
    \/ UpdateApplication(r) \/ IncrementUsedDays(r) \/ SyncDay(r) \/ BustCache(r) \/ InsertTap(r)

\* At the bound the handlers come to an end.
Rest ==
    /\ started = MaxStarted /\ \A r \in Requests : pc[r] = "idle"
    /\ UNCHANGED vars

Next ==
    \/ Rest
    \/ started < MaxStarted /\ Start /\ started' = started + 1
    \/ (\E r \in Requests : Continue(r)) /\ UNCHANGED started

Spec == Init /\ [][Next]_vars

-----------------------------------------------------------------------------
(* Properties.                                                             *)

TypeOK ==
    /\ type \in [count : Nat, enabled : BOOLEAN] /\ current \in BOOLEAN
    /\ IsTable(assigned, Assignments, Assigned)
    /\ IsTable(application, Applications, Application)
    /\ IsTable(attendance, Days, Record) /\ IsTable(cached, Applications, Status)
    /\ started \in Nat
    /\ pc \in [Requests -> Steps] /\ local \in [Requests -> Local]
    /\ IsTable(counted, DOMAIN assigned, SUBSET Applications)
    /\ overtaken \subseteq Applications /\ cut \subseteq Applications
    /\ rejected \subseteq Applications /\ loose \in BOOLEAN

\* used_days of an assignment is the sum of the days approved since it was made, once no
\* review is on its way, unless an application was decided twice or its review broke off.
UsedDaysMatchApprovals ==
    (\A r \in Requests : pc[r] # "count") /\ overtaken \cup cut = {} =>
        \A x \in DOMAIN assigned :
            assigned[x].used = MapThenSumSet(LAMBDA a : Cardinality(application[a].days),
                                              Approved("employee") \ counted[x])

\* employee-leave.service.ts:265 and 322: no more days are used than the leave type
\* gives, as long as one application is pending at a time, none is decided twice, no
\* assignment is made twice and the type's days are not reduced.
BalanceNotExceeded ==
    ~loose /\ overtaken = {} => \A x \in Live : assigned[x].used <= type.count

\* Every day of an approved leave says LEAVE unless staff marked it since, once no review
\* is on its way, whatever card was read before or after.  What is rejected at some time
\* writes ABSENT over whatever it finds.
StaffLeaveIsOnRecord ==
    \A a \in Approved("employee") \cup Approved("teacher") : \A d \in application[a].days :
        \/ d \in DOMAIN attendance /\ (attendance[d].status = "LEAVE" \/ attendance[d].by = "staff")
        \/ a \in cut \/ \E r \in Requests : pc[r] \in {"count", "sync"}
        \/ \E b \in rejected : d \in application[b].days
=============================================================================
