------------------------- MODULE StudentAttendance -------------------------
(***************************************************************************)
(* The attendance of one student: attendance.service.ts with its engine,   *)
(* the cards read in rfid.service.ts, and the student requests of          *)
(* leave.service.ts, beside the employee's leave of StaffLeave.            *)
(*                                                                         *)
(* Both sides have the days, the bound and the academic year in common.    *)
(* Nothing of one reads what the other writes: a behaviour has handlers of *)
(* one side.  Two reads of a handler with no statement of its own between  *)
(* them are one step, every statement that writes is a step.  Here current *)
(* says that a year is current and the student has a section in it.  The   *)
(* calendar does not change.  Left out: the entries of a mark after the    *)
(* first, each handled like it; assigning cards; movements, which nothing  *)
(* reads again; the steps of an approval workflow, which can not be        *)
(* decided, as approveLeaveStep looks for them under another id.           *)
(***************************************************************************)
EXTENDS StaffLeave, Sequences

CONSTANTS
    Sessions,     \* of a day, MORNING among them
    Marks,        \* what a teacher may choose, PRESENT among them
    Taps,         \* times of day at which a card is read, in minutes
    Calendars,    \* sets of dates that may be holidays
    MaxTasks,     \* bound on how often StudentStart happens
    Timing        \* the active school timing: start, grace, late, half and absent

ASSUME AttendanceAssumption ==
    /\ MaxTasks \in Nat \ {0} /\ Calendars \subseteq SUBSET Days
    /\ "MORNING" \in Sessions /\ "PRESENT" \in Marks /\ Taps \subseteq Int
    /\ DOMAIN Timing = {"start", "grace", "late", "half", "absent"}
    /\ Timing.start \in Int /\ Timing.grace \in Int
    /\ \A cutoff \in {"late", "half", "absent"} : Timing[cutoff] \in Int \cup {None}

Keys == Days \X Sessions
RowStatus == Marks \cup {"PRESENT", "LATE", "HALF_DAY", "ABSENT", "LEAVE", "HOLIDAY"}
Handlers == 1..MaxTasks

VARIABLES
    students,     \* this behaviour is about the student
    row,          \* table attendances, by date and session
    audit,        \* table attendance_audit_log, the records of each row in order
    punch,        \* table rfid_punch_log
    asked,        \* table student_leave_requests
    holiday,      \* dates of the calendar's holidays
    step, task,   \* what each request does next and what it has read or was sent
    loosened,     \* history: dates whose row need not show an approved leave
    unsure,       \* history: rows changed without an audit record, or after a stale one
    untapped      \* history: punches that broke off before the row, or whose row was removed

studentVars == <<row, audit, punch, asked, holiday, step, task, loosened, unsure, untapped>>
allVars == <<vars, students, studentVars>>

Row == [id : Handlers, status : RowStatus]
AuditRecord == [old : RowStatus, new : RowStatus]
Punch == [id : Handlers, day : Days, exit : BOOLEAN, status : {"COMPLETE", "MISSING_EXIT"}]
Request == [days : Ranges, status : Status]
TaskSteps == {"idle", "upsert", "audit", "write", "exit", "punch", "resolve", "insert",
              "missing", "sync"}
NoTask == [n |-> 1, days |-> {}, session |-> "MORNING", status |-> "PRESENT", id |-> 1,
           old |-> "PRESENT", tap |-> None, leave |-> None, granted |-> FALSE]
Task == [n : Handlers, days : SUBSET Days, session : Sessions, status : RowStatus \cup {None},
         id : Handlers, old : RowStatus, tap : Taps \cup {None},
         leave : Applications \cup {None}, granted : BOOLEAN]

StudentInit ==
    /\ Init /\ students \in BOOLEAN
    /\ row = << >> /\ audit = << >> /\ punch = {} /\ asked = << >>
    /\ holiday \in IF students THEN Calendars ELSE {{}}
    /\ step = [r \in Requests |-> "idle"] /\ task = [r \in Requests |-> NoTask]
    /\ loosened = {} /\ unsure = {} /\ untapped = {}

DayOf(t) == CHOOSE d \in t.days : TRUE
KeyOf(t) == <<DayOf(t), t.session>>
Proceed(r, next, t) ==
    /\ step' = [step EXCEPT ![r] = next]
    /\ task' = [task EXCEPT ![r] = t]
Done(r) == Proceed(r, "idle", NoTask)
Begin(r, next, t) == step[r] = "idle" /\ Proceed(r, next, [t EXCEPT !.n = started + 1])
OnDay(d) == {k \in DOMAIN row : k[1] = d}
Without(table, S) == [k \in DOMAIN table \ S |-> table[k]]

-----------------------------------------------------------------------------
(* What the engine makes of a day.                                         *)

\* computeStatusFromTime.  A cutoff that is not set does not apply; late falls back on the
\* start and the grace period.
computeStatusFromTime(tap) ==
    LET late == IF Timing.late # None THEN Timing.late ELSE Timing.start + Timing.grace
    IN  IF Timing.absent # None /\ tap > Timing.absent THEN "ABSENT"
        ELSE IF Timing.half # None /\ tap > Timing.half THEN "HALF_DAY"
        ELSE IF tap > late THEN "LATE" ELSE "PRESENT"

Granted(d) == \E l \in DOMAIN asked : asked[l].status = "APPROVED" /\ d \in asked[l].days

Mutant_FirstDayOfLeave(d) ==
    \E l \in DOMAIN asked : asked[l].status = "APPROVED" /\ d = Min(asked[l].days)
hasApprovedLeave(d) == Granted(d)

\* resolve: a holiday comes before a leave, and a leave before what was seen.
resolve(d, seen) ==
    IF d \in holiday THEN "HOLIDAY" ELSE IF hasApprovedLeave(d) THEN "LEAVE" ELSE seen

\* A leave was approved after the engine was asked.
Overtook(t) == ~t.granted /\ Granted(DayOf(t))

\* The history of a write.  Other than by update, an existing row changes unaudited.
Wrote(table, keys) ==
    /\ row' = table
    /\ unsure' = unsure \cup {k \in keys \cap DOMAIN row : row[k].status # table[k].status}

-----------------------------------------------------------------------------
(* Marking by hand.                                                        *)

MarkStudent(r, k, status) ==
    /\ Begin(r, "upsert", [NoTask EXCEPT !.days = {k[1]}, !.session = k[2],
                                         !.status = resolve(k[1], status),
                                         !.granted = Granted(k[1])])
    /\ UNCHANGED <<row, audit, punch, asked, holiday, loosened, unsure, untapped>>

\* The row keeps its id if there is one.  The status may have been settled before a leave was.
UpsertRow(r) ==
    LET t == task[r]
        k == KeyOf(t)
        id == IF k \in DOMAIN row THEN row[k].id ELSE t.n
    IN  /\ step[r] = "upsert"
        /\ Wrote(Upsert(row, k, [id |-> id, status |-> t.status]), {k})
        /\ loosened' = IF Overtook(t) THEN loosened \cup {k[1]} ELSE loosened
        /\ Done(r)
        /\ UNCHANGED <<audit, punch, asked, holiday, untapped>>

\* update: the row is read, and refused to all but an admin once the lock hours are over.
\* A request may leave the status as it is, and change the remarks.
UpdateRow(r, k, status) ==
    /\ k \in DOMAIN row
    /\ Begin(r, "audit", [NoTask EXCEPT !.days = {k[1]}, !.session = k[2], !.status = status,
                                        !.id = row[k].id, !.old = row[k].status])
    /\ UNCHANGED <<row, audit, punch, asked, holiday, loosened, unsure, untapped>>

\* The row the request has read is there still; a new one has another id.
Known(t) == KeyOf(t) \in DOMAIN row /\ row[KeyOf(t)].id = t.id
Writing(k) == {r \in Requests : step[r] = "write" /\ KeyOf(task[r]) = k}

\* The audit record refers to the row: without it the insert fails, and the request.
AuditRow(r) ==
    LET t == task[r]
        k == KeyOf(t)
        new == IF t.status = None THEN t.old ELSE t.status
        log == IF k \in DOMAIN audit THEN audit[k] ELSE << >>
        stale == row[k].status # t.old \/ Writing(k) # {}
    IN  /\ step[r] = "audit"
        /\ IF Known(t)
           THEN /\ audit' = Upsert(audit, k, Append(log, [old |-> t.old, new |-> new]))
                /\ unsure' = IF stale THEN unsure \cup {k} ELSE unsure
                /\ Proceed(r, "write", t)
           ELSE Done(r) /\ UNCHANGED <<audit, unsure>>
        /\ UNCHANGED <<row, punch, asked, holiday, loosened, untapped>>

Mutant_WholeDay(r) ==
    LET t == task[r]
    IN  /\ step[r] = "write"
        /\ row' = IF Known(t) /\ t.status # None
                  THEN [k \in DOMAIN row |-> IF k[1] = DayOf(t)
                                             THEN [row[k] EXCEPT !.status = t.status] ELSE row[k]]
                  ELSE row
        /\ loosened' = loosened \cup {DayOf(t)}
        /\ Done(r)
        /\ UNCHANGED <<audit, punch, asked, holiday, unsure, untapped>>
\* The update itself, by id.
WriteRow(r) ==
    LET t == task[r]
    IN  /\ step[r] = "write"
        /\ row' = IF Known(t) /\ t.status # None
                  THEN [row EXCEPT ![KeyOf(t)] = [@ EXCEPT !.status = t.status]] ELSE row
        /\ loosened' = IF t.session = "MORNING" THEN loosened \cup {DayOf(t)} ELSE loosened
        /\ Done(r)
        /\ UNCHANGED <<audit, punch, asked, holiday, unsure, untapped>>

\* remove, and with the row its audit records.
RemoveRow(r, k) ==
    /\ step[r] = "idle" /\ k \in DOMAIN row
    /\ row' = Without(row, {k}) /\ audit' = Without(audit, {k}) /\ unsure' = unsure \ {k}
    /\ loosened' = loosened \cup {k[1]}
    /\ untapped' = untapped \cup {p.id : p \in {p \in punch : p.day = k[1]}}
    /\ UNCHANGED <<punch, asked, holiday, step, task>>

-----------------------------------------------------------------------------
(* Cards.                                                                  *)

\* autoMarkStudentAttendance: nothing happens without a current year or a section.  A punch
\* of the day, one of them should there be two, makes this tap an exit.
ReadCard(r, d, tap) ==
    /\ current
    /\ LET t == [NoTask EXCEPT !.days = {d}, !.tap = tap]
       IN  \/ /\ \A p \in punch : p.day # d
              /\ Begin(r, "punch", t)
           \/ \E p \in punch :
                 /\ p.day = d /\ ~p.exit
                 /\ Begin(r, "exit", [t EXCEPT !.id = p.id])
    /\ UNCHANGED <<row, audit, punch, asked, holiday, loosened, unsure, untapped>>

TapOut(r) ==
    /\ step[r] = "exit"
    /\ punch' = {IF p.id = task[r].id THEN [p EXCEPT !.exit = TRUE, !.status = "COMPLETE"]
                 ELSE p : p \in punch}
    /\ Done(r)
    /\ UNCHANGED <<row, audit, asked, holiday, loosened, unsure, untapped>>

\* Nothing in the database keeps a second punch of the day out.
InsertPunch(r) ==
    LET t == task[r]
    IN  /\ step[r] = "punch"
        /\ punch' = punch \cup {[id |-> t.n, day |-> DayOf(t), exit |-> FALSE,
                                 status |-> "MISSING_EXIT"]}
        /\ Proceed(r, "resolve", t)
        /\ UNCHANGED <<row, audit, asked, holiday, loosened, unsure, untapped>>

Mutant_SkipsLeave(r) ==
    LET t == task[r]
        status == resolve(DayOf(t), computeStatusFromTime(t.tap))
    IN  /\ step[r] = "resolve"
        /\ IF status \in {"HOLIDAY", "LEAVE"} THEN Done(r)
           ELSE Proceed(r, "insert", [t EXCEPT !.status = status, !.tap = None,
                                               !.granted = Granted(DayOf(t))])
        /\ UNCHANGED <<row, audit, punch, asked, holiday, loosened, unsure, untapped>>
\* The engine is asked with the time of the tap.  A holiday has no row.
ResolveCard(r) ==
    LET t == task[r]
        status == resolve(DayOf(t), computeStatusFromTime(t.tap))
    IN  /\ step[r] = "resolve"
        /\ IF status = "HOLIDAY" THEN Done(r)
           ELSE Proceed(r, "insert", [t EXCEPT !.status = status, !.tap = None,
                                               !.granted = Granted(DayOf(t))])
        /\ UNCHANGED <<row, audit, punch, asked, holiday, loosened, unsure, untapped>>

\* A row that is there is kept.
InsertRow(r) ==
    LET t == task[r]
        k == <<DayOf(t), "MORNING">>
    IN  /\ step[r] = "insert"
        /\ row' = IF k \in DOMAIN row THEN row
                  ELSE Upsert(row, k, [id |-> t.n, status |-> t.status])
        /\ loosened' = IF k \notin DOMAIN row /\ Overtook(t) THEN loosened \cup {k[1]}
                        ELSE loosened
        /\ Done(r)
        /\ UNCHANGED <<audit, punch, asked, holiday, unsure, untapped>>

\* resolveMissingPunch: the punch is complete, in one statement ...
ResolvePunch(r, p, status) ==
    /\ punch' = {IF q = p THEN [q EXCEPT !.status = "COMPLETE"] ELSE q : q \in punch}
    /\ Begin(r, "missing", [NoTask EXCEPT !.days = {p.day}, !.status = status])
    /\ UNCHANGED <<row, audit, asked, holiday, loosened, unsure, untapped>>

\* ... and every row of the day has the status in the other.  The approval of an early
\* exit ends with this statement as well.
WriteDay(r) ==
    LET t == task[r]
        keys == OnDay(DayOf(t))
    IN  /\ step[r] = "missing"
        /\ Wrote([k \in DOMAIN row |-> IF k \in keys THEN [row[k] EXCEPT !.status = t.status]
                                       ELSE row[k]], keys)
        /\ loosened' = loosened \cup {DayOf(t)}
        /\ Done(r)
        /\ UNCHANGED <<audit, punch, asked, holiday, untapped>>

ApproveExit(r, d) ==
    /\ Begin(r, "missing", [NoTask EXCEPT !.days = {d}, !.status = "HALF_DAY"])
    /\ UNCHANGED <<row, audit, punch, asked, holiday, loosened, unsure, untapped>>

-----------------------------------------------------------------------------
(* Leave.                                                                  *)

ApplyStudentLeave(r, l, days) ==
    /\ step[r] = "idle" /\ l \notin DOMAIN asked
    /\ asked' = Upsert(asked, l, [days |-> days, status |-> "PENDING"])
    /\ UNCHANGED <<row, audit, punch, holiday, step, task, loosened, unsure, untapped>>

\* reviewStudentLeave looks at no status.  Without a current year no row is written.
ReviewStudentLeave(r, l, to) ==
    LET days == asked[l].days
    IN  /\ l \in DOMAIN asked
        /\ asked' = [asked EXCEPT ![l] = [@ EXCEPT !.status = to]]
        /\ IF current THEN Begin(r, "sync", [NoTask EXCEPT !.days = days, !.leave = l,
                                    !.status = IF to = "APPROVED" THEN "LEAVE" ELSE "ABSENT"])
           ELSE step[r] = "idle" /\ UNCHANGED <<step, task>>
        /\ loosened' = IF to = "REJECTED" \/ ~current THEN loosened \cup days ELSE loosened
        /\ UNCHANGED <<row, audit, punch, holiday, unsure, untapped>>

\* One upsert for each day, the earliest first.
SyncStudentDay(r) ==
    LET t == task[r]
        k == <<Min(t.days), "MORNING">>
        id == IF k \in DOMAIN row THEN row[k].id ELSE t.n
        rest == [t EXCEPT !.days = @ \ {k[1]}]
    IN  /\ step[r] = "sync"
        /\ Wrote(Upsert(row, k, [id |-> id, status |-> t.status]), {k})
        /\ IF rest.days = {} THEN Done(r) ELSE Proceed(r, "sync", rest)
        /\ UNCHANGED <<audit, punch, asked, holiday, loosened, untapped>>

-----------------------------------------------------------------------------
\* A statement fails, and the handler with it.
StudentHandlerFails(r) ==
    LET t == task[r]
    IN  /\ step[r] # "idle"
        /\ loosened' = IF step[r] = "sync" THEN loosened \cup t.days ELSE loosened
        /\ unsure' = IF step[r] = "write" THEN unsure \cup {KeyOf(t)} ELSE unsure
        /\ untapped' = IF step[r] \in {"resolve", "insert"} THEN untapped \cup {t.n} ELSE untapped
        /\ Done(r)
        /\ UNCHANGED <<row, audit, punch, asked, holiday>>

StudentStart ==
    \/ \E r \in Requests :
          \/ \E k \in Keys : \/ \E status \in Marks : MarkStudent(r, k, status)
                             \/ \E status \in Marks \cup {None} : UpdateRow(r, k, status)
                             \/ RemoveRow(r, k)
          \/ \E d \in Days : ApproveExit(r, d) \/ \E tap \in Taps : ReadCard(r, d, tap)
          \/ \E p \in punch, status \in {"PRESENT", "HALF_DAY"} : ResolvePunch(r, p, status)
          \/ \E l \in Applications : \/ \E days \in Ranges : ApplyStudentLeave(r, l, days)
                                     \/ \E to \in {"APPROVED", "REJECTED"} :
                                           ReviewStudentLeave(r, l, to)
          \/ StudentHandlerFails(r)

StudentContinue(r) ==
    \/ UpsertRow(r) \/ AuditRow(r) \/ WriteRow(r) \/ TapOut(r) \/ InsertPunch(r)
    \/ ResolveCard(r) \/ InsertRow(r) \/ WriteDay(r) \/ SyncStudentDay(r)

NoStaff == UNCHANGED <<type, assigned, application, attendance, cached, pc, local, history>>

StudentNext ==
    \/ started < MaxTasks /\ started' = started + 1 /\ StudentStart /\ NoStaff
          /\ UNCHANGED current
    \/ started < MaxTasks /\ started' = started + 1 /\ SetCurrentYear
          /\ UNCHANGED studentVars
    \/ (\E r \in Requests : StudentContinue(r)) /\ NoStaff /\ UNCHANGED <<current, started>>
    \/ started = MaxTasks /\ (\A r \in Requests : step[r] = "idle") /\ UNCHANGED allVars

AttendanceNext ==
    /\ UNCHANGED students
    /\ \/ students /\ StudentNext
       \/ ~students /\ Next /\ UNCHANGED studentVars

AttendanceSpec == StudentInit /\ [][AttendanceNext]_allVars

-----------------------------------------------------------------------------
(* Properties.                                                             *)

StudentTypeOK ==
    /\ IsTable(row, Keys, Row) /\ IsTable(audit, DOMAIN row, Seq(AuditRecord))
    /\ punch \subseteq Punch /\ IsTable(asked, Applications, Request)
    /\ holiday \subseteq Days
    /\ step \in [Requests -> TaskSteps] /\ task \in [Requests -> Task]
    /\ loosened \subseteq Days /\ unsure \subseteq Keys /\ untapped \subseteq Handlers

\* rfid.repository.ts:240: the day of an entry punch has a row, unless it is a holiday, once
\* the handler that wrote the punch is over, unless that one failed before the row or
\* somebody removed the row.  The next tap is an exit and makes up for nothing.
TapIsOnRecord ==
    \A p \in punch :
        \/ <<p.day, "MORNING">> \in DOMAIN row \/ p.day \in holiday \/ p.id \in untapped
        \/ \E r \in Requests : step[r] \in {"resolve", "insert"} /\ task[r].n = p.id

\* StaffLeaveIsOnRecord for the employee; for the student, the morning of every day of an
\* approved leave says LEAVE while no review is on its way, whoever marks the student or
\* reads the card; unless the row was changed by an update, an early exit or a resolved
\* punch, or removed, or written by a handler that had asked the engine before the approval;
\* a leave of that day was rejected; or the review broke off.
LeaveIsOnRecord ==
    /\ StaffLeaveIsOnRecord
    /\ \A l \in DOMAIN asked : asked[l].status = "APPROVED" =>
          \A d \in asked[l].days \ (loosened \cup holiday) :
              \/ \E r \in Requests : step[r] = "sync" /\ task[r].leave = l
              \/ \E k \in OnDay(d) : k[2] = "MORNING" /\ row[k].status = "LEAVE"

\* attendance.service.ts:142: the audit records of a row tell its history: each begins where
\* the one before ended, and the last one ends at the row's status; as long as only update
\* changes the row, no two updates of it overlap and none breaks off.
AuditTellsHistory ==
    \A k \in DOMAIN audit \ unsure :
        LET log == audit[k]
        IN  /\ \A i \in 1..Len(log) - 1 : log[i].new = log[i + 1].old
            /\ Writing(k) = {} => row[k].status = log[Len(log)].new
=============================================================================
