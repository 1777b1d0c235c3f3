----------------------------- MODULE ExamResults -----------------------------
(***************************************************************************)
(* Attendance, marks and report cards of one exam of one class:            *)
(* exam-attendance.service.ts, exam-results.service.ts and the listeners   *)
(* that copy attendance into the results.                                  *)
(*                                                                         *)
(* A request is one run of a handler.  Its guards are read in one step and *)
(* every statement that writes is a step of its own.  An emitted event is  *)
(* handled later, in any order with the others: the emitter does not wait  *)
(* for a listener.  LATE is treated by all of this code as PRESENT.        *)
(* Of a report card's figures the marks and the rank are kept; the cache   *)
(* is left to ReadThroughCache.                                            *)
(***************************************************************************)
EXTENDS Integers, FiniteSets, FiniteSetsExt

CONSTANTS
    Students,
    Rows,        \* the exam's schedule rows: a subject each
    Requests,    \* runs of the handlers, each used once
    MaxMarks,    \* exam_marks of a row
    Entry,       \* what a request may enter for a student: marks, or none, and absent
    NoRequest, NoStudent

NoMarks == -1

ASSUME ExamAssumption ==
    /\ MaxMarks \in Nat
    /\ Entry \subseteq [marks : 0..MaxMarks \cup {NoMarks}, absent : BOOLEAN]
    /\ NoRequest \notin Requests /\ NoStudent \notin Students
    /\ IsFiniteSet(Students) /\ IsFiniteSet(Rows)

Cells == Students \X Rows      \* the UNIQUE key of attendance and of results

Figures == [by : Requests \cup {NoRequest}, marks : Nat, rank : Nat]
NoFigures == [by |-> NoRequest, marks |-> 0, rank |-> 0]

ExamStatus == {"DRAFT", "UNDER_REVIEW", "PUBLISHED", "STARTED", "COMPLETED", "LOCKED", "ARCHIVED"}
EXAM_STATUS_TRANSITIONS ==
    [DRAFT |-> {"UNDER_REVIEW", "PUBLISHED"}, UNDER_REVIEW |-> {"DRAFT", "PUBLISHED"},
     PUBLISHED |-> {"STARTED", "UNDER_REVIEW"}, STARTED |-> {"COMPLETED"},
     COMPLETED |-> {"LOCKED"}, LOCKED |-> {"ARCHIVED"}, ARCHIVED |-> {}]

Closed == {"LOCKED", "ARCHIVED"}

Exam == [status : ExamStatus, is_published : BOOLEAN, deleted : BOOLEAN]
Result == [marks : 0..MaxMarks \cup {NoMarks}, absent : BOOLEAN, published : BOOLEAN]
Card == [id : Requests, figures : Figures, status : {"PENDING", "GENERATED", "FAILED"},
         pdf : Figures, published : BOOLEAN, deleted : BOOLEAN]

VARIABLES
    exam,
    rows,        \* table exam_schedules: rows not removed yet
    attendance,  \* table exam_attendance: a status for each of its cells
    result,      \* table exam_results
    card,        \* table report_cards, by student
    pc, local,   \* what each request does next and what it has read or was sent
    events,      \* events whose listener has not finished
    stray,       \* history: cells whose result need not follow attendance
    remade,      \* history: students whose card was generated again
    early,       \* history: requests that began before the exam was LOCKED, or while
                 \* its is_published was set again by hand
    mixed        \* history: students for whom a generation came between the two
                 \* statements of another, or one was cut off there

tables == <<exam, rows, attendance, result, card>>
vars == <<exam, rows, attendance, result, card, pc, local, events, stray, remade, early, mixed>>

IsTable(table, S, T) == DOMAIN table \subseteq S /\ table \in [DOMAIN table -> T]
Upsert(table, new) ==
    [k \in DOMAIN table \cup DOMAIN new |-> IF k \in DOMAIN new THEN new[k] ELSE table[k]]
Without(table, keys) == [k \in DOMAIN table \ keys |-> table[k]]

Attendance == {"PRESENT", "ABSENT"}
\* What a request may send: a value of S for each of some cells.
Sent(S) == UNION {[d -> S] : d \in SUBSET Cells \ {{}}}
Event == [kind : {"ABSENT_MARKED", "PRESENT_MARKED", "EXAM_DELETED"},
          by : Requests, cells : SUBSET Cells, found : BOOLEAN]

IsLocal(l) ==
    /\ l = [sheet |-> l.sheet, entries |-> l.entries, students |-> l.students,
            current |-> l.current, figures |-> l.figures, flag |-> l.flag,
            status |-> l.status]
    /\ IsTable(l.sheet, Cells, Attendance) /\ IsTable(l.entries, Cells, Entry)
    /\ l.students \subseteq Students /\ l.current \in Students \cup {NoStudent}
    /\ IsTable(l.figures, Students, Figures) /\ l.flag \in BOOLEAN
    /\ l.status \in ExamStatus
Nothing == [sheet |-> << >>, entries |-> << >>, students |-> {}, current |-> NoStudent,
            figures |-> << >>, flag |-> FALSE, status |-> "DRAFT"]
Steps == {"idle", "status", "attend", "marks", "show", "results", "cards", "pdf", "showcards",
          "delete", "done"}

Init ==
    /\ exam \in [status : {"STARTED", "COMPLETED"}, is_published : {TRUE},
                 deleted : {FALSE}]
    /\ rows = Rows
    /\ attendance = << >> /\ result = << >> /\ card = << >>
    /\ pc = [r \in Requests |-> "idle"]
    /\ local = [r \in Requests |-> Nothing]
    /\ events = {}
    /\ stray = {} /\ remade = {} /\ early = {} /\ mixed = {}

Goto(r, step, seen) ==
    /\ pc' = [pc EXCEPT ![r] = step]
    /\ local' = [local EXCEPT ![r] = seen]
Finish(r) == Goto(r, "done", Nothing)

\* A handler that reads, and is done if the guard does not hold.
Begin(r, guard, step, seen) ==
    /\ pc[r] = "idle"
    /\ IF guard THEN Goto(r, step, seen) ELSE Finish(r)
    /\ early' = IF guard /\ (exam.status \notin Closed \/ exam.is_published)
                THEN early \cup {r} ELSE early
    /\ UNCHANGED <<tables, events, stray, remade, mixed>>

Awaiting(c) == \E e \in events : c \in e.cells
CellsOf(gone) == {c \in Cells : c[2] \in gone}

-----------------------------------------------------------------------------
(* The exam and its schedule rows, as far as they bear on results.         *)

ChangeStatus(r, to) ==
    Begin(r, ~exam.deleted /\ to \in EXAM_STATUS_TRANSITIONS[exam.status],
          "status", [Nothing EXCEPT !.status = to])

\* The status is written whatever it is by now.
SetStatus(r) ==
    LET to == local[r].status
    IN  /\ pc[r] = "status"
        /\ exam' = [exam EXCEPT !.status = to,
                                !.is_published = to \in {"PUBLISHED", "STARTED", "COMPLETED"}]
        /\ Finish(r)
        /\ UNCHANGED <<rows, attendance, result, card, events, stray, remade, mixed, early>>

\* ExamService.publish sets the flag alone.
PublishExam(r) ==
    /\ pc[r] = "idle" /\ ~exam.deleted
    /\ exam' = [exam EXCEPT !.is_published = ~@]
    /\ Finish(r)
    /\ UNCHANGED <<rows, attendance, result, card, events, stray, remade, mixed, early>>

DeleteExam(r) ==
    /\ pc[r] = "idle" /\ ~exam.deleted
    /\ exam' = [exam EXCEPT !.deleted = TRUE]
    /\ events' = events \cup {[kind |-> "EXAM_DELETED", by |-> r, cells |-> {}, found |-> TRUE]}
    /\ Finish(r)
    /\ UNCHANGED <<rows, attendance, result, card, stray, remade, mixed, early>>

RestoreExam(r) ==
    /\ pc[r] = "idle" /\ exam.deleted
    /\ exam' = [exam EXCEPT !.deleted = FALSE]
    /\ Finish(r)
    /\ UNCHANGED <<rows, attendance, result, card, events, stray, remade, mixed, early>>

\* The foreign keys of attendance and results are ON DELETE CASCADE.
HardDelete(gone) ==
    /\ rows' = rows \ gone
    /\ attendance' = Without(attendance, CellsOf(gone))
    /\ result' = Without(result, CellsOf(gone))

RemoveRow(r, row) ==
    /\ pc[r] = "idle" /\ row \in rows
    /\ HardDelete({row})
    /\ Finish(r)
    /\ UNCHANGED <<exam, card, events, stray, remade, mixed, early>>

-----------------------------------------------------------------------------
(* bulkMark                                                                *)

\* assertExamIsPublished, assertEntriesMatchStudentClass
MarkAttendance(r, sheet) ==
    Begin(r, ~exam.deleted /\ exam.is_published /\ \A c \in DOMAIN sheet : c[2] \in rows,
          "attend", [Nothing EXCEPT !.sheet = sheet])

Mutant_OnlyAbsentEmitted(r, sheet) ==
    {e \in {[kind |-> "ABSENT_MARKED", by |-> r, found |-> FALSE,
             cells |-> {c \in DOMAIN sheet : sheet[c] = "ABSENT"}]} : e.cells # {}}
emitResultSyncEvents(r, sheet) ==
    {e \in {[kind |-> "ABSENT_MARKED", by |-> r, found |-> FALSE,
             cells |-> {c \in DOMAIN sheet : sheet[c] = "ABSENT"}],
            [kind |-> "PRESENT_MARKED", by |-> r, found |-> FALSE,
             cells |-> {c \in DOMAIN sheet : sheet[c] # "ABSENT"}]} : e.cells # {}}

\* The insert fails when a row has been removed meanwhile.
SaveAttendance(r) ==
    LET sheet == local[r].sheet
    IN  /\ pc[r] = "attend"
        /\ IF \A c \in DOMAIN sheet : c[2] \in rows
           THEN /\ attendance' = Upsert(attendance, sheet)
                /\ events' = events \cup emitResultSyncEvents(r, sheet)
                /\ stray' = (stray \ DOMAIN sheet) \cup {c \in DOMAIN sheet : Awaiting(c)}
           ELSE UNCHANGED <<attendance, events, stray>>
        /\ Finish(r)
        /\ UNCHANGED <<exam, rows, result, card, remade, mixed, early>>

-----------------------------------------------------------------------------
(* The listeners                                                           *)

\* upsertBulk leaves is_published of a row that exists.
upsertBulk(entries) ==
    Upsert(result, [c \in DOMAIN entries |->
        [marks |-> entries[c].marks, absent |-> entries[c].absent,
         published |-> c \in DOMAIN result /\ result[c].published]])

\* findByIds: cells of rows that are gone are skipped.
FindSchedules(e) ==
    /\ e \in events /\ e.kind = "ABSENT_MARKED" /\ ~e.found
    /\ events' = (events \ {e}) \cup
          {f \in {[e EXCEPT !.found = TRUE, !.cells = {c \in @ : c[2] \in rows}]} : f.cells # {}}
    /\ UNCHANGED <<tables, pc, local, stray, remade, mixed, early>>

handleAbsentMarked(e) ==
    /\ e \in events /\ e.kind = "ABSENT_MARKED" /\ e.found
    /\ \A c \in e.cells : c[2] \in rows
    /\ result' = upsertBulk([c \in e.cells |-> [marks |-> NoMarks, absent |-> TRUE]])
    /\ events' = events \ {e}
    /\ UNCHANGED <<exam, rows, attendance, card, pc, local, stray, remade, mixed, early>>

\* clearAbsentFlag
handlePresentMarked(e) ==
    /\ e \in events /\ e.kind = "PRESENT_MARKED"
    /\ result' = [c \in DOMAIN result |->
                    IF c \in e.cells THEN [result[c] EXCEPT !.absent = FALSE] ELSE result[c]]
    /\ events' = events \ {e}
    /\ UNCHANGED <<exam, rows, attendance, card, pc, local, stray, remade, mixed, early>>

handleExamDeleted(e) ==
    /\ e \in events /\ e.kind = "EXAM_DELETED"
    /\ HardDelete(rows)
    /\ events' = events \ {e}
    /\ UNCHANGED <<exam, card, pc, local, stray, remade, mixed, early>>

\* A statement of the listener fails; nobody emits the event again.
ListenerFails(e) ==
    /\ e \in events
    /\ events' = events \ {e}
    /\ stray' = stray \cup e.cells
    /\ UNCHANGED <<tables, pc, local, remade, mixed, early>>

Listener(e) == FindSchedules(e) \/ handleAbsentMarked(e) \/ handlePresentMarked(e)
               \/ handleExamDeleted(e)

-----------------------------------------------------------------------------
(* bulkUpsertResults and publishResults                                    *)

Mutant_AnyStatus == ~exam.deleted
Open == ~exam.deleted /\ exam.status \in {"STARTED", "COMPLETED"}    \* resolveExamOrFail

EnterMarks(r, entries) ==
    Begin(r, Open /\ \A c \in DOMAIN entries : c[2] \in rows,
          "marks", [Nothing EXCEPT !.entries = entries])

\* History: the entry overrides the attendance, and no event will put it right.
Overrides(c, entry) ==
    /\ c \in DOMAIN attendance /\ ~Awaiting(c)
    /\ IF attendance[c] = "ABSENT" THEN ~entry.absent \/ entry.marks # NoMarks
                                   ELSE entry.absent

SaveMarks(r) ==
    LET entries == local[r].entries
    IN  /\ pc[r] = "marks"
        /\ IF \A c \in DOMAIN entries : c[2] \in rows
           THEN /\ result' = upsertBulk(entries)
                /\ stray' = stray \cup {c \in DOMAIN entries : Overrides(c, entries[c])}
           ELSE UNCHANGED <<result, stray>>
        /\ Finish(r)
        /\ UNCHANGED <<exam, rows, attendance, card, events, remade, mixed, early>>

PublishResults(r, flag) == Begin(r, Open, "show", [Nothing EXCEPT !.flag = flag])

SetResultsPublished(r) ==
    /\ pc[r] = "show"
    /\ result' = [c \in DOMAIN result |-> [result[c] EXCEPT !.published = local[r].flag]]
    /\ Finish(r)
    /\ UNCHANGED <<exam, rows, attendance, card, events, stray, remade, mixed, early>>

-----------------------------------------------------------------------------
(* generateReportCards, for the class or for one student                   *)

GenerateReportCards(r, students) ==
    Begin(r, Open, "results", [Nothing EXCEPT !.students = students])

Scored(s) ==
    MapThenSumSet(LAMBDA c : IF result[c].absent \/ result[c].marks = NoMarks
                             THEN 0 ELSE result[c].marks,
                  {c \in DOMAIN result : c[1] = s})

\* scores.sort is by marks, students of equal marks in some order.
Rankings(students) ==
    {f \in [students -> 1..Cardinality(students)] :
        \A s, t \in students : s # t => /\ f[s] # f[t]
                                        /\ Scored(s) > Scored(t) => f[s] < f[t]}

FindResults(r) ==
    /\ pc[r] = "results"
    /\ \E rank \in Rankings(local[r].students) :
          Goto(r, "cards", [local[r] EXCEPT !.figures =
              [s \in local[r].students |->
                  [by |-> r, marks |-> Scored(s), rank |-> rank[s]]]])
    /\ UNCHANGED <<tables, events, stray, remade, early, mixed>>

FiguresOf(r, s) == local[r].figures[s]

\* The runs that are between the two statements of the student's card.
Drawing(s) == {r \in Requests : pc[r] = "pdf" /\ local[r].current = s}

NewCard(r, s) == [id |-> r, figures |-> FiguresOf(r, s), status |-> "PENDING",
                  pdf |-> NoFigures, published |-> FALSE, deleted |-> FALSE]

Mutant_OldPdfKept(r, s) ==
    IF s \in DOMAIN card
    THEN [card[s] EXCEPT !.figures = FiguresOf(r, s), !.status = "PENDING"]
    ELSE NewCard(r, s)
\* ON CONFLICT: a card that exists keeps its id, its is_published and its deleted.
upsertReportCard(r, s) ==
    IF s \in DOMAIN card
    THEN [card[s] EXCEPT !.figures = FiguresOf(r, s), !.status = "PENDING", !.pdf = NoFigures]
    ELSE NewCard(r, s)

PlaceCard(r, s) ==
    /\ pc[r] = "cards" /\ s \in local[r].students
    /\ card' = Upsert(card, [k \in {s} |-> upsertReportCard(r, s)])
    /\ Goto(r, "pdf", [local[r] EXCEPT !.students = @ \ {s}, !.current = s])
    /\ remade' = IF s \in DOMAIN card THEN remade \cup {s} ELSE remade
    /\ mixed' = IF Drawing(s) # {} THEN mixed \cup {s} ELSE mixed
    /\ UNCHANGED <<exam, rows, attendance, result, events, stray, early>>

\* updateReportCardPdf looks for the id this run has drawn.
updateReportCardPdf(r, status) ==
    LET s == local[r].current
    IN  IF card[s].id # r THEN card
        ELSE [card EXCEPT ![s] = [@ EXCEPT
                 !.status = status,
                 !.pdf = IF status = "GENERATED" THEN FiguresOf(r, s) ELSE NoFigures]]

\* The PDF is drawn and uploaded, or one of the two fails.
RecordPdf(r) ==
    /\ pc[r] = "pdf"
    /\ \E status \in {"GENERATED", "FAILED"} : card' = updateReportCardPdf(r, status)
    /\ IF local[r].students = {} THEN Finish(r)
       ELSE Goto(r, "cards", [local[r] EXCEPT !.current = NoStudent])
    /\ UNCHANGED <<exam, rows, attendance, result, events, stray, remade, mixed, early>>

-----------------------------------------------------------------------------
(* publishReportCards and deleteReportCard                                 *)

PublishReportCards(r, students, flag) ==
    Begin(r, Open, "showcards", [Nothing EXCEPT !.students = students, !.flag = flag])

SetCardsPublished(r) ==
    /\ pc[r] = "showcards"
    /\ card' = [s \in DOMAIN card |->
                  IF s \in local[r].students /\ ~card[s].deleted
                  THEN [card[s] EXCEPT !.published = local[r].flag] ELSE card[s]]
    /\ Finish(r)
    /\ UNCHANGED <<exam, rows, attendance, result, events, stray, remade, mixed, early>>

DeleteReportCard(r, s) ==
    Begin(r, s \in DOMAIN card /\ ~card[s].deleted, "delete", [Nothing EXCEPT !.current = s])

SoftDeleteCard(r) ==
    /\ pc[r] = "delete"
    /\ card' = [card EXCEPT ![local[r].current] = [@ EXCEPT !.deleted = TRUE]]
    /\ Finish(r)
    /\ UNCHANGED <<exam, rows, attendance, result, events, stray, remade, mixed, early>>

-----------------------------------------------------------------------------
Active == {r \in Requests : pc[r] \notin {"idle", "done"}}

\* A statement fails, and the handler with it.
HandlerFails(r) ==
    /\ r \in Active
    /\ Finish(r)
    /\ mixed' = mixed \cup {s \in Students : r \in Drawing(s)}
    /\ UNCHANGED <<tables, events, stray, remade, early>>

\* The process restarts: its requests and the events it has not handled are gone.
Restart ==
    /\ Active # {} \/ events # {}
    /\ pc' = [r \in Requests |-> IF r \in Active THEN "done" ELSE pc[r]]
    /\ local' = [r \in Requests |-> Nothing]
    /\ events' = {}
    /\ stray' = stray \cup {c \in Cells : Awaiting(c)}
    /\ mixed' = mixed \cup {s \in Students : Drawing(s) # {}}
    /\ UNCHANGED <<tables, remade, early>>

ExamHandler(r) ==
    \/ \E to \in ExamStatus : ChangeStatus(r, to)
    \/ SetStatus(r)
    \/ PublishExam(r) \/ DeleteExam(r) \/ RestoreExam(r)
    \/ \E row \in Rows : RemoveRow(r, row)

ResultHandler(r) ==
    \/ \E sheet \in Sent(Attendance) : MarkAttendance(r, sheet)
    \/ \E entries \in Sent(Entry) : EnterMarks(r, entries)
    \/ \E flag \in BOOLEAN : PublishResults(r, flag)
    \/ SaveAttendance(r) \/ SaveMarks(r) \/ SetResultsPublished(r)

CardHandler(r) ==
    \/ \E students \in {Students} \cup {{s} : s \in Students} :
          \/ GenerateReportCards(r, students)
          \/ \E flag \in BOOLEAN : PublishReportCards(r, students, flag)
    \/ \E s \in Students : DeleteReportCard(r, s) \/ PlaceCard(r, s)
    \/ FindResults(r) \/ RecordPdf(r) \/ SetCardsPublished(r) \/ SoftDeleteCard(r)

Next ==
    \/ \E r \in Requests : ExamHandler(r) \/ ResultHandler(r) \/ CardHandler(r)
                           \/ HandlerFails(r)
    \/ \E e \in events : Listener(e) \/ ListenerFails(e)
    \/ Restart

Spec == Init /\ [][Next]_vars

-----------------------------------------------------------------------------
(* Properties                                                              *)

TypeOK ==
    /\ exam \in Exam
    /\ rows \subseteq Rows
    /\ IsTable(attendance, Cells, Attendance)
    /\ IsTable(result, Cells, Result)
    /\ IsTable(card, Students, Card)
    /\ pc \in [Requests -> Steps]
    /\ DOMAIN local = Requests /\ \A r \in Requests : IsLocal(local[r])
    /\ events \subseteq Event
    /\ stray \subseteq Cells
    /\ early \subseteq Requests
    /\ remade \subseteq Students /\ mixed \subseteq Students

\* exam-attendance.service.ts:80-85: marks entry follows attendance.  Once the events
\* are handled, an absentee is absent in the results and has no marks, and nobody else
\* is absent there, unless a marks entry contradicted it, two markings were handled in
\* a disorder or a listener was lost.
ResultFollowsAttendance ==
    \A c \in DOMAIN attendance \ stray : ~Awaiting(c) =>
        IF attendance[c] = "ABSENT"
        THEN c \in DOMAIN result /\ result[c].absent /\ result[c].marks = NoMarks
        ELSE c \in DOMAIN result => ~result[c].absent

\* A card's PDF shows the figures that the card has, and a card stays PENDING only if
\* it was generated again, unless two runs met on the card or one was cut off.
CardAgreesWithPdf ==
    \A s \in DOMAIN card \ mixed :
        /\ card[s].status = "GENERATED" => card[s].pdf = card[s].figures
        /\ card[s].status # "GENERATED" => card[s].pdf = NoFigures
        /\ card[s].status = "PENDING" => s \in remade \/ Drawing(s) # {}

\* Once the handlers and listeners that began before an exam was LOCKED are through,
\* its marks, their publication and its cards stay: only removing its rows takes
\* results away, and a card can only be deleted (resolveExamOrFail).
LockedIsFinal ==
    [][(/\ exam.status \in Closed
        /\ Active \cap early = {} /\ \A e \in events : e.by \notin early)
          => /\ \A c \in DOMAIN result' : c \in DOMAIN result /\ result'[c] = result[c]
             /\ DOMAIN card' = DOMAIN card
             /\ \A s \in DOMAIN card :
                   [card'[s] EXCEPT !.deleted = card[s].deleted] = card[s]]_vars
=============================================================================
