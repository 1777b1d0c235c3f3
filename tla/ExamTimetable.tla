---------------------------- MODULE ExamTimetable ----------------------------
(***************************************************************************)
(* The exams of a year and their schedule rows: exam.service.ts and        *)
(* exam-schedule.service.ts.                                               *)
(*                                                                         *)
(* A request is one run of a handler; a step is the code between two       *)
(* awaits, except that reads whose results are only compared are one step. *)
(* A slot is a date and time of the timetable: rows clash when they have   *)
(* the same slot, and an exam's window is a range of slots.  The rows of a *)
(* request have no room and no invigilator until they are updated, except  *)
(* those that are generated.  Sub-subject rows follow the rules of the     *)
(* others and are left out.                                                *)
(***************************************************************************)
EXTENDS Integers, FiniteSets

CONSTANTS
    Exams, RowIds, Classes, Teachers, Rooms, Requests,
    Subjects,      \* the subjects of a class, in the order they are packed: 1, 2, ...
    TeacherOf,     \* the teacher of a subject
    MaxSlot,       \* bound on the slots
    Sends,         \* the sets of fields that an update may send
    None           \* no teacher, no room, no exam

ASSUME TimetableAssumption ==
    /\ Subjects \subseteq Nat \ {0} /\ MaxSlot \in Nat \ {0}
    /\ TeacherOf \in [Subjects -> Teachers]
    /\ None \notin Teachers \cup Rooms \cup Exams \cup RowIds
    /\ Sends \subseteq SUBSET {"slot", "teacher", "room"}
    /\ IsFiniteSet(Classes) /\ IsFiniteSet(Subjects) /\ IsFiniteSet(RowIds)

Slots == 1..MaxSlot
Window == {w \in Slots \X Slots : w[1] <= w[2]}
Within(slot, w) == w[1] <= slot /\ slot <= w[2]
Meet(v, w) == v[1] <= w[2] /\ w[1] <= v[2]

ExamStatus == {"DRAFT", "UNDER_REVIEW", "PUBLISHED", "STARTED", "COMPLETED", "LOCKED", "ARCHIVED"}
EXAM_STATUS_TRANSITIONS ==
    [DRAFT |-> {"UNDER_REVIEW", "PUBLISHED"}, UNDER_REVIEW |-> {"DRAFT", "PUBLISHED"},
     PUBLISHED |-> {"STARTED", "UNDER_REVIEW"}, STARTED |-> {"COMPLETED"},
     COMPLETED |-> {"LOCKED"}, LOCKED |-> {"ARCHIVED"}, ARCHIVED |-> {}]

Exam == [window : Window, classes : SUBSET Classes, status : ExamStatus, deleted : BOOLEAN]
Row == [exam : Exams, class : Classes, subject : Subjects, slot : Slots,
        teacher : Teachers \cup {None}, room : Rooms \cup {None}, locked : BOOLEAN]

VARIABLES
    exam,      \* tables exams and exam_classes: those created so far
    row,       \* table exam_schedules, by id
    pc, local, \* what each request does next and what it was sent or has read
    cascade,   \* deleted exams whose rows the listener has not removed yet
    loose,     \* history: exams restored, given dates and classes by one update, or written
               \* while another handler had checked a window and not written it
    unchecked, \* history: rows written while another handler had checked rows and not
               \* written them, or several by one request, or without a check
    booked,    \* history: rows whose teacher or slot was set by hand or in such a race
    amended    \* history: exams that got a row, or an unlocked one, or of which one lost its
               \* room or its teacher, while PUBLISHED or about to be

tables == <<exam, row>>
history == <<loose, unchecked, booked, amended>>
vars == <<exam, row, pc, local, cascade, loose, unchecked, booked, amended>>

\* What a request was sent and has read: rows to insert, and rows by id of which the
\* fields that are sent are to be written.
Nothing == [exam |-> None, window |-> <<1, 1>>, classes |-> {}, dates |-> FALSE,
            link |-> FALSE, new |-> {}, plan |-> << >>, sent |-> {}, status |-> "DRAFT"]
Steps == {"idle", "overlap", "create", "link", "rows", "recheck", "redate", "unlink",
          "status", "write", "bulk", "replace", "remove", "done"}
IsTable(table, S, T) == DOMAIN table \subseteq S /\ table \in [DOMAIN table -> T]
IsLocal(l) ==
    /\ DOMAIN l = DOMAIN Nothing
    /\ l.exam \in Exams \cup {None} /\ l.window \in Window /\ l.classes \subseteq Classes
    /\ l.dates \in BOOLEAN /\ l.link \in BOOLEAN /\ l.status \in ExamStatus
    /\ l.new \subseteq Row /\ IsTable(l.plan, RowIds, Row) /\ l.sent \in Sends \cup {{}}

Init ==
    /\ exam = << >> /\ row = << >>
    /\ pc = [r \in Requests |-> "idle"]
    /\ local = [r \in Requests |-> Nothing]
    /\ cascade = {}
    /\ loose = {} /\ unchecked = {} /\ booked = {} /\ amended = {}

Upsert(table, new) ==
    [k \in DOMAIN table \cup DOMAIN new |-> IF k \in DOMAIN new THEN new[k] ELSE table[k]]
Live == {e \in DOMAIN exam : ~exam[e].deleted}
RowsOf(e) == {i \in DOMAIN row : row[i].exam = e}

Goto(r, step, seen) ==
    /\ pc' = [pc EXCEPT ![r] = step]
    /\ local' = [local EXCEPT ![r] = seen]
Finish(r) == Goto(r, "done", Nothing)

\* A step that reads, and ends the handler if the guard does not hold.
Read(r, from, guard, step, seen) ==
    /\ pc[r] = from
    /\ IF guard THEN Goto(r, step, seen) ELSE Finish(r)
    /\ UNCHANGED <<tables, cascade, history>>

\* Another handler is between its checks and its writes.
Others(r, steps) == {q \in Requests \ {r} : pc[q] \in steps}

-----------------------------------------------------------------------------
(* The windows of the exams of a class.                                    *)

\* findOverlapping
Overlapping(classes, w, e) ==
    {f \in Live \ {e} : exam[f].classes \cap classes # {} /\ Meet(exam[f].window, w)}

\* The links of an exam that gets new dates and classes are written after its dates.
Loosen(r, e) ==
    loose' = IF \/ Others(r, {"create", "recheck", "redate", "unlink", "link"}) # {}
                \/ pc[r] = "redate" /\ local[r].link
             THEN loose \cup {e} ELSE loose

Create(r, e, classes, w) ==
    /\ e \notin DOMAIN exam
    /\ Read(r, "idle", TRUE, "overlap",
            [Nothing EXCEPT !.exam = e, !.classes = classes, !.window = w])

\* The k-th subject of every class is packed into the k-th slot of the window; any
\* teacher who is free then and does not teach the subject may invigilate.
Free(t, subject, slot) ==
    /\ t # TeacherOf[subject]
    /\ ~\E i \in DOMAIN row : row[i].teacher = t /\ row[i].slot = slot

Places(classes) == classes \X Subjects
SlotOf(w, place) == w[1] + place[2] - 1
buildProposedSchedule(e, classes, w) ==
    {{[exam |-> e, class |-> k[1], subject |-> k[2], slot |-> SlotOf(w, k),
       teacher |-> f[k], room |-> None, locked |-> FALSE] : k \in Places(classes)} :
     f \in {g \in [Places(classes) -> Teachers] : \A k \in Places(classes) :
              /\ Within(SlotOf(w, k), w) /\ Free(g[k], k[2], SlotOf(w, k))
              /\ \A j \in Places(classes) : j # k /\ j[2] = k[2] => g[j] # g[k]}}

\* A subject that cannot be placed ends autoGenerate.
AutoGenerate(r, e, classes, w) ==
    /\ e \notin DOMAIN exam
    /\ \E new \in buildProposedSchedule(e, classes, w) :
          Read(r, "idle", TRUE, "overlap",
               [Nothing EXCEPT !.exam = e, !.classes = classes, !.window = w, !.new = new])

\* copy moves the window and every row by the same distance.
Copy(r, source, e, by) ==
    LET w == <<exam[source].window[1] + by, exam[source].window[2] + by>>
    IN  /\ e \notin DOMAIN exam /\ source \in Live
        /\ w \in Window /\ \A i \in RowsOf(source) : row[i].slot + by \in Slots
        /\ Read(r, "idle", TRUE, "overlap",
                [Nothing EXCEPT !.exam = e, !.classes = exam[source].classes, !.window = w,
                    !.new = {[row[i] EXCEPT !.exam = e, !.slot = @ + by, !.teacher = None,
                                            !.room = None, !.locked = FALSE] :
                             i \in RowsOf(source)}])

Mutant_NoOverlapCheck(r) == Read(r, "overlap", TRUE, "create", local[r])
assertNoTimelineOverlap(r) ==
    Read(r, "overlap", Overlapping(local[r].classes, local[r].window, local[r].exam) = {},
         "create", local[r])

InsertExam(r) ==
    LET l == local[r]
    IN  /\ pc[r] = "create" /\ l.exam \notin DOMAIN exam
        /\ exam' = Upsert(exam, [e \in {l.exam} |->
              [window |-> l.window, classes |-> {}, status |-> "DRAFT", deleted |-> FALSE]])
        /\ Goto(r, "link", l)
        /\ UNCHANGED <<row, cascade, history>>

\* replaceExamClasses inserts the links: only now do other handlers see the window.
LinkClasses(r) ==
    LET l == local[r]
    IN  /\ pc[r] = "link"
        /\ exam' = [exam EXCEPT ![l.exam] = [@ EXCEPT !.classes = l.classes]]
        /\ Loosen(r, l.exam)
        /\ IF l.new = {} THEN Finish(r) ELSE Goto(r, "rows", l)
        /\ UNCHANGED <<row, cascade, unchecked, booked, amended>>

\* update: the dates, or the classes, or both; what is not sent is taken as read.
UpdateExam(r, e, dates, w, link, classes) ==
    /\ dates \/ link
    /\ Read(r, "idle", e \in Live, "recheck",
            [Nothing EXCEPT !.exam = e, !.dates = dates, !.link = link,
                 !.window = IF dates THEN w ELSE exam[e].window,
                 !.classes = IF link THEN classes ELSE exam[e].classes])

RecheckOverlap(r) ==
    Read(r, "recheck", Overlapping(local[r].classes, local[r].window, local[r].exam) = {},
         "redate", local[r])

Redate(r) ==
    LET l == local[r]
    IN  /\ pc[r] = "redate"
        /\ exam' = IF l.dates THEN [exam EXCEPT ![l.exam] = [@ EXCEPT !.window = l.window]]
                              ELSE exam
        /\ Loosen(r, l.exam)
        /\ IF l.link THEN Goto(r, "unlink", l) ELSE Finish(r)
        /\ UNCHANGED <<row, cascade, unchecked, booked, amended>>

\* replaceExamClasses deletes the links before it inserts the new ones.
Unlink(r) ==
    /\ pc[r] = "unlink"
    /\ exam' = [exam EXCEPT ![local[r].exam] = [@ EXCEPT !.classes = {}]]
    /\ Goto(r, "link", local[r])
    /\ UNCHANGED <<row, cascade, history>>

-----------------------------------------------------------------------------
(* Deleting, restoring and publishing.                                     *)

RemoveExam(r, e) ==
    /\ pc[r] = "idle" /\ e \in Live
    /\ exam' = [exam EXCEPT ![e] = [@ EXCEPT !.deleted = TRUE]]
    /\ cascade' = cascade \cup {e}
    /\ Finish(r)
    /\ UNCHANGED <<row, history>>

handleExamDeleted(e) ==
    /\ e \in cascade
    /\ cascade' = cascade \ {e}
    /\ row' = [i \in DOMAIN row \ RowsOf(e) |-> row[i]]
    /\ UNCHANGED <<exam, pc, local, history>>

\* restore does not look for exams created meanwhile.
RestoreExam(r, e) ==
    /\ pc[r] = "idle" /\ e \in DOMAIN exam \ Live
    /\ exam' = [exam EXCEPT ![e] = [@ EXCEPT !.deleted = FALSE]]
    /\ loose' = loose \cup {e}
    /\ Finish(r)
    /\ UNCHANGED <<row, cascade, unchecked, booked, amended>>

\* findIncompleteScheduleIds
Incomplete(e) == {i \in RowsOf(e) : ~row[i].locked /\ None \in {row[i].room, row[i].teacher}}

Mutant_OnlyFromDraft(r, e, to) ==
    Read(r, "idle", /\ e \in Live /\ to \in EXAM_STATUS_TRANSITIONS[exam[e].status]
                    /\ exam[e].status = "DRAFT" /\ to = "PUBLISHED" => Incomplete(e) = {},
         "status", [Nothing EXCEPT !.exam = e, !.status = to])

ReadStatus(r, e, to) ==
    Read(r, "idle", /\ e \in Live /\ to \in EXAM_STATUS_TRANSITIONS[exam[e].status]
                    /\ to = "PUBLISHED" => Incomplete(e) = {},
         "status", [Nothing EXCEPT !.exam = e, !.status = to])

SetStatus(r) ==
    /\ pc[r] = "status"
    /\ exam' = [exam EXCEPT ![local[r].exam] = [@ EXCEPT !.status = local[r].status]]
    /\ Finish(r)
    /\ UNCHANGED <<row, cascade, history>>

Amend(exams) ==
    amended' = amended \cup {e \in exams : \/ exam[e].status = "PUBLISHED"
                                           \/ \E q \in Requests : pc[q] = "status"
                                                                  /\ local[q].exam = e}

-----------------------------------------------------------------------------
(* The rows.                                                               *)

\* findConflict and findDuplicate
Conflict(e, c, slot, self) ==
    \E i \in RowsOf(e) \ self : row[i].class = c /\ row[i].slot = slot
Duplicate(e, c, subject) ==
    \E i \in RowsOf(e) : row[i].class = c /\ row[i].subject = subject

Mutant_NoConflictCheck(e, c, slot, self) ==
    e \in Live /\ Within(slot, exam[e].window)
\* validateWithinExamWindow and validateNoConflict
Fits(e, c, slot, self) ==
    e \in Live /\ Within(slot, exam[e].window) /\ ~Conflict(e, c, slot, self)

\* bulkCreate checks every item against the table, and not against the others.
BulkCreate(r, e, c, items) ==
    /\ e \in DOMAIN exam
    /\ Read(r, "idle", \A x \in items : ~Duplicate(e, c, x[1]) /\ Fits(e, c, x[2], {}), "rows",
            [Nothing EXCEPT !.exam = e,
                !.new = {[exam |-> e, class |-> c, subject |-> x[1], slot |-> x[2],
                          teacher |-> None, room |-> None, locked |-> FALSE] : x \in items}])

RowSteps == {"overlap", "create", "link", "rows", "write", "bulk", "replace"}
\* History of a write of these rows, sent by the client or generated.
Written(r, ids, sent) ==
    /\ unchecked' = IF \/ Others(r, RowSteps) # {}
                       \/ IF sent THEN Cardinality(ids) > 1 ELSE RowsOf(local[r].exam) # {}
                    THEN unchecked \cup ids ELSE unchecked \ (ids \ DOMAIN row)
    /\ booked' = IF Others(r, RowSteps) # {} \/ sent
                 THEN booked \cup ids ELSE booked \ (ids \ DOMAIN row)

\* Ids that no row and no request has: any of them may be the next ones.
Fresh == RowIds \ (DOMAIN row \cup UNION {DOMAIN local[q].plan : q \in Requests})

\* Rows with some of the ids.
Numbered(free, rows) ==
    LET ids == CHOOSE S \in SUBSET free : Cardinality(S) = Cardinality(rows)
    IN  CHOOSE at \in [ids -> rows] : {at[i] : i \in ids} = rows

\* createMany, of a new exam, of bulkCreate or of a regeneration.
InsertRows(r) ==
    LET l == local[r]
        new == Numbered(Fresh, l.new)
    IN  /\ pc[r] = "rows" /\ Cardinality(l.new) <= Cardinality(Fresh)
        /\ row' = Upsert(row, new)
        /\ Written(r, DOMAIN new, \E x \in l.new : x.teacher = None)
        /\ Amend({l.exam})
        /\ IF l.plan = << >> THEN Finish(r) ELSE Goto(r, "replace", l)
        /\ UNCHANGED <<exam, cascade, loose>>

\* A row with the fields that are sent of another: a teacher or a room may be sent as null.
Put(x, sent, y) == [x EXCEPT !.slot = IF "slot" \in sent THEN y.slot ELSE @,
                             !.teacher = IF "teacher" \in sent THEN y.teacher ELSE @,
                             !.room = IF "room" \in sent THEN y.room ELSE @]
Values == [slot : Slots, teacher : Teachers \cup {None}, room : Rooms \cup {None}]
Allowed(i, sent, y) == "slot" \in sent => Fits(row[i].exam, row[i].class, y.slot, {i})

\* update and remove of one row do not look at its lock.
UpdateRow(r, i) ==
    /\ i \in DOMAIN row
    /\ \E sent \in Sends, y \in Values :
          Read(r, "idle", Allowed(i, sent, y), "write",
               [Nothing EXCEPT !.sent = sent, !.plan = [k \in {i} |-> Put(row[i], sent, y)]])

Mutant_LockedToo(i) == TRUE
Unlocked(i) == ~row[i].locked

\* bulkUpdate: the same change to several rows, each checked against the table.
BulkUpdate(r, ids) ==
    \E sent \in Sends, y \in Values :
        LET ok == {i \in ids \cap DOMAIN row : Unlocked(i) /\ Allowed(i, sent, y)}
        IN  Read(r, "idle", ok # {}, "bulk",
                 [Nothing EXCEPT !.sent = sent, !.plan = [i \in ok |-> Put(row[i], sent, y)]])

\* Of what is sent a room or a teacher is null.
Clears(sent, y) == \/ "room" \in sent /\ y.room = None
                   \/ "teacher" \in sent /\ y.teacher = None

\* Only what was sent is written: the rest of the row is as it is now.
WriteRows(r) ==
    LET l == local[r]
        ids == {i \in DOMAIN l.plan \cap DOMAIN row : pc[r] = "bulk" => Unlocked(i)}
    IN  /\ pc[r] \in {"write", "bulk"}
        /\ row' = Upsert(row, [i \in ids |-> Put(row[i], l.sent, l.plan[i])])
        /\ Written(r, ids, TRUE)
        /\ Amend({row[i].exam : i \in {k \in ids : Unlocked(k) /\ Clears(l.sent, l.plan[k])}})
        /\ Finish(r)
        /\ UNCHANGED <<exam, cascade, loose>>

RemoveRow(r, i) ==
    /\ i \in DOMAIN row
    /\ Read(r, "idle", TRUE, "remove", [Nothing EXCEPT !.plan = [k \in {i} |-> row[i]]])

HardDelete(r) ==
    /\ pc[r] = "remove"
    /\ row' = [i \in DOMAIN row \ DOMAIN local[r].plan |-> row[i]]
    /\ Finish(r)
    /\ UNCHANGED <<exam, cascade, history>>

BulkRemove(r, ids) ==
    /\ pc[r] = "idle"
    /\ row' = [i \in DOMAIN row \ {k \in ids \cap DOMAIN row : Unlocked(k)} |-> row[i]]
    /\ Finish(r)
    /\ UNCHANGED <<exam, cascade, history>>

BulkLock(r, ids, flag) ==
    /\ pc[r] = "idle" /\ ids \subseteq DOMAIN row
    /\ row' = Upsert(row, [i \in ids |-> [row[i] EXCEPT !.locked = flag]])
    /\ IF flag THEN UNCHANGED amended ELSE Amend({row[i].exam : i \in ids})
    /\ Finish(r)
    /\ UNCHANGED <<exam, cascade, loose, unchecked, booked>>

\* regenerateApply: the proposal against the rows there are.  Subjects without a row
\* are created, unlocked rows are replaced if they differ.  The window is the one sent.
Same(i, x) == row[i].class = x.class /\ row[i].subject = x.subject
Missing(e, proposal) == {x \in proposal : ~\E i \in RowsOf(e) : Same(i, x)}
\* Of several rows of a class and subject the last one is taken, in any order.
Existing(e, proposal) ==
    {old \in [proposal \ Missing(e, proposal) -> RowsOf(e)] : \A x \in DOMAIN old : Same(old[x], x)}
Differing(old) ==
    LET ids == {old[x] : x \in {y \in DOMAIN old :
                  Unlocked(old[y]) /\ [y EXCEPT !.room = row[old[y]].room] # row[old[y]]}}
    IN  [i \in ids |-> CHOOSE x \in DOMAIN old : old[x] = i]

Regenerate(r, e, classes, w) ==
    /\ e \in Live
    /\ \E proposal \in buildProposedSchedule(e, classes, w) : \E old \in Existing(e, proposal) :
          LET new == Missing(e, proposal)
              plan == Differing(old)
          IN  Read(r, "idle", new # {} \/ plan # << >>, IF new # {} THEN "rows" ELSE "replace",
                   [Nothing EXCEPT !.exam = e, !.new = new, !.plan = plan])

\* One update after the other, none of them checked against the other rows.
Replace(r) ==
    LET l == local[r]
    IN  /\ pc[r] = "replace"
        /\ \E i \in DOMAIN l.plan :
              LET rest == [k \in DOMAIN l.plan \ {i} |-> l.plan[k]]
              IN  /\ row' = IF i \in DOMAIN row
                            THEN [row EXCEPT ![i] = [@ EXCEPT !.slot = l.plan[i].slot,
                                                              !.teacher = l.plan[i].teacher]]
                            ELSE row
                  /\ unchecked' = unchecked \cup {i} /\ booked' = booked \cup {i}
                  /\ IF rest = << >> THEN Finish(r)
                     ELSE Goto(r, "replace", [l EXCEPT !.plan = rest])
        /\ UNCHANGED <<exam, cascade, loose, amended>>

-----------------------------------------------------------------------------
\* A statement fails, and the handler with it: what it has written stays.
HandlerFails(r) ==
    /\ pc[r] \notin {"idle", "done"}
    /\ Finish(r)
    /\ UNCHANGED <<tables, cascade, history>>

ExamHandler(r) ==
    \/ pc[r] = "idle" /\ \E e \in Exams, classes \in SUBSET Classes \ {{}}, w \in Window :
          \/ Create(r, e, classes, w) \/ AutoGenerate(r, e, classes, w)
          \/ Regenerate(r, e, classes, w)
          \/ \E dates, link \in BOOLEAN : UpdateExam(r, e, dates, w, link, classes)
    \/ \E e, source \in Exams, by \in Slots : Copy(r, source, e, by)
    \/ \E e \in Exams : \/ RemoveExam(r, e) \/ RestoreExam(r, e)
                        \/ \E to \in ExamStatus : ReadStatus(r, e, to)
    \/ assertNoTimelineOverlap(r) \/ InsertExam(r) \/ LinkClasses(r)
    \/ RecheckOverlap(r) \/ Redate(r) \/ Unlink(r) \/ SetStatus(r)

RowHandler(r) ==
    \/ pc[r] = "idle" /\ \E e \in Exams, c \in Classes, items \in SUBSET (Subjects \X Slots) :
          Cardinality(items) \in 1..2 /\ BulkCreate(r, e, c, items)
    \/ \E i \in RowIds : UpdateRow(r, i) \/ RemoveRow(r, i)
    \/ \E ids \in SUBSET DOMAIN row \ {{}} :
          BulkUpdate(r, ids) \/ BulkRemove(r, ids) \/ \E flag \in BOOLEAN : BulkLock(r, ids, flag)
    \/ InsertRows(r) \/ WriteRows(r) \/ HardDelete(r) \/ Replace(r)

TimetableNext ==
    \/ \E r \in Requests : ExamHandler(r) \/ RowHandler(r) \/ HandlerFails(r)
    \/ \E e \in cascade : handleExamDeleted(e)

TimetableSpec == Init /\ [][TimetableNext]_vars

-----------------------------------------------------------------------------
(* Properties                                                              *)

TypeOK ==
    /\ IsTable(exam, Exams, Exam) /\ IsTable(row, RowIds, Row)
    /\ pc \in [Requests -> Steps]
    /\ DOMAIN local = Requests /\ \A r \in Requests : IsLocal(local[r])
    /\ cascade \subseteq Exams /\ loose \subseteq Exams /\ amended \subseteq Exams
    /\ unchecked \subseteq RowIds /\ booked \subseteq RowIds

\* exam.service.ts:59: exams that share a class do not overlap, unless one was restored,
\* got dates and classes from one update (whose statements are not atomic), or was written
\* while another handler was between its check and its write.
ExamsApart ==
    \A e, f \in Live \ loose : e # f =>
        Overlapping(exam[e].classes, exam[e].window, e) \cap {f} = {}

\* exam-schedule.service.ts:53, exam.service.ts:405: two rows at one time are not of one
\* class in an exam, unless one was written in a race, together with others of one request,
\* or by a regeneration; and do not have one invigilator, unless written in a race or by hand.
RowsApart ==
    \A i, j \in DOMAIN row : i # j /\ row[i].slot = row[j].slot =>
        /\ {i, j} \cap unchecked = {} =>
              <<row[i].exam, row[i].class>> # <<row[j].exam, row[j].class>>
        /\ {i, j} \cap booked = {} /\ row[i].teacher # None => row[i].teacher # row[j].teacher

\* exam.service.ts:220-222: a PUBLISHED exam has a room and an invigilator for every
\* unlocked row, unless since they were looked at it got rows, or unlocked ones, or an
\* update sent null for the room or the invigilator of one: bulk updates of locked rows,
\* regenerations, listeners and withdrawn exams leave it complete.
PublishedIsComplete ==
    \A e \in DOMAIN exam \ amended : exam[e].status = "PUBLISHED" => Incomplete(e) = {}

\* A locked row keeps its time, teacher and room, and stays, except for an update or a
\* removal of that row alone, for a regeneration that read it before it was locked, and
\* for the deletion of its exam.
LockedRowKept ==
    [][\A i \in DOMAIN row :
         (/\ row[i].locked /\ row[i].exam \notin cascade
          /\ ~\E r \in Requests : pc[r] \in {"write", "remove", "replace"}
                                  /\ i \in DOMAIN local[r].plan)
         => i \in DOMAIN row' /\ [row'[i] EXCEPT !.locked = TRUE] = row[i]]_vars
=============================================================================
