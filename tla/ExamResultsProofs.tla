-------------------------- MODULE ExamResultsProofs --------------------------
(***************************************************************************)
(* For any number of students, schedule rows and overlapping handlers: the *)
(* results that attendance leaves behind, the report cards and their PDFs, *)
(* and what a LOCKED exam keeps, as ExamResults states with its excuses.   *)
(***************************************************************************)
EXTENDS ExamResults, FiniteSums

-----------------------------------------------------------------------------
(* The strengthening.                                                      *)

\* A handler on its way to a card has its figures, and the card it goes on with is there.
\* One that can write results or cards began in time.
HandlerInv(r) ==
    /\ pc[r] \in {"cards", "pdf"} => local[r].students \subseteq DOMAIN local[r].figures
    /\ pc[r] = "pdf" => local[r].current \in DOMAIN local[r].figures \cap DOMAIN card
    /\ pc[r] = "delete" => local[r].current \in DOMAIN card
    /\ pc[r] \notin {"idle", "status", "delete", "done"} => r \in early

\* So did the one that emitted an event of bulkMark.
EventInv(e) == IF e.kind = "EXAM_DELETED" THEN e.cells = {} ELSE e.by \in early

\* The foreign key, and the events that are still to be copied: one for a cell, and of the
\* kind that the attendance has by now.
AttendedRows == \A c \in DOMAIN attendance : c[2] \in rows
OneEventEach ==
    \A c \in Cells \ stray : \A e, f \in events : c \in e.cells /\ c \in f.cells => e = f
Follows(e, c) ==
    e.kind = (IF attendance[c] = "ABSENT" THEN "ABSENT_MARKED" ELSE "PRESENT_MARKED")
EventsAgree == \A e \in events : \A c \in (e.cells \cap DOMAIN attendance) \ stray : Follows(e, c)
ResultsInv == AttendedRows /\ OneEventEach /\ EventsAgree /\ ResultFollowsAttendance

\* A card between its two statements has one run there and the figures of that run, and is
\* the card that the run will find again, unless it was there before.
DrawnBy(r, s) ==
    /\ Drawing(s) = {r}
    /\ card[s].figures = FiguresOf(r, s)
    /\ card[s].status = "PENDING" /\ card[s].pdf = NoFigures
    /\ card[s].id = r \/ s \in remade
CardsDrawn == \A s \in Students \ mixed : \A r \in Drawing(s) : DrawnBy(r, s)
CardsInv == CardsDrawn /\ CardAgreesWithPdf

IInv ==
    /\ TypeOK
    /\ \A r \in Requests : HandlerInv(r)
    /\ \A e \in events : EventInv(e)
    /\ ResultsInv /\ CardsInv

-----------------------------------------------------------------------------
(* Types.                                                                  *)

LEMMA LocalTyped ==
    ASSUME NEW sheet, IsTable(sheet, Cells, Attendance), NEW entries, IsTable(entries, Cells, Entry),
           NEW students \in SUBSET Students, NEW current \in Students \cup {NoStudent},
           NEW figures, IsTable(figures, Students, Figures), NEW flag \in BOOLEAN,
           NEW status \in ExamStatus
    PROVE  IsLocal([sheet |-> sheet, entries |-> entries, students |-> students,
                    current |-> current, figures |-> figures, flag |-> flag, status |-> status])
    BY DEF IsLocal

LEMMA EmptyTable == ASSUME NEW S, NEW T PROVE IsTable(<< >>, S, T)
    BY DEF IsTable

LEMMA NothingTyped == IsLocal(Nothing)
    BY LocalTyped, EmptyTable DEF Nothing, ExamStatus

\* What a handler's locals may become.
LEMMA LocalChanged ==
    ASSUME NEW l, IsLocal(l)
    PROVE  /\ \A sheet : IsTable(sheet, Cells, Attendance) => IsLocal([l EXCEPT !.sheet = sheet])
           /\ \A entries : IsTable(entries, Cells, Entry) => IsLocal([l EXCEPT !.entries = entries])
           /\ \A students \in SUBSET Students : IsLocal([l EXCEPT !.students = students])
           /\ \A students \in SUBSET Students : \A flag \in BOOLEAN :
                 IsLocal([l EXCEPT !.students = students, !.flag = flag])
           /\ \A students \in SUBSET Students : \A current \in Students :
                 IsLocal([l EXCEPT !.students = students, !.current = current])
           /\ \A current \in Students \cup {NoStudent} : IsLocal([l EXCEPT !.current = current])
           /\ \A figures :
                 IsTable(figures, Students, Figures) => IsLocal([l EXCEPT !.figures = figures])
           /\ \A flag \in BOOLEAN : IsLocal([l EXCEPT !.flag = flag])
           /\ \A status \in ExamStatus : IsLocal([l EXCEPT !.status = status])
<1>0. l = [sheet |-> l.sheet, entries |-> l.entries, students |-> l.students,
           current |-> l.current, figures |-> l.figures, flag |-> l.flag, status |-> l.status]
    BY DEF IsLocal
<1>1. ASSUME NEW sheet, IsTable(sheet, Cells, Attendance)
      PROVE  IsLocal([l EXCEPT !.sheet = sheet])
    <2>1. [l EXCEPT !.sheet = sheet] =
          [sheet |-> sheet, entries |-> l.entries, students |-> l.students, current |-> l.current,
           figures |-> l.figures, flag |-> l.flag, status |-> l.status]
        BY <1>0
    <2> QED
        BY <1>1, <2>1, LocalTyped DEF IsLocal
<1>2. ASSUME NEW entries, IsTable(entries, Cells, Entry)
      PROVE  IsLocal([l EXCEPT !.entries = entries])
    <2>1. [l EXCEPT !.entries = entries] =
          [sheet |-> l.sheet, entries |-> entries, students |-> l.students, current |-> l.current,
           figures |-> l.figures, flag |-> l.flag, status |-> l.status]
        BY <1>0
    <2> QED
        BY <1>2, <2>1, LocalTyped DEF IsLocal
<1>3. ASSUME NEW students \in SUBSET Students
      PROVE  IsLocal([l EXCEPT !.students = students])
    <2>1. [l EXCEPT !.students = students] =
          [sheet |-> l.sheet, entries |-> l.entries, students |-> students, current |-> l.current,
           figures |-> l.figures, flag |-> l.flag, status |-> l.status]
        BY <1>0
    <2> QED
        BY <1>3, <2>1, LocalTyped DEF IsLocal
<1>4. ASSUME NEW students \in SUBSET Students,
              NEW flag \in BOOLEAN
      PROVE  IsLocal([l EXCEPT !.students = students, !.flag = flag])
    <2>0. PICK k : k = [l EXCEPT !.students = students]
        OBVIOUS
    <2>1. k = [sheet |-> l.sheet, entries |-> l.entries, students |-> students,
               current |-> l.current, figures |-> l.figures, flag |-> l.flag,
               status |-> l.status]
        BY <1>0, <2>0
    <2>2. [l EXCEPT !.students = students, !.flag = flag] = [k EXCEPT !.flag = flag]
        BY <2>0
    <2>3. IsLocal(k)
        BY <2>1, LocalTyped DEF IsLocal
    <2>4. [k EXCEPT !.flag = flag] =
          [sheet |-> k.sheet, entries |-> k.entries, students |-> k.students, current |-> k.current,
           figures |-> k.figures, flag |-> flag, status |-> k.status]
        BY <2>1
    <2> QED
        BY <1>4, <2>2, <2>3, <2>4, LocalTyped DEF IsLocal
<1>5. ASSUME NEW students \in SUBSET Students,
              NEW current \in Students \cup {NoStudent}
      PROVE  IsLocal([l EXCEPT !.students = students, !.current = current])
    <2>0. PICK k : k = [l EXCEPT !.students = students]
        OBVIOUS
    <2>1. k = [sheet |-> l.sheet, entries |-> l.entries, students |-> students,
               current |-> l.current, figures |-> l.figures, flag |-> l.flag,
               status |-> l.status]
        BY <1>0, <2>0
    <2>2. [l EXCEPT !.students = students, !.current = current] = [k EXCEPT !.current = current]
        BY <2>0
    <2>3. IsLocal(k)
        BY <2>1, LocalTyped DEF IsLocal
    <2>4. [k EXCEPT !.current = current] =
          [sheet |-> k.sheet, entries |-> k.entries, students |-> k.students, current |-> current,
           figures |-> k.figures, flag |-> k.flag, status |-> k.status]
        BY <2>1
    <2> QED
        BY <1>5, <2>2, <2>3, <2>4, LocalTyped DEF IsLocal
<1>6. ASSUME NEW current \in Students \cup {NoStudent}
      PROVE  IsLocal([l EXCEPT !.current = current])
    <2>1. [l EXCEPT !.current = current] =
          [sheet |-> l.sheet, entries |-> l.entries, students |-> l.students, current |-> current,
           figures |-> l.figures, flag |-> l.flag, status |-> l.status]
        BY <1>0
    <2> QED
        BY <1>6, <2>1, LocalTyped DEF IsLocal
<1>7. ASSUME NEW figures, IsTable(figures, Students, Figures)
      PROVE  IsLocal([l EXCEPT !.figures = figures])
    <2>1. [l EXCEPT !.figures = figures] =
          [sheet |-> l.sheet, entries |-> l.entries, students |-> l.students, current |-> l.current,
           figures |-> figures, flag |-> l.flag, status |-> l.status]
        BY <1>0
    <2> QED
        BY <1>7, <2>1, LocalTyped DEF IsLocal
<1>8. ASSUME NEW flag \in BOOLEAN
      PROVE  IsLocal([l EXCEPT !.flag = flag])
    <2>1. [l EXCEPT !.flag = flag] =
          [sheet |-> l.sheet, entries |-> l.entries, students |-> l.students, current |-> l.current,
           figures |-> l.figures, flag |-> flag, status |-> l.status]
        BY <1>0
    <2> QED
        BY <1>8, <2>1, LocalTyped DEF IsLocal
<1>9. ASSUME NEW status \in ExamStatus
      PROVE  IsLocal([l EXCEPT !.status = status])
    <2>1. [l EXCEPT !.status = status] =
          [sheet |-> l.sheet, entries |-> l.entries, students |-> l.students, current |-> l.current,
           figures |-> l.figures, flag |-> l.flag, status |-> status]
        BY <1>0
    <2> QED
        BY <1>9, <2>1, LocalTyped DEF IsLocal
<1> QED
    BY <1>1, <1>2, <1>3, <1>4, <1>5, <1>6, <1>7, <1>8, <1>9

\* What Goto writes.
LEMMA Gone ==
    ASSUME TypeOK, NEW r \in Requests, NEW step \in Steps, NEW seen, IsLocal(seen),
           Goto(r, step, seen)
    PROVE  /\ pc' \in [Requests -> Steps] /\ DOMAIN local' = Requests
           /\ \A q \in Requests : IsLocal(local'[q])
           /\ pc'[r] = step /\ local'[r] = seen
           /\ \A q \in Requests \ {r} : pc'[q] = pc[q] /\ local'[q] = local[q]
<1>1. pc' = [pc EXCEPT ![r] = step] /\ local' = [local EXCEPT ![r] = seen]
    BY DEF Goto
<1>2. /\ pc \in [Requests -> Steps] /\ DOMAIN local = Requests
      /\ \A q \in Requests : IsLocal(local[q])
    BY DEF TypeOK
<1> QED
    BY <1>1, <1>2

LEMMA Finished ==
    ASSUME TypeOK, NEW r \in Requests, Finish(r)
    PROVE  /\ pc' \in [Requests -> Steps] /\ DOMAIN local' = Requests
           /\ \A q \in Requests : IsLocal(local'[q])
           /\ pc'[r] = "done" /\ local'[r] = Nothing
           /\ \A q \in Requests \ {r} : pc'[q] = pc[q] /\ local'[q] = local[q]
    BY Gone, NothingTyped DEF Finish, Steps

\* The table that Upsert writes.
LEMMA Upserted ==
    ASSUME NEW S, NEW T, NEW table, NEW new, IsTable(table, S, T), IsTable(new, S, T)
    PROVE  /\ IsTable(Upsert(table, new), S, T)
           /\ DOMAIN Upsert(table, new) = DOMAIN table \cup DOMAIN new
           /\ \A k \in DOMAIN new : Upsert(table, new)[k] = new[k]
           /\ \A k \in DOMAIN table \ DOMAIN new : Upsert(table, new)[k] = table[k]
    BY DEF IsTable, Upsert

-----------------------------------------------------------------------------
(* What a step leaves alone.                                               *)

\* The other handlers keep their part, if no card goes away.
LEMMA HandlersKeep ==
    ASSUME IInv, NEW r \in Requests, DOMAIN card \subseteq DOMAIN card', early \subseteq early',
           \A q \in Requests \ {r} : pc'[q] = pc[q] /\ local'[q] = local[q],
           HandlerInv(r)'
    PROVE  \A q \in Requests : HandlerInv(q)'
<1>1. ASSUME NEW q \in Requests, q # r PROVE HandlerInv(q)'
    <2>1. HandlerInv(q)
        BY DEF IInv
    <2> QED
        BY <1>1, <2>1 DEF HandlerInv
<1> QED
    BY <1>1

\* Results follow attendance while no row, attendance, result or event changes.
LEMMA ResultsKeep ==
    ASSUME ResultsInv, UNCHANGED <<rows, attendance, result, events, stray>>
    PROVE  ResultsInv'
<1>1. \A c : Awaiting(c)' <=> Awaiting(c)
    BY DEF Awaiting
<1>2. AttendedRows' /\ OneEventEach'
    BY DEF ResultsInv, AttendedRows, OneEventEach
<1>3. EventsAgree'
    BY DEF ResultsInv, EventsAgree, Follows
<1>4. ResultFollowsAttendance'
    BY <1>1 DEF ResultsInv, ResultFollowsAttendance
<1> QED
    BY <1>2, <1>3, <1>4 DEF ResultsInv

\* Cards agree with their PDFs while their content stays and no run comes to or leaves one.
LEMMA CardsKeep ==
    ASSUME TypeOK, CardsInv, UNCHANGED <<remade, mixed>>, DOMAIN card' = DOMAIN card,
           \A q \in Requests : pc[q] = "pdf" => local[q].current \in DOMAIN card,
           \A s \in DOMAIN card :
              /\ card'[s].id = card[s].id /\ card'[s].figures = card[s].figures
              /\ card'[s].status = card[s].status /\ card'[s].pdf = card[s].pdf,
           \A q \in Requests : pc'[q] = "pdf" <=> pc[q] = "pdf",
           \A q \in Requests : pc[q] = "pdf" => local'[q] = local[q]
    PROVE  CardsInv'
<1>1. \A s : Drawing(s)' = Drawing(s)
    BY DEF Drawing
<1>2. \A s : \A r \in Drawing(s) : FiguresOf(r, s)' = FiguresOf(r, s) /\ s \in DOMAIN card
    BY DEF Drawing, FiguresOf
<1>3. CardsDrawn'
    BY <1>1, <1>2 DEF CardsInv, CardsDrawn, DrawnBy
<1>4. CardAgreesWithPdf'
    BY <1>1 DEF CardsInv, CardAgreesWithPdf
<1> QED
    BY <1>3, <1>4 DEF CardsInv

\* What every handler has, of a card it is about to go on with.
LEMMA CurrentThere ==
    ASSUME IInv, NEW q \in Requests, pc[q] = "pdf"
    PROVE  local[q].current \in DOMAIN card /\ local[q].current \in DOMAIN local[q].figures
<1>1. HandlerInv(q)
    BY DEF IInv
<1> QED
    BY <1>1 DEF HandlerInv

\* A step to or from a statement that is not the one about a card's PDF, which leaves the
\* cards alone.
LEMMA NoCardStep ==
    ASSUME IInv, NEW r \in Requests, NEW step \in Steps \ {"pdf"}, NEW seen, IsLocal(seen),
           Goto(r, step, seen), pc[r] # "pdf", UNCHANGED <<card, remade, mixed>>
    PROVE  CardsInv'
<1>1. /\ pc'[r] = step
      /\ \A q \in Requests \ {r} : pc'[q] = pc[q] /\ local'[q] = local[q]
    BY Gone DEF IInv
<1>2. \A q \in Requests : pc'[q] = "pdf" <=> pc[q] = "pdf"
    BY <1>1
<1>3. \A q \in Requests : pc[q] = "pdf" => local'[q] = local[q]
    BY <1>1
<1> QED
    BY <1>2, <1>3, CurrentThere, CardsKeep DEF IInv

-----------------------------------------------------------------------------
(* Handlers that begin.                                                    *)

\* What a LOCKED exam keeps of a step, once nobody is left who began before.
Settled ==
    /\ exam.status \in Closed
    /\ Active \cap early = {} /\ \A e \in events : e.by \notin early
Stays ==
    /\ \A c \in DOMAIN result' : c \in DOMAIN result /\ result'[c] = result[c]
    /\ DOMAIN card' = DOMAIN card
    /\ \A s \in DOMAIN card : [card'[s] EXCEPT !.deleted = card[s].deleted] = card[s]

LEMMA CardTyped == ASSUME TypeOK, NEW s \in DOMAIN card PROVE card[s] \in Card /\ s \in Students
    BY DEF TypeOK, IsTable

LEMMA NothingWritten == ASSUME TypeOK, UNCHANGED <<result, card>> PROVE Stays
<1>1. \A s \in DOMAIN card : [card[s] EXCEPT !.deleted = card[s].deleted] = card[s]
    BY CardTyped DEF Card
<1> QED
    BY <1>1 DEF Stays

\* A handler that writes results or cards is not through.
LEMMA Unsettled ==
    ASSUME IInv, NEW r \in Requests, pc[r] \notin {"idle", "status", "delete", "done"}
    PROVE  ~Settled
<1>1. r \in early
    BY DEF IInv, HandlerInv
<1> QED
    BY <1>1 DEF Settled, Active

\* A step keeps the invariant, and what a LOCKED exam has.
Keeps == IInv' /\ (Settled => Stays)

LEMMA BeginKeeps ==
    ASSUME IInv, NEW r \in Requests, NEW step \in Steps, NEW seen, IsLocal(seen),
           step \notin {"cards", "pdf"}, pc[r] = "idle",
           \/ Finish(r) /\ early' = early
           \/ /\ Goto(r, step, seen)
              /\ early' = IF exam.status \notin Closed \/ exam.is_published
                          THEN early \cup {r} ELSE early
              /\ step \notin {"status", "delete"} => exam.status \notin Closed \/ exam.is_published
              /\ step = "delete" => seen.current \in DOMAIN card,
           UNCHANGED <<tables, events, stray, remade, mixed>>
    PROVE  Keeps
<1>0. UNCHANGED <<exam, rows, attendance, result, card, events, stray, remade, mixed>>
    BY DEF tables
<1>1. /\ pc' \in [Requests -> Steps] /\ DOMAIN local' = Requests
      /\ \A q \in Requests : IsLocal(local'[q])
      /\ \A q \in Requests \ {r} : pc'[q] = pc[q] /\ local'[q] = local[q]
    BY Gone, Finished DEF IInv
<1>2. early \subseteq early' /\ early' \subseteq Requests
    BY DEF IInv, TypeOK
<1>3. TypeOK'
    <2>1. TypeOK
        BY DEF IInv
    <2> QED
        BY <1>0, <1>1, <1>2, <2>1 DEF TypeOK
<1>4. HandlerInv(r)'
    <2>1. CASE Finish(r)
        BY <2>1, Finished DEF HandlerInv, IInv
    <2>2. CASE Goto(r, step, seen) /\ ~Finish(r)
        <3>1. pc'[r] = step /\ local'[r] = seen
            BY <2>2, Gone DEF IInv
        <3> QED
            BY <1>0, <2>2, <3>1 DEF HandlerInv
    <2> QED
        BY <2>1, <2>2
<1>5. \A q \in Requests : HandlerInv(q)'
    BY <1>0, <1>1, <1>2, <1>4, HandlersKeep
<1>6. \A e \in events' : EventInv(e)'
    BY <1>0, <1>2 DEF IInv, EventInv
<1>7. ResultsInv'
    BY <1>0, ResultsKeep DEF IInv
<1>8. CardsInv'
    BY <1>0, NoCardStep, NothingTyped DEF Finish, Steps
<1>9. Stays
    BY <1>0, NothingWritten DEF IInv
<1> QED
    BY <1>3, <1>5, <1>6, <1>7, <1>8, <1>9 DEF IInv, Keeps

LEMMA ChangeStatusKeeps ==
    ASSUME IInv, NEW r \in Requests, NEW to \in ExamStatus, ChangeStatus(r, to)
    PROVE  Keeps
<1> DEFINE seen == [Nothing EXCEPT !.status = to]
<1>1. IsLocal(seen)
    BY LocalChanged, NothingTyped
<1>2. /\ pc[r] = "idle" /\ UNCHANGED <<tables, events, stray, remade, mixed>>
      /\ \/ Finish(r) /\ early' = early
         \/ /\ Goto(r, "status", seen)
            /\ early' = IF exam.status \notin Closed \/ exam.is_published
                        THEN early \cup {r} ELSE early
    BY DEF ChangeStatus, Begin
<1> HIDE DEF seen
<1> QED
    BY <1>1, <1>2, BeginKeeps DEF Steps

LEMMA MarkAttendanceKeeps ==
    ASSUME IInv, NEW r \in Requests, NEW sheet \in Sent(Attendance), MarkAttendance(r, sheet)
    PROVE  Keeps
<1> DEFINE seen == [Nothing EXCEPT !.sheet = sheet]
<1>0. IsTable(sheet, Cells, Attendance)
    BY DEF Sent, IsTable
<1>1. IsLocal(seen)
    BY <1>0, LocalChanged, NothingTyped
<1>2. /\ pc[r] = "idle" /\ UNCHANGED <<tables, events, stray, remade, mixed>>
      /\ \/ Finish(r) /\ early' = early
         \/ /\ Goto(r, "attend", seen) /\ exam.is_published
            /\ early' = IF exam.status \notin Closed \/ exam.is_published
                        THEN early \cup {r} ELSE early
    BY DEF MarkAttendance, Begin
<1> HIDE DEF seen
<1> QED
    BY <1>1, <1>2, BeginKeeps DEF Steps

LEMMA EnterMarksKeeps ==
    ASSUME IInv, NEW r \in Requests, NEW entries \in Sent(Entry), EnterMarks(r, entries)
    PROVE  Keeps
<1> DEFINE seen == [Nothing EXCEPT !.entries = entries]
<1>0. IsTable(entries, Cells, Entry)
    BY DEF Sent, IsTable
<1>1. IsLocal(seen)
    BY <1>0, LocalChanged, NothingTyped
<1>2. /\ pc[r] = "idle" /\ UNCHANGED <<tables, events, stray, remade, mixed>>
      /\ \/ Finish(r) /\ early' = early
         \/ /\ Goto(r, "marks", seen) /\ exam.status \notin Closed
            /\ early' = IF exam.status \notin Closed \/ exam.is_published
                        THEN early \cup {r} ELSE early
    BY DEF EnterMarks, Begin, Open, Closed
<1> HIDE DEF seen
<1> QED
    BY <1>1, <1>2, BeginKeeps DEF Steps

LEMMA PublishResultsKeeps ==
    ASSUME IInv, NEW r \in Requests, NEW flag \in BOOLEAN, PublishResults(r, flag)
    PROVE  Keeps
<1> DEFINE seen == [Nothing EXCEPT !.flag = flag]
<1>1. IsLocal(seen)
    BY LocalChanged, NothingTyped
<1>2. /\ pc[r] = "idle" /\ UNCHANGED <<tables, events, stray, remade, mixed>>
      /\ \/ Finish(r) /\ early' = early
         \/ /\ Goto(r, "show", seen) /\ exam.status \notin Closed
            /\ early' = IF exam.status \notin Closed \/ exam.is_published
                        THEN early \cup {r} ELSE early
    BY DEF PublishResults, Begin, Open, Closed
<1> HIDE DEF seen
<1> QED
    BY <1>1, <1>2, BeginKeeps DEF Steps

LEMMA GenerateReportCardsKeeps ==
    ASSUME IInv, NEW r \in Requests, NEW students \in SUBSET Students,
           GenerateReportCards(r, students)
    PROVE  Keeps
<1> DEFINE seen == [Nothing EXCEPT !.students = students]
<1>1. IsLocal(seen)
    BY LocalChanged, NothingTyped
<1>2. /\ pc[r] = "idle" /\ UNCHANGED <<tables, events, stray, remade, mixed>>
      /\ \/ Finish(r) /\ early' = early
         \/ /\ Goto(r, "results", seen) /\ exam.status \notin Closed
            /\ early' = IF exam.status \notin Closed \/ exam.is_published
                        THEN early \cup {r} ELSE early
    BY DEF GenerateReportCards, Begin, Open, Closed
<1> HIDE DEF seen
<1> QED
    BY <1>1, <1>2, BeginKeeps DEF Steps

LEMMA PublishReportCardsKeeps ==
    ASSUME IInv, NEW r \in Requests, NEW students \in SUBSET Students, NEW flag \in BOOLEAN,
           PublishReportCards(r, students, flag)
    PROVE  Keeps
<1> DEFINE seen == [Nothing EXCEPT !.students = students, !.flag = flag]
<1>1. IsLocal(seen)
    BY LocalChanged, NothingTyped
<1>2. /\ pc[r] = "idle" /\ UNCHANGED <<tables, events, stray, remade, mixed>>
      /\ \/ Finish(r) /\ early' = early
         \/ /\ Goto(r, "showcards", seen) /\ exam.status \notin Closed
            /\ early' = IF exam.status \notin Closed \/ exam.is_published
                        THEN early \cup {r} ELSE early
    BY DEF PublishReportCards, Begin, Open, Closed
<1> HIDE DEF seen
<1> QED
    BY <1>1, <1>2, BeginKeeps DEF Steps

LEMMA DeleteReportCardKeeps ==
    ASSUME IInv, NEW r \in Requests, NEW s \in Students, DeleteReportCard(r, s)
    PROVE  Keeps
<1> DEFINE seen == [Nothing EXCEPT !.current = s]
<1>1. IsLocal(seen) /\ seen.current = s
    BY LocalChanged, NothingTyped DEF Nothing
<1>2. /\ pc[r] = "idle" /\ UNCHANGED <<tables, events, stray, remade, mixed>>
      /\ \/ Finish(r) /\ early' = early
         \/ /\ Goto(r, "delete", seen) /\ s \in DOMAIN card
            /\ early' = IF exam.status \notin Closed \/ exam.is_published
                        THEN early \cup {r} ELSE early
    BY DEF DeleteReportCard, Begin
<1> HIDE DEF seen
<1> QED
    BY <1>1, <1>2, BeginKeeps DEF Steps

-----------------------------------------------------------------------------
(* The exam and its schedule rows.                                         *)

LEMMA FinishKeeps ==
    ASSUME IInv, NEW r \in Requests, Finish(r), DOMAIN card \subseteq DOMAIN card',
           early \subseteq early'
    PROVE  /\ pc' \in [Requests -> Steps] /\ DOMAIN local' = Requests
           /\ \A q \in Requests : IsLocal(local[q]) /\ IsLocal(local'[q])
           /\ \A q \in Requests : HandlerInv(q)'
<1>1. TypeOK
    BY DEF IInv
<1>2. /\ pc' \in [Requests -> Steps] /\ DOMAIN local' = Requests
      /\ \A q \in Requests : IsLocal(local'[q])
      /\ pc'[r] = "done" /\ local'[r] = Nothing
      /\ \A q \in Requests \ {r} : pc'[q] = pc[q] /\ local'[q] = local[q]
    BY <1>1, Finished
<1>3. HandlerInv(r)'
    BY <1>2 DEF HandlerInv
<1>4. \A q \in Requests : HandlerInv(q)'
    BY <1>2, <1>3, HandlersKeep
<1> QED
    BY <1>1, <1>2, <1>4 DEF TypeOK

\* A statement that is not the one about a card's PDF ends its handler.
LEMMA FinishKeepsCards ==
    ASSUME IInv, NEW r \in Requests, Finish(r), pc[r] # "pdf", UNCHANGED <<card, remade, mixed>>
    PROVE  CardsInv'
    BY NoCardStep, NothingTyped DEF Finish, Steps

\* A handler ends that has written the exam at most.
LEMMA ExamWritten ==
    ASSUME IInv, NEW r \in Requests, Finish(r), pc[r] # "pdf", exam' \in Exam,
           UNCHANGED <<rows, attendance, result, card, events, stray, remade, mixed, early>>
    PROVE  Keeps
<1>1. /\ pc' \in [Requests -> Steps] /\ DOMAIN local' = Requests
      /\ \A q \in Requests : IsLocal(local'[q])
      /\ \A q \in Requests : HandlerInv(q)'
    BY FinishKeeps
<1>2. TypeOK'
    <2>1. TypeOK
        BY DEF IInv
    <2> QED
        BY <1>1, <2>1 DEF TypeOK
<1>3. \A e \in events' : EventInv(e)'
    BY DEF IInv, EventInv
<1>4. ResultsInv' /\ CardsInv' /\ Stays
    BY ResultsKeep, FinishKeepsCards, NothingWritten DEF IInv
<1> QED
    BY <1>1, <1>2, <1>3, <1>4 DEF IInv, Keeps

LEMMA SetStatusKeeps == ASSUME IInv, NEW r \in Requests, SetStatus(r) PROVE Keeps
<1>1. exam \in Exam /\ local[r].status \in ExamStatus
    BY DEF IInv, TypeOK, IsLocal
<1>2. PICK to, flag : /\ to = local[r].status
                      /\ flag = (to \in {"PUBLISHED", "STARTED", "COMPLETED"})
    OBVIOUS
<1>3. exam' \in Exam
    <2>1. exam' = [exam EXCEPT !.status = to, !.is_published = flag]
        BY <1>2 DEF SetStatus
    <2>2. PICK x : x = [exam EXCEPT !.status = to]
        OBVIOUS
    <2>3. exam' = [x EXCEPT !.is_published = flag]
        BY <2>1, <2>2
    <2>4. x \in Exam
        BY <1>1, <1>2, <2>2 DEF Exam
    <2>5. flag \in BOOLEAN
        BY <1>2
    <2> QED
        BY <2>3, <2>4, <2>5 DEF Exam
<1> QED
    BY <1>3, ExamWritten DEF SetStatus

LEMMA PublishExamKeeps == ASSUME IInv, NEW r \in Requests, PublishExam(r) PROVE Keeps
<1>1. exam' \in Exam
    BY DEF IInv, TypeOK, Exam, PublishExam
<1> QED
    BY <1>1, ExamWritten DEF PublishExam

LEMMA RestoreExamKeeps == ASSUME IInv, NEW r \in Requests, RestoreExam(r) PROVE Keeps
<1>1. exam' \in Exam
    BY DEF IInv, TypeOK, Exam, RestoreExam
<1> QED
    BY <1>1, ExamWritten DEF RestoreExam

LEMMA DeleteExamKeeps == ASSUME IInv, NEW r \in Requests, DeleteExam(r) PROVE Keeps
<1> DEFINE d == [kind |-> "EXAM_DELETED", by |-> r, cells |-> {}, found |-> TRUE]
<1>1. /\ events' = events \cup {d} /\ d \in Event /\ d.cells = {} /\ d.kind = "EXAM_DELETED"
      /\ Finish(r) /\ pc[r] = "idle"
      /\ UNCHANGED <<rows, attendance, result, card, stray, remade, mixed, early>>
    BY DEF DeleteExam, Event
<1> HIDE DEF d
<1>2. exam' \in Exam
    BY DEF IInv, TypeOK, Exam, DeleteExam
<1>3. /\ pc' \in [Requests -> Steps] /\ DOMAIN local' = Requests
      /\ \A q \in Requests : IsLocal(local'[q])
      /\ \A q \in Requests : HandlerInv(q)'
    BY <1>1, FinishKeeps
<1>4. TypeOK'
    <2>1. TypeOK
        BY DEF IInv
    <2> QED
        BY <1>1, <1>2, <1>3, <2>1 DEF TypeOK
<1>5. \A e \in events' : EventInv(e)'
    BY <1>1 DEF IInv, EventInv
<1>6. \A c : Awaiting(c)' <=> Awaiting(c)
    BY <1>1 DEF Awaiting
<1>7. ResultsInv'
    <2>1. AttendedRows' /\ OneEventEach'
        BY <1>1 DEF IInv, ResultsInv, AttendedRows, OneEventEach
    <2>2. EventsAgree'
        BY <1>1 DEF IInv, ResultsInv, EventsAgree, Follows
    <2>3. ResultFollowsAttendance'
        BY <1>1, <1>6 DEF IInv, ResultsInv, ResultFollowsAttendance
    <2> QED
        BY <2>1, <2>2, <2>3 DEF ResultsInv
<1>8. CardsInv' /\ Stays
    BY <1>1, FinishKeepsCards, NothingWritten DEF IInv
<1> QED
    BY <1>3, <1>4, <1>5, <1>7, <1>8 DEF IInv, Keeps

\* Rows go, and their attendance and results with them.
LEMMA HardDeleteKeeps ==
    ASSUME IInv, NEW gone, HardDelete(gone), stray' = stray, events' \subseteq events,
           \A e \in events \ events' : e.cells = {}
    PROVE  /\ rows' \subseteq Rows
           /\ IsTable(attendance, Cells, Attendance)' /\ IsTable(result, Cells, Result)'
           /\ ResultsInv'
           /\ \A c \in DOMAIN result' : c \in DOMAIN result /\ result'[c] = result[c]
<1>1. /\ rows \subseteq Rows
      /\ IsTable(attendance, Cells, Attendance) /\ IsTable(result, Cells, Result)
    BY DEF IInv, TypeOK
<1>2. /\ rows' = rows \ gone
      /\ attendance' = Without(attendance, CellsOf(gone))
      /\ result' = Without(result, CellsOf(gone))
    BY DEF HardDelete
<1>3. /\ IsTable(attendance, Cells, Attendance)'
      /\ DOMAIN attendance' = DOMAIN attendance \ CellsOf(gone)
      /\ \A c \in DOMAIN attendance' : attendance'[c] = attendance[c]
    BY <1>1, <1>2 DEF IsTable, Without
<1>4. /\ IsTable(result, Cells, Result)'
      /\ DOMAIN result' = DOMAIN result \ CellsOf(gone)
      /\ \A c \in DOMAIN result' : result'[c] = result[c]
    BY <1>1, <1>2 DEF IsTable, Without
<1>5. \A c : Awaiting(c)' <=> Awaiting(c)
    BY DEF Awaiting
<1>6. AttendedRows'
    <2>1. \A c \in DOMAIN attendance : c \in Cells /\ c[2] \in rows
        BY <1>1 DEF IInv, ResultsInv, AttendedRows, IsTable
    <2> QED
        BY <1>2, <1>3, <2>1 DEF AttendedRows, CellsOf
<1>7. OneEventEach' /\ EventsAgree'
    BY <1>3 DEF IInv, ResultsInv, OneEventEach, EventsAgree, Follows
<1>8. ResultFollowsAttendance'
    <2>1. \A c \in DOMAIN attendance' : c \in Cells /\ c \notin CellsOf(gone)
        BY <1>1, <1>3 DEF IsTable
    <2> QED
        BY <1>3, <1>4, <1>5, <2>1 DEF IInv, ResultsInv, ResultFollowsAttendance
<1> QED
    BY <1>1, <1>2, <1>3, <1>4, <1>6, <1>7, <1>8 DEF ResultsInv

LEMMA RemoveRowKeeps ==
    ASSUME IInv, NEW r \in Requests, NEW row \in Rows, RemoveRow(r, row) PROVE Keeps
<1>1. /\ HardDelete({row}) /\ Finish(r) /\ pc[r] = "idle"
      /\ UNCHANGED <<exam, card, events, stray, remade, mixed, early>>
    BY DEF RemoveRow
<1>2. /\ rows' \subseteq Rows
      /\ IsTable(attendance, Cells, Attendance)' /\ IsTable(result, Cells, Result)'
      /\ ResultsInv'
      /\ \A c \in DOMAIN result' : c \in DOMAIN result /\ result'[c] = result[c]
    BY <1>1, HardDeleteKeeps
<1>3. /\ pc' \in [Requests -> Steps] /\ DOMAIN local' = Requests
      /\ \A q \in Requests : IsLocal(local'[q])
      /\ \A q \in Requests : HandlerInv(q)'
    BY <1>1, FinishKeeps
<1>4. TypeOK'
    <2>1. TypeOK
        BY DEF IInv
    <2> QED
        BY <1>1, <1>2, <1>3, <2>1 DEF TypeOK
<1>5. \A e \in events' : EventInv(e)'
    BY <1>1 DEF IInv, EventInv
<1>6. CardsInv'
    BY <1>1, FinishKeepsCards
<1>7. Stays
    <2>1. \A s \in DOMAIN card : [card[s] EXCEPT !.deleted = card[s].deleted] = card[s]
        BY CardTyped DEF Card, IInv
    <2> QED
        BY <1>1, <1>2, <2>1 DEF Stays
<1> QED
    BY <1>2, <1>3, <1>4, <1>5, <1>6, <1>7 DEF IInv, Keeps

-----------------------------------------------------------------------------
(* Attendance and its listeners.                                           *)

\* The two events of a sheet share no cell and leave none out.
LEMMA Emitted ==
    ASSUME NEW r \in Requests, NEW sheet, IsTable(sheet, Cells, Attendance)
    PROVE  /\ \A e \in emitResultSyncEvents(r, sheet) :
                 /\ e \in Event /\ e.by = r /\ e.kind # "EXAM_DELETED" /\ e.cells \subseteq DOMAIN sheet
                 /\ \A c \in e.cells :
                       e.kind = (IF sheet[c] = "ABSENT" THEN "ABSENT_MARKED" ELSE "PRESENT_MARKED")
           /\ \A e, f \in emitResultSyncEvents(r, sheet) : \A c : c \in e.cells /\ c \in f.cells => e = f
           /\ \A c \in DOMAIN sheet : \E e \in emitResultSyncEvents(r, sheet) : c \in e.cells
<1> DEFINE a == [kind |-> "ABSENT_MARKED", by |-> r, found |-> FALSE,
                 cells |-> {c \in DOMAIN sheet : sheet[c] = "ABSENT"}]
           p == [kind |-> "PRESENT_MARKED", by |-> r, found |-> FALSE,
                 cells |-> {c \in DOMAIN sheet : sheet[c] # "ABSENT"}]
<1>1. emitResultSyncEvents(r, sheet) = {e \in {a, p} : e.cells # {}}
    BY DEF emitResultSyncEvents
<1>2. DOMAIN sheet \subseteq Cells
    BY DEF IsTable
<1>3. /\ a \in Event /\ a.by = r /\ a.kind = "ABSENT_MARKED"
      /\ \A c : c \in a.cells <=> c \in DOMAIN sheet /\ sheet[c] = "ABSENT"
    BY <1>2 DEF Event
<1>4. /\ p \in Event /\ p.by = r /\ p.kind = "PRESENT_MARKED"
      /\ \A c : c \in p.cells <=> c \in DOMAIN sheet /\ sheet[c] # "ABSENT"
    BY <1>2 DEF Event
<1> HIDE DEF a, p
<1> QED
    BY <1>1, <1>3, <1>4

LEMMA SaveAttendanceKeeps == ASSUME IInv, NEW r \in Requests, SaveAttendance(r) PROVE Keeps
<1> DEFINE sheet == local[r].sheet
           emitted == emitResultSyncEvents(r, sheet)
<1>0. TypeOK /\ ResultsInv /\ r \in early
    <2>1. HandlerInv(r) /\ pc[r] = "attend"
        BY DEF IInv, SaveAttendance
    <2> QED
        BY <2>1 DEF IInv, HandlerInv
<1>1. IsTable(sheet, Cells, Attendance) /\ IsTable(attendance, Cells, Attendance)
    BY <1>0 DEF TypeOK, IsLocal
<1>2. /\ pc[r] = "attend" /\ Finish(r)
      /\ UNCHANGED <<exam, rows, result, card, remade, mixed, early>>
      /\ \/ /\ \A c \in DOMAIN sheet : c[2] \in rows
            /\ attendance' = Upsert(attendance, sheet)
            /\ events' = events \cup emitted
            /\ stray' = (stray \ DOMAIN sheet) \cup {c \in DOMAIN sheet : Awaiting(c)}
         \/ UNCHANGED <<attendance, events, stray>>
    BY DEF SaveAttendance
<1>3. /\ pc' \in [Requests -> Steps] /\ DOMAIN local' = Requests
      /\ \A q \in Requests : IsLocal(local'[q])
      /\ \A q \in Requests : HandlerInv(q)'
    BY <1>2, FinishKeeps
<1>4. CardsInv' /\ ~Settled
    BY <1>2, FinishKeepsCards, Unsettled
<1>5. CASE UNCHANGED <<attendance, events, stray>>
    <2>1. TypeOK'
        BY <1>0, <1>2, <1>3, <1>5 DEF TypeOK
    <2>2. ResultsInv' /\ \A e \in events' : EventInv(e)'
        BY <1>2, <1>5, ResultsKeep DEF IInv, EventInv
    <2> QED
        BY <1>3, <1>4, <2>1, <2>2 DEF IInv, Keeps
<1>6. CASE /\ \A c \in DOMAIN sheet : c[2] \in rows
           /\ attendance' = Upsert(attendance, sheet)
           /\ events' = events \cup emitted
           /\ stray' = (stray \ DOMAIN sheet) \cup {c \in DOMAIN sheet : Awaiting(c)}
    <2>1. /\ IsTable(attendance', Cells, Attendance)
          /\ DOMAIN attendance' = DOMAIN attendance \cup DOMAIN sheet
          /\ \A c \in DOMAIN sheet : attendance'[c] = sheet[c]
          /\ \A c \in DOMAIN attendance \ DOMAIN sheet : attendance'[c] = attendance[c]
        BY <1>1, <1>6, Upserted
    <2>2. /\ \A e \in emitted :
                /\ e \in Event /\ e.by = r /\ e.kind # "EXAM_DELETED"
                /\ e.cells \subseteq DOMAIN sheet
                /\ \A c \in e.cells :
                      e.kind = (IF sheet[c] = "ABSENT" THEN "ABSENT_MARKED" ELSE "PRESENT_MARKED")
          /\ \A e, f \in emitted : \A c : c \in e.cells /\ c \in f.cells => e = f
          /\ \A c \in DOMAIN sheet : \E e \in emitted : c \in e.cells
        BY <1>1, Emitted
    <2>3. DOMAIN sheet \subseteq Cells
        BY <1>1 DEF IsTable
    <2> HIDE DEF sheet, emitted
    <2>4. TypeOK'
        <3>1. events' \subseteq Event /\ stray' \subseteq Cells
            BY <1>0, <1>6, <2>2, <2>3 DEF TypeOK
        <3> QED
            BY <1>0, <1>2, <1>3, <2>1, <3>1 DEF TypeOK, IsTable
    <2>5. \A e \in events' : EventInv(e)'
        BY <1>0, <1>2, <1>6, <2>2 DEF IInv, EventInv
    <2>6. AttendedRows'
        BY <1>0, <1>2, <1>6, <2>1 DEF ResultsInv, AttendedRows
    <2>7. ASSUME NEW c \in Cells \ stray', c \in DOMAIN sheet
          PROVE  \A e \in events' : c \in e.cells => e \in emitted
        BY <1>6, <2>7 DEF Awaiting
    <2>8. ASSUME NEW c \in Cells \ stray', c \notin DOMAIN sheet
          PROVE  /\ c \notin stray
                 /\ \A e \in events' : c \in e.cells => e \in events
        BY <1>6, <2>2, <2>8
    <2>9. OneEventEach'
        BY <1>0, <2>2, <2>7, <2>8 DEF ResultsInv, OneEventEach
    <2>10. EventsAgree'
        <3> SUFFICES ASSUME NEW e \in events', NEW c \in (e.cells \cap DOMAIN attendance') \ stray'
                     PROVE  Follows(e, c)'
            BY DEF EventsAgree
        <3>0. c \in Cells
            BY <2>1 DEF IsTable
        <3>1. CASE c \in DOMAIN sheet
            <4>1. e \in emitted
                BY <2>7, <3>0, <3>1
            <4> QED
                BY <2>1, <2>2, <3>1, <4>1 DEF Follows
        <3>2. CASE c \notin DOMAIN sheet
            <4>1. e \in events /\ c \notin stray /\ c \in DOMAIN attendance
                BY <2>1, <2>8, <3>0, <3>2
            <4>2. Follows(e, c) /\ attendance'[c] = attendance[c]
                BY <1>0, <2>1, <3>2, <4>1 DEF ResultsInv, EventsAgree
            <4> QED
                BY <4>2 DEF Follows
        <3> QED
            BY <3>1, <3>2
    <2>11. ResultFollowsAttendance'
        <3> SUFFICES ASSUME NEW c \in DOMAIN attendance' \ stray', ~Awaiting(c)'
                     PROVE  IF attendance'[c] = "ABSENT"
                            THEN c \in DOMAIN result' /\ result'[c].absent /\ result'[c].marks = NoMarks
                            ELSE c \in DOMAIN result' => ~result'[c].absent
            BY DEF ResultFollowsAttendance
        <3>0. c \in Cells
            BY <2>1 DEF IsTable
        <3>1. c \notin DOMAIN sheet
            BY <1>6, <2>2 DEF Awaiting
        <3>2. ~Awaiting(c) /\ c \in DOMAIN attendance \ stray /\ attendance'[c] = attendance[c]
            BY <1>6, <2>1, <2>8, <3>0, <3>1 DEF Awaiting
        <3> QED
            BY <1>0, <1>2, <3>2 DEF ResultsInv, ResultFollowsAttendance
    <2> QED
        BY <1>3, <1>4, <2>4, <2>5, <2>6, <2>9, <2>10, <2>11 DEF IInv, Keeps, ResultsInv
<1> QED
    BY <1>2, <1>5, <1>6

\* A listener changes no handler and no card.
LEMMA ListenerFrame ==
    ASSUME IInv, UNCHANGED <<card, pc, local, remade, mixed, early>>
    PROVE  CardsInv' /\ \A q \in Requests : HandlerInv(q)'
<1>1. CardsInv'
    BY CurrentThere, CardsKeep DEF IInv
<1>2. ASSUME NEW q \in Requests PROVE HandlerInv(q)'
    <2>1. HandlerInv(q)
        BY DEF IInv
    <2> QED
        BY <2>1 DEF HandlerInv
<1> QED
    BY <1>1, <1>2

\* Of the events that are left, none awaits a cell that none awaited before.
LEMMA FewerEvents ==
    ASSUME events' \subseteq events
    PROVE  /\ OneEventEach /\ stray \subseteq stray' => OneEventEach'
           /\ \A c : Awaiting(c)' => Awaiting(c)
    BY DEF OneEventEach, Awaiting

LEMMA FindSchedulesKeeps == ASSUME IInv, NEW e \in events, FindSchedules(e) PROVE Keeps
<1> DEFINE f == [e EXCEPT !.found = TRUE, !.cells = {c \in e.cells : c[2] \in rows}]
<1>0. TypeOK /\ ResultsInv /\ e \in Event
    BY DEF IInv, TypeOK
<1>1. /\ e.kind = "ABSENT_MARKED"
      /\ events' = (events \ {e}) \cup {g \in {f} : g.cells # {}}
      /\ UNCHANGED <<exam, rows, attendance, result, card, pc, local, stray, remade, mixed, early>>
    BY DEF FindSchedules, tables
<1>2. /\ f \in Event /\ f.kind = e.kind /\ f.by = e.by
      /\ f.cells = {c \in e.cells : c[2] \in rows}
    <2>1. PICK cells : cells = {c \in e.cells : c[2] \in rows}
        OBVIOUS
    <2>2. PICK g : g = [e EXCEPT !.found = TRUE]
        OBVIOUS
    <2>3. f = [g EXCEPT !.cells = cells]
        BY <2>1, <2>2
    <2>4. g \in Event /\ g.kind = e.kind /\ g.by = e.by
        BY <1>0, <2>2 DEF Event
    <2>5. cells \in SUBSET Cells
        BY <1>0, <2>1 DEF Event
    <2> HIDE DEF f
    <2> QED
        BY <2>1, <2>3, <2>4, <2>5 DEF Event
<1> HIDE DEF f
<1>3. TypeOK'
    <2>1. events' \subseteq Event
        BY <1>0, <1>1, <1>2 DEF TypeOK
    <2> QED
        BY <1>0, <1>1, <2>1 DEF TypeOK
<1>4. \A g \in events' : EventInv(g)'
    BY <1>1, <1>2 DEF IInv, EventInv
<1>5. AttendedRows'
    BY <1>0, <1>1 DEF ResultsInv, AttendedRows
<1>6. OneEventEach'
    <2> SUFFICES ASSUME NEW c \in Cells \ stray, NEW g \in events', NEW h \in events',
                        c \in g.cells, c \in h.cells
                 PROVE  g = h
        BY <1>1 DEF OneEventEach
    <2>1. \A x, y \in events : c \in x.cells /\ c \in y.cells => x = y
        BY <1>0 DEF ResultsInv, OneEventEach
    <2> QED
        BY <1>1, <1>2, <2>1
<1>7. EventsAgree'
    <2>1. \A g \in events : \A c \in (g.cells \cap DOMAIN attendance) \ stray : Follows(g, c)
        BY <1>0 DEF ResultsInv, EventsAgree
    <2> QED
        BY <1>1, <1>2, <2>1 DEF EventsAgree, Follows
<1>8. ResultFollowsAttendance'
    <2>1. ASSUME NEW c \in DOMAIN attendance, Awaiting(c) PROVE Awaiting(c)'
        <3>1. c[2] \in rows
            BY <1>0 DEF ResultsInv, AttendedRows
        <3>2. PICK g \in events : c \in g.cells
            BY <2>1 DEF Awaiting
        <3> QED
            BY <1>1, <1>2, <3>1, <3>2 DEF Awaiting
    <2> QED
        BY <1>0, <1>1, <2>1 DEF ResultsInv, ResultFollowsAttendance
<1>9. CardsInv' /\ (\A q \in Requests : HandlerInv(q)') /\ Stays
    BY <1>0, <1>1, ListenerFrame, NothingWritten
<1> QED
    BY <1>3, <1>4, <1>5, <1>6, <1>7, <1>8, <1>9 DEF IInv, ResultsInv, Keeps

\* What upsertBulk writes.
Marking == [marks : 0..MaxMarks \cup {NoMarks}, absent : BOOLEAN]

LEMMA UpsertedBulk ==
    ASSUME IsTable(result, Cells, Result), NEW entries, IsTable(entries, Cells, Marking),
           result' = upsertBulk(entries)
    PROVE  /\ IsTable(result', Cells, Result)
           /\ DOMAIN result' = DOMAIN result \cup DOMAIN entries
           /\ \A c \in DOMAIN entries : /\ result'[c].marks = entries[c].marks
                                        /\ result'[c].absent = entries[c].absent
           /\ \A c \in DOMAIN result \ DOMAIN entries : result'[c] = result[c]
<1> DEFINE new == [c \in DOMAIN entries |->
                     [marks |-> entries[c].marks, absent |-> entries[c].absent,
                      published |-> c \in DOMAIN result /\ result[c].published]]
<1>1. result' = Upsert(result, new)
    BY DEF upsertBulk
<1>2. ASSUME NEW c \in DOMAIN entries
      PROVE  /\ new[c] \in Result /\ c \in Cells
             /\ new[c].marks = entries[c].marks /\ new[c].absent = entries[c].absent
    <2>1. c \in Cells /\ entries[c] \in Marking
        BY DEF IsTable
    <2>2. c \in DOMAIN result => result[c] \in Result
        BY DEF IsTable
    <2>3. PICK b : b = (c \in DOMAIN result /\ result[c].published)
        OBVIOUS
    <2>4. b \in BOOLEAN
        BY <2>2, <2>3 DEF Result
    <2>5. new[c] = [marks |-> entries[c].marks, absent |-> entries[c].absent, published |-> b]
        BY <2>3
    <2> HIDE DEF new
    <2> QED
        BY <2>1, <2>4, <2>5 DEF Result, Marking
<1>3. DOMAIN new = DOMAIN entries
    OBVIOUS
<1>4. IsTable(new, Cells, Result)
    <2>1. new = [c \in DOMAIN entries |-> new[c]]
        OBVIOUS
    <2> HIDE DEF new
    <2> QED
        BY <1>2, <1>3, <2>1 DEF IsTable
<1> HIDE DEF new
<1>5. PICK given : given = new
    OBVIOUS
<1>6. IsTable(given, Cells, Result) /\ result' = Upsert(result, given)
    BY <1>1, <1>4, <1>5
<1>7. /\ IsTable(result', Cells, Result)
      /\ DOMAIN result' = DOMAIN result \cup DOMAIN given
      /\ \A c \in DOMAIN given : result'[c] = given[c]
      /\ \A c \in DOMAIN result \ DOMAIN given : result'[c] = result[c]
    BY <1>6, Upserted
<1> QED
    BY <1>2, <1>3, <1>5, <1>7

LEMMA HandleAbsentKeeps == ASSUME IInv, NEW e \in events, handleAbsentMarked(e) PROVE Keeps
<1> DEFINE entries == [c \in e.cells |-> [marks |-> NoMarks, absent |-> TRUE]]
<1>0. TypeOK /\ ResultsInv /\ e \in Event /\ EventInv(e)
    BY DEF IInv, TypeOK
<1>1. /\ e.kind = "ABSENT_MARKED" /\ result' = upsertBulk(entries) /\ events' = events \ {e}
      /\ UNCHANGED <<exam, rows, attendance, card, pc, local, stray, remade, mixed, early>>
    BY DEF handleAbsentMarked
<1>2. /\ DOMAIN entries = e.cells
      /\ \A c \in e.cells : entries[c] = [marks |-> NoMarks, absent |-> TRUE]
    OBVIOUS
<1>3. IsTable(entries, Cells, Marking)
    <2>1. e.cells \subseteq Cells
        BY <1>0 DEF Event
    <2> QED
        BY <2>1 DEF IsTable, Marking
<1> HIDE DEF entries
<1>4. /\ IsTable(result', Cells, Result)
      /\ DOMAIN result' = DOMAIN result \cup e.cells
      /\ \A c \in e.cells : result'[c].marks = NoMarks /\ result'[c].absent
      /\ \A c \in DOMAIN result \ e.cells : result'[c] = result[c]
    <2>1. PICK given : given = entries
        OBVIOUS
    <2>2. IsTable(given, Cells, Marking) /\ result' = upsertBulk(given)
        BY <1>1, <1>3, <2>1
    <2>3. IsTable(result, Cells, Result)
        BY <1>0 DEF TypeOK
    <2>4. /\ IsTable(result', Cells, Result)
          /\ DOMAIN result' = DOMAIN result \cup DOMAIN given
          /\ \A c \in DOMAIN given : /\ result'[c].marks = given[c].marks
                                     /\ result'[c].absent = given[c].absent
          /\ \A c \in DOMAIN result \ DOMAIN given : result'[c] = result[c]
        BY <2>2, <2>3, UpsertedBulk
    <2> QED
        BY <1>2, <2>1, <2>4
<1>5. TypeOK'
    BY <1>0, <1>1, <1>4 DEF TypeOK, IsTable
<1>6. \A g \in events' : EventInv(g)'
    BY <1>1 DEF IInv, EventInv
<1>7. AttendedRows' /\ OneEventEach' /\ EventsAgree'
    BY <1>0, <1>1, FewerEvents DEF ResultsInv, AttendedRows, EventsAgree, Follows
<1>8. ResultFollowsAttendance'
    <2> SUFFICES ASSUME NEW c \in DOMAIN attendance \ stray, ~Awaiting(c)'
                 PROVE  IF attendance[c] = "ABSENT"
                        THEN c \in DOMAIN result' /\ result'[c].absent /\ result'[c].marks = NoMarks
                        ELSE c \in DOMAIN result' => ~result'[c].absent
        BY <1>1 DEF ResultFollowsAttendance
    <2>1. CASE c \in e.cells
        <3>1. Follows(e, c)
            BY <1>0, <2>1 DEF ResultsInv, EventsAgree
        <3> QED
            BY <1>1, <1>4, <2>1, <3>1 DEF Follows
    <2>2. CASE c \notin e.cells
        <3>1. ~Awaiting(c)
            BY <1>1, <2>2 DEF Awaiting
        <3> QED
            BY <1>0, <1>4, <2>2, <3>1 DEF ResultsInv, ResultFollowsAttendance
    <2> QED
        BY <2>1, <2>2
<1>9. CardsInv' /\ (\A q \in Requests : HandlerInv(q)') /\ ~Settled
    BY <1>0, <1>1, ListenerFrame DEF EventInv, Settled
<1> QED
    BY <1>5, <1>6, <1>7, <1>8, <1>9 DEF IInv, ResultsInv, Keeps

LEMMA HandlePresentKeeps == ASSUME IInv, NEW e \in events, handlePresentMarked(e) PROVE Keeps
<1>0. TypeOK /\ ResultsInv /\ e \in Event /\ EventInv(e)
    BY DEF IInv, TypeOK
<1>1. /\ e.kind = "PRESENT_MARKED" /\ events' = events \ {e}
      /\ result' = [c \in DOMAIN result |->
                      IF c \in e.cells THEN [result[c] EXCEPT !.absent = FALSE] ELSE result[c]]
      /\ UNCHANGED <<exam, rows, attendance, card, pc, local, stray, remade, mixed, early>>
    BY DEF handlePresentMarked
<1>2. \A c \in DOMAIN result : c \in Cells /\ result[c] \in Result
    BY <1>0 DEF TypeOK, IsTable
<1>3. /\ DOMAIN result' = DOMAIN result
      /\ \A c \in DOMAIN result \cap e.cells : result'[c] \in Result /\ ~result'[c].absent
      /\ \A c \in DOMAIN result \ e.cells : result'[c] = result[c]
    BY <1>1, <1>2 DEF Result
<1>4. IsTable(result', Cells, Result)
    <2>1. result' = [c \in DOMAIN result |-> result'[c]]
        BY <1>1
    <2> QED
        BY <1>2, <1>3, <2>1 DEF IsTable
<1>5. TypeOK'
    BY <1>0, <1>1, <1>4 DEF TypeOK, IsTable
<1>6. \A g \in events' : EventInv(g)'
    BY <1>1 DEF IInv, EventInv
<1>7. AttendedRows' /\ OneEventEach' /\ EventsAgree'
    BY <1>0, <1>1, FewerEvents DEF ResultsInv, AttendedRows, EventsAgree, Follows
<1>8. ResultFollowsAttendance'
    <2> SUFFICES ASSUME NEW c \in DOMAIN attendance \ stray, ~Awaiting(c)'
                 PROVE  IF attendance[c] = "ABSENT"
                        THEN c \in DOMAIN result' /\ result'[c].absent /\ result'[c].marks = NoMarks
                        ELSE c \in DOMAIN result' => ~result'[c].absent
        BY <1>1 DEF ResultFollowsAttendance
    <2>1. CASE c \in e.cells
        <3>1. Follows(e, c)
            BY <1>0, <2>1 DEF ResultsInv, EventsAgree
        <3> QED
            BY <1>1, <1>3, <2>1, <3>1 DEF Follows
    <2>2. CASE c \notin e.cells
        <3>1. ~Awaiting(c)
            BY <1>1, <2>2 DEF Awaiting
        <3> QED
            BY <1>0, <1>3, <2>2, <3>1 DEF ResultsInv, ResultFollowsAttendance
    <2> QED
        BY <2>1, <2>2
<1>9. CardsInv' /\ (\A q \in Requests : HandlerInv(q)') /\ ~Settled
    BY <1>0, <1>1, ListenerFrame DEF EventInv, Settled
<1> QED
    BY <1>5, <1>6, <1>7, <1>8, <1>9 DEF IInv, ResultsInv, Keeps

LEMMA HandleDeletedKeeps == ASSUME IInv, NEW e \in events, handleExamDeleted(e) PROVE Keeps
<1>0. TypeOK /\ EventInv(e)
    BY DEF IInv
<1>1. /\ e.kind = "EXAM_DELETED" /\ HardDelete(rows) /\ events' = events \ {e}
      /\ UNCHANGED <<exam, card, pc, local, stray, remade, mixed, early>>
    BY DEF handleExamDeleted
<1>2. /\ rows' \subseteq Rows
      /\ IsTable(attendance, Cells, Attendance)' /\ IsTable(result, Cells, Result)'
      /\ ResultsInv'
      /\ \A c \in DOMAIN result' : c \in DOMAIN result /\ result'[c] = result[c]
    BY <1>0, <1>1, HardDeleteKeeps DEF EventInv
<1>3. TypeOK'
    BY <1>0, <1>1, <1>2 DEF TypeOK
<1>4. \A g \in events' : EventInv(g)'
    BY <1>1 DEF IInv, EventInv
<1>5. CardsInv' /\ \A q \in Requests : HandlerInv(q)'
    BY <1>1, ListenerFrame
<1>6. Stays
    <2>1. \A s \in DOMAIN card : [card[s] EXCEPT !.deleted = card[s].deleted] = card[s]
        BY <1>0, CardTyped DEF Card
    <2> QED
        BY <1>1, <1>2, <2>1 DEF Stays
<1> QED
    BY <1>2, <1>3, <1>4, <1>5, <1>6 DEF IInv, Keeps

\* The cells of a lost event are stray.
LEMMA ListenerFailsKeeps == ASSUME IInv, NEW e \in events, ListenerFails(e) PROVE Keeps
<1>0. TypeOK /\ ResultsInv /\ e \in Event
    BY DEF IInv, TypeOK
<1>1. /\ events' = events \ {e} /\ stray' = stray \cup e.cells
      /\ UNCHANGED <<exam, rows, attendance, result, card, pc, local, remade, mixed, early>>
    BY DEF ListenerFails, tables
<1>2. TypeOK'
    <2>1. stray' \subseteq Cells
        BY <1>0, <1>1 DEF TypeOK, Event
    <2> QED
        BY <1>0, <1>1, <2>1 DEF TypeOK
<1>3. \A g \in events' : EventInv(g)'
    BY <1>1 DEF IInv, EventInv
<1>4. AttendedRows' /\ OneEventEach' /\ EventsAgree'
    BY <1>0, <1>1, FewerEvents DEF ResultsInv, AttendedRows, EventsAgree, Follows
<1>5. ResultFollowsAttendance'
    <2>1. \A c : c \notin e.cells /\ ~Awaiting(c)' => ~Awaiting(c)
        BY <1>1 DEF Awaiting
    <2> QED
        BY <1>0, <1>1, <2>1 DEF ResultsInv, ResultFollowsAttendance
<1>6. CardsInv' /\ (\A q \in Requests : HandlerInv(q)') /\ Stays
    BY <1>0, <1>1, ListenerFrame, NothingWritten
<1> QED
    BY <1>2, <1>3, <1>4, <1>5, <1>6 DEF IInv, ResultsInv, Keeps

-----------------------------------------------------------------------------
(* Marks.                                                                  *)

LEMMA SaveMarksKeeps == ASSUME IInv, NEW r \in Requests, SaveMarks(r) PROVE Keeps
<1>0. TypeOK /\ ResultsInv
    BY DEF IInv
<1>1. PICK entries : entries = local[r].entries
    OBVIOUS
<1>2. IsTable(entries, Cells, Marking) /\ IsTable(result, Cells, Result)
    <2>1. IsTable(entries, Cells, Entry) /\ IsTable(result, Cells, Result)
        BY <1>0, <1>1 DEF TypeOK, IsLocal
    <2>2. Entry \subseteq Marking
        BY ExamAssumption DEF Marking
    <2> QED
        BY <2>1, <2>2 DEF IsTable
<1>3. /\ pc[r] = "marks" /\ Finish(r)
      /\ UNCHANGED <<exam, rows, attendance, card, events, remade, mixed, early>>
      /\ \/ /\ result' = upsertBulk(entries)
            /\ stray' = stray \cup {c \in DOMAIN entries : Overrides(c, entries[c])}
         \/ UNCHANGED <<result, stray>>
    BY <1>1 DEF SaveMarks
<1>4. /\ pc' \in [Requests -> Steps] /\ DOMAIN local' = Requests
      /\ \A q \in Requests : IsLocal(local'[q])
      /\ \A q \in Requests : HandlerInv(q)'
    BY <1>3, FinishKeeps
<1>5. CardsInv' /\ ~Settled /\ \A e \in events' : EventInv(e)'
    BY <1>3, FinishKeepsCards, Unsettled DEF IInv, EventInv
<1>6. CASE UNCHANGED <<result, stray>>
    <2>1. TypeOK'
        BY <1>0, <1>3, <1>4, <1>6 DEF TypeOK
    <2>2. ResultsInv'
        BY <1>0, <1>3, <1>6, ResultsKeep
    <2> QED
        BY <1>4, <1>5, <2>1, <2>2 DEF IInv, Keeps
<1>7. CASE /\ result' = upsertBulk(entries)
           /\ stray' = stray \cup {c \in DOMAIN entries : Overrides(c, entries[c])}
    <2>1. /\ IsTable(result', Cells, Result)
          /\ DOMAIN result' = DOMAIN result \cup DOMAIN entries
          /\ \A c \in DOMAIN entries : /\ result'[c].marks = entries[c].marks
                                       /\ result'[c].absent = entries[c].absent
          /\ \A c \in DOMAIN result \ DOMAIN entries : result'[c] = result[c]
        BY <1>2, <1>7, UpsertedBulk
    <2>2. DOMAIN entries \subseteq Cells
        BY <1>2 DEF IsTable
    <2>3. TypeOK'
        <3>1. stray' \subseteq Cells
            BY <1>0, <1>7, <2>2 DEF TypeOK
        <3> QED
            BY <1>0, <1>3, <1>4, <2>1, <3>1 DEF TypeOK, IsTable
    <2>4. \A c : Awaiting(c)' <=> Awaiting(c)
        BY <1>3 DEF Awaiting
    <2>5. AttendedRows' /\ OneEventEach'
        BY <1>0, <1>3, <1>7 DEF ResultsInv, AttendedRows, OneEventEach
    <2>6. EventsAgree'
        BY <1>0, <1>3, <1>7 DEF ResultsInv, EventsAgree, Follows
    <2>7. ResultFollowsAttendance'
        <3> SUFFICES ASSUME NEW c \in DOMAIN attendance \ stray', ~Awaiting(c)
                     PROVE  IF attendance[c] = "ABSENT"
                            THEN c \in DOMAIN result' /\ result'[c].absent /\ result'[c].marks = NoMarks
                            ELSE c \in DOMAIN result' => ~result'[c].absent
            BY <1>3, <2>4 DEF ResultFollowsAttendance
        <3>1. CASE c \in DOMAIN entries
            <4>1. ~Overrides(c, entries[c])
                BY <1>7, <3>1
            <4> QED
                BY <2>1, <3>1, <4>1 DEF Overrides
        <3>2. CASE c \notin DOMAIN entries
            BY <1>0, <1>7, <2>1, <3>2 DEF ResultsInv, ResultFollowsAttendance
        <3> QED
            BY <3>1, <3>2
    <2> QED
        BY <1>4, <1>5, <2>3, <2>5, <2>6, <2>7 DEF IInv, Keeps, ResultsInv
<1> QED
    BY <1>3, <1>6, <1>7

LEMMA SetResultsPublishedKeeps ==
    ASSUME IInv, NEW r \in Requests, SetResultsPublished(r) PROVE Keeps
<1>0. TypeOK /\ ResultsInv /\ local[r].flag \in BOOLEAN
    BY DEF IInv, TypeOK, IsLocal
<1>1. /\ pc[r] = "show" /\ Finish(r)
      /\ result' = [c \in DOMAIN result |-> [result[c] EXCEPT !.published = local[r].flag]]
      /\ UNCHANGED <<exam, rows, attendance, card, events, stray, remade, mixed, early>>
    BY DEF SetResultsPublished
<1>2. /\ pc' \in [Requests -> Steps] /\ DOMAIN local' = Requests
      /\ \A q \in Requests : IsLocal(local'[q])
      /\ \A q \in Requests : HandlerInv(q)'
    BY <1>1, FinishKeeps
<1>3. CardsInv' /\ ~Settled /\ \A e \in events' : EventInv(e)'
    BY <1>1, FinishKeepsCards, Unsettled DEF IInv, EventInv
<1>4. \A c \in DOMAIN result : c \in Cells /\ result[c] \in Result
    BY <1>0 DEF TypeOK, IsTable
<1>5. /\ DOMAIN result' = DOMAIN result
      /\ \A c \in DOMAIN result :
            /\ result'[c] \in Result
            /\ result'[c].marks = result[c].marks /\ result'[c].absent = result[c].absent
    BY <1>0, <1>1, <1>4 DEF Result
<1>6. TypeOK'
    <2>1. result' = [c \in DOMAIN result |-> result'[c]]
        BY <1>1
    <2>2. IsTable(result', Cells, Result)
        BY <1>4, <1>5, <2>1 DEF IsTable
    <2> QED
        BY <1>0, <1>1, <1>2, <2>2 DEF TypeOK, IsTable
<1>7. AttendedRows' /\ OneEventEach' /\ EventsAgree'
    BY <1>0, <1>1 DEF ResultsInv, AttendedRows, OneEventEach, EventsAgree, Follows
<1>8. ResultFollowsAttendance'
    <2>1. \A c : Awaiting(c)' <=> Awaiting(c)
        BY <1>1 DEF Awaiting
    <2> QED
        BY <1>0, <1>1, <1>5, <2>1 DEF ResultsInv, ResultFollowsAttendance
<1> QED
    BY <1>2, <1>3, <1>6, <1>7, <1>8 DEF IInv, Keeps, ResultsInv

-----------------------------------------------------------------------------
(* Report cards.                                                           *)

\* What is added up for a student.
Score(c) == IF result[c].absent \/ result[c].marks = NoMarks THEN 0 ELSE result[c].marks
ScoresOf(s) == {c \in DOMAIN result : c[1] = s}
ScoreSums(f, S) ==
    f = [t \in SUBSET S |-> IF t = {} THEN 0 ELSE Score(First(t)) + f[t \ {First(t)}]]

LEMMA ScoredTyped == ASSUME TypeOK, NEW s PROVE Scored(s) \in Nat
<1> DEFINE S == ScoresOf(s)
           F == [c \in S |-> Score(c)]
<1>1. IsFiniteSet(S)
    <2>1. S \subseteq Cells
        BY DEF TypeOK, IsTable, ScoresOf
    <2> QED
        BY <2>1, ExamAssumption, FS_Product, FS_Subset DEF Cells
<1>2. \A c \in S : F[c] \in Nat /\ F[c] = Score(c)
    <2>1. \A c \in S : result[c].marks \in 0..MaxMarks \cup {NoMarks}
        BY DEF TypeOK, IsTable, Result, ScoresOf
    <2> QED
        BY <2>1, ExamAssumption DEF Score, NoMarks
<1>3. Scored(s) = (CHOOSE f : ScoreSums(f, S))[S]
    BY DEF Scored, MapThenSumSet, MapThenFoldSet, ScoreSums, First, Score, ScoresOf
<1> HIDE DEF F, S
<1>4. \A t \in SUBSET S : t # {} => F[First(t)] = Score(First(t))
    BY <1>2 DEF First
<1>5. ASSUME NEW f PROVE ScoreSums(f, S) <=> Sums(F, f, S)
    <2>1. [t \in SUBSET S |-> IF t = {} THEN 0 ELSE Score(First(t)) + f[t \ {First(t)}]]
          = [t \in SUBSET S |-> IF t = {} THEN 0 ELSE F[First(t)] + f[t \ {First(t)}]]
        BY <1>4
    <2> QED
        BY <2>1 DEF ScoreSums, Sums
<1> DEFINE g == CHOOSE f : ScoreSums(f, S)
<1>6. ScoreSums(g, S)
    BY <1>1, <1>5, SumsExist
<1>7. Scored(s) = g[S]
    BY <1>3
<1> HIDE DEF g
<1>8. g[S] = SumOver(F, S)
    BY <1>1, <1>5, <1>6, SumOverSums
<1>9. SumOver(F, S) \in Nat
    BY <1>1, <1>2, SumOverTyped
<1> QED
    BY <1>7, <1>8, <1>9

LEMMA FindResultsKeeps == ASSUME IInv, NEW r \in Requests, FindResults(r) PROVE Keeps
<1>0. TypeOK /\ HandlerInv(r) /\ IsLocal(local[r]) /\ pc[r] = "results"
    BY DEF IInv, TypeOK, FindResults
<1>1. PICK students : students = local[r].students
    OBVIOUS
<1>2. PICK rank \in Rankings(students) :
          Goto(r, "cards", [local[r] EXCEPT !.figures =
              [s \in students |-> [by |-> r, marks |-> Scored(s), rank |-> rank[s]]]])
    BY <1>1 DEF FindResults
<1>3. UNCHANGED <<exam, rows, attendance, result, card, events, stray, remade, early, mixed>>
    BY DEF FindResults, tables
<1>4. PICK figures :
          figures = [s \in students |-> [by |-> r, marks |-> Scored(s), rank |-> rank[s]]]
    OBVIOUS
<1>5. IsTable(figures, Students, Figures)
    <2>1. students \subseteq Students
        BY <1>0, <1>1 DEF IsLocal
    <2>2. Cardinality(students) \in Nat
        BY <2>1, ExamAssumption, FS_Subset, FS_CardinalityType
    <2>3. \A s \in students : rank[s] \in Nat
        BY <2>2 DEF Rankings
    <2>4. \A s \in students : Scored(s) \in Nat
        BY <1>0, ScoredTyped
    <2>5. \A s \in students : figures[s] \in Figures
        BY <1>4, <2>3, <2>4 DEF Figures
    <2> QED
        BY <1>4, <2>1, <2>5 DEF IsTable
<1>6. PICK seen : seen = [local[r] EXCEPT !.figures = figures]
    OBVIOUS
<1>7. IsLocal(seen) /\ Goto(r, "cards", seen) /\ seen.students = students /\ seen.figures = figures
    <2>1. seen.students = students /\ seen.figures = figures
        <3>1. PICK l : l = local[r]
            OBVIOUS
        <3>2. l = [sheet |-> l.sheet, entries |-> l.entries, students |-> l.students,
                   current |-> l.current, figures |-> l.figures, flag |-> l.flag,
                   status |-> l.status]
            BY <1>0, <3>1 DEF IsLocal
        <3> QED
            BY <1>1, <1>6, <3>1, <3>2
    <2> QED
        BY <1>0, <1>2, <1>4, <1>5, <1>6, <2>1, LocalChanged
<1>8. /\ pc' \in [Requests -> Steps] /\ DOMAIN local' = Requests
      /\ \A q \in Requests : IsLocal(local'[q])
      /\ pc'[r] = "cards" /\ local'[r] = seen
      /\ \A q \in Requests \ {r} : pc'[q] = pc[q] /\ local'[q] = local[q]
    BY <1>0, <1>7, Gone DEF Steps
<1>9. TypeOK'
    BY <1>0, <1>3, <1>8 DEF TypeOK
<1>10. HandlerInv(r)'
    BY <1>0, <1>3, <1>4, <1>7, <1>8 DEF HandlerInv
<1>11. \A q \in Requests : HandlerInv(q)'
    BY <1>3, <1>8, <1>10, HandlersKeep
<1>12. ResultsInv' /\ \A e \in events' : EventInv(e)'
    BY <1>3, ResultsKeep DEF IInv, EventInv
<1>13. CardsInv' /\ Stays
    BY <1>0, <1>3, <1>7, NoCardStep, NothingWritten DEF Steps
<1> QED
    BY <1>9, <1>11, <1>12, <1>13 DEF IInv, Keeps

\* One student's part of the invariant about cards.
CardInv(s) ==
    s \notin mixed =>
        /\ \A r \in Drawing(s) : DrawnBy(r, s)
        /\ s \in DOMAIN card =>
              /\ card[s].status = "GENERATED" => card[s].pdf = card[s].figures
              /\ card[s].status # "GENERATED" => card[s].pdf = NoFigures
              /\ card[s].status = "PENDING" => s \in remade \/ Drawing(s) # {}

LEMMA CardByCard == ASSUME TypeOK PROVE CardsInv <=> \A s \in Students : CardInv(s)
<1>1. DOMAIN card \subseteq Students
    BY DEF TypeOK, IsTable
<1> QED
    BY <1>1 DEF CardsInv, CardsDrawn, CardAgreesWithPdf, CardInv

LEMMA CardByCardNext == ASSUME TypeOK', \A s \in Students : CardInv(s)' PROVE CardsInv'
<1>1. DOMAIN card' \subseteq Students
    BY DEF TypeOK, IsTable
<1> QED
    BY <1>1 DEF CardsInv, CardsDrawn, CardAgreesWithPdf, CardInv

LEMMA OtherCardKeeps ==
    ASSUME IInv, NEW s \in Students, Drawing(s)' = Drawing(s), remade \subseteq remade',
           mixed \subseteq mixed', \A r \in Drawing(s) : local'[r] = local[r],
           s \in DOMAIN card' <=> s \in DOMAIN card,
           s \in DOMAIN card => /\ card'[s].id = card[s].id /\ card'[s].figures = card[s].figures
                                /\ card'[s].status = card[s].status /\ card'[s].pdf = card[s].pdf
    PROVE  CardInv(s)'
<1>1. CardInv(s)
    BY CardByCard DEF IInv
<1>2. \A r \in Drawing(s) : s \in DOMAIN card /\ FiguresOf(r, s)' = FiguresOf(r, s)
    BY CurrentThere DEF Drawing, FiguresOf
<1> QED
    BY <1>1, <1>2 DEF CardInv, DrawnBy

LEMMA PlaceCardKeeps ==
    ASSUME IInv, NEW r \in Requests, NEW s \in Students, PlaceCard(r, s)
    PROVE  Keeps
<1>0. /\ TypeOK /\ HandlerInv(r) /\ IsLocal(local[r])
      /\ pc[r] = "cards" /\ s \in local[r].students
    BY DEF IInv, TypeOK, PlaceCard
<1>1. PICK new : new = upsertReportCard(r, s)
    OBVIOUS
<1>2. /\ card' = Upsert(card, [k \in {s} |-> new])
      /\ Goto(r, "pdf", [local[r] EXCEPT !.students = @ \ {s}, !.current = s])
      /\ remade' = IF s \in DOMAIN card THEN remade \cup {s} ELSE remade
      /\ mixed' = IF Drawing(s) # {} THEN mixed \cup {s} ELSE mixed
      /\ UNCHANGED <<exam, rows, attendance, result, events, stray, early>>
    BY <1>1 DEF PlaceCard
<1>3. PICK l, rest : l = local[r] /\ rest = l.students \ {s}
    OBVIOUS
<1>4. PICK seen : seen = [l EXCEPT !.students = rest, !.current = s]
    OBVIOUS
<1>5. /\ IsLocal(seen) /\ Goto(r, "pdf", seen)
      /\ seen.students = rest /\ seen.current = s /\ seen.figures = l.figures
    <2>1. IsLocal(l) /\ rest \in SUBSET Students
        BY <1>0, <1>3 DEF IsLocal
    <2>2. l = [sheet |-> l.sheet, entries |-> l.entries, students |-> l.students,
               current |-> l.current, figures |-> l.figures, flag |-> l.flag, status |-> l.status]
        BY <2>1 DEF IsLocal
    <2>3. PICK k : k = [l EXCEPT !.students = rest]
        OBVIOUS
    <2>4. seen = [k EXCEPT !.current = s]
        BY <1>4, <2>3
    <2>5. k = [sheet |-> l.sheet, entries |-> l.entries, students |-> rest,
               current |-> l.current, figures |-> l.figures, flag |-> l.flag, status |-> l.status]
        BY <2>2, <2>3
    <2>6. seen.students = rest /\ seen.current = s /\ seen.figures = l.figures
        BY <2>4, <2>5
    <2>7. IsLocal(seen)
        BY <1>4, <2>1, LocalChanged
    <2> QED
        BY <1>2, <1>3, <1>4, <2>6, <2>7
<1>6. /\ pc' \in [Requests -> Steps] /\ DOMAIN local' = Requests
      /\ \A q \in Requests : IsLocal(local'[q])
      /\ pc'[r] = "pdf" /\ local'[r] = seen
      /\ \A q \in Requests \ {r} : pc'[q] = pc[q] /\ local'[q] = local[q]
    BY <1>0, <1>5, Gone DEF Steps
<1>7. PICK figures : figures = l.figures[s]
    OBVIOUS
<1>8. /\ s \in DOMAIN l.figures /\ figures \in Figures
      /\ FiguresOf(r, s) = figures /\ FiguresOf(r, s)' = figures
    <2>1. s \in DOMAIN l.figures
        BY <1>0, <1>3 DEF HandlerInv
    <2>2. IsTable(l.figures, Students, Figures)
        BY <1>0, <1>3 DEF IsLocal
    <2> QED
        BY <1>3, <1>5, <1>6, <1>7, <2>1, <2>2 DEF FiguresOf, IsTable
<1>9. /\ new \in Card /\ new.figures = figures /\ new.status = "PENDING" /\ new.pdf = NoFigures
      /\ s \notin DOMAIN card => new.id = r
    <2>0. NoFigures \in Figures
        BY DEF NoFigures, Figures
    <2>1. CASE s \notin DOMAIN card
        BY <1>1, <1>8, <2>0, <2>1 DEF upsertReportCard, NewCard, Card
    <2>2. CASE s \in DOMAIN card
        <3>1. PICK c : c = card[s]
            OBVIOUS
        <3>2. c \in Card
            BY <1>0, <2>2, <3>1, CardTyped
        <3>3. new = [c EXCEPT !.figures = figures, !.status = "PENDING", !.pdf = NoFigures]
            BY <1>1, <1>8, <2>2, <3>1 DEF upsertReportCard
        <3>4. PICK d : d = [c EXCEPT !.figures = figures]
            OBVIOUS
        <3>5. PICK e : e = [d EXCEPT !.status = "PENDING"]
            OBVIOUS
        <3>6. new = [e EXCEPT !.pdf = NoFigures]
            BY <3>3, <3>4, <3>5
        <3>7. d \in Card /\ d.figures = figures
            BY <1>8, <3>2, <3>4 DEF Card
        <3>8. e \in Card /\ e.figures = figures /\ e.status = "PENDING"
            BY <3>5, <3>7 DEF Card
        <3> QED
            BY <2>0, <2>2, <3>6, <3>8 DEF Card
    <2> QED
        BY <2>1, <2>2
<1>10. /\ IsTable(card', Students, Card) /\ DOMAIN card' = DOMAIN card \cup {s} /\ card'[s] = new
       /\ \A t \in DOMAIN card \ {s} : card'[t] = card[t]
    <2>1. IsTable(card, Students, Card)
        BY <1>0 DEF TypeOK
    <2> QED
        BY <1>2, <1>9, <2>1 DEF IsTable, Upsert
<1>11. TypeOK'
    <2>1. remade' \subseteq Students /\ mixed' \subseteq Students
        BY <1>0, <1>2 DEF TypeOK
    <2> QED
        BY <1>0, <1>2, <1>6, <1>10, <2>1 DEF TypeOK, IsTable
<1>12. HandlerInv(r)'
    <2>1. r \in early /\ l.students \subseteq DOMAIN l.figures
        BY <1>0, <1>3 DEF HandlerInv
    <2> QED
        BY <1>2, <1>3, <1>5, <1>6, <1>8, <1>10, <2>1 DEF HandlerInv
<1>13. \A q \in Requests : HandlerInv(q)'
    BY <1>2, <1>6, <1>10, <1>12, HandlersKeep
<1>14. ResultsInv' /\ \A e \in events' : EventInv(e)'
    BY <1>2, ResultsKeep DEF IInv, EventInv
<1>15. r \notin Drawing(s) /\ Drawing(s)' = Drawing(s) \cup {r}
    BY <1>0, <1>5, <1>6 DEF Drawing
<1>16. CardInv(s)'
    <2> SUFFICES ASSUME s \notin mixed' PROVE CardInv(s)'
        BY DEF CardInv
    <2>1. Drawing(s) = {} /\ Drawing(s)' = {r}
        BY <1>2, <1>15
    <2>2. DrawnBy(r, s)'
        BY <1>2, <1>8, <1>9, <1>10, <2>1 DEF DrawnBy
    <2> QED
        BY <1>9, <1>10, <2>1, <2>2 DEF CardInv
<1>17. ASSUME NEW t \in Students, t # s PROVE CardInv(t)'
    <2>1. Drawing(t)' = Drawing(t) /\ r \notin Drawing(t)
        BY <1>0, <1>5, <1>6, <1>17 DEF Drawing
    <2>2. \A q \in Drawing(t) : local'[q] = local[q]
        BY <1>6, <2>1 DEF Drawing
    <2>3. t \in DOMAIN card' <=> t \in DOMAIN card
        BY <1>10, <1>17
    <2>4. t \in DOMAIN card => card'[t] = card[t]
        BY <1>10, <1>17
    <2> QED
        BY <1>2, <2>1, <2>2, <2>3, <2>4, OtherCardKeeps
<1>18. CardsInv'
    BY <1>11, <1>16, <1>17, CardByCardNext
<1>19. ~Settled
    BY <1>0, Unsettled
<1> QED
    BY <1>11, <1>13, <1>14, <1>18, <1>19 DEF IInv, Keeps

\* What updateReportCardPdf writes: the card of this run, or nothing.
LEMMA PdfRecorded ==
    ASSUME IInv, NEW r \in Requests, pc[r] = "pdf", NEW status \in {"GENERATED", "FAILED"},
           card' = updateReportCardPdf(r, status), NEW s, s = local[r].current
    PROVE  /\ IsTable(card', Students, Card) /\ DOMAIN card' = DOMAIN card
           /\ s \in DOMAIN card /\ card'[s].id = card[s].id /\ card'[s].figures = card[s].figures
           /\ card[s].id # r => card'[s] = card[s]
           /\ card[s].id = r =>
                 /\ card'[s].status = status
                 /\ card'[s].pdf = IF status = "GENERATED" THEN FiguresOf(r, s) ELSE NoFigures
           /\ \A t \in DOMAIN card \ {s} : card'[t] = card[t]
<1>0. /\ TypeOK /\ IsTable(card, Students, Card) /\ s \in DOMAIN card
      /\ s \in DOMAIN local[r].figures /\ IsLocal(local[r])
    BY CurrentThere DEF IInv, TypeOK
<1>1. PICK c : c = card[s]
    OBVIOUS
<1>2. c \in Card
    BY <1>0, <1>1, CardTyped
<1>3. PICK pdf : pdf = IF status = "GENERATED" THEN FiguresOf(r, s) ELSE NoFigures
    OBVIOUS
<1>4. pdf \in Figures
    <2>1. FiguresOf(r, s) \in Figures
        BY <1>0 DEF FiguresOf, IsLocal, IsTable
    <2>2. NoFigures \in Figures
        BY DEF NoFigures, Figures
    <2> QED
        BY <1>3, <2>1, <2>2
<1>5. PICK d : d = [c EXCEPT !.status = status]
    OBVIOUS
<1>6. PICK e : e = [d EXCEPT !.pdf = pdf]
    OBVIOUS
<1>7. card' = IF c.id # r THEN card ELSE [card EXCEPT ![s] = e]
    <2>1. e = [c EXCEPT !.status = status, !.pdf = pdf]
        BY <1>5, <1>6
    <2>2. card' = IF c.id # r THEN card
                  ELSE [card EXCEPT ![s] = [c EXCEPT !.status = status, !.pdf = pdf]]
        BY <1>0, <1>1, <1>3 DEF updateReportCardPdf
    <2> QED
        BY <2>1, <2>2
<1>8. /\ e \in Card /\ e.id = c.id /\ e.figures = c.figures
      /\ e.status = status /\ e.pdf = pdf
    <2>1. d \in Card /\ d.id = c.id /\ d.figures = c.figures /\ d.status = status
        BY <1>2, <1>5 DEF Card
    <2> QED
        BY <1>4, <1>6, <2>1 DEF Card
<1> QED
    BY <1>0, <1>1, <1>3, <1>7, <1>8 DEF IsTable

LEMMA RecordPdfKeeps == ASSUME IInv, NEW r \in Requests, RecordPdf(r) PROVE Keeps
<1>0. TypeOK /\ HandlerInv(r) /\ IsLocal(local[r]) /\ pc[r] = "pdf"
    BY DEF IInv, TypeOK, RecordPdf
<1>1. PICK s : s = local[r].current
    OBVIOUS
<1>2. PICK status \in {"GENERATED", "FAILED"} : card' = updateReportCardPdf(r, status)
    BY DEF RecordPdf
<1>3. PICK step, seen :
          /\ step \in {"done", "cards"}
          /\ Goto(r, step, seen) /\ IsLocal(seen)
          /\ step = "cards" =>
                seen.students = local[r].students /\ seen.figures = local[r].figures
    <2>1. CASE Finish(r)
        BY <2>1, NothingTyped DEF Finish
    <2>2. CASE ~Finish(r)
        <3>1. PICK l, seen : l = local[r] /\ seen = [l EXCEPT !.current = NoStudent]
            OBVIOUS
        <3>2. Goto(r, "cards", seen)
            BY <2>2, <3>1 DEF RecordPdf
        <3>3. IsLocal(seen)
            BY <1>0, <3>1, LocalChanged
        <3>4. seen.students = l.students /\ seen.figures = l.figures
            <4>1. l = [sheet |-> l.sheet, entries |-> l.entries, students |-> l.students,
                       current |-> l.current, figures |-> l.figures, flag |-> l.flag,
                       status |-> l.status]
                BY <1>0, <3>1 DEF IsLocal
            <4> QED
                BY <3>1, <4>1
        <3>5. seen.students = local[r].students /\ seen.figures = local[r].figures
            BY <3>1, <3>4
        <3> WITNESS "cards", seen
        <3> QED
            BY <3>2, <3>3, <3>5
    <2> QED
        BY <2>1, <2>2
<1>4. UNCHANGED <<exam, rows, attendance, result, events, stray, remade, mixed, early>>
    BY DEF RecordPdf
<1>5. /\ pc' \in [Requests -> Steps] /\ DOMAIN local' = Requests
      /\ \A q \in Requests : IsLocal(local'[q])
      /\ pc'[r] = step /\ local'[r] = seen
      /\ \A q \in Requests \ {r} : pc'[q] = pc[q] /\ local'[q] = local[q]
    BY <1>0, <1>3, Gone DEF Steps
<1>6. /\ IsTable(card', Students, Card) /\ DOMAIN card' = DOMAIN card
      /\ s \in DOMAIN card /\ card'[s].id = card[s].id /\ card'[s].figures = card[s].figures
      /\ card[s].id # r => card'[s] = card[s]
      /\ card[s].id = r =>
            /\ card'[s].status = status
            /\ card'[s].pdf = IF status = "GENERATED" THEN FiguresOf(r, s) ELSE NoFigures
      /\ \A t \in DOMAIN card \ {s} : card'[t] = card[t]
    BY <1>0, <1>1, <1>2, PdfRecorded
<1>7. TypeOK'
    BY <1>0, <1>4, <1>5, <1>6 DEF TypeOK, IsTable
<1>8. HandlerInv(r)'
    BY <1>0, <1>3, <1>4, <1>5 DEF HandlerInv
<1>9. \A q \in Requests : HandlerInv(q)'
    BY <1>4, <1>5, <1>6, <1>8, HandlersKeep
<1>10. ResultsInv' /\ \A e \in events' : EventInv(e)'
    BY <1>4, ResultsKeep DEF IInv, EventInv
<1>11. CardInv(s)'
    <2> SUFFICES ASSUME s \notin mixed PROVE CardInv(s)'
        BY <1>4 DEF CardInv
    <2>0. s \in Students
        BY <1>0, <1>6, CardTyped
    <2>1. r \in Drawing(s) /\ CardInv(s)
        BY <1>0, <1>1, <2>0, CardByCard DEF Drawing, IInv
    <2>2. DrawnBy(r, s)
        BY <2>1 DEF CardInv
    <2>3. Drawing(s)' = {}
        <3>1. \A q \in Requests : pc[q] = "pdf" /\ local[q].current = s => q = r
            BY <2>2 DEF DrawnBy, Drawing
        <3> QED
            BY <1>3, <1>5, <3>1 DEF Drawing
    <2>4. CASE card[s].id = r
        BY <1>6, <2>2, <2>3, <2>4 DEF CardInv, DrawnBy
    <2>5. CASE card[s].id # r
        BY <1>4, <1>6, <2>2, <2>3, <2>5 DEF CardInv, DrawnBy
    <2> QED
        BY <2>4, <2>5
<1>12. ASSUME NEW t \in Students, t # s PROVE CardInv(t)'
    <2>1. Drawing(t)' = Drawing(t) /\ r \notin Drawing(t)
        BY <1>1, <1>3, <1>5, <1>12 DEF Drawing
    <2>2. \A q \in Drawing(t) : local'[q] = local[q]
        BY <1>5, <2>1 DEF Drawing
    <2>3. t \in DOMAIN card => card'[t] = card[t]
        BY <1>6, <1>12
    <2> QED
        BY <1>4, <1>6, <2>1, <2>2, <2>3, OtherCardKeeps
<1>13. CardsInv'
    BY <1>7, <1>11, <1>12, CardByCardNext
<1>14. ~Settled
    BY <1>0, Unsettled
<1> QED
    BY <1>7, <1>9, <1>10, <1>13, <1>14 DEF IInv, Keeps

\* A handler ends that has written nothing of the cards but the flags.
LEMMA FlagsWritten ==
    ASSUME IInv, NEW r \in Requests, Finish(r), pc[r] # "pdf",
           UNCHANGED <<exam, rows, attendance, result, events, stray, remade, mixed, early>>,
           DOMAIN card' = DOMAIN card, card' = [s \in DOMAIN card |-> card'[s]],
           \A s \in DOMAIN card :
              /\ card'[s] \in Card
              /\ card'[s].id = card[s].id /\ card'[s].figures = card[s].figures
              /\ card'[s].status = card[s].status /\ card'[s].pdf = card[s].pdf
    PROVE  IInv'
<1>0. TypeOK
    BY DEF IInv
<1>1. /\ pc' \in [Requests -> Steps] /\ DOMAIN local' = Requests
      /\ \A q \in Requests : IsLocal(local'[q])
      /\ pc'[r] = "done"
      /\ \A q \in Requests \ {r} : pc'[q] = pc[q] /\ local'[q] = local[q]
    BY <1>0, Finished
<1>2. \A q \in Requests : HandlerInv(q)'
    BY FinishKeeps
<1>3. TypeOK'
    <2>1. IsTable(card', Students, Card)
        BY <1>0 DEF TypeOK, IsTable
    <2> QED
        BY <1>0, <1>1, <2>1 DEF TypeOK, IsTable
<1>4. ResultsInv' /\ \A e \in events' : EventInv(e)'
    BY ResultsKeep DEF IInv, EventInv
<1>5. CardsInv'
    <2>1. \A q \in Requests : pc'[q] = "pdf" <=> pc[q] = "pdf"
        BY <1>1
    <2>2. \A q \in Requests : pc[q] = "pdf" => local'[q] = local[q]
        BY <1>1
    <2> QED
        BY <1>0, <2>1, <2>2, CurrentThere, CardsKeep DEF IInv
<1> QED
    BY <1>2, <1>3, <1>4, <1>5 DEF IInv

LEMMA SetCardsPublishedKeeps ==
    ASSUME IInv, NEW r \in Requests, SetCardsPublished(r) PROVE Keeps
<1>1. /\ pc[r] = "showcards" /\ Finish(r)
      /\ card' = [s \in DOMAIN card |->
                    IF s \in local[r].students /\ ~card[s].deleted
                    THEN [card[s] EXCEPT !.published = local[r].flag] ELSE card[s]]
      /\ UNCHANGED <<exam, rows, attendance, result, events, stray, remade, mixed, early>>
    BY DEF SetCardsPublished
<1>2. local[r].flag \in BOOLEAN /\ \A s \in DOMAIN card : card[s] \in Card
    BY CardTyped DEF IInv, TypeOK, IsLocal
<1>3. \A s \in DOMAIN card :
         /\ card'[s] \in Card
         /\ card'[s].id = card[s].id /\ card'[s].figures = card[s].figures
         /\ card'[s].status = card[s].status /\ card'[s].pdf = card[s].pdf
    BY <1>1, <1>2 DEF Card
<1>4. DOMAIN card' = DOMAIN card /\ card' = [s \in DOMAIN card |-> card'[s]]
    BY <1>1
<1>5. IInv'
    BY <1>1, <1>3, <1>4, FlagsWritten
<1>6. ~Settled
    BY <1>1, Unsettled
<1> QED
    BY <1>5, <1>6 DEF Keeps

LEMMA SoftDeleteCardKeeps == ASSUME IInv, NEW r \in Requests, SoftDeleteCard(r) PROVE Keeps
<1>1. PICK s : s = local[r].current
    OBVIOUS
<1>2. /\ pc[r] = "delete" /\ Finish(r)
      /\ card' = [card EXCEPT ![s] = [card[s] EXCEPT !.deleted = TRUE]]
      /\ UNCHANGED <<exam, rows, attendance, result, events, stray, remade, mixed, early>>
    BY <1>1 DEF SoftDeleteCard
<1>3. s \in DOMAIN card /\ \A t \in DOMAIN card : card[t] \in Card
    BY <1>1, <1>2, CardTyped DEF IInv, HandlerInv
<1>4. \A t \in DOMAIN card : card'[t] = IF t = s THEN [card[s] EXCEPT !.deleted = TRUE] ELSE card[t]
    BY <1>2
<1>5. \A t \in DOMAIN card :
         /\ card'[t] \in Card
         /\ card'[t].id = card[t].id /\ card'[t].figures = card[t].figures
         /\ card'[t].status = card[t].status /\ card'[t].pdf = card[t].pdf
         /\ [card'[t] EXCEPT !.deleted = card[t].deleted] = card[t]
    <2> SUFFICES ASSUME NEW t \in DOMAIN card
                 PROVE  /\ card'[t] \in Card
                        /\ card'[t].id = card[t].id /\ card'[t].figures = card[t].figures
                        /\ card'[t].status = card[t].status /\ card'[t].pdf = card[t].pdf
                        /\ [card'[t] EXCEPT !.deleted = card[t].deleted] = card[t]
        OBVIOUS
    <2>1. PICK c, d : c = card[t] /\ d = card'[t]
        OBVIOUS
    <2>2. c \in Card /\ (d = [c EXCEPT !.deleted = TRUE] \/ d = c)
        BY <1>3, <1>4, <2>1
    <2>3. /\ d \in Card /\ d.id = c.id /\ d.figures = c.figures
          /\ d.status = c.status /\ d.pdf = c.pdf /\ d.published = c.published
        BY <2>2 DEF Card
    <2>4. [d EXCEPT !.deleted = c.deleted] = c
        BY <2>2, <2>3 DEF Card
    <2> QED
        BY <2>1, <2>3, <2>4
<1>6. DOMAIN card' = DOMAIN card /\ card' = [t \in DOMAIN card |-> card'[t]]
    BY <1>2
<1>7. IInv'
    BY <1>2, <1>5, <1>6, FlagsWritten
<1>8. Stays
    BY <1>2, <1>5, <1>6 DEF Stays
<1> QED
    BY <1>7, <1>8 DEF Keeps

-----------------------------------------------------------------------------
(* Failures.                                                               *)

LEMMA HandlerFailsKeeps == ASSUME IInv, NEW r \in Requests, HandlerFails(r) PROVE Keeps
<1>0. TypeOK
    BY DEF IInv
<1>1. /\ Finish(r) /\ mixed' = mixed \cup {s \in Students : r \in Drawing(s)}
      /\ UNCHANGED <<exam, rows, attendance, result, card, events, stray, remade, early>>
    BY DEF HandlerFails, tables
<1>2. /\ pc' \in [Requests -> Steps] /\ DOMAIN local' = Requests
      /\ \A q \in Requests : IsLocal(local'[q])
      /\ pc'[r] = "done"
      /\ \A q \in Requests \ {r} : pc'[q] = pc[q] /\ local'[q] = local[q]
    BY <1>0, <1>1, Finished
<1>3. \A q \in Requests : HandlerInv(q)'
    BY <1>1, FinishKeeps
<1>4. TypeOK'
    <2>1. mixed' \subseteq Students
        BY <1>0, <1>1 DEF TypeOK
    <2> QED
        BY <1>0, <1>1, <1>2, <2>1 DEF TypeOK
<1>5. ResultsInv' /\ Stays /\ \A e \in events' : EventInv(e)'
    BY <1>0, <1>1, ResultsKeep, NothingWritten DEF IInv, EventInv
<1>6. ASSUME NEW s \in Students PROVE CardInv(s)'
    <2>1. CASE r \in Drawing(s)
        BY <1>1, <2>1 DEF CardInv
    <2>2. CASE r \notin Drawing(s)
        <3>1. Drawing(s)' = Drawing(s)
            BY <1>2, <2>2 DEF Drawing
        <3>2. \A q \in Drawing(s) : local'[q] = local[q]
            BY <1>2, <2>2 DEF Drawing
        <3>3. mixed \subseteq mixed'
            BY <1>1
        <3> QED
            BY <1>1, <3>1, <3>2, <3>3, OtherCardKeeps
    <2> QED
        BY <2>1, <2>2
<1>7. CardsInv'
    BY <1>4, <1>6, CardByCardNext
<1> QED
    BY <1>3, <1>4, <1>5, <1>7 DEF IInv, Keeps

LEMMA RestartKeeps == ASSUME IInv, Restart PROVE Keeps
<1>0. TypeOK /\ ResultsInv
    BY DEF IInv
<1>1. /\ pc' = [r \in Requests |-> IF r \in Active THEN "done" ELSE pc[r]]
      /\ local' = [r \in Requests |-> Nothing] /\ events' = {}
      /\ stray' = stray \cup {c \in Cells : Awaiting(c)}
      /\ mixed' = mixed \cup {s \in Students : Drawing(s) # {}}
      /\ UNCHANGED <<exam, rows, attendance, result, card, remade, early>>
    BY DEF Restart, tables
<1>2. \A r \in Requests : pc'[r] \in {"idle", "done"}
    BY <1>1 DEF Active
<1>3. TypeOK'
    <2>1. pc' \in [Requests -> Steps]
        BY <1>1, <1>2 DEF Steps
    <2>2. DOMAIN local' = Requests /\ \A r \in Requests : IsLocal(local'[r])
        BY <1>1, NothingTyped
    <2>3. stray' \subseteq Cells /\ mixed' \subseteq Students /\ events' \subseteq Event
        BY <1>0, <1>1 DEF TypeOK
    <2> QED
        BY <1>0, <1>1, <2>1, <2>2, <2>3 DEF TypeOK
<1>4. \A r \in Requests : HandlerInv(r)'
    BY <1>2 DEF HandlerInv
<1>5. ResultsInv'
    <2>1. AttendedRows' /\ OneEventEach' /\ EventsAgree'
        BY <1>0, <1>1 DEF ResultsInv, AttendedRows, OneEventEach, EventsAgree
    <2>2. ASSUME NEW c \in DOMAIN attendance \ stray' PROVE c \notin stray /\ ~Awaiting(c)
        <3>1. c \in Cells
            BY <1>0 DEF TypeOK, IsTable
        <3> QED
            BY <1>1, <3>1
    <2>3. ResultFollowsAttendance'
        BY <1>0, <1>1, <2>2 DEF ResultsInv, ResultFollowsAttendance
    <2> QED
        BY <2>1, <2>3 DEF ResultsInv
<1>6. ASSUME NEW s \in Students PROVE CardInv(s)'
    <2>1. CASE Drawing(s) # {}
        BY <1>1, <2>1 DEF CardInv
    <2>2. CASE Drawing(s) = {}
        <3>1. Drawing(s)' = Drawing(s)
            BY <1>2, <2>2 DEF Drawing
        <3> QED
            BY <1>1, <2>2, <3>1, OtherCardKeeps
    <2> QED
        BY <2>1, <2>2
<1>7. CardsInv'
    BY <1>3, <1>6, CardByCardNext
<1>8. Stays /\ \A e \in events' : EventInv(e)'
    BY <1>0, <1>1, NothingWritten
<1> QED
    BY <1>3, <1>4, <1>5, <1>7, <1>8 DEF IInv, Keeps

-----------------------------------------------------------------------------
(* The specification.                                                      *)

LEMMA InitIInv == Init => IInv
<1> SUFFICES ASSUME Init PROVE IInv
    OBVIOUS
<1>1. /\ rows = Rows /\ attendance = << >> /\ result = << >> /\ card = << >>
      /\ pc = [r \in Requests |-> "idle"] /\ local = [r \in Requests |-> Nothing]
      /\ events = {} /\ stray = {} /\ remade = {} /\ early = {} /\ mixed = {}
      /\ exam \in [status : {"STARTED", "COMPLETED"}, is_published : {TRUE}, deleted : {FALSE}]
    BY DEF Init
<1>2. DOMAIN attendance = {} /\ DOMAIN result = {} /\ DOMAIN card = {}
    BY <1>1
<1>3. TypeOK
    <2>1. exam \in Exam
        BY <1>1 DEF Exam, ExamStatus
    <2>2. /\ IsTable(attendance, Cells, Attendance) /\ IsTable(result, Cells, Result)
          /\ IsTable(card, Students, Card)
        BY <1>1, EmptyTable
    <2>3. pc \in [Requests -> Steps]
        BY <1>1 DEF Steps
    <2>4. DOMAIN local = Requests /\ \A r \in Requests : IsLocal(local[r])
        BY <1>1, NothingTyped
    <2> QED
        BY <1>1, <2>1, <2>2, <2>3, <2>4 DEF TypeOK
<1>4. \A r \in Requests : HandlerInv(r)
    BY <1>1 DEF HandlerInv
<1>5. ResultsInv
    BY <1>1, <1>2
       DEF ResultsInv, AttendedRows, OneEventEach, EventsAgree, ResultFollowsAttendance
<1>6. CardsInv
    BY <1>1, <1>2 DEF CardsInv, CardsDrawn, CardAgreesWithPdf, Drawing
<1> QED
    BY <1>1, <1>3, <1>4, <1>5, <1>6 DEF IInv

LEMMA RequestKeeps ==
    ASSUME IInv, NEW r \in Requests,
           ExamHandler(r) \/ ResultHandler(r) \/ CardHandler(r) \/ HandlerFails(r)
    PROVE  Keeps
<1>1. CASE ExamHandler(r)
    BY <1>1, ChangeStatusKeeps, SetStatusKeeps, PublishExamKeeps, DeleteExamKeeps,
       RestoreExamKeeps, RemoveRowKeeps DEF ExamHandler
<1>2. CASE ResultHandler(r)
    BY <1>2, MarkAttendanceKeeps, EnterMarksKeeps, PublishResultsKeeps, SaveAttendanceKeeps,
       SaveMarksKeeps, SetResultsPublishedKeeps DEF ResultHandler
<1>3. CASE CardHandler(r)
    <2>1. {Students} \cup {{s} : s \in Students} \subseteq SUBSET Students
        OBVIOUS
    <2> QED
        BY <1>3, <2>1, GenerateReportCardsKeeps, PublishReportCardsKeeps, DeleteReportCardKeeps,
           PlaceCardKeeps, FindResultsKeeps, RecordPdfKeeps, SetCardsPublishedKeeps,
           SoftDeleteCardKeeps DEF CardHandler
<1>4. CASE HandlerFails(r)
    BY <1>4, HandlerFailsKeeps
<1> QED
    BY <1>1, <1>2, <1>3, <1>4

LEMMA NextKeeps == IInv /\ Next => Keeps
<1> SUFFICES ASSUME IInv, Next PROVE Keeps
    OBVIOUS
<1>1. CASE \E r \in Requests : \/ ExamHandler(r) \/ ResultHandler(r) \/ CardHandler(r)
                               \/ HandlerFails(r)
    BY <1>1, RequestKeeps
<1>2. CASE \E e \in events : Listener(e) \/ ListenerFails(e)
    BY <1>2, FindSchedulesKeeps, HandleAbsentKeeps, HandlePresentKeeps, HandleDeletedKeeps,
       ListenerFailsKeeps DEF Listener
<1>3. CASE Restart
    BY <1>3, RestartKeeps
<1> QED
    BY <1>1, <1>2, <1>3 DEF Next

LEMMA NextIInv == IInv /\ [Next]_vars => IInv'
<1> SUFFICES ASSUME IInv, [Next]_vars PROVE IInv'
    OBVIOUS
<1>1. CASE Next
    BY <1>1, NextKeeps DEF Keeps
<1>2. CASE UNCHANGED vars
    <2>1. /\ UNCHANGED <<exam, rows, attendance, result, card, pc, local, events, stray, remade>>
          /\ UNCHANGED <<early, mixed>>
        BY <1>2 DEF vars
    <2>2. TypeOK'
        BY <2>1 DEF IInv, TypeOK
    <2>3. CardsInv' /\ \A q \in Requests : HandlerInv(q)'
        BY <2>1, ListenerFrame
    <2>4. ResultsInv' /\ \A e \in events' : EventInv(e)'
        BY <2>1, ResultsKeep DEF IInv, EventInv
    <2> QED
        BY <2>2, <2>3, <2>4 DEF IInv
<1> QED
    BY <1>1, <1>2

LEMMA Invariant == Spec => []IInv
    BY InitIInv, NextIInv, PTL DEF Spec

\* Every table, request and event of the exam keeps its type.
THEOREM ResultsTyped == Spec => []TypeOK
<1>1. IInv => TypeOK
    BY DEF IInv
<1> QED
    BY <1>1, Invariant, PTL

\* exam-attendance.service.ts:80-85: whatever the order of the events, once none awaits a
\* cell its result follows its attendance, with the excuses that stray counts.
THEOREM ResultsFollow == Spec => []ResultFollowsAttendance
<1>1. IInv => ResultFollowsAttendance
    BY DEF IInv, ResultsInv
<1> QED
    BY <1>1, Invariant, PTL

\* A report card's PDF shows the card's own figures, and the card is not left PENDING, but
\* for the runs that met on it or were cut off between its two statements.
THEOREM CardsAgree == Spec => []CardAgreesWithPdf
<1>1. IInv => CardAgreesWithPdf
    BY DEF IInv, CardsInv
<1> QED
    BY <1>1, Invariant, PTL

\* Of a LOCKED exam no handler that begins then changes a result or a card's content.
THEOREM LockedStays == Spec => LockedIsFinal
<1> DEFINE Step == Settled => Stays
<1>1. IInv /\ [Next]_vars => [Step]_vars
    BY NextKeeps DEF Keeps
<1>2. LockedIsFinal <=> [][Step]_vars
    BY DEF LockedIsFinal, Settled, Stays
<1> QED
    BY <1>1, <1>2, Invariant, PTL DEF Spec

=============================================================================
