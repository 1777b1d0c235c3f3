--------------------------- MODULE StudentRecords ---------------------------
(***************************************************************************)
(* Students and their academic records: create, update and delete of       *)
(* students.service.ts, behind the guard that keeps frozen academic years  *)
(* from being written (frozen-academic-year.guard.ts).                     *)
(*                                                                         *)
(* A handler checks the numbers it was sent, draws the others, and writes  *)
(* afterwards.  The counters are advanced by one statement each, the roll  *)
(* number is the largest one read plus one, and no number is unique in the *)
(* database.  A student's new record is inserted after is_current of the   *)
(* old ones is cleared, in two statements.  Left out: the prefix of an     *)
(* admission number, registration numbers (checked as admission numbers    *)
(* are), numbers that are no numbers, a student's address, parents and      *)
(* documents, and a failure of the guard's own query, which lets pass.     *)
(***************************************************************************)
EXTENDS AcademicYears, Sequences, FiniteSetsExt

CONSTANTS
    Students,
    Classes,     \* a class with its section
    Typed,       \* admission and roll numbers a request may name
    MaxStarted   \* bound on how often Start happens

ASSUME StudentAssumption == Typed \subseteq Nat \ {0} /\ None \notin Nat /\ MaxStarted \in Nat

VARIABLES
    student,     \* table students
    record,      \* table student_academic_info, in the order of insertion
    counter,     \* row of school_student_counters
    startNumber, \* admission_start_number of school_settings
    started,     \* how often Start happened
    typed,       \* history: admission numbers that some request named
    rollsRaced,  \* history: places where a record came between a number's read and its write
    doubled,     \* history: students whose old records two handlers cleared at a time
    cutStudents, \* history: students whose handler failed between clearing and inserting
    late         \* history: years frozen while a handler was on its way to them

tables == <<student, record, counter, startNumber>>
history == <<typed, rollsRaced, doubled, cutStudents>>
vars == <<year, copy, everCurrent, yearsRaced, crossed, cutYears, pc, local,
          student, record, counter, startNumber, started,
          typed, rollsRaced, doubled, cutStudents, late>>

Place == Years \X Classes
StudentRow == [system : Nat, deleted : BOOLEAN]
Record == [student : Students, place : Place, roll : Nat, admission : Nat, current : BOOLEAN]
Number == Nat \cup {None}
StudentLocal == [student : Students, place : Place, admission : Number, roll : Number,
                 system : Nat, seen : SUBSET (Students \X Nat)]
StudentSteps == {"resolve", "admission", "roll", "system", "student", "clear", "insert"}

Init ==
    /\ YearInit
    /\ pc = [r \in Requests |-> "idle"]
    /\ local = [r \in Requests |-> None]
    /\ student = << >> /\ record = << >>
    /\ counter = [system |-> 0, admission |-> 0] /\ startNumber = 1
    /\ started = 0
    /\ typed = {} /\ rollsRaced = {} /\ doubled = {} /\ cutStudents = {} /\ late = {}

Enrolled == {s \in DOMAIN student : ~student[s].deleted}
Serving(s) == {r \in Requests : pc[r] \in StudentSteps /\ local[r].student = s}
\* What the clash checks and the largest roll number look at.
Live == {i \in DOMAIN record : record[i].current /\ record[i].student \in Enrolled}
InPlace(place) == {i \in Live : record[i].place = place}
Rivals(s, place) == {<<record[i].student, record[i].roll>> :
                        i \in {i \in InPlace(place) : record[i].student # s}}

-----------------------------------------------------------------------------
(* A request arrives.                                                      *)

Mutant_NoGuard(y) == TRUE
\* canActivate: a request that names a frozen year is turned down.
canActivate(y) == ~year[y].frozen

Arrive(r, s, place, admission, roll) ==
    /\ pc[r] = "idle" /\ place[1] \in DOMAIN year
    /\ canActivate(place[1])
    /\ typed' = typed \cup ({admission} \ {None})
    /\ Goto(r, "resolve", [student |-> s, place |-> place, admission |-> admission, roll |-> roll,
                           system |-> 0, seen |-> {}])
    /\ UNCHANGED <<tables, rollsRaced, doubled, cutStudents>>

CreateStudent(r, s, place, admission, roll) ==
    /\ s \notin DOMAIN student /\ Serving(s) = {}
    /\ Arrive(r, s, place, admission, roll)

UpdateStudent(r, s, place, admission, roll) ==
    /\ s \in Enrolled
    /\ Arrive(r, s, place, admission, roll)

DeleteStudent(r, s) ==
    /\ pc[r] = "idle" /\ s \in Enrolled
    /\ student' = [student EXCEPT ![s] = [@ EXCEPT !.deleted = TRUE]]
    /\ UNCHANGED <<pc, local, record, counter, startNumber, history>>

\* The school's settings.
SetStartNumber(n) ==
    /\ startNumber' = n
    /\ UNCHANGED <<pc, local, student, record, counter, history>>

-----------------------------------------------------------------------------
(* Numbers.                                                                *)

\* findAcademicNumberClash: what another student's current record holds.
AdmissionClash(s, n) == \E i \in Live : record[i].admission = n /\ record[i].student # s
RollClash(s, place, n) == n \in {p[2] : p \in Rivals(s, place)}

\* Where the handler goes when it has the numbers of l.
NextStep(l) ==
    IF l.admission = None THEN "admission"
    ELSE IF l.roll = None THEN "roll"
    ELSE IF l.student \in DOMAIN student THEN "clear" ELSE "system"

\* The current record lends its admission number, and its roll in the same class.
Lent(l, i) ==
    [l EXCEPT !.admission = IF @ = None THEN record[i].admission ELSE @,
              !.roll = IF @ = None /\ record[i].place = l.place THEN record[i].roll ELSE @]

\* own: the admission number that is the student's already.
NumbersClash(l, own) ==
    \/ l.roll # None /\ RollClash(l.student, l.place, l.roll)
    \/ l.admission # None /\ l.admission \notin own /\ AdmissionClash(l.student, l.admission)

WithNumbers(r, own, l) ==
    IF NumbersClash(local[r], own) THEN Finish(r)
    ELSE Goto(r, NextStep(l), [l EXCEPT !.seen = Rivals(l.student, l.place)])

\* resolveAcademicNumbers, up to the numbers it has to draw, with the current record, one of
\* them should there be two.
Resolve(r) ==
    LET held == {i \in DOMAIN record : record[i].student = local[r].student /\ record[i].current}
    IN  /\ pc[r] = "resolve"
        /\ \/ held = {} /\ WithNumbers(r, {}, local[r])
           \/ \E i \in held : WithNumbers(r, {record[i].admission}, Lent(local[r], i))
        /\ UNCHANGED <<tables, history>>

\* nextAdmissionSequence: one statement.
NextAdmission(last) == IF last + 1 < startNumber THEN startNumber ELSE last + 1

ReserveAdmission(r) ==
    LET n == NextAdmission(counter.admission)
        l == [local[r] EXCEPT !.admission = n]
    IN  /\ pc[r] = "admission"
        /\ counter' = [counter EXCEPT !.admission = n]
        /\ Goto(r, NextStep(l), l)
        /\ UNCHANGED <<student, record, startNumber, history>>

Mutant_Count(place) == Cardinality(InPlace(place)) + 1
\* nextRollNumber
nextRollNumber(place) == 1 + Max({0} \cup {record[i].roll : i \in InPlace(place)})

DrawRoll(r) ==
    LET l == [local[r] EXCEPT !.roll = nextRollNumber(local[r].place),
                              !.seen = Rivals(local[r].student, local[r].place)]
    IN  /\ pc[r] = "roll"
        /\ Goto(r, NextStep(l), l)
        /\ UNCHANGED <<tables, history>>

\* nextSystemNumber: one statement.
NextSystem(r) ==
    /\ pc[r] = "system"
    /\ counter' = [counter EXCEPT !.system = @ + 1]
    /\ Goto(r, "student", [local[r] EXCEPT !.system = counter.system + 1])
    /\ UNCHANGED <<student, record, startNumber, history>>

-----------------------------------------------------------------------------
(* Writing.                                                                *)

InsertStudent(r) ==
    LET l == local[r]
        row == [system |-> l.system, deleted |-> FALSE]
    IN  /\ pc[r] = "student"
        /\ student' = [s \in DOMAIN student \cup {l.student} |->
                          IF s = l.student THEN row ELSE student[s]]
        /\ Goto(r, "clear", l)
        /\ UNCHANGED <<record, counter, startNumber, history>>

Mutant_KeepOld(r) ==
    /\ pc[r] = "clear"
    /\ Goto(r, "insert", local[r])
    /\ UNCHANGED <<tables, history>>
\* The first statement of upsertAcademicInfo ...
ClearRecords(r) ==
    LET s == local[r].student
    IN  /\ pc[r] = "clear"
        /\ record' = [i \in DOMAIN record |->
                         IF record[i].student = s THEN [record[i] EXCEPT !.current = FALSE]
                         ELSE record[i]]
        /\ doubled' = IF \E q \in Serving(s) : pc[q] = "insert" THEN doubled \cup {s} ELSE doubled
        /\ Goto(r, "insert", local[r])
        /\ UNCHANGED <<student, counter, startNumber, typed, rollsRaced, cutStudents>>

\* ... and the second one.
InsertRecord(r) ==
    LET l == local[r]
        row == [student |-> l.student, place |-> l.place, roll |-> l.roll,
                admission |-> l.admission, current |-> TRUE]
    IN  /\ pc[r] = "insert"
        /\ record' = Append(record, row)
        /\ rollsRaced' = IF Rivals(l.student, l.place) \subseteq l.seen THEN rollsRaced
                         ELSE rollsRaced \cup {l.place}
        /\ Finish(r)
        /\ UNCHANGED <<student, counter, startNumber, typed, doubled, cutStudents>>

\* A statement fails, and the handler with it.
StudentHandlerFails(r) ==
    /\ pc[r] \in StudentSteps
    /\ cutStudents' = IF pc[r] \in {"clear", "insert"} THEN cutStudents \cup {local[r].student}
                      ELSE cutStudents
    /\ Finish(r)
    /\ UNCHANGED <<tables, typed, rollsRaced, doubled>>

-----------------------------------------------------------------------------
\* A student handler begins, or something happens to it.
StudentStart ==
    \/ \E r \in Requests : pc[r] = "idle" /\ \E s \in Students :
          \/ DeleteStudent(r, s)
          \/ \E place \in Place, admission \in Typed \cup {None}, roll \in Typed \cup {None} :
                \/ CreateStudent(r, s, place, admission, roll)
                \/ UpdateStudent(r, s, place, admission, roll)
    \/ \E r \in Requests : StudentHandlerFails(r)
    \/ \E n \in Typed : SetStartNumber(n)

StudentContinue(r) ==
    \/ Resolve(r) \/ ReserveAdmission(r) \/ DrawRoll(r) \/ NextSystem(r)
    \/ InsertStudent(r) \/ ClearRecords(r) \/ InsertRecord(r)

\* Years frozen by this step while a handler was on its way to them.
Frozen == {y \in DOMAIN year : year[y].frozen}
Overtaken == {y \in Years : \E r \in Requests : pc[r] \in StudentSteps /\ local[r].place[1] = y}
YearStep ==
    /\ late' = late \cup (Overtaken \cap (Frozen' \ Frozen))
    /\ UNCHANGED <<tables, history>>

\* At the bound the handlers come to an end.
Rest ==
    /\ started = MaxStarted /\ \A r \in Requests : pc[r] = "idle"
    /\ UNCHANGED vars

Next ==
    \/ Rest
    \/ started < MaxStarted /\ started' = started + 1
          /\ \/ StudentStart /\ UNCHANGED <<yearVars, late>>
             \/ (\E r \in Requests : YearStart(r) \/ YearHandlerFails(r)) /\ YearStep
    \/ UNCHANGED started
          /\ \/ (\E r \in Requests : StudentContinue(r)) /\ UNCHANGED <<yearVars, late>>
             \/ (\E r \in Requests : YearContinue(r)) /\ YearStep
             \/ (\E y \in Years : CopyGoes(y)) /\ YearStep

Spec == Init /\ [][Next]_vars

-----------------------------------------------------------------------------
(* Properties.                                                             *)

TypeOK ==
    /\ YearTypeOK
    /\ \A r \in Requests :
          \/ pc[r] = "idle" /\ local[r] = None
          \/ pc[r] \in YearSteps /\ local[r] \in YearLocal
          \/ pc[r] \in StudentSteps /\ local[r] \in StudentLocal
    /\ DOMAIN student \subseteq Students /\ student \in [DOMAIN student -> StudentRow]
    /\ record \in Seq(Record)
    /\ counter \in [system : Nat, admission : Nat] /\ startNumber \in Nat
    /\ started \in 0..MaxStarted
    /\ typed \subseteq Nat /\ rollsRaced \subseteq Place /\ late \subseteq Years
    /\ doubled \subseteq Students /\ cutStudents \subseteq Students

\* Two students differ in their system number; in their admission number, unless a request
\* named it; and in their roll number within a class, unless a record came between the
\* read of a number there and its write (students.repository.ts:58, 91 and 106).
NumbersApart ==
    /\ \A s, t \in DOMAIN student : s # t => student[s].system # student[t].system
    /\ \A i, j \in Live : record[i].student # record[j].student =>
          /\ record[i].admission # record[j].admission \/ record[i].admission \in typed
          /\ record[i].place = record[j].place /\ record[i].place \notin rollsRaced =>
                record[i].roll # record[j].roll

\* students.repository.ts:305: a student has no two current records unless two handlers
\* cleared the old ones before either inserted its own; and, once there was a record, has
\* one outside a handler, unless one failed between the two statements.
OneCurrentRecord ==
    \A s \in Students :
        LET now == {i \in DOMAIN record : record[i].student = s /\ record[i].current}
        IN  /\ s \notin doubled => Cardinality(now) <= 1
            /\ (\E i \in DOMAIN record : record[i].student = s)
                  /\ s \notin cutStudents /\ (\A r \in Serving(s) : pc[r] # "insert") => now # {}

\* frozen-academic-year.guard.ts:19: a frozen year takes no new record, unless it was
\* frozen while the handler was on its way.
FrozenYearTakesNone ==
    [][\A r \in Requests : pc[r] = "insert" /\ pc'[r] = "idle" /\ record' # record =>
          ~year[local[r].place[1]].frozen \/ local[r].place[1] \in late]_vars
=============================================================================
