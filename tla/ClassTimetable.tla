--------------------------- MODULE ClassTimetable ---------------------------
(***************************************************************************)
(* The weekly timetables of the classes in one academic year:              *)
(* timetable.service.ts and timetable.repository.ts.                       *)
(*                                                                         *)
(* A timetable is a row, the times of its periods and its entries, in      *)
(* three tables that a handler writes one after the other; an update       *)
(* deletes and inserts.  autoGenerate cuts the school day into as many     *)
(* periods as the class has subjects and gives a period to the subject's   *)
(* teacher unless that teacher is busy elsewhere; what is written by hand  *)
(* is compared with nothing.  Left out: the names and the completeness of  *)
(* a timetable, class teachers, and moves to another class or year.  The   *)
(* subjects and teachers of a class are those of class-subject-teacher,    *)
(* read through the cache: any that the class has or had.                  *)
(*                                                                         *)
(* The teachers are those that invigilate the exams of ExamSeating.        *)
(* Neither side reads the other's tables: no one looks for an invigilator  *)
(* in the lessons.  So a behaviour is about one side or the other.         *)
(***************************************************************************)
EXTENDS ExamSeating, Sequences, SequencesExt

CONSTANTS
    Plans,       \* ids of rows of timetables: 1, 2, ...
    Days,        \* the working days of a timing, as consecutive numbers from 0
    Mappings,    \* sequences of teachers, one for each subject of a class
    Timings,     \* what autoGenerate may be asked for: see Timing
    HandTimes,   \* sets of period times that a request may name
    HandEntries, \* sets of entries that a request may name
    MaxStarted   \* bound on how often StartLesson happens

VARIABLES
    plan,        \* table timetables: the rows that are not deleted
    times,       \* table timetable_period_times
    entries,     \* table timetable_entries: the entries with a teacher
    todo, sent,  \* what each request does next and what it has read or was sent
    started,     \* how often StartLesson happened
    used,        \* ids that were drawn
    made,        \* history: for each plan that was generated and not updated since, how it
                 \* was generated and beside which plans, without those updated since
    exams        \* whether this is about the exams or about the lessons

lessons == <<plan, times, entries>>
lessonVars == <<plan, times, entries, todo, sent, started, used, made>>

\* Minutes.  Lunch comes after so many periods; 0 is no lunch.
Timing == [start : Nat, end : Nat, lunchAfter : Nat, lunch : Nat]
PeriodTime == [plan : Plans, period : Nat, start : Int, end : Int, break : BOOLEAN]
Entry == [plan : Plans, day : Days, period : Nat, teacher : Teachers]
ASSUME LessonsAssumption ==
    /\ Plans \subseteq Nat /\ Days \subseteq Nat /\ MaxStarted \in Nat
    /\ Timings \subseteq Timing /\ Mappings \subseteq Seq(Teachers)
    /\ HandTimes \subseteq
          SUBSET [plan : {None}, period : Nat, start : Int, end : Int, break : BOOLEAN]
    /\ HandEntries \subseteq
          SUBSET [plan : {None}, day : Days, period : Nat, teacher : Teachers]

LessonSteps == {"busy", "row", "clearTimes", "times", "clearEntries", "entries"}
NothingSent == [plan |-> None, times |-> {}, entries |-> {}, timing |-> None,
                mapping |-> << >>, beside |-> {}]
Made == [timing : Timings, mapping : Mappings, beside : SUBSET Plans]

LessonsInit ==
    /\ plan = {} /\ times = {} /\ entries = {}
    /\ todo = [r \in Requests |-> << >>] /\ sent = [r \in Requests |-> NothingSent]
    /\ started = 0 /\ made = << >> /\ used = {}

\* The statements that are left to a request, the next one first.
Doing(r, step) == todo[r] # << >> /\ Head(todo[r]) = step
Begin(r, steps, seen) ==
    /\ todo[r] = << >>
    /\ todo' = [todo EXCEPT ![r] = steps]
    /\ sent' = [sent EXCEPT ![r] = seen]
NextStatement(r) ==
    /\ todo' = [todo EXCEPT ![r] = Tail(@)]
    /\ sent' = IF Len(todo[r]) = 1 THEN [sent EXCEPT ![r] = NothingSent] ELSE sent
\* Ids tell nothing, so the next one is drawn.
Draw(p) == p = Cardinality(used) + 1 /\ used' = used \cup {p}
On(p, rows) == {[x EXCEPT !.plan = p] : x \in rows}
Serving(p) == {r \in Requests : sent[r].plan = p}

-----------------------------------------------------------------------------
(* Generating.                                                             *)

\* Math.round of n / d, for n >= 0.
Round(n, d) == (2 * n + d) \div (2 * d)

Slot(period, start, end, break) ==
    [plan |-> None, period |-> period, start |-> start, end |-> end, break |-> break]

Mutant_NoRest(t, n) ==
    LET minutes == t.end - t.start - t.lunch
        Add(slots, i) ==
            LET cursor == IF slots = << >> THEN t.start ELSE Last(slots).end
                lunch == IF t.lunch > 0 /\ i = t.lunchAfter + 1
                         THEN <<Slot(Len(slots) + 1, cursor, cursor + t.lunch, TRUE)>> ELSE << >>
                from == cursor + (IF lunch = << >> THEN 0 ELSE t.lunch)
            IN  slots \o lunch
                \o <<Slot(Len(slots \o lunch) + 1, from, Round(n * from + minutes, n), FALSE)>>
    IN  FoldLeft(Add, << >>, [i \in 1..n |-> i])
\* buildPeriodSlots: each period ends at the rounded time, the last one with the day.
buildPeriodSlots(t, n) ==
    LET minutes == t.end - t.start - t.lunch
        Add(slots, i) ==
            LET cursor == IF slots = << >> THEN t.start ELSE Last(slots).end
                lunch == IF t.lunch > 0 /\ i = t.lunchAfter + 1
                         THEN <<Slot(Len(slots) + 1, cursor, cursor + t.lunch, TRUE)>> ELSE << >>
                from == cursor + (IF lunch = << >> THEN 0 ELSE t.lunch)
                to == IF i = n THEN t.end ELSE Round(n * from + minutes, n)
            IN  slots \o lunch \o <<Slot(Len(slots \o lunch) + 1, from, to, FALSE)>>
    IN  FoldLeft(Add, << >>, [i \in 1..n |-> i])

Busy == {x \in entries \X times : x[1].plan \in plan /\ x[1].plan = x[2].plan
                                  /\ x[1].period = x[2].period}
Mutant_SameStart(a, b) == a.start = b.start
Overlap(a, b) == a.start < b.end /\ a.end > b.start

\* The subjects take turns from day to day.  Who is busy at the time is left out.
Entries(slots, mapping) ==
    LET teaching == {s \in ToSet(slots) : ~s.break}
        slotIndex(s) == Cardinality({x \in teaching : x.period < s.period})
        Given(d, s) == [plan |-> None, day |-> d, period |-> s.period,
                        teacher |-> mapping[((d + slotIndex(s)) % Len(mapping)) + 1]]
        Clash(e, s) == \E x \in Busy : /\ x[1].teacher = e.teacher /\ x[1].day = e.day
                                       /\ Overlap(s, x[2])
        free == {y \in Days \X teaching : ~Clash(Given(y[1], y[2]), y[2])}
    IN  {Given(y[1], y[2]) : y \in free}

\* autoGenerate, up to the query for the busy teachers ...
GeneratePlan(r, p, t, mapping) ==
    /\ mapping # << >> /\ t.lunchAfter < Len(mapping)
    /\ t.end - t.start - t.lunch > 0
    /\ Draw(p)
    /\ Begin(r, <<"busy">>, [NothingSent EXCEPT !.plan = p, !.timing = t, !.mapping = mapping])
    /\ UNCHANGED <<lessons, made>>

\* What is empty is not inserted.
Writing(hand, rows) ==
    <<"row">> \o (IF hand = {} THEN << >> ELSE <<"times">>)
              \o (IF rows = {} THEN << >> ELSE <<"entries">>)

\* ... and what it makes of the answer.
FindBusy(r) ==
    LET l == sent[r]
        slots == buildPeriodSlots(l.timing, Len(l.mapping))
        rows == Entries(slots, l.mapping)
    IN  /\ Doing(r, "busy")
        /\ todo' = [todo EXCEPT ![r] = Writing(ToSet(slots), rows)]
        /\ sent' = [sent EXCEPT ![r] = [l EXCEPT !.times = ToSet(slots), !.entries = rows,
                                                  !.beside = {q \in plan : Serving(q) = {}}]]
        /\ UNCHANGED <<lessons, used, made>>

-----------------------------------------------------------------------------
(* Writing.                                                                *)

CreatePlan(r, p, hand, rows) ==
    /\ Draw(p)
    /\ Begin(r, Writing(hand, rows),
             [NothingSent EXCEPT !.plan = p, !.times = hand, !.entries = rows])
    /\ UNCHANGED <<lessons, made>>

\* update: what is None is not replaced.  What is empty is deleted, and nothing inserted.
\* From here on nothing is known of the timetable and of what was generated beside it.
UpdatePlan(r, p, hand, rows) ==
    LET Replacing(x, clear, insert) ==
            IF x = None THEN << >> ELSE IF x = {} THEN <<clear>> ELSE <<clear, insert>>
        Forget(x) == [x EXCEPT !.beside = @ \ {p}]
    IN  /\ p \in plan /\ todo[r] = << >> /\ {hand, rows} # {None}
        /\ todo' = [todo EXCEPT ![r] = Replacing(hand, "clearTimes", "times")
                                       \o Replacing(rows, "clearEntries", "entries")]
        /\ sent' = [q \in Requests |->
                        IF q # r THEN Forget(sent[q])
                        ELSE [NothingSent EXCEPT !.plan = p, !.times = hand, !.entries = rows]]
        /\ made' = [q \in DOMAIN made \ {p} |-> Forget(made[q])]
        /\ UNCHANGED <<lessons, used>>

\* create inserts the row; the timing is set if it is for autoGenerate.
InsertPlan(r) ==
    LET l == sent[r]
        how == [timing |-> l.timing, mapping |-> l.mapping, beside |-> l.beside]
    IN  /\ Doing(r, "row")
        /\ plan' = plan \cup {l.plan}
        /\ made' = IF l.timing = None THEN made
                   ELSE [q \in DOMAIN made \cup {l.plan} |-> IF q = l.plan THEN how ELSE made[q]]
        /\ NextStatement(r)
        /\ UNCHANGED <<times, entries, used>>

\* replacePeriodTimes and replaceEntries are two statements each.
ClearTimes(r) ==
    /\ Doing(r, "clearTimes")
    /\ times' = {x \in times : x.plan # sent[r].plan}
    /\ NextStatement(r) /\ UNCHANGED <<plan, entries, used, made>>

InsertTimes(r) ==
    /\ Doing(r, "times")
    /\ times' = times \cup On(sent[r].plan, sent[r].times)
    /\ NextStatement(r) /\ UNCHANGED <<plan, entries, used, made>>

ClearEntries(r) ==
    /\ Doing(r, "clearEntries")
    /\ entries' = {x \in entries : x.plan # sent[r].plan}
    /\ NextStatement(r) /\ UNCHANGED <<plan, times, used, made>>

InsertEntries(r) ==
    /\ Doing(r, "entries")
    /\ entries' = entries \cup On(sent[r].plan, sent[r].entries)
    /\ NextStatement(r) /\ UNCHANGED <<plan, times, used, made>>

\* remove: softDelete, the times and entries stay.
RemovePlan(r, p) ==
    /\ todo[r] = << >> /\ p \in plan
    /\ plan' = plan \ {p}
    /\ UNCHANGED <<times, entries, used, made, todo, sent>>

\* A statement fails, and the handler with it.
LessonFails(r) ==
    /\ todo[r] # << >>
    /\ todo' = [todo EXCEPT ![r] = << >>] /\ sent' = [sent EXCEPT ![r] = NothingSent]
    /\ UNCHANGED <<lessons, used, made>>

StartLesson ==
    \E r \in Requests :
        \/ \E p \in Plans :
              \/ \E t \in Timings, mapping \in Mappings : GeneratePlan(r, p, t, mapping)
              \/ \E hand \in HandTimes, rows \in HandEntries : CreatePlan(r, p, hand, rows)
              \/ \E hand \in HandTimes \cup {None}, rows \in HandEntries \cup {None} :
                    UpdatePlan(r, p, hand, rows)
              \/ RemovePlan(r, p)
        \/ LessonFails(r)

ContinueLesson(r) ==
    \/ FindBusy(r) \/ InsertPlan(r) \/ ClearTimes(r) \/ InsertTimes(r)
    \/ ClearEntries(r) \/ InsertEntries(r)

\* At the bound the handlers come to an end.
Rest ==
    /\ started = MaxStarted /\ \A r \in Requests : todo[r] = << >>
    /\ UNCHANGED lessonVars

LessonsNext ==
    \/ Rest
    \/ started < MaxStarted /\ StartLesson /\ started' = started + 1
    \/ (\E r \in Requests : ContinueLesson(r)) /\ UNCHANGED started

TimetablesInit == exams \in BOOLEAN /\ SeatingInit /\ LessonsInit
TimetablesNext ==
    /\ UNCHANGED exams
    /\ \/ exams /\ SeatingNext /\ UNCHANGED lessonVars
       \/ ~exams /\ LessonsNext /\ UNCHANGED <<vars, seating>>
TimetablesSpec == TimetablesInit /\ [][TimetablesNext]_<<exams, vars, seating, lessonVars>>

-----------------------------------------------------------------------------
(* Properties.                                                             *)

LessonsTypeOK ==
    /\ plan \subseteq used /\ used \subseteq Plans
    /\ times \subseteq PeriodTime /\ entries \subseteq Entry
    /\ \A r \in Requests : ToSet(todo[r]) \subseteq LessonSteps
    /\ DOMAIN made \subseteq used /\ made \in [DOMAIN made -> Made]
    /\ started \in 0..MaxStarted

TimetablesTypeOK == SeatingTypeOK /\ LessonsTypeOK

\* timetable.repository.ts:232: a teacher is not in two places at a time in a timetable that
\* was generated and in those that were there at the time, or twice in the generated one;
\* whatever is written by hand, removed or cut off, as long as neither of the two is updated.
\* Timetables that are generated at the same time, or written by hand later, may clash.
TeachersApart ==
    \A p \in plan \cap DOMAIN made : \A a, b \in Busy :
        (/\ a # b /\ a[1].plan = p /\ b[1].plan \in made[p].beside \cup {p}
         /\ a[1].teacher = b[1].teacher /\ a[1].day = b[1].day)
        => ~(a[2].start < b[2].end /\ a[2].end > b[2].start)

\* timetable.service.ts:283: once they are written, the periods of a generated timetable
\* follow one another from the start of the school day to its end, one for each subject and
\* lunch where it was asked for; all but the last have the same length, the rounded share.
DayIsFilled ==
    \A p \in DOMAIN made :
        LET rows == {x \in times : x.plan = p}
            t == made[p].timing
            n == Len(made[p].mapping)
            share == Round(t.end - t.start - t.lunch, n)
            teaching == {x \in rows : ~x.break}
        IN  rows # {} =>
            /\ Cardinality(teaching) = n /\ (rows # teaching <=> t.lunch > 0)
            /\ {x.period : x \in rows} = 1..Cardinality(rows)
            /\ \A x \in rows :
                  /\ x.start = IF x.period = 1 THEN t.start
                               ELSE (CHOOSE y \in rows : y.period = x.period - 1).end
                  /\ IF x.break THEN x.end = x.start + t.lunch /\ x.period = t.lunchAfter + 1
                     ELSE x.end = IF x.period = Cardinality(rows) THEN t.end
                                  ELSE x.start + share
=============================================================================
