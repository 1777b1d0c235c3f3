------------------------- MODULE StudentRecordsProofs -------------------------
(***************************************************************************)
(* For any number of years, students, classes and overlapping handlers:    *)
(* which years and numbers can meet, how many current years and records    *)
(* there are, and what a frozen year takes, as AcademicYears and           *)
(* StudentRecords state with their excuses.                                *)
(***************************************************************************)
EXTENDS StudentRecords, FiniteSetTheorems, TLAPS

-----------------------------------------------------------------------------
(* The strengthening.                                                      *)

Drawn == {"system", "student", "clear", "insert"}
Resolved == Drawn \cup {"admission", "roll"}

TypesInv ==
    /\ TypeOK
    /\ pc \in [Requests -> {"idle"} \cup YearSteps \cup StudentSteps]
    /\ local \in [Requests -> {None} \cup YearLocal \cup StudentLocal]
    /\ \A r \in Requests :
          /\ pc[r] = "insertYear" => local[r].sent = Dates
          /\ pc[r] \in Drawn \cup {"roll"} => local[r].admission \in Nat
          /\ pc[r] \in Drawn => local[r].roll \in Nat

\* The year that a handler inserts is new and its own, the one it changes is there, and the
\* dates it writes meet none that it has seen.
YearHandlersInv ==
    \A r \in Requests :
        /\ pc[r] = "insertYear" =>
              /\ local[r].year \notin DOMAIN year
              /\ \A q \in Requests :
                    pc[q] = "insertYear" /\ local[q].year = local[r].year => q = r
        /\ pc[r] \in {"updateYear", "clearCurrent", "setCurrent"} => local[r].year \in DOMAIN year
        /\ pc[r] \in {"insertYear", "updateYear"} /\ local[r].sent # {} =>
              \A p \in local[r].known : ~Meet(p[2], local[r].span)

YearsApart == ~yearsRaced => \A x, y \in DOMAIN year : x # y => ~Meet(year[x].span, year[y].span)

\* Between the statements of setCurrent no year is current, and one handler is there.
CurrentYearInv ==
    /\ ~crossed =>
          /\ \A x, y \in Current : x = y
          /\ \A r \in Requests : pc[r] = "setCurrent" =>
                Current = {} /\ \A q \in Requests : pc[q] = "setCurrent" => q = r
    /\ everCurrent /\ ~crossed /\ ~cutYears =>
          Current # {} \/ \E r \in Requests : pc[r] = "setCurrent"

YearsInv == YearHandlersInv /\ YearsApart /\ CurrentYearInv

\* A student who is being created has one handler, and no rows until the student is inserted.
ServingInv ==
    /\ \A r \in Requests : pc[r] \in StudentSteps =>
          /\ local[r].student \notin DOMAIN student =>
                \A q \in Serving(local[r].student) : q = r
          /\ pc[r] \in {"system", "student"} => local[r].student \notin DOMAIN student
          /\ pc[r] \in {"clear", "insert"} => local[r].student \in DOMAIN student
    /\ \A i \in DOMAIN record : record[i].student \in DOMAIN student

\* A handler on its way to a frozen year has been overtaken.
PlaceInv ==
    \A r \in Requests : pc[r] \in StudentSteps =>
        /\ local[r].place[1] \in DOMAIN year
        /\ year[local[r].place[1]].frozen => local[r].place[1] \in late

\* The system numbers given out, those about to be inserted included.
SystemInv ==
    /\ \A s \in DOMAIN student : student[s].system <= counter.system
    /\ \A s, t \in DOMAIN student : s # t => student[s].system # student[t].system
    /\ \A r \in Requests : pc[r] = "student" =>
          /\ local[r].system <= counter.system
          /\ \A s \in DOMAIN student : student[s].system # local[r].system
          /\ \A q \in Requests : pc[q] = "student" /\ local[q].system = local[r].system => q = r

\* A student has an admission number in a record, or a handler has it for the student.
Holds(s, n) ==
    \/ \E i \in DOMAIN record : record[i].student = s /\ record[i].admission = n
    \/ \E r \in Requests :
          pc[r] \in StudentSteps /\ local[r].student = s /\ local[r].admission = n

AdmissionInv ==
    \A n \in Nat : n \notin typed =>
        \A s, t \in Students : Holds(s, n) =>
            /\ n <= counter.admission
            /\ Holds(t, n) => s = t

Deleted(s) == s \in DOMAIN student /\ student[s].deleted

\* The roll number that a handler has is none that it has seen with another student.
RollInv ==
    /\ \A r \in Requests : pc[r] \in Resolved /\ local[r].roll # None =>
          \/ Deleted(local[r].student)
          \/ local[r].place \in rollsRaced
          \/ \A p \in local[r].seen : p[2] # local[r].roll
    /\ \A i, j \in Live :
          /\ record[i].student # record[j].student
          /\ record[i].place = record[j].place /\ record[i].place \notin rollsRaced
          => record[i].roll # record[j].roll

\* Between the statements of upsertAcademicInfo a student has no current record, and one
\* handler is there.
CurrentRecords(s) == {i \in DOMAIN record : record[i].student = s /\ record[i].current}
Inserting(s) == {r \in Serving(s) : pc[r] = "insert"}

CurrentRecordInv ==
    \A s \in Students :
        /\ s \notin doubled =>
              /\ \A i, j \in CurrentRecords(s) : i = j
              /\ \A r \in Inserting(s) : CurrentRecords(s) = {} /\ \A q \in Inserting(s) : q = r
        /\ (\E i \in DOMAIN record : record[i].student = s) /\ s \notin cutStudents =>
              CurrentRecords(s) # {} \/ Inserting(s) # {}

StudentsInv ==
    /\ ServingInv /\ PlaceInv /\ SystemInv /\ AdmissionInv /\ RollInv /\ CurrentRecordInv

IInv == TypesInv /\ YearsInv /\ StudentsInv

-----------------------------------------------------------------------------
(* Types.                                                                  *)

\* What Goto writes.
LEMMA Went ==
    ASSUME TypesInv, NEW r \in Requests, NEW step, NEW seen, Goto(r, step, seen)
    PROVE  /\ pc'[r] = step /\ local'[r] = seen
           /\ \A q \in Requests \ {r} : pc'[q] = pc[q] /\ local'[q] = local[q]
    BY DEF Goto, TypesInv

\* A request's step and its local keep their types.
HandlerTyped(step, l) ==
    /\ \/ step = "idle" /\ l = None
       \/ step \in YearSteps /\ l \in YearLocal
       \/ step \in StudentSteps /\ l \in StudentLocal
    /\ step = "insertYear" => l.sent = Dates
    /\ step \in Drawn \cup {"roll"} => l.admission \in Nat
    /\ step \in Drawn => l.roll \in Nat

LEMMA HandlersTyped ==
    TypesInv => \A r \in Requests : HandlerTyped(pc[r], local[r])
    BY DEF TypesInv, TypeOK, HandlerTyped

\* The types of the tables are enough, once the handler that went on has its own.
TablesTyped ==
    /\ YearTypeOK
    /\ DOMAIN student \subseteq Students /\ student \in [DOMAIN student -> StudentRow]
    /\ record \in Seq(Record)
    /\ counter \in [system : Nat, admission : Nat] /\ startNumber \in Nat
    /\ typed \subseteq Nat /\ rollsRaced \subseteq Place /\ late \subseteq Years
    /\ doubled \subseteq Students /\ cutStudents \subseteq Students

LEMMA GotoTyped ==
    ASSUME TypesInv, NEW r \in Requests, NEW step, NEW seen, Goto(r, step, seen),
           HandlerTyped(step, seen), TablesTyped', started' \in 0..MaxStarted
    PROVE  TypesInv'
<1>1. /\ pc' \in [Requests -> {"idle"} \cup YearSteps \cup StudentSteps]
      /\ local' \in [Requests -> {None} \cup YearLocal \cup StudentLocal]
    BY DEF Goto, TypesInv, HandlerTyped
<1>2. \A q \in Requests : HandlerTyped(pc'[q], local'[q])
    BY HandlersTyped, Went
<1> QED
    BY <1>1, <1>2 DEF TypesInv, TypeOK, TablesTyped, HandlerTyped

LEMMA SameTyped ==
    ASSUME TypesInv, UNCHANGED <<pc, local>>, TablesTyped', started' \in 0..MaxStarted
    PROVE  TypesInv'
    BY DEF TypesInv, TypeOK, TablesTyped

LEMMA Idle == HandlerTyped("idle", None)
    BY DEF HandlerTyped, Drawn

LEMMA Started ==
    ASSUME TypesInv, UNCHANGED started \/ (started < MaxStarted /\ started' = started + 1)
    PROVE  started' \in 0..MaxStarted
    BY StudentAssumption DEF TypesInv, TypeOK

LEMMA Tables == TypesInv => TablesTyped
    BY DEF TypesInv, TypeOK, TablesTyped

LEMMA OthersTyped == ASSUME TypesInv, NEW y PROVE Others(y) \subseteq Years \X Spans
    BY DEF Others, TypesInv, TypeOK, YearTypeOK, YearRow

\* What findById finds, what a PATCH makes of it, and what a write leaves in the cache.
LEMMA FoundTyped ==
    ASSUME YearTypeOK, NEW y \in DOMAIN year, NEW v \in FoundById(y)
    PROVE  v \in Copy /\ v.span \in Spans
<1>1. Row(y) \in Copy
    BY DEF YearTypeOK, YearRow, Row, Copy
<1>2. v \in Copy
    BY <1>1 DEF YearTypeOK, FoundById
<1> QED
    BY <1>2 DEF Copy

LEMMA MergedTyped ==
    ASSUME NEW v \in Spans, NEW w \in Spans, NEW sent
    PROVE  Merged(v, sent, w) \in Spans
    BY DEF Merged, Spans

LEMMA OutdatedTyped ==
    ASSUME YearTypeOK, NEW y \in DOMAIN year, Outdated(y), DOMAIN year' = DOMAIN year
    PROVE  DOMAIN copy' \subseteq DOMAIN year' /\ copy' \in [DOMAIN copy' -> Copy]
<1>1. Row(y) \in Copy
    BY DEF YearTypeOK, YearRow, Row, Copy
<1> QED
    BY <1>1 DEF YearTypeOK, Outdated

\* The years.
LEMMA YearTypes ==
    ASSUME TypesInv, YearHandlersInv, NEW r \in Requests,
           YearStart(r) \/ YearHandlerFails(r) \/ YearContinue(r),
           YearStep, started' \in 0..MaxStarted
    PROVE  TypesInv'
<1>late. late' \subseteq Years
    BY Tables DEF TablesTyped, YearStep, Overtaken
<1>tables. YearTypeOK' => TablesTyped'
    BY <1>late, Tables DEF TablesTyped, YearStep, tables, history
<1>l. HandlerTyped(pc[r], local[r])
    BY HandlersTyped
<1>old. YearTypeOK
    BY DEF TypesInv, TypeOK
<1>y. pc[r] \in YearSteps =>
         /\ local[r] \in YearLocal /\ local[r].year \in Years
         /\ local[r].span \in Spans /\ local[r].sent \in SUBSET Dates
    BY <1>l DEF HandlerTyped, YearSteps, StudentSteps, YearLocal
<1>there. pc[r] = "updateYear" => local[r].year \in DOMAIN year
    BY DEF YearHandlersInv
<1>seen. ASSUME NEW y \in Years, NEW span \in Spans, NEW sent \in SUBSET Dates,
                NEW current \in BOOLEAN, NEW step \in YearSteps,
                step = "insertYear" => sent = Dates
         PROVE  HandlerTyped(step, Seen(y, span, sent, current))
    <2>1. step \notin Drawn \cup {"roll"}
        BY DEF YearSteps, Drawn
    <2> QED
        BY <1>seen, <2>1, OthersTyped DEF HandlerTyped, Seen, YearLocal, YearSteps, Drawn
<1>1. ASSUME NEW y \in Years, NEW span \in Spans, NEW sent \in SUBSET Dates,
             NEW current \in BOOLEAN,
             \/ CreateYear(r, y, span, current)
             \/ UpdateYear(r, y, span, sent, current)
             \/ SetCurrentYear(r, y) /\ span = year[y].span
      PROVE  TypesInv'
    <2>1. UNCHANGED yearVars
        BY <1>1 DEF CreateYear, UpdateYear, SetCurrentYear
    <2>2. YearTypeOK'
        BY <2>1, <1>old DEF YearTypeOK, yearVars
    <2>3. \E step \in YearSteps, sp \in Spans, se \in SUBSET Dates, c \in BOOLEAN :
             Goto(r, step, Seen(y, sp, se, c)) /\ (step = "insertYear" => se = Dates)
        <3>1. CASE CreateYear(r, y, span, current)
            BY <3>1 DEF CreateYear, YearSteps
        <3>2. CASE UpdateYear(r, y, span, sent, current)
            <4>1. PICK existing \in FoundById(y) :
                     Goto(r, "updateYear", Seen(y, Merged(existing.span, sent, span), sent, current))
                BY <3>2 DEF UpdateYear
            <4>2. y \in DOMAIN year
                BY <3>2 DEF UpdateYear
            <4>3. existing.span \in Spans
                BY <1>old, <4>2, FoundTyped
            <4>4. Merged(existing.span, sent, span) \in Spans
                BY <4>3, MergedTyped
            <4> QED
                BY <4>1, <4>4 DEF YearSteps
        <3>3. CASE SetCurrentYear(r, y)
            <4>1. year[y].span \in Spans
                BY <3>3, <1>old DEF SetCurrentYear, YearTypeOK, YearRow
            <4>2. Goto(r, "clearCurrent", Seen(y, year[y].span, {}, TRUE))
                BY <3>3 DEF SetCurrentYear
            <4> QED
                BY <4>1, <4>2 DEF YearSteps
        <3> QED
            BY <1>1, <3>1, <3>2, <3>3
    <2> QED
        BY <2>2, <2>3, <1>seen, <1>tables, GotoTyped
<1>go. ASSUME YearTypeOK', pc[r] \in YearSteps,
              Finish(r) \/ \E step \in YearSteps \ {"insertYear"} : Goto(r, step, local[r])
       PROVE  TypesInv'
    <2>1. ASSUME NEW step \in YearSteps \ {"insertYear"} PROVE HandlerTyped(step, local[r])
        BY <1>go, <1>y DEF HandlerTyped, YearSteps, Drawn
    <2> QED
        BY <1>go, <2>1, <1>tables, GotoTyped, Idle DEF Finish
<1>2. CASE InsertYear(r)
    <2> DEFINE row == [span |-> local[r].span, current |-> FALSE, frozen |-> FALSE]
    <2>1. pc[r] = "insertYear" /\ pc[r] \in YearSteps
        BY <1>2 DEF InsertYear, YearSteps
    <2>2. row \in YearRow
        BY <1>y, <2>1 DEF YearRow
    <2>3. YearTypeOK'
        BY <1>2, <1>old, <1>y, <2>1, <2>2 DEF InsertYear, AfterWrite, YearTypeOK
    <2> QED
        BY <1>2, <2>1, <2>3, <1>go DEF InsertYear, AfterWrite, YearSteps
<1>3. CASE WriteYear(r)
    <2>1. pc[r] \in YearSteps
        BY <1>3 DEF WriteYear, YearSteps
    <2>2. YearTypeOK'
        <3>1. yearsRaced' \in BOOLEAN
            BY <1>3, Zenon DEF WriteYear, AfterWrite
        <3>2. PICK y, new : y = local[r].year /\ new = Merged(year[y].span, local[r].sent, local[r].span)
            OBVIOUS
        <3>3. year' = [year EXCEPT ![y] = [@ EXCEPT !.span = new]]
            BY <1>3, <3>2 DEF WriteYear
        <3>4. y \in DOMAIN year => new \in Spans
            BY <1>old, <1>y, <2>1, <3>2, MergedTyped DEF YearTypeOK, YearRow
        <3>5. DOMAIN year' = DOMAIN year /\ year' \in [DOMAIN year -> YearRow]
            BY <1>old, <3>3, <3>4 DEF YearTypeOK, YearRow
        <3>6. DOMAIN copy' \subseteq DOMAIN year' /\ copy' \in [DOMAIN copy' -> Copy]
            <4>1. CASE UNCHANGED copy
                BY <1>old, <3>5, <4>1 DEF YearTypeOK
            <4>2. CASE Outdated(y)
                BY <1>old, <1>there, <1>3, <3>2, <3>5, <4>2, OutdatedTyped DEF WriteYear
            <4> QED
                BY <1>3, <3>2, <4>1, <4>2 DEF WriteYear
        <3> QED
            BY <1>3, <1>old, <3>1, <3>5, <3>6 DEF WriteYear, AfterWrite, YearTypeOK
    <2> QED
        BY <1>3, <2>1, <2>2, <1>go DEF WriteYear, AfterWrite, YearSteps
<1>4. CASE ClearCurrent(r)
    <2>1. pc[r] \in YearSteps
        BY <1>4 DEF ClearCurrent, YearSteps
    <2>2. YearTypeOK'
        BY <1>4, <1>old DEF ClearCurrent, YearTypeOK, YearRow
    <2> QED
        BY <1>4, <2>1, <2>2, <1>go DEF ClearCurrent, YearSteps
<1>5. CASE SetCurrent(r)
    <2>1. pc[r] \in YearSteps
        BY <1>5 DEF SetCurrent, YearSteps
    <2>2. YearTypeOK'
        BY <1>5, <1>old DEF SetCurrent, YearTypeOK, YearRow
    <2> QED
        BY <1>5, <2>1, <2>2, <1>go DEF SetCurrent, YearSteps
<1>6. ASSUME NEW y \in Years, Freeze(r, y) \/ Unfreeze(r, y) PROVE TypesInv'
    <2>1. YearTypeOK'
        <3>1. /\ DOMAIN year' = DOMAIN year /\ y \in DOMAIN year /\ Outdated(y)
              /\ \E b \in BOOLEAN : year' = [year EXCEPT ![y] = [@ EXCEPT !.frozen = b]]
            BY <1>6 DEF Freeze, Unfreeze
        <3>3. year' \in [DOMAIN year -> YearRow]
            BY <1>old, <3>1 DEF YearTypeOK, YearRow
        <3>2. DOMAIN copy' \subseteq DOMAIN year' /\ copy' \in [DOMAIN copy' -> Copy]
            BY <1>old, <3>1, OutdatedTyped
        <3> QED
            BY <1>6, <1>old, <3>1, <3>2, <3>3 DEF Freeze, Unfreeze, YearTypeOK
    <2> QED
        <3>1. UNCHANGED <<pc, local>>
            BY <1>6 DEF Freeze, Unfreeze
        <3> QED
            BY <2>1, <3>1, <1>tables, SameTyped
<1>7. CASE YearHandlerFails(r)
    <2>1. YearTypeOK'
        BY <1>7, <1>old DEF YearHandlerFails, YearTypeOK
    <2>2. pc[r] \in YearSteps /\ Finish(r)
        BY <1>7 DEF YearHandlerFails
    <2> QED
        BY <2>1, <2>2, <1>go
<1> QED
    <2>1. ASSUME NEW y \in Years, SetCurrentYear(r, y) PROVE TypesInv'
        <3>1. year[y].span \in Spans
            BY <2>1, <1>old DEF SetCurrentYear, YearTypeOK, YearRow
        <3> QED
            BY <1>1, <2>1, <3>1
    <2>2. ASSUME NEW y \in Years, NEW span \in Spans, NEW c \in BOOLEAN,
                 CreateYear(r, y, span, c) \/ \E sent \in SUBSET Dates : UpdateYear(r, y, span, sent, c)
          PROVE  TypesInv'
        BY <1>1, <2>2
    <2>3. CASE YearStart(r)
        BY <1>6, <2>1, <2>2, <2>3 DEF YearStart
    <2> QED
        BY <1>2, <1>3, <1>4, <1>5, <1>7, <2>3 DEF YearContinue

\* The numbers.
LEMMA RecordTyped ==
    TypesInv => /\ Len(record) \in Nat /\ DOMAIN record = 1..Len(record)
                /\ \A i \in DOMAIN record :
                      /\ record[i] \in Record
                      /\ record[i].student \in Students /\ record[i].place \in Place
                      /\ record[i].roll \in Nat /\ record[i].admission \in Nat
                      /\ record[i].current \in BOOLEAN
<1> SUFFICES ASSUME TypesInv
             PROVE  /\ Len(record) \in Nat /\ DOMAIN record = 1..Len(record)
                    /\ \A i \in DOMAIN record : record[i] \in Record
    BY DEF Record
<1> QED
    BY DEF TypesInv, TypeOK

LEMMA RivalsTyped ==
    ASSUME TypesInv, NEW s, NEW place PROVE Rivals(s, place) \in SUBSET (Students \X Nat)
<1> SUFFICES ASSUME NEW p \in Rivals(s, place) PROVE p \in Students \X Nat
    OBVIOUS
<1>1. PICK i \in DOMAIN record : p = <<record[i].student, record[i].roll>>
    BY DEF Rivals, InPlace, Live
<1> QED
    BY <1>1, RecordTyped

\* The largest of some natural numbers, by the least set of them that has none.
LEMMA MaxExists ==
    ASSUME NEW S \in SUBSET Nat, IsFiniteSet(S), S # {}
    PROVE  Max(S) \in S /\ \A n \in S : Max(S) >= n
<1> DEFINE Largest(T, m) == m \in T /\ \A n \in T : m >= n
           T0 == {T \in SUBSET S : T # {} /\ ~\E m \in T : Largest(T, m)}
<1>1. \E m \in S : Largest(S, m)
    <2> SUFFICES ASSUME T0 # {} PROVE FALSE
        OBVIOUS
    <2>1. T0 \subseteq FiniteSubsetsOf(S)
        BY FS_FiniteSubsetsOfFinite
    <2>2. PICK T \in T0 : \A U \in T0 : <<U, T>> \notin StrictSubsetOrdering(S)
        BY <2>1, FS_StrictSubsetOrderingWellFounded, WFMin
    <2>3. PICK x \in T : TRUE
        OBVIOUS
    <2>4. T \ {x} \notin T0
        BY <2>2, <2>3 DEF StrictSubsetOrdering
    <2>5. CASE T = {x}
        BY <2>3, <2>5
    <2>6. CASE T \ {x} # {}
        <3>1. PICK m \in T \ {x} : Largest(T \ {x}, m)
            BY <2>4, <2>6
        <3>2. m \in Nat /\ x \in Nat
            BY <2>3
        <3>3. Largest(T, m) \/ Largest(T, x)
            BY <3>1, <3>2, <2>3
        <3> QED
            BY <3>1, <3>3, <2>3
    <2> QED
        BY <2>3, <2>5, <2>6
<1> QED
    BY <1>1 DEF Max

LEMMA RollsFinite ==
    ASSUME TypesInv, NEW place
    PROVE  /\ {record[i].roll : i \in InPlace(place)} \in SUBSET Nat
           /\ IsFiniteSet({0} \cup {record[i].roll : i \in InPlace(place)})
<1> DEFINE I == InPlace(place)
           Rolls == {record[i].roll : i \in I}
<1>1. I \subseteq 1..Len(record) /\ Len(record) \in Nat
    BY RecordTyped DEF InPlace, Live
<1>2. IsFiniteSet(1..Len(record))
    BY <1>1, FS_Interval
<1>3. IsFiniteSet(I)
    BY <1>1, <1>2, FS_Subset
<1>4. Rolls \in SUBSET Nat
    BY RecordTyped DEF InPlace, Live
<1>5. IsFiniteSet(Rolls)
    <2> DEFINE f == [i \in I |-> record[i].roll]
    <2> HIDE DEF I
    <2>1. f \in Surjection(I, Rolls)
        BY DEF Surjection
    <2> QED
        BY <1>3, <2>1, FS_Surjection
<1>6. IsFiniteSet({0})
    BY FS_Singleton
<1>7. IsFiniteSet({0} \cup Rolls)
    BY <1>5, <1>6, FS_Union
<1> QED
    BY <1>4, <1>7

\* The roll number drawn is none that a rival has.
LEMMA NextRoll ==
    ASSUME TypesInv, NEW place, NEW s
    PROVE  /\ nextRollNumber(place) \in Nat
           /\ \A p \in Rivals(s, place) : p[2] # nextRollNumber(place)
<1> DEFINE Rolls == {record[i].roll : i \in InPlace(place)}
<1>1. Rolls \in SUBSET Nat /\ IsFiniteSet({0} \cup Rolls)
    BY RollsFinite
<1>2. \A p \in Rivals(s, place) : p[2] \in Rolls
    BY DEF Rivals
<1>3. nextRollNumber(place) = 1 + Max({0} \cup Rolls)
    BY DEF nextRollNumber
<1> HIDE DEF Rolls
<1>4. {0} \cup Rolls \in SUBSET Nat /\ {0} \cup Rolls # {}
    BY <1>1
<1>5. Max({0} \cup Rolls) \in Nat /\ \A n \in Rolls : Max({0} \cup Rolls) >= n
    BY <1>1, <1>4, MaxExists
<1> DEFINE m == Max({0} \cup Rolls)
<1> HIDE DEF m
<1>6. m \in Nat /\ (\A n \in Rolls : n \in Nat /\ m >= n) /\ nextRollNumber(place) = 1 + m
    BY <1>1, <1>3, <1>5 DEF m
<1> QED
    BY <1>2, <1>6

\* The handlers of students.
LEMMA HandlerOf ==
    ASSUME TypesInv, NEW r \in Requests, pc[r] \in StudentSteps
    PROVE  /\ local[r] \in StudentLocal /\ HandlerTyped(pc[r], local[r])
           /\ local[r].student \in Students /\ local[r].place \in Place
           /\ local[r].admission \in Number /\ local[r].roll \in Number
           /\ local[r].system \in Nat /\ local[r].seen \in SUBSET (Students \X Nat)
<1>1. HandlerTyped(pc[r], local[r]) /\ local[r] \in StudentLocal
    BY HandlersTyped DEF HandlerTyped, YearSteps, StudentSteps
<1> QED
    BY <1>1 DEF StudentLocal

LEMMA NextStepTyped ==
    ASSUME NEW l \in StudentLocal
    PROVE  /\ NextStep(l) \in {"admission", "roll", "system", "clear"}
           /\ HandlerTyped(NextStep(l), l)
    BY DEF NextStep, HandlerTyped, StudentLocal, Number, Drawn, StudentSteps

\* What no step of a student's handler touches.
YearsSame == UNCHANGED <<yearVars, late>>

LEMMA ArriveTypes ==
    ASSUME TypesInv, NEW r \in Requests, NEW s \in Students, NEW place \in Place,
           NEW admission \in Typed \cup {None}, NEW roll \in Typed \cup {None},
           Arrive(r, s, place, admission, roll), YearsSame, started' \in 0..MaxStarted
    PROVE  TypesInv'
<1> DEFINE l == [student |-> s, place |-> place, admission |-> admission, roll |-> roll,
                 system |-> 0, seen |-> {}]
<1>1. l \in StudentLocal
    BY StudentAssumption DEF StudentLocal, Number
<1>2. HandlerTyped("resolve", l)
    BY <1>1 DEF HandlerTyped, Drawn, StudentSteps
<1>3. TablesTyped'
    <2>1. typed' \in SUBSET Nat
        BY Tables, StudentAssumption DEF TablesTyped, Arrive
    <2> QED
        BY <2>1, Tables DEF TablesTyped, Arrive, YearsSame, tables, yearVars, YearTypeOK
<1> QED
    BY <1>2, <1>3, GotoTyped DEF Arrive

\* What Resolve finds: the numbers of the request or of a current record of the student.
Found(r, m) ==
    LET l == local[r]
        s == l.student
    IN  /\ m \in StudentLocal
        /\ m.student = s /\ m.place = l.place /\ m.system = l.system
        /\ m.seen = Rivals(s, l.place)
        /\ \/ m.admission = l.admission
           \/ \E i \in DOMAIN record : record[i].student = s /\ record[i].admission = m.admission
        /\ \/ m.roll = l.roll /\ (m.roll # None => ~RollClash(s, l.place, m.roll))
           \/ \E i \in DOMAIN record :
                 /\ record[i].student = s /\ record[i].current
                 /\ record[i].place = l.place /\ record[i].roll = m.roll

LEMMA Resolves ==
    ASSUME TypesInv, NEW r \in Requests, Resolve(r)
    PROVE  Finish(r) \/ \E m : Found(r, m) /\ Goto(r, NextStep(m), m)
<1> DEFINE l == local[r]
           s == l.student
           With(m) == [m EXCEPT !.seen = Rivals(m.student, m.place)]
           held == {i \in DOMAIN record : record[i].student = s /\ record[i].current}
<1>1. pc[r] \in StudentSteps
    BY DEF Resolve, StudentSteps
<1>2. /\ l \in StudentLocal /\ s \in Students /\ l.place \in Place
      /\ l.admission \in Number /\ l.roll \in Number /\ l.system \in Nat
    BY <1>1, HandlerOf
<1>3. Rivals(s, l.place) \in SUBSET (Students \X Nat)
    BY RivalsTyped
<1>4. ASSUME NEW own, WithNumbers(r, own, l)
      PROVE  Finish(r) \/ \E m : Found(r, m) /\ Goto(r, NextStep(m), m)
    <2>1. Finish(r) \/ (Goto(r, NextStep(l), With(l))
                           /\ (l.roll # None => ~RollClash(s, l.place, l.roll)))
        BY <1>4 DEF WithNumbers, NumbersClash
    <2>2. With(l) \in StudentLocal
        BY <1>2, <1>3 DEF StudentLocal
    <2>3. ASSUME l.roll # None => ~RollClash(s, l.place, l.roll) PROVE Found(r, With(l))
        BY <1>2, <2>3, <2>2 DEF Found, StudentLocal
    <2>4. NextStep(With(l)) = NextStep(l)
        BY <1>2 DEF NextStep, StudentLocal
    <2> QED
        BY <2>1, <2>3, <2>4
<1>5. ASSUME NEW own, NEW i \in held, WithNumbers(r, own, Lent(l, i))
      PROVE  Finish(r) \/ \E m : Found(r, m) /\ Goto(r, NextStep(m), m)
    <2> DEFINE lent == Lent(l, i)
    <2>0. /\ i \in DOMAIN record /\ record[i].student = s /\ record[i].current
          /\ record[i].roll \in Nat /\ record[i].admission \in Nat
        BY RecordTyped
    <2>1. /\ lent \in StudentLocal
          /\ lent.student = s /\ lent.place = l.place /\ lent.system = l.system
          /\ lent.admission = IF l.admission = None THEN record[i].admission ELSE l.admission
          /\ lent.roll = IF l.roll = None /\ record[i].place = l.place
                         THEN record[i].roll ELSE l.roll
        BY <1>2, <2>0 DEF StudentLocal, Number, Lent
    <2>2. Finish(r) \/ (Goto(r, NextStep(lent), With(lent))
                           /\ (l.roll # None => ~RollClash(s, l.place, l.roll)))
        BY <1>5 DEF WithNumbers, NumbersClash
    <2> HIDE DEF lent
    <2>3. /\ With(lent) \in StudentLocal
          /\ With(lent).student = s /\ With(lent).place = l.place /\ With(lent).system = l.system
          /\ With(lent).admission = lent.admission /\ With(lent).roll = lent.roll
          /\ With(lent).seen = Rivals(s, l.place)
        BY <1>3, <2>1 DEF StudentLocal
    <2>4. NextStep(With(lent)) = NextStep(lent)
        BY <2>1, <2>3 DEF NextStep
    <2>5. ASSUME l.roll # None => ~RollClash(s, l.place, l.roll) PROVE Found(r, With(lent))
        <3> HIDE DEF With
        <3> QED
            BY <2>5, <2>0, <2>1, <2>3 DEF Found
    <2> QED
        BY <2>2, <2>4, <2>5
<1> QED
    BY <1>4, <1>5 DEF Resolve

\* Where a handler is at each of its steps.
LEMMA StepsOf ==
    ASSUME NEW r
    PROVE  /\ Resolve(r) => pc[r] = "resolve"
           /\ ReserveAdmission(r) => pc[r] = "admission"
           /\ DrawRoll(r) => pc[r] = "roll"
           /\ NextSystem(r) => pc[r] = "system"
           /\ InsertStudent(r) => pc[r] = "student"
           /\ ClearRecords(r) => pc[r] = "clear"
           /\ InsertRecord(r) => pc[r] = "insert"
<1>1. Resolve(r) => pc[r] = "resolve"
    BY DEF Resolve
<1>2. ReserveAdmission(r) => pc[r] = "admission"
    BY DEF ReserveAdmission
<1>3. DrawRoll(r) => pc[r] = "roll"
    BY DEF DrawRoll
<1>4. NextSystem(r) => pc[r] = "system"
    BY DEF NextSystem
<1>5. InsertStudent(r) => pc[r] = "student"
    BY DEF InsertStudent
<1>6. ClearRecords(r) => pc[r] = "clear"
    BY DEF ClearRecords
<1>7. InsertRecord(r) => pc[r] = "insert"
    BY DEF InsertRecord
<1> QED
    BY <1>1, <1>2, <1>3, <1>4, <1>5, <1>6, <1>7

LEMMA StudentTypes ==
    ASSUME TypesInv, StudentStart \/ \E r \in Requests : StudentContinue(r), YearsSame,
           started' \in 0..MaxStarted
    PROVE  TypesInv'
<1>tables. /\ UNCHANGED <<year, copy, everCurrent, yearsRaced, crossed, cutYears, late>>
           /\ TablesTyped
    BY Tables DEF YearsSame, yearVars
<1>1. ASSUME NEW r \in Requests, NEW s \in Students, DeleteStudent(r, s) PROVE TypesInv'
    <2>1. student' \in [DOMAIN student -> StudentRow] /\ DOMAIN student' = DOMAIN student
        BY <1>1, <1>tables DEF DeleteStudent, TablesTyped, StudentRow
    <2>2. TablesTyped'
        BY <1>1, <2>1, <1>tables DEF DeleteStudent, TablesTyped, YearTypeOK, history
    <2> QED
        BY <1>1, <2>2, SameTyped DEF DeleteStudent
<1>2. ASSUME NEW r \in Requests, NEW s \in Students, NEW place \in Place,
             NEW admission \in Typed \cup {None}, NEW roll \in Typed \cup {None},
             \/ CreateStudent(r, s, place, admission, roll)
             \/ UpdateStudent(r, s, place, admission, roll)
      PROVE  TypesInv'
    BY <1>2, ArriveTypes DEF CreateStudent, UpdateStudent
<1>3. ASSUME NEW n \in Typed, SetStartNumber(n) PROVE TypesInv'
    <2>1. TablesTyped'
        BY <1>3, <1>tables, StudentAssumption DEF SetStartNumber, TablesTyped, YearTypeOK, history
    <2> QED
        BY <1>3, <2>1, SameTyped DEF SetStartNumber
<1>4. ASSUME NEW r \in Requests, StudentHandlerFails(r) PROVE TypesInv'
    <2>1. cutStudents' \in SUBSET Students
        BY <1>4, <1>tables, HandlerOf DEF StudentHandlerFails, TablesTyped
    <2>2. TablesTyped'
        BY <1>4, <2>1, <1>tables DEF StudentHandlerFails, TablesTyped, YearTypeOK, tables
    <2> QED
        BY <1>4, <2>2, GotoTyped, Idle DEF StudentHandlerFails, Finish
<1>5. ASSUME NEW r \in Requests, StudentContinue(r) PROVE TypesInv'
    <2>l. /\ pc[r] \in StudentSteps /\ local[r] \in StudentLocal
          /\ local[r].student \in Students /\ local[r].place \in Place
          /\ local[r].admission \in Number /\ local[r].roll \in Number
          /\ local[r].system \in Nat /\ local[r].seen \in SUBSET (Students \X Nat)
          /\ HandlerTyped(pc[r], local[r])
        <3>1. pc[r] \in StudentSteps
            BY <1>5, StepsOf DEF StudentContinue, StudentSteps
        <3> QED
            BY <3>1, HandlerOf
    <2>same. ASSUME UNCHANGED <<tables, history>> PROVE TablesTyped'
        BY <2>same, <1>tables DEF TablesTyped, YearTypeOK, tables, history
    <2>1. CASE Resolve(r)
        <3>1. TablesTyped'
            BY <2>1, <2>same DEF Resolve
        <3>2. CASE Finish(r)
            BY <3>1, <3>2, GotoTyped, Idle DEF Finish
        <3>3. CASE \E m \in StudentLocal : Goto(r, NextStep(m), m)
            BY <3>1, <3>3, GotoTyped, NextStepTyped
        <3> QED
            BY <2>1, <3>2, <3>3, Resolves DEF Found
    <2>2. CASE ReserveAdmission(r)
        <3> DEFINE n == NextAdmission(counter.admission)
                   l == [local[r] EXCEPT !.admission = n]
        <3>1. n \in Nat
            BY <1>tables DEF NextAdmission, TablesTyped
        <3>2. l \in StudentLocal
            BY <2>l, <3>1 DEF StudentLocal, Number
        <3>3. counter' \in [system : Nat, admission : Nat]
            BY <2>2, <3>1, <1>tables DEF ReserveAdmission, TablesTyped
        <3>4. TablesTyped'
            BY <2>2, <3>3, <1>tables DEF ReserveAdmission, TablesTyped, YearTypeOK, history
        <3> QED
            BY <2>2, <3>2, <3>4, GotoTyped, NextStepTyped DEF ReserveAdmission
    <2>3. CASE DrawRoll(r)
        <3> DEFINE l == [local[r] EXCEPT !.roll = nextRollNumber(local[r].place),
                                         !.seen = Rivals(local[r].student, local[r].place)]
        <3>1. l \in StudentLocal
            BY <2>l, NextRoll, RivalsTyped DEF StudentLocal, Number
        <3>2. TablesTyped'
            BY <2>3, <2>same DEF DrawRoll
        <3> QED
            BY <2>3, <3>1, <3>2, GotoTyped, NextStepTyped DEF DrawRoll
    <2>4. CASE NextSystem(r)
        <3> DEFINE l == [local[r] EXCEPT !.system = counter.system + 1]
        <3>1. counter.system + 1 \in Nat /\ counter' \in [system : Nat, admission : Nat]
            BY <2>4, <1>tables DEF NextSystem, TablesTyped
        <3>2. l \in StudentLocal /\ l.admission = local[r].admission /\ l.roll = local[r].roll
            BY <2>l, <3>1 DEF StudentLocal
        <3>3. pc[r] = "system"
            BY <2>4 DEF NextSystem
        <3>4. HandlerTyped("student", l)
            BY <2>l, <3>2, <3>3 DEF HandlerTyped, StudentSteps, Drawn
        <3>5. TablesTyped'
            BY <2>4, <3>1, <1>tables DEF NextSystem, TablesTyped, YearTypeOK, history
        <3> QED
            BY <2>4, <3>4, <3>5, GotoTyped DEF NextSystem
    <2>kept. ASSUME pc[r] \in Drawn, NEW step \in {"clear", "insert"}
             PROVE  HandlerTyped(step, local[r])
        BY <2>l, <2>kept DEF HandlerTyped, StudentSteps, Drawn
    <2>5. CASE InsertStudent(r)
        <3>1. [system |-> local[r].system, deleted |-> FALSE] \in StudentRow
            BY <2>l DEF StudentRow
        <3>2. student' \in [DOMAIN student' -> StudentRow] /\ DOMAIN student' \subseteq Students
            BY <2>5, <3>1, <2>l, <1>tables DEF InsertStudent, TablesTyped
        <3>3. TablesTyped'
            BY <2>5, <3>2, <1>tables DEF InsertStudent, TablesTyped, YearTypeOK, history
        <3> QED
            BY <2>5, <3>3, <2>kept, GotoTyped DEF InsertStudent, Drawn
    <2>6. CASE ClearRecords(r)
        <3>1. /\ Len(record) \in Nat /\ DOMAIN record = 1..Len(record)
              /\ \A i \in DOMAIN record : record[i] \in Record
            BY RecordTyped
        <3>2. \A i \in DOMAIN record : [record[i] EXCEPT !.current = FALSE] \in Record
            BY <3>1 DEF Record
        <3>3. record' \in [1..Len(record) -> Record]
            BY <2>6, <3>1, <3>2 DEF ClearRecords
        <3>4. record' \in Seq(Record)
            BY <3>1, <3>3
        <3>5. doubled' \in SUBSET Students
            BY <2>6, <2>l, <1>tables DEF ClearRecords, TablesTyped
        <3>6. TablesTyped'
            BY <2>6, <3>4, <3>5, <1>tables DEF ClearRecords, TablesTyped, YearTypeOK
        <3> QED
            BY <2>6, <3>6, <2>kept, GotoTyped DEF ClearRecords, Drawn
    <2>7. CASE InsertRecord(r)
        <3> DEFINE row == [student |-> local[r].student, place |-> local[r].place,
                           roll |-> local[r].roll, admission |-> local[r].admission,
                           current |-> TRUE]
        <3>1. pc[r] = "insert"
            BY <2>7 DEF InsertRecord
        <3>2. row \in Record
            BY <2>l, <3>1 DEF Record, HandlerTyped, Drawn
        <3>3. record' \in Seq(Record)
            BY <2>7, <3>2, <1>tables DEF InsertRecord, TablesTyped
        <3>4. rollsRaced' \in SUBSET Place
            BY <2>7, <2>l, <1>tables DEF InsertRecord, TablesTyped
        <3>5. TablesTyped'
            BY <2>7, <3>3, <3>4, <1>tables DEF InsertRecord, TablesTyped, YearTypeOK
        <3> QED
            BY <2>7, <3>5, GotoTyped, Idle DEF InsertRecord, Finish
    <2> QED
        BY <1>5, <2>1, <2>2, <2>3, <2>4, <2>5, <2>6, <2>7 DEF StudentContinue
<1> QED
    BY <1>1, <1>2, <1>3, <1>4, <1>5 DEF StudentStart

-----------------------------------------------------------------------------
(* The years.                                                              *)

\* No handler comes to setCurrent and none leaves it, and the current years are the same.
LEMMA CurrentSame ==
    ASSUME CurrentYearInv, Current' = Current, UNCHANGED <<everCurrent, crossed>>,
           cutYears => cutYears',
           \A q \in Requests : pc'[q] = "setCurrent" <=> pc[q] = "setCurrent"
    PROVE  CurrentYearInv'
    BY DEF CurrentYearInv

LEMMA KnownApart ==
    ASSUME NEW y, NEW span, assertValidYear(y, span)
    PROVE  \A p \in Others(y) : ~Meet(p[2], span)
    BY DEF assertValidYear, Others

LEMMA YearBegins ==
    ASSUME TypesInv, YearsInv, NEW r \in Requests, NEW y \in Years,
           NEW new \in Spans, NEW dates \in SUBSET Dates, NEW current \in BOOLEAN,
           \/ CreateYear(r, y, new, current)
           \/ UpdateYear(r, y, new, dates, current)
           \/ SetCurrentYear(r, y)
    PROVE  YearsInv'
<1> DEFINE Begun(step, span, sent, c) ==
        /\ Goto(r, step, Seen(y, span, sent, c))
        /\ step \in YearSteps \ {"setCurrent"}
        /\ step = "insertYear" => /\ y \notin DOMAIN year
                                  /\ \A q \in Requests : pc[q] \in YearSteps => local[q].year # y
        /\ step # "insertYear" => y \in DOMAIN year
        /\ step \in {"insertYear", "updateYear"} /\ sent # {} => assertValidYear(y, span)
<1>1. PICK step, span, sent, c : Begun(step, span, sent, c)
    <2>1. CASE CreateYear(r, y, new, current)
        <3>1. Begun("insertYear", new, Dates, current)
            BY <2>1 DEF CreateYear, YearSteps
        <3> QED
            BY <3>1
    <2>2. CASE UpdateYear(r, y, new, dates, current)
        <3>1. PICK existing \in FoundById(y) :
                 LET merged == Merged(existing.span, dates, new)
                 IN  /\ dates # {} => assertValidYear(y, merged)
                     /\ Goto(r, "updateYear", Seen(y, merged, dates, current))
            BY <2>2 DEF UpdateYear
        <3>2. Begun("updateYear", Merged(existing.span, dates, new), dates, current)
            BY <2>2, <3>1 DEF UpdateYear, YearSteps
        <3> QED
            BY <3>2
    <2>3. CASE SetCurrentYear(r, y)
        <3>1. Begun("clearCurrent", year[y].span, {}, TRUE)
            BY <2>3 DEF SetCurrentYear, YearSteps
        <3> QED
            BY <3>1
    <2> QED
        BY <2>1, <2>2, <2>3
<1>2. UNCHANGED yearVars /\ pc[r] = "idle"
    BY DEF CreateYear, UpdateYear, SetCurrentYear
<1>3. UNCHANGED <<year, everCurrent, yearsRaced, crossed, cutYears>>
    BY <1>2 DEF yearVars
<1>4. /\ Seen(y, span, sent, c).year = y /\ Seen(y, span, sent, c).span = span
      /\ Seen(y, span, sent, c).sent = sent /\ Seen(y, span, sent, c).known = Others(y)
    BY DEF Seen
<1>5. /\ pc'[r] = step /\ local'[r] = Seen(y, span, sent, c)
      /\ \A q \in Requests \ {r} : pc'[q] = pc[q] /\ local'[q] = local[q]
    BY <1>1, Went
<1>6. YearHandlersInv'
    BY <1>1, <1>3, <1>4, <1>5, KnownApart DEF YearHandlersInv, YearsInv, YearSteps
<1>7. CurrentYearInv'
    <2>1. Current' = Current
        BY <1>3 DEF Current
    <2> QED
        BY <1>1, <1>2, <1>3, <1>5, <2>1, CurrentSame DEF YearsInv
<1>8. YearsApart'
    BY <1>3 DEF YearsApart, YearsInv
<1> QED
    BY <1>6, <1>7, <1>8 DEF YearsInv

\* A handler leaves for a step that writes no dates.
LEMMA YearGoesOn ==
    ASSUME TypesInv, YearHandlersInv, NEW r \in Requests, pc[r] \in YearSteps,
           Finish(r) \/ (\E step \in {"clearCurrent", "setCurrent"} : Goto(r, step, local[r])),
           \A y \in DOMAIN year : y \in DOMAIN year',
           \A q \in Requests \ {r} : pc[q] = "insertYear" => local[q].year \notin DOMAIN year',
           local[r].year \in DOMAIN year'
    PROVE  YearHandlersInv'
<1>1. /\ pc'[r] \in {"idle", "clearCurrent", "setCurrent"}
      /\ pc'[r] # "idle" => local'[r] = local[r]
      /\ \A q \in Requests \ {r} : pc'[q] = pc[q] /\ local'[q] = local[q]
    BY Went DEF Finish
<1> QED
    BY <1>1 DEF YearHandlersInv

LEMMA WriteKeeps ==
    ASSUME TypesInv, YearsInv, NEW r \in Requests, InsertYear(r) \/ WriteYear(r)
    PROVE  YearsInv'
<1>1. /\ AfterWrite(r) /\ pc[r] \in {"insertYear", "updateYear"}
    BY DEF InsertYear, WriteYear
<1>2. /\ pc[r] \in YearSteps /\ local[r].year \in Years
      /\ local[r].span \in Spans /\ local[r].sent \in SUBSET Dates
      /\ pc[r] = "insertYear" => local[r].sent = Dates
    <2>1. pc[r] \in YearSteps
        BY <1>1 DEF YearSteps
    <2>2. HandlerTyped(pc[r], local[r])
        BY HandlersTyped
    <2> QED
        BY <2>1, <2>2 DEF HandlerTyped, YearSteps, StudentSteps, YearLocal
<1>3. /\ yearsRaced' = (yearsRaced \/ Raced(local[r]))
      /\ Finish(r) \/ Goto(r, "clearCurrent", local[r])
      /\ UNCHANGED <<everCurrent, crossed, cutYears>>
    BY <1>1 DEF AfterWrite
<1>4. ~yearsRaced' => ~yearsRaced /\ ~Raced(local[r])
    BY <1>3
<1>rows. /\ DOMAIN year' = DOMAIN year \cup {local[r].year}
         /\ \A x \in DOMAIN year : x # local[r].year => year'[x] = year[x]
         /\ local[r].sent = {} => year' = year
         /\ local[r].sent # {} /\ ~Raced(local[r]) => year'[local[r].year].span = local[r].span
         /\ local[r].year \notin DOMAIN year => ~year'[local[r].year].current
         /\ local[r].year \in DOMAIN year =>
                year'[local[r].year].current = year[local[r].year].current
    <2>1. CASE InsertYear(r)
        <3>1. local[r].sent # {} /\ local[r].year \notin DOMAIN year
            BY <2>1, <1>2 DEF InsertYear, Dates, YearsInv, YearHandlersInv
        <3> QED
            BY <2>1, <3>1 DEF InsertYear
    <2>2. CASE WriteYear(r)
        <3>1. local[r].year \in DOMAIN year
            BY <2>2 DEF WriteYear, YearsInv, YearHandlersInv
        <3>2. PICK y, old, new : /\ y = local[r].year /\ old = year[y].span
                                 /\ new = Merged(old, local[r].sent, local[r].span)
            OBVIOUS
        <3>3. year' = [year EXCEPT ![y] = [@ EXCEPT !.span = new]]
            BY <2>2, <3>2 DEF WriteYear
        <3>4. year[y] \in YearRow /\ old \in Spans
            BY <3>1, <3>2 DEF TypesInv, TypeOK, YearTypeOK, YearRow
        <3>5. local[r].sent = {} => new = old
            BY <3>2, <3>4 DEF Merged, Spans
        <3>6. local[r].sent # {} /\ ~Raced(local[r]) => new = local[r].span
            BY <3>1, <3>2 DEF Raced
        <3>7. year[y] = [year[y] EXCEPT !.span = old]
            BY <3>2, <3>4 DEF YearRow
        <3>8. year \in [DOMAIN year -> YearRow]
            BY DEF TypesInv, TypeOK, YearTypeOK
        <3>9. new = old => year' = year
            BY <3>1, <3>2, <3>3, <3>7, <3>8
        <3>10. /\ DOMAIN year' = DOMAIN year
               /\ \A x \in DOMAIN year : x # y => year'[x] = year[x]
               /\ year'[y].span = new /\ year'[y].current = year[y].current
            BY <3>1, <3>2, <3>3, <3>4 DEF YearRow
        <3> QED
            BY <3>1, <3>2, <3>5, <3>6, <3>9, <3>10
    <2> QED
        BY <2>1, <2>2
<1>5. \A q \in Requests \ {r} : pc[q] = "insertYear" => local[q].year \notin DOMAIN year'
    <2> SUFFICES ASSUME NEW q \in Requests \ {r}, pc[q] = "insertYear"
                 PROVE  local[q].year \notin DOMAIN year'
        OBVIOUS
    <2>1. local[q].year \notin DOMAIN year
        BY DEF YearsInv, YearHandlersInv
    <2>2. CASE pc[r] = "insertYear"
        BY <1>rows, <2>1, <2>2 DEF YearsInv, YearHandlersInv
    <2>3. CASE pc[r] = "updateYear"
        BY <1>rows, <2>1, <2>3 DEF YearsInv, YearHandlersInv
    <2> QED
        BY <1>1, <2>2, <2>3
<1>6. YearHandlersInv'
    BY <1>2, <1>3, <1>rows, <1>5, YearGoesOn DEF YearsInv
<1>7. YearsApart'
    <2> SUFFICES ASSUME ~yearsRaced', NEW x \in DOMAIN year', NEW z \in DOMAIN year', x # z
                 PROVE  ~Meet(year'[x].span, year'[z].span)
        BY DEF YearsApart
    <2>1. \A a, b \in DOMAIN year : a # b => ~Meet(year[a].span, year[b].span)
        BY <1>4 DEF YearsInv, YearsApart
    <2>2. CASE local[r].sent = {}
        BY <1>rows, <2>1, <2>2
    <2>3. CASE local[r].sent # {}
        <3>1. \A a \in DOMAIN year : a # local[r].year => ~Meet(year[a].span, local[r].span)
            <4>1. Others(local[r].year) \subseteq local[r].known
                BY <1>4, <2>3 DEF Raced
            <4>2. \A p \in local[r].known : ~Meet(p[2], local[r].span)
                BY <1>1, <2>3 DEF YearsInv, YearHandlersInv
            <4>3. \A a \in DOMAIN year : a # local[r].year =>
                      <<a, year[a].span>> \in local[r].known
                BY <4>1 DEF Others
            <4> QED
                BY <4>2, <4>3
        <3>2. \A v, w : Meet(v, w) <=> Meet(w, v)
            BY DEF Meet
        <3>3. year'[local[r].year].span = local[r].span
            BY <1>4, <1>rows, <2>3
        <3> QED
            BY <1>rows, <2>1, <2>3, <3>1, <3>2, <3>3
    <2> QED
        BY <2>2, <2>3
<1>8. CurrentYearInv'
    <2>1. Current' = Current
        BY <1>rows DEF Current
    <2>2. \A q \in Requests : pc'[q] = "setCurrent" <=> pc[q] = "setCurrent"
        BY <1>1, <1>3, Went DEF Finish
    <2> QED
        BY <1>3, <2>1, <2>2, CurrentSame DEF YearsInv
<1> QED
    BY <1>6, <1>7, <1>8 DEF YearsInv

\* Between the two statements of setCurrent.
LEMMA CurrentKept ==
    ASSUME TypesInv, YearsInv, NEW r \in Requests, ClearCurrent(r) \/ SetCurrent(r)
    PROVE  YearsInv'
<1>1. pc[r] \in YearSteps /\ local[r].year \in DOMAIN year
    BY DEF ClearCurrent, SetCurrent, YearsInv, YearHandlersInv, YearSteps
<1>2. /\ DOMAIN year' = DOMAIN year
      /\ \A x \in DOMAIN year : year'[x].span = year[x].span
    BY DEF ClearCurrent, SetCurrent, TypesInv, TypeOK, YearTypeOK, YearRow
<1>3. YearHandlersInv'
    BY <1>1, <1>2, YearGoesOn DEF ClearCurrent, SetCurrent, YearsInv, YearHandlersInv
<1>4. YearsApart'
    <2>1. UNCHANGED yearsRaced
        BY DEF ClearCurrent, SetCurrent
    <2> QED
        BY <1>2, <2>1 DEF YearsApart, YearsInv
<1>5. CASE ClearCurrent(r)
    <2>1. pc[r] = "clearCurrent" /\ pc'[r] = "setCurrent" /\ UNCHANGED <<everCurrent, cutYears>>
          /\ \A q \in Requests \ {r} : pc'[q] = pc[q]
        BY <1>5, Went DEF ClearCurrent
    <2>2. Current' = {}
        BY <1>5 DEF ClearCurrent, Current, TypesInv, TypeOK, YearTypeOK, YearRow
    <2>3. crossed' = (crossed \/ \E q \in Requests : pc[q] = "setCurrent")
        BY <1>5 DEF ClearCurrent
    <2>4. ~crossed' => \A q \in Requests : pc[q] # "setCurrent"
        BY <2>3
    <2> QED
        BY <1>3, <1>4, <2>1, <2>2, <2>4 DEF YearsInv, CurrentYearInv
<1>6. CASE SetCurrent(r)
    <2>1. pc[r] = "setCurrent" /\ pc'[r] = "idle" /\ UNCHANGED <<crossed, cutYears>>
          /\ \A q \in Requests \ {r} : pc'[q] = pc[q]
        BY <1>6, Went DEF SetCurrent, Finish
    <2>2. Current' = Current \cup {local[r].year}
        BY <1>6, <1>1 DEF SetCurrent, Current, TypesInv, TypeOK, YearTypeOK, YearRow
    <2> QED
        BY <1>3, <1>4, <2>1, <2>2 DEF YearsInv, CurrentYearInv
<1> QED
    BY <1>5, <1>6

LEMMA YearsKept ==
    ASSUME TypesInv, YearsInv, NEW r \in Requests,
           YearStart(r) \/ YearHandlerFails(r) \/ YearContinue(r)
    PROVE  YearsInv'
<1>1. ASSUME NEW y \in Years, Freeze(r, y) \/ Unfreeze(r, y) PROVE YearsInv'
    <2>1. /\ DOMAIN year' = DOMAIN year
          /\ \A x \in DOMAIN year :
                year'[x].span = year[x].span /\ year'[x].current = year[x].current
        BY <1>1 DEF Freeze, Unfreeze, TypesInv, TypeOK, YearTypeOK, YearRow
    <2>2. UNCHANGED <<pc, local, everCurrent, yearsRaced, crossed, cutYears>>
        BY <1>1 DEF Freeze, Unfreeze
    <2>3. Current' = Current
        BY <2>1 DEF Current
    <2>4. YearHandlersInv' /\ YearsApart'
        BY <2>1, <2>2 DEF YearsInv, YearHandlersInv, YearsApart
    <2> QED
        BY <2>2, <2>3, <2>4, CurrentSame DEF YearsInv
<1>2. CASE YearHandlerFails(r)
    <2>1. /\ pc[r] \in YearSteps /\ pc'[r] = "idle"
          /\ \A q \in Requests \ {r} : pc'[q] = pc[q] /\ local'[q] = local[q]
          /\ UNCHANGED <<year, everCurrent, yearsRaced, crossed>>
        BY <1>2, Went DEF YearHandlerFails, Finish
    <2>2. cutYears' = (cutYears \/ pc[r] = "setCurrent")
        BY <1>2 DEF YearHandlerFails
    <2>3. ~cutYears' => ~cutYears /\ pc[r] # "setCurrent"
        BY <2>2
    <2>4. YearHandlersInv' /\ YearsApart'
        BY <2>1 DEF YearsInv, YearHandlersInv, YearsApart
    <2>5. Current' = Current
        BY <2>1 DEF Current
    <2>6. CurrentYearInv'
        BY <2>1, <2>3, <2>5 DEF YearsInv, CurrentYearInv
    <2> QED
        BY <2>4, <2>6 DEF YearsInv
<1>3. ASSUME NEW y \in Years, SetCurrentYear(r, y) PROVE YearsInv'
    <2>1. year[y].span \in Spans
        BY <1>3 DEF SetCurrentYear, TypesInv, TypeOK, YearTypeOK, YearRow
    <2> QED
        BY <1>3, <2>1, YearBegins
<1>4. ASSUME NEW y \in Years, NEW span \in Spans, NEW sent \in SUBSET Dates, NEW c \in BOOLEAN,
             CreateYear(r, y, span, c) \/ UpdateYear(r, y, span, sent, c)
      PROVE  YearsInv'
    BY <1>4, YearBegins
<1> QED
    BY <1>1, <1>2, <1>3, <1>4, WriteKeeps, CurrentKept DEF YearStart, YearContinue


\* What a student's handler keeps as it goes on.
LEMMA Continues ==
    ASSUME TypesInv, NEW r \in Requests, StudentContinue(r) \/ StudentHandlerFails(r)
    PROVE  /\ pc[r] \in StudentSteps
           /\ \/ Finish(r)
              \/ \E step \in Resolved, l \in StudentLocal :
                    /\ Goto(r, step, l)
                    /\ l.student = local[r].student /\ l.place = local[r].place
           /\ UNCHANGED typed
<1>1. pc[r] \in StudentSteps
    BY StepsOf DEF StudentContinue, StudentHandlerFails, StudentSteps
<1>l. /\ local[r] \in StudentLocal /\ local[r].place \in Place
      /\ local[r].student \in Students /\ local[r].admission \in Number
      /\ local[r].roll \in Number /\ local[r].system \in Nat
    BY <1>1, HandlerOf
<1> DEFINE Goes == \E step \in Resolved, l \in StudentLocal :
                      /\ Goto(r, step, l)
                      /\ l.student = local[r].student /\ l.place = local[r].place
<1>next. ASSUME NEW l \in StudentLocal, Goto(r, NextStep(l), l),
                l.student = local[r].student, l.place = local[r].place
         PROVE  Goes
    BY <1>next, NextStepTyped DEF Resolved, Drawn
<1>2. CASE Resolve(r)
    <2>1. Finish(r) \/ Goes
        BY <1>2, <1>next, Resolves DEF Found
    <2>2. UNCHANGED typed
        BY <1>2 DEF Resolve, history
    <2> QED
        BY <1>1, <2>1, <2>2
<1>3. CASE ReserveAdmission(r)
    <2> DEFINE n == NextAdmission(counter.admission)
               l == [local[r] EXCEPT !.admission = n]
    <2>1. n \in Nat
        BY DEF NextAdmission, TypesInv, TypeOK
    <2>2. l \in StudentLocal /\ l.student = local[r].student /\ l.place = local[r].place
        BY <1>l, <2>1 DEF StudentLocal, Number
    <2>3. Goto(r, NextStep(l), l) /\ UNCHANGED typed
        BY <1>3 DEF ReserveAdmission, history
    <2> QED
        BY <1>1, <1>next, <2>2, <2>3
<1>4. CASE DrawRoll(r)
    <2> DEFINE l == [local[r] EXCEPT !.roll = nextRollNumber(local[r].place),
                                     !.seen = Rivals(local[r].student, local[r].place)]
    <2>1. l \in StudentLocal /\ l.student = local[r].student /\ l.place = local[r].place
        BY <1>l, NextRoll, RivalsTyped DEF StudentLocal, Number
    <2>2. Goto(r, NextStep(l), l) /\ UNCHANGED typed
        BY <1>4 DEF DrawRoll, history
    <2> QED
        BY <1>1, <1>next, <2>1, <2>2
<1>5. CASE NextSystem(r)
    <2> DEFINE l == [local[r] EXCEPT !.system = counter.system + 1]
    <2>1. counter.system + 1 \in Nat
        BY DEF TypesInv, TypeOK
    <2>2. l \in StudentLocal /\ l.student = local[r].student /\ l.place = local[r].place
        BY <1>l, <2>1 DEF StudentLocal
    <2>3. Goto(r, "student", l) /\ UNCHANGED typed
        BY <1>5 DEF NextSystem, history
    <2> QED
        BY <1>1, <2>2, <2>3 DEF Resolved, Drawn
<1>6. CASE InsertStudent(r)
    <2>1. Goto(r, "clear", local[r]) /\ UNCHANGED typed
        BY <1>6 DEF InsertStudent, history
    <2> QED
        BY <1>1, <1>l, <2>1 DEF Resolved, Drawn
<1>7. CASE ClearRecords(r)
    <2>1. Goto(r, "insert", local[r]) /\ UNCHANGED typed
        BY <1>7 DEF ClearRecords
    <2> QED
        BY <1>1, <1>l, <2>1 DEF Resolved, Drawn
<1>8. CASE InsertRecord(r)
    BY <1>1, <1>8 DEF InsertRecord
<1>9. CASE StudentHandlerFails(r)
    BY <1>1, <1>9 DEF StudentHandlerFails
<1> QED
    BY <1>2, <1>3, <1>4, <1>5, <1>6, <1>7, <1>8, <1>9 DEF StudentContinue

LEMMA YearsUntouched ==
    ASSUME TypesInv, YearsInv, StudentStart \/ (\E r \in Requests : StudentContinue(r)), YearsSame
    PROVE  YearsInv'
<1>1. \/ UNCHANGED <<pc, local>>
      \/ \E r \in Requests, step \in {"idle"} \cup StudentSteps : \E l :
            pc[r] \notin YearSteps /\ Goto(r, step, l)
    <2>1. ASSUME NEW r \in Requests, StudentContinue(r) \/ StudentHandlerFails(r)
          PROVE  \E step \in {"idle"} \cup StudentSteps : \E l : pc[r] \notin YearSteps
                                                             /\ Goto(r, step, l)
        BY <2>1, Continues DEF Finish, Resolved, Drawn, StudentSteps, YearSteps
    <2>2. ASSUME NEW r \in Requests, NEW s, NEW place, NEW admission, NEW roll,
                 Arrive(r, s, place, admission, roll)
          PROVE  \E step \in {"idle"} \cup StudentSteps : \E l : pc[r] \notin YearSteps
                                                             /\ Goto(r, step, l)
        BY <2>2 DEF Arrive, StudentSteps, YearSteps
    <2>3. ASSUME NEW r \in Requests, NEW s, DeleteStudent(r, s) PROVE UNCHANGED <<pc, local>>
        BY <2>3 DEF DeleteStudent
    <2>4. ASSUME NEW n, SetStartNumber(n) PROVE UNCHANGED <<pc, local>>
        BY <2>4 DEF SetStartNumber
    <2>5. CASE StudentStart
        BY <2>1, <2>2, <2>3, <2>4, <2>5 DEF StudentStart, CreateStudent, UpdateStudent
    <2> QED
        BY <2>1, <2>5
<1>2. \A q \in Requests : pc[q] \in YearSteps \/ pc'[q] \in YearSteps =>
         pc'[q] = pc[q] /\ local'[q] = local[q]
    BY <1>1, Went DEF YearSteps, StudentSteps
<1>3. UNCHANGED <<year, everCurrent, yearsRaced, crossed, cutYears>>
    BY DEF YearsSame, yearVars
<1>4. YearHandlersInv'
    BY <1>2, <1>3 DEF YearsInv, YearHandlersInv, YearSteps
<1>5. YearsApart'
    BY <1>3 DEF YearsInv, YearsApart
<1>6. CurrentYearInv'
    <2>1. Current' = Current
        BY <1>3 DEF Current
    <2> QED
        BY <1>2, <1>3, <2>1, CurrentSame DEF YearsInv, YearSteps
<1> QED
    BY <1>4, <1>5, <1>6 DEF YearsInv

-----------------------------------------------------------------------------
(* The students, as years change.                                          *)

LEMMA YearStepLeaves ==
    ASSUME TypesInv, YearsInv, NEW r \in Requests,
           YearStart(r) \/ YearHandlerFails(r) \/ YearContinue(r)
    PROVE  /\ \A q \in Requests : pc[q] \in StudentSteps \/ pc'[q] \in StudentSteps =>
                 pc'[q] = pc[q] /\ local'[q] = local[q]
           /\ DOMAIN year \subseteq DOMAIN year'
<1>1. \/ UNCHANGED <<pc, local>>
      \/ \E step \in {"idle"} \cup YearSteps : \E l : pc[r] \notin StudentSteps /\ Goto(r, step, l)
    <2>1. ASSUME NEW y, NEW span, NEW sent, NEW c,
                 \/ CreateYear(r, y, span, c) \/ UpdateYear(r, y, span, sent, c)
                 \/ SetCurrentYear(r, y)
          PROVE  \E step \in {"idle"} \cup YearSteps : \E l :
                    pc[r] \notin StudentSteps /\ Goto(r, step, l)
        BY <2>1 DEF CreateYear, UpdateYear, SetCurrentYear, YearSteps, StudentSteps
    <2>2. CASE InsertYear(r) \/ WriteYear(r)
        BY <2>2 DEF InsertYear, WriteYear, AfterWrite, Finish, YearSteps, StudentSteps
    <2>3. CASE ClearCurrent(r) \/ SetCurrent(r) \/ YearHandlerFails(r)
        BY <2>3 DEF ClearCurrent, SetCurrent, YearHandlerFails, Finish, YearSteps, StudentSteps
    <2>4. CASE \E y : Freeze(r, y) \/ Unfreeze(r, y)
        BY <2>4 DEF Freeze, Unfreeze
    <2> QED
        BY <2>1, <2>2, <2>3, <2>4 DEF YearStart, YearContinue
<1>2. DOMAIN year \subseteq DOMAIN year'
    <2>1. CASE UNCHANGED year
        BY <2>1
    <2>2. CASE InsertYear(r) \/ WriteYear(r)
        BY <2>2 DEF InsertYear, WriteYear
    <2>3. CASE ClearCurrent(r) \/ SetCurrent(r) \/ \E y : Freeze(r, y) \/ Unfreeze(r, y)
        BY <2>3 DEF ClearCurrent, SetCurrent, Freeze, Unfreeze
    <2>4. ASSUME NEW y, NEW span, NEW sent, NEW c,
                 \/ CreateYear(r, y, span, c) \/ UpdateYear(r, y, span, sent, c)
                 \/ SetCurrentYear(r, y)
          PROVE  UNCHANGED year
        BY <2>4 DEF CreateYear, UpdateYear, SetCurrentYear, yearVars
    <2>5. YearHandlerFails(r) => UNCHANGED year
        BY DEF YearHandlerFails
    <2> QED
        BY <2>1, <2>2, <2>3, <2>4, <2>5 DEF YearStart, YearContinue
<1> QED
    BY <1>1, <1>2, Went DEF StudentSteps, YearSteps

LEMMA StudentsUntouched ==
    ASSUME TypesInv, YearsInv, StudentsInv, NEW r \in Requests,
           YearStart(r) \/ YearHandlerFails(r) \/ YearContinue(r), YearStep
    PROVE  StudentsInv'
<1>1. /\ \A q \in Requests : pc[q] \in StudentSteps \/ pc'[q] \in StudentSteps =>
            pc'[q] = pc[q] /\ local'[q] = local[q]
      /\ DOMAIN year \subseteq DOMAIN year'
    BY YearStepLeaves
<1>2. UNCHANGED <<student, record, counter, startNumber, typed, rollsRaced, doubled, cutStudents>>
    BY DEF YearStep, tables, history
<1>3. \A s : Serving(s)' = Serving(s) /\ Inserting(s)' = Inserting(s)
    BY <1>1 DEF Serving, Inserting
<1>4. Live' = Live /\ \A s : CurrentRecords(s)' = CurrentRecords(s) /\ Deleted(s)' = Deleted(s)
    BY <1>2 DEF Live, Enrolled, CurrentRecords, Deleted
<1>5. \A s, n : Holds(s, n)' <=> Holds(s, n)
    BY <1>1, <1>2 DEF Holds
<1>6. ServingInv'
    BY <1>1, <1>2, <1>3 DEF StudentsInv, ServingInv, StudentSteps
<1>7. PlaceInv'
    <2> SUFFICES ASSUME NEW q \in Requests, pc'[q] \in StudentSteps
                 PROVE  /\ local'[q].place[1] \in DOMAIN year'
                        /\ year'[local'[q].place[1]].frozen => local'[q].place[1] \in late'
        BY DEF PlaceInv
    <2>1. pc[q] \in StudentSteps /\ local'[q] = local[q]
        BY <1>1
    <2> DEFINE y == local[q].place[1]
    <2>2. y \in DOMAIN year /\ (year[y].frozen => y \in late)
        BY <2>1 DEF StudentsInv, PlaceInv
    <2>3. y \in Years
        BY <2>2 DEF TypesInv, TypeOK, YearTypeOK
    <2>4. y \in Overtaken
        BY <2>1, <2>3 DEF Overtaken
    <2>5. year'[y].frozen /\ ~year[y].frozen => y \in Frozen' \ Frozen
        BY <1>1, <2>2 DEF Frozen
    <2> QED
        BY <1>1, <2>1, <2>2, <2>4, <2>5 DEF YearStep
<1>8. SystemInv'
    BY <1>1, <1>2 DEF StudentsInv, SystemInv, StudentSteps
<1>9. AdmissionInv'
    BY <1>2, <1>5 DEF StudentsInv, AdmissionInv
<1>10. RollInv'
    BY <1>1, <1>2, <1>4 DEF StudentsInv, RollInv, Resolved, Drawn, StudentSteps
<1>11. CurrentRecordInv'
    BY <1>2, <1>3, <1>4 DEF StudentsInv, CurrentRecordInv
<1> QED
    BY <1>6, <1>7, <1>8, <1>9, <1>10, <1>11 DEF StudentsInv


-----------------------------------------------------------------------------
(* The students, as their handlers go on.                                  *)

\* The steps that draw numbers write no rows.
DrawsNumber(r) == Resolve(r) \/ ReserveAdmission(r) \/ DrawRoll(r) \/ NextSystem(r)

LEMMA DrawsWriteNothing ==
    ASSUME NEW r \in Requests, DrawsNumber(r)
    PROVE  /\ UNCHANGED <<student, record, typed, rollsRaced, doubled, cutStudents>>
           /\ pc[r] \in {"resolve", "admission", "roll", "system"}
<1>1. CASE Resolve(r)
    BY <1>1 DEF Resolve, tables, history
<1>2. CASE ReserveAdmission(r)
    BY <1>2 DEF ReserveAdmission, history
<1>3. CASE DrawRoll(r)
    BY <1>3 DEF DrawRoll, tables, history
<1>4. CASE NextSystem(r)
    BY <1>4 DEF NextSystem, history
<1> QED
    BY <1>1, <1>2, <1>3, <1>4 DEF DrawsNumber

LEMMA DrawsGoTo ==
    ASSUME TypesInv, NEW r \in Requests, DrawsNumber(r)
    PROVE  \/ Finish(r)
           \/ \E l \in StudentLocal : /\ Goto(r, NextStep(l), l) /\ ~NextSystem(r)
                                      /\ l.student = local[r].student
           \/ NextSystem(r) /\ \E l \in StudentLocal : Goto(r, "student", l)
                                      /\ l.student = local[r].student
<1>l. /\ local[r] \in StudentLocal /\ local[r].place \in Place
      /\ local[r].student \in Students /\ local[r].admission \in Number
      /\ local[r].roll \in Number /\ local[r].system \in Nat
    <2>1. pc[r] \in StudentSteps
        BY DrawsWriteNothing DEF StudentSteps
    <2> QED
        BY <2>1, HandlerOf
<1>1. CASE Resolve(r)
    <2>1. ~NextSystem(r)
        BY <1>1, StepsOf
    <2> QED
        BY <1>1, <2>1, Resolves DEF Found
<1>2. CASE ReserveAdmission(r)
    <2> DEFINE n == NextAdmission(counter.admission)
               l == [local[r] EXCEPT !.admission = n]
    <2>1. n \in Nat
        BY DEF NextAdmission, TypesInv, TypeOK
    <2>2. l \in StudentLocal /\ l.student = local[r].student
        BY <1>l, <2>1 DEF StudentLocal, Number
    <2>3. Goto(r, NextStep(l), l)
        BY <1>2 DEF ReserveAdmission
    <2>4. ~NextSystem(r)
        BY <1>2, StepsOf
    <2> QED
        BY <2>2, <2>3, <2>4
<1>3. CASE DrawRoll(r)
    <2> DEFINE l == [local[r] EXCEPT !.roll = nextRollNumber(local[r].place),
                                     !.seen = Rivals(local[r].student, local[r].place)]
    <2>1. l \in StudentLocal /\ l.student = local[r].student
        BY <1>l, NextRoll, RivalsTyped DEF StudentLocal, Number
    <2>2. Goto(r, NextStep(l), l)
        BY <1>3 DEF DrawRoll
    <2>3. ~NextSystem(r)
        BY <1>3, StepsOf
    <2> QED
        BY <2>1, <2>2, <2>3
<1>4. CASE NextSystem(r)
    <2> DEFINE l == [local[r] EXCEPT !.system = counter.system + 1]
    <2>1. counter.system + 1 \in Nat
        BY DEF TypesInv, TypeOK
    <2>2. l \in StudentLocal /\ l.student = local[r].student
        BY <1>l, <2>1 DEF StudentLocal
    <2>3. Goto(r, "student", l)
        BY <1>4 DEF NextSystem
    <2> QED
        BY <1>4, <2>2, <2>3
<1> QED
    BY <1>1, <1>2, <1>3, <1>4 DEF DrawsNumber

LEMMA PlaceKept ==
    ASSUME TypesInv, PlaceInv, StudentStart \/ (\E r \in Requests : StudentContinue(r)), YearsSame
    PROVE  PlaceInv'
<1>1. UNCHANGED <<year, late>>
    BY DEF YearsSame, yearVars
<1>2. ASSUME NEW r \in Requests, StudentContinue(r) \/ StudentHandlerFails(r) PROVE PlaceInv'
    <2>1. \A q \in Requests : pc'[q] \in StudentSteps =>
             pc[q] \in StudentSteps /\ local'[q].place = local[q].place
        BY <1>2, Continues, Went DEF Finish, StudentSteps
    <2> QED
        BY <1>1, <2>1 DEF PlaceInv
<1>3. ASSUME NEW r \in Requests, NEW s, NEW place, NEW admission, NEW roll,
             Arrive(r, s, place, admission, roll)
      PROVE  PlaceInv'
    <2>1. /\ pc'[r] = "resolve" /\ local'[r].place = place
          /\ \A q \in Requests \ {r} : pc'[q] = pc[q] /\ local'[q] = local[q]
        BY <1>3, Went DEF Arrive
    <2>2. place[1] \in DOMAIN year /\ ~year[place[1]].frozen
        BY <1>3 DEF Arrive, canActivate
    <2> QED
        BY <1>1, <2>1, <2>2 DEF PlaceInv
<1>4. ASSUME NEW r \in Requests, NEW s, DeleteStudent(r, s) PROVE PlaceInv'
    BY <1>1, <1>4 DEF DeleteStudent, PlaceInv
<1>5. ASSUME NEW n, SetStartNumber(n) PROVE PlaceInv'
    BY <1>1, <1>5 DEF SetStartNumber, PlaceInv
<1>6. CASE StudentStart
    BY <1>2, <1>3, <1>4, <1>5, <1>6 DEF StudentStart, CreateStudent, UpdateStudent
<1> QED
    BY <1>2, <1>6

LEMMA ServingKept ==
    ASSUME TypesInv, ServingInv, StudentStart \/ (\E r \in Requests : StudentContinue(r))
    PROVE  ServingInv'
<1>1. ASSUME NEW r \in Requests, StudentContinue(r) \/ StudentHandlerFails(r) PROVE ServingInv'
    <2>1. \A q \in Requests : pc'[q] \in StudentSteps =>
             pc[q] \in StudentSteps /\ local'[q].student = local[q].student
        BY <1>1, Continues, Went DEF Finish, StudentSteps
    <2>2. \A s : \A q \in Serving(s)' : q \in Serving(s)
        BY <2>1 DEF Serving
    <2>3. \A q \in Requests \ {r} : pc'[q] = pc[q] /\ local'[q] = local[q]
        BY <1>1, Continues, Went DEF Finish
    <2>4. /\ DOMAIN student' = DOMAIN student \/ (/\ InsertStudent(r)
                /\ DOMAIN student' = DOMAIN student \cup {local[r].student})
          /\ pc'[r] \in {"system", "student"} => local'[r].student \notin DOMAIN student'
          /\ pc'[r] \in {"clear", "insert"} => local'[r].student \in DOMAIN student'
          /\ \A i \in DOMAIN record' : record'[i].student \in DOMAIN student'
        <3>1. CASE DrawsNumber(r)
            <4>1. UNCHANGED <<student, record>>
                BY <3>1, DrawsWriteNothing
            <4>2. ASSUME NEW l, Goto(r, NextStep(l), l)
                  PROVE  /\ pc'[r] \in {"system", "student"} =>
                                local'[r].student \notin DOMAIN student
                         /\ pc'[r] \in {"clear", "insert"} => local'[r].student \in DOMAIN student
                BY <4>2, Went DEF NextStep
            <4>3. NextSystem(r) => pc'[r] = "student" /\ local[r].student \notin DOMAIN student
                BY Went, StepsOf DEF NextSystem, ServingInv, StudentSteps
            <4>4. Finish(r) => pc'[r] = "idle"
                BY Went DEF Finish
            <4>5. pc'[r] \in StudentSteps => local'[r].student = local[r].student
                BY <2>1
            <4> QED
                BY <3>1, <4>1, <4>2, <4>3, <4>4, <4>5, DrawsGoTo DEF ServingInv, StudentSteps
        <3>2. CASE InsertStudent(r)
            <4>1. pc'[r] = "clear" /\ local'[r] = local[r] /\ UNCHANGED record
                  /\ DOMAIN student' = DOMAIN student \cup {local[r].student}
                BY <3>2, Went DEF InsertStudent
            <4> QED
                BY <3>2, <4>1 DEF ServingInv
        <3>3. CASE ClearRecords(r)
            <4>1. /\ pc[r] = "clear" /\ pc'[r] = "insert" /\ local'[r] = local[r]
                  /\ UNCHANGED student /\ DOMAIN record' = DOMAIN record
                  /\ \A i \in DOMAIN record : record'[i].student = record[i].student
                BY <3>3, Went, RecordTyped DEF ClearRecords, Record
            <4> QED
                BY <4>1 DEF ServingInv, StudentSteps
        <3>4. CASE InsertRecord(r)
            <4>1. /\ pc[r] = "insert" /\ pc'[r] = "idle" /\ UNCHANGED student
                  /\ \A i \in DOMAIN record' : i \notin DOMAIN record =>
                        record'[i].student = local[r].student
                  /\ \A i \in DOMAIN record : record'[i] = record[i]
                BY <3>4, Went, RecordTyped DEF InsertRecord, Finish
            <4> QED
                BY <4>1 DEF ServingInv, StudentSteps
        <3>5. CASE StudentHandlerFails(r)
            BY <3>5, Went DEF StudentHandlerFails, Finish, tables, ServingInv
        <3> QED
            BY <1>1, <3>1, <3>2, <3>3, <3>4, <3>5 DEF StudentContinue, DrawsNumber
    <2>5. ASSUME NEW q \in Requests \ {r}, pc'[q] \in StudentSteps
          PROVE  /\ pc'[q] \in {"system", "student"} => local'[q].student \notin DOMAIN student'
                 /\ pc'[q] \in {"clear", "insert"} => local'[q].student \in DOMAIN student'
        <3>1. ASSUME InsertStudent(r), pc[q] \in {"system", "student"}
              PROVE  local[q].student # local[r].student
            BY <2>5, <2>3, <3>1, StepsOf DEF ServingInv, Serving, StudentSteps
        <3> QED
            BY <2>3, <2>4, <2>5, <3>1 DEF ServingInv
    <2> QED
        BY <2>1, <2>2, <2>4, <2>5 DEF ServingInv
<1>2. ASSUME NEW r \in Requests, NEW s, NEW place, NEW admission, NEW roll,
             \/ CreateStudent(r, s, place, admission, roll)
             \/ UpdateStudent(r, s, place, admission, roll)
      PROVE  ServingInv'
    <2>1. /\ pc'[r] = "resolve" /\ local'[r].student = s
          /\ \A q \in Requests \ {r} : pc'[q] = pc[q] /\ local'[q] = local[q]
          /\ UNCHANGED <<student, record>>
        BY <1>2, Went DEF CreateStudent, UpdateStudent, Arrive, tables
    <2>2. s \in DOMAIN student \/ Serving(s) = {}
        BY <1>2 DEF CreateStudent, UpdateStudent, Enrolled
    <2> QED
        BY <2>1, <2>2 DEF ServingInv, Serving
<1>3. ASSUME NEW r \in Requests, NEW s, DeleteStudent(r, s) PROVE ServingInv'
    BY <1>3 DEF DeleteStudent, ServingInv, Serving
<1>4. ASSUME NEW n, SetStartNumber(n) PROVE ServingInv'
    BY <1>4 DEF SetStartNumber, ServingInv, Serving
<1>5. CASE StudentStart
    BY <1>1, <1>2, <1>3, <1>4, <1>5 DEF StudentStart
<1> QED
    BY <1>1, <1>5


LEMMA SystemKept ==
    ASSUME TypesInv, ServingInv, SystemInv,
           StudentStart \/ (\E r \in Requests : StudentContinue(r))
    PROVE  SystemInv'
<1>types. /\ counter.system \in Nat
          /\ \A s \in DOMAIN student : student[s] \in StudentRow /\ student[s].system \in Nat
    BY DEF TypesInv, TypeOK, StudentRow
<1>idle. ASSUME \A q \in Requests : pc'[q] = "student" => pc[q] = "student" /\ local'[q] = local[q],
                counter'.system = counter.system, DOMAIN student' = DOMAIN student,
                \A s \in DOMAIN student : student'[s].system = student[s].system
         PROVE  SystemInv'
    BY <1>idle DEF SystemInv
<1>1. ASSUME NEW r \in Requests, StudentContinue(r) \/ StudentHandlerFails(r) PROVE SystemInv'
    <2>1. /\ pc[r] \in StudentSteps /\ local[r].system \in Nat
          /\ \A q \in Requests \ {r} : pc'[q] = pc[q] /\ local'[q] = local[q]
        BY <1>1, Continues, HandlerOf, Went DEF Finish
    <2>2. CASE NextSystem(r)
        <3>1. /\ pc'[r] = "student" /\ counter'.system = counter.system + 1
              /\ local'[r].system = counter.system + 1 /\ UNCHANGED student
            BY <2>1, <2>2, Went, HandlerOf DEF NextSystem, StudentLocal, TypesInv, TypeOK
        <3>2. \A q \in Requests \ {r} : pc[q] = "student" => local[q].system \in Nat
            BY HandlerOf DEF StudentSteps
        <3> QED
            BY <1>types, <2>1, <3>1, <3>2 DEF SystemInv
    <2>3. CASE InsertStudent(r)
        <3>1. /\ pc[r] = "student" /\ pc'[r] = "clear" /\ UNCHANGED counter
              /\ DOMAIN student' = DOMAIN student \cup {local[r].student}
              /\ student'[local[r].student].system = local[r].system
              /\ \A s \in DOMAIN student : s # local[r].student => student'[s] = student[s]
            BY <2>3, Went DEF InsertStudent
        <3>2. local[r].student \notin DOMAIN student
            BY <2>1, <3>1 DEF ServingInv
        <3> QED
            BY <1>types, <2>1, <3>1, <3>2 DEF SystemInv
    <2>4. CASE DrawsNumber(r) /\ ~NextSystem(r)
        <3>1. UNCHANGED student /\ counter'.system = counter.system
            <4>1. CASE ReserveAdmission(r)
                BY <4>1 DEF ReserveAdmission, TypesInv, TypeOK
            <4>2. CASE Resolve(r)
                BY <4>2 DEF Resolve, tables
            <4>3. CASE DrawRoll(r)
                BY <4>3 DEF DrawRoll, tables
            <4> QED
                BY <2>4, <4>1, <4>2, <4>3 DEF DrawsNumber
        <3>2. pc'[r] # "student"
            BY <2>4, DrawsGoTo, NextStepTyped, Went DEF Finish
        <3> QED
            BY <1>idle, <2>1, <3>1, <3>2
    <2>5. CASE ClearRecords(r) \/ InsertRecord(r) \/ StudentHandlerFails(r)
        <3>1. UNCHANGED <<student, counter>>
            BY <2>5 DEF ClearRecords, InsertRecord, StudentHandlerFails, tables
        <3>2. pc'[r] # "student"
            BY <2>5, Went DEF ClearRecords, InsertRecord, StudentHandlerFails, Finish
        <3> QED
            BY <1>idle, <2>1, <3>1, <3>2
    <2> QED
        BY <1>1, <2>2, <2>3, <2>4, <2>5 DEF StudentContinue, DrawsNumber
<1>2. ASSUME NEW r \in Requests, NEW s, NEW place, NEW admission, NEW roll,
             Arrive(r, s, place, admission, roll)
      PROVE  SystemInv'
    BY <1>2, <1>idle, Went DEF Arrive, tables
<1>3. ASSUME NEW r \in Requests, NEW s, DeleteStudent(r, s) PROVE SystemInv'
    <2>1. \A t \in DOMAIN student : student'[t].system = student[t].system
        BY <1>3, <1>types DEF DeleteStudent, StudentRow
    <2> QED
        BY <1>3, <1>idle, <2>1 DEF DeleteStudent
<1>4. ASSUME NEW n, SetStartNumber(n) PROVE SystemInv'
    BY <1>4, <1>idle DEF SetStartNumber
<1>5. CASE StudentStart
    BY <1>1, <1>2, <1>3, <1>4, <1>5 DEF StudentStart, CreateStudent, UpdateStudent
<1> QED
    BY <1>1, <1>5

\* No number comes into a hand.
LEMMA HoldsLess ==
    ASSUME TypesInv, AdmissionInv, typed \subseteq typed', counter'.admission \in Nat,
           counter'.admission >= counter.admission,
           \A n \in Nat : n \notin typed' => \A s \in Students : Holds(s, n)' => Holds(s, n)
    PROVE  AdmissionInv'
<1>1. counter.admission \in Nat
    BY DEF TypesInv, TypeOK
<1> QED
    BY <1>1 DEF AdmissionInv

LEMMA AdmissionKept ==
    ASSUME TypesInv, AdmissionInv, StudentStart \/ (\E r \in Requests : StudentContinue(r))
    PROVE  AdmissionInv'
<1>types. counter.admission \in Nat
    BY DEF TypesInv, TypeOK
<1>1. ASSUME NEW r \in Requests, StudentContinue(r) \/ StudentHandlerFails(r) PROVE AdmissionInv'
    <2>1. /\ pc[r] \in StudentSteps /\ UNCHANGED typed
          /\ local[r].student \in Students
          /\ \A q \in Requests \ {r} : pc'[q] = pc[q] /\ local'[q] = local[q]
          /\ pc'[r] \in StudentSteps => local'[r].student = local[r].student
        BY <1>1, Continues, HandlerOf, Went DEF Finish, StudentSteps
    <2>less. ASSUME counter'.admission = counter.admission,
                    \A i \in DOMAIN record' : record'[i].admission \in Nat =>
                        Holds(record'[i].student, record'[i].admission),
                    pc'[r] \in StudentSteps /\ local'[r].admission \in Nat =>
                        Holds(local[r].student, local'[r].admission)
             PROVE  AdmissionInv'
        <3>1. ASSUME NEW n \in Nat, NEW s \in Students, Holds(s, n)' PROVE Holds(s, n)
            <4>1. CASE \E i \in DOMAIN record' :
                          record'[i].student = s /\ record'[i].admission = n
                BY <2>less, <4>1
            <4>2. CASE \E q \in Requests : pc'[q] \in StudentSteps
                          /\ local'[q].student = s /\ local'[q].admission = n
                <5>1. PICK q \in Requests : pc'[q] \in StudentSteps
                          /\ local'[q].student = s /\ local'[q].admission = n
                    BY <4>2
                <5>2. CASE q = r
                    BY <2>1, <2>less, <5>1, <5>2
                <5>3. CASE q # r
                    BY <2>1, <5>1, <5>3 DEF Holds
                <5> QED
                    BY <5>2, <5>3
            <4> QED
                BY <3>1, <4>1, <4>2 DEF Holds
        <3> QED
            BY <1>types, <2>1, <2>less, <3>1, HoldsLess
    <2>own. Holds(local[r].student, local[r].admission)
        BY <2>1 DEF Holds
    <2>rows. \A i \in DOMAIN record : Holds(record[i].student, record[i].admission)
        BY DEF Holds
    <2>2. CASE Resolve(r)
        <3>1. UNCHANGED <<record, counter>>
            BY <2>2 DEF Resolve, tables
        <3>2. ASSUME pc'[r] \in StudentSteps PROVE Holds(local[r].student, local'[r].admission)
            <4>1. PICK m : Found(r, m) /\ Goto(r, NextStep(m), m)
                <5>1. ~Finish(r)
                    BY <3>2, Went DEF Finish, StudentSteps
                <5> QED
                    BY <2>2, <5>1, Resolves
            <4>2. local'[r] = m
                BY <4>1, Went
            <4> QED
                BY <4>1, <4>2, <2>own, <2>rows DEF Found
        <3> QED
            BY <2>less, <2>rows, <3>1, <3>2
    <2>3. CASE ReserveAdmission(r)
        <3> DEFINE n == NextAdmission(counter.admission)
        <3>1. n \in Nat /\ n > counter.admission
            BY DEF NextAdmission, TypesInv, TypeOK
        <3>2. /\ counter'.admission = n /\ UNCHANGED record
              /\ local'[r].admission = n /\ local'[r].student = local[r].student
            BY <2>1, <2>3, Went, HandlerOf DEF ReserveAdmission, TypesInv, TypeOK, StudentLocal
        <3> HIDE DEF n
        <3>3. ASSUME NEW s \in Students, NEW k \in Nat, Holds(s, k)'
              PROVE  Holds(s, k) \/ (k = n /\ s = local[r].student)
            <4>1. CASE \E i \in DOMAIN record' :
                          record'[i].student = s /\ record'[i].admission = k
                BY <3>2, <4>1 DEF Holds
            <4>2. CASE \E q \in Requests : pc'[q] \in StudentSteps
                          /\ local'[q].student = s /\ local'[q].admission = k
                BY <2>1, <3>2, <4>2 DEF Holds
            <4> QED
                BY <3>3, <4>1, <4>2 DEF Holds
        <3>4. \A s \in Students, k \in Nat : k \notin typed /\ Holds(s, k) =>
                 k <= counter.admission /\ k # n
            BY <3>1, <1>types DEF AdmissionInv
        <3>5. SUFFICES ASSUME NEW k \in Nat, k \notin typed, NEW s \in Students, NEW t \in Students,
                              Holds(s, k)'
                       PROVE  k <= n /\ (Holds(t, k)' => s = t)
            BY <2>1, <3>2 DEF AdmissionInv
        <3>6. k <= n
            BY <1>types, <3>1, <3>3, <3>4, <3>5
        <3>7. ASSUME Holds(t, k)' PROVE s = t
            BY <3>3, <3>4, <3>5, <3>7 DEF AdmissionInv
        <3> QED
            BY <3>6, <3>7
    <2>4. CASE DrawRoll(r) \/ NextSystem(r) \/ InsertStudent(r)
        <3>1. /\ UNCHANGED record /\ counter'.admission = counter.admission
              /\ local'[r].admission = local[r].admission
            <4>1. CASE DrawRoll(r)
                <5> DEFINE l == [local[r] EXCEPT
                                    !.roll = nextRollNumber(local[r].place),
                                    !.seen = Rivals(local[r].student, local[r].place)]
                <5>1. UNCHANGED <<record, counter>> /\ Goto(r, NextStep(l), l)
                    BY <4>1 DEF DrawRoll, tables
                <5>2. l.admission = local[r].admission
                    BY <2>1, HandlerOf DEF StudentLocal
                <5> HIDE DEF l
                <5>3. local'[r] = l
                    BY <5>1, Went
                <5> QED
                    BY <5>1, <5>2, <5>3
            <4>2. CASE NextSystem(r)
                BY <2>1, <4>2, Went, HandlerOf DEF NextSystem, StudentLocal, TypesInv, TypeOK
            <4>3. CASE InsertStudent(r)
                BY <4>3, Went DEF InsertStudent
            <4> QED
                BY <2>4, <4>1, <4>2, <4>3
        <3> QED
            BY <2>less, <2>own, <2>rows, <3>1
    <2>5. CASE ClearRecords(r)
        <3>1. /\ DOMAIN record' = DOMAIN record /\ UNCHANGED counter /\ local'[r] = local[r]
              /\ \A i \in DOMAIN record : /\ record'[i].student = record[i].student
                                          /\ record'[i].admission = record[i].admission
            BY <2>5, Went, RecordTyped DEF ClearRecords, Record
        <3> QED
            BY <2>less, <2>own, <2>rows, <3>1
    <2>6. CASE InsertRecord(r)
        <3>1. /\ UNCHANGED counter /\ pc'[r] = "idle"
              /\ \A i \in DOMAIN record' : i \notin DOMAIN record =>
                    /\ record'[i].student = local[r].student
                    /\ record'[i].admission = local[r].admission
              /\ \A i \in DOMAIN record : record'[i] = record[i]
            BY <2>6, Went, RecordTyped DEF InsertRecord, Finish
        <3> QED
            BY <2>less, <2>own, <2>rows, <3>1 DEF StudentSteps
    <2>7. CASE StudentHandlerFails(r)
        <3>1. UNCHANGED <<record, counter>> /\ pc'[r] = "idle"
            BY <2>7, Went DEF StudentHandlerFails, Finish, tables
        <3> QED
            BY <2>less, <2>rows, <3>1 DEF StudentSteps
    <2> QED
        BY <1>1, <2>2, <2>3, <2>4, <2>5, <2>6, <2>7 DEF StudentContinue
<1>2. ASSUME NEW r \in Requests, NEW s, NEW place, NEW admission, NEW roll,
             Arrive(r, s, place, admission, roll)
      PROVE  AdmissionInv'
    <2>1. /\ pc'[r] = "resolve" /\ local'[r].admission = admission
          /\ \A q \in Requests \ {r} : pc'[q] = pc[q] /\ local'[q] = local[q]
          /\ UNCHANGED <<record, counter>> /\ typed' = typed \cup ({admission} \ {None})
        BY <1>2, Went DEF Arrive, tables
    <2>2. \A n \in Nat : n \notin typed' => n # admission
        BY <2>1, StudentAssumption
    <2>3. \A n \in Nat : n \notin typed' => \A t \in Students : Holds(t, n)' => Holds(t, n)
        BY <2>1, <2>2 DEF Holds
    <2> QED
        BY <1>types, <2>1, <2>3, HoldsLess
<1>3. ASSUME NEW r \in Requests, NEW s, DeleteStudent(r, s) PROVE AdmissionInv'
    BY <1>3, <1>types, HoldsLess DEF DeleteStudent, Holds, history
<1>4. ASSUME NEW n, SetStartNumber(n) PROVE AdmissionInv'
    BY <1>4, <1>types, HoldsLess DEF SetStartNumber, Holds, history
<1>5. CASE StudentStart
    BY <1>1, <1>2, <1>3, <1>4, <1>5 DEF StudentStart, CreateStudent, UpdateStudent
<1> QED
    BY <1>1, <1>5


\* What a handler knows of rolls holds as long as rows of others do not change.
RollKnown(l) ==
    l.roll # None =>
        \/ Deleted(l.student)
        \/ l.place \in rollsRaced
        \/ \A p \in l.seen : p[2] # l.roll

RollsApart ==
    \A i, j \in Live :
        /\ record[i].student # record[j].student
        /\ record[i].place = record[j].place /\ record[i].place \notin rollsRaced
        => record[i].roll # record[j].roll

LEMMA RollParts ==
    RollInv <=> /\ RollsApart
                /\ \A r \in Requests : pc[r] \in Resolved => RollKnown(local[r])
    BY DEF RollInv, RollsApart, RollKnown

\* Fewer live records, with the same numbers.
LEMMA LiveLess ==
    ASSUME RollsApart, Live' \subseteq Live, rollsRaced' = rollsRaced,
           \A i \in Live' : /\ record'[i].student = record[i].student
                            /\ record'[i].place = record[i].place
                            /\ record'[i].roll = record[i].roll
    PROVE  RollsApart'
    BY DEF RollsApart

LEMMA KnownStays ==
    ASSUME rollsRaced \subseteq rollsRaced', \A s : Deleted(s) => Deleted(s)',
           NEW r, RollKnown(local[r]), local'[r] = local[r]
    PROVE  RollKnown(local[r])'
    BY DEF RollKnown

\* The roll number that Resolve or DrawRoll leaves with a handler.
LEMMA FoundKnown ==
    ASSUME TypesInv, ServingInv, RollInv, NEW r \in Requests, NEW m, Found(r, m)
    PROVE  RollKnown(m)
<1> SUFFICES ASSUME m.roll # None, ~Deleted(m.student), m.place \notin rollsRaced
             PROVE  \A p \in m.seen : p[2] # m.roll
    BY DEF RollKnown
<1> DEFINE s == local[r].student
           place == local[r].place
<1>1. m.student = s /\ m.place = place /\ m.seen = Rivals(s, place)
    BY DEF Found
<1>2. CASE m.roll = local[r].roll /\ ~RollClash(s, place, m.roll)
    BY <1>1, <1>2 DEF RollClash
<1>3. ASSUME NEW i \in DOMAIN record, record[i].student = s, record[i].current,
             record[i].place = place, record[i].roll = m.roll
      PROVE  \A p \in m.seen : p[2] # m.roll
    <2>1. i \in Live
        BY <1>1, <1>3 DEF Live, Enrolled, Deleted, ServingInv
    <2> SUFFICES ASSUME NEW p \in Rivals(s, place) PROVE p[2] # m.roll
        BY <1>1
    <2>2. PICK j \in InPlace(place) : record[j].student # s
             /\ p = <<record[j].student, record[j].roll>>
        BY DEF Rivals
    <2>3. j \in Live /\ record[j].place = place
        BY <2>2 DEF InPlace
    <2> QED
        BY <1>1, <1>3, <2>1, <2>2, <2>3 DEF RollInv
<1> QED
    BY <1>2, <1>3 DEF Found

LEMMA RollKept ==
    ASSUME TypesInv, ServingInv, RollInv,
           StudentStart \/ (\E r \in Requests : StudentContinue(r))
    PROVE  RollInv'
<1>0. RollsApart /\ \A r \in Requests : pc[r] \in Resolved => RollKnown(local[r])
    BY RollParts
<1>parts. ASSUME RollsApart', \A q \in Requests : pc'[q] \in Resolved => RollKnown(local[q])'
          PROVE  RollInv'
    BY <1>parts DEF RollInv, RollsApart, RollKnown
<1>same. ASSUME UNCHANGED <<student, record, rollsRaced>>
         PROVE  RollsApart' /\ \A s : Deleted(s)' = Deleted(s)
    <2>1. Live' = Live
        BY <1>same DEF Live, Enrolled
    <2> QED
        BY <1>0, <1>same, <2>1, LiveLess DEF Deleted
<1>1. ASSUME NEW r \in Requests, StudentContinue(r) \/ StudentHandlerFails(r) PROVE RollInv'
    <2>1. /\ pc[r] \in StudentSteps /\ local[r] \in StudentLocal
          /\ \A q \in Requests \ {r} : pc'[q] = pc[q] /\ local'[q] = local[q]
        BY <1>1, Continues, HandlerOf, Went DEF Finish
    <2>others. ASSUME RollsApart', rollsRaced \subseteq rollsRaced',
                      \A s : Deleted(s) => Deleted(s)',
                      pc'[r] \in Resolved => RollKnown(local[r])'
               PROVE  RollInv'
        <3>1. \A q \in Requests \ {r} : pc'[q] \in Resolved => RollKnown(local[q])'
            BY <1>0, <2>1, <2>others, KnownStays
        <3> QED
            BY <1>parts, <2>others, <3>1
    <2>2. CASE Resolve(r)
        <3>1. UNCHANGED <<student, record, rollsRaced>>
            BY <2>2 DEF Resolve, tables, history
        <3>2. ASSUME pc'[r] \in Resolved PROVE RollKnown(local[r])'
            <4>1. PICK m : Found(r, m) /\ Goto(r, NextStep(m), m)
                <5>1. ~Finish(r)
                    BY <3>2, Went DEF Finish, Resolved, Drawn
                <5> QED
                    BY <2>2, <5>1, Resolves
            <4>2. local'[r] = m
                BY <4>1, Went
            <4>3. RollKnown(m)
                BY <4>1, FoundKnown
            <4> QED
                BY <1>same, <3>1, <4>2, <4>3 DEF RollKnown
        <3> QED
            BY <1>same, <2>others, <3>1, <3>2
    <2>3. CASE DrawRoll(r)
        <3> DEFINE l == [local[r] EXCEPT
                            !.roll = nextRollNumber(local[r].place),
                            !.seen = Rivals(local[r].student, local[r].place)]
        <3>1. UNCHANGED <<student, record, rollsRaced>> /\ Goto(r, NextStep(l), l)
            BY <2>3 DEF DrawRoll, tables, history
        <3>2. /\ l.roll = nextRollNumber(local[r].place)
              /\ l.seen = Rivals(local[r].student, local[r].place)
            BY <2>1 DEF StudentLocal
        <3>3. \A p \in l.seen : p[2] # l.roll
            BY <3>2, NextRoll
        <3> HIDE DEF l
        <3>4. local'[r] = l
            BY <3>1, Went
        <3> QED
            BY <1>same, <2>others, <3>1, <3>3, <3>4 DEF RollKnown
    <2>4. CASE ReserveAdmission(r) \/ NextSystem(r)
        <3>1. UNCHANGED <<student, record, rollsRaced>> /\ pc[r] \in {"admission", "system"}
            BY <2>4, StepsOf, DrawsWriteNothing DEF DrawsNumber
        <3>2. /\ local'[r].roll = local[r].roll /\ local'[r].seen = local[r].seen
              /\ local'[r].student = local[r].student /\ local'[r].place = local[r].place
            <4>1. CASE ReserveAdmission(r)
                <5> DEFINE n == NextAdmission(counter.admission)
                           l == [local[r] EXCEPT !.admission = n]
                <5>1. local'[r] = l
                    BY <4>1, Went DEF ReserveAdmission
                <5> QED
                    BY <2>1, <5>1 DEF StudentLocal
            <4>2. CASE NextSystem(r)
                BY <2>1, <4>2, Went DEF NextSystem, StudentLocal
            <4> QED
                BY <2>4, <4>1, <4>2
        <3>3. RollKnown(local[r])
            BY <1>0, <3>1 DEF Resolved, Drawn
        <3> QED
            BY <1>same, <2>others, <3>1, <3>2, <3>3 DEF RollKnown
    <2>5. CASE InsertStudent(r)
        <3>1. /\ UNCHANGED <<record, rollsRaced>> /\ pc[r] = "student" /\ local'[r] = local[r]
              /\ DOMAIN student' = DOMAIN student \cup {local[r].student}
              /\ \A s \in DOMAIN student : s # local[r].student => student'[s] = student[s]
            BY <2>5, Went DEF InsertStudent, history
        <3>2. local[r].student \notin DOMAIN student
            BY <2>1, <3>1 DEF ServingInv
        <3>3. \A s : Deleted(s) => Deleted(s)'
            BY <3>1, <3>2 DEF Deleted
        <3>4. Live' \subseteq Live
            BY <3>1, <3>2 DEF Live, Enrolled, ServingInv
        <3>5. RollsApart'
            BY <1>0, <3>1, <3>4, LiveLess
        <3>6. RollKnown(local[r])'
            BY <1>0, <3>1, <3>3, KnownStays DEF Resolved, Drawn
        <3> QED
            BY <2>others, <3>1, <3>3, <3>5, <3>6
    <2>6. CASE ClearRecords(r)
        <3>1. /\ UNCHANGED <<student, rollsRaced>> /\ pc[r] = "clear" /\ local'[r] = local[r]
              /\ DOMAIN record' = DOMAIN record
              /\ \A i \in DOMAIN record : /\ record'[i].student = record[i].student
                                          /\ record'[i].place = record[i].place
                                          /\ record'[i].roll = record[i].roll
                                          /\ record'[i].current => record[i].current
            BY <2>6, Went, RecordTyped DEF ClearRecords, Record
        <3>2. Live' \subseteq Live
            BY <3>1 DEF Live, Enrolled
        <3>3. RollsApart'
            BY <1>0, <3>1, <3>2, LiveLess DEF Live
        <3>4. \A s : Deleted(s) => Deleted(s)'
            BY <3>1 DEF Deleted
        <3>5. RollKnown(local[r])'
            BY <1>0, <3>1, <3>4, KnownStays DEF Resolved, Drawn
        <3> QED
            BY <2>others, <3>1, <3>3, <3>4, <3>5
    <2>7. CASE InsertRecord(r)
        <3> DEFINE s == local[r].student
                   place == local[r].place
        <3>1. /\ UNCHANGED student /\ pc[r] = "insert" /\ pc'[r] = "idle"
              /\ \A i \in DOMAIN record' : i \notin DOMAIN record =>
                    /\ record'[i].student = s /\ record'[i].place = place
                    /\ record'[i].roll = local[r].roll /\ i = Len(record) + 1
              /\ \A i \in DOMAIN record : record'[i] = record[i]
            BY <2>7, Went, RecordTyped DEF InsertRecord, Finish
        <3>2. /\ rollsRaced \subseteq rollsRaced'
              /\ place \notin rollsRaced' => Rivals(s, place) \subseteq local[r].seen
            BY <2>7 DEF InsertRecord
        <3>3. RollKnown(local[r]) /\ local[r].roll # None
            <4>1. local[r].roll \in Nat
                BY <3>1 DEF TypesInv, Drawn
            <4> QED
                BY <1>0, <3>1, <4>1, StudentAssumption DEF Resolved, Drawn
        <3>4. ASSUME NEW i \in Live', i \notin DOMAIN record, place \notin rollsRaced',
                     NEW j \in Live, record[j].student # s, record[j].place = place
              PROVE  record[j].roll # local[r].roll
            <4>1. <<record[j].student, record[j].roll>> \in local[r].seen
                BY <3>2, <3>4 DEF Rivals, InPlace
            <4>2. ~Deleted(s)
                BY <3>1, <3>4 DEF Live, Enrolled, Deleted
            <4> QED
                BY <3>2, <3>3, <3>4, <4>1, <4>2 DEF RollKnown
        <3>5. \A i \in Live' : i \in DOMAIN record => i \in Live
            BY <3>1 DEF Live, Enrolled
        <3>6. RollsApart'
            <4> SUFFICES ASSUME NEW i \in Live', NEW j \in Live',
                                record'[i].student # record'[j].student,
                                record'[i].place = record'[j].place,
                                record'[i].place \notin rollsRaced'
                         PROVE  record'[i].roll # record'[j].roll
                BY DEF RollsApart
            <4>0. i \in DOMAIN record' /\ j \in DOMAIN record'
                BY DEF Live
            <4>1. CASE i \in DOMAIN record /\ j \in DOMAIN record
                BY <1>0, <3>1, <3>2, <3>5, <4>1 DEF RollsApart
            <4>2. CASE i \notin DOMAIN record /\ j \in DOMAIN record
                BY <3>1, <3>4, <3>5, <4>0, <4>2
            <4>3. CASE i \in DOMAIN record /\ j \notin DOMAIN record
                BY <3>1, <3>4, <3>5, <4>0, <4>3
            <4>4. CASE i \notin DOMAIN record /\ j \notin DOMAIN record
                BY <3>1, <4>0, <4>4
            <4> QED
                BY <4>1, <4>2, <4>3, <4>4
        <3>7. \A t : Deleted(t) => Deleted(t)'
            BY <3>1 DEF Deleted
        <3> QED
            BY <2>others, <3>1, <3>2, <3>6, <3>7 DEF Resolved, Drawn
    <2>8. CASE StudentHandlerFails(r)
        <3>1. UNCHANGED <<student, record, rollsRaced>> /\ pc'[r] = "idle"
            BY <2>8, Went DEF StudentHandlerFails, Finish, tables
        <3> QED
            BY <1>same, <2>others, <3>1 DEF Resolved, Drawn
    <2> QED
        BY <1>1, <2>2, <2>3, <2>4, <2>5, <2>6, <2>7, <2>8 DEF StudentContinue
<1>2. ASSUME NEW r \in Requests, NEW s, NEW place, NEW admission, NEW roll,
             Arrive(r, s, place, admission, roll)
      PROVE  RollInv'
    <2>1. /\ pc'[r] = "resolve" /\ UNCHANGED <<student, record, rollsRaced>>
          /\ \A q \in Requests \ {r} : pc'[q] = pc[q] /\ local'[q] = local[q]
        BY <1>2, Went DEF Arrive, tables
    <2>2. \A q \in Requests : pc'[q] \in Resolved => RollKnown(local[q])'
        BY <1>0, <1>same, <2>1, KnownStays DEF Resolved, Drawn
    <2> QED
        BY <1>parts, <1>same, <2>1, <2>2
<1>3. ASSUME NEW r \in Requests, NEW s, DeleteStudent(r, s) PROVE RollInv'
    <2>1. /\ UNCHANGED <<pc, local, record, rollsRaced>> /\ DOMAIN student' = DOMAIN student
          /\ \A t \in DOMAIN student : student[t].deleted => student'[t].deleted
        BY <1>3 DEF DeleteStudent, history, TypesInv, TypeOK, StudentRow
    <2>2. Live' \subseteq Live /\ \A t : Deleted(t) => Deleted(t)'
        BY <2>1 DEF Live, Enrolled, Deleted
    <2>3. RollsApart'
        BY <1>0, <2>1, <2>2, LiveLess
    <2>4. \A q \in Requests : pc'[q] \in Resolved => RollKnown(local[q])'
        BY <1>0, <2>1, <2>2, KnownStays
    <2> QED
        BY <1>parts, <2>3, <2>4
<1>4. ASSUME NEW n, SetStartNumber(n) PROVE RollInv'
    <2>1. UNCHANGED <<pc, local, student, record, rollsRaced>>
        BY <1>4 DEF SetStartNumber, history
    <2>2. \A q \in Requests : pc'[q] \in Resolved => RollKnown(local[q])'
        BY <1>0, <1>same, <2>1, KnownStays
    <2> QED
        BY <1>parts, <1>same, <2>1, <2>2
<1>5. CASE StudentStart
    BY <1>1, <1>2, <1>3, <1>4, <1>5 DEF StudentStart, CreateStudent, UpdateStudent
<1> QED
    BY <1>1, <1>5


\* The old records are cleared and the new one inserted by one handler at a time, or the
\* student is remembered in doubled.
LEMMA RecordsSame ==
    ASSUME CurrentRecordInv, UNCHANGED <<record, doubled>>, cutStudents \subseteq cutStudents',
           \A s : Inserting(s)' = Inserting(s)
    PROVE  CurrentRecordInv'
<1>1. \A s : CurrentRecords(s)' = CurrentRecords(s)
    BY DEF CurrentRecords
<1> QED
    BY <1>1 DEF CurrentRecordInv

LEMMA CurrentRecordKept ==
    ASSUME TypesInv, CurrentRecordInv, StudentStart \/ (\E r \in Requests : StudentContinue(r))
    PROVE  CurrentRecordInv'
<1>1. ASSUME NEW r \in Requests, StudentContinue(r) \/ StudentHandlerFails(r)
      PROVE  CurrentRecordInv'
    <2>1. /\ pc[r] \in StudentSteps /\ local[r].student \in Students
          /\ \A q \in Requests \ {r} : pc'[q] = pc[q] /\ local'[q] = local[q]
        BY <1>1, Continues, HandlerOf, Went DEF Finish
    <2>others. \A s : /\ Inserting(s)' \ {r} = Inserting(s) \ {r}
                      /\ r \in Inserting(s)' <=>
                            pc'[r] = "insert" /\ local'[r].student = s
                      /\ r \in Inserting(s) <=> pc[r] = "insert" /\ local[r].student = s
        BY <2>1 DEF Inserting, Serving, StudentSteps
    <2>2. CASE DrawsNumber(r) \/ InsertStudent(r)
        <3>1. UNCHANGED <<record, doubled, cutStudents>> /\ pc[r] # "insert"
            BY <2>2, StepsOf, DrawsWriteNothing DEF InsertStudent, history
        <3>2. pc'[r] # "insert"
            <4>1. CASE DrawsNumber(r)
                BY <4>1, DrawsGoTo, NextStepTyped, Went DEF Finish
            <4>2. CASE InsertStudent(r)
                BY <4>2, Went DEF InsertStudent
            <4> QED
                BY <2>2, <4>1, <4>2
        <3>3. \A s : Inserting(s)' = Inserting(s)
            BY <2>others, <3>1, <3>2
        <3> QED
            BY <3>1, <3>3, RecordsSame
    <2>3. CASE ClearRecords(r)
        <3>0. PICK s \in Students : s = local[r].student
            BY <2>1
        <3>1. /\ pc[r] = "clear" /\ pc'[r] = "insert" /\ local'[r] = local[r]
              /\ UNCHANGED cutStudents /\ DOMAIN record' = DOMAIN record
              /\ \A i \in DOMAIN record : /\ record'[i].student = record[i].student
                                          /\ record[i].student = s => ~record'[i].current
                                          /\ record[i].student # s => record'[i] = record[i]
            BY <2>3, <3>0, Went, RecordTyped DEF ClearRecords, Record
        <3>2. doubled \subseteq doubled' /\ (s \notin doubled' => Inserting(s) = {})
            BY <2>3, <3>0 DEF ClearRecords, Inserting
        <3>3. CurrentRecords(s)' = {}
            BY <3>1 DEF CurrentRecords
        <3>4. \A t : t # s => CurrentRecords(t)' = CurrentRecords(t)
            BY <3>1 DEF CurrentRecords
        <3>5. /\ \A t : t # s => Inserting(t)' = Inserting(t)
              /\ r \in Inserting(s)'
              /\ s \notin doubled' => Inserting(s)' = {r}
            <4>1. \A t : t # s => r \notin Inserting(t)' /\ r \notin Inserting(t)
                BY <2>others, <3>0, <3>1
            <4>2. r \in Inserting(s)' /\ Inserting(s)' \ {r} = Inserting(s) \ {r}
                BY <2>others, <3>0, <3>1
            <4>3. \A t : t # s => Inserting(t)' = Inserting(t)
                <5> TAKE t
                <5> HAVE t # s
                <5>1. Inserting(t)' \ {r} = Inserting(t) \ {r}
                    BY <2>others
                <5> QED
                    BY <4>1, <5>1
            <4> QED
                BY <3>2, <4>2, <4>3
        <3> SUFFICES ASSUME NEW t \in Students
                     PROVE  /\ t \notin doubled' =>
                                 /\ \A i, j \in CurrentRecords(t)' : i = j
                                 /\ \A p \in Inserting(t)' : /\ CurrentRecords(t)' = {}
                                                             /\ \A q \in Inserting(t)' : q = p
                            /\ (\E i \in DOMAIN record' : record'[i].student = t)
                                  /\ t \notin cutStudents' =>
                                  CurrentRecords(t)' # {} \/ Inserting(t)' # {}
            BY DEF CurrentRecordInv
        <3>6. CASE t = s
            BY <3>3, <3>5, <3>6
        <3>7. CASE t # s
            BY <3>1, <3>2, <3>4, <3>5, <3>7 DEF CurrentRecordInv
        <3> QED
            BY <3>6, <3>7
    <2>4. CASE InsertRecord(r)
        <3>a. PICK s \in Students : s = local[r].student
            BY <2>1
        <3>b. PICK n : n = Len(record) + 1
            OBVIOUS
        <3>0. s \in Students /\ s = local[r].student /\ n = Len(record) + 1
            BY <3>a, <3>b
        <3>1. /\ pc[r] = "insert" /\ pc'[r] = "idle" /\ UNCHANGED <<doubled, cutStudents>>
              /\ DOMAIN record' = DOMAIN record \cup {n} /\ n \notin DOMAIN record
              /\ record'[n].student = s /\ record'[n].current
              /\ \A i \in DOMAIN record : record'[i] = record[i]
            BY <2>4, <3>0, Went, RecordTyped DEF InsertRecord, Finish
        <3>2. CurrentRecords(s)' = CurrentRecords(s) \cup {n}
            BY <3>1 DEF CurrentRecords
        <3>3. \A t : t # s => CurrentRecords(t)' = CurrentRecords(t)
            BY <3>1 DEF CurrentRecords
        <3>4. /\ \A t : t # s => Inserting(t)' = Inserting(t)
              /\ r \in Inserting(s) /\ Inserting(s)' = Inserting(s) \ {r}
            <4>1. \A t : t # s => r \notin Inserting(t)' /\ r \notin Inserting(t)
                BY <2>others, <3>0, <3>1
            <4>2. r \in Inserting(s) /\ r \notin Inserting(s)'
                BY <2>others, <3>0, <3>1
            <4>3. \A t : t # s => Inserting(t)' = Inserting(t)
                <5> TAKE t
                <5> HAVE t # s
                <5>1. Inserting(t)' \ {r} = Inserting(t) \ {r}
                    BY <2>others
                <5> QED
                    BY <4>1, <5>1
            <4>4. Inserting(s)' = Inserting(s) \ {r}
                <5>1. Inserting(s)' \ {r} = Inserting(s) \ {r}
                    BY <2>others
                <5> QED
                    BY <4>2, <5>1
            <4> QED
                BY <4>2, <4>3, <4>4
        <3>5. s \notin doubled => CurrentRecords(s) = {} /\ Inserting(s) = {r}
            BY <3>4 DEF CurrentRecordInv
        <3> SUFFICES ASSUME NEW t \in Students
                     PROVE  /\ t \notin doubled' =>
                                 /\ \A i, j \in CurrentRecords(t)' : i = j
                                 /\ \A p \in Inserting(t)' : /\ CurrentRecords(t)' = {}
                                                             /\ \A q \in Inserting(t)' : q = p
                            /\ (\E i \in DOMAIN record' : record'[i].student = t)
                                  /\ t \notin cutStudents' =>
                                  CurrentRecords(t)' # {} \/ Inserting(t)' # {}
            BY DEF CurrentRecordInv
        <3>6. CASE t = s
            BY <3>1, <3>2, <3>4, <3>5, <3>6
        <3>7. CASE t # s
            BY <3>1, <3>3, <3>4, <3>7 DEF CurrentRecordInv
        <3> QED
            BY <3>6, <3>7
    <2>5. CASE StudentHandlerFails(r)
        <3>1. /\ UNCHANGED <<record, doubled>> /\ pc'[r] = "idle"
              /\ cutStudents \subseteq cutStudents'
              /\ pc[r] = "insert" => local[r].student \in cutStudents'
            BY <2>5, Went DEF StudentHandlerFails, Finish, tables
        <3>2. \A s : /\ CurrentRecords(s)' = CurrentRecords(s)
                     /\ Inserting(s)' = Inserting(s) \ {r}
                     /\ s \notin cutStudents' => Inserting(s)' = Inserting(s)
            BY <2>others, <3>1 DEF CurrentRecords
        <3> QED
            BY <3>1, <3>2 DEF CurrentRecordInv
    <2> QED
        BY <1>1, <2>2, <2>3, <2>4, <2>5 DEF StudentContinue, DrawsNumber
<1>2. ASSUME NEW r \in Requests, NEW s, NEW place, NEW admission, NEW roll,
             Arrive(r, s, place, admission, roll)
      PROVE  CurrentRecordInv'
    <2>1. /\ pc[r] = "idle" /\ pc'[r] = "resolve"
          /\ \A q \in Requests \ {r} : pc'[q] = pc[q] /\ local'[q] = local[q]
          /\ UNCHANGED <<record, doubled, cutStudents>>
        BY <1>2, Went DEF Arrive, tables
    <2>2. \A t : Inserting(t)' = Inserting(t)
        BY <2>1 DEF Inserting, Serving
    <2> QED
        BY <2>1, <2>2, RecordsSame
<1>3. ASSUME UNCHANGED <<pc, local, record, doubled, cutStudents>> PROVE CurrentRecordInv'
    <2>1. \A t : Inserting(t)' = Inserting(t)
        BY <1>3 DEF Inserting, Serving
    <2> QED
        BY <1>3, <2>1, RecordsSame
<1>4. ASSUME NEW r \in Requests, NEW s, DeleteStudent(r, s) PROVE CurrentRecordInv'
    BY <1>3, <1>4 DEF DeleteStudent, history
<1>5. ASSUME NEW n, SetStartNumber(n) PROVE CurrentRecordInv'
    BY <1>3, <1>5 DEF SetStartNumber, history
<1>6. CASE StudentStart
    BY <1>1, <1>2, <1>4, <1>5, <1>6 DEF StudentStart, CreateStudent, UpdateStudent
<1> QED
    BY <1>1, <1>6

-----------------------------------------------------------------------------
(* Theorems.                                                               *)

LEMMA InitInv == Init => IInv
<1> SUFFICES ASSUME Init PROVE IInv
    OBVIOUS
<1>1. PICK y \in Years, t \in Terms :
          year = [x \in {y} |-> [span |-> <<t, t>>, current |-> TRUE, frozen |-> FALSE]]
    BY DEF Init, YearInit
<1>2. DOMAIN year = {y} /\ year[y] = [span |-> <<t, t>>, current |-> TRUE, frozen |-> FALSE]
    BY <1>1
<1>3. <<t, t>> \in Spans
    BY DEF Spans
<1>4. \A r \in Requests : pc[r] = "idle" /\ local[r] = None
    BY DEF Init
<1>5. YearTypeOK
    <2>1. copy = << >> /\ DOMAIN copy = {}
        BY DEF Init, YearInit
    <2>2. copy \in [DOMAIN copy -> Copy]
        BY <2>1
    <2> QED
        BY <1>1, <1>2, <1>3, <2>1, <2>2 DEF Init, YearInit, YearTypeOK, YearRow
<1>6. DOMAIN student = {} /\ record = << >> /\ DOMAIN record = {}
    BY DEF Init
<1>7. TypesInv
    <2>1. student \in [DOMAIN student -> StudentRow] /\ record \in Seq(Record)
        BY <1>6 DEF Init
    <2> QED
        BY <1>4, <1>5, <1>6, <2>1, StudentAssumption DEF Init, TypesInv, TypeOK, Drawn
<1>8. YearsInv
    <2>1. Current = {y}
        BY <1>2 DEF Current
    <2> QED
        BY <1>2, <1>4, <2>1 DEF YearsInv, YearHandlersInv, YearsApart, CurrentYearInv
<1>9. Live = {} /\ \A s : Serving(s) = {} /\ Inserting(s) = {} /\ CurrentRecords(s) = {}
    BY <1>4, <1>6 DEF Live, Serving, Inserting, CurrentRecords, StudentSteps
<1>10. ServingInv /\ PlaceInv /\ SystemInv /\ RollInv
    BY <1>4, <1>6, <1>9 DEF ServingInv, PlaceInv, SystemInv, RollInv, Resolved, Drawn,
                            StudentSteps
<1>11. AdmissionInv /\ CurrentRecordInv
    BY <1>4, <1>6, <1>9 DEF AdmissionInv, Holds, CurrentRecordInv, StudentSteps
<1> QED
    BY <1>7, <1>8, <1>10, <1>11 DEF IInv, StudentsInv

\* Nothing else changes when a copy leaves the cache.
LEMMA CopyLeaves ==
    ASSUME IInv, NEW y, CopyGoes(y), YearStep, UNCHANGED started
    PROVE  IInv'
<1>1. /\ UNCHANGED <<year, pc, local, everCurrent, yearsRaced, crossed, cutYears>>
      /\ UNCHANGED <<student, record, counter, startNumber, started,
                     typed, rollsRaced, doubled, cutStudents>>
    BY DEF CopyGoes, YearStep, tables, history
<1>2. Frozen' = Frozen
    BY <1>1 DEF Frozen
<1>3. UNCHANGED late
    BY <1>2 DEF YearStep
<1>4. YearTypeOK'
    <2>1. DOMAIN copy' \subseteq DOMAIN copy /\ copy' \in [DOMAIN copy' -> Copy]
        BY DEF CopyGoes, IInv, TypesInv, TypeOK, YearTypeOK
    <2> QED
        BY <1>1, <2>1 DEF IInv, TypesInv, TypeOK, YearTypeOK
<1>5. TypesInv'
    BY <1>1, <1>3, <1>4 DEF IInv, TypesInv, TypeOK
<1>6. YearsInv'
    BY <1>1 DEF IInv, YearsInv, YearHandlersInv, YearsApart, CurrentYearInv, Current
<1>7. StudentsInv'
    BY <1>1, <1>3 DEF IInv, StudentsInv, ServingInv, Serving, PlaceInv, SystemInv, AdmissionInv,
                      Holds, RollInv, Deleted, Live, Enrolled, CurrentRecordInv, CurrentRecords,
                      Inserting
<1> QED
    BY <1>5, <1>6, <1>7 DEF IInv

LEMMA NextInv == IInv /\ [Next]_vars => IInv'
<1> SUFFICES ASSUME IInv, [Next]_vars PROVE IInv'
    OBVIOUS
<1>1. CASE (StudentStart \/ \E r \in Requests : StudentContinue(r)) /\ YearsSame
              /\ (UNCHANGED started \/ (started < MaxStarted /\ started' = started + 1))
    <2>1. TypesInv'
        BY <1>1, Started, StudentTypes DEF IInv
    <2>2. YearsInv'
        BY <1>1, YearsUntouched DEF IInv
    <2>3. StudentsInv'
        BY <1>1, PlaceKept, ServingKept, SystemKept, AdmissionKept, RollKept, CurrentRecordKept
           DEF IInv, StudentsInv
    <2> QED
        BY <2>1, <2>2, <2>3 DEF IInv
<1>2. ASSUME NEW r \in Requests, YearStart(r) \/ YearHandlerFails(r) \/ YearContinue(r), YearStep,
             UNCHANGED started \/ (started < MaxStarted /\ started' = started + 1)
      PROVE  IInv'
    BY <1>2, Started, YearTypes, YearsKept, StudentsUntouched DEF IInv, YearsInv
<1>3. ASSUME NEW y, CopyGoes(y), YearStep, UNCHANGED started PROVE IInv'
    BY <1>3, CopyLeaves
<1>4. CASE UNCHANGED vars
    BY <1>4 DEF vars, IInv, TypesInv, TypeOK, YearTypeOK, YearsInv, YearHandlersInv, YearsApart,
                CurrentYearInv, Current, StudentsInv, ServingInv, Serving, PlaceInv, SystemInv,
                AdmissionInv, Holds, RollInv, Deleted, Live, Enrolled, CurrentRecordInv,
                CurrentRecords, Inserting
<1> QED
    BY <1>1, <1>2, <1>3, <1>4 DEF Next, Rest, YearsSame

\* Whatever handlers of years and students overlap, the invariant holds.
THEOREM Invariant == Spec => []IInv
    BY InitInv, NextInv, PTL DEF Spec

\* Tables, counters and handlers keep their types.
THEOREM TypeCorrect == Spec => []TypeOK
<1>1. IInv => TypeOK
    BY DEF IInv, TypesInv
<1> QED
    BY <1>1, Invariant, PTL

\* A set whose members are all equal has no two.
LEMMA AtMostOne ==
    ASSUME NEW S, \A x, y \in S : x = y
    PROVE  Cardinality(S) <= 1
<1>1. CASE S = {}
    BY <1>1, FS_EmptySet
<1>2. ASSUME NEW x \in S PROVE Cardinality(S) <= 1
    <2>1. S = {x}
        OBVIOUS
    <2> QED
        BY <2>1, FS_Singleton
<1> QED
    BY <1>1, <1>2

\* academic-years.service.ts:101 and academic-years.repository.ts:98, for any number of
\* years, terms and handlers: no two years overlap unless a handler wrote dates that it had
\* checked against others; and no two years are current, and none only within setCurrent,
\* unless two handlers crossed there or one broke off.
THEOREM YearsOneAtATime == Spec => []OneYearAtATime
<1>1. IInv => OneYearAtATime
    <2> SUFFICES ASSUME IInv PROVE OneYearAtATime
        OBVIOUS
    <2>1. ~crossed => Cardinality(Current) <= 1
        BY AtMostOne DEF IInv, YearsInv, CurrentYearInv
    <2> QED
        BY <2>1 DEF IInv, YearsInv, YearsApart, CurrentYearInv, OneYearAtATime
<1> QED
    BY <1>1, Invariant, PTL

\* students.repository.ts:58, 91 and 106, for any number of students, classes and handlers:
\* system numbers differ, drawn admission numbers differ, and roll numbers differ in a
\* class that no record came to between the read of a number and its write.
THEOREM StudentNumbersApart == Spec => []NumbersApart
<1>1. IInv => NumbersApart
    <2> SUFFICES ASSUME IInv PROVE NumbersApart
        OBVIOUS
    <2>1. ASSUME NEW i \in Live, NEW j \in Live, record[i].student # record[j].student
          PROVE  record[i].admission # record[j].admission \/ record[i].admission \in typed
        <3>1. /\ i \in DOMAIN record /\ j \in DOMAIN record
              /\ record[i].student \in Students /\ record[j].student \in Students
              /\ record[i].admission \in Nat
            BY RecordTyped DEF Live, IInv
        <3>2. /\ Holds(record[i].student, record[i].admission)
              /\ Holds(record[j].student, record[j].admission)
            BY <3>1 DEF Holds
        <3> QED
            BY <2>1, <3>1, <3>2 DEF IInv, StudentsInv, AdmissionInv
    <2> QED
        BY <2>1 DEF IInv, StudentsInv, SystemInv, RollInv, NumbersApart
<1> QED
    BY <1>1, Invariant, PTL

\* students.repository.ts:305, for any number of students and handlers: one current record
\* and no more, unless two handlers overlapped or one broke off between the two statements.
THEOREM StudentOneCurrentRecord == Spec => []OneCurrentRecord
<1>1. IInv => OneCurrentRecord
    <2> SUFFICES ASSUME IInv, NEW s \in Students
                 PROVE  /\ s \notin doubled => Cardinality(CurrentRecords(s)) <= 1
                        /\ (\E i \in DOMAIN record : record[i].student = s)
                              /\ s \notin cutStudents
                              /\ (\A r \in Serving(s) : pc[r] # "insert")
                              => CurrentRecords(s) # {}
        BY DEF OneCurrentRecord, CurrentRecords
    <2>1. s \notin doubled => Cardinality(CurrentRecords(s)) <= 1
        BY AtMostOne DEF IInv, StudentsInv, CurrentRecordInv
    <2> QED
        BY <2>1 DEF IInv, StudentsInv, CurrentRecordInv, Inserting
<1> QED
    BY <1>1, Invariant, PTL

\* frozen-academic-year.guard.ts:19, for any number of years and handlers: the guard keeps
\* records out of a frozen year but for the handlers that it let pass before.
THEOREM FrozenYears == Spec => FrozenYearTakesNone
<1>1. IInv => \A r \in Requests : pc[r] = "insert" =>
                 ~year[local[r].place[1]].frozen \/ local[r].place[1] \in late
    BY DEF IInv, StudentsInv, PlaceInv, StudentSteps
<1>2. IInv /\ [Next]_vars =>
        [\A r \in Requests : pc[r] = "insert" /\ pc'[r] = "idle" /\ record' # record =>
             ~year[local[r].place[1]].frozen \/ local[r].place[1] \in late]_vars
    BY <1>1
<1> QED
    BY <1>2, Invariant, PTL DEF Spec, FrozenYearTakesNone


=============================================================================
