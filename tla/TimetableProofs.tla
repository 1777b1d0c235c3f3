--------------------------- MODULE TimetableProofs ---------------------------
(***************************************************************************)
(* For any finite number of classes, subjects, rows, rooms, students and   *)
(* seats, and any number of exams and overlapping requests: which exams    *)
(* and rows can meet, what a PUBLISHED exam lacks, who moves a locked row, *)
(* and when the seats of a room do not suffice.  And for any number of     *)
(* subjects, days and teachers of any classes: which lessons can meet, and *)
(* how the periods of a generated timetable fill its day.                  *)
(***************************************************************************)
EXTENDS ClassTimetable, FiniteSums

-----------------------------------------------------------------------------
(* The strengthening.                                                      *)

\* No exam that counts clashes with these classes and this window.
Apart(e, classes, w) ==
    \A f \in Live \ loose :
        f # e => exam[f].classes \cap classes = {} \/ ~Meet(exam[f].window, w)

\* What a handler that has looked at the windows knows of them, until it writes its own.
WindowInv(r) ==
    LET l == local[r]
    IN  /\ pc[r] \in {"overlap", "create"} => l.exam \in Exams
        /\ pc[r] \in {"link", "rows", "recheck", "redate", "unlink", "status"} =>
              l.exam \in DOMAIN exam
        /\ pc[r] \in {"recheck", "redate", "unlink"} => l.new = {} /\ l.plan = << >>
        /\ pc[r] = "unlink" => l.exam \in loose
        /\ pc[r] = "link" => l.exam \in loose \/ exam[l.exam].window = l.window
        /\ pc[r] \in {"recheck", "redate"} =>
              l.exam \in loose \/ l.link \/ (l.dates /\ exam[l.exam].classes = l.classes)
        /\ pc[r] \in {"create", "link", "redate", "unlink"} => Apart(l.exam, l.classes, l.window)

\* Rows of a proposal: no two of a class, and no two of an invigilator, at one time.
Proposal(new) ==
    \A x, y \in new : x # y /\ x.slot = y.slot => x.class # y.class /\ x.teacher # y.teacher

\* What a handler is about to insert meets no row that counts.
NewInv(r) ==
    LET l == local[r]
        byHand == \E x \in l.new : x.teacher = None
    IN  pc[r] \in {"overlap", "create", "link", "rows"} =>
        /\ IsFiniteSet(l.new)
        /\ \A x \in l.new : x.exam = l.exam
        /\ byHand \/ Proposal(l.new)
        /\ \A x \in l.new, j \in DOMAIN row \ booked :
              x.teacher # None /\ row[j].slot = x.slot => row[j].teacher # x.teacher
        /\ pc[r] \in {"link", "rows"} /\ byHand => \A x \in l.new, j \in DOMAIN row \ unchecked :
              row[j].exam = x.exam /\ row[j].class = x.class => row[j].slot # x.slot

\* The same for what it is about to write.
PlanInv(r) ==
    LET l == local[r]
    IN  pc[r] \in {"write", "bulk"} /\ "slot" \in l.sent =>
        \A i \in DOMAIN l.plan \cap DOMAIN row :
            i \in unchecked \/ \A j \in DOMAIN row \ (unchecked \cup {i}) :
                row[j].exam = row[i].exam /\ row[j].class = row[i].class
                => row[j].slot # l.plan[i].slot

\* No regeneration takes a teacher away.
NothingTaken(r) ==
    LET l == local[r]
    IN  pc[r] \in {"overlap", "create", "link", "rows", "replace"} =>
            \A i \in DOMAIN l.plan : l.plan[i].teacher # None

PublishInv(r) ==
    LET l == local[r]
    IN  pc[r] = "status" /\ l.status = "PUBLISHED" => l.exam \in amended \/ Incomplete(l.exam) = {}

RowsOfExams == \A i \in DOMAIN row : row[i].exam \in DOMAIN exam

\* The seats that a handler is about to write, until others crowd the exam.
SeatInv(r) ==
    LET h == held[r]
    IN  /\ at[r] \notin {"idle", "done"} => h.exam \in Exams
        /\ at[r] = "clear" /\ h.looks => \A room \in Rooms \ resized :
              Cardinality(InRoom(h.places, room)) <= capacity[room]
        /\ at[r] = "seat" /\ h.looks /\ h.exam \notin crowded =>
              /\ \A x \in h.places : ~Seated(h.exam, x[1])
              /\ \A room \in Rooms \ resized :
                    countSeatsOccupied(h.exam, room) + Cardinality(InRoom(h.places, room))
                    <= capacity[room]
        /\ at[r] = "move" =>
              /\ h.id \in DOMAIN seat => seat[h.id].exam = h.exam
              /\ \E x \in h.places : h.places = {x}
              /\ h.exam \notin crowded /\ "room" \in h.sent /\ h.id \in DOMAIN seat =>
                    \A x \in h.places : x[2] \notin resized =>
                        \/ seat[h.id].room = x[2]
                        \/ countSeatsOccupied(h.exam, x[2]) + 1 <= capacity[x[2]]

ExamsInv == ExamsApart /\ \A r \in Requests : WindowInv(r)
RowsInv == RowsApart /\ RowsOfExams /\ \A r \in Requests : NewInv(r) /\ PlanInv(r)
PublishedInv ==
    PublishedIsComplete /\ \A r \in Requests : NothingTaken(r) /\ PublishInv(r)
SeatsInv == SeatsSuffice /\ \A r \in Requests : SeatInv(r)
IInv == SeatingTypeOK /\ ExamsInv /\ RowsInv /\ PublishedInv /\ SeatsInv

-----------------------------------------------------------------------------
(* Rows with drawn ids.                                                    *)

LEMMA SubsetOfSize ==
    ASSUME NEW S, IsFiniteSet(S), NEW n \in Nat, n <= Cardinality(S)
    PROVE  \E T \in SUBSET S : Cardinality(T) = n
<1>1. Cardinality(S) \in Nat
    BY FS_CardinalityType
<1>2. PICK f : f \in Bijection(1..Cardinality(S), S)
    BY FS_CardinalityType DEF ExistsBijection
<1>3. f \in [1..Cardinality(S) -> S] /\ \A a, b \in 1..Cardinality(S) : f[a] = f[b] => a = b
    BY <1>2 DEF Bijection, Injection, IsInjective
<1> DEFINE T == {f[k] : k \in 1..n}
           g == [k \in 1..n |-> f[k]]
<1>4. 1..n \subseteq 1..Cardinality(S)
    BY <1>1
<1>5. T \in SUBSET S /\ g \in [1..n -> T]
    BY <1>3, <1>4
<1>6. g \in Injection(1..n, T)
    BY <1>3, <1>4, <1>5 DEF Injection, IsInjective
<1>7. g \in Surjection(1..n, T)
    BY <1>5 DEF Surjection
<1>8. ExistsBijection(1..n, T)
    BY <1>6, <1>7 DEF ExistsBijection, Bijection
<1>9. Cardinality(T) = n
    BY <1>8, FS_CountingElements
<1> QED
    BY <1>5, <1>9

\* Each row gets one of the free ids, and no two the same.
LEMMA NumberedRows ==
    ASSUME NEW free, IsFiniteSet(free), NEW rows, IsFiniteSet(rows),
           Cardinality(rows) <= Cardinality(free)
    PROVE  LET new == Numbered(free, rows)
           IN  /\ DOMAIN new \subseteq free
               /\ new \in [DOMAIN new -> rows]
               /\ \A x \in rows : \E i \in DOMAIN new : new[i] = x
               /\ \A i, j \in DOMAIN new : new[i] = new[j] => i = j
               /\ Cardinality(DOMAIN new) = Cardinality(rows)
               /\ IsFiniteSet(DOMAIN new)
<1> DEFINE ids == CHOOSE S \in SUBSET free : Cardinality(S) = Cardinality(rows)
           new == CHOOSE t \in [ids -> rows] : {t[i] : i \in ids} = rows
<1>1. Cardinality(rows) \in Nat
    BY FS_CardinalityType
<1>2. ids \in SUBSET free /\ Cardinality(ids) = Cardinality(rows)
    BY <1>1, SubsetOfSize
<1> HIDE DEF ids
<1>3. IsFiniteSet(ids)
    BY <1>2, FS_Subset
<1>4. PICK f : f \in Bijection(ids, rows)
    BY <1>2, <1>3, FS_SameCardinalityBij DEF ExistsBijection
<1>5. f \in [ids -> rows] /\ {f[i] : i \in ids} = rows
    BY <1>4 DEF Bijection, Injection, Surjection
<1>6. new \in [ids -> rows] /\ {new[i] : i \in ids} = rows
    <2>1. \E t \in [ids -> rows] : {t[i] : i \in ids} = rows
        BY <1>5
    <2> QED
        BY <2>1, Zenon
<1>7. Numbered(free, rows) = new
    BY DEF Numbered, ids
<1> HIDE DEF new
<1>8. new \in Surjection(ids, rows)
    BY <1>6 DEF Surjection
<1>9. new \in Injection(ids, rows)
    BY <1>2, <1>3, <1>8, FS_SurjSameCardinalityImpliesInj
<1>10. DOMAIN new = ids
    BY <1>6
<1> QED
    BY <1>2, <1>3, <1>6, <1>7, <1>8, <1>9, <1>10 DEF Injection, Surjection, IsInjective

LEMMA AtMostOne ==
    ASSUME NEW S, IsFiniteSet(S), ~(Cardinality(S) > 1), NEW x \in S, NEW y \in S
    PROVE  x = y
<1>1. SUFFICES ASSUME x # y PROVE FALSE
    OBVIOUS
<1>2. Cardinality({x} \cup {y}) = 2 /\ IsFiniteSet({x} \cup {y})
    <2>1. Cardinality({x}) = 1 /\ IsFiniteSet({x}) /\ y \notin {x}
        BY <1>1, FS_Singleton
    <2>2. /\ IsFiniteSet({x} \cup {y})
          /\ Cardinality({x} \cup {y}) = IF y \in {x} THEN Cardinality({x}) ELSE Cardinality({x}) + 1
        BY <2>1, FS_AddElement, Zenon
    <2> QED
        BY <2>1, <2>2
<1>3. Cardinality({x} \cup {y}) <= Cardinality(S)
    BY <1>2, FS_Subset
<1>4. Cardinality(S) \in Nat
    BY FS_CardinalityType
<1> QED
    BY <1>2, <1>3, <1>4


-----------------------------------------------------------------------------
(* Types.                                                                  *)

\* A request does not move.
Stays(q) == pc'[q] = pc[q] /\ local'[q] = local[q]

LEMMA UpsertTable ==
    ASSUME NEW S, NEW T, NEW a, IsTable(a, S, T), NEW b, IsTable(b, S, T)
    PROVE  IsTable(Upsert(a, b), S, T)
    BY DEF IsTable, Upsert

LEMMA KeptTable ==
    ASSUME NEW S, NEW T, NEW a, IsTable(a, S, T), NEW D, D \subseteq DOMAIN a
    PROVE  IsTable([k \in D |-> a[k]], S, T)
    BY DEF IsTable

LEMMA UpdatedTable ==
    ASSUME NEW S, NEW T, NEW a, IsTable(a, S, T), NEW k, NEW v, k \in DOMAIN a => v \in T
    PROVE  IsTable([a EXCEPT ![k] = v], S, T)
    BY DEF IsTable

LEMMA EmptyTable == ASSUME NEW S, NEW T PROVE IsTable(<< >>, S, T)
    BY DEF IsTable

LEMMA NothingLocal == IsLocal(Nothing)
<1>1. <<1, 1>> \in Window
    BY TimetableAssumption DEF Window, Slots
<1>2. IsTable(Nothing.plan, RowIds, Row)
    BY EmptyTable DEF Nothing
<1>3. /\ Nothing.exam = None /\ Nothing.window = <<1, 1>> /\ Nothing.classes = {}
      /\ Nothing.dates = FALSE /\ Nothing.link = FALSE /\ Nothing.status = "DRAFT"
      /\ Nothing.new = {} /\ Nothing.sent = {}
    BY DEF Nothing
<1> QED
    BY <1>1, <1>2, <1>3 DEF IsLocal, ExamStatus

LEMMA Went ==
    ASSUME TypeOK, NEW r \in Requests, NEW step \in Steps, NEW seen, IsLocal(seen),
           Goto(r, step, seen)
    PROVE  /\ pc' \in [Requests -> Steps]
           /\ DOMAIN local' = Requests /\ \A q \in Requests : IsLocal(local'[q])
           /\ pc'[r] = step /\ local'[r] = seen
           /\ \A q \in Requests \ {r} : Stays(q)
    BY DEF Goto, TypeOK, Stays

LEMMA Finished ==
    ASSUME TypeOK, NEW r \in Requests, Finish(r)
    PROVE  /\ pc' \in [Requests -> Steps]
           /\ DOMAIN local' = Requests /\ \A q \in Requests : IsLocal(local'[q])
           /\ pc'[r] = "done" /\ local'[r] = Nothing
           /\ \A q \in Requests \ {r} : Stays(q)
<1>1. "done" \in Steps
    BY DEF Steps
<1>2. Goto(r, "done", Nothing)
    BY DEF Finish
<1> QED
    BY <1>1, <1>2, Went, NothingLocal


-----------------------------------------------------------------------------
(* What a step may leave alone.                                            *)

OwnInv(r) == WindowInv(r) /\ NewInv(r) /\ PlanInv(r) /\ NothingTaken(r) /\ PublishInv(r)

LEMMA AtRest ==
    ASSUME NEW r \in Requests, pc'[r] \in {"idle", "remove", "done"}
    PROVE  OwnInv(r)'
    BY DEF OwnInv, WindowInv, NewInv, PlanInv, NothingTaken, PublishInv

LEMMA ExamsKept ==
    ASSUME ExamsInv, exam' = exam, loose' = loose,
           \A q \in Requests : Stays(q) \/ WindowInv(q)'
    PROVE  ExamsInv'
<1>1. Live' = Live
    BY DEF Live
<1>2. ExamsApart'
    BY <1>1 DEF ExamsInv, ExamsApart, Overlapping
<1>3. ASSUME NEW q \in Requests PROVE WindowInv(q)'
    <2>1. CASE Stays(q)
        <3>1. WindowInv(q)
            BY DEF ExamsInv
        <3> QED
            BY <1>1, <2>1, <3>1 DEF WindowInv, Apart, Stays
    <2> QED
        BY <2>1, <1>3
<1> QED
    BY <1>2, <1>3 DEF ExamsInv

\* Rows that are removed, and rows that are marked when they are written.
LEMMA RowsMarked ==
    ASSUME RowsInv, DOMAIN exam \subseteq DOMAIN exam',
           unchecked \subseteq unchecked', booked \subseteq booked',
           \A i \in DOMAIN row' \ (unchecked' \cap booked') :
              /\ i \in DOMAIN row
              /\ row'[i].exam = row[i].exam /\ row'[i].class = row[i].class
              /\ row'[i].slot = row[i].slot /\ row'[i].teacher = row[i].teacher,
           \A i \in DOMAIN row' : \/ i \in DOMAIN row /\ row'[i].exam = row[i].exam
                                  \/ row'[i].exam \in DOMAIN exam',
           \A i \in DOMAIN row' \ DOMAIN row : i \in unchecked',
           \A q \in Requests : Stays(q) \/ (NewInv(q) /\ PlanInv(q))'
    PROVE  RowsInv'
<1>1. RowsApart'
    <2> SUFFICES ASSUME NEW i \in DOMAIN row', NEW j \in DOMAIN row', i # j,
                        row'[i].slot = row'[j].slot
                 PROVE  /\ {i, j} \cap unchecked' = {} =>
                            <<row'[i].exam, row'[i].class>> # <<row'[j].exam, row'[j].class>>
                        /\ {i, j} \cap booked' = {} /\ row'[i].teacher # None =>
                            row'[i].teacher # row'[j].teacher
        BY DEF RowsApart
    <2>1. RowsApart
        BY DEF RowsInv
    <2>2. CASE {i, j} \cap unchecked' = {}
        <3>1. /\ i \in DOMAIN row /\ j \in DOMAIN row /\ {i, j} \cap unchecked = {}
              /\ row[i].slot = row[j].slot
              /\ row'[i].exam = row[i].exam /\ row'[i].class = row[i].class
              /\ row'[j].exam = row[j].exam /\ row'[j].class = row[j].class
            BY <2>2
        <3>2. <<row[i].exam, row[i].class>> # <<row[j].exam, row[j].class>>
            BY <2>1, <3>1 DEF RowsApart
        <3>3. \A k \in {i, j} : k \notin unchecked' \cap booked'
            BY <2>2
        <3>4. {i, j} \cap booked' = {} /\ row'[i].teacher # None =>
                  row'[i].teacher # row'[j].teacher
            <4>1. SUFFICES ASSUME {i, j} \cap booked' = {} PROVE row'[i].teacher # None =>
                                                                row'[i].teacher # row'[j].teacher
                OBVIOUS
            <4>2. {i, j} \cap booked = {} /\ row'[i].teacher = row[i].teacher
                  /\ row'[j].teacher = row[j].teacher
                BY <3>3, <4>1
            <4> QED
                BY <2>1, <3>1, <4>2 DEF RowsApart
        <3> QED
            BY <3>1, <3>2, <3>4
    <2>3. CASE {i, j} \cap booked' = {}
        <3>1. \A k \in {i, j} : k \notin unchecked' \cap booked'
            BY <2>3
        <3>2. /\ i \in DOMAIN row /\ j \in DOMAIN row /\ {i, j} \cap booked = {}
              /\ row[i].slot = row[j].slot
              /\ row'[i].teacher = row[i].teacher /\ row'[j].teacher = row[j].teacher
            BY <2>3, <3>1
        <3>3. row[i].teacher # None => row[i].teacher # row[j].teacher
            BY <2>1, <3>2 DEF RowsApart
        <3> QED
            BY <2>2, <3>2, <3>3
    <2> QED
        BY <2>2, <2>3
<1>2. RowsOfExams'
    BY DEF RowsInv, RowsOfExams
<1>3. ASSUME NEW q \in Requests, Stays(q) PROVE NewInv(q)'
    <2>1. NewInv(q)
        BY DEF RowsInv
    <2>2. \A j \in DOMAIN row' \ booked' :
            j \in DOMAIN row \ booked /\ row'[j].slot = row[j].slot /\ row'[j].teacher = row[j].teacher
        OBVIOUS
    <2>3. \A j \in DOMAIN row' \ unchecked' :
            /\ j \in DOMAIN row \ unchecked /\ row'[j].slot = row[j].slot
            /\ row'[j].exam = row[j].exam /\ row'[j].class = row[j].class
        OBVIOUS
    <2> QED
        BY <1>3, <2>1, <2>2, <2>3 DEF NewInv, Stays, Proposal
<1>4. ASSUME NEW q \in Requests, Stays(q) PROVE PlanInv(q)'
    <2>1. PlanInv(q)
        BY DEF RowsInv
    <2>2. \A j \in DOMAIN row' \ unchecked' :
            /\ j \in DOMAIN row \ unchecked /\ row'[j].slot = row[j].slot
            /\ row'[j].exam = row[j].exam /\ row'[j].class = row[j].class
        OBVIOUS
    <2> QED
        BY <1>4, <2>1, <2>2 DEF PlanInv, Stays
<1> QED
    BY <1>1, <1>2, <1>3, <1>4 DEF RowsInv

LEMMA PublishedKept ==
    ASSUME PublishedInv, amended \subseteq amended',
           \A e \in DOMAIN exam' : exam'[e].status = "PUBLISHED" =>
               e \in DOMAIN exam /\ exam[e].status = "PUBLISHED",
           \A e : /\ Incomplete(e) = {} /\ e \notin amended'
                  /\ \/ e \in DOMAIN exam /\ exam[e].status = "PUBLISHED"
                     \/ \E q \in Requests : pc[q] = "status" /\ local[q].exam = e
                  => Incomplete(e)' = {},
           \A q \in Requests : Stays(q) \/ (NothingTaken(q) /\ PublishInv(q))'
    PROVE  PublishedInv'
<1>1. PublishedIsComplete'
    BY DEF PublishedInv, PublishedIsComplete
<1>2. ASSUME NEW q \in Requests, Stays(q) PROVE NothingTaken(q)' /\ PublishInv(q)'
    <2>1. NothingTaken(q) /\ PublishInv(q)
        BY DEF PublishedInv
    <2>2. NothingTaken(q)'
        BY <1>2, <2>1 DEF NothingTaken, Stays
    <2>3. PublishInv(q)'
        BY <1>2, <2>1 DEF PublishInv, Stays
    <2> QED
        BY <2>2, <2>3
<1> QED
    BY <1>1, <1>2 DEF PublishedInv

\* The seats, when nothing of ExamSeating moves.
LEMMA SeatsKept == ASSUME SeatsInv, UNCHANGED seating PROVE SeatsInv'
<1>1. /\ seat' = seat /\ capacity' = capacity /\ at' = at /\ held' = held
      /\ crowded' = crowded /\ resized' = resized
    BY DEF seating
<1> QED
    BY <1>1 DEF SeatsInv, SeatsSuffice, SeatsOf, SeatInv, Seated, countSeatsOccupied, InRoom


-----------------------------------------------------------------------------
(* Steps that only read.                                                   *)

Untouched == UNCHANGED <<exam, row, cascade, loose, unchecked, booked, amended>> /\ UNCHANGED seating

LEMMA UntouchedKeeps ==
    ASSUME IInv, NEW r \in Requests, Untouched, OwnInv(r)',
           pc' \in [Requests -> Steps],
           DOMAIN local' = Requests, \A q \in Requests : IsLocal(local'[q]),
           \A q \in Requests \ {r} : Stays(q)
    PROVE  IInv'
<1>1. /\ exam' = exam /\ row' = row /\ cascade' = cascade /\ loose' = loose
      /\ unchecked' = unchecked /\ booked' = booked /\ amended' = amended
      /\ seat' = seat /\ capacity' = capacity /\ at' = at /\ held' = held
      /\ assigned' = assigned /\ crowded' = crowded /\ resized' = resized
    BY DEF Untouched, seating
<1>2. SeatingTypeOK'
    BY <1>1 DEF IInv, SeatingTypeOK, TypeOK
<1>a. /\ \A q \in Requests : Stays(q) \/ WindowInv(q)'
      /\ \A q \in Requests : Stays(q) \/ (NewInv(q) /\ PlanInv(q))'
      /\ \A q \in Requests : Stays(q) \/ (NothingTaken(q) /\ PublishInv(q))'
    BY DEF OwnInv
<1>b. ExamsInv /\ RowsInv /\ PublishedInv /\ SeatsInv
    BY DEF IInv
<1>3. ExamsInv'
    BY <1>1, <1>a, <1>b, ExamsKept
<1>4. RowsInv'
    BY <1>1, <1>a, <1>b, RowsMarked
<1>5. PublishedInv'
    <2>1. \A e : Incomplete(e)' = Incomplete(e)
        BY <1>1 DEF Incomplete, RowsOf
    <2> QED
        BY <1>1, <1>a, <1>b, <2>1, PublishedKept
<1>6. SeatsInv'
    BY <1>b, SeatsKept DEF Untouched
<1> QED
    BY <1>2, <1>3, <1>4, <1>5, <1>6 DEF IInv

LEMMA GoesOn ==
    ASSUME IInv, NEW r \in Requests, NEW step \in Steps, NEW seen, IsLocal(seen),
           Goto(r, step, seen), Untouched, OwnInv(r)'
    PROVE  IInv'
<1>1. TypeOK
    BY DEF IInv, SeatingTypeOK
<1> QED
    BY <1>1, Went, UntouchedKeeps

LEMMA GivesUp ==
    ASSUME IInv, NEW r \in Requests, Finish(r), Untouched
    PROVE  IInv'
<1>1. TypeOK
    BY DEF IInv, SeatingTypeOK
<1>2. pc'[r] = "done"
    BY <1>1, Finished
<1>3. OwnInv(r)'
    BY <1>2, AtRest
<1> QED
    BY <1>1, <1>3, Finished, UntouchedKeeps


LEMMA NoRows ==
    ASSUME NEW r \in Requests, local'[r].new = {}, local'[r].plan = << >>,
           WindowInv(r)', PublishInv(r)'
    PROVE  OwnInv(r)'
<1>1. IsFiniteSet({})
    BY FS_EmptySet
<1>2. DOMAIN local'[r].plan = {}
    OBVIOUS
<1>3. NewInv(r)'
    BY <1>1 DEF NewInv, Proposal
<1>4. PlanInv(r)'
    BY <1>2 DEF PlanInv
<1>5. NothingTaken(r)'
    BY <1>2 DEF NothingTaken
<1> QED
    BY <1>3, <1>4, <1>5 DEF OwnInv

\* A proposal has one row for each class and subject, in the subject's slot, whose
\* invigilator is free then.
LEMMA Proposed ==
    ASSUME NEW e \in Exams, NEW classes \in SUBSET Classes, NEW w \in Window,
           NEW new \in buildProposedSchedule(e, classes, w)
    PROVE  /\ new \subseteq Row /\ IsFiniteSet(new) /\ Proposal(new)
           /\ \A x \in new : x.exam = e /\ x.teacher # None
           /\ \A x \in new, j \in DOMAIN row : row[j].slot = x.slot => row[j].teacher # x.teacher
<1>1. PICK g \in [Places(classes) -> Teachers] :
        /\ new = {[exam |-> e, class |-> k[1], subject |-> k[2], slot |-> SlotOf(w, k),
                   teacher |-> g[k], room |-> None, locked |-> FALSE] : k \in Places(classes)}
        /\ \A k \in Places(classes) :
              /\ Within(SlotOf(w, k), w) /\ Free(g[k], k[2], SlotOf(w, k))
              /\ \A j \in Places(classes) : j # k /\ j[2] = k[2] => g[j] # g[k]
    BY DEF buildProposedSchedule
<1> DEFINE At(k) == [exam |-> e, class |-> k[1], subject |-> k[2], slot |-> SlotOf(w, k),
                     teacher |-> g[k], room |-> None, locked |-> FALSE]
           h == [k \in Places(classes) |-> At(k)]
<1>2. \A k \in Places(classes) :
        /\ k[1] \in Classes /\ k[2] \in Subjects /\ k = <<k[1], k[2]>>
        /\ SlotOf(w, k) \in Slots /\ g[k] \in Teachers
        /\ k[2] \in Nat /\ w[1] \in Nat /\ SlotOf(w, k) = w[1] + k[2] - 1
    <2> SUFFICES ASSUME NEW k \in Places(classes)
                 PROVE  /\ k[1] \in Classes /\ k[2] \in Subjects /\ k = <<k[1], k[2]>>
                        /\ SlotOf(w, k) \in Slots /\ g[k] \in Teachers
                        /\ k[2] \in Nat /\ w[1] \in Nat /\ SlotOf(w, k) = w[1] + k[2] - 1
        OBVIOUS
    <2>1. k[1] \in Classes /\ k[2] \in Subjects /\ k = <<k[1], k[2]>> /\ g[k] \in Teachers
        BY DEF Places
    <2>2. k[2] \in Nat /\ MaxSlot \in Nat
        BY <2>1, TimetableAssumption
    <2>3. w[1] \in 1..MaxSlot /\ w[2] \in 1..MaxSlot
        BY DEF Window, Slots
    <2>4. SlotOf(w, k) = w[1] + k[2] - 1
        BY DEF SlotOf
    <2>5. w[1] <= SlotOf(w, k) /\ SlotOf(w, k) <= w[2]
        BY <1>1 DEF Within
    <2> QED
        BY <2>1, <2>2, <2>3, <2>4, <2>5 DEF Slots
<1>3. \A x \in new : \E k \in Places(classes) : x = At(k)
    BY <1>1
<1>4. \A k \in Places(classes) : At(k) \in Row
    BY <1>2, TimetableAssumption DEF Row
<1>5. IsFiniteSet(new)
    <2>1. h \in Surjection(Places(classes), new)
        <3>1. h \in [Places(classes) -> new]
            BY <1>1
        <3>2. \A x \in new : \E k \in Places(classes) : h[k] = x
            BY <1>3
        <3> QED
            BY <3>1, <3>2 DEF Surjection
    <2>2. IsFiniteSet(Places(classes))
        <3>1. IsFiniteSet(classes) /\ IsFiniteSet(Subjects)
            BY TimetableAssumption, FS_Subset
        <3> QED
            BY <3>1, FS_Product DEF Places
    <2> HIDE DEF h
    <2> QED
        BY <2>1, <2>2, FS_Surjection
<1>6. Proposal(new)
    <2> SUFFICES ASSUME NEW x \in new, NEW y \in new, x # y, x.slot = y.slot
                 PROVE  x.class # y.class /\ x.teacher # y.teacher
        BY DEF Proposal
    <2>1. PICK k \in Places(classes) : x = At(k)
        BY <1>3
    <2>2. PICK j \in Places(classes) : y = At(j)
        BY <1>3
    <2>3. j # k /\ SlotOf(w, k) = SlotOf(w, j)
        BY <2>1, <2>2
    <2>4. k[2] = j[2]
        <3>1. k[2] \in Nat /\ j[2] \in Nat /\ w[1] \in Nat /\ w[1] + k[2] - 1 = w[1] + j[2] - 1
            BY <1>2, <2>3
        <3> QED
            BY <3>1
    <2>5. k[1] # j[1]
        BY <1>2, <2>3, <2>4
    <2>6. g[j] # g[k]
        BY <1>1, <2>3, <2>4
    <2> QED
        BY <2>1, <2>2, <2>5, <2>6
<1>7. \A x \in new : x.exam = e /\ x.teacher # None
    BY <1>2, <1>3, TimetableAssumption
<1>8. ASSUME NEW x \in new, NEW j \in DOMAIN row, row[j].slot = x.slot
      PROVE  row[j].teacher # x.teacher
    <2>1. PICK k \in Places(classes) : x = At(k)
        BY <1>3
    <2>2. Free(g[k], k[2], SlotOf(w, k))
        BY <1>1
    <2> QED
        BY <1>8, <2>1, <2>2 DEF Free
<1> QED
    BY <1>3, <1>4, <1>5, <1>6, <1>7, <1>8


\* What a handler carries on.
LEMMA Carried ==
    ASSUME NEW seen, DOMAIN seen = DOMAIN Nothing, seen.exam \in Exams \cup {None},
           seen.window \in Window, seen.classes \in SUBSET Classes,
           seen.dates \in BOOLEAN, seen.link \in BOOLEAN, seen.new \in SUBSET Row,
           IsTable(seen.plan, RowIds, Row), seen.sent \in Sends \cup {{}},
           seen.status \in ExamStatus
    PROVE  IsLocal(seen)
    BY DEF IsLocal

LEMMA NothingHeld ==
    /\ Nothing.exam = None /\ Nothing.window \in Window /\ Nothing.classes = {}
    /\ Nothing.dates = FALSE /\ Nothing.link = FALSE /\ Nothing.new = {}
    /\ Nothing.plan = << >> /\ IsTable(<< >>, RowIds, Row)
    /\ Nothing.sent = {} /\ Nothing.status = "DRAFT" /\ "DRAFT" \in ExamStatus
    BY NothingLocal, EmptyTable DEF IsLocal, Nothing, ExamStatus

LEMMA CreateKeeps ==
    ASSUME IInv, NEW r \in Requests, NEW e \in Exams, NEW classes \in SUBSET Classes,
           NEW w \in Window, Create(r, e, classes, w), UNCHANGED seating
    PROVE  IInv'
<1> DEFINE seen == [Nothing EXCEPT !.exam = e, !.classes = classes, !.window = w]
<1>1. Read(r, "idle", TRUE, "overlap", seen)
    BY Zenon DEF Create
<1>2. Untouched /\ (Goto(r, "overlap", seen) \/ Finish(r))
    BY <1>1 DEF Read, Untouched, tables, history
<1>3. /\ seen.new = {} /\ seen.plan = << >> /\ seen.exam = e /\ seen.window = w
      /\ seen.classes = classes /\ seen.dates = FALSE /\ seen.link = FALSE /\ seen.sent = {}
      /\ seen.status = "DRAFT" /\ DOMAIN seen = DOMAIN Nothing
    BY DEF Nothing
<1> HIDE DEF seen
<1>4. IsLocal(seen) /\ "overlap" \in Steps
    BY <1>3, Carried, NothingHeld DEF Steps
<1>5. ASSUME Goto(r, "overlap", seen) PROVE OwnInv(r)'
    <2>1. pc'[r] = "overlap" /\ local'[r] = seen
        BY <1>4, <1>5, Went DEF IInv, SeatingTypeOK
    <2>2. WindowInv(r)' /\ PublishInv(r)'
        BY <1>3, <2>1 DEF WindowInv, PublishInv
    <2> QED
        BY <1>3, <2>1, <2>2, NoRows
<1> QED
    BY <1>2, <1>4, <1>5, GoesOn, GivesUp

LEMMA AutoGenerateKeeps ==
    ASSUME IInv, NEW r \in Requests, NEW e \in Exams, NEW classes \in SUBSET Classes,
           NEW w \in Window, AutoGenerate(r, e, classes, w), UNCHANGED seating
    PROVE  IInv'
<1>1. PICK new \in buildProposedSchedule(e, classes, w) :
        Read(r, "idle", TRUE, "overlap",
             [Nothing EXCEPT !.exam = e, !.classes = classes, !.window = w, !.new = new])
    BY Zenon DEF AutoGenerate
<1> DEFINE seen == [Nothing EXCEPT !.exam = e, !.classes = classes, !.window = w, !.new = new]
<1>2. Untouched /\ (Goto(r, "overlap", seen) \/ Finish(r))
    BY <1>1 DEF Read, Untouched, tables, history
<1>3. /\ new \subseteq Row /\ IsFiniteSet(new) /\ Proposal(new)
      /\ \A x \in new : x.exam = e /\ x.teacher # None
      /\ \A x \in new, j \in DOMAIN row : row[j].slot = x.slot => row[j].teacher # x.teacher
    BY Proposed
<1>4. /\ seen.new = new /\ seen.plan = << >> /\ seen.exam = e /\ seen.window = w
      /\ seen.classes = classes /\ seen.dates = FALSE /\ seen.link = FALSE /\ seen.sent = {}
      /\ seen.status = "DRAFT" /\ DOMAIN seen = DOMAIN Nothing
    BY DEF Nothing
<1> HIDE DEF seen
<1>5. IsLocal(seen) /\ "overlap" \in Steps
    BY <1>3, <1>4, Carried, NothingHeld DEF Steps
<1>6. ASSUME Goto(r, "overlap", seen) PROVE OwnInv(r)'
    <2>1. pc'[r] = "overlap" /\ local'[r] = seen
        BY <1>5, <1>6, Went DEF IInv, SeatingTypeOK
    <2>2. WindowInv(r)' /\ PublishInv(r)' /\ PlanInv(r)'
        BY <1>4, <2>1 DEF WindowInv, PublishInv, PlanInv
    <2>3. row' = row
        BY <1>2 DEF Untouched
    <2>4. NewInv(r)'
        BY <1>3, <1>4, <2>1, <2>3 DEF NewInv, Proposal
    <2>5. DOMAIN local'[r].plan = {}
        BY <1>4, <2>1
    <2>6. NothingTaken(r)'
        BY <2>5 DEF NothingTaken
    <2> QED
        BY <2>2, <2>4, <2>6 DEF OwnInv
<1> QED
    BY <1>2, <1>5, <1>6, GoesOn, GivesUp

\* A row that copy makes of another.
Copied(x, e, by) ==
    [x EXCEPT !.exam = e, !.slot = @ + by, !.teacher = None, !.room = None, !.locked = FALSE]

LEMMA CopiedRow ==
    ASSUME NEW x \in Row, NEW e \in Exams, NEW by \in Slots, x.slot + by \in Slots
    PROVE  /\ Copied(x, e, by) \in Row
           /\ Copied(x, e, by).exam = e /\ Copied(x, e, by).teacher = None
    BY DEF Row, Copied

LEMMA CopyKeeps ==
    ASSUME IInv, NEW r \in Requests, NEW e \in Exams, NEW source \in Exams, NEW by \in Slots,
           Copy(r, source, e, by), UNCHANGED seating
    PROVE  IInv'
<1> DEFINE w == <<exam[source].window[1] + by, exam[source].window[2] + by>>
           new == {Copied(row[i], e, by) : i \in RowsOf(source)}
           h == [i \in RowsOf(source) |-> Copied(row[i], e, by)]
           seen == [Nothing EXCEPT !.exam = e, !.classes = exam[source].classes, !.window = w,
                                   !.new = new]
<1>1. source \in Live /\ w \in Window /\ \A i \in RowsOf(source) : row[i].slot + by \in Slots
    BY Zenon DEF Copy
<1>2. Read(r, "idle", TRUE, "overlap", seen)
    BY Zenon DEF Copy, Copied
<1>3. Untouched /\ (Goto(r, "overlap", seen) \/ Finish(r))
    <2> HIDE DEF seen
    <2> QED
        BY <1>2 DEF Read, Untouched, tables, history
<1>4. TypeOK
    BY DEF IInv, SeatingTypeOK
<1>5. exam[source].classes \in SUBSET Classes
    <2>1. source \in DOMAIN exam /\ IsTable(exam, Exams, Exam)
        BY <1>1, <1>4 DEF Live, TypeOK
    <2> QED
        BY <2>1 DEF IsTable, Exam
<1>6. RowsOf(source) \subseteq RowIds /\ \A i \in RowsOf(source) : row[i] \in Row
    BY <1>4 DEF TypeOK, IsTable, RowsOf
<1>7. \A x \in new : x \in Row /\ x.exam = e /\ x.teacher = None
    BY <1>1, <1>6, CopiedRow
<1>8. IsFiniteSet(new)
    <2>1. h \in Surjection(RowsOf(source), new)
        <3>1. h \in [RowsOf(source) -> new] /\ \A x \in new : \E i \in RowsOf(source) : h[i] = x
            OBVIOUS
        <3> QED
            BY <3>1 DEF Surjection
    <2>2. IsFiniteSet(RowsOf(source))
        BY <1>6, TimetableAssumption, FS_Subset
    <2> HIDE DEF h, new
    <2> QED
        BY <2>1, <2>2, FS_Surjection
<1> HIDE DEF new, h, w
<1>9. /\ seen.new = new /\ seen.plan = << >> /\ seen.exam = e /\ seen.window = w
      /\ seen.classes = exam[source].classes /\ seen.dates = FALSE /\ seen.link = FALSE
      /\ seen.sent = {} /\ seen.status = "DRAFT" /\ DOMAIN seen = DOMAIN Nothing
    BY DEF Nothing
<1> HIDE DEF seen
<1>10. IsLocal(seen) /\ "overlap" \in Steps
    BY <1>1, <1>5, <1>7, <1>9, Carried, NothingHeld DEF Steps
<1>11. ASSUME Goto(r, "overlap", seen) PROVE OwnInv(r)'
    <2>1. pc'[r] = "overlap" /\ local'[r] = seen
        BY <1>4, <1>10, <1>11, Went
    <2>2. WindowInv(r)' /\ PublishInv(r)' /\ PlanInv(r)'
        BY <1>9, <2>1 DEF WindowInv, PublishInv, PlanInv
    <2>3. (\E x \in new : x.teacher = None) \/ Proposal(new)
        BY <1>7 DEF Proposal
    <2>4. NewInv(r)'
        BY <1>7, <1>8, <1>9, <2>1, <2>3 DEF NewInv, Proposal
    <2>5. DOMAIN local'[r].plan = {}
        BY <1>9, <2>1
    <2>6. NothingTaken(r)'
        BY <2>5 DEF NothingTaken
    <2> QED
        BY <2>2, <2>4, <2>6 DEF OwnInv
<1> QED
    BY <1>3, <1>10, <1>11, GoesOn, GivesUp


LEMMA AssertKeeps ==
    ASSUME IInv, NEW r \in Requests, assertNoTimelineOverlap(r), UNCHANGED seating
    PROVE  IInv'
<1> DEFINE l == local[r]
<1>1. /\ Untouched
      /\ \/ Overlapping(l.classes, l.window, l.exam) = {} /\ Goto(r, "create", l)
         \/ Finish(r)
    BY DEF assertNoTimelineOverlap, Read, Untouched, tables, history
<1>2. pc[r] = "overlap"
    BY DEF assertNoTimelineOverlap, Read
<1>3. TypeOK /\ WindowInv(r) /\ NewInv(r) /\ NothingTaken(r)
    BY DEF IInv, SeatingTypeOK, ExamsInv, RowsInv, PublishedInv
<1>4. IsLocal(l) /\ "create" \in Steps
    BY <1>3 DEF TypeOK, Steps
<1>5. ASSUME Overlapping(l.classes, l.window, l.exam) = {}, Goto(r, "create", l)
      PROVE  OwnInv(r)'
    <2>1. pc'[r] = "create" /\ local'[r] = l
        BY <1>3, <1>4, <1>5, Went
    <2>2. /\ exam' = exam /\ row' = row /\ loose' = loose /\ unchecked' = unchecked
          /\ booked' = booked
        BY <1>1 DEF Untouched
    <2>3. Apart(l.exam, l.classes, l.window)
        BY <1>5 DEF Apart, Overlapping
    <2>4. Apart(l.exam, l.classes, l.window)'
        BY <2>1, <2>2, <2>3 DEF Apart, Live
    <2>5. WindowInv(r)'
        BY <1>2, <1>3, <2>1, <2>4 DEF WindowInv
    <2>6. NewInv(r)'
        BY <1>2, <1>3, <2>1, <2>2 DEF NewInv
    <2>7. NothingTaken(r)'
        BY <1>2, <1>3, <2>1 DEF NothingTaken
    <2>8. PlanInv(r)' /\ PublishInv(r)'
        BY <2>1 DEF PlanInv, PublishInv
    <2> QED
        BY <2>5, <2>6, <2>7, <2>8 DEF OwnInv
<1> QED
    BY <1>1, <1>4, <1>5, GoesOn, GivesUp

LEMMA UpdateExamKeeps ==
    ASSUME IInv, NEW r \in Requests, NEW e \in Exams, NEW dates \in BOOLEAN, NEW w \in Window,
           NEW link \in BOOLEAN, NEW classes \in SUBSET Classes,
           UpdateExam(r, e, dates, w, link, classes), UNCHANGED seating
    PROVE  IInv'
<1> DEFINE v == IF dates THEN w ELSE exam[e].window
           cs == IF link THEN classes ELSE exam[e].classes
           seen == [Nothing EXCEPT !.exam = e, !.dates = dates, !.link = link,
                                   !.window = v, !.classes = cs]
<1>1. (dates \/ link) /\ Read(r, "idle", e \in Live, "recheck", seen)
    BY Zenon DEF UpdateExam
<1>2. Untouched /\ ((e \in Live /\ Goto(r, "recheck", seen)) \/ Finish(r))
    <2> HIDE DEF seen
    <2> QED
        BY <1>1 DEF Read, Untouched, tables, history
<1>3. TypeOK
    BY DEF IInv, SeatingTypeOK
<1>4. e \in Live => v \in Window /\ cs \in SUBSET Classes
    BY <1>3 DEF Live, TypeOK, IsTable, Exam
<1>5. link \/ (dates /\ cs = exam[e].classes)
    BY <1>1
<1> HIDE DEF v, cs
<1>6. /\ seen.new = {} /\ seen.plan = << >> /\ seen.exam = e /\ seen.window = v
      /\ seen.classes = cs /\ seen.dates = dates /\ seen.link = link /\ seen.sent = {}
      /\ seen.status = "DRAFT" /\ DOMAIN seen = DOMAIN Nothing
    BY DEF Nothing
<1> HIDE DEF seen
<1>7. ASSUME e \in Live, Goto(r, "recheck", seen)
      PROVE  IInv'
    <2>1. IsLocal(seen) /\ "recheck" \in Steps
        BY <1>4, <1>6, <1>7, Carried, NothingHeld DEF Steps
    <2>2. pc'[r] = "recheck" /\ local'[r] = seen
        BY <1>3, <1>7, <2>1, Went
    <2>3. exam' = exam /\ e \in DOMAIN exam
        BY <1>2, <1>7 DEF Untouched, Live
    <2>4. WindowInv(r)'
        BY <1>5, <1>6, <2>2, <2>3 DEF WindowInv
    <2>5. PublishInv(r)'
        BY <2>2 DEF PublishInv
    <2>6. OwnInv(r)'
        BY <1>6, <2>2, <2>4, <2>5, NoRows
    <2> QED
        BY <1>2, <1>7, <2>1, <2>6, GoesOn
<1> QED
    BY <1>2, <1>7, GivesUp

LEMMA RecheckKeeps ==
    ASSUME IInv, NEW r \in Requests, RecheckOverlap(r), UNCHANGED seating
    PROVE  IInv'
<1> DEFINE l == local[r]
<1>1. /\ Untouched
      /\ \/ Overlapping(l.classes, l.window, l.exam) = {} /\ Goto(r, "redate", l)
         \/ Finish(r)
    BY DEF RecheckOverlap, Read, Untouched, tables, history
<1>2. pc[r] = "recheck"
    BY DEF RecheckOverlap, Read
<1>3. TypeOK /\ WindowInv(r)
    BY DEF IInv, SeatingTypeOK, ExamsInv
<1>4. IsLocal(l) /\ "redate" \in Steps
    BY <1>3 DEF TypeOK, Steps
<1>5. ASSUME Overlapping(l.classes, l.window, l.exam) = {}, Goto(r, "redate", l)
      PROVE  OwnInv(r)'
    <2>1. pc'[r] = "redate" /\ local'[r] = l
        BY <1>3, <1>4, <1>5, Went
    <2>2. exam' = exam /\ loose' = loose
        BY <1>1 DEF Untouched
    <2>3. Apart(l.exam, l.classes, l.window)
        BY <1>5 DEF Apart, Overlapping
    <2>4. Apart(l.exam, l.classes, l.window)'
        BY <2>1, <2>2, <2>3 DEF Apart, Live
    <2>5. WindowInv(r)'
        BY <1>2, <1>3, <2>1, <2>2, <2>4 DEF WindowInv
    <2>6. NewInv(r)' /\ NothingTaken(r)' /\ PlanInv(r)' /\ PublishInv(r)'
        BY <2>1 DEF NewInv, NothingTaken, PlanInv, PublishInv
    <2> QED
        BY <2>5, <2>6 DEF OwnInv
<1> QED
    BY <1>1, <1>4, <1>5, GoesOn, GivesUp

LEMMA ReadStatusKeeps ==
    ASSUME IInv, NEW r \in Requests, NEW e \in Exams, NEW to \in ExamStatus,
           ReadStatus(r, e, to), UNCHANGED seating
    PROVE  IInv'
<1> DEFINE seen == [Nothing EXCEPT !.exam = e, !.status = to]
           ok == /\ e \in Live /\ to \in EXAM_STATUS_TRANSITIONS[exam[e].status]
                 /\ to = "PUBLISHED" => Incomplete(e) = {}
<1>1. Read(r, "idle", ok, "status", seen)
    BY Zenon DEF ReadStatus
<1>2. Untouched /\ ((ok /\ Goto(r, "status", seen)) \/ Finish(r))
    <2> HIDE DEF ok, seen
    <2> QED
        BY <1>1 DEF Read, Untouched, tables, history
<1>3. TypeOK
    BY DEF IInv, SeatingTypeOK
<1>4. /\ seen.new = {} /\ seen.plan = << >> /\ seen.exam = e /\ seen.window = Nothing.window
      /\ seen.classes = {} /\ seen.dates = FALSE /\ seen.link = FALSE /\ seen.sent = {}
      /\ seen.status = to /\ DOMAIN seen = DOMAIN Nothing
    BY DEF Nothing
<1> HIDE DEF seen
<1>5. IsLocal(seen) /\ "status" \in Steps
    BY <1>4, Carried, NothingHeld DEF Steps
<1>6. ASSUME ok, Goto(r, "status", seen) PROVE OwnInv(r)'
    <2>1. pc'[r] = "status" /\ local'[r] = seen
        BY <1>3, <1>5, <1>6, Went
    <2>2. row' = row
        BY <1>2 DEF Untouched
    <2>3. to = "PUBLISHED" => Incomplete(e)' = {}
        BY <1>6, <2>2 DEF Incomplete, RowsOf
    <2>4. e \in DOMAIN exam /\ exam' = exam
        BY <1>2, <1>6 DEF Untouched, Live
    <2>5. WindowInv(r)' /\ PublishInv(r)'
        BY <1>4, <2>1, <2>3, <2>4 DEF WindowInv, PublishInv
    <2> QED
        BY <1>4, <2>1, <2>5, NoRows
<1> HIDE DEF ok
<1> QED
    BY <1>2, <1>5, <1>6, GoesOn, GivesUp


LEMMA BulkCreateKeeps ==
    ASSUME IInv, NEW r \in Requests, NEW e \in Exams, NEW c \in Classes,
           NEW items \in SUBSET (Subjects \X Slots), BulkCreate(r, e, c, items),
           UNCHANGED seating
    PROVE  IInv'
<1> DEFINE At(x) == [exam |-> e, class |-> c, subject |-> x[1], slot |-> x[2],
                     teacher |-> None, room |-> None, locked |-> FALSE]
           new == {At(x) : x \in items}
           h == [x \in items |-> At(x)]
           seen == [Nothing EXCEPT !.exam = e, !.new = new]
           ok == \A x \in items : ~Duplicate(e, c, x[1]) /\ Fits(e, c, x[2], {})
<1>1. Read(r, "idle", ok, "rows", seen)
    BY Zenon DEF BulkCreate
<1>2. Untouched /\ ((ok /\ Goto(r, "rows", seen)) \/ Finish(r))
    <2> HIDE DEF ok, seen
    <2> QED
        BY <1>1 DEF Read, Untouched, tables, history
<1>3. TypeOK
    BY DEF IInv, SeatingTypeOK
<1>4. \A y \in new : y \in Row /\ y.exam = e /\ y.teacher = None /\ y.class = c
    <2>1. ASSUME NEW x \in items
          PROVE  At(x) \in Row /\ At(x).exam = e /\ At(x).teacher = None /\ At(x).class = c
        <3>1. x[1] \in Subjects /\ x[2] \in Slots
            OBVIOUS
        <3> QED
            BY <3>1 DEF Row
    <2> HIDE DEF At
    <2> QED
        BY <2>1
<1>5. IsFiniteSet(new)
    <2>1. h \in Surjection(items, new)
        <3>1. h \in [items -> new] /\ \A y \in new : \E x \in items : h[x] = y
            OBVIOUS
        <3> QED
            BY <3>1 DEF Surjection
    <2>2. IsFiniteSet(items)
        <3>1. MaxSlot \in Int /\ 1 \in Int
            BY TimetableAssumption
        <3>2. IsFiniteSet(Subjects) /\ IsFiniteSet(Slots)
            BY <3>1, TimetableAssumption, FS_Interval DEF Slots
        <3>3. IsFiniteSet(Subjects \X Slots)
            BY <3>2, FS_Product
        <3> QED
            BY <3>3, FS_Subset
    <2> HIDE DEF h, new
    <2> QED
        BY <2>1, <2>2, FS_Surjection
<1>6. ok => \A y \in new, j \in DOMAIN row : row[j].exam = e /\ row[j].class = c
                                                => row[j].slot # y.slot
    <2> SUFFICES ASSUME ok, NEW x \in items, NEW j \in DOMAIN row, row[j].exam = e,
                        row[j].class = c
                 PROVE  row[j].slot # x[2]
        OBVIOUS
    <2>1. Fits(e, c, x[2], {})
        OBVIOUS
    <2> QED
        BY <2>1 DEF Fits, Conflict, RowsOf
<1> HIDE DEF new, h, ok
<1>7. /\ seen.new = new /\ seen.plan = << >> /\ seen.exam = e /\ seen.window = Nothing.window
      /\ seen.classes = {} /\ seen.dates = FALSE /\ seen.link = FALSE /\ seen.sent = {}
      /\ seen.status = "DRAFT" /\ DOMAIN seen = DOMAIN Nothing
    BY DEF Nothing
<1> HIDE DEF seen
<1>8. IsLocal(seen) /\ "rows" \in Steps
    BY <1>4, <1>7, Carried, NothingHeld DEF Steps
<1>9. ASSUME ok, Goto(r, "rows", seen) PROVE OwnInv(r)'
    <2>1. pc'[r] = "rows" /\ local'[r] = seen
        BY <1>3, <1>8, <1>9, Went
    <2>2. row' = row /\ exam' = exam /\ e \in DOMAIN exam
        BY <1>2 DEF Untouched, BulkCreate
    <2>3. WindowInv(r)' /\ PublishInv(r)' /\ PlanInv(r)'
        BY <1>7, <2>1, <2>2 DEF WindowInv, PublishInv, PlanInv
    <2>4. (\E x \in new : x.teacher = None) \/ Proposal(new)
        BY <1>4 DEF Proposal
    <2>5. NewInv(r)'
        BY <1>4, <1>5, <1>6, <1>7, <1>9, <2>1, <2>2, <2>4 DEF NewInv, Proposal
    <2>6. DOMAIN local'[r].plan = {}
        BY <1>7, <2>1
    <2>7. NothingTaken(r)'
        BY <2>6 DEF NothingTaken
    <2> QED
        BY <2>3, <2>5, <2>7 DEF OwnInv
<1> QED
    BY <1>2, <1>8, <1>9, GoesOn, GivesUp

\* A row with some of the values that a request sends.
LEMMA PutRow ==
    ASSUME NEW x \in Row, NEW fields, NEW y,
           "slot" \in fields => y.slot \in Slots,
           "teacher" \in fields => y.teacher \in Teachers \cup {None},
           "room" \in fields => y.room \in Rooms \cup {None}
    PROVE  /\ Put(x, fields, y) \in Row
           /\ Put(x, fields, y).exam = x.exam /\ Put(x, fields, y).class = x.class
           /\ Put(x, fields, y).locked = x.locked
           /\ Put(x, fields, y).slot = IF "slot" \in fields THEN y.slot ELSE x.slot
           /\ Put(x, fields, y).teacher = IF "teacher" \in fields THEN y.teacher ELSE x.teacher
           /\ Put(x, fields, y).room = IF "room" \in fields THEN y.room ELSE x.room
    BY DEF Put, Row

\* What a request carries that is about to write what it sent into some rows.
Puts(ids, fields, y) == [i \in ids |-> Put(row[i], fields, y)]
Sent(fields, rows) == [Nothing EXCEPT !.sent = fields, !.plan = rows]

LEMMA WillPut ==
    ASSUME IInv, NEW r \in Requests, NEW step \in {"write", "bulk"}, NEW fields \in Sends,
           NEW y \in Values, NEW ids \in SUBSET DOMAIN row,
           \A i \in ids : Allowed(i, fields, y),
           Goto(r, step, Sent(fields, Puts(ids, fields, y))), Untouched
    PROVE  IInv'
<1> DEFINE new == Puts(ids, fields, y)
           seen == Sent(fields, new)
<1>1. TypeOK
    BY DEF IInv, SeatingTypeOK
<1>2. y.slot \in Slots /\ y.teacher \in Teachers \cup {None} /\ y.room \in Rooms \cup {None}
    BY DEF Values
<1>3. \A i \in ids : /\ new[i] \in Row
                     /\ "slot" \in fields => new[i].slot = y.slot
                     /\ "teacher" \in fields => new[i].teacher = y.teacher
                     /\ "room" \in fields => new[i].room = y.room
    <2>1. \A i \in ids : row[i] \in Row
        BY <1>1 DEF TypeOK, IsTable
    <2>2. \A i \in ids : new[i] = Put(row[i], fields, y)
        BY DEF Puts
    <2> HIDE DEF new
    <2> QED
        BY <1>2, <2>1, <2>2, PutRow
<1>4. DOMAIN new = ids
    BY DEF Puts
<1>5. IsTable(new, RowIds, Row)
    <2>1. ids \subseteq RowIds
        BY <1>1 DEF TypeOK, IsTable
    <2>2. new = [i \in DOMAIN new |-> new[i]]
        BY DEF Puts
    <2> HIDE DEF new
    <2> QED
        BY <1>3, <1>4, <2>1, <2>2 DEF IsTable
<1> HIDE DEF new
<1>6. /\ seen.new = {} /\ seen.plan = new /\ seen.exam = None /\ seen.window = Nothing.window
      /\ seen.classes = {} /\ seen.dates = FALSE /\ seen.link = FALSE /\ seen.sent = fields
      /\ seen.status = "DRAFT" /\ DOMAIN seen = DOMAIN Nothing
    BY DEF Nothing, Sent
<1>7. Goto(r, step, seen)
    BY DEF new
<1> HIDE DEF seen
<1>8. IsLocal(seen) /\ step \in Steps
    BY <1>5, <1>6, Carried, NothingHeld DEF Steps
<1>9. pc'[r] = step /\ local'[r] = seen
    BY <1>1, <1>7, <1>8, Went
<1>10. row' = row
    BY DEF Untouched
<1>11. WindowInv(r)' /\ NewInv(r)' /\ PublishInv(r)'
    BY <1>9 DEF WindowInv, NewInv, PublishInv
<1>12. PlanInv(r)'
    <2> SUFFICES ASSUME "slot" \in fields, NEW i \in ids, NEW j \in DOMAIN row, j # i,
                        row[j].exam = row[i].exam, row[j].class = row[i].class
                 PROVE  row[j].slot # new[i].slot
        BY <1>4, <1>6, <1>9, <1>10 DEF PlanInv
    <2>1. Fits(row[i].exam, row[i].class, y.slot, {i})
        BY DEF Allowed
    <2> QED
        BY <1>3, <2>1 DEF Fits, Conflict, RowsOf
<1>13. NothingTaken(r)'
    BY <1>9 DEF NothingTaken
<1>14. OwnInv(r)'
    BY <1>11, <1>12, <1>13 DEF OwnInv
<1> QED
    BY <1>7, <1>8, <1>14, GoesOn

LEMMA UpdateRowKeeps ==
    ASSUME IInv, NEW r \in Requests, NEW i, UpdateRow(r, i), UNCHANGED seating
    PROVE  IInv'
<1>1. i \in DOMAIN row
    BY DEF UpdateRow
<1>2. PICK fields \in Sends, y \in Values :
        Read(r, "idle", Allowed(i, fields, y), "write",
             [Nothing EXCEPT !.sent = fields, !.plan = [k \in {i} |-> Put(row[i], fields, y)]])
    BY Zenon DEF UpdateRow
<1> DEFINE seen == Sent(fields, Puts({i}, fields, y))
<1>3. [k \in {i} |-> Put(row[i], fields, y)] = [k \in {i} |-> Put(row[k], fields, y)]
    OBVIOUS
<1>4. Read(r, "idle", Allowed(i, fields, y), "write", seen)
    BY <1>2, <1>3, Zenon DEF Sent, Puts
<1>5. Untouched /\ ((Allowed(i, fields, y) /\ Goto(r, "write", seen)) \/ Finish(r))
    <2> HIDE DEF seen
    <2> QED
        BY <1>4 DEF Read, Untouched, tables, history
<1>6. ASSUME Allowed(i, fields, y), Goto(r, "write", seen) PROVE IInv'
    <2>1. {i} \in SUBSET DOMAIN row /\ \A k \in {i} : Allowed(k, fields, y)
        BY <1>1, <1>6
    <2> QED
        BY <1>5, <1>6, <2>1, WillPut
<1> QED
    BY <1>5, <1>6, GivesUp

LEMMA BulkUpdateKeeps ==
    ASSUME IInv, NEW r \in Requests, NEW ids, BulkUpdate(r, ids), UNCHANGED seating
    PROVE  IInv'
<1>1. PICK fields \in Sends, y \in Values :
        LET ok == {i \in ids \cap DOMAIN row : Unlocked(i) /\ Allowed(i, fields, y)}
        IN  Read(r, "idle", ok # {}, "bulk",
                 [Nothing EXCEPT !.sent = fields, !.plan = [i \in ok |-> Put(row[i], fields, y)]])
    BY Zenon DEF BulkUpdate
<1> DEFINE ok == {i \in ids \cap DOMAIN row : Unlocked(i) /\ Allowed(i, fields, y)}
           seen == Sent(fields, Puts(ok, fields, y))
<1>2. Read(r, "idle", ok # {}, "bulk", seen)
    BY <1>1, Zenon DEF Sent, Puts
<1>3. Untouched /\ (Goto(r, "bulk", seen) \/ Finish(r))
    <2> HIDE DEF seen
    <2> QED
        BY <1>2 DEF Read, Untouched, tables, history
<1>4. ASSUME Goto(r, "bulk", seen) PROVE IInv'
    <2>1. ok \in SUBSET DOMAIN row /\ \A k \in ok : Allowed(k, fields, y)
        OBVIOUS
    <2> HIDE DEF ok
    <2> QED
        BY <1>3, <1>4, <2>1, WillPut
<1> QED
    BY <1>3, <1>4, GivesUp

LEMMA RemoveRowKeeps ==
    ASSUME IInv, NEW r \in Requests, NEW i, RemoveRow(r, i), UNCHANGED seating
    PROVE  IInv'
<1> DEFINE new == [k \in {i} |-> row[i]]
           seen == [Nothing EXCEPT !.plan = new]
<1>1. i \in DOMAIN row /\ Read(r, "idle", TRUE, "remove", seen)
    BY Zenon DEF RemoveRow
<1>2. Untouched /\ (Goto(r, "remove", seen) \/ Finish(r))
    <2> HIDE DEF seen
    <2> QED
        BY <1>1 DEF Read, Untouched, tables, history
<1>3. TypeOK
    BY DEF IInv, SeatingTypeOK
<1>4. IsTable(new, RowIds, Row)
    BY <1>1, <1>3 DEF TypeOK, IsTable
<1> HIDE DEF new
<1>5. /\ seen.new = {} /\ seen.plan = new /\ seen.exam = None /\ seen.window = Nothing.window
      /\ seen.classes = {} /\ seen.dates = FALSE /\ seen.link = FALSE /\ seen.sent = {}
      /\ seen.status = "DRAFT" /\ DOMAIN seen = DOMAIN Nothing
    BY DEF Nothing
<1> HIDE DEF seen
<1>6. IsLocal(seen) /\ "remove" \in Steps
    BY <1>4, <1>5, Carried, NothingHeld DEF Steps
<1>7. ASSUME Goto(r, "remove", seen) PROVE OwnInv(r)'
    <2>1. pc'[r] = "remove"
        BY <1>3, <1>6, <1>7, Went
    <2> QED
        BY <2>1, AtRest
<1> QED
    BY <1>2, <1>6, <1>7, GoesOn, GivesUp


\* What is replaced are rows of the exam, by rows of the proposal.
LEMMA DifferingTable ==
    ASSUME NEW e, NEW proposal, NEW old \in Existing(e, proposal)
    PROVE  /\ DOMAIN Differing(old) \subseteq RowsOf(e)
           /\ Differing(old) \in [DOMAIN Differing(old) -> proposal]
<1> DEFINE ids == {old[x] : x \in {y \in DOMAIN old :
                     Unlocked(old[y]) /\ [y EXCEPT !.room = row[old[y]].room] # row[old[y]]}}
           new == [i \in ids |-> CHOOSE x \in DOMAIN old : old[x] = i]
<1>1. Differing(old) = new
    BY DEF Differing
<1>2. DOMAIN old \subseteq proposal /\ \A x \in DOMAIN old : old[x] \in RowsOf(e)
    BY DEF Existing
<1>3. \A i \in ids : \E x \in DOMAIN old : old[x] = i
    OBVIOUS
<1>4. ids \subseteq RowsOf(e)
    BY <1>2
<1> HIDE DEF ids
<1>5. \A i \in ids : new[i] \in DOMAIN old
    BY <1>3
<1>6. DOMAIN new = ids /\ new = [i \in DOMAIN new |-> new[i]]
    OBVIOUS
<1> HIDE DEF new
<1> QED
    BY <1>1, <1>2, <1>4, <1>5, <1>6

LEMMA RegenerateKeeps ==
    ASSUME IInv, NEW r \in Requests, NEW e \in Exams, NEW classes \in SUBSET Classes,
           NEW w \in Window, Regenerate(r, e, classes, w), UNCHANGED seating
    PROVE  IInv'
<1>0. PICK proposal \in buildProposedSchedule(e, classes, w) : \E old \in Existing(e, proposal) :
        LET new == Missing(e, proposal)
            rows == Differing(old)
        IN  Read(r, "idle", new # {} \/ rows # << >>, IF new # {} THEN "rows" ELSE "replace",
                 [Nothing EXCEPT !.exam = e, !.new = new, !.plan = rows])
    BY Zenon DEF Regenerate
<1>1. PICK old \in Existing(e, proposal) :
        LET new == Missing(e, proposal)
            rows == Differing(old)
        IN  Read(r, "idle", new # {} \/ rows # << >>, IF new # {} THEN "rows" ELSE "replace",
                 [Nothing EXCEPT !.exam = e, !.new = new, !.plan = rows])
    BY <1>0, Zenon
<1> DEFINE new == Missing(e, proposal)
           rows == Differing(old)
           step == IF new # {} THEN "rows" ELSE "replace"
           seen == [Nothing EXCEPT !.exam = e, !.new = new, !.plan = rows]
<1>2. Read(r, "idle", new # {} \/ rows # << >>, step, seen)
    BY <1>1, Zenon
<1>3. Untouched /\ (Goto(r, step, seen) \/ Finish(r))
    <2> HIDE DEF step, seen
    <2> QED
        BY <1>2 DEF Read, Untouched, tables, history
<1>4. TypeOK
    BY DEF IInv, SeatingTypeOK
<1>5. /\ proposal \subseteq Row /\ IsFiniteSet(proposal) /\ Proposal(proposal)
      /\ \A x \in proposal : x.exam = e /\ x.teacher # None
      /\ \A x \in proposal, j \in DOMAIN row : row[j].slot = x.slot => row[j].teacher # x.teacher
    BY Proposed
<1>6. new \subseteq proposal
    BY DEF Missing
<1>7. IsFiniteSet(new)
    BY <1>5, <1>6, FS_Subset
<1>8. /\ DOMAIN rows \subseteq RowsOf(e)
      /\ rows \in [DOMAIN rows -> proposal]
    BY DifferingTable
<1>9. IsTable(rows, RowIds, Row)
    <2>1. RowsOf(e) \subseteq RowIds
        BY <1>4 DEF TypeOK, IsTable, RowsOf
    <2> HIDE DEF rows
    <2> QED
        BY <1>5, <1>8, <2>1 DEF IsTable
<1>10. \A i \in DOMAIN rows : rows[i].teacher # None
    <2> HIDE DEF rows
    <2> QED
        BY <1>5, <1>8
<1>11. step \in {"rows", "replace"}
    OBVIOUS
<1> HIDE DEF new, rows, step
<1>12. /\ seen.new = new /\ seen.plan = rows /\ seen.exam = e /\ seen.window = Nothing.window
       /\ seen.classes = {} /\ seen.dates = FALSE /\ seen.link = FALSE /\ seen.sent = {}
       /\ seen.status = "DRAFT" /\ DOMAIN seen = DOMAIN Nothing
    BY DEF Nothing
<1> HIDE DEF seen
<1>13. IsLocal(seen) /\ step \in Steps
    <2>1. new \in SUBSET Row
        BY <1>5, <1>6
    <2> QED
        BY <1>9, <1>11, <1>12, <2>1, Carried, NothingHeld DEF Steps
<1>14. ASSUME Goto(r, step, seen) PROVE OwnInv(r)'
    <2>1. pc'[r] = step /\ local'[r] = seen
        BY <1>4, <1>13, <1>14, Went
    <2>2. row' = row /\ exam' = exam /\ e \in DOMAIN exam
        BY <1>3 DEF Untouched, Regenerate, Live
    <2>3. WindowInv(r)' /\ PublishInv(r)' /\ PlanInv(r)'
        BY <1>11, <1>12, <2>1, <2>2 DEF WindowInv, PublishInv, PlanInv
    <2>4. Proposal(new) /\ \A x \in new : x.exam = e /\ x.teacher # None
        BY <1>5, <1>6 DEF Proposal
    <2>5. \A x \in new, j \in DOMAIN row : row[j].slot = x.slot => row[j].teacher # x.teacher
        BY <1>5, <1>6
    <2>6. NewInv(r)'
        BY <1>7, <1>12, <2>1, <2>2, <2>4, <2>5 DEF NewInv, Proposal
    <2>7. NothingTaken(r)'
        BY <1>10, <1>11, <1>12, <2>1 DEF NothingTaken
    <2> QED
        BY <2>3, <2>6, <2>7 DEF OwnInv
<1> QED
    BY <1>3, <1>13, <1>14, GoesOn, GivesUp


-----------------------------------------------------------------------------
(* Steps that write an exam.                                               *)

WindowSteps == {"create", "recheck", "redate", "unlink", "link"}

\* One exam is written.  Either it does not count any more, or nobody else is between a
\* check and a write and it meets no other, or it has no classes yet, or it does not move.
LEMMA OneExamWritten ==
    ASSUME ExamsInv, NEW r \in Requests, NEW e,
           \A q \in Requests \ {r} : Stays(q), WindowInv(r)',
           loose \subseteq loose', DOMAIN exam' = DOMAIN exam \cup {e},
           \A f \in DOMAIN exam : f # e => exam'[f] = exam[f],
           \/ e \in loose'
           \/ /\ Others(r, WindowSteps) = {}
              /\ \A f \in Live \ loose : f # e =>
                    exam[f].classes \cap exam'[e].classes = {}
                    \/ ~Meet(exam[f].window, exam'[e].window)
           \/ e \notin DOMAIN exam /\ exam'[e].classes = {}
           \/ /\ e \in DOMAIN exam
              /\ exam'[e].window = exam[e].window /\ exam'[e].classes = exam[e].classes
              /\ exam'[e].deleted \/ ~exam[e].deleted
    PROVE  ExamsInv'
<1>1. Live' = {f \in DOMAIN exam' : ~exam'[f].deleted}
    BY DEF Live
<1>2. \A f \in Live' \ loose' : f # e => f \in Live \ loose /\ exam'[f] = exam[f]
    BY <1>1 DEF Live
<1>3. ExamsApart
    BY DEF ExamsInv
<1>4. \A f, g \in Live \ loose : f # g => \/ exam[f].classes \cap exam[g].classes = {}
                                          \/ ~Meet(exam[f].window, exam[g].window)
    BY <1>3 DEF ExamsApart, Overlapping
<1>5. ASSUME e \in Live' \ loose', NEW f \in Live' \ loose', f # e
      PROVE  \/ exam'[f].classes \cap exam'[e].classes = {}
             \/ ~Meet(exam'[f].window, exam'[e].window)
    <2>1. f \in Live \ loose /\ exam'[f] = exam[f]
        BY <1>2, <1>5
    <2>2. CASE Others(r, WindowSteps) = {} /\ \A g \in Live \ loose : g # e =>
                    exam[g].classes \cap exam'[e].classes = {}
                    \/ ~Meet(exam[g].window, exam'[e].window)
        BY <1>5, <2>1, <2>2
    <2>3. CASE exam'[e].classes = {}
        BY <2>3
    <2>4. CASE /\ e \in DOMAIN exam
               /\ exam'[e].window = exam[e].window /\ exam'[e].classes = exam[e].classes
               /\ exam'[e].deleted \/ ~exam[e].deleted
        <3>1. e \in Live \ loose
            BY <1>1, <1>5, <2>4 DEF Live
        <3> QED
            BY <1>4, <1>5, <2>1, <2>4, <3>1
    <2> QED
        BY <1>5, <2>2, <2>3, <2>4
<1>6. ExamsApart'
    <2> SUFFICES ASSUME NEW f \in Live' \ loose', NEW g \in Live' \ loose', f # g
                 PROVE  \/ exam'[g].classes \cap exam'[f].classes = {}
                        \/ ~Meet(exam'[g].window, exam'[f].window)
        BY DEF ExamsApart, Overlapping
    <2>1. CASE f = e
        BY <1>5, <2>1
    <2>2. CASE g = e
        <3>1. \/ exam'[f].classes \cap exam'[e].classes = {}
              \/ ~Meet(exam'[f].window, exam'[e].window)
            BY <1>5, <2>2
        <3> QED
            BY <2>2, <3>1 DEF Meet
    <2>3. CASE f # e /\ g # e
        BY <1>2, <1>4, <2>3
    <2> QED
        BY <2>1, <2>2, <2>3
<1>7. ASSUME NEW q \in Requests \ {r} PROVE WindowInv(q)'
    <2>1. WindowInv(q) /\ Stays(q)
        BY DEF ExamsInv
    <2> DEFINE l == local[q]
    <2>2. pc'[q] = pc[q] /\ local'[q] = l
        BY <2>1 DEF Stays
    <2>3. /\ pc[q] \in {"overlap", "create"} => l.exam \in Exams
          /\ pc[q] \in {"link", "rows", "recheck", "redate", "unlink", "status"} =>
                l.exam \in DOMAIN exam'
          /\ pc[q] \in {"recheck", "redate", "unlink"} => l.new = {} /\ l.plan = << >>
          /\ pc[q] = "unlink" => l.exam \in loose'
        BY <2>1 DEF WindowInv
    <2>4. CASE pc[q] \in WindowSteps
        <3>1. q \in Others(r, WindowSteps)
            BY <2>4 DEF Others
        <3>2. pc[q] # "create" => l.exam \in DOMAIN exam
            BY <2>1, <2>4 DEF WindowInv, WindowSteps
        <3>3. pc[q] # "create" /\ l.exam \notin loose' =>
                exam'[l.exam].window = exam[l.exam].window
                /\ exam'[l.exam].classes = exam[l.exam].classes
            BY <3>1, <3>2
        <3>4. \/ e \notin Live' \ loose' \/ exam'[e].classes = {}
              \/ /\ e \in Live \ loose
                 /\ exam'[e].window = exam[e].window /\ exam'[e].classes = exam[e].classes
            BY <1>1, <3>1 DEF Live
        <3>5. pc[q] # "recheck" => Apart(l.exam, l.classes, l.window)
            BY <2>1, <2>4 DEF WindowInv, WindowSteps
        <3>6. pc[q] # "recheck" => \A f \in Live' \ loose' : f # l.exam =>
                exam'[f].classes \cap l.classes = {} \/ ~Meet(exam'[f].window, l.window)
            BY <1>2, <3>4, <3>5 DEF Apart
        <3>7. pc[q] = "link" => l.exam \in loose' \/ exam'[l.exam].window = l.window
            BY <2>1, <3>3 DEF WindowInv
        <3>8. pc[q] \in {"recheck", "redate"} =>
                l.exam \in loose' \/ l.link \/ (l.dates /\ exam'[l.exam].classes = l.classes)
            BY <2>1, <3>3 DEF WindowInv
        <3> QED
            BY <2>2, <2>3, <3>6, <3>7, <3>8 DEF WindowInv, Apart
    <2>5. CASE pc[q] \notin WindowSteps
        BY <2>2, <2>3, <2>5 DEF WindowInv, WindowSteps
    <2> QED
        BY <2>4, <2>5
<1> QED
    BY <1>6, <1>7 DEF ExamsInv

LEMMA ExamWritten ==
    ASSUME IInv, NEW r \in Requests, ExamsInv', OwnInv(r)',
           IsTable(exam', Exams, Exam), DOMAIN exam \subseteq DOMAIN exam',
           \A e \in DOMAIN exam' \ amended :
               exam'[e].status = "PUBLISHED" => Incomplete(e) = {},
           UNCHANGED <<row, unchecked, booked, amended>>, UNCHANGED seating,
           cascade' \subseteq Exams, loose' \subseteq Exams,
           pc' \in [Requests -> Steps],
           DOMAIN local' = Requests, \A q \in Requests : IsLocal(local'[q]),
           \A q \in Requests \ {r} : Stays(q)
    PROVE  IInv'
<1>1. /\ seat' = seat /\ capacity' = capacity /\ at' = at /\ held' = held
      /\ assigned' = assigned /\ crowded' = crowded /\ resized' = resized
    BY DEF seating
<1>2. SeatingTypeOK'
    BY <1>1 DEF IInv, SeatingTypeOK, TypeOK
<1>3. RowsInv'
    <2>1. \A q \in Requests : Stays(q) \/ (NewInv(q) /\ PlanInv(q))'
        BY DEF OwnInv
    <2>2. RowsInv
        BY DEF IInv
    <2>3. RowsOfExams
        BY <2>2 DEF RowsInv
    <2> QED
        BY <2>1, <2>2, <2>3, RowsMarked DEF RowsOfExams
<1>4. PublishedInv'
    <2>1. \A e : Incomplete(e)' = Incomplete(e)
        BY DEF Incomplete, RowsOf
    <2>2. PublishedIsComplete'
        BY <2>1 DEF PublishedIsComplete
    <2>3. ASSUME NEW q \in Requests \ {r} PROVE NothingTaken(q)' /\ PublishInv(q)'
        <3>1. NothingTaken(q) /\ PublishInv(q) /\ Stays(q)
            BY DEF IInv, PublishedInv
        <3>2. NothingTaken(q)'
            BY <3>1 DEF NothingTaken, Stays
        <3>3. PublishInv(q)'
            BY <2>1, <3>1 DEF PublishInv, Stays
        <3> QED
            BY <3>2, <3>3
    <2> QED
        BY <2>2, <2>3 DEF OwnInv, PublishedInv
<1>5. SeatsInv'
    BY SeatsKept DEF IInv
<1> QED
    BY <1>2, <1>3, <1>4, <1>5 DEF IInv


LEMMA InsertExamKeeps ==
    ASSUME IInv, NEW r \in Requests, InsertExam(r), UNCHANGED seating
    PROVE  IInv'
<1> DEFINE l == local[r]
           e == l.exam
           x == [window |-> l.window, classes |-> {}, status |-> "DRAFT", deleted |-> FALSE]
<1>1. /\ TypeOK /\ ExamsInv /\ PublishedInv /\ WindowInv(r) /\ NewInv(r) /\ NothingTaken(r)
      /\ RowsOfExams
    BY DEF IInv, SeatingTypeOK, ExamsInv, RowsInv, PublishedInv
<1>2. /\ pc[r] = "create" /\ e \notin DOMAIN exam /\ Goto(r, "link", l)
      /\ exam' = Upsert(exam, [f \in {e} |-> x])
      /\ UNCHANGED <<row, unchecked, booked, amended>> /\ loose' = loose /\ cascade' = cascade
    BY DEF InsertExam, history
<1>3. e \in Exams /\ Apart(e, l.classes, l.window)
    BY <1>1, <1>2 DEF WindowInv
<1>4. IsLocal(l) /\ "link" \in Steps
    BY <1>1 DEF TypeOK, Steps
<1>5. x \in Exam
    BY <1>4 DEF IsLocal, Exam, ExamStatus
<1>6. IsTable(exam', Exams, Exam)
    <2>1. IsTable([f \in {e} |-> x], Exams, Exam)
        BY <1>3, <1>5 DEF IsTable
    <2> QED
        BY <1>1, <1>2, <2>1, UpsertTable DEF TypeOK
<1>7. /\ DOMAIN exam' = DOMAIN exam \cup {e} /\ exam'[e] = x
      /\ \A f \in DOMAIN exam : f # e => exam'[f] = exam[f]
    BY <1>2 DEF Upsert
<1>8. /\ pc' \in [Requests -> Steps]
      /\ DOMAIN local' = Requests /\ \A q \in Requests : IsLocal(local'[q])
      /\ pc'[r] = "link" /\ local'[r] = l
      /\ \A q \in Requests \ {r} : Stays(q)
    BY <1>1, <1>2, <1>4, Went
<1>9. x.classes = {} /\ x.window = l.window /\ x.status = "DRAFT"
    OBVIOUS
<1> HIDE DEF x
<1>10. WindowInv(r)'
    <2>1. \A f \in Live' \ loose' : f # e => f \in Live \ loose /\ exam'[f] = exam[f]
        BY <1>2, <1>7 DEF Live
    <2>2. \A f \in Live' \ loose' : f # e => exam'[f].classes \cap l.classes = {}
                                             \/ ~Meet(exam'[f].window, l.window)
        BY <1>3, <2>1 DEF Apart
    <2> QED
        BY <1>7, <1>8, <1>9, <2>2 DEF WindowInv, Apart
<1>11. ExamsInv'
    BY <1>1, <1>2, <1>7, <1>8, <1>9, <1>10, OneExamWritten
<1>12. NewInv(r)'
    <2>1. \A y \in l.new : y.exam = e
        BY <1>1, <1>2 DEF NewInv
    <2>2. \A j \in DOMAIN row : row[j].exam # e
        BY <1>1, <1>2 DEF RowsOfExams
    <2>3. row' = row /\ booked' = booked /\ unchecked' = unchecked
        BY <1>2
    <2> QED
        BY <1>1, <1>2, <1>8, <2>1, <2>2, <2>3 DEF NewInv
<1>13. NothingTaken(r)' /\ PlanInv(r)' /\ PublishInv(r)'
    BY <1>1, <1>2, <1>8 DEF NothingTaken, PlanInv, PublishInv
<1>14. \A f \in DOMAIN exam' \ amended : exam'[f].status = "PUBLISHED" => Incomplete(f) = {}
    BY <1>1, <1>7, <1>9 DEF PublishedInv, PublishedIsComplete
<1>15. cascade' \subseteq Exams /\ loose' \subseteq Exams /\ DOMAIN exam \subseteq DOMAIN exam'
    BY <1>1, <1>2, <1>7 DEF TypeOK
<1> QED
    BY <1>2, <1>6, <1>8, <1>10, <1>11, <1>12, <1>13, <1>14, <1>15, ExamWritten DEF OwnInv

\* A row of the table exams gets new values.
LEMMA ExamPut ==
    ASSUME TypeOK, NEW e \in DOMAIN exam, NEW x \in Exam, exam' = [exam EXCEPT ![e] = x]
    PROVE  /\ IsTable(exam', Exams, Exam) /\ DOMAIN exam' = DOMAIN exam /\ exam'[e] = x
           /\ \A f \in DOMAIN exam : f # e => exam'[f] = exam[f]
    BY DEF TypeOK, IsTable

LEMMA ExamRow ==
    ASSUME TypeOK, NEW e \in DOMAIN exam
    PROVE  exam[e] \in Exam /\ e \in Exams
    BY DEF TypeOK, IsTable

LEMMA LinkClassesKeeps ==
    ASSUME IInv, NEW r \in Requests, LinkClasses(r), UNCHANGED seating
    PROVE  IInv'
<1> DEFINE l == local[r]
           e == l.exam
           x == [exam[e] EXCEPT !.classes = l.classes]
<1>1. /\ TypeOK /\ ExamsInv /\ PublishedInv /\ WindowInv(r) /\ NewInv(r) /\ NothingTaken(r)
    BY DEF IInv, SeatingTypeOK, ExamsInv, RowsInv, PublishedInv
<1>2. /\ pc[r] = "link" /\ exam' = [exam EXCEPT ![e] = x] /\ Loosen(r, e)
      /\ (IF l.new = {} THEN Finish(r) ELSE Goto(r, "rows", l))
      /\ UNCHANGED <<row, unchecked, booked, amended>> /\ cascade' = cascade
    BY DEF LinkClasses
<1>3. e \in DOMAIN exam /\ Apart(e, l.classes, l.window)
      /\ (e \in loose \/ exam[e].window = l.window)
    BY <1>1, <1>2 DEF WindowInv
<1>4. IsLocal(l) /\ "rows" \in Steps /\ exam[e] \in Exam /\ e \in Exams
    BY <1>1, <1>3, ExamRow DEF TypeOK, Steps
<1>5. /\ x \in Exam /\ x.classes = l.classes /\ x.window = exam[e].window
      /\ x.status = exam[e].status
    BY <1>4 DEF IsLocal, Exam
<1> HIDE DEF x
<1>6. /\ IsTable(exam', Exams, Exam) /\ DOMAIN exam' = DOMAIN exam /\ exam'[e] = x
      /\ \A f \in DOMAIN exam : f # e => exam'[f] = exam[f]
    BY <1>1, <1>2, <1>3, <1>5, ExamPut
<1>7. /\ loose' \subseteq loose \cup {e} /\ loose \subseteq loose'
      /\ e \in loose' \/ Others(r, WindowSteps) = {}
    BY <1>2 DEF Loosen, WindowSteps
<1>8. /\ pc' \in [Requests -> Steps]
      /\ DOMAIN local' = Requests /\ \A q \in Requests : IsLocal(local'[q])
      /\ (pc'[r] = "done" \/ (pc'[r] = "rows" /\ local'[r] = l))
      /\ \A q \in Requests \ {r} : Stays(q)
    BY <1>1, <1>2, <1>4, Went, Finished
<1>9. WindowInv(r)'
    BY <1>3, <1>6, <1>8 DEF WindowInv
<1>10. e \in loose' \/ \A f \in Live \ loose : f # e =>
            exam[f].classes \cap x.classes = {} \/ ~Meet(exam[f].window, x.window)
    BY <1>3, <1>5, <1>7 DEF Apart
<1>11. ExamsInv'
    <2>1. DOMAIN exam' = DOMAIN exam \cup {e}
        BY <1>3, <1>6
    <2> QED
        BY <1>1, <1>6, <1>7, <1>8, <1>9, <1>10, <2>1, OneExamWritten
<1>12. NewInv(r)'
    <2>1. row' = row /\ booked' = booked /\ unchecked' = unchecked
        BY <1>2
    <2> QED
        BY <1>1, <1>2, <1>8, <2>1 DEF NewInv
<1>13. NothingTaken(r)' /\ PlanInv(r)' /\ PublishInv(r)'
    BY <1>1, <1>2, <1>8 DEF NothingTaken, PlanInv, PublishInv
<1>14. \A f \in DOMAIN exam' \ amended : exam'[f].status = "PUBLISHED" => Incomplete(f) = {}
    BY <1>1, <1>5, <1>6 DEF PublishedInv, PublishedIsComplete
<1>15. cascade' \subseteq Exams /\ loose' \subseteq Exams
    BY <1>1, <1>2, <1>4, <1>7 DEF TypeOK
<1> QED
    BY <1>2, <1>6, <1>8, <1>9, <1>11, <1>12, <1>13, <1>14, <1>15, ExamWritten DEF OwnInv

LEMMA RedateKeeps ==
    ASSUME IInv, NEW r \in Requests, Redate(r), UNCHANGED seating
    PROVE  IInv'
<1> DEFINE l == local[r]
           e == l.exam
           x == IF l.dates THEN [exam[e] EXCEPT !.window = l.window] ELSE exam[e]
<1>1. TypeOK /\ ExamsInv /\ PublishedInv /\ WindowInv(r)
    BY DEF IInv, SeatingTypeOK, ExamsInv, PublishedInv
<1>2. /\ pc[r] = "redate"
      /\ exam' = (IF l.dates THEN [exam EXCEPT ![e] = [exam[e] EXCEPT !.window = l.window]]
                             ELSE exam)
      /\ Loosen(r, e) /\ (IF l.link THEN Goto(r, "unlink", l) ELSE Finish(r))
      /\ UNCHANGED <<row, unchecked, booked, amended>> /\ cascade' = cascade
    BY DEF Redate
<1>3. /\ e \in DOMAIN exam /\ Apart(e, l.classes, l.window)
      /\ e \in loose \/ l.link \/ (l.dates /\ exam[e].classes = l.classes)
      /\ l.new = {} /\ l.plan = << >>
    BY <1>1, <1>2 DEF WindowInv
<1>4. IsLocal(l) /\ "unlink" \in Steps /\ exam[e] \in Exam /\ e \in Exams
    BY <1>1, <1>3, ExamRow DEF TypeOK, Steps
<1>5. /\ x \in Exam /\ x.classes = exam[e].classes /\ (l.dates => x.window = l.window)
      /\ x.status = exam[e].status
    BY <1>4 DEF IsLocal, Exam
<1>6. /\ IsTable(exam', Exams, Exam) /\ DOMAIN exam' = DOMAIN exam /\ exam'[e] = x
      /\ \A f \in DOMAIN exam : f # e => exam'[f] = exam[f]
    <2>1. CASE l.dates
        <3>1. exam' = [exam EXCEPT ![e] = x]
            BY <1>2, <2>1
        <3> HIDE DEF x
        <3> QED
            BY <1>1, <1>3, <1>5, <3>1, ExamPut
    <2>2. CASE ~l.dates
        BY <1>1, <1>2, <2>2 DEF TypeOK
    <2> QED
        BY <2>1, <2>2
<1> HIDE DEF x
<1>7. /\ loose' \subseteq loose \cup {e} /\ loose \subseteq loose'
      /\ e \in loose' \/ (Others(r, WindowSteps) = {} /\ ~l.link)
    BY <1>2 DEF Loosen, WindowSteps
<1>8. /\ pc' \in [Requests -> Steps]
      /\ DOMAIN local' = Requests /\ \A q \in Requests : IsLocal(local'[q])
      /\ pc'[r] = "done" \/ (pc'[r] = "unlink" /\ local'[r] = l /\ l.link)
      /\ \A q \in Requests \ {r} : Stays(q)
    BY <1>1, <1>2, <1>4, Went, Finished
<1>9. \A f \in Live' \ loose' : f # e => f \in Live \ loose /\ exam'[f] = exam[f]
    BY <1>6, <1>7 DEF Live
<1>10. WindowInv(r)'
    <2>1. \A f \in Live' \ loose' : f # e => exam'[f].classes \cap l.classes = {}
                                             \/ ~Meet(exam'[f].window, l.window)
        BY <1>3, <1>9 DEF Apart
    <2> QED
        BY <1>3, <1>6, <1>7, <1>8, <2>1 DEF WindowInv, Apart
<1>11. e \in loose' \/ \A f \in Live \ loose : f # e =>
            exam[f].classes \cap x.classes = {} \/ ~Meet(exam[f].window, x.window)
    BY <1>3, <1>5, <1>7 DEF Apart
<1>12. ExamsInv'
    <2>1. DOMAIN exam' = DOMAIN exam \cup {e}
        BY <1>3, <1>6
    <2> QED
        BY <1>1, <1>6, <1>7, <1>8, <1>10, <1>11, <2>1, OneExamWritten
<1>13. NewInv(r)' /\ NothingTaken(r)' /\ PlanInv(r)' /\ PublishInv(r)'
    BY <1>8 DEF NewInv, NothingTaken, PlanInv, PublishInv
<1>14. \A f \in DOMAIN exam' \ amended : exam'[f].status = "PUBLISHED" => Incomplete(f) = {}
    BY <1>1, <1>5, <1>6 DEF PublishedInv, PublishedIsComplete
<1>15. cascade' \subseteq Exams /\ loose' \subseteq Exams
    BY <1>1, <1>2, <1>4, <1>7 DEF TypeOK
<1> QED
    BY <1>2, <1>6, <1>8, <1>10, <1>12, <1>13, <1>14, <1>15, ExamWritten DEF OwnInv


LEMMA UnlinkKeeps ==
    ASSUME IInv, NEW r \in Requests, Unlink(r), UNCHANGED seating
    PROVE  IInv'
<1> DEFINE l == local[r]
           e == l.exam
           x == [exam[e] EXCEPT !.classes = {}]
<1>1. TypeOK /\ ExamsInv /\ PublishedInv /\ WindowInv(r)
    BY DEF IInv, SeatingTypeOK, ExamsInv, PublishedInv
<1>2. /\ pc[r] = "unlink" /\ exam' = [exam EXCEPT ![e] = x] /\ Goto(r, "link", l)
      /\ UNCHANGED <<row, unchecked, booked, amended>> /\ loose' = loose /\ cascade' = cascade
    BY DEF Unlink, history
<1>3. /\ e \in DOMAIN exam /\ Apart(e, l.classes, l.window) /\ e \in loose
      /\ l.new = {} /\ l.plan = << >>
    BY <1>1, <1>2 DEF WindowInv
<1>4. IsLocal(l) /\ "link" \in Steps /\ exam[e] \in Exam /\ e \in Exams
    BY <1>1, <1>3, ExamRow DEF TypeOK, Steps
<1>5. x \in Exam /\ x.classes = {} /\ x.status = exam[e].status
    BY <1>4 DEF Exam
<1> HIDE DEF x
<1>6. /\ IsTable(exam', Exams, Exam) /\ DOMAIN exam' = DOMAIN exam /\ exam'[e] = x
      /\ \A f \in DOMAIN exam : f # e => exam'[f] = exam[f]
    BY <1>1, <1>2, <1>3, <1>5, ExamPut
<1>7. /\ pc' \in [Requests -> Steps]
      /\ DOMAIN local' = Requests /\ \A q \in Requests : IsLocal(local'[q])
      /\ pc'[r] = "link" /\ local'[r] = l
      /\ \A q \in Requests \ {r} : Stays(q)
    BY <1>1, <1>2, <1>4, Went
<1>8. WindowInv(r)'
    <2>1. \A f \in Live' \ loose' : f # e => f \in Live \ loose /\ exam'[f] = exam[f]
        BY <1>2, <1>6 DEF Live
    <2>2. \A f \in Live' \ loose' : f # e => exam'[f].classes \cap l.classes = {}
                                             \/ ~Meet(exam'[f].window, l.window)
        BY <1>3, <2>1 DEF Apart
    <2> QED
        BY <1>2, <1>3, <1>6, <1>7, <2>2 DEF WindowInv, Apart
<1>9. ExamsInv'
    <2>1. DOMAIN exam' = DOMAIN exam \cup {e} /\ e \in loose' /\ loose \subseteq loose'
        BY <1>2, <1>3, <1>6
    <2> QED
        BY <1>1, <1>6, <1>7, <1>8, <2>1, OneExamWritten
<1>10. PublishInv(r)'
    BY <1>7 DEF PublishInv
<1>11. OwnInv(r)'
    BY <1>3, <1>7, <1>8, <1>10, NoRows
<1>12. \A f \in DOMAIN exam' \ amended : exam'[f].status = "PUBLISHED" => Incomplete(f) = {}
    BY <1>1, <1>5, <1>6 DEF PublishedInv, PublishedIsComplete
<1>13. cascade' \subseteq Exams /\ loose' \subseteq Exams
    BY <1>1, <1>2 DEF TypeOK
<1> QED
    BY <1>2, <1>6, <1>7, <1>9, <1>11, <1>12, <1>13, ExamWritten

\* A request ends with the write of an exam that keeps its window and its classes, or of
\* one that does not count from now on.
LEMMA LastWrite ==
    ASSUME IInv, NEW r \in Requests, Finish(r), UNCHANGED seating,
           UNCHANGED <<row, unchecked, booked, amended>>, cascade' \subseteq Exams,
           NEW e \in DOMAIN exam, NEW x \in Exam, exam' = [exam EXCEPT ![e] = x],
           x.window = exam[e].window, x.classes = exam[e].classes,
           \/ loose' = loose /\ (x.deleted \/ ~exam[e].deleted)
           \/ loose' = loose \cup {e},
           x.status = "PUBLISHED" /\ e \notin amended => Incomplete(e) = {}
    PROVE  IInv'
<1>1. TypeOK /\ ExamsInv /\ PublishedInv
    BY DEF IInv, SeatingTypeOK, PublishedInv
<1>2. /\ IsTable(exam', Exams, Exam) /\ DOMAIN exam' = DOMAIN exam /\ exam'[e] = x
      /\ \A f \in DOMAIN exam : f # e => exam'[f] = exam[f]
    BY <1>1, ExamPut
<1>3. /\ pc' \in [Requests -> Steps]
      /\ DOMAIN local' = Requests /\ \A q \in Requests : IsLocal(local'[q])
      /\ pc'[r] = "done"
      /\ \A q \in Requests \ {r} : Stays(q)
    BY <1>1, Finished
<1>4. OwnInv(r)'
    BY <1>3, AtRest
<1>5. e \in Exams /\ loose' \subseteq Exams
    BY <1>1, ExamRow DEF TypeOK
<1>6. ExamsInv'
    <2>1. WindowInv(r)' /\ DOMAIN exam' = DOMAIN exam \cup {e} /\ loose \subseteq loose'
        BY <1>2, <1>4 DEF OwnInv
    <2> QED
        BY <1>1, <1>2, <1>3, <2>1, OneExamWritten
<1>7. \A f \in DOMAIN exam' \ amended : exam'[f].status = "PUBLISHED" => Incomplete(f) = {}
    BY <1>1, <1>2 DEF PublishedInv, PublishedIsComplete
<1> QED
    BY <1>2, <1>3, <1>4, <1>5, <1>6, <1>7, ExamWritten

LEMMA RemoveExamKeeps ==
    ASSUME IInv, NEW r \in Requests, NEW e \in Exams, RemoveExam(r, e), UNCHANGED seating
    PROVE  IInv'
<1> DEFINE x == [exam[e] EXCEPT !.deleted = TRUE]
<1>1. TypeOK /\ PublishedInv
    BY DEF IInv, SeatingTypeOK
<1>2. /\ e \in DOMAIN exam /\ exam' = [exam EXCEPT ![e] = x] /\ Finish(r)
      /\ UNCHANGED <<row, unchecked, booked, amended>> /\ loose' = loose
      /\ cascade' = cascade \cup {e}
    BY DEF RemoveExam, history, Live
<1>3. exam[e] \in Exam
    BY <1>1, <1>2, ExamRow
<1>4. /\ x \in Exam /\ x.window = exam[e].window /\ x.classes = exam[e].classes
      /\ x.status = exam[e].status /\ x.deleted
    BY <1>3 DEF Exam
<1> HIDE DEF x
<1>5. x.status = "PUBLISHED" /\ e \notin amended => Incomplete(e) = {}
    BY <1>1, <1>2, <1>4 DEF PublishedInv, PublishedIsComplete
<1>6. cascade' \subseteq Exams
    BY <1>1, <1>2 DEF TypeOK
<1> QED
    BY <1>2, <1>4, <1>5, <1>6, LastWrite

LEMMA RestoreExamKeeps ==
    ASSUME IInv, NEW r \in Requests, NEW e \in Exams, RestoreExam(r, e), UNCHANGED seating
    PROVE  IInv'
<1> DEFINE x == [exam[e] EXCEPT !.deleted = FALSE]
<1>1. TypeOK /\ PublishedInv
    BY DEF IInv, SeatingTypeOK
<1>2. /\ e \in DOMAIN exam /\ exam' = [exam EXCEPT ![e] = x] /\ Finish(r)
      /\ UNCHANGED <<row, unchecked, booked, amended>> /\ loose' = loose \cup {e}
      /\ cascade' = cascade
    BY DEF RestoreExam
<1>3. exam[e] \in Exam
    BY <1>1, <1>2, ExamRow
<1>4. /\ x \in Exam /\ x.window = exam[e].window /\ x.classes = exam[e].classes
      /\ x.status = exam[e].status
    BY <1>3 DEF Exam
<1> HIDE DEF x
<1>5. x.status = "PUBLISHED" /\ e \notin amended => Incomplete(e) = {}
    BY <1>1, <1>2, <1>4 DEF PublishedInv, PublishedIsComplete
<1>6. cascade' \subseteq Exams
    BY <1>1, <1>2 DEF TypeOK
<1> QED
    BY <1>2, <1>4, <1>5, <1>6, LastWrite

LEMMA SetStatusKeeps ==
    ASSUME IInv, NEW r \in Requests, SetStatus(r), UNCHANGED seating
    PROVE  IInv'
<1> DEFINE l == local[r]
           e == l.exam
           x == [exam[e] EXCEPT !.status = l.status]
<1>1. TypeOK /\ WindowInv(r) /\ PublishInv(r)
    BY DEF IInv, SeatingTypeOK, ExamsInv, PublishedInv
<1>2. /\ pc[r] = "status" /\ exam' = [exam EXCEPT ![e] = x] /\ Finish(r)
      /\ UNCHANGED <<row, unchecked, booked, amended>> /\ loose' = loose
      /\ cascade' = cascade
    BY DEF SetStatus, history
<1>3. e \in DOMAIN exam
    BY <1>1, <1>2 DEF WindowInv
<1>4. exam[e] \in Exam /\ l.status \in ExamStatus
    BY <1>1, <1>3, ExamRow DEF TypeOK, IsLocal
<1>5. /\ x \in Exam /\ x.window = exam[e].window /\ x.classes = exam[e].classes
      /\ x.status = l.status /\ x.deleted = exam[e].deleted
    BY <1>4 DEF Exam
<1> HIDE DEF x
<1>6. x.status = "PUBLISHED" /\ e \notin amended => Incomplete(e) = {}
    BY <1>1, <1>2, <1>5 DEF PublishInv
<1>7. cascade' \subseteq Exams
    BY <1>1, <1>2 DEF TypeOK
<1>8. x.deleted \/ ~exam[e].deleted
    BY <1>4, <1>5 DEF Exam
<1> QED
    BY <1>2, <1>3, <1>5, <1>6, <1>7, <1>8, LastWrite


-----------------------------------------------------------------------------
(* Steps that write rows.                                                  *)

LEMMA RowsWritten ==
    ASSUME IInv, exam' = exam, loose' = loose, cascade' \subseteq Exams,
           IsTable(row', RowIds, Row), RowsInv',
           unchecked' \subseteq RowIds, booked' \subseteq RowIds,
           amended \subseteq amended', amended' \subseteq Exams,
           \A e : /\ Incomplete(e) = {} /\ e \notin amended'
                  /\ \/ e \in DOMAIN exam /\ exam[e].status = "PUBLISHED"
                     \/ \E q \in Requests : pc[q] = "status" /\ local[q].exam = e
                  => Incomplete(e)' = {},
           SeatsInv', IsTable(seat', SeatIds, Seat), \A a \in assigned' : IsAssigned(a),
           UNCHANGED <<capacity, at, held, crowded, resized>>,
           pc' \in [Requests -> Steps],
           DOMAIN local' = Requests, \A q \in Requests : IsLocal(local'[q]),
           \A q \in Requests : Stays(q) \/ OwnInv(q)'
    PROVE  IInv'
<1>1. SeatingTypeOK'
    BY DEF IInv, SeatingTypeOK, TypeOK
<1>2. /\ \A q \in Requests : Stays(q) \/ WindowInv(q)'
      /\ \A q \in Requests : Stays(q) \/ (NothingTaken(q) /\ PublishInv(q))'
    BY DEF OwnInv
<1>3. ExamsInv'
    BY <1>2, ExamsKept DEF IInv
<1>4. PublishedInv'
    BY <1>2, PublishedKept DEF IInv
<1> QED
    BY <1>1, <1>3, <1>4 DEF IInv

\* A row that is still lacking something lacked it before.
LEMMA LessIsIncomplete ==
    ASSUME NEW e, \A i \in DOMAIN row' : row'[i].exam = e =>
               /\ i \in DOMAIN row /\ row[i].exam = e
               /\ row[i].locked => row'[i].locked
               /\ ~row'[i].locked /\ row'[i].room = None => row[i].room = None
               /\ ~row'[i].locked /\ row'[i].teacher = None => row[i].teacher = None,
           Incomplete(e) = {}
    PROVE  Incomplete(e)' = {}
<1> SUFFICES ASSUME NEW i \in DOMAIN row', row'[i].exam = e, ~row'[i].locked,
                    None \in {row'[i].room, row'[i].teacher}
             PROVE  FALSE
    BY DEF Incomplete, RowsOf
<1>1. i \in DOMAIN row /\ row[i].exam = e /\ ~row[i].locked
    OBVIOUS
<1>2. None \in {row[i].room, row[i].teacher}
    OBVIOUS
<1> QED
    BY <1>1, <1>2 DEF Incomplete, RowsOf

\* A request ends with a removal of rows.
LEMMA RowsRemoved ==
    ASSUME IInv, NEW r \in Requests, Finish(r), NEW D, D \subseteq DOMAIN row,
           row' = [i \in D |-> row[i]], UNCHANGED <<exam, cascade, history>>,
           UNCHANGED seating
    PROVE  IInv'
<1>1. TypeOK /\ RowsInv /\ SeatsInv
    BY DEF IInv, SeatingTypeOK
<1>2. /\ exam' = exam /\ cascade' = cascade /\ loose' = loose /\ unchecked' = unchecked
      /\ booked' = booked /\ amended' = amended
    BY DEF history
<1>3. /\ seat' = seat /\ capacity' = capacity /\ at' = at /\ held' = held
      /\ assigned' = assigned /\ crowded' = crowded /\ resized' = resized
    BY DEF seating
<1>4. DOMAIN row' = D /\ \A i \in D : row'[i] = row[i]
    OBVIOUS
<1>5. IsTable(row', RowIds, Row)
    BY <1>1, KeptTable DEF TypeOK
<1>6. /\ pc' \in [Requests -> Steps]
      /\ DOMAIN local' = Requests /\ \A q \in Requests : IsLocal(local'[q])
      /\ pc'[r] = "done" /\ \A q \in Requests \ {r} : Stays(q)
    BY <1>1, Finished
<1>7. \A q \in Requests : Stays(q) \/ OwnInv(q)'
    <2>1. OwnInv(r)'
        BY <1>6, AtRest
    <2> QED
        BY <1>6, <2>1
<1>8. RowsInv'
    <2>1. RowsOfExams /\ \A q \in Requests : Stays(q) \/ (NewInv(q) /\ PlanInv(q))'
        BY <1>1, <1>7 DEF OwnInv, RowsInv
    <2> QED
        BY <1>1, <1>2, <1>4, <2>1, RowsMarked
<1>9. \A e : Incomplete(e) = {} => Incomplete(e)' = {}
    BY <1>4, LessIsIncomplete
<1>10. SeatsInv'
    BY <1>1, SeatsKept
<1> QED
    BY <1>1, <1>2, <1>3, <1>5, <1>6, <1>7, <1>8, <1>9, <1>10, RowsWritten
       DEF IInv, SeatingTypeOK, TypeOK

LEMMA HardDeleteKeeps ==
    ASSUME IInv, NEW r \in Requests, HardDelete(r), UNCHANGED seating
    PROVE  IInv'
<1> DEFINE D == DOMAIN row \ DOMAIN local[r].plan
<1>1. /\ Finish(r) /\ row' = [i \in D |-> row[i]] /\ UNCHANGED <<exam, cascade, history>>
    BY DEF HardDelete
<1>2. D \subseteq DOMAIN row
    OBVIOUS
<1> QED
    BY <1>1, <1>2, RowsRemoved

LEMMA BulkRemoveKeeps ==
    ASSUME IInv, NEW r \in Requests, NEW ids, BulkRemove(r, ids), UNCHANGED seating
    PROVE  IInv'
<1> DEFINE D == DOMAIN row \ {k \in ids \cap DOMAIN row : Unlocked(k)}
<1>1. /\ Finish(r) /\ row' = [i \in D |-> row[i]] /\ UNCHANGED <<exam, cascade, history>>
    BY DEF BulkRemove
<1>2. D \subseteq DOMAIN row
    OBVIOUS
<1> HIDE DEF D
<1> QED
    BY <1>1, <1>2, RowsRemoved


LEMMA BulkLockKeeps ==
    ASSUME IInv, NEW r \in Requests, NEW ids, NEW flag \in BOOLEAN, BulkLock(r, ids, flag),
           UNCHANGED seating
    PROVE  IInv'
<1>1. TypeOK /\ RowsInv /\ SeatsInv
    BY DEF IInv, SeatingTypeOK
<1>2. /\ ids \subseteq DOMAIN row /\ Finish(r)
      /\ row' = Upsert(row, [i \in ids |-> [row[i] EXCEPT !.locked = flag]])
      /\ (IF flag THEN UNCHANGED amended ELSE Amend({row[i].exam : i \in ids}))
      /\ exam' = exam /\ cascade' = cascade /\ loose' = loose /\ unchecked' = unchecked
      /\ booked' = booked
    BY DEF BulkLock
<1>3. /\ seat' = seat /\ capacity' = capacity /\ at' = at /\ held' = held
      /\ assigned' = assigned /\ crowded' = crowded /\ resized' = resized
    BY DEF seating
<1>4. ASSUME NEW x \in Row
      PROVE  LET y == [x EXCEPT !.locked = flag]
             IN  /\ y \in Row /\ y.exam = x.exam /\ y.class = x.class /\ y.slot = x.slot
                 /\ y.teacher = x.teacher /\ y.room = x.room /\ y.locked = flag
    BY DEF Row
<1>5. \A i \in DOMAIN row : row[i] \in Row /\ i \in RowIds /\ row[i].exam \in Exams
    BY <1>1 DEF TypeOK, IsTable, Row
<1>6. IsTable(row', RowIds, Row)
    <2>1. IsTable([i \in ids |-> [row[i] EXCEPT !.locked = flag]], RowIds, Row)
        BY <1>2, <1>4, <1>5 DEF IsTable
    <2> QED
        BY <1>1, <1>2, <2>1, UpsertTable DEF TypeOK
<1>7. /\ DOMAIN row' = DOMAIN row
      /\ \A i \in DOMAIN row \ ids : row'[i] = row[i]
      /\ \A i \in ids : row'[i] = [row[i] EXCEPT !.locked = flag]
    BY <1>2 DEF Upsert
<1>8. \A i \in DOMAIN row :
        /\ row'[i].exam = row[i].exam /\ row'[i].class = row[i].class
        /\ row'[i].slot = row[i].slot /\ row'[i].teacher = row[i].teacher
        /\ row'[i].room = row[i].room
        /\ row'[i].locked = IF i \in ids THEN flag ELSE row[i].locked
    <2> SUFFICES ASSUME NEW i \in DOMAIN row
                 PROVE  /\ row'[i].exam = row[i].exam /\ row'[i].class = row[i].class
                        /\ row'[i].slot = row[i].slot /\ row'[i].teacher = row[i].teacher
                        /\ row'[i].room = row[i].room
                        /\ row'[i].locked = IF i \in ids THEN flag ELSE row[i].locked
        OBVIOUS
    <2>1. CASE i \in ids
        <3>1. row'[i] = [row[i] EXCEPT !.locked = flag] /\ row[i] \in Row
            BY <1>5, <1>7, <2>1
        <3> QED
            BY <2>1, <3>1 DEF Row
    <2>2. CASE i \notin ids
        BY <1>7, <2>2
    <2> QED
        BY <2>1, <2>2
<1>9. /\ pc' \in [Requests -> Steps]
      /\ DOMAIN local' = Requests /\ \A q \in Requests : IsLocal(local'[q])
      /\ pc'[r] = "done" /\ \A q \in Requests \ {r} : Stays(q)
    BY <1>1, <1>2, Finished
<1>10. \A q \in Requests : Stays(q) \/ OwnInv(q)'
    <2>1. OwnInv(r)'
        BY <1>9, AtRest
    <2> QED
        BY <1>9, <2>1
<1>11. RowsInv'
    <2>1. \A q \in Requests : Stays(q) \/ (NewInv(q) /\ PlanInv(q))'
        BY <1>10 DEF OwnInv
    <2> QED
        BY <1>1, <1>2, <1>7, <1>8, <2>1, RowsMarked
<1>12. amended \subseteq amended' /\ amended' \subseteq Exams
    <2>1. {row[i].exam : i \in ids} \subseteq Exams
        BY <1>2, <1>5
    <2> QED
        BY <1>1, <1>2, <2>1 DEF Amend, TypeOK
<1>13. ASSUME NEW e, Incomplete(e) = {}, e \notin amended',
              \/ e \in DOMAIN exam /\ exam[e].status = "PUBLISHED"
              \/ \E q \in Requests : pc[q] = "status" /\ local[q].exam = e
       PROVE  Incomplete(e)' = {}
    <2>1. CASE flag
        BY <1>7, <1>8, <1>13, <2>1, LessIsIncomplete
    <2>2. CASE ~flag
        <3>1. \A i \in ids : row[i].exam # e
            BY <1>2, <1>13, <2>2 DEF Amend
        <3> QED
            BY <1>7, <1>8, <1>13, <3>1, LessIsIncomplete
    <2> QED
        BY <2>1, <2>2
<1>14. SeatsInv'
    BY <1>1, SeatsKept
<1> QED
    BY <1>1, <1>2, <1>3, <1>6, <1>9, <1>10, <1>11, <1>12, <1>13, <1>14, RowsWritten
       DEF IInv, SeatingTypeOK, TypeOK

LEMMA WriteRowsKeeps ==
    ASSUME IInv, NEW r \in Requests, WriteRows(r), UNCHANGED seating
    PROVE  IInv'
<1> DEFINE p == local[r].plan
           fields == local[r].sent
           ids == {i \in DOMAIN p \cap DOMAIN row : pc[r] = "bulk" => Unlocked(i)}
<1>1. TypeOK /\ RowsInv /\ SeatsInv /\ PlanInv(r)
    BY DEF IInv, SeatingTypeOK, RowsInv, PublishedInv
<1>2. /\ pc[r] \in {"write", "bulk"} /\ Finish(r) /\ Written(r, ids, TRUE)
      /\ row' = Upsert(row, [i \in ids |-> Put(row[i], fields, p[i])])
      /\ exam' = exam /\ cascade' = cascade /\ loose' = loose
      /\ Amend({row[i].exam : i \in {k \in ids : Unlocked(k) /\ Clears(fields, p[k])}})
    BY DEF WriteRows
<1>3. /\ seat' = seat /\ capacity' = capacity /\ at' = at /\ held' = held
      /\ assigned' = assigned /\ crowded' = crowded /\ resized' = resized
    BY DEF seating
<1>4. ids \subseteq DOMAIN p /\ ids \subseteq DOMAIN row
    OBVIOUS
<1> HIDE DEF ids
<1>5. \A i \in DOMAIN row : row[i] \in Row /\ i \in RowIds
    BY <1>1 DEF TypeOK, IsTable
<1>6. ASSUME NEW i \in ids
      PROVE  /\ "slot" \in fields => p[i].slot \in Slots
             /\ "teacher" \in fields => p[i].teacher \in Teachers \cup {None}
             /\ "room" \in fields => p[i].room \in Rooms \cup {None}
    <2>1. p[i] \in Row
        BY <1>1, <1>4 DEF TypeOK, IsLocal, IsTable
    <2> QED
        BY <2>1 DEF Row
<1>7. ASSUME NEW i \in ids
      PROVE  /\ Put(row[i], fields, p[i]) \in Row
             /\ Put(row[i], fields, p[i]).exam = row[i].exam
             /\ Put(row[i], fields, p[i]).class = row[i].class
             /\ Put(row[i], fields, p[i]).locked = row[i].locked
             /\ Put(row[i], fields, p[i]).slot = IF "slot" \in fields THEN p[i].slot ELSE row[i].slot
             /\ Clears(fields, p[i]) \/ (Put(row[i], fields, p[i]).teacher = None => row[i].teacher = None)
             /\ Clears(fields, p[i]) \/ (Put(row[i], fields, p[i]).room = None => row[i].room = None)
    BY <1>4, <1>5, <1>6, PutRow DEF Clears
<1>8. IsTable(row', RowIds, Row)
    <2>1. IsTable([i \in ids |-> Put(row[i], fields, p[i])], RowIds, Row)
        BY <1>4, <1>5, <1>7 DEF IsTable
    <2> QED
        BY <1>1, <1>2, <2>1, UpsertTable DEF TypeOK
<1>9. /\ DOMAIN row' = DOMAIN row
      /\ \A i \in DOMAIN row \ ids : row'[i] = row[i]
      /\ \A i \in ids : row'[i] = Put(row[i], fields, p[i])
    BY <1>2, <1>4 DEF Upsert
<1>10. \A i \in DOMAIN row :
        /\ row'[i].exam = row[i].exam /\ row'[i].class = row[i].class
        /\ row'[i].locked = row[i].locked
        /\ \/ i \in ids /\ Clears(fields, p[i])
           \/ /\ row'[i].teacher = None => row[i].teacher = None
              /\ row'[i].room = None => row[i].room = None
    BY <1>7, <1>9
<1>11. /\ pc' \in [Requests -> Steps]
       /\ DOMAIN local' = Requests /\ \A q \in Requests : IsLocal(local'[q])
       /\ pc'[r] = "done" /\ \A q \in Requests \ {r} : Stays(q)
    BY <1>1, <1>2, Finished
<1>12. \A q \in Requests : Stays(q) \/ OwnInv(q)'
    <2>1. OwnInv(r)'
        BY <1>11, AtRest
    <2> QED
        BY <1>11, <2>1
<1>13. /\ booked' = booked \cup ids
       /\ \/ unchecked' = unchecked \cup ids
          \/ /\ Others(r, RowSteps) = {} /\ ~(Cardinality(ids) > 1)
             /\ unchecked' = unchecked
    BY <1>2, <1>4 DEF Written
<1>14. RowsInv'
    <2>1. RowsOfExams /\ \A q \in Requests : Stays(q) \/ (NewInv(q) /\ PlanInv(q))'
        BY <1>1, <1>12 DEF OwnInv, RowsInv
    <2>2. CASE unchecked' = unchecked \cup ids
        BY <1>1, <1>2, <1>9, <1>10, <1>13, <2>1, <2>2, RowsMarked
    <2>3. CASE /\ Others(r, RowSteps) = {} /\ ~(Cardinality(ids) > 1)
               /\ unchecked' = unchecked
        <3>1. RowsOfExams'
            BY <1>2, <1>9, <1>10, <2>1 DEF RowsOfExams
        <3>2. ASSUME NEW q \in Requests PROVE NewInv(q)' /\ PlanInv(q)'
            <4>1. pc'[q] \notin RowSteps
                BY <1>11, <2>3 DEF Others, Stays, RowSteps
            <4> QED
                BY <4>1 DEF NewInv, PlanInv, RowSteps
        <3>3. IsFiniteSet(ids)
            BY <1>4, <1>5, TimetableAssumption, FS_Subset
        <3>4. \A i, j \in ids : i = j
            BY <2>3, <3>3, AtMostOne
        <3>5. RowsApart
            BY <1>1 DEF RowsInv
        <3>6. ASSUME NEW i \in ids \ unchecked, NEW j \in DOMAIN row \ (ids \cup unchecked),
                     row'[i].slot = row[j].slot
              PROVE  <<row[i].exam, row[i].class>> # <<row[j].exam, row[j].class>>
            <4>1. CASE "slot" \in fields
                <5>1. row[j].slot = p[i].slot
                    BY <1>7, <1>9, <3>6, <4>1
                <5> QED
                    BY <1>1, <1>2, <1>4, <4>1, <5>1 DEF PlanInv
            <4>2. CASE "slot" \notin fields
                <5>1. row[j].slot = row[i].slot /\ i # j /\ i \in DOMAIN row
                    BY <1>4, <1>7, <1>9, <3>6, <4>2
                <5> QED
                    BY <3>5, <5>1 DEF RowsApart
            <4> QED
                BY <4>1, <4>2
        <3>7. RowsApart'
            <4> SUFFICES ASSUME NEW i \in DOMAIN row, NEW j \in DOMAIN row, i # j,
                                row'[i].slot = row'[j].slot
                         PROVE  /\ {i, j} \cap unchecked' = {} =>
                                    <<row'[i].exam, row'[i].class>> # <<row'[j].exam, row'[j].class>>
                                /\ {i, j} \cap booked' = {} /\ row'[i].teacher # None =>
                                    row'[i].teacher # row'[j].teacher
                BY <1>9 DEF RowsApart
            <4>1. CASE i \notin ids /\ j \notin ids
                BY <1>9, <1>13, <2>3, <3>5, <4>1 DEF RowsApart
            <4>2. CASE i \in ids
                <5>1. j \notin ids /\ row'[j] = row[j]
                    BY <1>9, <3>4, <4>2
                <5> QED
                    BY <1>10, <1>13, <2>3, <3>6, <4>2, <5>1
            <4>3. CASE j \in ids
                <5>1. i \notin ids /\ row'[i] = row[i]
                    BY <1>9, <3>4, <4>3
                <5> QED
                    BY <1>10, <1>13, <2>3, <3>6, <4>3, <5>1
            <4> QED
                BY <4>1, <4>2, <4>3
        <3> QED
            BY <3>1, <3>2, <3>7 DEF RowsInv
    <2> QED
        BY <1>13, <2>2, <2>3
<1>15. unchecked' \subseteq RowIds /\ booked' \subseteq RowIds
    BY <1>1, <1>4, <1>5, <1>13 DEF TypeOK
<1>16. ASSUME NEW e, Incomplete(e) = {}, e \notin amended',
              \/ e \in DOMAIN exam /\ exam[e].status = "PUBLISHED"
              \/ \E q \in Requests : pc[q] = "status" /\ local[q].exam = e
       PROVE  Incomplete(e)' = {}
    <2>1. ASSUME NEW i \in ids, Clears(fields, p[i]), row[i].exam = e
          PROVE  row[i].locked
        BY <1>2, <1>16, <2>1 DEF Amend, Unlocked
    <2> QED
        BY <1>9, <1>10, <1>16, <2>1, LessIsIncomplete
<1>18. amended \subseteq amended' /\ amended' \subseteq Exams
    <2>1. {row[i].exam : i \in ids} \subseteq Exams
        BY <1>4, <1>5 DEF Row
    <2> QED
        BY <1>1, <1>2, <2>1 DEF Amend, TypeOK
<1>17. SeatsInv'
    BY <1>1, SeatsKept
<1> QED
    BY <1>1, <1>2, <1>3, <1>8, <1>11, <1>12, <1>14, <1>15, <1>16, <1>17,
       <1>18, RowsWritten
       DEF IInv, SeatingTypeOK, TypeOK


LEMMA ReplaceKeeps ==
    ASSUME IInv, NEW r \in Requests, Replace(r), UNCHANGED seating
    PROVE  IInv'
<1> DEFINE l == local[r]
<1>1. /\ TypeOK /\ RowsInv /\ SeatsInv /\ NothingTaken(r) /\ IsLocal(l)
    BY DEF IInv, SeatingTypeOK, TypeOK, PublishedInv
<1>2. PICK i \in DOMAIN l.plan :
        LET rest == [k \in DOMAIN l.plan \ {i} |-> l.plan[k]]
        IN  /\ row' = IF i \in DOMAIN row
                      THEN [row EXCEPT ![i] = [@ EXCEPT !.slot = l.plan[i].slot,
                                                        !.teacher = l.plan[i].teacher]]
                      ELSE row
            /\ unchecked' = unchecked \cup {i} /\ booked' = booked \cup {i}
            /\ IF rest = << >> THEN Finish(r)
               ELSE Goto(r, "replace", [l EXCEPT !.plan = rest])
    BY Zenon DEF Replace
<1> DEFINE rest == [k \in DOMAIN l.plan \ {i} |-> l.plan[k]]
           x == [row[i] EXCEPT !.slot = l.plan[i].slot, !.teacher = l.plan[i].teacher]
           seen == [l EXCEPT !.plan = rest]
<1>3. /\ row' = (IF i \in DOMAIN row THEN [row EXCEPT ![i] = x] ELSE row)
      /\ unchecked' = unchecked \cup {i} /\ booked' = booked \cup {i}
      /\ Finish(r) \/ Goto(r, "replace", seen)
    BY <1>2, Zenon
<1>4. /\ pc[r] = "replace" /\ exam' = exam /\ cascade' = cascade /\ loose' = loose
      /\ amended' = amended
    BY DEF Replace
<1>5. /\ seat' = seat /\ capacity' = capacity /\ at' = at /\ held' = held
      /\ assigned' = assigned /\ crowded' = crowded /\ resized' = resized
    BY DEF seating
<1>6. i \in RowIds /\ l.plan[i] \in Row /\ l.plan[i].teacher # None
    BY <1>1, <1>4 DEF IsLocal, IsTable, NothingTaken
<1>7. ASSUME i \in DOMAIN row
      PROVE  /\ x \in Row /\ x.exam = row[i].exam /\ x.class = row[i].class
             /\ x.locked = row[i].locked /\ x.room = row[i].room /\ x.teacher # None
    <2>1. row[i] \in Row
        BY <1>1, <1>7 DEF TypeOK, IsTable
    <2> QED
        BY <1>6, <2>1 DEF Row
<1> HIDE DEF x
<1>8. IsTable(row', RowIds, Row)
    BY <1>1, <1>3, <1>7, UpdatedTable DEF TypeOK
<1>9. /\ DOMAIN row' = DOMAIN row
      /\ \A k \in DOMAIN row : k # i => row'[k] = row[k]
      /\ i \in DOMAIN row => row'[i] = x
    BY <1>3
<1>10. \A k \in DOMAIN row :
        /\ row'[k].exam = row[k].exam /\ row'[k].locked = row[k].locked
        /\ row'[k].teacher = None => row[k].teacher = None
        /\ row'[k].room = None => row[k].room = None
    BY <1>7, <1>9
<1>11. /\ IsTable(rest, RowIds, Row) /\ DOMAIN rest \subseteq DOMAIN l.plan
       /\ \A k \in DOMAIN rest : rest[k] = l.plan[k]
    BY <1>1 DEF IsLocal, IsTable
<1> HIDE DEF rest
<1>12. IsLocal(seen) /\ "replace" \in Steps
    <2>1. "plan" \in DOMAIN l
        BY <1>1 DEF IsLocal, Nothing
    <2>2. /\ seen.exam = l.exam /\ seen.window = l.window /\ seen.classes = l.classes
          /\ seen.dates = l.dates /\ seen.link = l.link /\ seen.new = l.new
          /\ seen.plan = rest /\ seen.sent = l.sent /\ seen.status = l.status
          /\ DOMAIN seen = DOMAIN l
        BY <2>1
    <2> HIDE DEF seen
    <2> QED
        BY <1>1, <1>11, <2>2 DEF IsLocal, Steps
<1>13. seen.plan = rest
    BY <1>1 DEF IsLocal, Nothing
<1> HIDE DEF seen
<1>14. /\ pc' \in [Requests -> Steps]
       /\ DOMAIN local' = Requests /\ \A q \in Requests : IsLocal(local'[q])
       /\ \A q \in Requests \ {r} : Stays(q)
       /\ pc'[r] = "done" \/ (pc'[r] = "replace" /\ local'[r] = seen)
    BY <1>1, <1>3, <1>12, Went, Finished
<1>15. OwnInv(r)'
    <2>1. WindowInv(r)' /\ NewInv(r)' /\ PlanInv(r)' /\ PublishInv(r)'
        BY <1>14 DEF WindowInv, NewInv, PlanInv, PublishInv
    <2>2. NothingTaken(r)'
        BY <1>1, <1>4, <1>11, <1>13, <1>14 DEF NothingTaken
    <2> QED
        BY <2>1, <2>2 DEF OwnInv
<1>16. \A q \in Requests : Stays(q) \/ OwnInv(q)'
    BY <1>14, <1>15
<1>17. RowsInv'
    <2>1. RowsOfExams /\ \A q \in Requests : Stays(q) \/ (NewInv(q) /\ PlanInv(q))'
        BY <1>1, <1>16 DEF OwnInv, RowsInv
    <2> QED
        BY <1>1, <1>3, <1>4, <1>9, <1>10, <2>1, RowsMarked
<1>18. unchecked' \subseteq RowIds /\ booked' \subseteq RowIds
    BY <1>1, <1>3, <1>6 DEF TypeOK
<1>19. \A e : Incomplete(e) = {} => Incomplete(e)' = {}
    BY <1>9, <1>10, LessIsIncomplete
<1>20. SeatsInv'
    BY <1>1, SeatsKept
<1> QED
    BY <1>1, <1>4, <1>5, <1>8, <1>14, <1>16, <1>17, <1>18, <1>19, <1>20, RowsWritten
       DEF IInv, SeatingTypeOK, TypeOK

LEMMA InsertRowsKeeps ==
    ASSUME IInv, NEW r \in Requests, InsertRows(r), UNCHANGED seating
    PROVE  IInv'
<1> DEFINE l == local[r]
           new == Numbered(Fresh, l.new)
           ids == DOMAIN new
           byHand == \E x \in l.new : x.teacher = None
<1>1. /\ TypeOK /\ RowsInv /\ SeatsInv /\ IsLocal(l)
      /\ WindowInv(r) /\ NewInv(r) /\ NothingTaken(r)
    BY DEF IInv, SeatingTypeOK, TypeOK, ExamsInv, RowsInv, PublishedInv
<1>2. /\ pc[r] = "rows" /\ Cardinality(l.new) <= Cardinality(Fresh)
      /\ row' = Upsert(row, new) /\ Amend({l.exam})
      /\ Finish(r) \/ Goto(r, "replace", l)
      /\ exam' = exam /\ cascade' = cascade /\ loose' = loose
    BY DEF InsertRows
<1>3. Written(r, ids, byHand)
    BY Zenon DEF InsertRows
<1>4. /\ seat' = seat /\ capacity' = capacity /\ at' = at /\ held' = held
      /\ assigned' = assigned /\ crowded' = crowded /\ resized' = resized
    BY DEF seating
<1>5. /\ IsFiniteSet(l.new) /\ \A x \in l.new : x.exam = l.exam
      /\ byHand \/ Proposal(l.new)
      /\ \A x \in l.new, j \in DOMAIN row \ booked :
            x.teacher # None /\ row[j].slot = x.slot => row[j].teacher # x.teacher
      /\ byHand => \A x \in l.new, j \in DOMAIN row \ unchecked :
            row[j].exam = x.exam /\ row[j].class = x.class => row[j].slot # x.slot
    BY <1>1, <1>2 DEF NewInv
<1>6. l.exam \in DOMAIN exam /\ l.exam \in Exams
    BY <1>1, <1>2, ExamRow DEF WindowInv
<1>7. /\ ids \subseteq Fresh /\ new \in [ids -> l.new]
      /\ \A i, j \in ids : new[i] = new[j] => i = j
      /\ IsFiniteSet(ids)
    <2>1. IsFiniteSet(Fresh)
        BY TimetableAssumption, FS_Subset DEF Fresh
    <2> QED
        BY <1>2, <1>5, <2>1, NumberedRows
<1>8. ids \subseteq RowIds /\ ids \cap DOMAIN row = {}
    BY <1>7 DEF Fresh
<1> HIDE DEF new
<1>9. IsTable(new, RowIds, Row)
    BY <1>1, <1>7, <1>8 DEF IsLocal, IsTable
<1>10. IsTable(row', RowIds, Row)
    BY <1>1, <1>2, <1>9, UpsertTable DEF TypeOK
<1>11. /\ DOMAIN row' = DOMAIN row \cup ids
       /\ \A i \in DOMAIN row : row'[i] = row[i]
       /\ \A i \in ids : row'[i] = new[i] /\ new[i] \in l.new /\ new[i].exam = l.exam
    BY <1>2, <1>5, <1>7, <1>8 DEF Upsert
<1>12. "replace" \in Steps
    BY DEF Steps
<1>13. /\ pc' \in [Requests -> Steps]
       /\ DOMAIN local' = Requests /\ \A q \in Requests : IsLocal(local'[q])
       /\ \A q \in Requests \ {r} : Stays(q)
       /\ pc'[r] = "done" \/ (pc'[r] = "replace" /\ local'[r] = l)
    BY <1>1, <1>2, <1>12, Went, Finished
<1>14. OwnInv(r)'
    <2>1. WindowInv(r)' /\ NewInv(r)' /\ PlanInv(r)' /\ PublishInv(r)'
        BY <1>13 DEF WindowInv, NewInv, PlanInv, PublishInv
    <2>2. NothingTaken(r)'
        BY <1>1, <1>2, <1>13 DEF NothingTaken
    <2> QED
        BY <2>1, <2>2 DEF OwnInv
<1>15. \A q \in Requests : Stays(q) \/ OwnInv(q)'
    BY <1>13, <1>14
<1> HIDE DEF byHand
<1>16. RowsInv'
    <2>1. RowsOfExams /\ RowsApart
          /\ \A q \in Requests : Stays(q) \/ (NewInv(q) /\ PlanInv(q))'
        BY <1>1, <1>15 DEF OwnInv, RowsInv
    <2>2. CASE unchecked' = unchecked \cup ids /\ booked' = booked \cup ids
        BY <1>1, <1>2, <1>6, <1>11, <2>1, <2>2, RowsMarked
    <2>3. CASE Others(r, RowSteps) = {}
        <3>1. RowsOfExams'
            BY <1>2, <1>6, <1>11, <2>1 DEF RowsOfExams
        <3>2. ASSUME NEW q \in Requests PROVE NewInv(q)' /\ PlanInv(q)'
            <4>1. pc'[q] \notin RowSteps \/ q = r
                BY <1>13, <2>3 DEF Others, Stays, RowSteps
            <4> QED
                BY <1>14, <4>1 DEF OwnInv, NewInv, PlanInv, RowSteps
        <3>3. /\ unchecked' = IF (IF byHand THEN Cardinality(ids) > 1
                                            ELSE RowsOf(l.exam) # {})
                              THEN unchecked \cup ids ELSE unchecked \ ids
              /\ booked' = IF byHand THEN booked \cup ids ELSE booked \ ids
            BY <1>3, <1>8, <2>3 DEF Written
        <3>4. \A i \in DOMAIN row : /\ i \in unchecked' <=> i \in unchecked
                                    /\ i \in booked' <=> i \in booked
            BY <1>8, <3>3
        <3>5. ASSUME NEW i \in ids, NEW j \in DOMAIN row, new[i].slot = row[j].slot
              PROVE  /\ {i, j} \cap unchecked' = {} =>
                          <<new[i].exam, new[i].class>> # <<row[j].exam, row[j].class>>
                     /\ {i, j} \cap booked' = {} /\ new[i].teacher # None =>
                          new[i].teacher # row[j].teacher
            <4>1. ASSUME {i, j} \cap unchecked' = {}
                  PROVE  <<new[i].exam, new[i].class>> # <<row[j].exam, row[j].class>>
                <5>1. byHand \/ RowsOf(l.exam) = {}
                    BY <3>3, <4>1
                <5>2. j \notin unchecked
                    BY <3>4, <4>1
                <5>3. CASE byHand
                    BY <1>5, <1>11, <3>5, <5>2, <5>3
                <5>4. CASE RowsOf(l.exam) = {}
                    BY <1>11, <5>4 DEF RowsOf
                <5> QED
                    BY <5>1, <5>3, <5>4
            <4>2. ASSUME {i, j} \cap booked' = {}, new[i].teacher # None
                  PROVE  new[i].teacher # row[j].teacher
                <5>1. j \notin booked
                    BY <3>4, <4>2
                <5> QED
                    BY <1>5, <1>11, <3>5, <4>2, <5>1
            <4> QED
                BY <4>1, <4>2
        <3>6. ASSUME NEW i \in ids, NEW j \in ids, i # j, new[i].slot = new[j].slot
              PROVE  /\ {i, j} \cap unchecked' = {} =>
                          <<new[i].exam, new[i].class>> # <<new[j].exam, new[j].class>>
                     /\ {i, j} \cap booked' = {} => new[i].teacher # new[j].teacher
            <4>1. CASE byHand
                <5>1. Cardinality(ids) > 1
                    BY <1>7, <3>6, AtMostOne
                <5> QED
                    BY <3>3, <4>1, <5>1
            <4>2. CASE ~byHand
                <5>1. Proposal(l.new) /\ new[i] # new[j] /\ new[i] \in l.new /\ new[j] \in l.new
                    BY <1>5, <1>7, <1>11, <3>6, <4>2
                <5>2. new[i].class # new[j].class /\ new[i].teacher # new[j].teacher
                    BY <3>6, <5>1 DEF Proposal
                <5> QED
                    BY <5>2
            <4> QED
                BY <4>1, <4>2
        <3>7. RowsApart'
            <4> SUFFICES ASSUME NEW i \in DOMAIN row', NEW j \in DOMAIN row', i # j,
                                row'[i].slot = row'[j].slot
                         PROVE  /\ {i, j} \cap unchecked' = {} =>
                                    <<row'[i].exam, row'[i].class>> # <<row'[j].exam, row'[j].class>>
                                /\ {i, j} \cap booked' = {} /\ row'[i].teacher # None =>
                                    row'[i].teacher # row'[j].teacher
                BY DEF RowsApart
            <4>1. CASE i \in DOMAIN row /\ j \in DOMAIN row
                <5>1. row'[i] = row[i] /\ row'[j] = row[j]
                    BY <1>11, <4>1
                <5>2. /\ {i, j} \cap unchecked = {} =>
                            <<row[i].exam, row[i].class>> # <<row[j].exam, row[j].class>>
                      /\ {i, j} \cap booked = {} /\ row[i].teacher # None =>
                            row[i].teacher # row[j].teacher
                    BY <2>1, <4>1, <5>1 DEF RowsApart
                <5> QED
                    BY <3>4, <4>1, <5>1, <5>2
            <4>2. CASE i \in ids /\ j \in DOMAIN row
                <5>1. row'[i] = new[i] /\ row'[j] = row[j]
                    BY <1>11, <4>2
                <5> QED
                    BY <3>5, <4>2, <5>1
            <4>3. CASE i \in DOMAIN row /\ j \in ids
                <5>1. row'[j] = new[j] /\ row'[i] = row[i]
                    BY <1>11, <4>3
                <5>2. /\ {j, i} \cap unchecked' = {} =>
                            <<new[j].exam, new[j].class>> # <<row[i].exam, row[i].class>>
                      /\ {j, i} \cap booked' = {} /\ new[j].teacher # None =>
                            new[j].teacher # row[i].teacher
                    BY <3>5, <4>3, <5>1
                <5> QED
                    BY <5>1, <5>2
            <4>4. CASE i \in ids /\ j \in ids
                <5>1. row'[i] = new[i] /\ row'[j] = new[j]
                    BY <1>11, <4>4
                <5> QED
                    BY <3>6, <4>4, <5>1
            <4> QED
                BY <1>11, <4>1, <4>2, <4>3, <4>4
        <3> QED
            BY <3>1, <3>2, <3>7 DEF RowsInv
    <2>4. \/ unchecked' = unchecked \cup ids /\ booked' = booked \cup ids
          \/ Others(r, RowSteps) = {}
        BY <1>3 DEF Written
    <2> QED
        BY <2>2, <2>3, <2>4
<1>17. unchecked' \subseteq RowIds /\ booked' \subseteq RowIds
    BY <1>1, <1>3, <1>8 DEF TypeOK, Written
<1>18. amended \subseteq amended' /\ amended' \subseteq Exams
    BY <1>1, <1>2, <1>6 DEF Amend, TypeOK
<1>19. ASSUME NEW e, Incomplete(e) = {}, e \notin amended',
              \/ e \in DOMAIN exam /\ exam[e].status = "PUBLISHED"
              \/ \E q \in Requests : pc[q] = "status" /\ local[q].exam = e
       PROVE  Incomplete(e)' = {}
    <2>1. e # l.exam
        BY <1>2, <1>19 DEF Amend
    <2> QED
        BY <1>11, <1>19, <2>1, LessIsIncomplete
<1>20. SeatsInv'
    BY <1>1, SeatsKept
<1> QED
    BY <1>1, <1>2, <1>4, <1>10, <1>13, <1>15, <1>16, <1>17, <1>18, <1>19, <1>20, RowsWritten
       DEF IInv, SeatingTypeOK, TypeOK

LEMMA HandlerFailsKeeps ==
    ASSUME IInv, NEW r \in Requests, HandlerFails(r), UNCHANGED seating
    PROVE  IInv'
<1>1. Finish(r) /\ Untouched
    BY DEF HandlerFails, Untouched, tables, history
<1> QED
    BY <1>1, GivesUp


-----------------------------------------------------------------------------
(* The seats.                                                              *)

SeatStays(q) == at'[q] = at[q] /\ held'[q] = held[q]
SeatSteps == {"idle", "clear", "seat", "move", "done"}

LEMMA TablesKept ==
    ASSUME IInv, UNCHANGED <<tables, local, cascade, history>>, pc' \in [Requests -> Steps],
           \A q \in Requests : pc'[q] = pc[q] \/ pc'[q] = "done"
    PROVE  TypeOK' /\ ExamsInv' /\ RowsInv' /\ PublishedInv'
<1>1. /\ exam' = exam /\ row' = row /\ cascade' = cascade /\ loose' = loose
      /\ unchecked' = unchecked /\ booked' = booked /\ amended' = amended /\ local' = local
    BY DEF tables, history
<1>2. TypeOK'
    BY <1>1 DEF IInv, SeatingTypeOK, TypeOK
<1>3. \A q \in Requests : Stays(q) \/ OwnInv(q)'
    BY <1>1, AtRest DEF Stays
<1>4. /\ \A q \in Requests : Stays(q) \/ WindowInv(q)'
      /\ \A q \in Requests : Stays(q) \/ (NewInv(q) /\ PlanInv(q))'
      /\ \A q \in Requests : Stays(q) \/ (NothingTaken(q) /\ PublishInv(q))'
    BY <1>3 DEF OwnInv
<1>5. ExamsInv'
    BY <1>1, <1>4, ExamsKept DEF IInv
<1>6. RowsInv'
    <2>1. RowsInv /\ RowsOfExams
        BY DEF IInv, RowsInv
    <2> QED
        BY <1>1, <1>4, <2>1, RowsMarked
<1>7. PublishedInv'
    <2>1. \A e : Incomplete(e)' = Incomplete(e)
        BY <1>1 DEF Incomplete, RowsOf
    <2> QED
        BY <1>1, <1>4, <2>1, PublishedKept DEF IInv
<1> QED
    BY <1>2, <1>5, <1>6, <1>7

LEMMA SeatStep ==
    ASSUME IInv, UNCHANGED <<tables, local, cascade, history>>, pc' \in [Requests -> Steps],
           \A q \in Requests : pc'[q] = pc[q] \/ pc'[q] = "done",
           IsTable(seat', SeatIds, Seat), capacity' \in [Rooms -> Capacities],
           at' \in [Requests -> SeatSteps],
           DOMAIN held' = Requests, \A q \in Requests : IsHeld(held'[q]),
           \A a \in assigned' : IsAssigned(a), crowded' \subseteq Exams, resized' \subseteq Rooms,
           SeatsInv'
    PROVE  IInv'
<1>1. TypeOK' /\ ExamsInv' /\ RowsInv' /\ PublishedInv'
    BY TablesKept
<1> QED
    BY <1>1 DEF IInv, SeatingTypeOK, SeatSteps

LEMMA NothingHeldYet == IsHeld(Held)
    BY DEF IsHeld, Held

LEMMA Taken ==
    ASSUME SeatingTypeOK, NEW r \in Requests, NEW step \in SeatSteps, NEW h, IsHeld(h),
           Take(r, step, h)
    PROVE  /\ UNCHANGED <<tables, local, cascade, history>> /\ pc' \in [Requests -> Steps]
           /\ \A q \in Requests : pc'[q] = pc[q] \/ pc'[q] = "done"
           /\ at' \in [Requests -> SeatSteps]
           /\ DOMAIN held' = Requests /\ \A q \in Requests : IsHeld(held'[q])
           /\ at'[r] = step /\ held'[r] = h
           /\ \A q \in Requests \ {r} : SeatStays(q)
<1>1. /\ pc \in [Requests -> Steps] /\ pc' = [pc EXCEPT ![r] = "done"] /\ "done" \in Steps
      /\ UNCHANGED <<tables, local, cascade, history>>
    BY DEF SeatingTypeOK, TypeOK, Take, Steps
<1>2. /\ at \in [Requests -> SeatSteps] /\ DOMAIN held = Requests
      /\ \A q \in Requests : IsHeld(held[q])
      /\ at' = [at EXCEPT ![r] = step] /\ held' = [held EXCEPT ![r] = h]
    BY DEF SeatingTypeOK, Take, SeatSteps
<1> QED
    BY <1>1, <1>2 DEF SeatStays

LEMMA IsOver ==
    ASSUME SeatingTypeOK, NEW r \in Requests, Over(r)
    PROVE  /\ at' \in [Requests -> SeatSteps]
           /\ DOMAIN held' = Requests /\ \A q \in Requests : IsHeld(held'[q])
           /\ at'[r] = "done"
           /\ \A q \in Requests \ {r} : SeatStays(q)
<1>1. /\ at \in [Requests -> SeatSteps] /\ DOMAIN held = Requests
      /\ \A q \in Requests : IsHeld(held[q])
      /\ at' = [at EXCEPT ![r] = "done"] /\ held' = [held EXCEPT ![r] = Held]
      /\ "done" \in SeatSteps
    BY DEF SeatingTypeOK, Over, SeatSteps
<1> QED
    BY <1>1, NothingHeldYet DEF SeatStays

LEMMA SeatAtRest ==
    ASSUME NEW r \in Requests, at'[r] \in {"idle", "done"}
    PROVE  SeatInv(r)'
    BY DEF SeatInv

\* Counts are numbers.
LEMMA Counts ==
    ASSUME SeatingTypeOK, NEW e, NEW h
    PROVE  /\ IsFiniteSet({i \in SeatsOf(e) : seat[i].room = h})
           /\ countSeatsOccupied(e, h) \in Nat
<1>1. {i \in SeatsOf(e) : seat[i].room = h} \subseteq SeatIds
    BY DEF SeatingTypeOK, IsTable, SeatsOf
<1>2. IsFiniteSet({i \in SeatsOf(e) : seat[i].room = h})
    BY <1>1, SeatingAssumption, FS_Subset
<1> QED
    BY <1>2, FS_CardinalityType DEF countSeatsOccupied

LEMMA OnceOrTwice == IsFiniteSet({1, 2})
<1>1. IsFiniteSet({1})
    BY FS_Singleton
<1>2. IsFiniteSet({1} \cup {2}) /\ {1} \cup {2} = {1, 2}
    BY <1>1, FS_AddElement
<1> QED
    BY <1>2

LEMMA PlacesInRoom ==
    ASSUME NEW places, places \subseteq SeatPlaces, NEW h
    PROVE  /\ IsFiniteSet(places) /\ IsFiniteSet(InRoom(places, h))
           /\ Cardinality(InRoom(places, h)) \in Nat
<1>1. IsFiniteSet(SeatPlaces)
    <2> DEFINE pairs == (Students \X Rooms) \X {1, 2}
               f == [x \in SeatPlaces |-> <<<<x[1], x[2]>>, x[3]>>]
    <2>1. IsFiniteSet({1, 2})
        BY OnceOrTwice
    <2>2. IsFiniteSet(pairs)
        BY <2>1, SeatingAssumption, FS_Product
    <2>3. f \in [SeatPlaces -> pairs]
        BY DEF SeatPlaces
    <2>4. ASSUME NEW x \in SeatPlaces, NEW y \in SeatPlaces, f[x] = f[y] PROVE x = y
        <3>1. x[1] = y[1] /\ x[2] = y[2] /\ x[3] = y[3]
            BY <2>4
        <3> QED
            BY <3>1 DEF SeatPlaces
    <2>5. f \in Injection(SeatPlaces, pairs)
        BY <2>3, <2>4 DEF Injection, IsInjective
    <2> QED
        BY <2>2, <2>5, FS_Injection
<1>2. IsFiniteSet(places) /\ IsFiniteSet(InRoom(places, h))
    BY <1>1, FS_Subset DEF InRoom
<1> QED
    BY <1>2, FS_CardinalityType

LEMMA NobodyInRoom ==
    ASSUME NEW places, NEW h, \A x \in places : x[2] # h
    PROVE  Cardinality(InRoom(places, h)) = 0
<1>1. InRoom(places, h) = {}
    BY DEF InRoom
<1> QED
    BY <1>1, FS_EmptySet

LEMMA CapacityIsNat == ASSUME SeatingTypeOK, NEW h \in Rooms PROVE capacity[h] \in Nat
    BY SeatingAssumption DEF SeatingTypeOK

\* Seats are removed, or none.
Fewer == DOMAIN seat' \subseteq DOMAIN seat /\ \A i \in DOMAIN seat' : seat'[i] = seat[i]

LEMMA CountsFall ==
    ASSUME SeatingTypeOK, Fewer, NEW e, NEW h
    PROVE  /\ countSeatsOccupied(e, h)' <= countSeatsOccupied(e, h)
           /\ countSeatsOccupied(e, h) \in Nat /\ countSeatsOccupied(e, h)' \in Nat
<1> DEFINE S == {i \in SeatsOf(e) : seat[i].room = h}
           T == {i \in DOMAIN seat' : seat'[i].exam = e /\ seat'[i].room = h}
<1>1. IsFiniteSet(S) /\ Cardinality(S) \in Nat
    BY Counts DEF countSeatsOccupied
<1>2. T \subseteq S
    BY DEF Fewer, SeatsOf
<1>3. countSeatsOccupied(e, h)' = Cardinality(T)
    <2>1. {i \in SeatsOf(e) : seat[i].room = h}' = T
        BY DEF SeatsOf
    <2> QED
        BY <2>1 DEF countSeatsOccupied
<1> HIDE DEF S, T
<1>4. IsFiniteSet(T) /\ Cardinality(T) <= Cardinality(S)
    BY <1>1, <1>2, FS_Subset
<1>5. Cardinality(T) \in Nat
    BY <1>4, FS_CardinalityType
<1> QED
    BY <1>1, <1>3, <1>4, <1>5 DEF countSeatsOccupied, S

LEMMA SeatInvFewer ==
    ASSUME SeatingTypeOK, Fewer, NEW q \in Requests, SeatInv(q), SeatStays(q),
           \A h \in Rooms \ resized' : h \notin resized /\ capacity'[h] = capacity[h],
           held[q].exam \in crowded => held[q].exam \in crowded'
    PROVE  SeatInv(q)'
<1> DEFINE h == held[q]
<1>1. at'[q] = at[q] /\ held'[q] = h /\ IsHeld(h)
    BY DEF SeatStays, SeatingTypeOK
<1>2. h.places \subseteq SeatPlaces /\ \A x \in h.places : x[2] \in Rooms
    BY <1>1 DEF IsHeld, SeatPlaces
<1>3. ASSUME at[q] = "clear", h.looks
      PROVE  \A room \in Rooms \ resized' : Cardinality(InRoom(h.places, room)) <= capacity'[room]
    BY <1>3 DEF SeatInv
<1>4. ASSUME at[q] = "seat", h.looks, h.exam \notin crowded'
      PROVE  /\ \A x \in h.places : ~Seated(h.exam, x[1])
             /\ \A room \in Rooms \ resized :
                    countSeatsOccupied(h.exam, room) + Cardinality(InRoom(h.places, room))
                    <= capacity[room]
    BY <1>4 DEF SeatInv
<1>5. ASSUME NEW e, NEW s, ~Seated(e, s) PROVE ~Seated(e, s)'
    BY <1>5 DEF Seated, SeatsOf, Fewer
<1>6. ASSUME at[q] = "seat", h.looks, h.exam \notin crowded', NEW e, e = h.exam,
             NEW room \in Rooms \ resized'
      PROVE  countSeatsOccupied(e, room)' + Cardinality(InRoom(h.places, room))
             <= capacity'[room]
    <2>1. countSeatsOccupied(e, room) + Cardinality(InRoom(h.places, room)) <= capacity[room]
        BY <1>4, <1>6
    <2>2. /\ countSeatsOccupied(e, room)' <= countSeatsOccupied(e, room)
          /\ countSeatsOccupied(e, room) \in Nat /\ countSeatsOccupied(e, room)' \in Nat
        BY CountsFall
    <2>3. Cardinality(InRoom(h.places, room)) \in Nat
        BY <1>2, PlacesInRoom
    <2>4. capacity[room] \in Nat /\ capacity'[room] = capacity[room]
        BY CapacityIsNat
    <2> QED
        BY <2>1, <2>2, <2>3, <2>4
<1>7. ASSUME at[q] = "move"
      PROVE  /\ h.id \in DOMAIN seat' => seat'[h.id].exam = h.exam
             /\ \E x \in h.places : h.places = {x}
    BY <1>7 DEF SeatInv, Fewer
<1>8. ASSUME at[q] = "move", h.exam \notin crowded', NEW x \in h.places, x[2] \notin resized',
             NEW e, e = h.exam, NEW room, room = x[2], "room" \in h.sent,
             h.id \in DOMAIN seat', seat'[h.id].room # room
      PROVE  countSeatsOccupied(e, room)' + 1 <= capacity'[room]
    <2>1. room \in Rooms
        BY <1>2, <1>8
    <2>2. countSeatsOccupied(e, room) + 1 <= capacity[room]
        BY <1>8, <2>1 DEF SeatInv, Fewer
    <2>3. /\ countSeatsOccupied(e, room)' <= countSeatsOccupied(e, room)
          /\ countSeatsOccupied(e, room) \in Nat /\ countSeatsOccupied(e, room)' \in Nat
        BY CountsFall
    <2>4. capacity[room] \in Nat /\ capacity'[room] = capacity[room]
        BY <1>8, <2>1, CapacityIsNat
    <2> QED
        BY <2>2, <2>3, <2>4
<1>9. PICK e : e = h.exam
    OBVIOUS
<1>10. /\ at'[q] = "clear" /\ held'[q].looks => \A room \in Rooms \ resized' :
             Cardinality(InRoom(held'[q].places, room)) <= capacity'[room]
       /\ at'[q] = "seat" /\ held'[q].looks /\ held'[q].exam \notin crowded' =>
             /\ \A x \in held'[q].places : ~Seated(e, x[1])'
             /\ \A room \in Rooms \ resized' :
                    countSeatsOccupied(e, room)' + Cardinality(InRoom(held'[q].places, room))
                    <= capacity'[room]
    BY <1>1, <1>3, <1>4, <1>5, <1>6, <1>9
<1>11. at'[q] = "move" =>
             /\ held'[q].id \in DOMAIN seat' => seat'[held'[q].id].exam = held'[q].exam
             /\ \E x \in held'[q].places : held'[q].places = {x}
             /\ held'[q].exam \notin crowded' /\ "room" \in held'[q].sent
                   /\ held'[q].id \in DOMAIN seat' =>
                \A x \in held'[q].places : x[2] \notin resized' =>
                    \/ seat'[held'[q].id].room = x[2]
                    \/ \A room : room = x[2] =>
                          countSeatsOccupied(e, room)' + 1 <= capacity'[room]
    BY <1>1, <1>7, <1>8, <1>9
<1>12. at'[q] \notin {"idle", "done"} => held'[q].exam \in Exams
    BY <1>1 DEF SeatInv
<1> QED
    BY <1>1, <1>9, <1>10, <1>11, <1>12 DEF SeatInv, Seated, SeatsOf, countSeatsOccupied, InRoom


LEMMA SufficeFewer ==
    ASSUME SeatingTypeOK, SeatsSuffice, Fewer,
           \A i \in DOMAIN seat' : seat'[i].exam \in crowded => seat'[i].exam \in crowded',
           \A h \in Rooms \ resized' : h \notin resized /\ capacity'[h] = capacity[h]
    PROVE  SeatsSuffice'
<1>1. ASSUME NEW e \in Exams \ crowded', NEW h \in Rooms \ resized'
      PROVE  countSeatsOccupied(e, h)' <= capacity'[h]
    <2>1. /\ countSeatsOccupied(e, h)' <= countSeatsOccupied(e, h)
          /\ countSeatsOccupied(e, h) \in Nat /\ countSeatsOccupied(e, h)' \in Nat
        BY CountsFall
    <2>2. capacity[h] \in Nat /\ capacity'[h] = capacity[h]
        BY CapacityIsNat
    <2>3. CASE e \notin crowded
        <3>1. countSeatsOccupied(e, h) <= capacity[h]
            BY <2>3 DEF SeatsSuffice
        <3> QED
            BY <2>1, <2>2, <3>1
    <2>4. CASE e \in crowded
        <3>1. {i \in DOMAIN seat' : seat'[i].exam = e /\ seat'[i].room = h} = {}
            BY <2>4
        <3>2. {i \in SeatsOf(e) : seat[i].room = h}'
              = {i \in DOMAIN seat' : seat'[i].exam = e /\ seat'[i].room = h}
            BY DEF SeatsOf
        <3>3. countSeatsOccupied(e, h)' = 0
            BY <3>1, <3>2, FS_EmptySet DEF countSeatsOccupied
        <3> QED
            BY <2>2, <3>3
    <2> QED
        BY <2>3, <2>4
<1>2. ASSUME NEW e \in Exams \ crowded', NEW i \in SeatsOf(e)', NEW j \in SeatsOf(e)',
             seat'[i].student = seat'[j].student
      PROVE  i = j
    <2>1. i \in SeatsOf(e) /\ j \in SeatsOf(e) /\ seat[i].student = seat[j].student
        BY <1>2 DEF Fewer, SeatsOf
    <2>2. e \notin crowded
        BY <1>2 DEF SeatsOf
    <2> QED
        BY <2>1, <2>2 DEF SeatsSuffice
<1> QED
    BY <1>1, <1>2 DEF SeatsSuffice

LEMMA FewerSeats ==
    ASSUME SeatingTypeOK, SeatsInv, Fewer, crowded' = crowded,
           \A h \in Rooms \ resized' : h \notin resized /\ capacity'[h] = capacity[h],
           \A q \in Requests : SeatStays(q) \/ SeatInv(q)'
    PROVE  SeatsInv'
<1>1. SeatsSuffice'
    BY SufficeFewer DEF SeatsInv
<1>2. ASSUME NEW q \in Requests, SeatStays(q) PROVE SeatInv(q)'
    BY <1>2, SeatInvFewer DEF SeatsInv
<1> QED
    BY <1>1, <1>2 DEF SeatsInv

\* A request looks at the seats, or removes one, or changes a room.
LEMMA SeatTaken ==
    ASSUME IInv, NEW r \in Requests, NEW step \in SeatSteps, NEW h, IsHeld(h),
           Take(r, step, h), SeatInv(r)', Fewer, IsTable(seat', SeatIds, Seat),
           capacity' \in [Rooms -> Capacities], assigned' = assigned, crowded' = crowded,
           resized' \subseteq Rooms,
           \A g \in Rooms \ resized' : g \notin resized /\ capacity'[g] = capacity[g]
    PROVE  IInv'
<1>1. SeatingTypeOK /\ SeatsInv
    BY DEF IInv
<1>2. /\ UNCHANGED <<tables, local, cascade, history>> /\ pc' \in [Requests -> Steps]
      /\ \A q \in Requests : pc'[q] = pc[q] \/ pc'[q] = "done"
      /\ at' \in [Requests -> SeatSteps]
      /\ DOMAIN held' = Requests /\ \A q \in Requests : IsHeld(held'[q])
      /\ \A q \in Requests \ {r} : SeatStays(q)
    BY <1>1, Taken
<1>3. SeatsInv'
    BY <1>1, <1>2, FewerSeats
<1>4. /\ \A a \in assigned' : IsAssigned(a)
      /\ crowded' \subseteq Exams
    BY <1>1 DEF SeatingTypeOK
<1> QED
    BY <1>2, <1>3, <1>4, SeatStep

LEMMA AssignSeatsKeeps ==
    ASSUME IInv, NEW r \in Requests, NEW e \in Exams, NEW places \in SUBSET SeatPlaces,
           AssignSeats(r, e, places)
    PROVE  IInv'
<1> DEFINE h == [Held EXCEPT !.exam = e, !.places = places, !.looks = TRUE]
<1>1. SeatingTypeOK /\ SeatsSuffice
    BY DEF IInv, SeatsInv
<1>2. /\ \A x \in places : ~Seated(e, x[1])
                           /\ HasRoom(e, x[2], Cardinality(InRoom(places, x[2])))
      /\ seat' = seat /\ capacity' = capacity /\ assigned' = assigned /\ crowded' = crowded
      /\ resized' = resized
    BY DEF AssignSeats
<1>3. Take(r, "seat", h)
    BY Zenon DEF AssignSeats
<1>4. /\ h.exam = e /\ h.places = places /\ h.id = None /\ h.looks = TRUE /\ h.sent = {}
      /\ DOMAIN h = DOMAIN Held
    BY DEF Held
<1> HIDE DEF h
<1>5. IsHeld(h) /\ "seat" \in SeatSteps
    BY <1>4 DEF IsHeld, SeatSteps
<1>6. at'[r] = "seat" /\ held'[r] = h
    BY <1>1, <1>3, <1>5, Taken
<1>7. ASSUME e \notin crowded, NEW room \in Rooms \ resized
      PROVE  countSeatsOccupied(e, room) + Cardinality(InRoom(places, room)) <= capacity[room]
    <2>1. CASE \E x \in places : x[2] = room
        BY <1>2, <2>1 DEF HasRoom
    <2>2. CASE \A x \in places : x[2] # room
        <3>1. Cardinality(InRoom(places, room)) = 0
            BY <2>2, NobodyInRoom
        <3>2. countSeatsOccupied(e, room) <= capacity[room]
            BY <1>1, <1>7 DEF SeatsSuffice
        <3>3. countSeatsOccupied(e, room) \in Nat
            BY <1>1, Counts
        <3> QED
            BY <3>1, <3>2, <3>3
    <2> QED
        BY <2>1, <2>2
<1>8. SeatInv(r)'
    <2>1. /\ \A s : Seated(e, s)' = Seated(e, s)
          /\ \A room : countSeatsOccupied(e, room)' = countSeatsOccupied(e, room)
        BY <1>2 DEF Seated, countSeatsOccupied, SeatsOf
    <2> QED
        BY <1>2, <1>4, <1>6, <1>7, <2>1 DEF SeatInv, InRoom
<1>9. Fewer /\ IsTable(seat', SeatIds, Seat) /\ capacity' \in [Rooms -> Capacities]
      /\ resized' \subseteq Rooms
    BY <1>1, <1>2 DEF Fewer, SeatingTypeOK
<1> QED
    BY <1>2, <1>3, <1>5, <1>8, <1>9, SeatTaken

\* A shuffle that names each room once puts no more students into it than it has seats.
LEMMA FilledFits ==
    ASSUME SeatingTypeOK, NEW classes, NEW rooms \in SUBSET Rooms, NEW twice,
           NEW places \in Filled(findStudentsForExam(classes, twice), rooms, twice)
    PROVE  /\ places \subseteq SeatPlaces
           /\ twice \notin rooms => \A room \in Rooms :
                 Cardinality(InRoom(places, room)) <= capacity[room]
<1> DEFINE named == findStudentsForExam(classes, twice)
           In(f, h) == {x \in named : f[x] = h}
<1>1. PICK f \in [named -> rooms \cup {None}] :
        /\ \A h \in rooms : Cardinality(In(f, h)) <= IF h = twice THEN 2 * capacity[h]
                                                                ELSE capacity[h]
        /\ places = {<<x[1], f[x], x[2]>> : x \in named \ In(f, None)}
    BY DEF Filled
<1>2. named \subseteq Students \X {1, 2} /\ IsFiniteSet(named)
    <2>1. IsFiniteSet({1, 2})
        BY OnceOrTwice
    <2>2. IsFiniteSet(Students \X {1, 2})
        BY <2>1, SeatingAssumption, FS_Product
    <2>3. named \subseteq Students \X {1, 2}
        BY DEF findStudentsForExam
    <2> QED
        BY <2>2, <2>3, FS_Subset
<1> HIDE DEF named
<1>3. \A y \in places : /\ y = <<y[1], y[2], y[3]>> /\ <<y[1], y[3]>> \in named
                        /\ y[2] \in rooms /\ f[<<y[1], y[3]>>] = y[2]
    <2> SUFFICES ASSUME NEW x \in named, f[x] # None
                 PROVE  <<x[1], x[2]>> = x /\ f[x] \in rooms
        BY <1>1
    <2> QED
        BY <1>1, <1>2
<1>4. places \subseteq SeatPlaces
    <2> SUFFICES ASSUME NEW y \in places PROVE y \in SeatPlaces
        OBVIOUS
    <2>1. <<y[1], y[3]>> \in Students \X {1, 2} /\ y[2] \in Rooms /\ y = <<y[1], y[2], y[3]>>
        BY <1>2, <1>3
    <2>2. y[1] \in Students /\ y[3] \in {1, 2}
        BY <2>1
    <2> QED
        BY <2>1, <2>2 DEF SeatPlaces
<1>5. ASSUME twice \notin rooms, NEW room \in Rooms
      PROVE  Cardinality(InRoom(places, room)) <= capacity[room]
    <2>1. CASE room \in rooms
        <3> DEFINE P == InRoom(places, room)
                   Q == In(f, room)
                   g == [y \in P |-> <<y[1], y[3]>>]
        <3>1. g \in [P -> Q]
            BY <1>3 DEF InRoom
        <3>2. ASSUME NEW x \in P, NEW y \in P, g[x] = g[y] PROVE x = y
            <4>1. /\ x = <<x[1], x[2], x[3]>> /\ y = <<y[1], y[2], y[3]>>
                  /\ x[2] = room /\ y[2] = room
                BY <1>3 DEF InRoom
            <4>2. x[1] = y[1] /\ x[3] = y[3]
                BY <3>2
            <4> QED
                BY <4>1, <4>2
        <3>3. g \in Injection(P, Q)
            BY <3>1, <3>2 DEF Injection, IsInjective
        <3>4. IsFiniteSet(Q)
            BY <1>2, FS_Subset
        <3>5. Cardinality(Q) <= capacity[room]
            BY <1>1, <1>5, <2>1
        <3> HIDE DEF P, Q, g
        <3>6. IsFiniteSet(P) /\ Cardinality(P) <= Cardinality(Q)
            BY <3>3, <3>4, FS_Injection
        <3>7. Cardinality(P) \in Nat /\ Cardinality(Q) \in Nat /\ capacity[room] \in Nat
            BY <3>4, <3>6, FS_CardinalityType, CapacityIsNat
        <3>8. Cardinality(P) <= capacity[room]
            BY <3>5, <3>6, <3>7
        <3> QED
            BY <3>8 DEF P
    <2>2. CASE room \notin rooms
        <3>1. \A x \in places : x[2] # room
            BY <1>3, <2>2
        <3>2. Cardinality(InRoom(places, room)) = 0
            BY <3>1, NobodyInRoom
        <3> QED
            BY <3>2, CapacityIsNat
    <2> QED
        BY <2>1, <2>2
<1> QED
    BY <1>4, <1>5

LEMMA AutoShuffleKeeps ==
    ASSUME IInv, NEW r \in Requests, NEW e \in Live, NEW classes \in SUBSET Classes,
           NEW rooms \in SUBSET Rooms, NEW twice, AutoShuffle(r, e, classes, rooms, twice)
    PROVE  IInv'
<1>1. PICK places \in Filled(findStudentsForExam(classes, twice), rooms, twice),
           clear \in BOOLEAN :
          Take(r, IF clear THEN "clear" ELSE "seat",
               [Held EXCEPT !.exam = e, !.places = places, !.looks = clear /\ twice \notin rooms])
    BY Zenon DEF AutoShuffle
<1> DEFINE looks == clear /\ twice \notin rooms
           h == [Held EXCEPT !.exam = e, !.places = places, !.looks = looks]
           step == IF clear THEN "clear" ELSE "seat"
<1>2. Take(r, step, h)
    BY <1>1
<1>3. SeatingTypeOK /\ e \in Exams
    BY DEF IInv, SeatingTypeOK, TypeOK, IsTable, Live
<1>4. /\ seat' = seat /\ capacity' = capacity /\ assigned' = assigned /\ crowded' = crowded
      /\ resized' = resized
    BY DEF AutoShuffle
<1>5. places \subseteq SeatPlaces
    BY <1>3, FilledFits
<1>6. looks \in BOOLEAN
      /\ (looks => clear /\ \A room \in Rooms : Cardinality(InRoom(places, room)) <= capacity[room])
    BY <1>3, FilledFits
<1> HIDE DEF looks
<1>7. /\ h.exam = e /\ h.places = places /\ h.id = None /\ h.looks = looks /\ h.sent = {}
      /\ DOMAIN h = DOMAIN Held
    BY DEF Held
<1> HIDE DEF h
<1>8. IsHeld(h) /\ step \in SeatSteps /\ (step = "clear" <=> clear) /\ (step = "seat" <=> ~clear)
    BY <1>3, <1>5, <1>6, <1>7 DEF IsHeld, SeatSteps
<1> HIDE DEF step
<1>9. at'[r] = step /\ held'[r] = h
    BY <1>2, <1>3, <1>8, Taken
<1>10. SeatInv(r)'
    BY <1>3, <1>4, <1>6, <1>7, <1>8, <1>9 DEF SeatInv, InRoom
<1>11. Fewer /\ IsTable(seat', SeatIds, Seat) /\ capacity' \in [Rooms -> Capacities]
       /\ resized' \subseteq Rooms
    BY <1>3, <1>4 DEF Fewer, SeatingTypeOK
<1> QED
    BY <1>2, <1>4, <1>8, <1>10, <1>11, SeatTaken

LEMMA MoveSeatKeeps ==
    ASSUME IInv, NEW r \in Requests, NEW i \in DOMAIN seat, NEW s \in Students,
           NEW room \in Rooms, NEW fields \in SUBSET {"student", "room"},
           MoveSeat(r, i, s, room, fields)
    PROVE  IInv'
<1> DEFINE x == <<s, room, 1>>
           e == seat[i].exam
           h == [Held EXCEPT !.exam = e, !.id = i, !.sent = fields, !.places = {x}]
<1>1. SeatingTypeOK
    BY DEF IInv
<1>2. /\ "room" \in fields /\ seat[i].room # room => HasRoom(e, room, 1)
      /\ seat' = seat /\ capacity' = capacity /\ assigned' = assigned /\ crowded' = crowded
      /\ resized' = resized
    BY DEF MoveSeat
<1>3. Take(r, "move", h)
    BY Zenon DEF MoveSeat
<1>4. i \in SeatIds /\ e \in Exams /\ x \in SeatPlaces /\ x[2] = room
    BY <1>1 DEF SeatingTypeOK, IsTable, Seat, SeatPlaces
<1> HIDE DEF x
<1>5. /\ h.exam = e /\ h.places = {x} /\ h.id = i /\ h.looks = FALSE /\ h.sent = fields
      /\ DOMAIN h = DOMAIN Held
    BY DEF Held
<1> HIDE DEF h
<1>6. IsHeld(h) /\ "move" \in SeatSteps
    BY <1>4, <1>5 DEF IsHeld, SeatSteps
<1>7. at'[r] = "move" /\ held'[r] = h
    BY <1>1, <1>3, <1>6, Taken
<1>8. "room" \in fields => seat[i].room = room \/ countSeatsOccupied(e, room) + 1 <= capacity[room]
    BY <1>2 DEF HasRoom
<1>9. SeatInv(r)'
    BY <1>2, <1>4, <1>5, <1>7, <1>8 DEF SeatInv, countSeatsOccupied, SeatsOf
<1>10. Fewer /\ IsTable(seat', SeatIds, Seat) /\ capacity' \in [Rooms -> Capacities]
       /\ resized' \subseteq Rooms
    BY <1>1, <1>2 DEF Fewer, SeatingTypeOK
<1> QED
    BY <1>2, <1>3, <1>6, <1>9, <1>10, SeatTaken

LEMMA RemoveSeatKeeps ==
    ASSUME IInv, NEW r \in Requests, NEW i, RemoveSeat(r, i)
    PROVE  IInv'
<1> DEFINE D == DOMAIN seat \ {i}
<1>1. SeatingTypeOK
    BY DEF IInv
<1>2. /\ Take(r, "done", Held) /\ seat' = [k \in D |-> seat[k]]
      /\ capacity' = capacity /\ assigned' = assigned /\ crowded' = crowded
      /\ resized' = resized
    BY DEF RemoveSeat
<1>3. "done" \in SeatSteps
    BY DEF SeatSteps
<1>4. SeatInv(r)'
    BY <1>1, <1>2, <1>3, NothingHeldYet, Taken, SeatAtRest
<1>5. D \subseteq DOMAIN seat
    OBVIOUS
<1> HIDE DEF D
<1>6. Fewer /\ IsTable(seat', SeatIds, Seat)
    BY <1>1, <1>2, <1>5, KeptTable DEF Fewer, SeatingTypeOK
<1>7. capacity' \in [Rooms -> Capacities] /\ resized' \subseteq Rooms
    BY <1>1, <1>2 DEF SeatingTypeOK
<1> QED
    BY <1>2, <1>3, <1>4, <1>6, <1>7, NothingHeldYet, SeatTaken

LEMMA ResizeRoomKeeps ==
    ASSUME IInv, NEW r \in Requests, NEW h \in Rooms, NEW n \in Capacities, ResizeRoom(r, h, n)
    PROVE  IInv'
<1>1. SeatingTypeOK
    BY DEF IInv
<1>2. /\ Take(r, "done", Held) /\ capacity' = [capacity EXCEPT ![h] = n]
      /\ resized' = resized \cup {h}
      /\ seat' = seat /\ assigned' = assigned /\ crowded' = crowded
    BY DEF ResizeRoom
<1>3. "done" \in SeatSteps
    BY DEF SeatSteps
<1>4. SeatInv(r)'
    BY <1>1, <1>2, <1>3, NothingHeldYet, Taken, SeatAtRest
<1>5. Fewer /\ IsTable(seat', SeatIds, Seat)
    BY <1>1, <1>2 DEF Fewer, SeatingTypeOK
<1>6. capacity' \in [Rooms -> Capacities] /\ resized' \subseteq Rooms
    BY <1>1, <1>2 DEF SeatingTypeOK
<1>7. \A g \in Rooms \ resized' : g \notin resized /\ capacity'[g] = capacity[g]
    BY <1>1, <1>2 DEF SeatingTypeOK
<1> QED
    BY <1>2, <1>3, <1>4, <1>5, <1>6, <1>7, NothingHeldYet, SeatTaken


\* A step after which every request and every row is as it was.
LEMMA SeatsWritten ==
    ASSUME IInv, UNCHANGED vars, IsTable(seat', SeatIds, Seat), capacity' = capacity,
           at' \in [Requests -> SeatSteps],
           DOMAIN held' = Requests, \A q \in Requests : IsHeld(held'[q]),
           \A a \in assigned' : IsAssigned(a), crowded' \subseteq Exams, resized' = resized,
           SeatsInv'
    PROVE  IInv'
<1>1. /\ UNCHANGED <<tables, local, cascade, history>> /\ pc' = pc
    BY DEF vars, tables, history
<1>2. pc' \in [Requests -> Steps] /\ capacity' \in [Rooms -> Capacities] /\ resized' \subseteq Rooms
    BY <1>1 DEF IInv, SeatingTypeOK, TypeOK
<1> QED
    BY <1>1, <1>2, SeatStep

LEMMA SeatingFailsKeeps ==
    ASSUME IInv, NEW r \in Requests, SeatingFails(r)
    PROVE  IInv'
<1>1. SeatingTypeOK /\ SeatsInv
    BY DEF IInv
<1>2. /\ Over(r) /\ UNCHANGED vars /\ seat' = seat /\ capacity' = capacity
      /\ assigned' = assigned /\ crowded' = crowded /\ resized' = resized
    BY DEF SeatingFails, vars, tables, history
<1>3. /\ at' \in [Requests -> SeatSteps]
      /\ DOMAIN held' = Requests /\ \A q \in Requests : IsHeld(held'[q])
      /\ at'[r] = "done" /\ \A q \in Requests \ {r} : SeatStays(q)
    BY <1>1, <1>2, IsOver
<1>4. SeatsInv'
    <2>1. Fewer /\ SeatInv(r)'
        BY <1>2, <1>3, SeatAtRest DEF Fewer
    <2> QED
        BY <1>1, <1>2, <1>3, <2>1, FewerSeats
<1>5. /\ IsTable(seat', SeatIds, Seat) /\ \A a \in assigned' : IsAssigned(a)
      /\ crowded' \subseteq Exams
    BY <1>1, <1>2 DEF SeatingTypeOK
<1> QED
    BY <1>2, <1>3, <1>4, <1>5, SeatsWritten

\* Only the events move.
LEMMA EventsKeep ==
    ASSUME IInv, UNCHANGED <<vars, seat, capacity, at, held, crowded, resized>>,
           \A a \in assigned' : IsAssigned(a)
    PROVE  IInv'
<1>1. SeatingTypeOK /\ SeatsInv
    BY DEF IInv
<1>2. /\ UNCHANGED vars /\ seat' = seat /\ capacity' = capacity /\ at' = at /\ held' = held
      /\ crowded' = crowded /\ resized' = resized
    BY DEF vars, tables, history
<1>3. SeatsInv'
    <2>1. Fewer /\ \A q \in Requests : SeatStays(q)
        BY <1>2 DEF Fewer, SeatStays
    <2> QED
        BY <1>1, <1>2, <2>1, FewerSeats
<1>4. /\ IsTable(seat', SeatIds, Seat) /\ at' \in [Requests -> SeatSteps]
      /\ DOMAIN held' = Requests /\ \A q \in Requests : IsHeld(held'[q])
      /\ crowded' \subseteq Exams
    BY <1>1, <1>2 DEF SeatingTypeOK, SeatSteps
<1> QED
    BY <1>2, <1>3, <1>4, SeatsWritten

LEMMA CountSeatsKeeps ==
    ASSUME IInv, NEW a, CountSeats(a)
    PROVE  IInv'
<1>1. SeatingTypeOK
    BY DEF IInv
<1>2. a \in assigned /\ UNCHANGED <<vars, seat, capacity, at, held, crowded, resized>>
    BY DEF CountSeats
<1>3. PICK best \in BestRooms(a.exam) :
        assigned' = (assigned \ {a})
                    \cup {x \in {[a EXCEPT !.counted = TRUE, !.best = best]} : best # << >>}
    BY Zenon DEF CountSeats
<1> DEFINE x == [a EXCEPT !.counted = TRUE, !.best = best]
<1>4. IsAssigned(a) /\ \A b \in assigned : IsAssigned(b)
    BY <1>1, <1>2 DEF SeatingTypeOK
<1>5. IsTable(best, Classes, Rooms)
    <2>1. SeatedClasses(a.exam) \subseteq Classes
        BY <1>1, SeatingAssumption DEF SeatingTypeOK, IsTable, Seat, SeatedClasses, SeatsOf
    <2>2. best \in [SeatedClasses(a.exam) -> Rooms]
        BY DEF BestRooms
    <2> QED
        BY <2>1, <2>2 DEF IsTable
<1>6. IsAssigned(x)
    <2>1. /\ DOMAIN x = {"by", "exam", "counted", "best"}
          /\ x.by = a.by /\ x.exam = a.exam /\ x.counted = TRUE /\ x.best = best
        BY <1>4 DEF IsAssigned
    <2> HIDE DEF x
    <2> QED
        BY <1>4, <1>5, <2>1 DEF IsAssigned
<1> HIDE DEF x
<1>7. \A b \in assigned' : IsAssigned(b)
    BY <1>3, <1>4, <1>6 DEF x
<1> QED
    BY <1>2, <1>7, EventsKeep

LEMMA LoseEventKeeps ==
    ASSUME IInv, NEW a, LoseEvent(a)
    PROVE  IInv'
<1>1. \A b \in assigned' : IsAssigned(b)
    BY DEF IInv, SeatingTypeOK, LoseEvent
<1>2. UNCHANGED <<vars, seat, capacity, at, held, crowded, resized>>
    BY DEF LoseEvent
<1> QED
    BY <1>1, <1>2, EventsKeep

LEMMA SetHallKeeps ==
    ASSUME IInv, NEW a, NEW c, setHallForClass(a, c)
    PROVE  IInv'
<1>1. TypeOK /\ RowsInv /\ SeatsInv /\ SeatingTypeOK
    BY DEF IInv, SeatingTypeOK
<1>2. /\ a \in assigned /\ c \in DOMAIN a.best
      /\ row' = [i \in DOMAIN row |->
                   IF row[i].exam = a.exam /\ row[i].class = c /\ Unlocked(i)
                   THEN [row[i] EXCEPT !.room = a.best[c]] ELSE row[i]]
      /\ exam' = exam /\ pc' = pc /\ local' = local /\ cascade' = cascade
      /\ UNCHANGED history /\ UNCHANGED <<seat, capacity, at, held, crowded, resized>>
    BY DEF setHallForClass
<1>3. assigned' = (assigned \ {a}) \cup
          {x \in {[a EXCEPT !.best = [k \in DOMAIN @ \ {c} |-> @[k]]]} : x.best # << >>}
    BY DEF setHallForClass
<1>4. /\ loose' = loose /\ unchecked' = unchecked /\ booked' = booked /\ amended' = amended
      /\ seat' = seat /\ capacity' = capacity /\ at' = at /\ held' = held
      /\ crowded' = crowded /\ resized' = resized
    BY <1>2 DEF history
<1>5. IsAssigned(a) /\ \A b \in assigned : IsAssigned(b)
    BY <1>1, <1>2 DEF SeatingTypeOK
<1>6. a.best[c] \in Rooms
    BY <1>2, <1>5 DEF IsAssigned, IsTable
<1> DEFINE best == [k \in DOMAIN a.best \ {c} |-> a.best[k]]
           x == [a EXCEPT !.best = best]
<1>7. IsAssigned(x)
    <2>1. IsTable(best, Classes, Rooms)
        BY <1>5 DEF IsAssigned, IsTable
    <2> HIDE DEF best
    <2>2. /\ DOMAIN x = {"by", "exam", "counted", "best"}
          /\ x.by = a.by /\ x.exam = a.exam /\ x.counted = a.counted /\ x.best = best
        BY <1>5 DEF IsAssigned
    <2> HIDE DEF x
    <2> QED
        BY <1>5, <2>1, <2>2 DEF IsAssigned
<1>8. \A b \in assigned' : IsAssigned(b)
    <2>1. assigned' \subseteq assigned \cup {x}
        BY <1>3
    <2> HIDE DEF x
    <2> QED
        BY <1>5, <1>7, <2>1
<1>9. \A i \in DOMAIN row : row[i] \in Row
    BY <1>1 DEF TypeOK, IsTable
<1>10. DOMAIN row' = DOMAIN row
    BY <1>2
<1>11. ASSUME NEW i \in DOMAIN row
       PROVE  /\ row'[i] \in Row
              /\ row'[i].exam = row[i].exam /\ row'[i].class = row[i].class
              /\ row'[i].slot = row[i].slot /\ row'[i].teacher = row[i].teacher
              /\ row'[i].locked = row[i].locked
              /\ row'[i].room = None => row[i].room = None
    <2>1. CASE row'[i] = row[i]
        BY <1>9, <2>1
    <2>2. CASE row'[i] = [row[i] EXCEPT !.room = a.best[c]]
        BY <1>6, <1>9, <2>2, TimetableAssumption DEF Row
    <2>3. row'[i] = row[i] \/ row'[i] = [row[i] EXCEPT !.room = a.best[c]]
        BY <1>2
    <2> QED
        BY <2>1, <2>2, <2>3
<1>12. IsTable(row', RowIds, Row)
    <2>1. row' = [i \in DOMAIN row |-> row'[i]]
        BY <1>2
    <2> QED
        BY <1>1, <1>10, <1>11, <2>1 DEF TypeOK, IsTable
<1>13. \A q \in Requests : Stays(q)
    BY <1>2 DEF Stays
<1>14. RowsInv'
    <2>1. RowsOfExams
        BY <1>1 DEF RowsInv
    <2> QED
        BY <1>1, <1>2, <1>4, <1>10, <1>11, <1>13, <2>1, RowsMarked
<1>15. \A e : Incomplete(e) = {} => Incomplete(e)' = {}
    BY <1>10, <1>11, LessIsIncomplete
<1>16. SeatsInv'
    <2>1. Fewer /\ \A q \in Requests : SeatStays(q)
        BY <1>4 DEF Fewer, SeatStays
    <2> QED
        BY <1>1, <1>4, <2>1, FewerSeats
<1>17. /\ IsTable(seat', SeatIds, Seat) /\ pc' \in [Requests -> Steps]
       /\ DOMAIN local' = Requests /\ \A q \in Requests : IsLocal(local'[q])
       /\ cascade' \subseteq Exams /\ unchecked' \subseteq RowIds /\ booked' \subseteq RowIds
       /\ amended \subseteq amended' /\ amended' \subseteq Exams
    BY <1>1, <1>2, <1>4 DEF SeatingTypeOK, TypeOK
<1> QED
    BY <1>2, <1>4, <1>8, <1>12, <1>13, <1>14, <1>15, <1>16, <1>17, RowsWritten

LEMMA DeleteExamDataKeeps ==
    ASSUME IInv, NEW e, DeleteExamData(e)
    PROVE  IInv'
<1> DEFINE D == DOMAIN row \ RowsOf(e)
           E == DOMAIN seat \ SeatsOf(e)
<1>1. TypeOK /\ RowsInv /\ SeatsInv /\ SeatingTypeOK
    BY DEF IInv, SeatingTypeOK
<1>2. /\ cascade' = cascade \ {e} /\ row' = [i \in D |-> row[i]]
      /\ exam' = exam /\ pc' = pc /\ local' = local /\ UNCHANGED history
      /\ seat' = [i \in E |-> seat[i]]
      /\ UNCHANGED <<capacity, at, held, assigned, crowded, resized>>
    BY DEF DeleteExamData, handleExamDeleted
<1>3. /\ loose' = loose /\ unchecked' = unchecked /\ booked' = booked /\ amended' = amended
      /\ capacity' = capacity /\ at' = at /\ held' = held /\ assigned' = assigned
      /\ crowded' = crowded /\ resized' = resized
    BY <1>2 DEF history
<1>4. D \subseteq DOMAIN row /\ E \subseteq DOMAIN seat
    OBVIOUS
<1> HIDE DEF D, E
<1>5. /\ IsTable(row', RowIds, Row) /\ IsTable(seat', SeatIds, Seat)
      /\ DOMAIN row' \subseteq DOMAIN row /\ \A i \in DOMAIN row' : row'[i] = row[i]
      /\ Fewer
    BY <1>1, <1>2, <1>4, KeptTable DEF TypeOK, SeatingTypeOK, Fewer
<1>6. \A q \in Requests : Stays(q) /\ SeatStays(q)
    BY <1>2, <1>3 DEF Stays, SeatStays
<1>7. RowsInv'
    <2>1. RowsOfExams
        BY <1>1 DEF RowsInv
    <2> QED
        BY <1>1, <1>2, <1>3, <1>5, <1>6, <2>1, RowsMarked
<1>8. \A f : Incomplete(f) = {} => Incomplete(f)' = {}
    BY <1>5, LessIsIncomplete
<1>9. SeatsInv'
    BY <1>1, <1>3, <1>5, <1>6, FewerSeats
<1>10. /\ \A a \in assigned' : IsAssigned(a)
       /\ pc' \in [Requests -> Steps]
       /\ DOMAIN local' = Requests /\ \A q \in Requests : IsLocal(local'[q])
       /\ cascade' \subseteq Exams /\ unchecked' \subseteq RowIds /\ booked' \subseteq RowIds
       /\ amended \subseteq amended' /\ amended' \subseteq Exams
    BY <1>1, <1>2, <1>3 DEF SeatingTypeOK, TypeOK
<1>11. exam' = exam /\ \A q \in Requests : Stays(q) \/ OwnInv(q)'
    BY <1>2, <1>6
<1> QED
    BY <1>3, <1>5, <1>7, <1>8, <1>9, <1>10, <1>11, RowsWritten


LEMMA ClearSeatsKeeps ==
    ASSUME IInv, NEW r \in Requests, ClearSeats(r)
    PROVE  IInv'
<1> DEFINE e == held[r].exam
           D == DOMAIN seat \ SeatsOf(e)
<1>1. SeatingTypeOK /\ SeatsInv /\ SeatInv(r)
    BY DEF IInv, SeatsInv
<1>2. /\ at[r] = "clear" /\ seat' = [i \in D |-> seat[i]]
      /\ crowded' = (IF Seating(r, e) = {} THEN crowded \ {e} ELSE crowded)
      /\ at' = [at EXCEPT ![r] = "seat"] /\ held' = held
      /\ capacity' = capacity /\ assigned' = assigned /\ resized' = resized
    BY DEF ClearSeats, Proceed
<1>3. UNCHANGED vars
    BY DEF ClearSeats, vars, tables, history
<1>4. D \subseteq DOMAIN seat /\ \A i \in D : seat[i].exam # e
    BY DEF SeatsOf
<1> HIDE DEF D
<1>5. /\ Fewer /\ IsTable(seat', SeatIds, Seat)
      /\ \A i \in DOMAIN seat' : seat'[i].exam # e
    BY <1>1, <1>2, <1>4, KeptTable DEF Fewer, SeatingTypeOK
<1>6. /\ at' \in [Requests -> SeatSteps]
      /\ DOMAIN held' = Requests /\ \A q \in Requests : IsHeld(held'[q])
      /\ at'[r] = "seat" /\ held'[r] = held[r]
      /\ \A q \in Requests \ {r} : SeatStays(q)
    BY <1>1, <1>2 DEF SeatingTypeOK, SeatSteps, SeatStays
<1>7. SeatsSuffice'
    <2>1. \A i \in DOMAIN seat' : seat'[i].exam \in crowded => seat'[i].exam \in crowded'
        BY <1>2, <1>5
    <2> QED
        BY <1>1, <1>2, <1>5, <2>1, SufficeFewer DEF SeatsInv
<1>8. SeatInv(r)'
    <2> DEFINE places == held[r].places
    <2>1. held[r].looks => \A room \in Rooms \ resized : Cardinality(InRoom(places, room)) <= capacity[room]
        BY <1>1, <1>2 DEF SeatInv
    <2>2. places \subseteq SeatPlaces
        BY <1>1 DEF SeatingTypeOK, IsHeld
    <2>3. ASSUME NEW f, f = e, NEW room
          PROVE  countSeatsOccupied(f, room)' = 0
        <3>1. {i \in SeatsOf(f) : seat[i].room = room}' = {}
            BY <1>5, <2>3 DEF SeatsOf
        <3> QED
            BY <3>1, FS_EmptySet DEF countSeatsOccupied
    <2>4. ASSUME NEW f, f = e, NEW room \in Rooms \ resized, held[r].looks
          PROVE  countSeatsOccupied(f, room)' + Cardinality(InRoom(places, room))
                 <= capacity[room]
        <3>1. Cardinality(InRoom(places, room)) \in Nat
            BY <2>2, PlacesInRoom
        <3> QED
            BY <2>1, <2>3, <2>4, <3>1
    <2>5. ASSUME NEW f, f = e, NEW s PROVE ~Seated(f, s)'
        BY <1>5, <2>5 DEF Seated, SeatsOf
    <2>6. PICK f : f = e
        OBVIOUS
    <2>7. /\ \A x \in places : ~Seated(f, x[1])'
          /\ held[r].looks => \A room \in Rooms \ resized :
                countSeatsOccupied(f, room)' + Cardinality(InRoom(places, room)) <= capacity[room]
        BY <2>4, <2>5, <2>6
    <2>8. held[r].exam \in Exams
        BY <1>1, <1>2 DEF SeatInv
    <2> QED
        BY <1>2, <1>6, <2>6, <2>7, <2>8 DEF SeatInv, Seated, SeatsOf, countSeatsOccupied, InRoom
<1>9. ASSUME NEW q \in Requests \ {r} PROVE SeatInv(q)'
    <2>1. SeatInv(q) /\ SeatStays(q)
        BY <1>1, <1>6 DEF SeatsInv
    <2>2. CASE held[q].exam \in crowded => held[q].exam \in crowded'
        BY <1>1, <1>2, <1>5, <2>1, <2>2, SeatInvFewer
    <2>3. CASE ~(held[q].exam \in crowded => held[q].exam \in crowded')
        <3>1. Seating(r, e) = {} /\ held[q].exam = e
            BY <1>2, <2>3
        <3>2. at[q] \in {"idle", "done"}
            BY <3>1 DEF Seating
        <3> QED
            BY <2>1, <3>2, SeatAtRest DEF SeatStays
    <2> QED
        BY <2>2, <2>3
<1>10. SeatsInv'
    BY <1>7, <1>8, <1>9 DEF SeatsInv
<1>11. (\A a \in assigned' : IsAssigned(a)) /\ crowded' \subseteq Exams
    BY <1>1, <1>2 DEF SeatingTypeOK
<1> QED
    BY <1>2, <1>3, <1>5, <1>6, <1>10, <1>11, SeatsWritten

\* The seats of one exam are written.  A handler that has looked at those of another, or
\* at a crowded one, is not concerned, if the seat it means to move is the same.
LEMMA SeatInvElsewhere ==
    ASSUME SeatingTypeOK, NEW e, NEW q \in Requests, SeatInv(q), SeatStays(q),
           capacity' = capacity, resized' = resized, crowded \subseteq crowded',
           \A i \in DOMAIN seat : seat[i].exam # e => i \in DOMAIN seat' /\ seat'[i] = seat[i],
           \A i \in DOMAIN seat' : seat'[i].exam # e => i \in DOMAIN seat /\ seat'[i] = seat[i],
           held[q].id \in DOMAIN seat' => held[q].id \in DOMAIN seat
                                          /\ seat'[held[q].id].exam = seat[held[q].id].exam,
           at[q] \notin {"idle", "done"} /\ held[q].exam = e => e \in crowded'
    PROVE  SeatInv(q)'
<1>1. at'[q] = at[q] /\ held'[q] = held[q]
    BY DEF SeatStays
<1>2. ASSUME NEW f, f # e
      PROVE  /\ \A s : Seated(f, s)' = Seated(f, s)
             /\ \A h : countSeatsOccupied(f, h)' = countSeatsOccupied(f, h)
    <2>1. SeatsOf(f)' = SeatsOf(f) /\ \A i \in SeatsOf(f) : seat'[i] = seat[i]
        BY <1>2 DEF SeatsOf
    <2>2. ASSUME NEW s PROVE Seated(f, s)' = Seated(f, s)
        BY <2>1 DEF Seated
    <2>3. ASSUME NEW h PROVE countSeatsOccupied(f, h)' = countSeatsOccupied(f, h)
        <3>1. {i \in SeatsOf(f) : seat[i].room = h}' = {i \in SeatsOf(f) : seat[i].room = h}
            BY <2>1
        <3> QED
            BY <3>1 DEF countSeatsOccupied
    <2> QED
        BY <2>2, <2>3
<1>3. PICK f : f = held[q].exam
    OBVIOUS
<1>4. CASE f # e
    <2>1. /\ \A s : Seated(f, s)' = Seated(f, s)
          /\ \A h : countSeatsOccupied(f, h)' = countSeatsOccupied(f, h)
        BY <1>2, <1>4
    <2> QED
        BY <1>1, <1>3, <2>1 DEF SeatInv, InRoom, Seated, countSeatsOccupied, SeatsOf
<1>5. CASE f = e
    <2>1. at[q] \in {"idle", "done"} \/ held[q].exam \in crowded'
        BY <1>3, <1>5
    <2> QED
        BY <1>1, <2>1 DEF SeatInv, InRoom
<1> QED
    BY <1>4, <1>5

LEMMA SufficeElsewhere ==
    ASSUME SeatingTypeOK, SeatsSuffice, NEW e,
           capacity' = capacity, resized' = resized, crowded \subseteq crowded',
           \A i \in DOMAIN seat : seat[i].exam # e => i \in DOMAIN seat' /\ seat'[i] = seat[i],
           \A i \in DOMAIN seat' : seat'[i].exam # e => i \in DOMAIN seat /\ seat'[i] = seat[i],
           e \in Exams \ crowded' =>
             /\ \A i, j \in DOMAIN seat' : seat'[i].exam = e /\ seat'[j].exam = e
                   /\ seat'[i].student = seat'[j].student => i = j
             /\ \A h \in Rooms \ resized : countSeatsOccupied(e, h)' <= capacity[h]
    PROVE  SeatsSuffice'
<1> SUFFICES ASSUME NEW f \in Exams \ crowded'
             PROVE  /\ \A i, j \in SeatsOf(f)' : seat'[i].student = seat'[j].student => i = j
                    /\ \A h \in Rooms \ resized' : countSeatsOccupied(f, h)' <= capacity'[h]
    BY DEF SeatsSuffice
<1>1. CASE f = e
    BY <1>1 DEF SeatsOf
<1>2. CASE f # e
    <2>1. SeatsOf(f)' = SeatsOf(f) /\ \A i \in SeatsOf(f) : seat'[i] = seat[i]
        BY <1>2 DEF SeatsOf
    <2>2. f \in Exams \ crowded
        OBVIOUS
    <2>3. ASSUME NEW h \in Rooms \ resized'
          PROVE  countSeatsOccupied(f, h)' <= capacity'[h]
        <3>1. {i \in SeatsOf(f) : seat[i].room = h}' = {i \in SeatsOf(f) : seat[i].room = h}
            BY <2>1
        <3>2. countSeatsOccupied(f, h)' = countSeatsOccupied(f, h)
            BY <3>1 DEF countSeatsOccupied
        <3> QED
            BY <2>2, <3>2 DEF SeatsSuffice
    <2> QED
        BY <2>1, <2>2, <2>3 DEF SeatsSuffice
<1> QED
    BY <1>1, <1>2


LEMMA MovedSeat ==
    ASSUME NEW y \in Seat, NEW fields, NEW place, place[1] \in Students, place[2] \in Rooms
    PROVE  LET z == Moved(y, fields, place)
           IN  /\ z \in Seat /\ z.exam = y.exam
               /\ z.student = IF "student" \in fields THEN place[1] ELSE y.student
               /\ z.room = IF "room" \in fields THEN place[2] ELSE y.room
    BY DEF Moved, Seat

LEMMA WriteSeatKeeps ==
    ASSUME IInv, NEW r \in Requests, WriteSeat(r)
    PROVE  IInv'
<1> DEFINE h == held[r]
           x == CHOOSE x \in h.places : TRUE
           doubled == \/ Seating(r, h.exam) # {}
                      \/ "student" \in h.sent
                         /\ \E i \in SeatsOf(h.exam) \ {h.id} : seat[i].student = x[1]
<1>1. SeatingTypeOK /\ SeatsInv /\ SeatInv(r) /\ IsHeld(h)
    BY DEF IInv, SeatsInv, SeatingTypeOK
<1>2. /\ at[r] = "move" /\ Over(r)
      /\ seat' = (IF h.id \in DOMAIN seat THEN [seat EXCEPT ![h.id] = Moved(@, h.sent, x)]
                  ELSE seat)
      /\ crowded' = (IF doubled THEN crowded \cup {h.exam} ELSE crowded)
      /\ capacity' = capacity /\ assigned' = assigned /\ resized' = resized
    BY DEF WriteSeat
<1>3. UNCHANGED vars
    BY DEF WriteSeat, vars, tables, history
<1>4. /\ at' \in [Requests -> SeatSteps]
      /\ DOMAIN held' = Requests /\ \A q \in Requests : IsHeld(held'[q])
      /\ at'[r] = "done" /\ \A q \in Requests \ {r} : SeatStays(q)
    BY <1>1, <1>2, IsOver
<1>5. /\ h.places = {x} /\ x[1] \in Students /\ x[2] \in Rooms
      /\ h.id \in DOMAIN seat => seat[h.id].exam = h.exam
      /\ /\ h.exam \notin crowded /\ x[2] \notin resized
         /\ "room" \in h.sent /\ h.id \in DOMAIN seat
         => seat[h.id].room = x[2] \/ countSeatsOccupied(h.exam, x[2]) + 1 <= capacity[x[2]]
    <2>1. PICK y \in h.places : h.places = {y}
        BY <1>1, <1>2 DEF SeatInv
    <2>2. x = y
        BY <2>1
    <2>3. y[1] \in Students /\ y[2] \in Rooms
        BY <1>1 DEF IsHeld, SeatPlaces
    <2> HIDE DEF x, doubled
    <2> QED
        BY <1>1, <1>2, <2>1, <2>2, <2>3 DEF SeatInv
<1>6. PICK room, student : room = x[2] /\ student = x[1]
    OBVIOUS
<1>7. PICK e : e = h.exam
    OBVIOUS
<1> HIDE DEF x
<1>8. /\ DOMAIN seat' = DOMAIN seat
      /\ \A i \in DOMAIN seat : i # h.id => seat'[i] = seat[i]
      /\ h.id \in DOMAIN seat =>
            seat'[h.id] = Moved(seat[h.id], h.sent, x)
    BY <1>2
<1>9. \A i \in DOMAIN seat : seat[i] \in Seat /\ i \in SeatIds
    BY <1>1 DEF SeatingTypeOK, IsTable
<1>10. ASSUME NEW i \in DOMAIN seat
       PROVE  /\ seat'[i] \in Seat /\ seat'[i].exam = seat[i].exam
              /\ seat[i].exam # e => seat'[i] = seat[i]
              /\ seat'[i].student = seat[i].student
                 \/ (i = h.id /\ "student" \in h.sent /\ seat'[i].student = student)
              /\ seat'[i].room = seat[i].room
                 \/ (i = h.id /\ "room" \in h.sent /\ seat'[i].room = room)
              /\ i # h.id => seat'[i] = seat[i]
    <2>1. CASE i # h.id
        BY <1>8, <1>9, <2>1
    <2>2. CASE i = h.id
        <3>1. /\ seat'[i] = Moved(seat[i], h.sent, x)
              /\ seat[i] \in Seat /\ room \in Rooms /\ student \in Students /\ seat[i].exam = e
            BY <1>5, <1>6, <1>7, <1>8, <1>9, <2>2
        <3>2. x[1] = student /\ x[2] = room
            BY <1>6
        <3> QED
            BY <2>2, <3>1, <3>2, MovedSeat
    <2> QED
        BY <2>1, <2>2
<1>11. IsTable(seat', SeatIds, Seat)
    <2>1. seat' = [i \in DOMAIN seat' |-> seat'[i]]
        <3>1. seat = [i \in DOMAIN seat |-> seat[i]]
            BY <1>1 DEF SeatingTypeOK, IsTable
        <3> QED
            BY <1>2, <3>1 DEF Moved
    <2> QED
        BY <1>8, <1>9, <1>10, <2>1 DEF IsTable
<1>12. e \in Exams \ crowded' =>
         /\ \A i, j \in DOMAIN seat' : seat'[i].exam = e /\ seat'[j].exam = e
                /\ seat'[i].student = seat'[j].student => i = j
         /\ \A g \in Rooms \ resized : countSeatsOccupied(e, g)' <= capacity[g]
    <2> SUFFICES ASSUME e \in Exams \ crowded, ~doubled
                 PROVE  /\ \A i, j \in DOMAIN seat' : seat'[i].exam = e /\ seat'[j].exam = e
                               /\ seat'[i].student = seat'[j].student => i = j
                        /\ \A g \in Rooms \ resized : countSeatsOccupied(e, g)' <= capacity[g]
        BY <1>2, <1>7
    <2>1. SeatsSuffice
        BY <1>1 DEF SeatsInv
    <2>2. ASSUME NEW i \in DOMAIN seat', NEW j \in DOMAIN seat', seat'[i].exam = e,
                 seat'[j].exam = e, seat'[i].student = seat'[j].student
          PROVE  i = j
        <3>1. i \in SeatsOf(e) /\ j \in SeatsOf(e)
            BY <1>8, <1>10, <2>2 DEF SeatsOf
        <3>2. "student" \in h.sent => \A k \in SeatsOf(e) \ {h.id} : seat[k].student # student
            BY <1>6, <1>7
        <3> HIDE DEF doubled
        <3>3. CASE seat'[i].student = seat[i].student /\ seat'[j].student = seat[j].student
            BY <2>1, <2>2, <3>1, <3>3 DEF SeatsSuffice
        <3>4. CASE seat'[i].student # seat[i].student
            BY <1>8, <1>10, <2>2, <3>1, <3>2, <3>4
        <3>5. CASE seat'[j].student # seat[j].student
            BY <1>8, <1>10, <2>2, <3>1, <3>2, <3>5
        <3> QED
            BY <3>3, <3>4, <3>5
    <2>3. ASSUME NEW g \in Rooms \ resized PROVE countSeatsOccupied(e, g)' <= capacity[g]
        <3> DEFINE S == {i \in SeatsOf(e) : seat[i].room = g}
                   T == {i \in DOMAIN seat' : seat'[i].exam = e /\ seat'[i].room = g}
        <3>1. IsFiniteSet(S) /\ Cardinality(S) \in Nat /\ Cardinality(S) = countSeatsOccupied(e, g)
            BY <1>1, Counts DEF countSeatsOccupied
        <3>2. countSeatsOccupied(e, g)' = Cardinality(T)
            <4>1. {i \in SeatsOf(e) : seat[i].room = g}' = T
                BY DEF SeatsOf
            <4> QED
                BY <4>1 DEF countSeatsOccupied
        <3>3. Cardinality(S) <= capacity[g] /\ capacity[g] \in Nat
            BY <1>1, <2>1, <3>1, CapacityIsNat DEF SeatsSuffice
        <3>4. CASE T \subseteq S
            <4>1. T \subseteq S
                BY <3>4
            <4>2. Cardinality(T) <= Cardinality(S) /\ IsFiniteSet(T)
                BY <3>1, <4>1, FS_Subset
            <4>3. Cardinality(T) \in Nat
                BY <4>2, FS_CardinalityType
            <4> HIDE DEF S, T
            <4> QED
                BY <3>1, <3>2, <3>3, <4>2, <4>3
        <3>5. CASE ~(T \subseteq S)
            <4>1. T \subseteq S \cup {h.id}
                BY <1>8, <1>10 DEF SeatsOf
            <4>6. h.id \in T /\ h.id \notin S
                BY <3>5, <4>1
            <4>7. /\ h.id \in DOMAIN seat /\ g = room /\ "room" \in h.sent
                  /\ seat[h.id].room # room
                BY <1>8, <1>10, <4>6 DEF SeatsOf
            <4>2. Cardinality(S) + 1 <= capacity[g]
                BY <1>5, <1>6, <1>7, <3>1, <4>7
            <4> HIDE DEF S, T
            <4>3. /\ IsFiniteSet(S \cup {h.id})
                  /\ Cardinality(S \cup {h.id}) =
                        IF h.id \in S THEN Cardinality(S) ELSE Cardinality(S) + 1
                BY <3>1, FS_AddElement
            <4>4. IsFiniteSet(T) /\ Cardinality(T) <= Cardinality(S \cup {h.id})
                BY <4>1, <4>3, FS_Subset
            <4>5. Cardinality(T) \in Nat
                BY <4>4, FS_CardinalityType
            <4> QED
                BY <3>1, <3>2, <3>3, <4>2, <4>3, <4>4, <4>5
        <3> QED
            BY <3>4, <3>5
    <2> QED
        BY <2>2, <2>3
<1>13. crowded \subseteq crowded' /\ crowded' \subseteq Exams
    <2>1. h.exam \in Exams
        BY <1>1, <1>2 DEF SeatInv
    <2> QED
        BY <1>1, <1>2, <2>1 DEF SeatingTypeOK
<1>14. SeatsSuffice'
    BY <1>1, <1>2, <1>8, <1>10, <1>12, <1>13, SufficeElsewhere DEF SeatsInv
<1>15. ASSUME NEW q \in Requests \ {r} PROVE SeatInv(q)'
    <2>1. SeatInv(q) /\ SeatStays(q)
        BY <1>1, <1>4 DEF SeatsInv
    <2>2. at[q] \notin {"idle", "done"} /\ held[q].exam = e => e \in crowded'
        <3>1. at[q] \notin {"idle", "done"} /\ held[q].exam = e => q \in Seating(r, h.exam)
            BY <1>7 DEF Seating
        <3>2. q \in Seating(r, h.exam) => doubled
            OBVIOUS
        <3> QED
            BY <1>2, <1>7, <3>1, <3>2
    <2> QED
        BY <1>1, <1>2, <1>8, <1>10, <1>13, <2>1, <2>2, SeatInvElsewhere
<1>16. SeatsInv'
    BY <1>4, <1>14, <1>15, SeatAtRest DEF SeatsInv
<1>17. \A a \in assigned' : IsAssigned(a)
    BY <1>1, <1>2 DEF SeatingTypeOK
<1> QED
    BY <1>2, <1>3, <1>4, <1>11, <1>13, <1>16, <1>17, SeatsWritten


\* How many are seated in a room once the places are.
LEMMA CountsRise ==
    ASSUME SeatingTypeOK, NEW e, NEW room, NEW places, places \subseteq SeatPlaces,
           NEW new, NEW ids, new \in [ids -> places],
           \A i, j \in ids : new[i] = new[j] => i = j,
           \A i \in DOMAIN seat' : \/ i \in DOMAIN seat /\ seat'[i] = seat[i]
                                   \/ i \in ids /\ seat'[i].room = new[i][2]
    PROVE  /\ countSeatsOccupied(e, room)' \in Nat
           /\ countSeatsOccupied(e, room)'
              <= countSeatsOccupied(e, room) + Cardinality(InRoom(places, room))
<1> DEFINE S == {i \in SeatsOf(e) : seat[i].room = room}
           T == {i \in DOMAIN seat' : seat'[i].exam = e /\ seat'[i].room = room}
           P == InRoom(places, room)
           B == {i \in ids : new[i][2] = room}
           f == [i \in B |-> new[i]]
<1>1. IsFiniteSet(S) /\ Cardinality(S) \in Nat /\ Cardinality(S) = countSeatsOccupied(e, room)
    <2>1. Cardinality(S) = countSeatsOccupied(e, room)
        BY DEF countSeatsOccupied
    <2>2. IsFiniteSet(S)
        BY Counts
    <2> QED
        BY <2>1, <2>2, FS_CardinalityType
<1>2. countSeatsOccupied(e, room)' = Cardinality(T)
    <2>1. {i \in SeatsOf(e) : seat[i].room = room}' = T
        BY DEF SeatsOf
    <2> QED
        BY <2>1 DEF countSeatsOccupied
<1>3. T \subseteq S \cup B
    BY DEF SeatsOf
<1>4. IsFiniteSet(P) /\ Cardinality(P) \in Nat
    BY PlacesInRoom
<1>5. f \in Injection(B, P)
    BY DEF Injection, IsInjective, InRoom
<1> HIDE DEF S, T, P, B, f
<1>6. IsFiniteSet(B) /\ Cardinality(B) <= Cardinality(P)
    BY <1>4, <1>5, FS_Injection
<1>7. Cardinality(B) \in Nat
    BY <1>6, FS_CardinalityType
<1>8. /\ IsFiniteSet(S \cup B)
      /\ Cardinality(S \cup B) = Cardinality(S) + Cardinality(B) - Cardinality(S \cap B)
    BY <1>1, <1>6, FS_Union
<1>9. Cardinality(S \cap B) \in Nat
    BY <1>1, FS_Subset, FS_CardinalityType
<1>10. IsFiniteSet(T) /\ Cardinality(T) <= Cardinality(S \cup B)
    BY <1>3, <1>8, FS_Subset
<1>11. Cardinality(T) \in Nat
    BY <1>10, FS_CardinalityType
<1> QED
    BY <1>1, <1>2, <1>4, <1>6, <1>7, <1>8, <1>9, <1>10, <1>11 DEF P

\* No place of a request that does not crowd the exam is one too many.
LEMMA PlacesFit ==
    ASSUME SeatingTypeOK, SeatsSuffice, NEW r \in Requests, SeatInv(r), at[r] = "seat",
           NEW e, e = held[r].exam, e \in Exams \ crowded, ~Crowds(r)
    PROVE  /\ \A x \in held[r].places : ~Seated(e, x[1])
           /\ \A x, y \in held[r].places : x[1] = y[1] => x = y
           /\ \A room \in Rooms \ resized :
                 countSeatsOccupied(e, room) + Cardinality(InRoom(held[r].places, room))
                 <= capacity[room]
<1> DEFINE h == held[r]
<1>1. IsHeld(h)
    BY DEF SeatingTypeOK
<1>2. \A x, y \in h.places : x[1] = y[1] => x = y
    BY Zenon DEF Crowds
<1>3. CASE h.looks
    BY <1>2, <1>3 DEF SeatInv
<1>4. CASE ~h.looks
    <2>1. \A x \in h.places :
             ~Seated(e, x[1]) /\ HasRoom(e, x[2], Cardinality(InRoom(h.places, x[2])))
        BY <1>4, Zenon DEF Crowds
    <2>2. ASSUME NEW room \in Rooms \ resized
          PROVE  countSeatsOccupied(e, room) + Cardinality(InRoom(h.places, room))
                 <= capacity[room]
        <3>1. CASE \E x \in h.places : x[2] = room
            BY <2>1, <3>1 DEF HasRoom
        <3>2. CASE \A x \in h.places : x[2] # room
            <4>1. Cardinality(InRoom(h.places, room)) = 0
                BY <3>2, NobodyInRoom
            <4>2. countSeatsOccupied(e, room) <= capacity[room]
                BY <2>2 DEF SeatsSuffice
            <4>3. countSeatsOccupied(e, room) \in Nat
                BY Counts
            <4> QED
                BY <4>1, <4>2, <4>3
        <3> QED
            BY <3>1, <3>2
    <2> QED
        BY <1>2, <2>1, <2>2
<1> QED
    BY <1>1, <1>3, <1>4 DEF IsHeld

LEMMA InsertSeatsKeeps ==
    ASSUME IInv, NEW r \in Requests, InsertSeats(r)
    PROVE  IInv'
<1> DEFINE h == held[r]
           new == Numbered(FreeIds, h.places)
           ids == DOMAIN new
           rows == [i \in ids |-> [exam |-> h.exam, student |-> new[i][1], room |-> new[i][2]]]
           event == [by |-> r, exam |-> h.exam, counted |-> FALSE, best |-> << >>]
<1>1. SeatingTypeOK /\ SeatsSuffice /\ SeatsInv /\ SeatInv(r) /\ IsHeld(h)
    BY DEF IInv, SeatsInv, SeatingTypeOK
<1>2. /\ at[r] = "seat" /\ Cardinality(h.places) <= Cardinality(FreeIds) /\ Over(r)
      /\ seat' = Upsert(seat, rows)
      /\ crowded' = (IF Crowds(r) THEN crowded \cup {h.exam} ELSE crowded)
      /\ assigned' = (IF h.places = {} THEN assigned ELSE assigned \cup {event})
      /\ capacity' = capacity /\ resized' = resized
    BY DEF InsertSeats
<1>3. UNCHANGED vars
    BY DEF InsertSeats, vars, tables, history
<1>4. /\ at' \in [Requests -> SeatSteps]
      /\ DOMAIN held' = Requests /\ \A q \in Requests : IsHeld(held'[q])
      /\ at'[r] = "done" /\ \A q \in Requests \ {r} : SeatStays(q)
    BY <1>1, <1>2, IsOver
<1>5. h.exam \in Exams /\ h.places \subseteq SeatPlaces
    BY <1>1, <1>2 DEF SeatInv, IsHeld
<1>6. /\ ids \subseteq FreeIds /\ new \in [ids -> h.places]
      /\ \A i, j \in ids : new[i] = new[j] => i = j
    <2>1. IsFiniteSet(FreeIds)
        BY SeatingAssumption, FS_Subset DEF FreeIds
    <2>2. IsFiniteSet(h.places)
        BY <1>5, PlacesInRoom
    <2> QED
        BY <1>2, <2>1, <2>2, NumberedRows
<1> HIDE DEF new
<1>7. /\ ids \subseteq SeatIds /\ ids \cap DOMAIN seat = {}
      /\ \A q \in Requests : held[q].id \notin ids
    BY <1>6 DEF FreeIds
<1>8. \A i \in ids : new[i] \in h.places /\ new[i][1] \in Students /\ new[i][2] \in Rooms
    BY <1>5, <1>6 DEF SeatPlaces
<1>9. IsTable(rows, SeatIds, Seat)
    BY <1>5, <1>7, <1>8 DEF IsTable, Seat
<1>10. IsTable(seat', SeatIds, Seat)
    BY <1>1, <1>2, <1>9, UpsertTable DEF SeatingTypeOK
<1>11. PICK e : e = h.exam
    OBVIOUS
<1>12. /\ DOMAIN seat' = DOMAIN seat \cup ids
       /\ \A i \in DOMAIN seat : seat'[i] = seat[i]
       /\ \A i \in ids : seat'[i].exam = e /\ seat'[i].student = new[i][1]
                                           /\ seat'[i].room = new[i][2]
    BY <1>2, <1>7, <1>11 DEF Upsert
<1> HIDE DEF rows
<1>13. crowded \subseteq crowded' /\ crowded' \subseteq Exams
    BY <1>1, <1>2, <1>5 DEF SeatingTypeOK
<1>14. e \in Exams \ crowded' =>
         /\ \A i, j \in DOMAIN seat' : seat'[i].exam = e /\ seat'[j].exam = e
                /\ seat'[i].student = seat'[j].student => i = j
         /\ \A g \in Rooms \ resized : countSeatsOccupied(e, g)' <= capacity[g]
    <2> SUFFICES ASSUME e \in Exams \ crowded'
                 PROVE  /\ \A i, j \in DOMAIN seat' : seat'[i].exam = e /\ seat'[j].exam = e
                               /\ seat'[i].student = seat'[j].student => i = j
                        /\ \A g \in Rooms \ resized : countSeatsOccupied(e, g)' <= capacity[g]
        OBVIOUS
    <2>1. ~Crowds(r) /\ e \in Exams \ crowded
        BY <1>2, <1>11, <1>13
    <2>2. /\ \A x \in h.places : ~Seated(e, x[1])
          /\ \A x, y \in h.places : x[1] = y[1] => x = y
          /\ \A room \in Rooms \ resized :
                countSeatsOccupied(e, room) + Cardinality(InRoom(h.places, room))
                <= capacity[room]
        BY <1>1, <1>2, <1>11, <2>1, PlacesFit
    <2>3. ASSUME NEW i \in DOMAIN seat', NEW j \in DOMAIN seat',
                 seat'[i].exam = e, seat'[j].exam = e, seat'[i].student = seat'[j].student
          PROVE  i = j
        <3>1. CASE i \in ids /\ j \in ids
            BY <1>6, <1>8, <1>12, <2>2, <2>3, <3>1
        <3>2. CASE i \in DOMAIN seat /\ j \in DOMAIN seat
            BY <1>1, <1>12, <2>1, <2>3, <3>2 DEF SeatsSuffice, SeatsOf
        <3>3. CASE i \in ids /\ j \in DOMAIN seat
            BY <1>8, <1>12, <2>2, <2>3, <3>3 DEF Seated, SeatsOf
        <3>4. CASE j \in ids /\ i \in DOMAIN seat
            BY <1>8, <1>12, <2>2, <2>3, <3>4 DEF Seated, SeatsOf
        <3> QED
            BY <1>12, <3>1, <3>2, <3>3, <3>4
    <2>4. ASSUME NEW g \in Rooms \ resized PROVE countSeatsOccupied(e, g)' <= capacity[g]
        <3>1. /\ countSeatsOccupied(e, g)' \in Nat
              /\ countSeatsOccupied(e, g)'
                 <= countSeatsOccupied(e, g) + Cardinality(InRoom(h.places, g))
            <4>1. \A i \in DOMAIN seat' : \/ i \in DOMAIN seat /\ seat'[i] = seat[i]
                                          \/ i \in ids /\ seat'[i].room = new[i][2]
                BY <1>12
            <4> HIDE DEF ids
            <4>2. new \in [ids -> h.places] /\ \A i, j \in ids : new[i] = new[j] => i = j
                BY <1>6
            <4>3. SeatingTypeOK /\ h.places \subseteq SeatPlaces
                BY <1>1, <1>5
            <4> HIDE DEF h
            <4>4. PICK places : places = h.places
                OBVIOUS
            <4>5. new \in [ids -> places] /\ places \subseteq SeatPlaces
                BY <4>2, <4>3, <4>4
            <4>6. /\ countSeatsOccupied(e, g)' \in Nat
                  /\ countSeatsOccupied(e, g)'
                     <= countSeatsOccupied(e, g) + Cardinality(InRoom(places, g))
                BY <4>1, <4>2, <4>3, <4>5, CountsRise, Zenon
            <4> QED
                BY <4>4, <4>6
        <3>2. countSeatsOccupied(e, g) + Cardinality(InRoom(h.places, g)) <= capacity[g]
            BY <2>2
        <3>3. countSeatsOccupied(e, g) \in Nat /\ Cardinality(InRoom(h.places, g)) \in Nat
              /\ capacity[g] \in Nat
            BY <1>1, <1>5, Counts, PlacesInRoom, CapacityIsNat
        <3> QED
            BY <3>1, <3>2, <3>3
    <2> QED
        BY <2>3, <2>4
<1>15. SeatsSuffice'
    BY <1>1, <1>2, <1>7, <1>12, <1>13, <1>14, SufficeElsewhere
<1>16. ASSUME NEW q \in Requests \ {r} PROVE SeatInv(q)'
    <2>1. SeatInv(q) /\ SeatStays(q)
        BY <1>1, <1>4 DEF SeatsInv
    <2>2. at[q] \notin {"idle", "done"} /\ held[q].exam = e => e \in crowded'
        <3>1. at[q] \notin {"idle", "done"} /\ held[q].exam = e => q \in Seating(r, h.exam)
            BY <1>11 DEF Seating
        <3>2. q \in Seating(r, h.exam) => Crowds(r)
            BY DEF Crowds
        <3> QED
            BY <1>2, <1>11, <3>1, <3>2
    <2>3. held[q].id \in DOMAIN seat' => held[q].id \in DOMAIN seat
                                         /\ seat'[held[q].id].exam = seat[held[q].id].exam
        BY <1>7, <1>12
    <2> QED
        BY <1>1, <1>2, <1>12, <1>13, <2>1, <2>2, <2>3, SeatInvElsewhere
<1>17. SeatsInv'
    BY <1>4, <1>15, <1>16, SeatAtRest DEF SeatsInv
<1>18. \A a \in assigned' : IsAssigned(a)
    <2>1. IsAssigned(event)
        BY <1>5, EmptyTable DEF IsAssigned
    <2> HIDE DEF event
    <2> QED
        BY <1>1, <1>2, <2>1 DEF SeatingTypeOK
<1> QED
    BY <1>2, <1>3, <1>4, <1>10, <1>13, <1>17, <1>18, SeatsWritten


-----------------------------------------------------------------------------
(* The steps together.                                                     *)

LEMMA InitialInv ==
    ASSUME SeatingInit
    PROVE  IInv
<1>1. /\ exam = << >> /\ row = << >> /\ pc = [r \in Requests |-> "idle"]
      /\ local = [r \in Requests |-> Nothing] /\ cascade = {}
      /\ loose = {} /\ unchecked = {} /\ booked = {} /\ amended = {}
    BY DEF SeatingInit, Init
<1>2. /\ seat = << >> /\ capacity = Capacity
      /\ at = [r \in Requests |-> "idle"] /\ held = [r \in Requests |-> Held]
      /\ assigned = {} /\ crowded = {} /\ resized = {}
    BY DEF SeatingInit
<1>3. TypeOK
    BY <1>1, EmptyTable, NothingLocal DEF TypeOK, Steps
<1>4. SeatingTypeOK
    BY <1>2, <1>3, EmptyTable, NothingHeldYet, SeatingAssumption DEF SeatingTypeOK
<1>5. DOMAIN exam = {} /\ DOMAIN row = {} /\ DOMAIN seat = {}
    BY <1>1, <1>2
<1>6. \A r \in Requests : pc[r] = "idle" /\ at[r] = "idle"
    BY <1>1, <1>2
<1>7. ExamsInv
    BY <1>5, <1>6 DEF ExamsInv, ExamsApart, Live, WindowInv
<1>8. RowsInv
    BY <1>5, <1>6 DEF RowsInv, RowsApart, RowsOfExams, NewInv, PlanInv
<1>9. PublishedInv
    BY <1>5, <1>6 DEF PublishedInv, PublishedIsComplete, NothingTaken, PublishInv
<1>10. SeatsInv
    <2>1. ASSUME NEW e, NEW h \in Rooms PROVE countSeatsOccupied(e, h) <= capacity[h]
        <3>1. {i \in SeatsOf(e) : seat[i].room = h} = {}
            BY <1>5 DEF SeatsOf
        <3>2. countSeatsOccupied(e, h) = 0
            BY <3>1, FS_EmptySet DEF countSeatsOccupied
        <3> QED
            BY <1>4, <3>2, CapacityIsNat
    <2>2. SeatsSuffice
        BY <1>5, <2>1 DEF SeatsSuffice, SeatsOf
    <2>3. \A r \in Requests : SeatInv(r)
        BY <1>6 DEF SeatInv
    <2> QED
        BY <2>2, <2>3 DEF SeatsInv
<1> QED
    BY <1>4, <1>7, <1>8, <1>9, <1>10 DEF IInv

LEMMA NothingMoves ==
    ASSUME IInv, UNCHANGED <<vars, seating>>
    PROVE  IInv'
<1>1. UNCHANGED <<vars, seat, capacity, at, held, crowded, resized>> /\ assigned' = assigned
    BY DEF seating
<1>2. \A a \in assigned' : IsAssigned(a)
    BY <1>1 DEF IInv, SeatingTypeOK
<1> QED
    BY <1>1, <1>2, EventsKeep

LEMMA ExamHandlerKeeps ==
    ASSUME IInv, NEW r \in Requests, ExamHandler(r), UNCHANGED seating
    PROVE  IInv'
<1>1. ASSUME NEW e \in Exams, NEW classes \in SUBSET Classes \ {{}}, NEW w \in Window,
             \/ Create(r, e, classes, w) \/ AutoGenerate(r, e, classes, w)
             \/ Regenerate(r, e, classes, w)
             \/ \E dates, link \in BOOLEAN : UpdateExam(r, e, dates, w, link, classes)
      PROVE  IInv'
    <2>1. CASE Create(r, e, classes, w)
        BY <2>1, CreateKeeps
    <2>2. CASE AutoGenerate(r, e, classes, w)
        BY <2>2, AutoGenerateKeeps
    <2>3. CASE Regenerate(r, e, classes, w)
        BY <2>3, RegenerateKeeps
    <2>4. ASSUME NEW dates \in BOOLEAN, NEW link \in BOOLEAN,
                 UpdateExam(r, e, dates, w, link, classes)
          PROVE  IInv'
        BY <2>4, UpdateExamKeeps
    <2> QED
        BY <1>1, <2>1, <2>2, <2>3, <2>4
<1>2. ASSUME NEW e \in Exams, NEW source \in Exams, NEW by \in Slots, Copy(r, source, e, by)
      PROVE  IInv'
    BY <1>2, CopyKeeps
<1>3. ASSUME NEW e \in Exams,
             \/ RemoveExam(r, e) \/ RestoreExam(r, e)
             \/ \E to \in ExamStatus : ReadStatus(r, e, to)
      PROVE  IInv'
    BY <1>3, RemoveExamKeeps, RestoreExamKeeps, ReadStatusKeeps
<1>4. ASSUME \/ assertNoTimelineOverlap(r) \/ InsertExam(r) \/ LinkClasses(r)
             \/ RecheckOverlap(r) \/ Redate(r) \/ Unlink(r) \/ SetStatus(r)
      PROVE  IInv'
    BY <1>4, AssertKeeps, InsertExamKeeps, LinkClassesKeeps, RecheckKeeps, RedateKeeps,
       UnlinkKeeps, SetStatusKeeps
<1> QED
    BY <1>1, <1>2, <1>3, <1>4, Zenon DEF ExamHandler

LEMMA RowHandlerKeeps ==
    ASSUME IInv, NEW r \in Requests, RowHandler(r), UNCHANGED seating
    PROVE  IInv'
<1>1. ASSUME NEW e \in Exams, NEW c \in Classes, NEW items \in SUBSET (Subjects \X Slots),
             BulkCreate(r, e, c, items)
      PROVE  IInv'
    BY <1>1, BulkCreateKeeps
<1>2. ASSUME NEW i \in RowIds, UpdateRow(r, i) \/ RemoveRow(r, i) PROVE IInv'
    BY <1>2, UpdateRowKeeps, RemoveRowKeeps
<1>3. ASSUME NEW ids \in SUBSET DOMAIN row \ {{}},
             BulkUpdate(r, ids) \/ BulkRemove(r, ids) \/ \E flag \in BOOLEAN : BulkLock(r, ids, flag)
      PROVE  IInv'
    BY <1>3, BulkUpdateKeeps, BulkRemoveKeeps, BulkLockKeeps
<1>4. ASSUME InsertRows(r) \/ WriteRows(r) \/ HardDelete(r) \/ Replace(r) PROVE IInv'
    BY <1>4, InsertRowsKeeps, WriteRowsKeeps, HardDeleteKeeps, ReplaceKeeps
<1> QED
    BY <1>1, <1>2, <1>3, <1>4, Zenon DEF RowHandler

LEMMA SeatHandlerKeeps ==
    ASSUME IInv, NEW r \in Requests, SeatHandler(r)
    PROVE  IInv'
<1>1. ASSUME NEW e \in Exams, NEW x \in SeatPlaces, NEW y \in SeatPlaces,
             AssignSeats(r, e, {x, y})
      PROVE  IInv'
    <2>1. {x, y} \in SUBSET SeatPlaces
        OBVIOUS
    <2> QED
        BY <1>1, <2>1, AssignSeatsKeeps
<1>2. ASSUME NEW e \in Live, NEW classes \in SUBSET Classes \ {{}},
             NEW rooms \in SUBSET Rooms \ {{}}, NEW twice \in classes \cup rooms \cup {None},
             AutoShuffle(r, e, classes, rooms, twice)
      PROVE  IInv'
    BY <1>2, AutoShuffleKeeps
<1>3. ASSUME NEW i \in DOMAIN seat, NEW s \in Students, NEW h \in Rooms,
             NEW fields \in SUBSET {"student", "room"} \ {{}}, MoveSeat(r, i, s, h, fields)
      PROVE  IInv'
    BY <1>3, MoveSeatKeeps
<1>4. ASSUME NEW i \in DOMAIN seat, RemoveSeat(r, i) PROVE IInv'
    BY <1>4, RemoveSeatKeeps
<1>5. ASSUME NEW h \in Rooms, NEW n \in Capacities, ResizeRoom(r, h, n) PROVE IInv'
    BY <1>5, ResizeRoomKeeps
<1>6. ASSUME ClearSeats(r) \/ InsertSeats(r) \/ WriteSeat(r) \/ SeatingFails(r) PROVE IInv'
    BY <1>6, ClearSeatsKeeps, InsertSeatsKeeps, WriteSeatKeeps, SeatingFailsKeeps
<1> QED
    BY <1>1, <1>2, <1>3, <1>4, <1>5, <1>6, Zenon DEF SeatHandler

LEMMA SeatingNextKeeps ==
    ASSUME IInv, SeatingNext
    PROVE  IInv'
<1>1. ASSUME NEW r \in Requests, ExamHandler(r) \/ RowHandler(r) \/ HandlerFails(r),
             UNCHANGED seating
      PROVE  IInv'
    BY <1>1, ExamHandlerKeeps, RowHandlerKeeps, HandlerFailsKeeps
<1>2. ASSUME NEW r \in Requests, SeatHandler(r) PROVE IInv'
    BY <1>2, SeatHandlerKeeps
<1>3. ASSUME NEW e \in cascade, DeleteExamData(e) PROVE IInv'
    BY <1>3, DeleteExamDataKeeps
<1>4. ASSUME NEW a \in assigned,
             CountSeats(a) \/ LoseEvent(a) \/ \E c \in Classes : setHallForClass(a, c)
      PROVE  IInv'
    BY <1>4, CountSeatsKeeps, LoseEventKeeps, SetHallKeeps
<1> QED
    BY <1>1, <1>2, <1>3, <1>4, Zenon DEF SeatingNext

LEMMA StepKeeps ==
    ASSUME IInv, [TimetablesNext]_<<exams, vars, seating, lessonVars>>
    PROVE  IInv'
<1>1. CASE SeatingNext
    BY <1>1, SeatingNextKeeps
<1>2. CASE UNCHANGED <<vars, seating>>
    BY <1>2, NothingMoves
<1>3. SeatingNext \/ UNCHANGED <<vars, seating>>
    BY Zenon DEF TimetablesNext
<1> QED
    BY <1>1, <1>2, <1>3

\* The inductive invariant of the exams, their rows and their seats, beside any steps of
\* the class timetables: exam.service.ts, exam-schedule.service.ts, exam-sitting.service.ts.
THEOREM Invariant == TimetablesSpec => []IInv
<1>1. TimetablesInit => IInv
    BY InitialInv DEF TimetablesInit
<1>2. IInv /\ [TimetablesNext]_<<exams, vars, seating, lessonVars>> => IInv'
    BY StepKeeps
<1> QED
    BY <1>1, <1>2, PTL DEF TimetablesSpec

\* The tables of exams, rows, seats and rooms, what each request holds and what the events
\* carry have the shapes that their declarations in the services and entities give them.
THEOREM TypeCorrect == TimetablesSpec => []SeatingTypeOK
<1>1. IInv => SeatingTypeOK
    BY DEF IInv
<1> QED
    BY <1>1, Invariant, PTL

\* exam.service.ts:59: exams that share a class do not overlap, however create, copy,
\* update, remove and restore interleave, unless an exam was restored, got dates and
\* classes from one update, or was written while another handler held its own check.
THEOREM WindowsApart == TimetablesSpec => []ExamsApart
<1>1. IInv => ExamsApart
    BY DEF IInv, ExamsInv
<1> QED
    BY <1>1, Invariant, PTL

\* exam-schedule.service.ts:53, exam.service.ts:405: a class has one paper at a time in an
\* exam and an invigilator one class, except for rows that were written in a race, several
\* at once, by a regeneration or, for invigilators, by hand.
THEOREM PapersApart == TimetablesSpec => []RowsApart
<1>1. IInv => RowsApart
    BY DEF IInv, RowsInv
<1> QED
    BY <1>1, Invariant, PTL

\* exam.service.ts:220-222: an exam that is PUBLISHED lacks no room and no invigilator in
\* its unlocked rows, unless it got rows, or unlocked ones, after they were looked at.
THEOREM PublishedComplete == TimetablesSpec => []PublishedIsComplete
<1>1. IInv => PublishedIsComplete
    BY DEF IInv, PublishedInv
<1> QED
    BY <1>1, Invariant, PTL

\* exam-sitting.service.ts:110-126: no student has two seats in an exam and no room more
\* students than seats, except for exams whose seats were written in a race, without
\* clearing or twice for a student, and for rooms whose capacity was changed.
THEOREM RoomForAll == TimetablesSpec => []SeatsSuffice
<1>1. IInv => SeatsSuffice
    BY DEF IInv, SeatsInv
<1> QED
    BY <1>1, Invariant, PTL


-----------------------------------------------------------------------------
(* Locked rows.                                                            *)

\* A row that is locked, and that no update or removal of one row, no regeneration and no
\* deletion of its exam is about.
Settled(i) ==
    /\ i \in DOMAIN row /\ row[i].locked /\ row[i].exam \notin cascade
    /\ ~\E r \in Requests : pc[r] \in {"write", "remove", "replace"} /\ i \in DOMAIN local[r].plan
StaysPut(i) == i \in DOMAIN row' /\ [row'[i] EXCEPT !.locked = TRUE] = row[i]

LEMMA SameRow ==
    ASSUME TypeOK, NEW i, Settled(i), i \in DOMAIN row', row'[i] = row[i]
    PROVE  StaysPut(i)
<1>1. row[i] \in Row /\ row[i].locked
    BY DEF TypeOK, IsTable, Settled
<1> QED
    BY <1>1 DEF StaysPut, Row

LEMMA RowsStay ==
    ASSUME TypeOK, NEW i, Settled(i), row' = row
    PROVE  StaysPut(i)
    BY SameRow DEF Settled

LEMMA ReadsStay ==
    ASSUME TypeOK, NEW i, Settled(i), NEW r, NEW from, NEW guard, NEW step, NEW seen,
           Read(r, from, guard, step, seen)
    PROVE  StaysPut(i)
    BY RowsStay DEF Read, tables

LEMMA ExamHandlerStays ==
    ASSUME TypeOK, NEW r \in Requests, ExamHandler(r), NEW i, Settled(i)
    PROVE  StaysPut(i)
<1>1. ASSUME row' = row PROVE StaysPut(i)
    BY <1>1, RowsStay
<1>2. ASSUME NEW e \in Exams, NEW classes \in SUBSET Classes \ {{}}, NEW w \in Window,
             \/ Create(r, e, classes, w) \/ AutoGenerate(r, e, classes, w)
             \/ Regenerate(r, e, classes, w)
             \/ \E dates, link \in BOOLEAN : UpdateExam(r, e, dates, w, link, classes)
      PROVE  row' = row
    BY <1>2, Zenon DEF Create, AutoGenerate, Regenerate, UpdateExam, Read, tables
<1>3. ASSUME NEW e \in Exams, NEW source \in Exams, NEW by \in Slots, Copy(r, source, e, by)
      PROVE  row' = row
    BY <1>3, Zenon DEF Copy, Read, tables
<1>4. ASSUME NEW e \in Exams,
             \/ RemoveExam(r, e) \/ RestoreExam(r, e)
             \/ \E to \in ExamStatus : ReadStatus(r, e, to)
      PROVE  row' = row
    BY <1>4, Zenon DEF RemoveExam, RestoreExam, ReadStatus, Read, tables
<1>5. ASSUME \/ assertNoTimelineOverlap(r) \/ InsertExam(r) \/ LinkClasses(r)
             \/ RecheckOverlap(r) \/ Redate(r) \/ Unlink(r) \/ SetStatus(r)
      PROVE  row' = row
    BY <1>5, Zenon DEF assertNoTimelineOverlap, InsertExam, LinkClasses, RecheckOverlap,
       Redate, Unlink, SetStatus, Read, tables
<1> QED
    BY <1>1, <1>2, <1>3, <1>4, <1>5, Zenon DEF ExamHandler

LEMMA RowHandlerStays ==
    ASSUME IInv, NEW r \in Requests, RowHandler(r), NEW i, Settled(i)
    PROVE  StaysPut(i)
<1>1. TypeOK /\ RowsInv /\ row[i] \in Row /\ i \in DOMAIN row /\ row[i].locked
    BY DEF IInv, SeatingTypeOK, TypeOK, IsTable, Settled
<1>2. ASSUME NEW e \in Exams, NEW c \in Classes, NEW items \in SUBSET (Subjects \X Slots),
             BulkCreate(r, e, c, items)
      PROVE  row' = row
    BY <1>2, Zenon DEF BulkCreate, Read, tables
<1>3. ASSUME NEW k \in RowIds, UpdateRow(r, k) \/ RemoveRow(r, k) PROVE row' = row
    BY <1>3, Zenon DEF UpdateRow, RemoveRow, Read, tables
<1>4. ASSUME NEW ids, BulkUpdate(r, ids) PROVE row' = row
    BY <1>4, Zenon DEF BulkUpdate, Read, tables
<1>5. ASSUME NEW ids, BulkRemove(r, ids) PROVE StaysPut(i)
    BY <1>1, <1>5, SameRow DEF BulkRemove, Unlocked
<1>6. ASSUME NEW ids, NEW flag \in BOOLEAN, BulkLock(r, ids, flag) PROVE StaysPut(i)
    <2>1. row' = Upsert(row, [k \in ids |-> [row[k] EXCEPT !.locked = flag]])
        BY <1>6 DEF BulkLock
    <2>2. CASE i \in ids
        <3>1. i \in DOMAIN row' /\ row'[i] = [row[i] EXCEPT !.locked = flag]
            BY <2>1, <2>2 DEF Upsert
        <3> QED
            BY <1>1, <3>1 DEF StaysPut, Row
    <2>3. CASE i \notin ids
        BY <1>1, <2>1, <2>3, SameRow DEF Upsert
    <2> QED
        BY <2>2, <2>3
<1>7. ASSUME InsertRows(r) PROVE StaysPut(i)
    <2> DEFINE l == local[r]
               new == Numbered(Fresh, l.new)
    <2>1. /\ pc[r] = "rows" /\ Cardinality(l.new) <= Cardinality(Fresh)
          /\ row' = Upsert(row, new)
        BY <1>7 DEF InsertRows
    <2>2. IsFiniteSet(l.new)
        BY <1>1, <2>1 DEF RowsInv, NewInv
    <2>3. IsFiniteSet(Fresh)
        BY TimetableAssumption, FS_Subset DEF Fresh
    <2>4. DOMAIN new \subseteq Fresh
        BY <2>1, <2>2, <2>3, NumberedRows
    <2> HIDE DEF new
    <2>5. i \notin DOMAIN new
        BY <1>1, <2>4 DEF Fresh
    <2> QED
        BY <1>1, <2>1, <2>5, SameRow DEF Upsert
<1>8. ASSUME WriteRows(r) PROVE StaysPut(i)
    <2> DEFINE ids == {k \in DOMAIN local[r].plan \cap DOMAIN row : pc[r] = "bulk" => Unlocked(k)}
               new == [k \in ids |-> Put(row[k], local[r].sent, local[r].plan[k])]
    <2>1. pc[r] \in {"write", "bulk"} /\ row' = Upsert(row, new)
        BY <1>8 DEF WriteRows
    <2>2. i \notin ids
        BY <1>1, <2>1 DEF Settled, Unlocked
    <2>3. DOMAIN new = ids
        OBVIOUS
    <2> HIDE DEF ids, new
    <2> QED
        BY <1>1, <2>1, <2>2, <2>3, SameRow DEF Upsert
<1>9. ASSUME HardDelete(r) PROVE StaysPut(i)
    <2>1. /\ pc[r] = "remove"
          /\ row' = [k \in DOMAIN row \ DOMAIN local[r].plan |-> row[k]]
        BY <1>9 DEF HardDelete
    <2>2. i \notin DOMAIN local[r].plan
        BY <2>1 DEF Settled
    <2> QED
        BY <1>1, <2>1, <2>2, SameRow
<1>10. ASSUME Replace(r) PROVE StaysPut(i)
    <2>1. pc[r] = "replace"
        BY <1>10 DEF Replace
    <2>2. PICK k \in DOMAIN local[r].plan :
              row' = IF k \in DOMAIN row
                     THEN [row EXCEPT ![k] = [@ EXCEPT !.slot = local[r].plan[k].slot,
                                                       !.teacher = local[r].plan[k].teacher]]
                     ELSE row
        BY <1>10, Zenon DEF Replace
    <2>3. i # k
        BY <2>1 DEF Settled
    <2> QED
        BY <1>1, <2>2, <2>3, SameRow
<1>11. ASSUME row' = row PROVE StaysPut(i)
    BY <1>1, <1>11, RowsStay
<1> QED
    BY <1>2, <1>3, <1>4, <1>5, <1>6, <1>7, <1>8, <1>9, <1>10, <1>11, Zenon DEF RowHandler

LEMMA SeatHandlerStays ==
    ASSUME TypeOK, NEW r \in Requests, SeatHandler(r), NEW i, Settled(i)
    PROVE  StaysPut(i)
<1>1. ASSUME row' = row PROVE StaysPut(i)
    BY <1>1, RowsStay
<1>2. ASSUME NEW e \in Exams, NEW places, AssignSeats(r, e, places) PROVE row' = row
    BY <1>2, Zenon DEF AssignSeats, Take, tables
<1>3. ASSUME NEW e, NEW classes, NEW rooms, NEW twice, AutoShuffle(r, e, classes, rooms, twice)
      PROVE  row' = row
    BY <1>3, Zenon DEF AutoShuffle, Take, tables
<1>4. ASSUME NEW k, NEW s, NEW h, NEW fields, MoveSeat(r, k, s, h, fields) PROVE row' = row
    BY <1>4, Zenon DEF MoveSeat, Take, tables
<1>5. ASSUME NEW k, RemoveSeat(r, k) PROVE row' = row
    BY <1>5, Zenon DEF RemoveSeat, Take, tables
<1>6. ASSUME NEW h, NEW n, ResizeRoom(r, h, n) PROVE row' = row
    BY <1>6, Zenon DEF ResizeRoom, Take, tables
<1>7. ASSUME ClearSeats(r) \/ InsertSeats(r) \/ WriteSeat(r) \/ SeatingFails(r) PROVE row' = row
    BY <1>7, Zenon DEF ClearSeats, InsertSeats, WriteSeat, SeatingFails, vars, tables
<1> QED
    BY <1>1, <1>2, <1>3, <1>4, <1>5, <1>6, <1>7, Zenon DEF SeatHandler

LEMMA LockedStays ==
    ASSUME IInv, [TimetablesNext]_<<exams, vars, seating, lessonVars>>, NEW i, Settled(i)
    PROVE  StaysPut(i)
<1>1. TypeOK /\ row[i] \in Row /\ i \in DOMAIN row /\ row[i].locked /\ row[i].exam \notin cascade
    BY DEF IInv, SeatingTypeOK, TypeOK, IsTable, Settled
<1>2. ASSUME NEW r \in Requests, ExamHandler(r) \/ RowHandler(r) \/ HandlerFails(r)
      PROVE  StaysPut(i)
    <2>1. HandlerFails(r) => row' = row
        BY DEF HandlerFails, tables
    <2> QED
        BY <1>1, <1>2, <2>1, ExamHandlerStays, RowHandlerStays, RowsStay
<1>3. ASSUME NEW r \in Requests, SeatHandler(r) PROVE StaysPut(i)
    BY <1>1, <1>3, SeatHandlerStays
<1>4. ASSUME NEW e \in cascade, DeleteExamData(e) PROVE StaysPut(i)
    <2>1. row' = [k \in DOMAIN row \ RowsOf(e) |-> row[k]]
        BY <1>4 DEF DeleteExamData, handleExamDeleted
    <2>2. i \notin RowsOf(e)
        BY <1>1, <1>4 DEF RowsOf
    <2> QED
        BY <1>1, <2>1, <2>2, SameRow
<1>5. ASSUME NEW a, CountSeats(a) \/ LoseEvent(a) PROVE row' = row
    BY <1>5, Zenon DEF CountSeats, LoseEvent, vars, tables
<1>6. ASSUME NEW a, NEW c, setHallForClass(a, c) PROVE StaysPut(i)
    <2>1. row' = [k \in DOMAIN row |->
                    IF row[k].exam = a.exam /\ row[k].class = c /\ Unlocked(k)
                    THEN [row[k] EXCEPT !.room = a.best[c]] ELSE row[k]]
        BY <1>6 DEF setHallForClass
    <2>2. ~Unlocked(i)
        BY <1>1 DEF Unlocked
    <2> QED
        BY <1>1, <2>1, <2>2, SameRow
<1>7. SeatingNext => StaysPut(i)
    <2>1. row' = row => StaysPut(i)
        BY <1>1, RowsStay
    <2> QED
        BY <1>2, <1>3, <1>4, <1>5, <1>6, <2>1, Zenon DEF SeatingNext
<1>8. UNCHANGED <<vars, seating>> => StaysPut(i)
    BY <1>1, RowsStay DEF vars, tables
<1>9. SeatingNext \/ UNCHANGED <<vars, seating>>
    BY Zenon DEF TimetablesNext
<1> QED
    BY <1>7, <1>8, <1>9

\* exam-schedule.repository.ts: a locked row keeps its time, teacher and room, and stays,
\* whatever bulk updates, bulk removals, room assignments and other requests do; only the
\* update or the removal of that row, a regeneration that read it before it was locked and
\* the deletion of its exam pass over the lock.
THEOREM LockHolds == TimetablesSpec => LockedRowKept
<1> DEFINE Kept == \A i \in DOMAIN row :
                (/\ row[i].locked /\ row[i].exam \notin cascade
                 /\ ~\E r \in Requests : pc[r] \in {"write", "remove", "replace"}
                                         /\ i \in DOMAIN local[r].plan)
                => i \in DOMAIN row' /\ [row'[i] EXCEPT !.locked = TRUE] = row[i]
<1>1. IInv /\ [TimetablesNext]_<<exams, vars, seating, lessonVars>> => Kept
    BY LockedStays DEF Settled, StaysPut
<1>2. IInv /\ [TimetablesNext]_<<exams, vars, seating, lessonVars>> => [Kept]_vars
    BY <1>1
<1>3. TimetablesSpec => [][Kept]_vars
    BY <1>2, Invariant, PTL DEF TimetablesSpec
<1> QED
    BY <1>3 DEF LockedRowKept

-----------------------------------------------------------------------------
(* The lessons: the strengthening.                                         *)

TimesOf(p) == {x \in times : x.plan = p}
EntriesOf(p) == {x \in entries : x.plan = p}
HandTime == [plan : {None}, period : Nat, start : Int, end : Int, break : BOOLEAN]
HandEntry == [plan : {None}, day : Days, period : Nat, teacher : Teachers]

\* Who writes a timetable, and what it is yet to write.
Serves(r, p) == todo[r] # << >> /\ sent[r].plan = p
Left(r) == ToSet(todo[r])

\* What autoGenerate accepts, and the periods it makes of it.
Accepted(m) ==
    /\ m.timing \in Timings /\ m.mapping \in Mappings
    /\ m.mapping # << >> /\ m.timing.lunchAfter < Len(m.mapping)
    /\ m.timing.end - m.timing.start - m.timing.lunch > 0
SlotsFor(m) == ToSet(buildPeriodSlots(m.timing, Len(m.mapping)))

\* In the timetables it was generated beside, the teacher of an entry is free at the time.
Suits(e, m) ==
    \A s \in SlotsFor(m), q \in m.beside : \A f \in EntriesOf(q), x \in TimesOf(q) :
        (/\ s.period = e.period /\ f.period = x.period
         /\ f.teacher = e.teacher /\ f.day = e.day) => ~Overlap(s, x)

\* Nobody writes these timetables any more.
Quiet(S) == \A q \in S : q \in used /\ \A r \in Requests : ~Serves(r, q)

\* Before its row is written, a timetable has nothing, and one request writes it.
Unwritten(r) ==
    LET p == sent[r].plan
    IN  /\ p \notin plan \cup DOMAIN made
        /\ TimesOf(p) = {} /\ EntriesOf(p) = {}
        /\ \A q \in Requests \ {r} : ~Serves(q, p)

\* What a request that generates has found.
Found(r) ==
    LET l == sent[r]
    IN  /\ "times" \in Left(r) => l.times = SlotsFor(l)
        /\ "entries" \in Left(r) => \A e \in l.entries : Suits(e, l)
        /\ Quiet(l.beside)

LessonInv(r) ==
    LET l == sent[r]
    IN  /\ l = [plan |-> l.plan, times |-> l.times, entries |-> l.entries, timing |-> l.timing,
                mapping |-> l.mapping, beside |-> l.beside]
        /\ \A i \in DOMAIN todo[r] : todo[r][i] \in {"busy", "row"} => i = 1
        /\ todo[r] # << >> =>
              /\ l.plan \in used
              /\ "times" \in Left(r) => l.times \in SUBSET HandTime
              /\ "entries" \in Left(r) => l.entries \in SUBSET HandEntry
              /\ "busy" \in Left(r) => Len(todo[r]) = 1 /\ Accepted(l)
              /\ Left(r) \cap {"busy", "row"} # {} => Unwritten(r)
              /\ l.timing # None /\ "busy" \notin Left(r) =>
                    /\ Accepted(l) /\ Found(r)
                    /\ Left(r) \subseteq {"row", "times", "entries"}

MadeInv(p) ==
    LET m == made[p]
    IN  /\ Accepted(m)
        /\ TimesOf(p) \in {{}, On(p, SlotsFor(m))}
        /\ \A e \in EntriesOf(p) : Suits(e, m)
        /\ Quiet(m.beside)
        /\ \A r \in Requests : Serves(r, p) =>
              /\ m = [timing |-> sent[r].timing, mapping |-> sent[r].mapping,
                      beside |-> sent[r].beside]
              /\ sent[r].timing # None /\ Left(r) \subseteq {"times", "entries"}

LessonsInv ==
    /\ LessonsTypeOK
    /\ IsFiniteSet(used) /\ used = 1..Cardinality(used)
    /\ \A x \in times \cup entries : x.plan \in used
    /\ todo \in [Requests -> Seq(LessonSteps)] /\ DOMAIN sent = Requests
    /\ \A r \in Requests : LessonInv(r)
    /\ \A p \in DOMAIN made : MadeInv(p)
-----------------------------------------------------------------------------
(* What buildPeriodSlots builds.                                           *)

\* One turn of its loop, and the recursion that its fold is.
AddPeriod(t, n, slots, i) ==
    LET minutes == t.end - t.start - t.lunch
        cursor == IF slots = << >> THEN t.start ELSE Last(slots).end
        lunch == IF t.lunch > 0 /\ i = t.lunchAfter + 1
                 THEN <<Slot(Len(slots) + 1, cursor, cursor + t.lunch, TRUE)>> ELSE << >>
        from == cursor + (IF lunch = << >> THEN 0 ELSE t.lunch)
        to == IF i = n THEN t.end ELSE Round(n * from + minutes, n)
    IN  slots \o lunch \o <<Slot(Len(slots \o lunch) + 1, from, to, FALSE)>>
Builds(t, n, f, S) ==
    f = [s \in SUBSET S |->
            IF s = {} THEN << >> ELSE AddPeriod(t, n, f[s \ {Max(s)}], Max(s))]

LEMMA MaxExists ==
    ASSUME NEW S, \A n \in S : n \in Int, IsFiniteSet(S), S # {}
    PROVE  Max(S) \in S /\ \A n \in S : n <= Max(S)
<1> DEFINE T == {-n : n \in S}
<1>1. IsFiniteSet(T)
    <2> DEFINE f == [n \in S |-> -n]
    <2>1. f \in Surjection(S, T)
        BY DEF Surjection
    <2> QED
        BY <2>1, FS_Surjection
<1>2. \A n \in T : n \in Int
    OBVIOUS
<1>3. T # {}
    OBVIOUS
<1> HIDE DEF T
<1>4. Min(T) \in T /\ \A n \in T : Min(T) <= n
    BY <1>1, <1>2, <1>3, MinExists
<1>5. PICK m \in S : Min(T) = -m
    BY <1>4 DEF T
<1>6. \A n \in S : m >= n
    <2>1. \A n \in S : -n \in T
        BY DEF T
    <2> QED
        BY <1>4, <1>5, <2>1
<1>7. \A n \in S : Max(S) >= n /\ Max(S) \in S
    BY <1>6 DEF Max
<1> QED
    BY <1>7

LEMMA BuildsAgree ==
    ASSUME NEW t, NEW n, NEW S, IsFiniteSet(S), \A x \in S : x \in Int, NEW T \in SUBSET S,
           NEW f, NEW g, Builds(t, n, f, S), Builds(t, n, g, T)
    PROVE  f[T] = g[T]
<1> DEFINE C == {s \in SUBSET T : f[s] # g[s]}
<1> SUFFICES ASSUME C # {} PROVE FALSE
    OBVIOUS
<1>0. IsFiniteSet(T) /\ C \in SUBSET SUBSET T /\ C # {}
    BY FS_Subset
<1> HIDE DEF C
<1>1. PICK s \in C : \A u \in C : u \subseteq s => u = s
    BY <1>0, LeastSubset
<1> USE DEF C
<1>2. CASE s = {}
    BY <1>1, <1>2 DEF Builds
<1>3. CASE s # {}
    <2>1. Max(s) \in s
        BY <1>0, <1>1, <1>3, FS_Subset, MaxExists
    <2>2. s \ {Max(s)} \notin C
        BY <1>1, <2>1
    <2>3. f[s] = AddPeriod(t, n, f[s \ {Max(s)}], Max(s))
        BY <1>1, <1>3 DEF Builds
    <2>4. g[s] = AddPeriod(t, n, g[s \ {Max(s)}], Max(s))
        BY <1>1, <1>3 DEF Builds
    <2> QED
        BY <1>1, <2>2, <2>3, <2>4
<1> QED
    BY <1>2, <1>3

LEMMA BuildsExist ==
    ASSUME NEW t, NEW n, NEW S, IsFiniteSet(S), \A x \in S : x \in Int
    PROVE  \E f : Builds(t, n, f, S)
<1> DEFINE C == {s \in SUBSET S : ~\E f : Builds(t, n, f, s)}
<1> SUFFICES ASSUME C # {} PROVE FALSE
    OBVIOUS
<1>0. C \in SUBSET SUBSET S /\ C # {}
    OBVIOUS
<1> HIDE DEF C
<1>1. PICK T \in C : \A u \in C : u \subseteq T => u = T
    BY <1>0, LeastSubset
<1> USE DEF C
<1> DEFINE Fcn(s) == CHOOSE f : Builds(t, n, f, s)
           v(s) == Fcn(s)[s]
           f == [s \in SUBSET T |->
                    IF s = {} THEN << >> ELSE AddPeriod(t, n, v(s \ {Max(s)}), Max(s))]
<1>2. ASSUME NEW s \in SUBSET T
      PROVE  /\ IsFiniteSet(s) /\ \A x \in s : x \in Int
             /\ s # T => Builds(t, n, Fcn(s), s)
             /\ s # {} => Max(s) \in s
    <2>1. s # T => \E g : Builds(t, n, g, s)
        BY <1>1, <1>2
    <2>2. IsFiniteSet(s) /\ \A x \in s : x \in Int
        BY <1>1, FS_Subset
    <2>3. s # {} => Max(s) \in s
        BY <2>2, MaxExists
    <2> QED
        BY <2>1, <2>2, <2>3
<1>3. ASSUME NEW s \in SUBSET T, s # T PROVE f[s] = v(s)
    <2> DEFINE g == Fcn(s)
    <2>1. Builds(t, n, g, s)
        BY <1>2, <1>3
    <2> HIDE DEF g
    <2>2. g[s] = IF s = {} THEN << >> ELSE AddPeriod(t, n, g[s \ {Max(s)}], Max(s))
        BY <2>1 DEF Builds
    <2>3. CASE s # {}
        <3>1. Max(s) \in s
            BY <1>2, <2>3
        <3>2. s \ {Max(s)} \in SUBSET T /\ s \ {Max(s)} # T
            BY <1>3, <3>1
        <3>3. Builds(t, n, Fcn(s \ {Max(s)}), s \ {Max(s)})
            BY <1>2, <3>2
        <3>4. g[s \ {Max(s)}] = v(s \ {Max(s)})
            BY <1>2, <2>1, <3>2, <3>3, BuildsAgree
        <3> QED
            BY <2>2, <2>3, <3>4 DEF g
    <2> QED
        BY <2>2, <2>3 DEF g
<1>4. Builds(t, n, f, T)
    <2>1. ASSUME NEW s \in SUBSET T, s # {} PROVE v(s \ {Max(s)}) = f[s \ {Max(s)}]
        <3>1. Max(s) \in s
            BY <1>2, <2>1
        <3> QED
            BY <1>3, <3>1
    <2> HIDE DEF v
    <2>2. f = [s \in SUBSET T |->
                  IF s = {} THEN << >> ELSE AddPeriod(t, n, f[s \ {Max(s)}], Max(s))]
        BY <2>1
    <2> QED
        BY <2>2 DEF Builds
<1> QED
    BY <1>1, <1>4

\* The fold of buildPeriodSlots.
LEMMA FoldBuilds ==
    ASSUME NEW t, NEW n \in Nat
    PROVE  \E f : Builds(t, n, f, 1..n) /\ buildPeriodSlots(t, n) = f[1..n]
<1> DEFINE seq == [i \in 1..n |-> i]
           Folds(f) == f = [s \in SUBSET DOMAIN seq |->
                               IF s = {} THEN << >>
                               ELSE AddPeriod(t, n, f[s \ {Max(s)}], seq[Max(s)])]
<1>1. buildPeriodSlots(t, n) = (CHOOSE f : Folds(f))[DOMAIN seq]
    BY DEF buildPeriodSlots, FoldLeft, MapThenFoldSet, AddPeriod
<1>2. DOMAIN seq = 1..n /\ IsFiniteSet(1..n) /\ \A x \in 1..n : x \in Int
    BY FS_Interval
<1>3. \A s \in SUBSET (1..n) : s # {} => seq[Max(s)] = Max(s)
    <2> SUFFICES ASSUME NEW s \in SUBSET (1..n), s # {} PROVE seq[Max(s)] = Max(s)
        OBVIOUS
    <2>1. IsFiniteSet(s) /\ \A x \in s : x \in Int
        BY <1>2, FS_Subset
    <2>2. Max(s) \in s
        BY <2>1, MaxExists
    <2> QED
        BY <2>2
<1> HIDE DEF seq
<1>4. ASSUME NEW f PROVE Folds(f) <=> Builds(t, n, f, 1..n)
    <2>1. [s \in SUBSET DOMAIN seq |->
              IF s = {} THEN << >> ELSE AddPeriod(t, n, f[s \ {Max(s)}], seq[Max(s)])]
            = [s \in SUBSET (1..n) |->
                  IF s = {} THEN << >> ELSE AddPeriod(t, n, f[s \ {Max(s)}], Max(s))]
        BY <1>2, <1>3
    <2> QED
        BY <2>1 DEF Builds
<1>5. \E f : Folds(f)
    BY <1>2, <1>4, BuildsExist
<1>6. Folds(CHOOSE f : Folds(f))
    BY <1>5
<1> HIDE DEF Folds
<1> QED
    BY <1>1, <1>2, <1>4, <1>6

\* The length of a period, and what is built in k turns of n.
Share(t, n) == Round(t.end - t.start - t.lunch, n)
SlotRow == [plan : {None}, period : Nat, start : Nat, end : Nat, break : BOOLEAN]
Fills(t, n, q, k) ==
    /\ q \in Seq(SlotRow)
    /\ Len(q) = k + (IF t.lunch > 0 /\ k > t.lunchAfter THEN 1 ELSE 0)
    /\ \A j \in 1..Len(q) :
          /\ q[j].period = j
          /\ q[j].break <=> t.lunch > 0 /\ j = t.lunchAfter + 1
          /\ q[j].start = IF j = 1 THEN t.start ELSE q[j - 1].end
          /\ q[j].end = IF q[j].break THEN q[j].start + t.lunch
                        ELSE IF k = n /\ j = Len(q) THEN t.end ELSE q[j].start + Share(t, n)

LEMMA Rounded ==
    /\ \A n \in Nat \ {0}, m \in Nat : Round(m, n) \in Nat
    /\ \A n \in Nat \ {0}, m, from \in Nat : Round(n * from + m, n) = from + Round(m, n)
<1>1. \A m \in Nat, n \in Nat \ {0} : ((2 * m + n) \div (2 * n)) \in Nat
    OBVIOUS
<1>2. \A from, m \in Nat, n \in Nat \ {0} :
          (2 * (n * from + m) + n) \div (2 * n) = from + ((2 * m + n) \div (2 * n))
    OBVIOUS
<1> QED
    BY <1>1, <1>2 DEF Round

LEMMA OneMore ==
    ASSUME NEW S, NEW q \in Seq(S), NEW a \in S
    PROVE  /\ q \o <<a>> \in Seq(S) /\ Len(q \o <<a>>) = Len(q) + 1
           /\ \A j \in 1..Len(q) : (q \o <<a>>)[j] = q[j]
           /\ (q \o <<a>>)[Len(q) + 1] = a
    OBVIOUS

LEMMA AddFills ==
    ASSUME NEW t \in Timing, NEW n \in Nat \ {0}, t.lunchAfter < n,
           t.end - t.start - t.lunch > 0, NEW k \in 1..n, NEW q, Fills(t, n, q, k - 1)
    PROVE  Fills(t, n, AddPeriod(t, n, q, k), k)
<1> DEFINE share == Share(t, n)
           cursor == IF q = << >> THEN t.start ELSE Last(q).end
           rest == t.lunch > 0 /\ k = t.lunchAfter + 1
           from == cursor + (IF rest THEN t.lunch ELSE 0)
           to == IF k = n THEN t.end ELSE from + share
           b == Slot(Len(q) + 1, cursor, cursor + t.lunch, TRUE)
           p == IF rest THEN q \o <<b>> ELSE q
           s == Slot(Len(p) + 1, from, to, FALSE)
<1>1. /\ t.start \in Nat /\ t.end \in Nat /\ t.lunch \in Nat /\ t.lunchAfter \in Nat
      /\ k \in Nat /\ n \in Nat
    BY DEF Timing
<1>0. PICK m \in Nat : m = t.end - t.start - t.lunch
    BY <1>1
<1>2. share = Round(m, n) /\ share \in Nat
    BY <1>0, <1>1, Rounded DEF Share
<1>3. q \in Seq(SlotRow) /\ Len(q) \in Nat
    BY DEF Fills
<1>4. cursor = IF Len(q) = 0 THEN t.start ELSE q[Len(q)].end
    BY <1>3 DEF Last
<1>5. cursor \in Nat
    <2>1. Len(q) # 0 => q[Len(q)] \in SlotRow
        BY <1>3
    <2> QED
        BY <1>1, <1>4, <2>1 DEF SlotRow
<1> HIDE DEF cursor, share
<1>6. from \in Nat /\ to \in Nat
    BY <1>1, <1>2, <1>5
<1>7. b \in SlotRow
    BY <1>1, <1>3, <1>5 DEF Slot, SlotRow
<1>8. /\ p \in Seq(SlotRow) /\ Len(p) = Len(q) + (IF rest THEN 1 ELSE 0)
      /\ \A j \in 1..Len(q) : p[j] = q[j]
      /\ rest => p[Len(q) + 1] = b
    <2> HIDE DEF b
    <2> QED
        BY <1>3, <1>7, OneMore
<1>9. AddPeriod(t, n, q, k) = p \o <<s>>
    <2>1. k # n => Round(n * from + (t.end - t.start - t.lunch), n) = from + share
        <3>1. Round(n * from + m, n) = from + Round(m, n)
            <4> HIDE DEF from
            <4> QED
                BY <1>0, <1>1, <1>6, Rounded
        <3> QED
            BY <1>0, <1>2, <3>1
    <2>2. CASE rest
        <3>1. AddPeriod(t, n, q, k) =
                LET lunch == <<b>>
                    fr == cursor + (IF lunch = << >> THEN 0 ELSE t.lunch)
                    end == IF k = n THEN t.end
                           ELSE Round(n * fr + (t.end - t.start - t.lunch), n)
                IN  q \o lunch \o <<Slot(Len(q \o lunch) + 1, fr, end, FALSE)>>
            BY <2>2 DEF AddPeriod, cursor
        <3>2. <<b>> # << >>
            OBVIOUS
        <3> QED
            BY <2>1, <2>2, <3>1, <3>2
    <2>3. CASE ~rest
        <3>1. AddPeriod(t, n, q, k) =
                LET fr == cursor + 0
                    end == IF k = n THEN t.end
                           ELSE Round(n * fr + (t.end - t.start - t.lunch), n)
                IN  q \o << >> \o <<Slot(Len(q \o << >>) + 1, fr, end, FALSE)>>
            BY <2>3 DEF AddPeriod, cursor
        <3>2. q \o << >> = q
            BY <1>3
        <3> QED
            BY <2>1, <2>3, <3>1, <3>2
    <2> QED
        BY <2>2, <2>3
<1> HIDE DEF p
<1>10. s \in SlotRow /\ Len(p) \in Nat
    BY <1>6, <1>8 DEF Slot, SlotRow
<1> DEFINE new == p \o <<s>>
<1>11. /\ new \in Seq(SlotRow) /\ Len(new) = Len(p) + 1
       /\ \A j \in 1..Len(p) : new[j] = p[j]
       /\ new[Len(p) + 1] = s
    <2> HIDE DEF s
    <2> QED
        BY <1>8, <1>10, OneMore
<1> HIDE DEF new, b, s
<1>12. Len(q) = (k - 1) + (IF t.lunch > 0 /\ k - 1 > t.lunchAfter THEN 1 ELSE 0)
    BY DEF Fills
<1>13. Len(new) = k + (IF t.lunch > 0 /\ k > t.lunchAfter THEN 1 ELSE 0)
    BY <1>1, <1>8, <1>11, <1>12
<1>14. ASSUME NEW j \in 1..Len(new)
       PROVE  /\ new[j].period = j
              /\ new[j].break <=> t.lunch > 0 /\ j = t.lunchAfter + 1
              /\ new[j].start = IF j = 1 THEN t.start ELSE new[j - 1].end
              /\ new[j].end = IF new[j].break THEN new[j].start + t.lunch
                              ELSE IF k = n /\ j = Len(new) THEN t.end ELSE new[j].start + share
    <2>1. CASE j \in 1..Len(q)
        <3>0. /\ j \in 1..Len(p) /\ j < Len(new)
              /\ j # 1 => j - 1 \in 1..Len(q) /\ j - 1 \in 1..Len(p)
            BY <1>3, <1>8, <1>10, <1>11, <2>1
        <3>1. new[j] = q[j] /\ (j # 1 => new[j - 1] = q[j - 1]) /\ j # Len(new)
            BY <1>8, <1>11, <2>1, <3>0
        <3>2. /\ q[j].period = j
              /\ q[j].break <=> t.lunch > 0 /\ j = t.lunchAfter + 1
              /\ q[j].start = IF j = 1 THEN t.start ELSE q[j - 1].end
              /\ q[j].end = IF q[j].break THEN q[j].start + t.lunch ELSE q[j].start + share
            <4>1. /\ q[j].period = j
                  /\ q[j].break <=> t.lunch > 0 /\ j = t.lunchAfter + 1
                  /\ q[j].start = IF j = 1 THEN t.start ELSE q[j - 1].end
                  /\ q[j].end = IF q[j].break THEN q[j].start + t.lunch
                                ELSE IF k - 1 = n /\ j = Len(q) THEN t.end
                                     ELSE q[j].start + share
                BY <2>1 DEF Fills, share
            <4>2. k - 1 # n
                BY <1>1
            <4> QED
                BY <4>1, <4>2
        <3> QED
            BY <3>1, <3>2
    <2>2. CASE rest /\ j = Len(q) + 1
        <3>0. /\ j \in 1..Len(p) /\ j = Len(q) + 1
              /\ j # 1 => j - 1 = Len(q) /\ Len(q) \in 1..Len(q) /\ Len(q) \in 1..Len(p)
            BY <1>3, <1>8, <2>2
        <3>1. new[j] = b /\ (j # 1 => new[j - 1] = q[Len(q)])
            BY <1>8, <1>11, <2>2, <3>0
        <3>2. Len(q) = t.lunchAfter
            BY <1>1, <1>12, <2>2
        <3> QED
            BY <1>1, <1>3, <1>4, <2>2, <3>1, <3>2 DEF Slot, b
    <2>3. CASE j = Len(p) + 1
        <3>1. new[j] = s /\ j = Len(new)
            BY <1>11, <2>3
        <3>2. ~(t.lunch > 0 /\ j = t.lunchAfter + 1)
            BY <1>1, <1>3, <1>8, <1>12, <2>3
        <3>3. from = IF j = 1 THEN t.start ELSE new[j - 1].end
            <4>1. CASE rest
                <5>1. new[j - 1] = b /\ j # 1
                    BY <1>3, <1>8, <1>10, <1>11, <2>3, <4>1
                <5> QED
                    BY <4>1, <5>1 DEF Slot, b
            <4>2. CASE ~rest
                <5>1. j # 1 => new[j - 1] = q[Len(q)]
                    BY <1>3, <1>8, <1>10, <1>11, <2>3, <4>2
                <5> QED
                    BY <1>3, <1>4, <1>5, <1>8, <2>3, <4>2, <5>1
            <4> QED
                BY <4>1, <4>2
        <3> HIDE DEF from
        <3> QED
            BY <2>3, <3>1, <3>2, <3>3 DEF Slot, s
    <2> QED
        BY <1>3, <1>8, <1>11, <2>1, <2>2, <2>3
<1>15. Fills(t, n, new, k)
    BY <1>11, <1>13, <1>14 DEF Fills, share
<1> QED
    BY <1>9, <1>15 DEF new

\* buildPeriodSlots, and its periods in order: induction taken as a least counterexample.
LEMMA SlotsFill ==
    ASSUME NEW t \in Timing, NEW n \in Nat \ {0}, t.lunchAfter < n,
           t.end - t.start - t.lunch > 0
    PROVE  Fills(t, n, buildPeriodSlots(t, n), n)
<1>1. PICK f : Builds(t, n, f, 1..n) /\ buildPeriodSlots(t, n) = f[1..n]
    BY FoldBuilds
<1> DEFINE C == {k \in 0..n : ~Fills(t, n, f[1..k], k)}
<1> SUFFICES ASSUME C # {} PROVE FALSE
    BY <1>1
<1>2. IsFiniteSet(C) /\ \A k \in C : k \in Int
    <2>1. C \subseteq 0..n /\ IsFiniteSet(0..n)
        BY FS_Interval
    <2> QED
        BY <2>1, FS_Subset
<1> HIDE DEF C
<1>3. Min(C) \in C /\ \A k \in C : Min(C) <= k
    BY <1>2, MinExists
<1>4. PICK m \in C : m = Min(C)
    BY <1>3
<1>5. m \in 0..n /\ ~Fills(t, n, f[1..m], m)
    BY <1>4 DEF C
<1>6. CASE m = 0
    <2>1. f[1..m] = << >>
        BY <1>1, <1>6 DEF Builds
    <2>2. Fills(t, n, << >>, 0)
        BY DEF Fills, Timing
    <2> QED
        BY <1>5, <1>6, <2>1, <2>2
<1>7. CASE m # 0
    <2>1. m \in 1..n /\ m - 1 \in 0..n /\ m - 1 < m
        BY <1>5, <1>7
    <2>2. Fills(t, n, f[1..(m - 1)], m - 1)
        <3>1. m - 1 \notin C
            BY <1>3, <1>4, <2>1
        <3> QED
            BY <2>1, <3>1 DEF C
    <2>3. /\ 1..m \in SUBSET (1..n) /\ 1..m # {} /\ m \in 1..m
          /\ IsFiniteSet(1..m) /\ \A x \in 1..m : x \in Int
        <3>1. IsFiniteSet(1..m)
            BY <2>1, FS_Interval
        <3>2. 1..m \in SUBSET (1..n) /\ m \in 1..m /\ \A x \in 1..m : x \in Int
            BY <2>1
        <3> QED
            BY <3>1, <3>2
    <2>4. Max(1..m) = m
        <3>1. Max(1..m) \in 1..m /\ m <= Max(1..m)
            BY <2>1, <2>3, MaxExists
        <3> QED
            BY <2>1, <3>1
    <2>5. (1..m) \ {m} = 1..(m - 1)
        BY <2>1
    <2>6. f[1..m] = AddPeriod(t, n, f[1..(m - 1)], m)
        BY <1>1, <2>3, <2>4, <2>5 DEF Builds
    <2> QED
        BY <1>5, <2>1, <2>2, <2>6, AddFills
<1> QED
    BY <1>6, <1>7

LEMMA FillsInOrder ==
    ASSUME NEW t \in Timing, NEW n \in Nat \ {0}, t.end - t.start - t.lunch > 0,
           NEW q, Fills(t, n, q, n)
    PROVE  \A i, j \in 1..Len(q) : i < j => q[i].end <= q[j].start
<1> DEFINE C == {j \in 1..Len(q) : \E i \in 1..Len(q) : i < j /\ ~(q[i].end <= q[j].start)}
<1> SUFFICES ASSUME C # {} PROVE FALSE
    OBVIOUS
<1>1. q \in Seq(SlotRow) /\ Len(q) \in Nat
    BY DEF Fills
<1>2. IsFiniteSet(C) /\ \A k \in C : k \in Int
    <2>1. C \subseteq 1..Len(q) /\ IsFiniteSet(1..Len(q))
        BY <1>1, FS_Interval
    <2> QED
        BY <2>1, FS_Subset
<1> HIDE DEF C
<1>3. Min(C) \in C /\ \A k \in C : Min(C) <= k
    BY <1>2, MinExists
<1>4. PICK j \in C : j = Min(C)
    BY <1>3
<1>5. PICK i \in 1..Len(q) : j \in 1..Len(q) /\ i < j /\ ~(q[i].end <= q[j].start)
    BY <1>4 DEF C
<1>6. q[j].start = q[j - 1].end
    <2>1. j # 1
        BY <1>1, <1>5
    <2>2. q[j].start = IF j = 1 THEN t.start ELSE q[j - 1].end
        BY <1>5 DEF Fills
    <2> QED
        BY <2>1, <2>2
<1>7. i < j - 1 /\ j - 1 \in 1..Len(q) /\ j - 1 # Len(q)
    <2>1. i # j - 1
        <3>1. q[i] \in SlotRow
            BY <1>1, <1>5
        <3> QED
            BY <1>5, <1>6, <3>1 DEF SlotRow
    <2> QED
        BY <1>1, <1>5, <2>1
<1>8. q[i].end <= q[j - 1].start
    <2>1. j - 1 \notin C
        BY <1>2, <1>3, <1>4, <1>7
    <2> QED
        BY <1>5, <1>7, <2>1 DEF C
<1>9. q[j - 1].end = q[j - 1].start + (IF q[j - 1].break THEN t.lunch ELSE Share(t, n))
    BY <1>7 DEF Fills
<1>10. q[i] \in SlotRow /\ q[j - 1] \in SlotRow
    BY <1>1, <1>5, <1>7
<1>11. t.lunch \in Nat /\ Share(t, n) \in Nat
    <2>1. PICK m \in Nat : m = t.end - t.start - t.lunch
        BY DEF Timing
    <2> QED
        BY <2>1, Rounded DEF Share, Timing
<1>12. q[j - 1].start <= q[j - 1].end
    <2>1. PICK x \in Nat : x = IF q[j - 1].break THEN t.lunch ELSE Share(t, n)
        BY <1>11
    <2> QED
        BY <1>9, <1>10, <2>1 DEF SlotRow
<1> QED
    BY <1>5, <1>6, <1>8, <1>10, <1>12 DEF SlotRow

\* The periods that autoGenerate makes, as a set.
LEMMA SlotFacts ==
    ASSUME NEW m, Accepted(m)
    PROVE  \E q \in Seq(SlotRow) :
              /\ Fills(m.timing, Len(m.mapping), q, Len(m.mapping))
              /\ SlotsFor(m) = {q[j] : j \in 1..Len(q)} /\ Len(q) > 0
              /\ \A i, j \in 1..Len(q) : i < j => q[i].end <= q[j].start
<1> DEFINE t == m.timing
           n == Len(m.mapping)
           q == buildPeriodSlots(t, n)
<1>1. t \in Timing /\ n \in Nat \ {0} /\ t.lunchAfter < n /\ t.end - t.start - t.lunch > 0
    <2>1. m.mapping \in Seq(Teachers) /\ m.mapping # << >>
        BY LessonsAssumption DEF Accepted
    <2>2. n \in Nat \ {0}
        BY <2>1
    <2> QED
        BY <2>2, LessonsAssumption DEF Accepted
<1> HIDE DEF t, n
<1>2. Fills(t, n, q, n)
    BY <1>1, SlotsFill
<1>3. q \in Seq(SlotRow)
    BY <1>2 DEF Fills
<1>4. SlotsFor(m) = {q[j] : j \in 1..Len(q)}
    <2>1. DOMAIN q = 1..Len(q)
        BY <1>3
    <2> QED
        BY <2>1 DEF SlotsFor, ToSet, t, n
<1> HIDE DEF q
<1>5. Len(q) > 0
    <2>1. Len(q) = n + (IF t.lunch > 0 /\ n > t.lunchAfter THEN 1 ELSE 0)
        BY <1>2 DEF Fills
    <2> QED
        BY <1>1, <2>1
<1>6. \A i, j \in 1..Len(q) : i < j => q[i].end <= q[j].start
    BY <1>1, <1>2, FillsInOrder
<1> QED
    BY <1>2, <1>3, <1>4, <1>5, <1>6 DEF t, n

LEMMA SlotSet ==
    ASSUME NEW m, Accepted(m)
    PROVE  /\ SlotsFor(m) \subseteq SlotRow /\ SlotsFor(m) # {} /\ IsFiniteSet(SlotsFor(m))
           /\ SlotsFor(m) \subseteq HandTime
           /\ \A x, y \in SlotsFor(m) : x # y =>
                 /\ x.period # y.period
                 /\ x.end <= y.start \/ y.end <= x.start
<1>1. PICK q \in Seq(SlotRow) :
              /\ Fills(m.timing, Len(m.mapping), q, Len(m.mapping))
              /\ SlotsFor(m) = {q[j] : j \in 1..Len(q)} /\ Len(q) > 0
              /\ \A i, j \in 1..Len(q) : i < j => q[i].end <= q[j].start
    BY SlotFacts
<1>2. Len(q) \in Nat /\ \A j \in 1..Len(q) : q[j] \in SlotRow /\ q[j].period = j
    <2>1. \A j \in 1..Len(q) : q[j].period = j
        BY <1>1 DEF Fills
    <2> QED
        BY <2>1
<1>3. SlotsFor(m) \subseteq SlotRow
    BY <1>1, <1>2
<1>4. SlotsFor(m) # {}
    <2>1. 1 \in 1..Len(q)
        BY <1>1, <1>2
    <2> QED
        BY <1>1, <2>1
<1>5. IsFiniteSet(SlotsFor(m))
    <2> DEFINE f == [j \in 1..Len(q) |-> q[j]]
    <2>1. f \in Surjection(1..Len(q), SlotsFor(m))
        BY <1>1 DEF Surjection
    <2>2. IsFiniteSet(1..Len(q))
        BY <1>2, FS_Interval
    <2> QED
        BY <2>1, <2>2, FS_Surjection
<1>6. SlotRow \subseteq HandTime
    BY DEF SlotRow, HandTime
<1>7. ASSUME NEW x \in SlotsFor(m), NEW y \in SlotsFor(m), x # y
      PROVE  x.period # y.period /\ (x.end <= y.start \/ y.end <= x.start)
    <2>1. PICK i \in 1..Len(q) : x = q[i]
        BY <1>1
    <2>2. PICK j \in 1..Len(q) : y = q[j]
        BY <1>1
    <2>3. i # j /\ i \in Int /\ j \in Int
        BY <1>7, <2>1, <2>2
    <2> QED
        BY <1>1, <1>2, <2>1, <2>2, <2>3
<1> QED
    BY <1>3, <1>4, <1>5, <1>6, <1>7

\* What DayIsFilled says of the rows of a timetable.
FilledDay(rows, t, n) ==
    LET share == Round(t.end - t.start - t.lunch, n)
        teaching == {x \in rows : ~x.break}
    IN  /\ Cardinality(teaching) = n /\ (rows # teaching <=> t.lunch > 0)
        /\ {x.period : x \in rows} = 1..Cardinality(rows)
        /\ \A x \in rows :
              /\ x.start = IF x.period = 1 THEN t.start
                           ELSE (CHOOSE y \in rows : y.period = x.period - 1).end
              /\ IF x.break THEN x.end = x.start + t.lunch /\ x.period = t.lunchAfter + 1
                 ELSE x.end = IF x.period = Cardinality(rows) THEN t.end
                              ELSE x.start + share

LEMMA SlotsFillDay ==
    ASSUME NEW m, Accepted(m), NEW p
    PROVE  FilledDay(On(p, SlotsFor(m)), m.timing, Len(m.mapping))
<1> DEFINE t == m.timing
           n == Len(m.mapping)
           R == On(p, SlotsFor(m))
<1>1. PICK q \in Seq(SlotRow) :
              /\ Fills(t, n, q, n)
              /\ SlotsFor(m) = {q[j] : j \in 1..Len(q)} /\ Len(q) > 0
    BY SlotFacts
<1>2. /\ t.lunchAfter \in Nat /\ t.lunch \in Nat /\ n \in Nat /\ t.lunchAfter < n
      /\ Len(q) \in Nat
    BY <1>1, LessonsAssumption DEF Accepted, Timing
<1> HIDE DEF t, n
<1>3. Len(q) = n + (IF t.lunch > 0 THEN 1 ELSE 0)
    BY <1>1, <1>2 DEF Fills
<1>4. \A j \in 1..Len(q) :
          /\ q[j] \in SlotRow /\ q[j].period = j
          /\ q[j].break <=> t.lunch > 0 /\ j = t.lunchAfter + 1
          /\ q[j].start = IF j = 1 THEN t.start ELSE q[j - 1].end
          /\ q[j].end = IF q[j].break THEN q[j].start + t.lunch
                        ELSE IF j = Len(q) THEN t.end ELSE q[j].start + Share(t, n)
    BY <1>1 DEF Fills
<1> DEFINE g == [j \in 1..Len(q) |-> [q[j] EXCEPT !.plan = p]]
<1>5. R = {g[j] : j \in 1..Len(q)}
    BY <1>1 DEF On
<1>6. \A j \in 1..Len(q) : /\ g[j].period = q[j].period /\ g[j].start = q[j].start
                           /\ g[j].end = q[j].end /\ g[j].break = q[j].break
    <2> SUFFICES ASSUME NEW j \in 1..Len(q)
                 PROVE  /\ g[j].period = q[j].period /\ g[j].start = q[j].start
                        /\ g[j].end = q[j].end /\ g[j].break = q[j].break
        OBVIOUS
    <2>1. q[j] \in SlotRow
        OBVIOUS
    <2>2. g[j] = [q[j] EXCEPT !.plan = p]
        OBVIOUS
    <2> QED
        BY <2>1, <2>2 DEF SlotRow
<1> HIDE DEF g, R
<1>7. DOMAIN g = 1..Len(q) /\ g = [j \in 1..Len(q) |-> g[j]]
    BY DEF g
<1>8. Cardinality(R) = Len(q) /\ IsFiniteSet(R)
    <2>1. \A i, j \in 1..Len(q) : g[i] = g[j] => i = j
        <3>1. \A j \in 1..Len(q) : g[j].period = j
            BY <1>4, <1>6
        <3> QED
            BY <3>1
    <2>2. ExistsBijection(1..Len(q), R)
        <3>1. g \in [1..Len(q) -> R]
            BY <1>5, <1>7
        <3>2. g \in Bijection(1..Len(q), R)
            BY <1>5, <2>1, <3>1 DEF Bijection, Injection, IsInjective, Surjection
        <3> QED
            BY <3>2 DEF ExistsBijection
    <2>3. IsFiniteSet(1..Len(q)) /\ Cardinality(1..Len(q)) = Len(q)
        BY <1>1, <1>2, FS_Interval
    <2> QED
        BY <2>2, <2>3, FS_Bijection
<1> DEFINE teaching == {x \in R : ~x.break}
<1>9. Cardinality(teaching) = n /\ (R # teaching <=> t.lunch > 0)
    <2>1. CASE t.lunch > 0
        <3> DEFINE b == g[t.lunchAfter + 1]
        <3>1. t.lunchAfter + 1 \in 1..Len(q)
            BY <1>2, <1>3, <2>1
        <3>2. b \in R /\ b.break
            BY <1>4, <1>5, <1>6, <2>1, <3>1
        <3>3. \A x \in R : x.break => x = b
            BY <1>4, <1>5, <1>6
        <3> HIDE DEF b
        <3>4. teaching = R \ {b}
            BY <3>2, <3>3
        <3>5. Cardinality(R \ {b}) = Cardinality(R) - 1
            BY <1>8, <3>2, FS_RemoveElement
        <3> HIDE DEF teaching
        <3>6. Cardinality(teaching) = n
            BY <1>2, <1>3, <1>8, <2>1, <3>4, <3>5
        <3>7. R # teaching
            BY <3>2, <3>4
        <3> QED
            BY <2>1, <3>6, <3>7
    <2>2. CASE ~(t.lunch > 0)
        <3>1. \A x \in R : ~x.break
            BY <1>4, <1>5, <1>6, <2>2
        <3>2. teaching = R
            BY <3>1
        <3> HIDE DEF teaching
        <3>3. Cardinality(teaching) = n
            BY <1>2, <1>3, <1>8, <2>2, <3>2
        <3> QED
            BY <2>2, <3>2, <3>3
    <2> QED
        BY <2>1, <2>2
<1>10. {x.period : x \in R} = 1..Cardinality(R)
    <2>1. \A j \in 1..Len(q) : g[j] \in R /\ g[j].period = j
        BY <1>4, <1>5, <1>6
    <2>2. \A x \in R : x.period \in 1..Len(q)
        BY <1>5, <2>1
    <2>3. 1..Len(q) \subseteq {x.period : x \in R}
        BY <2>1
    <2>4. {x.period : x \in R} \subseteq 1..Len(q)
        BY <2>2
    <2> QED
        BY <1>8, <2>3, <2>4
<1>11. ASSUME NEW x \in R
       PROVE  /\ x.start = IF x.period = 1 THEN t.start
                           ELSE (CHOOSE y \in R : y.period = x.period - 1).end
              /\ IF x.break THEN x.end = x.start + t.lunch /\ x.period = t.lunchAfter + 1
                 ELSE x.end = IF x.period = Cardinality(R) THEN t.end
                              ELSE x.start + Share(t, n)
    <2>1. PICK j \in 1..Len(q) : x = g[j]
        BY <1>5
    <2>2. /\ x.period = j /\ x.start = q[j].start /\ x.end = q[j].end
          /\ x.break = q[j].break
        BY <1>4, <1>6, <2>1
    <2>3. j # 1 => (CHOOSE y \in R : y.period = j - 1).end = q[j - 1].end
        <3> SUFFICES ASSUME j # 1 PROVE (CHOOSE y \in R : y.period = j - 1).end = q[j - 1].end
            OBVIOUS
        <3>1. j - 1 \in 1..Len(q)
            BY <1>2
        <3>2. g[j - 1] \in R /\ g[j - 1].period = j - 1
            BY <1>4, <1>5, <1>6, <3>1
        <3>3. \A y \in R : y.period = j - 1 => y = g[j - 1]
            BY <1>4, <1>5, <1>6
        <3>4. (CHOOSE y \in R : y.period = j - 1) = g[j - 1]
            BY <3>2, <3>3
        <3> QED
            BY <1>6, <3>1, <3>4
    <2>4. x.start = IF x.period = 1 THEN t.start
                    ELSE (CHOOSE y \in R : y.period = x.period - 1).end
        BY <1>4, <2>2, <2>3
    <2>5. IF x.break THEN x.end = x.start + t.lunch /\ x.period = t.lunchAfter + 1
          ELSE x.end = IF x.period = Cardinality(R) THEN t.end ELSE x.start + Share(t, n)
        BY <1>4, <1>8, <2>2
    <2> QED
        BY <2>4, <2>5
<1> HIDE DEF teaching
<1>12. FilledDay(R, t, n)
    <2> HIDE DEF FilledDay
    <2> USE DEF FilledDay, teaching, Share
    <2> QED
        BY <1>9, <1>10, <1>11
<1> QED
    BY <1>12 DEF R, t, n

\* Whoever is given a period is not seen in another place in it, and all that is written is
\* typed.
LEMMA EntriesSuit ==
    ASSUME NEW m, Accepted(m), m.beside \subseteq plan,
           NEW e \in Entries(buildPeriodSlots(m.timing, Len(m.mapping)), m.mapping)
    PROVE  e \in HandEntry /\ Suits(e, m)
<1> DEFINE q == buildPeriodSlots(m.timing, Len(m.mapping))
           n == Len(m.mapping)
           teaching == {s \in ToSet(q) : ~s.break}
           slotIndex(s) == Cardinality({x \in teaching : x.period < s.period})
           Given(d, s) == [plan |-> None, day |-> d, period |-> s.period,
                           teacher |-> m.mapping[((d + slotIndex(s)) % n) + 1]]
           Clash(g, s) == \E x \in Busy : /\ x[1].teacher = g.teacher /\ x[1].day = g.day
                                          /\ Overlap(s, x[2])
<1>1. PICK d \in Days, s \in teaching : e = Given(d, s) /\ ~Clash(e, s)
    BY DEF Entries
<1>2. ToSet(q) = SlotsFor(m)
    BY DEF SlotsFor
<1>3. s \in SlotsFor(m) /\ teaching \subseteq SlotsFor(m)
    BY <1>1, <1>2
<1> HIDE DEF q
<1>4. e \in HandEntry
    <2>1. s.period \in Nat
        BY <1>3, SlotSet DEF SlotRow
    <2>2. IsFiniteSet({x \in teaching : x.period < s.period})
        BY <1>3, SlotSet, FS_Subset
    <2>3. slotIndex(s) \in Nat
        BY <2>2, FS_CardinalityType
    <2> HIDE DEF slotIndex
    <2>4. m.mapping \in Seq(Teachers) /\ n \in Nat \ {0} /\ d \in Nat
        BY <1>1, LessonsAssumption DEF Accepted
    <2>5. PICK k \in Nat : k = d + slotIndex(s)
        BY <2>3, <2>4
    <2>6. (k % n) + 1 \in 1..n
        BY <2>4, <2>5
    <2>7. m.mapping[(k % n) + 1] \in Teachers
        BY <2>4, <2>6
    <2> QED
        BY <1>1, <2>1, <2>5, <2>7 DEF HandEntry
<1>5. ASSUME NEW u \in SlotsFor(m), NEW w \in m.beside,
             NEW f \in EntriesOf(w), NEW x \in TimesOf(w),
             u.period = e.period, f.period = x.period, f.teacher = e.teacher, f.day = e.day
      PROVE  ~Overlap(u, x)
    <2>1. e.period = s.period
        BY <1>1
    <2>2. u = s
        BY <1>3, <1>5, <2>1, SlotSet
    <2>3. <<f, x>> \in Busy
        BY <1>5 DEF Busy, EntriesOf, TimesOf
    <2> QED
        BY <1>1, <1>5, <2>2, <2>3
<1> QED
    BY <1>4, <1>5 DEF Suits

-----------------------------------------------------------------------------
(* What a request has left to do.                                          *)

LEMMA AfterHead ==
    ASSUME NEW q \in Seq(LessonSteps), q # << >>
    PROVE  /\ Tail(q) \in Seq(LessonSteps) /\ Len(Tail(q)) = Len(q) - 1
           /\ \A i \in DOMAIN Tail(q) : i + 1 \in DOMAIN q /\ Tail(q)[i] = q[i + 1]
           /\ ToSet(Tail(q)) \subseteq ToSet(q)
           /\ Len(q) = 1 => Tail(q) = << >>
           /\ Head(q) \in ToSet(q)
           /\ Head(q) = q[1] /\ Len(q) \in Nat \ {0}
<1>1. /\ Tail(q) \in Seq(LessonSteps) /\ Len(Tail(q)) = Len(q) - 1
      /\ \A i \in DOMAIN Tail(q) : i + 1 \in DOMAIN q /\ Tail(q)[i] = q[i + 1]
    OBVIOUS
<1>2. ToSet(Tail(q)) \subseteq ToSet(q)
    BY <1>1 DEF ToSet
<1>3. Head(q) = q[1] /\ 1 \in DOMAIN q
    OBVIOUS
<1>4. Len(q) = 1 => Tail(q) = << >>
    BY <1>1
<1> QED
    BY <1>1, <1>2, <1>3, <1>4 DEF ToSet

LEMMA WritingShape ==
    ASSUME NEW hand, NEW rows
    PROVE  LET w == Writing(hand, rows)
           IN  /\ w \in Seq(LessonSteps) /\ w # << >>
               /\ ToSet(w) \subseteq {"row", "times", "entries"}
               /\ \A i \in DOMAIN w : w[i] \in {"busy", "row"} => i = 1
<1> DEFINE w == Writing(hand, rows)
<1> DEFINE Shape(v) == /\ v \in Seq(LessonSteps) /\ v # << >>
                       /\ ToSet(v) \subseteq {"row", "times", "entries"}
                       /\ \A i \in DOMAIN v : v[i] \in {"busy", "row"} => i = 1
<1>1. Shape(<<"row">>)
    <2>1. "row" \in LessonSteps
        BY DEF LessonSteps
    <2>2. <<"row">> \in Seq(LessonSteps) /\ <<"row">> # << >> /\ DOMAIN <<"row">> = {1}
        BY <2>1
    <2> QED
        BY <2>2 DEF ToSet
<1>2. ASSUME NEW v, Shape(v) PROVE Shape(v \o << >>)
    <2>1. v \in Seq(LessonSteps)
        BY <1>2
    <2>2. v \o << >> = v
        BY <2>1
    <2> QED
        BY <1>2, <2>2
<1>3. ASSUME NEW v, Shape(v), NEW a \in {"times", "entries"} PROVE Shape(v \o <<a>>)
    <2>1. a \in LessonSteps /\ v \in Seq(LessonSteps)
        BY <1>3 DEF LessonSteps
    <2>2. /\ v \o <<a>> \in Seq(LessonSteps) /\ Len(v \o <<a>>) = Len(v) + 1
          /\ \A j \in 1..Len(v) : (v \o <<a>>)[j] = v[j]
          /\ (v \o <<a>>)[Len(v) + 1] = a
        BY <2>1, OneMore
    <2> DEFINE u == v \o <<a>>
    <2> HIDE DEF u
    <2>3. u \in Seq(LessonSteps) /\ Len(u) = Len(v) + 1 /\ Len(v) \in Nat
        BY <2>1, <2>2 DEF u
    <2>4. ASSUME NEW i \in DOMAIN u
          PROVE  u[i] \in {"row", "times", "entries"} /\ (u[i] \in {"busy", "row"} => i = 1)
        <3>1. i \in 1..Len(v) \/ i = Len(v) + 1
            BY <2>3
        <3>2. CASE i \in 1..Len(v)
            <4>1. u[i] = v[i] /\ i \in DOMAIN v
                BY <2>1, <2>2, <3>2 DEF u
            <4>2. v[i] \in ToSet(v)
                BY <4>1 DEF ToSet
            <4> QED
                BY <1>3, <4>1, <4>2
        <3>3. CASE i = Len(v) + 1
            <4>1. u[i] = a
                BY <2>2, <3>3 DEF u
            <4> QED
                BY <1>3, <4>1
        <3> QED
            BY <3>1, <3>2, <3>3
    <2>5. u # << >>
        BY <2>3
    <2> QED
        BY <2>3, <2>4, <2>5 DEF ToSet, u
<1> HIDE DEF Shape
<1> DEFINE v == <<"row">> \o (IF hand = {} THEN << >> ELSE <<"times">>)
<1>4. Shape(v)
    BY <1>1, <1>2, <1>3
<1> HIDE DEF v
<1>5. Shape(v \o (IF rows = {} THEN << >> ELSE <<"entries">>))
    BY <1>2, <1>3, <1>4
<1> QED
    BY <1>5 DEF Shape, v, Writing

\* What UpdatePlan does about one of the two tables.
Replaces(x, clear, insert) ==
    IF x = None THEN << >> ELSE IF x = {} THEN <<clear>> ELSE <<clear, insert>>

LEMMA ReplacesShape ==
    ASSUME NEW x, NEW clear \in LessonSteps, NEW insert \in LessonSteps
    PROVE  LET w == Replaces(x, clear, insert)
           IN  /\ w \in Seq(LessonSteps)
               /\ \A s \in ToSet(w) : s = clear \/ (s = insert /\ x # None)
<1>1. CASE x = None
    <2>1. Replaces(x, clear, insert) = << >>
        BY <1>1 DEF Replaces
    <2> QED
        BY <2>1 DEF ToSet
<1>2. CASE x # None /\ x = {}
    <2>1. Replaces(x, clear, insert) = <<clear>>
        BY <1>2 DEF Replaces
    <2>2. <<clear>> \in Seq(LessonSteps) /\ DOMAIN <<clear>> = {1} /\ <<clear>>[1] = clear
        OBVIOUS
    <2> QED
        BY <2>1, <2>2 DEF ToSet
<1>3. CASE x # None /\ x # {}
    <2>1. Replaces(x, clear, insert) = <<clear, insert>>
        BY <1>3 DEF Replaces
    <2>2. /\ <<clear, insert>> \in Seq(LessonSteps) /\ DOMAIN <<clear, insert>> = 1..2
          /\ <<clear, insert>>[1] = clear /\ <<clear, insert>>[2] = insert
        OBVIOUS
    <2>3. \A i \in 1..2 : i = 1 \/ i = 2
        OBVIOUS
    <2> QED
        BY <1>3, <2>1, <2>2, <2>3 DEF ToSet
<1> QED
    BY <1>1, <1>2, <1>3

LEMMA UpdatingShape ==
    ASSUME NEW hand, NEW rows
    PROVE  LET w == Replaces(hand, "clearTimes", "times")
                    \o Replaces(rows, "clearEntries", "entries")
           IN  /\ w \in Seq(LessonSteps)
               /\ ToSet(w) \subseteq {"clearTimes", "times", "clearEntries", "entries"}
               /\ "times" \in ToSet(w) => hand # None
               /\ "entries" \in ToSet(w) => rows # None
               /\ \A i \in DOMAIN w : w[i] \notin {"busy", "row"}
<1> DEFINE a == Replaces(hand, "clearTimes", "times")
           b == Replaces(rows, "clearEntries", "entries")
<1>1. /\ a \in Seq(LessonSteps)
      /\ \A s \in ToSet(a) : s = "clearTimes" \/ (s = "times" /\ hand # None)
    BY ReplacesShape DEF LessonSteps
<1>2. /\ b \in Seq(LessonSteps)
      /\ \A s \in ToSet(b) : s = "clearEntries" \/ (s = "entries" /\ rows # None)
    BY ReplacesShape DEF LessonSteps
<1> HIDE DEF a, b
<1> DEFINE w == a \o b
<1>3. /\ w \in Seq(LessonSteps) /\ DOMAIN w = 1..(Len(a) + Len(b))
      /\ \A i \in DOMAIN w : IF i <= Len(a) THEN w[i] = a[i] ELSE w[i] = b[i - Len(a)]
    BY <1>1, <1>2
<1>4. \A i \in DOMAIN w : w[i] \in ToSet(a) \/ w[i] \in ToSet(b)
    <2> SUFFICES ASSUME NEW i \in DOMAIN w PROVE w[i] \in ToSet(a) \/ w[i] \in ToSet(b)
        OBVIOUS
    <2>1. CASE i <= Len(a)
        <3>1. i \in DOMAIN a
            BY <1>1, <1>2, <1>3, <2>1
        <3> QED
            BY <1>3, <2>1, <3>1 DEF ToSet
    <2>2. CASE ~(i <= Len(a))
        <3>1. i - Len(a) \in DOMAIN b
            BY <1>1, <1>2, <1>3, <2>2
        <3> QED
            BY <1>3, <2>2, <3>1 DEF ToSet
    <2> QED
        BY <2>1, <2>2
<1> HIDE DEF w
<1>5. ASSUME NEW i \in DOMAIN w
      PROVE  /\ w[i] \in {"clearTimes", "times", "clearEntries", "entries"}
             /\ w[i] = "times" => hand # None
             /\ w[i] = "entries" => rows # None
    BY <1>1, <1>2, <1>4
<1> QED
    BY <1>3, <1>5 DEF ToSet, w, a, b

-----------------------------------------------------------------------------
(* What a step leaves as it is.                                            *)

\* Nobody else starts to write a timetable that there is, and only who writes it changes it.
Steady ==
    /\ used \subseteq used'
    /\ \A p \in used, r \in Requests : Serves(r, p)' => Serves(r, p)
    /\ \A p \in used : (\A r \in Requests : ~Serves(r, p))
                       => TimesOf(p)' = TimesOf(p) /\ EntriesOf(p)' = EntriesOf(p)

LEMMA QuietStays ==
    ASSUME Steady, NEW S, Quiet(S)
    PROVE  /\ Quiet(S)'
           /\ \A q \in S : TimesOf(q)' = TimesOf(q) /\ EntriesOf(q)' = EntriesOf(q)
<1>1. ASSUME NEW q \in S
      PROVE  /\ q \in used' /\ \A r \in Requests : ~Serves(r, q)'
             /\ TimesOf(q)' = TimesOf(q) /\ EntriesOf(q)' = EntriesOf(q)
    BY DEF Steady, Quiet
<1> QED
    BY <1>1 DEF Quiet

LEMMA SuitsStays ==
    ASSUME Steady, NEW m, Quiet(m.beside), NEW e
    PROVE  Suits(e, m) => Suits(e, m)'
<1>1. \A q \in m.beside : TimesOf(q)' = TimesOf(q) /\ EntriesOf(q)' = EntriesOf(q)
    BY QuietStays
<1> QED
    BY <1>1 DEF Suits, SlotsFor

\* A request that does nothing keeps what is known of it.
LEMMA OthersKeep ==
    ASSUME LessonsInv, Steady, NEW r \in Requests,
           todo'[r] = todo[r], sent'[r] = sent[r],
           todo[r] # << >> /\ Unwritten(r) => Unwritten(r)'
    PROVE  LessonInv(r)'
<1>1. LessonInv(r)
    BY DEF LessonsInv
<1>2. Left(r)' = Left(r)
    BY DEF Left
<1>3. Found(r) => Found(r)'
    <2> SUFFICES ASSUME Found(r) PROVE Found(r)'
        OBVIOUS
    <2>1. Quiet(sent[r].beside)
        BY DEF Found
    <2>2. PICK l : l = sent[r]
        OBVIOUS
    <2>3. Quiet(l.beside)'
        BY <2>1, <2>2, QuietStays
    <2>4. \A e : Suits(e, l) => Suits(e, l)'
        BY <2>1, <2>2, SuitsStays
    <2>5. SlotsFor(l)' = SlotsFor(l)
        BY DEF SlotsFor
    <2>6. sent'[r] = l
        BY <2>2
    <2> QED
        BY <1>2, <2>2, <2>3, <2>4, <2>5, <2>6 DEF Found
<1>4. Accepted(sent[r])' <=> Accepted(sent[r])
    BY DEF Accepted
<1>5. /\ sent'[r] = [plan |-> sent'[r].plan, times |-> sent'[r].times,
                     entries |-> sent'[r].entries, timing |-> sent'[r].timing,
                     mapping |-> sent'[r].mapping, beside |-> sent'[r].beside]
      /\ \A i \in DOMAIN todo'[r] : todo'[r][i] \in {"busy", "row"} => i = 1
    BY <1>1 DEF LessonInv
<1>6. ASSUME todo'[r] # << >>
      PROVE  /\ sent'[r].plan \in used'
             /\ "times" \in Left(r)' => sent'[r].times \in SUBSET HandTime
             /\ "entries" \in Left(r)' => sent'[r].entries \in SUBSET HandEntry
             /\ "busy" \in Left(r)' => Len(todo'[r]) = 1 /\ Accepted(sent[r])'
             /\ Left(r)' \cap {"busy", "row"} # {} => Unwritten(r)'
             /\ sent'[r].timing # None /\ "busy" \notin Left(r)' =>
                    /\ Accepted(sent[r])' /\ Found(r)'
                    /\ Left(r)' \subseteq {"row", "times", "entries"}
    <2>1. todo[r] # << >> /\ sent[r].plan \in used'
        BY <1>1, <1>6 DEF LessonInv, Steady
    <2> QED
        BY <1>1, <1>2, <1>3, <1>4, <2>1 DEF LessonInv
<1> QED
    BY <1>5, <1>6 DEF LessonInv, HandTime, HandEntry

LEMMA MadeKeeps ==
    ASSUME LessonsInv, Steady, NEW p \in DOMAIN made, p \in DOMAIN made', made'[p] = made[p],
           TimesOf(p)' \in {{}, On(p, SlotsFor(made[p]))},
           \A e \in EntriesOf(p)' : Suits(e, made[p]),
           \A r \in Requests : Serves(r, p)' => sent'[r] = sent[r] /\ Left(r)' \subseteq Left(r)
    PROVE  MadeInv(p)'
<1>1. MadeInv(p) /\ p \in used
    BY DEF LessonsInv, LessonsTypeOK
<1>2. PICK m : m = made[p]
    OBVIOUS
<1>3. Accepted(m) /\ Quiet(m.beside)
    BY <1>1, <1>2 DEF MadeInv
<1>4. Quiet(m.beside)' /\ \A e : Suits(e, m) => Suits(e, m)'
    BY <1>3, QuietStays, SuitsStays
<1>5. Accepted(m)' /\ SlotsFor(m)' = SlotsFor(m)
    BY <1>3 DEF Accepted, SlotsFor
<1>6. ASSUME NEW r \in Requests, Serves(r, p)'
      PROVE  /\ m = [timing |-> sent'[r].timing, mapping |-> sent'[r].mapping,
                     beside |-> sent'[r].beside]
             /\ sent'[r].timing # None /\ Left(r)' \subseteq {"times", "entries"}
    <2>1. Serves(r, p)
        BY <1>1, <1>6 DEF Steady
    <2> QED
        BY <1>1, <1>2, <1>6, <2>1 DEF MadeInv
<1>7. made'[p] = m
    BY <1>2
<1> QED
    BY <1>2, <1>4, <1>5, <1>6, <1>7 DEF MadeInv

\* What follows a statement of a request, or its failure.
LEMMA AfterStatement ==
    ASSUME LessonsInv, NEW r \in Requests, todo[r] # << >>,
           \/ NextStatement(r)
           \/ /\ todo' = [todo EXCEPT ![r] = << >>]
              /\ sent' = [sent EXCEPT ![r] = NothingSent]
    PROVE  /\ todo' \in [Requests -> Seq(LessonSteps)] /\ DOMAIN sent' = Requests
           /\ \A q \in Requests \ {r} : todo'[q] = todo[q] /\ sent'[q] = sent[q]
           /\ \A q \in Requests : Left(q)' \subseteq Left(q)
           /\ \A p : \A q \in Requests : Serves(q, p)' => Serves(q, p) /\ sent'[q] = sent[q]
           /\ \A i \in DOMAIN todo'[r] : todo'[r][i] \notin {"busy", "row"}
           /\ Left(r)' \cap {"busy", "row"} = {}
           /\ todo'[r] # << >> => sent'[r] = sent[r]
           /\ sent'[r] \in {sent[r], NothingSent}
<1>1. todo \in [Requests -> Seq(LessonSteps)] /\ DOMAIN sent = Requests /\ LessonInv(r)
    BY DEF LessonsInv
<1>2. todo[r] \in Seq(LessonSteps)
    BY <1>1
<1>3. todo'[r] \in {Tail(todo[r]), << >>}
    BY <1>1 DEF NextStatement
<1>4. todo'[r] \in Seq(LessonSteps) /\ ToSet(todo'[r]) \subseteq ToSet(todo[r])
    <2>1. << >> \in Seq(LessonSteps) /\ ToSet(<< >>) = {}
        BY DEF ToSet
    <2> QED
        BY <1>2, <1>3, <2>1, AfterHead
<1>5. todo' \in [Requests -> Seq(LessonSteps)]
    <2>1. todo' = [todo EXCEPT ![r] = todo'[r]]
        BY <1>1 DEF NextStatement
    <2> QED
        BY <1>1, <1>4, <2>1
<1>6. \A q \in Requests \ {r} : todo'[q] = todo[q] /\ sent'[q] = sent[q]
    BY <1>1 DEF NextStatement
<1>7. DOMAIN sent' = Requests /\ sent'[r] \in {sent[r], NothingSent}
    BY <1>1 DEF NextStatement
<1>8. todo'[r] # << >> => sent'[r] = sent[r]
    <2>1. Len(todo[r]) = 1 => Tail(todo[r]) = << >>
        BY <1>2, AfterHead
    <2> QED
        BY <1>1, <2>1 DEF NextStatement
<1>9. \A i \in DOMAIN todo'[r] : todo'[r][i] \notin {"busy", "row"}
    <2> SUFFICES ASSUME todo'[r] = Tail(todo[r]), NEW i \in DOMAIN Tail(todo[r])
                 PROVE  Tail(todo[r])[i] \notin {"busy", "row"}
        <3>1. DOMAIN << >> = {}
            OBVIOUS
        <3> QED
            BY <1>3, <3>1
    <2>1. i + 1 \in DOMAIN todo[r] /\ Tail(todo[r])[i] = todo[r][i + 1]
        BY <1>2, AfterHead
    <2>2. i \in Nat /\ i > 0
        <3>1. Tail(todo[r]) \in Seq(LessonSteps)
            BY <1>2, AfterHead
        <3> QED
            BY <3>1
    <2>3. i + 1 # 1
        BY <2>2
    <2> QED
        BY <1>1, <2>1, <2>3 DEF LessonInv
<1>10. Left(r)' \cap {"busy", "row"} = {}
    BY <1>9 DEF Left, ToSet
<1>11. \A q \in Requests : Left(q)' \subseteq Left(q)
    BY <1>4, <1>6 DEF Left
<1>12. \A p : \A q \in Requests : Serves(q, p)' => Serves(q, p) /\ sent'[q] = sent[q]
    BY <1>6, <1>8 DEF Serves
<1> QED
    BY <1>5, <1>6, <1>7, <1>8, <1>9, <1>10, <1>11, <1>12

\* Whose turn it is keeps what is known of it: nothing is left but what it inserts.
LEMMA TurnKeeps ==
    ASSUME LessonsInv, Steady, NEW r \in Requests, todo[r] # << >>,
           "busy" \notin Left(r) \/ todo'[r] = << >>,
           \/ NextStatement(r)
           \/ /\ todo' = [todo EXCEPT ![r] = << >>]
              /\ sent' = [sent EXCEPT ![r] = NothingSent]
    PROVE  LessonInv(r)'
<1>1. /\ \A i \in DOMAIN todo'[r] : todo'[r][i] \notin {"busy", "row"}
      /\ Left(r)' \cap {"busy", "row"} = {} /\ Left(r)' \subseteq Left(r)
      /\ todo'[r] # << >> => sent'[r] = sent[r]
      /\ sent'[r] \in {sent[r], NothingSent}
    BY AfterStatement
<1>2. LessonInv(r)
    BY DEF LessonsInv
<1>3. /\ sent'[r] = [plan |-> sent'[r].plan, times |-> sent'[r].times,
                     entries |-> sent'[r].entries, timing |-> sent'[r].timing,
                     mapping |-> sent'[r].mapping, beside |-> sent'[r].beside]
    BY <1>1, <1>2 DEF LessonInv, NothingSent
<1>4. ASSUME todo'[r] # << >>
      PROVE  /\ sent'[r].plan \in used'
             /\ "times" \in Left(r)' => sent'[r].times \in SUBSET HandTime
             /\ "entries" \in Left(r)' => sent'[r].entries \in SUBSET HandEntry
             /\ "busy" \notin Left(r)'
             /\ Left(r)' \cap {"busy", "row"} = {}
             /\ sent'[r].timing # None =>
                    /\ Accepted(sent[r])' /\ Found(r)'
                    /\ Left(r)' \subseteq {"row", "times", "entries"}
    <2>1. sent'[r] = sent[r] /\ sent[r].plan \in used'
        BY <1>1, <1>2, <1>4 DEF LessonInv, Steady
    <2>2. Accepted(sent[r])' <=> Accepted(sent[r])
        BY <2>1 DEF Accepted
    <2>3. Found(r) => Found(r)'
        <3> SUFFICES ASSUME Found(r) PROVE Found(r)'
            OBVIOUS
        <3>1. PICK l : l = sent[r]
            OBVIOUS
        <3>2. Quiet(l.beside)
            BY <3>1 DEF Found
        <3>3. Quiet(l.beside)' /\ \A e : Suits(e, l) => Suits(e, l)'
            BY <3>2, QuietStays, SuitsStays
        <3>4. SlotsFor(l)' = SlotsFor(l)
            BY DEF SlotsFor
        <3>5. sent'[r] = l
            BY <2>1, <3>1
        <3> QED
            BY <1>1, <3>1, <3>3, <3>4, <3>5 DEF Found
    <2>4. todo[r] # << >> /\ "busy" \notin Left(r)
        BY <1>4
    <2> QED
        BY <1>1, <1>2, <2>1, <2>2, <2>3, <2>4 DEF LessonInv
<1> QED
    BY <1>1, <1>3, <1>4 DEF LessonInv, HandTime, HandEntry

-----------------------------------------------------------------------------
(* The steps of the lessons.                                               *)

LEMMA HeadFacts ==
    ASSUME LessonsInv, NEW r \in Requests, NEW s, Doing(r, s)
    PROVE  /\ todo[r] # << >> /\ todo[r] \in Seq(LessonSteps) /\ s \in Left(r)
           /\ Left(r) \cap {"busy", "row"} \subseteq {s}
           /\ LessonInv(r) /\ Serves(r, sent[r].plan) /\ sent[r].plan \in used
<1>1. todo[r] # << >> /\ todo[r] \in Seq(LessonSteps) /\ LessonInv(r) /\ Head(todo[r]) = s
    BY DEF LessonsInv, Doing
<1>2. s \in Left(r) /\ s = todo[r][1]
    BY <1>1, AfterHead DEF Left
<1>3. Left(r) \cap {"busy", "row"} \subseteq {s}
    BY <1>1, <1>2 DEF LessonInv, Left, ToSet
<1>4. Serves(r, sent[r].plan) /\ sent[r].plan \in used
    BY <1>1 DEF Serves, LessonInv
<1> QED
    BY <1>1, <1>2, <1>3, <1>4

\* A statement on the rows of the times or of the entries, or a failure.
LEMMA TableKeeps ==
    ASSUME LessonsInv, NEW r \in Requests, todo[r] # << >>,
           \/ NextStatement(r) /\ Left(r) \cap {"busy", "row"} = {}
           \/ /\ todo' = [todo EXCEPT ![r] = << >>]
              /\ sent' = [sent EXCEPT ![r] = NothingSent],
           plan' = plan, used' = used, made' = made, started' \in 0..MaxStarted,
           times' \subseteq PeriodTime, entries' \subseteq Entry,
           \A x \in times' \cup entries' : x.plan \in used,
           \A p \in used \ {sent[r].plan} :
              TimesOf(p)' = TimesOf(p) /\ EntriesOf(p)' = EntriesOf(p),
           ASSUME NEW p \in DOMAIN made, p = sent[r].plan
           PROVE  /\ TimesOf(p)' \in {{}, On(p, SlotsFor(made[p]))}
                  /\ \A e \in EntriesOf(p)' : Suits(e, made[p])
    PROVE  LessonsInv'
<1>1. /\ todo' \in [Requests -> Seq(LessonSteps)] /\ DOMAIN sent' = Requests
      /\ \A q \in Requests \ {r} : todo'[q] = todo[q] /\ sent'[q] = sent[q]
      /\ \A q \in Requests : Left(q)' \subseteq Left(q)
      /\ \A p : \A q \in Requests : Serves(q, p)' => Serves(q, p) /\ sent'[q] = sent[q]
    BY AfterStatement
<1>2. Steady
    <2>1. Serves(r, sent[r].plan)
        BY DEF Serves
    <2> QED
        BY <1>1, <2>1 DEF Steady
<1>3. LessonInv(r)'
    <2>1. "busy" \notin Left(r) \/ todo'[r] = << >>
        BY DEF LessonsInv
    <2> QED
        BY <1>2, <2>1, TurnKeeps
<1>4. ASSUME NEW q \in Requests \ {r} PROVE LessonInv(q)'
    <2>1. todo[q] # << >> /\ Unwritten(q) => Unwritten(q)'
        <3> SUFFICES ASSUME todo[q] # << >>, Unwritten(q) PROVE Unwritten(q)'
            OBVIOUS
        <3>1. PICK p : p = sent[q].plan
            OBVIOUS
        <3>2. p # sent[r].plan /\ p \in used
            BY <3>1 DEF Unwritten, Serves, LessonsInv, LessonInv
        <3>3. TimesOf(p)' = {} /\ EntriesOf(p)' = {}
            BY <3>1, <3>2 DEF Unwritten
        <3>4. p = sent'[q].plan /\ p \notin plan' \cup DOMAIN made'
            BY <1>1, <3>1 DEF Unwritten
        <3>5. \A u \in Requests \ {q} : ~Serves(u, p)'
            BY <1>1, <3>1 DEF Unwritten
        <3> QED
            BY <3>3, <3>4, <3>5 DEF Unwritten
    <2> QED
        BY <1>1, <1>2, <2>1, OthersKeep
<1>5. ASSUME NEW p \in DOMAIN made PROVE MadeInv(p)'
    <2>1. p \in used /\ MadeInv(p)
        BY DEF LessonsInv, LessonsTypeOK
    <2>2. /\ TimesOf(p)' \in {{}, On(p, SlotsFor(made[p]))}
          /\ \A e \in EntriesOf(p)' : Suits(e, made[p])
        BY <2>1 DEF MadeInv
    <2> QED
        BY <1>1, <1>2, <2>2, MadeKeeps
<1>6. LessonsTypeOK'
    <2>1. \A q \in Requests : ToSet(todo'[q]) \subseteq LessonSteps
        BY <1>1 DEF ToSet
    <2> QED
        BY <2>1 DEF LessonsInv, LessonsTypeOK, PeriodTime, Entry
<1> QED
    BY <1>1, <1>3, <1>4, <1>5, <1>6 DEF LessonsInv

\* Who clears a table of a timetable updates it, so nothing is known of the timetable.
LEMMA ClearingKnowsNothing ==
    ASSUME LessonsInv, NEW r \in Requests, NEW s \in {"clearTimes", "clearEntries"}, Doing(r, s)
    PROVE  sent[r].plan \notin DOMAIN made
<1> SUFFICES ASSUME NEW p \in DOMAIN made, p = sent[r].plan PROVE FALSE
    OBVIOUS
<1>1. Serves(r, p) /\ s \in Left(r)
    BY HeadFacts
<1>2. Left(r) \subseteq {"times", "entries"}
    BY <1>1 DEF LessonsInv, MadeInv
<1> QED
    BY <1>1, <1>2

LEMMA ClearTimesKeeps ==
    ASSUME LessonsInv, NEW r \in Requests, ClearTimes(r), started' \in 0..MaxStarted
    PROVE  LessonsInv'
<1>1. /\ todo[r] # << >> /\ Left(r) \cap {"busy", "row"} = {}
      /\ sent[r].plan \notin DOMAIN made
    BY HeadFacts, ClearingKnowsNothing DEF ClearTimes
<1>2. /\ NextStatement(r) /\ plan' = plan /\ used' = used /\ made' = made
      /\ times' = {x \in times : x.plan # sent[r].plan} /\ entries' = entries
    BY DEF ClearTimes
<1>3. /\ times' \subseteq PeriodTime /\ entries' \subseteq Entry
      /\ \A x \in times' \cup entries' : x.plan \in used
    BY <1>2 DEF LessonsInv, LessonsTypeOK
<1>4. \A p \in used \ {sent[r].plan} :
          TimesOf(p)' = TimesOf(p) /\ EntriesOf(p)' = EntriesOf(p)
    BY <1>2 DEF TimesOf, EntriesOf
<1> QED
    BY <1>1, <1>2, <1>3, <1>4, TableKeeps

LEMMA ClearEntriesKeeps ==
    ASSUME LessonsInv, NEW r \in Requests, ClearEntries(r), started' \in 0..MaxStarted
    PROVE  LessonsInv'
<1>1. /\ todo[r] # << >> /\ Left(r) \cap {"busy", "row"} = {}
      /\ sent[r].plan \notin DOMAIN made
    BY HeadFacts, ClearingKnowsNothing DEF ClearEntries
<1>2. /\ NextStatement(r) /\ plan' = plan /\ used' = used /\ made' = made
      /\ entries' = {x \in entries : x.plan # sent[r].plan} /\ times' = times
    BY DEF ClearEntries
<1>3. /\ times' \subseteq PeriodTime /\ entries' \subseteq Entry
      /\ \A x \in times' \cup entries' : x.plan \in used
    BY <1>2 DEF LessonsInv, LessonsTypeOK
<1>4. \A p \in used \ {sent[r].plan} :
          TimesOf(p)' = TimesOf(p) /\ EntriesOf(p)' = EntriesOf(p)
    BY <1>2 DEF TimesOf, EntriesOf
<1> QED
    BY <1>1, <1>2, <1>3, <1>4, TableKeeps

\* What a request inserts into a timetable that was generated is what it generated.
LEMMA InsertingFacts ==
    ASSUME LessonsInv, NEW r \in Requests, Left(r) \cap {"busy", "row"} = {},
           NEW p \in DOMAIN made, p = sent[r].plan, Serves(r, p)
    PROVE  /\ "times" \in Left(r) => sent[r].times = SlotsFor(made[p])
           /\ "entries" \in Left(r) => \A e \in sent[r].entries : Suits(e, made[p])
           /\ MadeInv(p)
<1>1. MadeInv(p) /\ LessonInv(r)
    BY DEF LessonsInv
<1>2. /\ made[p] = [timing |-> sent[r].timing, mapping |-> sent[r].mapping,
                    beside |-> sent[r].beside]
      /\ sent[r].timing # None
    BY <1>1 DEF MadeInv
<1>3. Found(r)
    BY <1>1, <1>2 DEF LessonInv, Serves
<1>4. PICK l : l = sent[r]
    OBVIOUS
<1>5. PICK m : m = made[p]
    OBVIOUS
<1>6. m.timing = l.timing /\ m.mapping = l.mapping /\ m.beside = l.beside
    BY <1>2, <1>4, <1>5
<1>7. SlotsFor(m) = SlotsFor(l) /\ \A e : Suits(e, m) <=> Suits(e, l)
    BY <1>6 DEF SlotsFor, Suits
<1> QED
    BY <1>1, <1>3, <1>4, <1>5, <1>7 DEF Found

LEMMA InsertTimesKeeps ==
    ASSUME LessonsInv, NEW r \in Requests, InsertTimes(r), started' \in 0..MaxStarted
    PROVE  LessonsInv'
<1>1. /\ todo[r] # << >> /\ Left(r) \cap {"busy", "row"} = {} /\ "times" \in Left(r)
      /\ LessonInv(r) /\ Serves(r, sent[r].plan) /\ sent[r].plan \in used
    BY HeadFacts DEF InsertTimes
<1>2. PICK p : p = sent[r].plan
    OBVIOUS
<1>3. PICK new : new = On(p, sent[r].times)
    OBVIOUS
<1>4. /\ NextStatement(r) /\ plan' = plan /\ used' = used /\ made' = made
      /\ times' = times \cup new /\ entries' = entries
    BY <1>2, <1>3 DEF InsertTimes
<1>5. p \in used /\ p \in Plans /\ \A x \in new : x \in PeriodTime /\ x.plan = p
    <2>1. p \in used /\ p \in Plans
        BY <1>1, <1>2 DEF LessonsInv, LessonsTypeOK
    <2>2. \A x \in sent[r].times : x \in HandTime
        BY <1>1 DEF LessonInv
    <2> QED
        BY <1>3, <2>1, <2>2 DEF On, HandTime, PeriodTime
<1>6. /\ times' \subseteq PeriodTime /\ entries' \subseteq Entry
      /\ \A x \in times' \cup entries' : x.plan \in used
    BY <1>4, <1>5 DEF LessonsInv, LessonsTypeOK
<1>7. \A u \in used \ {p} : TimesOf(u)' = TimesOf(u) /\ EntriesOf(u)' = EntriesOf(u)
    BY <1>4, <1>5 DEF TimesOf, EntriesOf
<1>8. ASSUME NEW u \in DOMAIN made, u = sent[r].plan
      PROVE  /\ TimesOf(u)' \in {{}, On(u, SlotsFor(made[u]))}
             /\ \A e \in EntriesOf(u)' : Suits(e, made[u])
    <2>1. sent[r].times = SlotsFor(made[u]) /\ MadeInv(u)
        BY <1>1, <1>8, InsertingFacts
    <2>2. TimesOf(u)' = TimesOf(u) \cup new
        BY <1>2, <1>4, <1>5, <1>8 DEF TimesOf
    <2>3. EntriesOf(u)' = EntriesOf(u)
        BY <1>4 DEF EntriesOf
    <2>4. new = On(u, SlotsFor(made[u]))
        BY <1>2, <1>3, <1>8, <2>1
    <2> QED
        BY <2>1, <2>2, <2>3, <2>4 DEF MadeInv
<1> QED
    BY <1>1, <1>2, <1>4, <1>6, <1>7, <1>8, TableKeeps

LEMMA InsertEntriesKeeps ==
    ASSUME LessonsInv, NEW r \in Requests, InsertEntries(r), started' \in 0..MaxStarted
    PROVE  LessonsInv'
<1>1. /\ todo[r] # << >> /\ Left(r) \cap {"busy", "row"} = {} /\ "entries" \in Left(r)
      /\ LessonInv(r) /\ Serves(r, sent[r].plan) /\ sent[r].plan \in used
    BY HeadFacts DEF InsertEntries
<1>2. PICK p : p = sent[r].plan
    OBVIOUS
<1>3. PICK new : new = On(p, sent[r].entries)
    OBVIOUS
<1>4. /\ NextStatement(r) /\ plan' = plan /\ used' = used /\ made' = made
      /\ entries' = entries \cup new /\ times' = times
    BY <1>2, <1>3 DEF InsertEntries
<1>5. \A x \in sent[r].entries : x \in HandEntry
    BY <1>1 DEF LessonInv
<1>6. p \in used /\ p \in Plans /\ \A x \in new : x \in Entry /\ x.plan = p
    <2>1. p \in used /\ p \in Plans
        BY <1>1, <1>2 DEF LessonsInv, LessonsTypeOK
    <2> QED
        BY <1>3, <1>5, <2>1 DEF On, HandEntry, Entry
<1>7. /\ times' \subseteq PeriodTime /\ entries' \subseteq Entry
      /\ \A x \in times' \cup entries' : x.plan \in used
    BY <1>4, <1>6 DEF LessonsInv, LessonsTypeOK
<1>8. \A u \in used \ {p} : TimesOf(u)' = TimesOf(u) /\ EntriesOf(u)' = EntriesOf(u)
    BY <1>4, <1>6 DEF TimesOf, EntriesOf
<1>9. ASSUME NEW u \in DOMAIN made, u = sent[r].plan
      PROVE  /\ TimesOf(u)' \in {{}, On(u, SlotsFor(made[u]))}
             /\ \A e \in EntriesOf(u)' : Suits(e, made[u])
    <2>1. (\A e \in sent[r].entries : Suits(e, made[u])) /\ MadeInv(u)
        BY <1>1, <1>9, InsertingFacts
    <2>2. PICK m : m = made[u]
        OBVIOUS
    <2>3. \A e \in new : Suits(e, m)
        <3> SUFFICES ASSUME NEW x \in sent[r].entries PROVE Suits([x EXCEPT !.plan = p], m)
            BY <1>3 DEF On
        <3>1. Suits(x, m) /\ x \in HandEntry
            BY <1>5, <2>1, <2>2
        <3> QED
            BY <3>1 DEF Suits, HandEntry
    <2>4. EntriesOf(u)' \subseteq EntriesOf(u) \cup new /\ TimesOf(u)' = TimesOf(u)
        BY <1>4 DEF EntriesOf, TimesOf
    <2> QED
        BY <2>1, <2>2, <2>3, <2>4 DEF MadeInv
<1> QED
    BY <1>1, <1>2, <1>4, <1>7, <1>8, <1>9, TableKeeps

LEMMA LessonFailsKeeps ==
    ASSUME LessonsInv, NEW r \in Requests, LessonFails(r), started' \in 0..MaxStarted
    PROVE  LessonsInv'
<1>1. /\ todo[r] # << >> /\ plan' = plan /\ times' = times /\ entries' = entries
      /\ used' = used /\ made' = made
      /\ todo' = [todo EXCEPT ![r] = << >>] /\ sent' = [sent EXCEPT ![r] = NothingSent]
    BY DEF LessonFails, lessons
<1>2. /\ times' \subseteq PeriodTime /\ entries' \subseteq Entry
      /\ \A x \in times' \cup entries' : x.plan \in used
    BY <1>1 DEF LessonsInv, LessonsTypeOK
<1>3. \A p : TimesOf(p)' = TimesOf(p) /\ EntriesOf(p)' = EntriesOf(p)
    BY <1>1 DEF TimesOf, EntriesOf
<1>4. ASSUME NEW p \in DOMAIN made
      PROVE  /\ TimesOf(p)' \in {{}, On(p, SlotsFor(made[p]))}
             /\ \A e \in EntriesOf(p)' : Suits(e, made[p])
    BY <1>3 DEF LessonsInv, MadeInv
<1> QED
    BY <1>1, <1>2, <1>3, <1>4, TableKeeps

\* Nothing happens but that rows of timetables go.
LEMMA OnlyPlansGo ==
    ASSUME LessonsInv, plan' \subseteq plan, times' = times, entries' = entries, used' = used,
           made' = made, todo' = todo, sent' = sent, started' \in 0..MaxStarted
    PROVE  LessonsInv'
<1>1. /\ plan' \subseteq plan /\ times' = times /\ entries' = entries /\ used' = used
      /\ made' = made /\ todo' = todo /\ sent' = sent
    OBVIOUS
<1>2. Steady
    BY <1>1 DEF Steady, Serves, TimesOf, EntriesOf
<1>3. ASSUME NEW q \in Requests PROVE LessonInv(q)'
    <2>1. Unwritten(q) => Unwritten(q)'
        BY <1>1 DEF Unwritten, TimesOf, EntriesOf, Serves
    <2> QED
        BY <1>1, <1>2, <2>1, OthersKeep
<1>4. ASSUME NEW u \in DOMAIN made PROVE MadeInv(u)'
    <2>1. MadeInv(u) /\ TimesOf(u)' = TimesOf(u) /\ EntriesOf(u)' = EntriesOf(u)
        BY <1>1 DEF LessonsInv, TimesOf, EntriesOf
    <2>2. /\ TimesOf(u)' \in {{}, On(u, SlotsFor(made[u]))}
          /\ \A e \in EntriesOf(u)' : Suits(e, made[u])
        BY <2>1 DEF MadeInv
    <2>3. \A q \in Requests : sent'[q] = sent[q] /\ Left(q)' = Left(q)
        BY <1>1 DEF Left
    <2> QED
        BY <1>1, <1>2, <2>2, <2>3, MadeKeeps
<1>5. LessonsTypeOK'
    BY <1>1 DEF LessonsInv, LessonsTypeOK
<1> QED
    BY <1>1, <1>3, <1>4, <1>5 DEF LessonsInv

LEMMA RemovePlanKeeps ==
    ASSUME LessonsInv, NEW r \in Requests, NEW p \in Plans, RemovePlan(r, p),
           started' \in 0..MaxStarted
    PROVE  LessonsInv'
<1>1. /\ plan' \subseteq plan /\ times' = times /\ entries' = entries /\ used' = used
      /\ made' = made /\ todo' = todo /\ sent' = sent
    BY DEF RemovePlan
<1> QED
    BY <1>1, OnlyPlansGo

\* The row is inserted, and with it how the timetable was generated.
LEMMA InsertPlanKeeps ==
    ASSUME LessonsInv, NEW r \in Requests, InsertPlan(r), started' \in 0..MaxStarted
    PROVE  LessonsInv'
<1>1. PICK l : l = sent[r]
    OBVIOUS
<1>2. PICK p : p = l.plan
    OBVIOUS
<1>3. /\ todo[r] # << >> /\ "row" \in Left(r) /\ "busy" \notin Left(r)
      /\ LessonInv(r) /\ Serves(r, p) /\ p \in used
    <2>1. Doing(r, "row")
        BY DEF InsertPlan
    <2> QED
        BY <1>1, <1>2, <2>1, HeadFacts
<1>4. NextStatement(r) /\ times' = times /\ entries' = entries /\ used' = used
      /\ plan' = plan \cup {p}
    BY <1>1, <1>2 DEF InsertPlan
<1>5. PICK how : how = [timing |-> l.timing, mapping |-> l.mapping, beside |-> l.beside]
    OBVIOUS
<1>6. made' = IF l.timing = None THEN made
              ELSE [q \in DOMAIN made \cup {p} |-> IF q = p THEN how ELSE made[q]]
    BY <1>1, <1>2, <1>5 DEF InsertPlan
<1>7. /\ p \notin DOMAIN made /\ TimesOf(p) = {} /\ EntriesOf(p) = {}
      /\ \A q \in Requests \ {r} : ~Serves(q, p)
    BY <1>1, <1>2, <1>3 DEF LessonInv, Unwritten
<1>8. /\ DOMAIN made' \subseteq DOMAIN made \cup {p}
      /\ \A q \in DOMAIN made : q \in DOMAIN made' /\ made'[q] = made[q]
      /\ p \in DOMAIN made' => made'[p] = how /\ l.timing # None
    BY <1>6, <1>7
<1>9. /\ todo' \in [Requests -> Seq(LessonSteps)] /\ DOMAIN sent' = Requests
      /\ \A q \in Requests \ {r} : todo'[q] = todo[q] /\ sent'[q] = sent[q]
      /\ \A q \in Requests : Left(q)' \subseteq Left(q)
      /\ \A u : \A q \in Requests : Serves(q, u)' => Serves(q, u) /\ sent'[q] = sent[q]
      /\ Left(r)' \cap {"busy", "row"} = {}
    BY <1>3, <1>4, AfterStatement
<1>10. \A u : TimesOf(u)' = TimesOf(u) /\ EntriesOf(u)' = EntriesOf(u)
    BY <1>4 DEF TimesOf, EntriesOf
<1>11. Steady
    BY <1>4, <1>9, <1>10 DEF Steady
<1>12. LessonInv(r)'
    BY <1>3, <1>4, <1>11, TurnKeeps
<1>13. ASSUME NEW q \in Requests \ {r} PROVE LessonInv(q)'
    <2>1. todo[q] # << >> /\ Unwritten(q) => Unwritten(q)'
        <3> SUFFICES ASSUME todo[q] # << >>, Unwritten(q) PROVE Unwritten(q)'
            OBVIOUS
        <3>1. PICK u : u = sent[q].plan
            OBVIOUS
        <3>2. u # p
            BY <1>3, <3>1 DEF Unwritten
        <3>3. TimesOf(u)' = {} /\ EntriesOf(u)' = {}
            BY <1>10, <3>1 DEF Unwritten
        <3>4. u = sent'[q].plan /\ u \notin plan' \cup DOMAIN made'
            BY <1>4, <1>8, <1>9, <3>1, <3>2 DEF Unwritten
        <3>5. \A v \in Requests \ {q} : ~Serves(v, u)'
            BY <1>9, <3>1 DEF Unwritten
        <3> QED
            BY <3>3, <3>4, <3>5 DEF Unwritten
    <2> QED
        BY <1>9, <1>11, <2>1, OthersKeep
<1>14. ASSUME NEW u \in DOMAIN made PROVE MadeInv(u)'
    <2>1. MadeInv(u)
        BY DEF LessonsInv
    <2>2. /\ TimesOf(u)' \in {{}, On(u, SlotsFor(made[u]))}
          /\ \A e \in EntriesOf(u)' : Suits(e, made[u])
        BY <1>10, <2>1 DEF MadeInv
    <2> QED
        BY <1>8, <1>9, <1>11, <2>2, MadeKeeps
<1>15. ASSUME p \in DOMAIN made' PROVE MadeInv(p)' /\ how \in Made
    <2>1. made'[p] = how /\ l.timing # None
        BY <1>8, <1>15
    <2>2. /\ Accepted(l) /\ Quiet(l.beside)
          /\ Left(r) \subseteq {"row", "times", "entries"}
        BY <1>1, <1>3, <2>1 DEF LessonInv, Found
    <2>3. how.timing = l.timing /\ how.mapping = l.mapping /\ how.beside = l.beside
        BY <1>5
    <2>4. Accepted(how) /\ Accepted(how)'
        BY <2>2, <2>3 DEF Accepted
    <2>5. Quiet(how.beside) /\ Quiet(how.beside)'
        BY <1>11, <2>2, <2>3, QuietStays
    <2>6. TimesOf(p)' = {} /\ EntriesOf(p)' = {}
        BY <1>7, <1>10
    <2>7. ASSUME NEW q \in Requests, Serves(q, p)'
          PROVE  /\ how = [timing |-> sent'[q].timing, mapping |-> sent'[q].mapping,
                           beside |-> sent'[q].beside]
                 /\ sent'[q].timing # None /\ Left(q)' \subseteq {"times", "entries"}
        <3>1. q = r /\ sent'[q] = l
            BY <1>1, <1>7, <1>9, <2>7
        <3> QED
            BY <1>5, <1>9, <2>1, <2>2, <3>1
    <2>8. how \in Made
        <3>1. how.beside \subseteq Plans
            BY <2>5 DEF Quiet, LessonsInv, LessonsTypeOK
        <3> QED
            BY <1>5, <2>2, <2>3, <3>1 DEF Made, Accepted
    <2> QED
        BY <2>1, <2>4, <2>5, <2>6, <2>7, <2>8 DEF MadeInv
<1>16. LessonsTypeOK'
    <2>1. \A q \in Requests : ToSet(todo'[q]) \subseteq LessonSteps
        BY <1>9 DEF ToSet
    <2>2. DOMAIN made' \subseteq used' /\ plan' \subseteq used'
        BY <1>3, <1>4, <1>8 DEF LessonsInv, LessonsTypeOK
    <2>3. made' \in [DOMAIN made' -> Made]
        <3>1. \A u \in DOMAIN made' : made'[u] \in Made
            BY <1>8, <1>15 DEF LessonsInv, LessonsTypeOK
        <3>2. made' = [u \in DOMAIN made' |-> made'[u]]
            BY <1>6 DEF LessonsInv, LessonsTypeOK
        <3> QED
            BY <3>1, <3>2
    <2> QED
        BY <1>4, <2>1, <2>2, <2>3 DEF LessonsInv, LessonsTypeOK, PeriodTime, Entry
<1> QED
    BY <1>4, <1>8, <1>9, <1>12, <1>13, <1>14, <1>15, <1>16 DEF LessonsInv

LEMMA FindBusyKeeps ==
    ASSUME LessonsInv, NEW r \in Requests, FindBusy(r), started' \in 0..MaxStarted
    PROVE  LessonsInv'
<1>1. PICK l : l = sent[r]
    OBVIOUS
<1>2. PICK slots : slots = buildPeriodSlots(l.timing, Len(l.mapping))
    OBVIOUS
<1>3. PICK rows : rows = Entries(slots, l.mapping)
    OBVIOUS
<1>4. PICK beside : beside = {q \in plan : Serving(q) = {}}
    OBVIOUS
<1>5. PICK m : m = [l EXCEPT !.times = ToSet(slots), !.entries = rows, !.beside = beside]
    OBVIOUS
<1>6. /\ Doing(r, "busy")
      /\ todo' = [todo EXCEPT ![r] = Writing(ToSet(slots), rows)]
      /\ sent' = [sent EXCEPT ![r] = m]
      /\ plan' = plan /\ times' = times /\ entries' = entries /\ used' = used /\ made' = made
    BY <1>1, <1>2, <1>3, <1>4, <1>5 DEF FindBusy, lessons
<1>7. /\ todo[r] # << >> /\ "busy" \in Left(r) /\ LessonInv(r) /\ Serves(r, l.plan)
      /\ l.plan \in used
    BY <1>1, <1>6, HeadFacts
<1>8. Accepted(l) /\ Unwritten(r)
    BY <1>1, <1>7 DEF LessonInv
<1>9. /\ m = [plan |-> l.plan, times |-> ToSet(slots), entries |-> rows,
              timing |-> l.timing, mapping |-> l.mapping, beside |-> beside]
      /\ m.plan = l.plan /\ m.times = ToSet(slots) /\ m.entries = rows
      /\ m.timing = l.timing /\ m.mapping = l.mapping /\ m.beside = beside
    <2>1. l = [plan |-> l.plan, times |-> l.times, entries |-> l.entries,
               timing |-> l.timing, mapping |-> l.mapping, beside |-> l.beside]
        BY <1>1, <1>7 DEF LessonInv
    <2> QED
        BY <1>5, <2>1
<1>10. Accepted(m) /\ Accepted(m)'
    BY <1>8, <1>9 DEF Accepted
<1> DEFINE w == Writing(ToSet(slots), rows)
<1>11. /\ w \in Seq(LessonSteps) /\ w # << >>
       /\ ToSet(w) \subseteq {"row", "times", "entries"}
       /\ \A i \in DOMAIN w : w[i] \in {"busy", "row"} => i = 1
    BY WritingShape
<1> HIDE DEF w
<1>12. /\ todo' \in [Requests -> Seq(LessonSteps)] /\ DOMAIN sent' = Requests
       /\ todo'[r] = w /\ sent'[r] = m
       /\ \A q \in Requests \ {r} : todo'[q] = todo[q] /\ sent'[q] = sent[q]
    BY <1>6, <1>11 DEF LessonsInv, w
<1>13. \A u : \A q \in Requests : Serves(q, u)' <=> Serves(q, u)
    BY <1>1, <1>7, <1>9, <1>11, <1>12 DEF Serves
<1>14. \A u : TimesOf(u)' = TimesOf(u) /\ EntriesOf(u)' = EntriesOf(u)
    BY <1>6 DEF TimesOf, EntriesOf
<1>15. Steady
    BY <1>6, <1>13, <1>14 DEF Steady
<1>16. Quiet(beside) /\ beside \subseteq plan
    BY <1>4 DEF Quiet, Serving, Serves, LessonsInv, LessonsTypeOK
<1>17. ToSet(slots) = SlotsFor(m) /\ ToSet(slots) \subseteq HandTime
    <2>1. ToSet(slots) = SlotsFor(m)
        BY <1>2, <1>9 DEF SlotsFor
    <2> QED
        BY <1>10, <2>1, SlotSet
<1>18. \A e \in rows : e \in HandEntry /\ Suits(e, m)
    <2> SUFFICES ASSUME NEW e \in rows PROVE e \in HandEntry /\ Suits(e, m)
        OBVIOUS
    <2>1. e \in Entries(buildPeriodSlots(m.timing, Len(m.mapping)), m.mapping)
        BY <1>2, <1>3, <1>9
    <2> QED
        BY <1>9, <1>10, <1>16, <2>1, EntriesSuit
<1>19. Found(r)'
    <2>1. Quiet(beside)' /\ \A e : Suits(e, m) => Suits(e, m)'
        BY <1>9, <1>15, <1>16, QuietStays, SuitsStays
    <2>2. SlotsFor(m)' = SlotsFor(m)
        BY DEF SlotsFor
    <2> QED
        BY <1>9, <1>12, <1>17, <1>18, <2>1, <2>2 DEF Found
<1>20. \A q \in Requests : Unwritten(q) => Unwritten(q)'
    <2> SUFFICES ASSUME NEW q \in Requests, Unwritten(q) PROVE Unwritten(q)'
        OBVIOUS
    <2>1. sent'[q].plan = sent[q].plan
        BY <1>1, <1>9, <1>12
    <2> QED
        BY <1>6, <1>13, <1>14, <2>1 DEF Unwritten
<1>21. LessonInv(r)'
    <2>1. Left(r)' = ToSet(w)
        BY <1>12 DEF Left
    <2>2. l.plan \in used'
        BY <1>6, <1>7
    <2>3. rows \in SUBSET HandEntry /\ ToSet(slots) \in SUBSET HandTime
        BY <1>17, <1>18
    <2>4. /\ sent'[r] = [plan |-> sent'[r].plan, times |-> sent'[r].times,
                         entries |-> sent'[r].entries, timing |-> sent'[r].timing,
                         mapping |-> sent'[r].mapping, beside |-> sent'[r].beside]
          /\ \A i \in DOMAIN todo'[r] : todo'[r][i] \in {"busy", "row"} => i = 1
        BY <1>9, <1>11, <1>12
    <2>5. /\ sent'[r].plan \in used'
          /\ sent'[r].times \in SUBSET HandTime
          /\ sent'[r].entries \in SUBSET HandEntry
        BY <1>9, <1>12, <2>2, <2>3
    <2>6. /\ "busy" \notin Left(r)' /\ Left(r)' \subseteq {"row", "times", "entries"}
          /\ Unwritten(r)' /\ Accepted(sent[r])'
        <3>1. Accepted(sent[r])'
            BY <1>10, <1>12 DEF Accepted
        <3> QED
            BY <1>8, <1>11, <1>20, <2>1, <3>1
    <2> QED
        BY <1>19, <2>4, <2>5, <2>6 DEF LessonInv, HandTime, HandEntry
<1>22. ASSUME NEW q \in Requests \ {r} PROVE LessonInv(q)'
    BY <1>12, <1>15, <1>20, OthersKeep
<1>23. ASSUME NEW u \in DOMAIN made PROVE MadeInv(u)'
    <2>1. MadeInv(u) /\ u # l.plan
        BY <1>1, <1>8 DEF LessonsInv, Unwritten
    <2>2. /\ TimesOf(u)' \in {{}, On(u, SlotsFor(made[u]))}
          /\ \A e \in EntriesOf(u)' : Suits(e, made[u])
        BY <1>14, <2>1 DEF MadeInv
    <2>3. ASSUME NEW q \in Requests, Serves(q, u)'
          PROVE  sent'[q] = sent[q] /\ Left(q)' \subseteq Left(q)
        <3>1. q # r
            BY <1>9, <1>12, <2>1, <2>3 DEF Serves
        <3> QED
            BY <1>12, <3>1 DEF Left
    <2> QED
        BY <1>6, <1>15, <2>2, <2>3, MadeKeeps
<1>24. LessonsTypeOK'
    <2>1. \A q \in Requests : ToSet(todo'[q]) \subseteq LessonSteps
        BY <1>12 DEF ToSet
    <2> QED
        BY <1>6, <2>1 DEF LessonsInv, LessonsTypeOK, PeriodTime, Entry
<1> QED
    BY <1>6, <1>12, <1>21, <1>22, <1>23, <1>24 DEF LessonsInv

\* A new timetable: its id is fresh, so nothing is there and nobody writes it.
LEMMA BeginFacts ==
    ASSUME LessonsInv, NEW r \in Requests, NEW p \in Plans, NEW steps \in Seq(LessonSteps),
           NEW seen, seen.plan = p, Draw(p), Begin(r, steps, seen),
           plan' = plan, times' = times, entries' = entries, made' = made
    PROVE  /\ todo' \in [Requests -> Seq(LessonSteps)] /\ DOMAIN sent' = Requests
           /\ todo'[r] = steps /\ sent'[r] = seen
           /\ \A q \in Requests \ {r} : todo'[q] = todo[q] /\ sent'[q] = sent[q]
           /\ p \in used' /\ used' \subseteq Plans /\ IsFiniteSet(used)'
           /\ used' = 1..Cardinality(used')
           /\ Steady /\ Unwritten(r)'
<1>1. /\ todo' \in [Requests -> Seq(LessonSteps)] /\ DOMAIN sent' = Requests
      /\ todo'[r] = steps /\ sent'[r] = seen
      /\ \A q \in Requests \ {r} : todo'[q] = todo[q] /\ sent'[q] = sent[q]
    BY DEF LessonsInv, Begin
<1>2. PICK n \in Nat : n = Cardinality(used)
    BY FS_CardinalityType DEF LessonsInv
<1>3. used = 1..n /\ p = n + 1 /\ used' = used \cup {p} /\ IsFiniteSet(used)
    BY <1>2 DEF LessonsInv, Draw
<1>4. used' = 1..(n + 1) /\ p \notin used
    BY <1>3
<1>5. IsFiniteSet(1..(n + 1)) /\ Cardinality(1..(n + 1)) = n + 1
    BY FS_Interval
<1>6. IsFiniteSet(used)' /\ used' = 1..Cardinality(used')
    BY <1>4, <1>5
<1>7. \A u : TimesOf(u)' = TimesOf(u) /\ EntriesOf(u)' = EntriesOf(u)
    BY DEF TimesOf, EntriesOf
<1>8. \A q \in Requests : ~Serves(q, p)
    BY <1>4 DEF LessonsInv, LessonInv, Serves
<1>9. \A u \in used, q \in Requests : Serves(q, u)' => Serves(q, u)
    <2> SUFFICES ASSUME NEW u \in used, NEW q \in Requests, Serves(q, u)' PROVE Serves(q, u)
        OBVIOUS
    <2>1. q # r
        BY <1>1, <1>4 DEF Serves
    <2> QED
        BY <1>1, <2>1 DEF Serves
<1>10. Steady
    BY <1>3, <1>7, <1>9 DEF Steady
<1>11. Unwritten(r)'
    <2>1. p \notin plan \cup DOMAIN made /\ TimesOf(p) = {} /\ EntriesOf(p) = {}
        BY <1>4 DEF LessonsInv, LessonsTypeOK, TimesOf, EntriesOf
    <2>2. \A q \in Requests \ {r} : ~Serves(q, p)'
        BY <1>1, <1>8 DEF Serves
    <2> QED
        BY <1>1, <1>7, <2>1, <2>2 DEF Unwritten
<1> QED
    BY <1>1, <1>3, <1>6, <1>10, <1>11 DEF LessonsInv, LessonsTypeOK

LEMMA BeginKeeps ==
    ASSUME LessonsInv, NEW r \in Requests, NEW p \in Plans, NEW steps \in Seq(LessonSteps),
           NEW seen, seen.plan = p, Draw(p), Begin(r, steps, seen),
           plan' = plan, times' = times, entries' = entries, made' = made,
           LessonInv(r)', started' \in 0..MaxStarted
    PROVE  LessonsInv'
<1>1. /\ todo' \in [Requests -> Seq(LessonSteps)] /\ DOMAIN sent' = Requests
      /\ todo'[r] = steps /\ sent'[r] = seen
      /\ \A q \in Requests \ {r} : todo'[q] = todo[q] /\ sent'[q] = sent[q]
      /\ p \in used' /\ used' \subseteq Plans /\ IsFiniteSet(used)'
      /\ used' = 1..Cardinality(used')
      /\ Steady
    BY BeginFacts
<1>2. used \subseteq used' /\ p \notin used
    <2>1. p \notin used
        <3>1. PICK n \in Nat : n = Cardinality(used)
            BY FS_CardinalityType DEF LessonsInv
        <3> QED
            BY <3>1 DEF LessonsInv, Draw
    <2> QED
        BY <1>1, <2>1 DEF Steady
<1>3. \A u : TimesOf(u)' = TimesOf(u) /\ EntriesOf(u)' = EntriesOf(u)
    BY DEF TimesOf, EntriesOf
<1>4. ASSUME NEW q \in Requests \ {r} PROVE LessonInv(q)'
    <2>1. todo[q] # << >> /\ Unwritten(q) => Unwritten(q)'
        <3> SUFFICES ASSUME todo[q] # << >>, Unwritten(q) PROVE Unwritten(q)'
            OBVIOUS
        <3>1. PICK u : u = sent[q].plan
            OBVIOUS
        <3>2. u \in used
            BY <3>1 DEF LessonsInv, LessonInv
        <3>3. \A v \in Requests \ {q} : ~Serves(v, u)'
            BY <1>1, <3>1, <3>2 DEF Unwritten, Steady
        <3>4. u = sent'[q].plan
            BY <1>1, <3>1
        <3> QED
            BY <1>3, <3>1, <3>3, <3>4 DEF Unwritten
    <2> QED
        BY <1>1, <2>1, OthersKeep
<1>5. ASSUME NEW u \in DOMAIN made PROVE MadeInv(u)'
    <2>1. MadeInv(u) /\ u \in used
        BY DEF LessonsInv, LessonsTypeOK
    <2>2. /\ TimesOf(u)' \in {{}, On(u, SlotsFor(made[u]))}
          /\ \A e \in EntriesOf(u)' : Suits(e, made[u])
        BY <1>3, <2>1 DEF MadeInv
    <2>3. ASSUME NEW q \in Requests, Serves(q, u)'
          PROVE  sent'[q] = sent[q] /\ Left(q)' \subseteq Left(q)
        <3>1. q # r
            BY <1>1, <1>2, <2>1, <2>3 DEF Serves
        <3> QED
            BY <1>1, <3>1 DEF Left
    <2> QED
        BY <1>1, <2>2, <2>3, MadeKeeps
<1>6. LessonsTypeOK'
    <2>1. \A q \in Requests : ToSet(todo'[q]) \subseteq LessonSteps
        BY <1>1 DEF ToSet
    <2> QED
        BY <1>1, <1>2, <2>1 DEF LessonsInv, LessonsTypeOK, PeriodTime, Entry
<1>7. \A x \in times' \cup entries' : x.plan \in used'
    BY <1>2 DEF LessonsInv
<1> QED
    BY <1>1, <1>4, <1>5, <1>6, <1>7 DEF LessonsInv

\* What a request starts with.
LEMMA StartsGenerating ==
    ASSUME NEW p, NEW t, NEW mapping, NEW seen,
           seen = [NothingSent EXCEPT !.plan = p, !.timing = t, !.mapping = mapping]
    PROVE  seen = [plan |-> p, times |-> {}, entries |-> {}, timing |-> t,
                   mapping |-> mapping, beside |-> {}]
<1>1. PICK z : z = NothingSent
    OBVIOUS
<1>2. PICK no : no = << >>
    OBVIOUS
<1>3. z = [plan |-> None, times |-> {}, entries |-> {}, timing |-> None,
           mapping |-> no, beside |-> {}]
    BY <1>1, <1>2 DEF NothingSent
<1>4. /\ z = [plan |-> z.plan, times |-> z.times, entries |-> z.entries,
              timing |-> z.timing, mapping |-> z.mapping, beside |-> z.beside]
      /\ z.times = {} /\ z.entries = {} /\ z.timing = None /\ z.mapping = no /\ z.beside = {}
    BY <1>3
<1>5. seen = [z EXCEPT !.plan = p, !.timing = t, !.mapping = mapping]
    BY <1>1
<1>6. seen = [plan |-> p, times |-> {}, entries |-> {}, timing |-> t,
            mapping |-> mapping, beside |-> {}]
    BY <1>4, <1>5
<1> QED
    BY <1>2, <1>6

LEMMA StartsByHand ==
    ASSUME NEW p, NEW hand, NEW rows, NEW seen,
           seen = [NothingSent EXCEPT !.plan = p, !.times = hand, !.entries = rows]
    PROVE  seen = [plan |-> p, times |-> hand, entries |-> rows, timing |-> None,
                   mapping |-> << >>, beside |-> {}]
<1>1. PICK z : z = NothingSent
    OBVIOUS
<1>2. PICK no : no = << >>
    OBVIOUS
<1>3. z = [plan |-> None, times |-> {}, entries |-> {}, timing |-> None,
           mapping |-> no, beside |-> {}]
    BY <1>1, <1>2 DEF NothingSent
<1>4. /\ z = [plan |-> z.plan, times |-> z.times, entries |-> z.entries,
              timing |-> z.timing, mapping |-> z.mapping, beside |-> z.beside]
      /\ z.times = {} /\ z.entries = {} /\ z.timing = None /\ z.mapping = no /\ z.beside = {}
    BY <1>3
<1>5. seen = [z EXCEPT !.plan = p, !.times = hand, !.entries = rows]
    BY <1>1
<1>6. seen = [plan |-> p, times |-> hand, entries |-> rows, timing |-> None,
            mapping |-> no, beside |-> {}]
    BY <1>4, <1>5
<1> QED
    BY <1>2, <1>6

LEMMA GeneratePlanKeeps ==
    ASSUME LessonsInv, NEW r \in Requests, NEW p \in Plans, NEW t \in Timings,
           NEW mapping \in Mappings, GeneratePlan(r, p, t, mapping),
           started' \in 0..MaxStarted
    PROVE  LessonsInv'
<1>0. PICK seen : seen = [NothingSent EXCEPT !.plan = p, !.timing = t, !.mapping = mapping]
    OBVIOUS
<1>1. /\ seen = [plan |-> p, times |-> {}, entries |-> {}, timing |-> t,
                 mapping |-> mapping, beside |-> {}]
      /\ seen.plan = p /\ seen.timing = t /\ seen.mapping = mapping
    <2>1. seen = [plan |-> p, times |-> {}, entries |-> {}, timing |-> t,
                  mapping |-> mapping, beside |-> {}]
        BY <1>0, StartsGenerating
    <2> QED
        BY <2>1
<1>2. /\ Draw(p) /\ Begin(r, <<"busy">>, seen)
      /\ plan' = plan /\ times' = times /\ entries' = entries /\ made' = made
    BY <1>0 DEF GeneratePlan, lessons
<1>3. Accepted(seen) /\ Accepted(seen)'
    BY <1>1 DEF GeneratePlan, Accepted
<1>4. /\ <<"busy">> \in Seq(LessonSteps) /\ Len(<<"busy">>) = 1 /\ <<"busy">> # << >>
      /\ DOMAIN <<"busy">> = {1} /\ ToSet(<<"busy">>) = {"busy"}
    <2>1. "busy" \in LessonSteps
        BY DEF LessonSteps
    <2>2. DOMAIN <<"busy">> = {1} /\ <<"busy">>[1] = "busy"
        OBVIOUS
    <2> QED
        BY <2>1, <2>2 DEF ToSet
<1> DEFINE steps == <<"busy">>
<1> HIDE DEF steps
<1>5. /\ todo'[r] = steps /\ sent'[r] = seen /\ p \in used' /\ Unwritten(r)'
    <2>1. steps \in Seq(LessonSteps) /\ Begin(r, steps, seen)
        BY <1>2, <1>4 DEF steps
    <2> QED
        BY <1>1, <1>2, <2>1, BeginFacts
<1>6. LessonInv(r)'
    <2>1. Left(r)' = {"busy"} /\ Len(todo'[r]) = 1 /\ todo'[r] # << >>
        BY <1>4, <1>5 DEF Left, steps
    <2>2. \A i \in DOMAIN todo'[r] : i = 1
        BY <1>4, <1>5 DEF steps
    <2>3. Accepted(sent[r])'
        BY <1>3, <1>5 DEF Accepted
    <2>4. sent'[r].plan \in used'
        BY <1>1, <1>5
    <2> QED
        BY <1>1, <1>5, <2>1, <2>2, <2>3, <2>4 DEF LessonInv
<1> QED
    BY <1>1, <1>2, <1>4, <1>6, BeginKeeps

LEMMA CreatePlanKeeps ==
    ASSUME LessonsInv, NEW r \in Requests, NEW p \in Plans, NEW hand \in HandTimes,
           NEW rows \in HandEntries, CreatePlan(r, p, hand, rows),
           started' \in 0..MaxStarted
    PROVE  LessonsInv'
<1>0. PICK seen : seen = [NothingSent EXCEPT !.plan = p, !.times = hand, !.entries = rows]
    OBVIOUS
<1> DEFINE w == Writing(hand, rows)
<1>1. /\ seen = [plan |-> p, times |-> hand, entries |-> rows, timing |-> None,
                 mapping |-> << >>, beside |-> {}]
      /\ seen.plan = p /\ seen.times = hand /\ seen.entries = rows /\ seen.timing = None
    <2>1. seen = [plan |-> p, times |-> hand, entries |-> rows, timing |-> None,
                  mapping |-> << >>, beside |-> {}]
        BY <1>0, StartsByHand
    <2> QED
        BY <2>1
<1>2. /\ Draw(p) /\ Begin(r, w, seen)
      /\ plan' = plan /\ times' = times /\ entries' = entries /\ made' = made
    BY <1>0 DEF CreatePlan, lessons
<1>3. hand \in SUBSET HandTime /\ rows \in SUBSET HandEntry
    BY LessonsAssumption DEF HandTime, HandEntry
<1>4. /\ w \in Seq(LessonSteps) /\ w # << >>
      /\ ToSet(w) \subseteq {"row", "times", "entries"}
      /\ \A i \in DOMAIN w : w[i] \in {"busy", "row"} => i = 1
    BY WritingShape
<1> HIDE DEF w
<1>5. /\ todo'[r] = w /\ sent'[r] = seen /\ p \in used' /\ Unwritten(r)'
    BY <1>1, <1>2, <1>4, BeginFacts
<1>6. LessonInv(r)'
    <2>1. Left(r)' \subseteq {"row", "times", "entries"}
        BY <1>4, <1>5 DEF Left
    <2>2. /\ sent'[r].plan \in used' /\ sent'[r].timing = None
          /\ sent'[r].times \in SUBSET HandTime /\ sent'[r].entries \in SUBSET HandEntry
        BY <1>1, <1>3, <1>5
    <2>3. "busy" \notin Left(r)'
        BY <2>1
    <2>4. /\ sent'[r] = [plan |-> sent'[r].plan, times |-> sent'[r].times,
                         entries |-> sent'[r].entries, timing |-> sent'[r].timing,
                         mapping |-> sent'[r].mapping, beside |-> sent'[r].beside]
          /\ \A i \in DOMAIN todo'[r] : todo'[r][i] \in {"busy", "row"} => i = 1
        BY <1>1, <1>4, <1>5
    <2> QED
        BY <1>5, <2>2, <2>3, <2>4 DEF LessonInv, HandTime, HandEntry
<1> QED
    BY <1>1, <1>2, <1>4, <1>6, BeginKeeps

\* From here on nothing is known of the timetable.
LEMMA UpdatePlanKeeps ==
    ASSUME LessonsInv, NEW r \in Requests, NEW p \in Plans, NEW hand \in HandTimes \cup {None},
           NEW rows \in HandEntries \cup {None}, UpdatePlan(r, p, hand, rows),
           started' \in 0..MaxStarted
    PROVE  LessonsInv'
<1>0. PICK seen : seen = [NothingSent EXCEPT !.plan = p, !.times = hand, !.entries = rows]
    OBVIOUS
<1> DEFINE w == Replaces(hand, "clearTimes", "times")
                \o Replaces(rows, "clearEntries", "entries")
           Forget(x) == [x EXCEPT !.beside = @ \ {p}]
<1>1. /\ seen = [plan |-> p, times |-> hand, entries |-> rows, timing |-> None,
                 mapping |-> << >>, beside |-> {}]
      /\ seen.plan = p /\ seen.times = hand /\ seen.entries = rows /\ seen.timing = None
    <2>1. seen = [plan |-> p, times |-> hand, entries |-> rows, timing |-> None,
                  mapping |-> << >>, beside |-> {}]
        BY <1>0, StartsByHand
    <2> QED
        BY <2>1
<1>2. /\ p \in plan /\ todo[r] = << >>
      /\ plan' = plan /\ times' = times /\ entries' = entries /\ used' = used
      /\ todo' = [todo EXCEPT ![r] = w]
      /\ sent' = [q \in Requests |-> IF q # r THEN Forget(sent[q]) ELSE seen]
      /\ made' = [q \in DOMAIN made \ {p} |-> Forget(made[q])]
    BY <1>0 DEF UpdatePlan, lessons, Replaces
<1>3. /\ hand # None => hand \in SUBSET HandTime
      /\ rows # None => rows \in SUBSET HandEntry
    BY LessonsAssumption DEF HandTime, HandEntry
<1>4. /\ w \in Seq(LessonSteps)
      /\ ToSet(w) \subseteq {"clearTimes", "times", "clearEntries", "entries"}
      /\ "times" \in ToSet(w) => hand # None
      /\ "entries" \in ToSet(w) => rows # None
      /\ \A i \in DOMAIN w : w[i] \notin {"busy", "row"}
    BY UpdatingShape
<1> HIDE DEF w
<1>5. /\ todo' \in [Requests -> Seq(LessonSteps)] /\ DOMAIN sent' = Requests
      /\ todo'[r] = w /\ sent'[r] = seen
      /\ \A q \in Requests \ {r} : todo'[q] = todo[q] /\ sent'[q] = Forget(sent[q])
    BY <1>2, <1>4 DEF LessonsInv
<1>6. \A q \in Requests \ {r} :
          /\ sent'[q] = [plan |-> sent[q].plan, times |-> sent[q].times,
                         entries |-> sent[q].entries, timing |-> sent[q].timing,
                         mapping |-> sent[q].mapping, beside |-> sent[q].beside \ {p}]
          /\ Left(q)' = Left(q)
    <2> SUFFICES ASSUME NEW q \in Requests \ {r}
                 PROVE  /\ sent'[q] = [plan |-> sent[q].plan, times |-> sent[q].times,
                                       entries |-> sent[q].entries, timing |-> sent[q].timing,
                                       mapping |-> sent[q].mapping,
                                       beside |-> sent[q].beside \ {p}]
                        /\ Left(q)' = Left(q)
        OBVIOUS
    <2>1. PICK l : l = sent[q]
        OBVIOUS
    <2>2. l = [plan |-> l.plan, times |-> l.times, entries |-> l.entries,
               timing |-> l.timing, mapping |-> l.mapping, beside |-> l.beside]
        BY <2>1 DEF LessonsInv, LessonInv
    <2>3. Forget(l) = [plan |-> l.plan, times |-> l.times, entries |-> l.entries,
                       timing |-> l.timing, mapping |-> l.mapping, beside |-> l.beside \ {p}]
        BY <2>2
    <2> QED
        BY <1>5, <2>1, <2>3 DEF Left
<1>7. \A u : TimesOf(u)' = TimesOf(u) /\ EntriesOf(u)' = EntriesOf(u)
    BY <1>2 DEF TimesOf, EntriesOf
<1>8. \A u : u # p => \A q \in Requests : Serves(q, u)' => Serves(q, u) /\ q # r
    BY <1>1, <1>5, <1>6 DEF Serves
<1>9. \A S : Quiet(S) => Quiet(S \ {p})'
    BY <1>2, <1>8 DEF Quiet
<1>10. ASSUME NEW m, NEW n, n.timing = m.timing, n.mapping = m.mapping,
              n.beside = m.beside \ {p}
       PROVE  /\ \A e : Suits(e, m) => Suits(e, n)'
              /\ SlotsFor(n) = SlotsFor(m) /\ (Accepted(m) => Accepted(n))
    <2>1. SlotsFor(n) = SlotsFor(m) /\ SlotsFor(n)' = SlotsFor(m) /\ (Accepted(m) => Accepted(n))
        BY <1>10 DEF SlotsFor, Accepted
    <2> QED
        BY <1>7, <1>10, <2>1 DEF Suits
<1>11. LessonInv(r)'
    <2>1. Left(r)' = ToSet(w)
        BY <1>5 DEF Left
    <2>2. /\ sent'[r].plan \in used' /\ sent'[r].timing = None
          /\ "times" \in ToSet(w) => sent'[r].times \in SUBSET HandTime
          /\ "entries" \in ToSet(w) => sent'[r].entries \in SUBSET HandEntry
        BY <1>1, <1>2, <1>3, <1>4, <1>5 DEF LessonsInv, LessonsTypeOK
    <2>3. Left(r)' \cap {"busy", "row"} = {} /\ "busy" \notin Left(r)'
        BY <1>4, <2>1
    <2>4. /\ sent'[r] = [plan |-> sent'[r].plan, times |-> sent'[r].times,
                         entries |-> sent'[r].entries, timing |-> sent'[r].timing,
                         mapping |-> sent'[r].mapping, beside |-> sent'[r].beside]
          /\ \A i \in DOMAIN todo'[r] : todo'[r][i] \in {"busy", "row"} => i = 1
        BY <1>1, <1>4, <1>5
    <2> QED
        BY <2>1, <2>2, <2>3, <2>4 DEF LessonInv, HandTime, HandEntry
<1>12. ASSUME NEW q \in Requests \ {r} PROVE LessonInv(q)'
    <2>1. LessonInv(q)
        BY DEF LessonsInv
    <2>2. PICK l : l = sent[q]
        OBVIOUS
    <2>3. PICK n : n = sent'[q]
        OBVIOUS
    <2>4. /\ n.plan = l.plan /\ n.times = l.times /\ n.entries = l.entries
          /\ n.timing = l.timing /\ n.mapping = l.mapping /\ n.beside = l.beside \ {p}
          /\ n = [plan |-> n.plan, times |-> n.times, entries |-> n.entries,
                  timing |-> n.timing, mapping |-> n.mapping, beside |-> n.beside]
        <3>1. n = [plan |-> l.plan, times |-> l.times, entries |-> l.entries,
                   timing |-> l.timing, mapping |-> l.mapping, beside |-> l.beside \ {p}]
            BY <1>6, <2>2, <2>3
        <3> QED
            BY <3>1
    <2>5. todo'[q] = todo[q] /\ Left(q)' = Left(q)
        BY <1>5, <1>6
    <2>6. SlotsFor(n) = SlotsFor(l) /\ (Accepted(l) => Accepted(n))
          /\ \A e : Suits(e, l) => Suits(e, n)'
        BY <1>10, <2>4
    <2>7. ASSUME todo[q] # << >>, Unwritten(q) PROVE Unwritten(q)'
        <3>1. l.plan # p
            BY <1>2, <2>2, <2>7 DEF Unwritten
        <3>2. l.plan \notin plan' \cup DOMAIN made'
            BY <1>2, <2>2, <2>7 DEF Unwritten
        <3>3. \A v \in Requests \ {q} : ~Serves(v, l.plan)'
            BY <1>8, <2>2, <2>7, <3>1 DEF Unwritten
        <3>4. TimesOf(l.plan)' = {} /\ EntriesOf(l.plan)' = {}
            BY <1>2, <2>2, <2>7 DEF Unwritten, TimesOf, EntriesOf
        <3>5. sent'[q].plan = l.plan
            BY <2>3, <2>4
        <3> QED
            BY <1>2, <2>2, <2>7, <3>1, <3>2, <3>3, <3>4, <3>5
            DEF Unwritten, TimesOf, EntriesOf
    <2>8. ASSUME Found(q) PROVE Found(q)'
        <3>1. /\ "times" \in Left(q) => l.times = SlotsFor(l)
              /\ "entries" \in Left(q) => \A e \in l.entries : Suits(e, l)
              /\ Quiet(l.beside)
            BY <2>2, <2>8 DEF Found
        <3>2. Quiet(n.beside)'
            BY <1>9, <2>4, <3>1
        <3>3. SlotsFor(n)' = SlotsFor(n)
            BY DEF SlotsFor
        <3> QED
            BY <2>3, <2>4, <2>5, <2>6, <3>1, <3>2, <3>3 DEF Found
    <2>9. Accepted(n)' <=> Accepted(n)
        BY DEF Accepted
    <2>10. /\ sent'[q] = [plan |-> sent'[q].plan, times |-> sent'[q].times,
                          entries |-> sent'[q].entries, timing |-> sent'[q].timing,
                          mapping |-> sent'[q].mapping, beside |-> sent'[q].beside]
           /\ \A i \in DOMAIN todo'[q] : todo'[q][i] \in {"busy", "row"} => i = 1
        BY <2>1, <2>3, <2>4, <2>5 DEF LessonInv
    <2>11. ASSUME todo'[q] # << >>
           PROVE  /\ sent'[q].plan \in used'
                  /\ "times" \in Left(q)' => sent'[q].times \in SUBSET HandTime
                  /\ "entries" \in Left(q)' => sent'[q].entries \in SUBSET HandEntry
                  /\ "busy" \in Left(q)' => Len(todo'[q]) = 1 /\ Accepted(n)'
                  /\ Left(q)' \cap {"busy", "row"} # {} => Unwritten(q)'
                  /\ sent'[q].timing # None /\ "busy" \notin Left(q)' =>
                         /\ Accepted(n)' /\ Found(q)'
                         /\ Left(q)' \subseteq {"row", "times", "entries"}
        <3>1. todo[q] # << >>
            BY <2>5, <2>11
        <3>2. /\ l.plan \in used
              /\ "times" \in Left(q) => l.times \in SUBSET HandTime
              /\ "entries" \in Left(q) => l.entries \in SUBSET HandEntry
              /\ "busy" \in Left(q) => Len(todo[q]) = 1 /\ Accepted(l)
              /\ Left(q) \cap {"busy", "row"} # {} => Unwritten(q)
              /\ l.timing # None /\ "busy" \notin Left(q) =>
                    /\ Accepted(l) /\ Found(q)
                    /\ Left(q) \subseteq {"row", "times", "entries"}
            BY <2>1, <2>2, <3>1 DEF LessonInv
        <3> QED
            BY <1>2, <2>3, <2>4, <2>5, <2>6, <2>7, <2>8, <2>9, <3>1, <3>2
    <2>12. Accepted(sent[q])' <=> Accepted(n)'
        BY <2>3 DEF Accepted
    <2> QED
        BY <2>10, <2>11, <2>12 DEF LessonInv, HandTime, HandEntry
<1>13. ASSUME NEW u \in DOMAIN made' PROVE MadeInv(u)' /\ made'[u] \in Made
    <2>1. u \in DOMAIN made /\ u # p /\ made'[u] = Forget(made[u])
        BY <1>2, <1>13
    <2>2. MadeInv(u) /\ made[u] \in Made
        BY <2>1 DEF LessonsInv, LessonsTypeOK
    <2>3. PICK m \in Made : m = made[u]
        BY <2>2
    <2>4. PICK n : n = made'[u]
        OBVIOUS
    <2>5. /\ n = [timing |-> m.timing, mapping |-> m.mapping, beside |-> m.beside \ {p}]
          /\ n \in Made
          /\ n.timing = m.timing /\ n.mapping = m.mapping /\ n.beside = m.beside \ {p}
        BY <2>1, <2>3, <2>4 DEF Made
    <2>6. SlotsFor(n) = SlotsFor(m) /\ (Accepted(m) => Accepted(n))
          /\ \A e : Suits(e, m) => Suits(e, n)'
        BY <1>10, <2>5
    <2>7. /\ Accepted(m) /\ TimesOf(u) \in {{}, On(u, SlotsFor(m))}
          /\ \A e \in EntriesOf(u) : Suits(e, m)
          /\ Quiet(m.beside)
        BY <2>2, <2>3 DEF MadeInv
    <2>8. Quiet(n.beside)'
        BY <1>9, <2>5, <2>7
    <2>9. /\ Accepted(n)' /\ SlotsFor(n)' = SlotsFor(n)
        BY <2>6, <2>7 DEF Accepted, SlotsFor
    <2>10. ASSUME NEW q \in Requests, Serves(q, u)'
           PROVE  /\ n = [timing |-> sent'[q].timing, mapping |-> sent'[q].mapping,
                          beside |-> sent'[q].beside]
                  /\ sent'[q].timing # None /\ Left(q)' \subseteq {"times", "entries"}
        <3>1. Serves(q, u) /\ q # r
            BY <1>8, <2>1, <2>10
        <3>2. /\ m = [timing |-> sent[q].timing, mapping |-> sent[q].mapping,
                      beside |-> sent[q].beside]
              /\ sent[q].timing # None /\ Left(q) \subseteq {"times", "entries"}
            BY <2>2, <2>3, <3>1 DEF MadeInv
        <3>3. /\ sent'[q].timing = sent[q].timing /\ sent'[q].mapping = sent[q].mapping
              /\ sent'[q].beside = sent[q].beside \ {p} /\ Left(q)' = Left(q)
            <4>1. PICK l : l = sent[q]
                OBVIOUS
            <4>2. sent'[q] = [plan |-> l.plan, times |-> l.times, entries |-> l.entries,
                              timing |-> l.timing, mapping |-> l.mapping,
                              beside |-> l.beside \ {p}]
                BY <1>6, <3>1, <4>1
            <4> QED
                BY <1>6, <3>1, <4>1, <4>2
        <3>4. m.timing = sent[q].timing /\ m.mapping = sent[q].mapping
              /\ m.beside = sent[q].beside
            BY <3>2
        <3> QED
            BY <2>5, <3>2, <3>3, <3>4
    <2> QED
        BY <1>7, <2>4, <2>5, <2>6, <2>7, <2>8, <2>9, <2>10 DEF MadeInv
<1>14. LessonsTypeOK'
    <2>1. \A q \in Requests : ToSet(todo'[q]) \subseteq LessonSteps
        BY <1>5 DEF ToSet
    <2>2. DOMAIN made' \subseteq used' /\ made' \in [DOMAIN made' -> Made]
        BY <1>2, <1>13 DEF LessonsInv, LessonsTypeOK
    <2> QED
        BY <1>2, <2>1, <2>2 DEF LessonsInv, LessonsTypeOK, PeriodTime, Entry
<1> QED
    BY <1>2, <1>5, <1>11, <1>12, <1>13, <1>14 DEF LessonsInv

-----------------------------------------------------------------------------
(* The theorems about the lessons.                                         *)

LEMMA LessonsStart ==
    ASSUME LessonsInit
    PROVE  LessonsInv
<1>1. /\ plan = {} /\ times = {} /\ entries = {} /\ used = {} /\ started = 0
      /\ todo = [r \in Requests |-> << >>] /\ sent = [r \in Requests |-> NothingSent]
      /\ made = << >>
    BY DEF LessonsInit
<1>2. DOMAIN made = {} /\ made \in [{} -> Made]
    BY <1>1
<1>3. \A r \in Requests : todo[r] = << >> /\ ToSet(todo[r]) = {} /\ DOMAIN todo[r] = {}
    BY <1>1 DEF ToSet
<1>4. IsFiniteSet(used) /\ used = 1..Cardinality(used)
    <2>1. Cardinality({}) = 0 /\ IsFiniteSet({})
        BY FS_EmptySet
    <2> QED
        BY <1>1, <2>1
<1>5. todo \in [Requests -> Seq(LessonSteps)] /\ DOMAIN sent = Requests
    BY <1>1
<1>6. LessonsTypeOK
    BY <1>1, <1>2, <1>3, LessonsAssumption DEF LessonsTypeOK
<1>7. ASSUME NEW r \in Requests PROVE LessonInv(r)
    <2>1. sent[r] = NothingSent
        BY <1>1
    <2>2. sent[r] = [plan |-> sent[r].plan, times |-> sent[r].times,
                     entries |-> sent[r].entries, timing |-> sent[r].timing,
                     mapping |-> sent[r].mapping, beside |-> sent[r].beside]
        BY <2>1 DEF NothingSent
    <2> QED
        BY <1>3, <2>2 DEF LessonInv
<1> QED
    BY <1>1, <1>2, <1>4, <1>5, <1>6, <1>7 DEF LessonsInv

LEMMA LessonsStep ==
    ASSUME LessonsInv, LessonsNext
    PROVE  LessonsInv'
<1>0. started \in 0..MaxStarted
    BY DEF LessonsInv, LessonsTypeOK
<1>1. CASE Rest
    BY <1>0, <1>1, OnlyPlansGo DEF Rest, lessonVars
<1>2. CASE started < MaxStarted /\ StartLesson /\ started' = started + 1
    <2>1. started' \in 0..MaxStarted
        BY <1>0, <1>2, LessonsAssumption
    <2>2. PICK r \in Requests :
              \/ \E p \in Plans :
                    \/ \E t \in Timings, mapping \in Mappings : GeneratePlan(r, p, t, mapping)
                    \/ \E hand \in HandTimes, rows \in HandEntries : CreatePlan(r, p, hand, rows)
                    \/ \E hand \in HandTimes \cup {None}, rows \in HandEntries \cup {None} :
                          UpdatePlan(r, p, hand, rows)
                    \/ RemovePlan(r, p)
              \/ LessonFails(r)
        BY <1>2 DEF StartLesson
    <2> QED
        BY <2>1, <2>2, GeneratePlanKeeps, CreatePlanKeeps, UpdatePlanKeeps, RemovePlanKeeps,
           LessonFailsKeeps
<1>3. CASE (\E r \in Requests : ContinueLesson(r)) /\ UNCHANGED started
    <2>1. PICK r \in Requests : ContinueLesson(r)
        BY <1>3
    <2>2. started' \in 0..MaxStarted
        BY <1>0, <1>3
    <2> QED
        BY <2>1, <2>2, FindBusyKeeps, InsertPlanKeeps, ClearTimesKeeps, InsertTimesKeeps,
           ClearEntriesKeeps, InsertEntriesKeeps DEF ContinueLesson
<1> QED
    BY <1>1, <1>2, <1>3 DEF LessonsNext

LEMMA LessonsInductive ==
    /\ TimetablesInit => LessonsInv
    /\ LessonsInv /\ [TimetablesNext]_<<exams, vars, seating, lessonVars>> => LessonsInv'
<1>1. TimetablesInit => LessonsInv
    BY LessonsStart DEF TimetablesInit
<1>2. ASSUME LessonsInv, UNCHANGED lessonVars PROVE LessonsInv'
    <2>1. started' \in 0..MaxStarted
        BY <1>2 DEF lessonVars, LessonsInv, LessonsTypeOK
    <2> QED
        BY <1>2, <2>1, OnlyPlansGo DEF lessonVars
<1>3. ASSUME LessonsInv, TimetablesNext PROVE LessonsInv'
    BY <1>2, <1>3, LessonsStep DEF TimetablesNext
<1> QED
    BY <1>1, <1>2, <1>3

LEMMA LessonsMeanApart ==
    ASSUME LessonsInv
    PROVE  TeachersApart
<1> SUFFICES ASSUME NEW p \in plan \cap DOMAIN made, NEW a \in Busy, NEW b \in Busy, a # b,
                    a[1].plan = p, b[1].plan \in made[p].beside \cup {p},
                    a[1].teacher = b[1].teacher, a[1].day = b[1].day
             PROVE  ~(a[2].start < b[2].end /\ a[2].end > b[2].start)
    BY DEF TeachersApart
<1>1. PICK m : m = made[p]
    OBVIOUS
<1>2. /\ Accepted(m) /\ TimesOf(p) \in {{}, On(p, SlotsFor(m))}
      /\ \A e \in EntriesOf(p) : Suits(e, m)
    BY <1>1 DEF LessonsInv, MadeInv
<1>3. /\ a[1] \in entries /\ a[2] \in times /\ b[1] \in entries /\ b[2] \in times
      /\ a[2].plan = p /\ b[2].plan = b[1].plan
      /\ a[1].period = a[2].period /\ b[1].period = b[2].period
      /\ a = <<a[1], a[2]>> /\ b = <<b[1], b[2]>>
    BY DEF Busy
<1>4. ASSUME NEW x \in TimesOf(p)
      PROVE  \E s \in SlotsFor(m) : /\ x = [s EXCEPT !.plan = p]
                                    /\ x.period = s.period /\ x.start = s.start
                                    /\ x.end = s.end
    <2>1. PICK s \in SlotsFor(m) : x = [s EXCEPT !.plan = p]
        BY <1>2 DEF On
    <2>2. s \in SlotRow
        BY <1>2, SlotSet
    <2> QED
        BY <2>1, <2>2 DEF SlotRow
<1>5. PICK s \in SlotsFor(m) : /\ a[2] = [s EXCEPT !.plan = p] /\ a[2].period = s.period
                               /\ a[2].start = s.start /\ a[2].end = s.end
    BY <1>3, <1>4 DEF TimesOf
<1>6. CASE b[1].plan # p
    <2>1. b[1].plan \in m.beside
        BY <1>1, <1>6
    <2>2. b[1] \in EntriesOf(b[1].plan) /\ b[2] \in TimesOf(b[1].plan)
        BY <1>3 DEF EntriesOf, TimesOf
    <2>3. Suits(a[1], m)
        BY <1>2, <1>3 DEF EntriesOf
    <2>4. ~Overlap(s, b[2])
        BY <1>3, <1>5, <2>1, <2>2, <2>3 DEF Suits
    <2> QED
        BY <1>5, <2>4 DEF Overlap
<1>7. CASE b[1].plan = p
    <2>1. PICK u \in SlotsFor(m) : /\ b[2] = [u EXCEPT !.plan = p] /\ b[2].period = u.period
                                   /\ b[2].start = u.start /\ b[2].end = u.end
        BY <1>3, <1>4, <1>7 DEF TimesOf
    <2>2. s # u
        <3> SUFFICES ASSUME s = u PROVE FALSE
            OBVIOUS
        <3>1. a[2] = b[2]
            BY <1>5, <2>1
        <3>2. a[1] = b[1]
            <4>1. PICK e \in Entry : e = a[1]
                BY <1>3 DEF LessonsInv, LessonsTypeOK
            <4>2. PICK f \in Entry : f = b[1]
                BY <1>3 DEF LessonsInv, LessonsTypeOK
            <4>3. e.plan = f.plan /\ e.day = f.day /\ e.period = f.period
                  /\ e.teacher = f.teacher
                BY <1>3, <1>7, <3>1, <4>1, <4>2
            <4>4. e = f
                BY <4>3 DEF Entry
            <4> QED
                BY <4>1, <4>2, <4>4
        <3> QED
            BY <1>3, <3>1, <3>2
    <2>3. s.end <= u.start \/ u.end <= s.start
        BY <1>2, <2>2, SlotSet
    <2>4. s \in SlotRow /\ u \in SlotRow
        BY <1>2, SlotSet
    <2> QED
        BY <1>5, <2>1, <2>3, <2>4 DEF SlotRow
<1> QED
    BY <1>6, <1>7

LEMMA LessonsMeanFilled ==
    ASSUME LessonsInv
    PROVE  DayIsFilled
<1> SUFFICES ASSUME NEW p \in DOMAIN made, TimesOf(p) # {}
             PROVE  FilledDay(TimesOf(p), made[p].timing, Len(made[p].mapping))
    BY DEF DayIsFilled, FilledDay, TimesOf
<1>1. PICK m : m = made[p]
    OBVIOUS
<1>2. Accepted(m) /\ TimesOf(p) = On(p, SlotsFor(m))
    BY <1>1 DEF LessonsInv, MadeInv
<1> QED
    BY <1>1, <1>2, SlotsFillDay

\* The rows of the timetables, of their times and entries and of the exams and seats are typed,
\* whichever timetables are generated, written by hand, replaced or removed.
THEOREM LessonsTyped == TimetablesSpec => []TimetablesTypeOK
<1>1. LessonsInv => LessonsTypeOK
    BY DEF LessonsInv
<1>2. SeatingTypeOK /\ LessonsTypeOK => TimetablesTypeOK
    BY DEF TimetablesTypeOK
<1> QED
    BY <1>1, <1>2, TypeCorrect, LessonsInductive, PTL DEF TimetablesSpec

\* timetable.repository.ts:232: whatever the requests do at the same time, a teacher of a
\* generated timetable is not in two places at a time in it and the timetables it was generated
\* beside, as long as neither is updated.
THEOREM TeachersStayApart == TimetablesSpec => []TeachersApart
<1> QED
    BY LessonsMeanApart, LessonsInductive, PTL DEF TimetablesSpec

\* timetable.service.ts:283: whatever timing autoGenerate accepts and for as many subjects as
\* there are, the periods that it writes follow one another from the start of the day to its
\* end, one for each subject and lunch.
THEOREM DayStaysFilled == TimetablesSpec => []DayIsFilled
<1> QED
    BY LessonsMeanFilled, LessonsInductive, PTL DEF TimetablesSpec
=============================================================================
