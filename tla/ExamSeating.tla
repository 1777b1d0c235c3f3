----------------------------- MODULE ExamSeating -----------------------------
(***************************************************************************)
(* The seats of an exam's students: exam-sitting.service.ts, beside the    *)
(* timetable.  The two meet where schedule-hall-sync.listener.ts writes    *)
(* the room in which most of a class sits into the rows of the class, and  *)
(* where the listener of a deleted exam removes rows and seats.            *)
(*                                                                         *)
(* A request is one of ExamTimetable's, over there as soon as it begins    *)
(* here.  Seat numbers, and the order in which a shuffle puts students     *)
(* into a room, are left out: it fills the rooms with any of them.         *)
(***************************************************************************)
EXTENDS ExamTimetable, FiniteSetsExt

CONSTANTS
    Students, SeatIds,
    ClassOf,        \* class of a student, in the year of the exams
    Capacity,       \* of each room at the start
    Capacities      \* what it may be changed to

ASSUME SeatingAssumption ==
    /\ ClassOf \in [Students -> Classes]
    /\ Capacities \subseteq Nat /\ Capacity \in [Rooms -> Capacities]
    /\ IsFiniteSet(SeatIds) /\ IsFiniteSet(Rooms) /\ IsFiniteSet(Students)

Seat == [exam : Exams, student : Students, room : Rooms]

VARIABLES
    seat,       \* table exam_sitting_plans: the rows that are not deleted
    capacity,   \* sitting_capacity of each room
    at, held,   \* next step of each request, and what it was sent or has worked out
    assigned,   \* ROOMS_ASSIGNED events whose listener has not finished
    crowded,    \* history: exams whose seats were written while another handler had checked
                \* them, without clearing, twice for a student by one request, by a shuffle
                \* that names a room twice, or by an update for a student who has one
    resized     \* history: rooms whose capacity was changed

seating == <<seat, capacity, at, held, assigned, crowded, resized>>

\* A place is a student, a room, and which time the request names the student: bound of
\* two.  looks: it has made sure that there is room for the places, or does when it clears
\* them.
SeatPlaces == Students \X Rooms \X {1, 2}
Held == [exam |-> None, places |-> {}, id |-> None, sent |-> {}, looks |-> FALSE]
IsHeld(h) ==
    /\ DOMAIN h = DOMAIN Held
    /\ h.exam \in Exams \cup {None} /\ h.places \subseteq SeatPlaces
    /\ h.id \in SeatIds \cup {None} /\ h.sent \subseteq {"student", "room"}
    /\ h.looks \in BOOLEAN
\* An event, and once the seats are counted a room for each class it still has to set.
IsAssigned(a) ==
    /\ DOMAIN a = {"by", "exam", "counted", "best"}
    /\ a.by \in Requests /\ a.exam \in Exams /\ a.counted \in BOOLEAN
    /\ IsTable(a.best, Classes, Rooms)

SeatingInit ==
    /\ Init
    /\ seat = << >>
    /\ capacity = Capacity
    /\ at = [r \in Requests |-> "idle"] /\ held = [r \in Requests |-> Held]
    /\ assigned = {} /\ crowded = {} /\ resized = {}

SeatsOf(e) == {i \in DOMAIN seat : seat[i].exam = e}
Seated(e, s) == \E i \in SeatsOf(e) : seat[i].student = s
countSeatsOccupied(e, h) == Cardinality({i \in SeatsOf(e) : seat[i].room = h})

\* Other handlers that have looked at the seats of e and not written theirs.
Seating(r, e) == {q \in Requests \ {r} : at[q] \notin {"idle", "done"} /\ held[q].exam = e}

Take(r, step, h) ==
    /\ pc[r] = "idle"
    /\ pc' = [pc EXCEPT ![r] = "done"]
    /\ at' = [at EXCEPT ![r] = step]
    /\ held' = [held EXCEPT ![r] = h]
    /\ UNCHANGED <<tables, local, cascade, history>>
Over(r) == at' = [at EXCEPT ![r] = "done"] /\ held' = [held EXCEPT ![r] = Held]
Proceed(r, step) == at' = [at EXCEPT ![r] = step] /\ UNCHANGED held

-----------------------------------------------------------------------------
(* The handlers                                                            *)

Mutant_OneTooMany(e, h, n) == countSeatsOccupied(e, h) + n <= capacity[h] + 1
HasRoom(e, h, n) == countSeatsOccupied(e, h) + n <= capacity[h]
InRoom(places, h) == {x \in places : x[2] = h}

\* bulkCreate: each entry is compared with the table; the seats of its room count the
\* earlier entries, the student does not.  The exam is not looked up.  Bound: two entries.
AssignSeats(r, e, places) ==
    /\ e \in DOMAIN exam
    /\ \A x \in places : x[3] = 2 => \E y \in places : y[1] = x[1] /\ y[3] = 1
    /\ \A x \in places : ~Seated(e, x[1]) /\ HasRoom(e, x[2], Cardinality(InRoom(places, x[2])))
    /\ Take(r, "seat", [Held EXCEPT !.exam = e, !.places = places, !.looks = TRUE])
    /\ UNCHANGED <<seat, capacity, assigned, crowded, resized>>

\* The rooms are filled until the students are seated or the rooms full, whoever sits there;
\* a room that is named twice is filled twice.
Filled(named, rooms, twice) ==
    LET seats == [h \in rooms |-> IF h = twice THEN 2 * capacity[h] ELSE capacity[h]]
        In(f, h) == {x \in named : f[x] = h}
        full == {f \in [named -> rooms \cup {None}] :
                    /\ \A h \in rooms : Cardinality(In(f, h)) <= seats[h]
                    /\ \/ In(f, None) = {}
                       \/ \A h \in rooms : Cardinality(In(f, h)) = seats[h]}
    IN  {{<<x[1], f[x], x[2]>> : x \in named \ In(f, None)} : f \in full}

\* The students of a class that is named twice are read twice.
findStudentsForExam(classes, twice) ==
    {x \in Students \X {1, 2} : ClassOf[x[1]] \in classes /\ (x[2] = 2 => ClassOf[x[1]] = twice)}

\* For the classes that are sent, or those of the exam if none are.  The arrays may name a
\* class or a room twice; bound: one of them.
AutoShuffle(r, e, classes, rooms, twice) ==
    /\ e \in Live
    /\ \E places \in Filled(findStudentsForExam(classes, twice), rooms, twice), clear \in BOOLEAN :
          Take(r, IF clear THEN "clear" ELSE "seat",
               [Held EXCEPT !.exam = e, !.places = places, !.looks = clear /\ twice \notin rooms])
    /\ UNCHANGED <<seat, capacity, assigned, crowded, resized>>

\* softDeleteByExamIds
ClearSeats(r) ==
    LET e == held[r].exam
    IN  /\ at[r] = "clear"
        /\ seat' = [i \in DOMAIN seat \ SeatsOf(e) |-> seat[i]]
        /\ crowded' = IF Seating(r, e) = {} THEN crowded \ {e} ELSE crowded
        /\ Proceed(r, "seat")
        /\ UNCHANGED <<vars, capacity, assigned, resized>>

\* A shuffle that does not clear looks neither at the students' seats nor at the rooms', and
\* one that fills a room twice does not see the first seats.
Crowds(r) ==
    LET h == held[r]
    IN  \/ Seating(r, h.exam) # {}
        \/ \E x, y \in h.places : x # y /\ x[1] = y[1]
        \/ ~h.looks /\ \E x \in h.places :
              Seated(h.exam, x[1]) \/ ~HasRoom(h.exam, x[2], Cardinality(InRoom(h.places, x[2])))

\* An id is drawn afresh: it is not that of a seat, nor of one somebody still means to move.
FreeIds == SeatIds \ (DOMAIN seat \cup {held[q].id : q \in Requests})
InsertSeats(r) ==
    LET h == held[r]
        new == Numbered(FreeIds, h.places)
    IN  /\ at[r] = "seat"
        /\ Cardinality(h.places) <= Cardinality(FreeIds)
        /\ seat' = Upsert(seat, [i \in DOMAIN new |-> [exam |-> h.exam, student |-> new[i][1],
                                                       room |-> new[i][2]]])
        /\ crowded' = IF Crowds(r) THEN crowded \cup {h.exam} ELSE crowded
        /\ assigned' = IF h.places = {} THEN assigned
                       ELSE assigned \cup {[by |-> r, exam |-> h.exam, counted |-> FALSE,
                                            best |-> << >>]}
        /\ Over(r)
        /\ UNCHANGED <<vars, capacity, resized>>

\* update: a seat is moved if the other room has a seat left, and it is given to another
\* student whether that one has a seat or not; no event is emitted.
MoveSeat(r, i, s, h, sent) ==
    /\ i \in DOMAIN seat
    /\ "room" \in sent /\ seat[i].room # h => HasRoom(seat[i].exam, h, 1)
    /\ "student" \notin sent => s = seat[i].student
    /\ "room" \notin sent => h = seat[i].room
    /\ Take(r, "move", [Held EXCEPT !.exam = seat[i].exam, !.id = i, !.sent = sent,
                                    !.places = {<<s, h, 1>>}])
    /\ UNCHANGED <<seat, capacity, assigned, crowded, resized>>

\* A row of the seats of which only what was sent is written.
Moved(x, sent, place) ==
    [x EXCEPT !.student = IF "student" \in sent THEN place[1] ELSE @,
              !.room = IF "room" \in sent THEN place[2] ELSE @]

WriteSeat(r) ==
    LET h == held[r]
        place == CHOOSE x \in h.places : TRUE
    IN  /\ at[r] = "move"
        /\ seat' = IF h.id \in DOMAIN seat THEN [seat EXCEPT ![h.id] = Moved(@, h.sent, place)]
                    ELSE seat
        /\ crowded' = IF \/ Seating(r, h.exam) # {}
                         \/ "student" \in h.sent
                            /\ \E i \in SeatsOf(h.exam) \ {h.id} : seat[i].student = place[1]
                      THEN crowded \cup {h.exam} ELSE crowded
        /\ Over(r)
        /\ UNCHANGED <<vars, capacity, assigned, resized>>

RemoveSeat(r, i) ==
    /\ i \in DOMAIN seat
    /\ Take(r, "done", Held)
    /\ seat' = [k \in DOMAIN seat \ {i} |-> seat[k]]
    /\ UNCHANGED <<capacity, assigned, crowded, resized>>

\* updateDetail does not look at the seats that are taken.
ResizeRoom(r, h, n) ==
    /\ n # capacity[h]
    /\ Take(r, "done", Held)
    /\ capacity' = [capacity EXCEPT ![h] = n]
    /\ resized' = resized \cup {h}
    /\ UNCHANGED <<seat, assigned, crowded>>

SeatingFails(r) ==
    /\ at[r] \notin {"idle", "done"}
    /\ Over(r)
    /\ UNCHANGED <<vars, seat, capacity, assigned, crowded, resized>>

-----------------------------------------------------------------------------
(* handleRoomsAssigned and the deletion of an exam                         *)

InClass(e, c, h) ==
    Cardinality({i \in SeatsOf(e) : ClassOf[seat[i].student] = c /\ seat[i].room = h})
SeatedClasses(e) == {ClassOf[seat[i].student] : i \in SeatsOf(e)}
\* The room in which most students of a class sit, one of them if there are several.
BestRooms(e) ==
    {best \in [SeatedClasses(e) -> Rooms] :
        \A c \in SeatedClasses(e), h \in Rooms : InClass(e, c, h) <= InClass(e, c, best[c])}

CountSeats(a) ==
    /\ a \in assigned /\ ~a.counted
    /\ \E best \in BestRooms(a.exam) :
          assigned' = (assigned \ {a})
                      \cup {x \in {[a EXCEPT !.counted = TRUE, !.best = best]} : best # << >>}
    /\ UNCHANGED <<vars, seat, capacity, at, held, crowded, resized>>

\* One statement for each class, which leaves locked rows as they are.
setHallForClass(a, c) ==
    /\ a \in assigned /\ a.counted /\ c \in DOMAIN a.best
    /\ row' = [i \in DOMAIN row |->
                 IF row[i].exam = a.exam /\ row[i].class = c /\ Unlocked(i)
                 THEN [row[i] EXCEPT !.room = a.best[c]] ELSE row[i]]
    /\ assigned' = (assigned \ {a}) \cup
          {x \in {[a EXCEPT !.best = [k \in DOMAIN @ \ {c} |-> @[k]]]} : x.best # << >>}
    /\ UNCHANGED <<exam, pc, local, cascade, history>>
    /\ UNCHANGED <<seat, capacity, at, held, crowded, resized>>

\* The events of a process that stops, or a listener that fails, are gone.
LoseEvent(a) ==
    /\ a \in assigned /\ assigned' = assigned \ {a}
    /\ UNCHANGED <<vars, seat, capacity, at, held, crowded, resized>>

DeleteExamData(e) ==
    /\ handleExamDeleted(e)
    /\ seat' = [i \in DOMAIN seat \ SeatsOf(e) |-> seat[i]]
    /\ UNCHANGED <<capacity, at, held, assigned, crowded, resized>>

-----------------------------------------------------------------------------
SeatHandler(r) ==
    \/ /\ pc[r] = "idle"
       /\ \/ \E e \in Exams, x, y \in SeatPlaces : AssignSeats(r, e, {x, y})
          \/ \E e \in Live, classes \in SUBSET Classes \ {{}}, rooms \in SUBSET Rooms \ {{}} :
                \E twice \in classes \cup rooms \cup {None} :
                   AutoShuffle(r, e, classes, rooms, twice)
          \/ \E i \in DOMAIN seat, s \in Students, h \in Rooms,
                sent \in SUBSET {"student", "room"} \ {{}} : MoveSeat(r, i, s, h, sent)
          \/ \E i \in DOMAIN seat : RemoveSeat(r, i)
          \/ \E h \in Rooms, n \in Capacities : ResizeRoom(r, h, n)
    \/ ClearSeats(r) \/ InsertSeats(r) \/ WriteSeat(r) \/ SeatingFails(r)

SeatingNext ==
    \/ \E r \in Requests :
          (ExamHandler(r) \/ RowHandler(r) \/ HandlerFails(r)) /\ UNCHANGED seating
    \/ \E r \in Requests : SeatHandler(r)
    \/ \E e \in cascade : DeleteExamData(e)
    \/ \E a \in assigned : CountSeats(a) \/ LoseEvent(a) \/ \E c \in Classes : setHallForClass(a, c)

SeatingSpec == SeatingInit /\ [][SeatingNext]_<<vars, seating>>

-----------------------------------------------------------------------------
(* Properties                                                              *)

SeatingTypeOK ==
    /\ TypeOK
    /\ IsTable(seat, SeatIds, Seat)
    /\ capacity \in [Rooms -> Capacities]
    /\ at \in [Requests -> {"idle", "clear", "seat", "move", "done"}]
    /\ DOMAIN held = Requests /\ \A r \in Requests : IsHeld(held[r])
    /\ \A a \in assigned : IsAssigned(a)
    /\ crowded \subseteq Exams /\ resized \subseteq Rooms

\* exam-sitting.service.ts:110-126: a student has one seat in an exam and a room no more
\* students than seats, unless seats were written in a race, without clearing the old
\* ones, twice for a student by one request, by a shuffle that names a room twice, or by
\* an update for a student who has one; a room whose capacity was changed may have any
\* number.  A shuffle that clears the seats alone makes up for all of it.
SeatsSuffice ==
    \A e \in Exams \ crowded :
        /\ \A i, j \in SeatsOf(e) : seat[i].student = seat[j].student => i = j
        /\ \A h \in Rooms \ resized : countSeatsOccupied(e, h) <= capacity[h]
=============================================================================
