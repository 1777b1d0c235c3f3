---------------------------- MODULE MCTimetables ----------------------------
(* Exams: two of them, two classes of two subjects, a room, a student and a      *)
(* seat for the listener of the seats, three requests.  Lessons: three           *)
(* timetables, days of five minutes with and without a minute of lunch, one or   *)
(* three subjects, three starts.  Requests and exams are interchangeable.        *)
EXTENDS ClassTimetable, TLC
CONSTANTS c1, c2, s1, t1, t2

MCTeacherOf == (1 :> t1) @@ (2 :> t2)
MCClassOf == s1 :> c1
MCCapacity == [h \in Rooms |-> 1]
MCTimings == {[start |-> 0, end |-> 5, lunchAfter |-> 0, lunch |-> 0],
              [start |-> 1, end |-> 6, lunchAfter |-> 1, lunch |-> 1]}
MCMappings == {<<t1>>, <<t2, t1, t2>>}
MCHandTimes == {{}, {Slot(1, 1, 4, FALSE)}}
MCHandEntries == {{}, {[plan |-> None, day |-> 0, period |-> 1, teacher |-> t1]}}
Symmetry == Permutations(Requests) \cup Permutations(Exams)
=============================================================================
