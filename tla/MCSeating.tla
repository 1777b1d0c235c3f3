------------------------------ MODULE MCSeating ------------------------------
(* Two exams, two classes of a student each, two rooms of one seat, which may get *)
(* a second one, three requests.  Rows have one subject and one slot, and nobody  *)
(* edits them.  Requests and exams are interchangeable.                           *)
EXTENDS ExamSeating, TLC
CONSTANTS c1, c2, s1, s2, t1

MCTeacherOf == 1 :> t1
MCClassOf == (s1 :> c1) @@ (s2 :> c2)
MCCapacity == [h \in Rooms |-> 1]
Symmetry == Permutations(Requests) \cup Permutations(Exams)
=============================================================================
