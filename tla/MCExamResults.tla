---------------------------- MODULE MCExamResults ----------------------------
(* Two students and one subject: the handlers are interchangeable, and so    *)
(* are the students.                                                         *)
EXTENDS ExamResults, TLC

MCEntry == {[marks |-> 1, absent |-> FALSE], [marks |-> NoMarks, absent |-> FALSE],
            [marks |-> NoMarks, absent |-> TRUE]}

Symmetry == Permutations(Requests) \cup Permutations(Students)
=============================================================================
