---------------------------- MODULE MCAttendance ----------------------------
(* Two handlers at a time, any number one after the other.                  *)
EXTENDS StudentAttendance, TLC
MCTiming == [start |-> 480, grace |-> 10, late |-> None, half |-> None, absent |-> 600]
Symmetry == Permutations(Requests) \cup Permutations(Applications) \cup Permutations(Assignments)
=============================================================================
