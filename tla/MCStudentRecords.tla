-------------------------- MODULE MCStudentRecords --------------------------
(* Two handlers at a time, two years of which one is there.  Either four are *)
(* started, for two students and for years whose dates, on which nothing of  *)
(* a student depends, are given; or three, and all for years.                *)
EXTENDS StudentRecords, TLC

VARIABLE yearsOnly

DatesGiven ==
    \A r \in Requests :
        pc[r] # "updateYear" /\ (pc[r] = "insertYear" => local[r].span = <<2, 2>>)

RecordsInit ==
    /\ yearsOnly \in BOOLEAN
    /\ Init
    /\ yearsOnly \/ \A y \in DOMAIN year : year[y].span = <<1, 1>>
RecordsNext ==
    /\ UNCHANGED yearsOnly
    /\ \/ ~yearsOnly /\ Next /\ DatesGiven'
       \/ yearsOnly /\ Next /\ UNCHANGED <<tables, history>> /\ started' < MaxStarted
              /\ \A r \in Requests : pc'[r] \notin StudentSteps
       \/ yearsOnly /\ started = MaxStarted - 1 /\ UNCHANGED vars
              /\ \A r \in Requests : pc[r] = "idle"
RecordsSpec == RecordsInit /\ [][RecordsNext]_<<yearsOnly, vars>>

Symmetry == Permutations(Requests) \cup Permutations(Years) \cup Permutations(Students)
=============================================================================
