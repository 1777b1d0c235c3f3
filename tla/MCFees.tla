------------------------------- MODULE MCFees -------------------------------
(* The bills of two students are created, for a monthly fee and a session     *)
(* fee, by three of the requests, or bills of three paise (the tolerance is   *)
(* one) are collected by all four: an instance takes either side.  Requests   *)
(* are runs, and bills have the ids of students, so that the symmetries stay  *)
(* few.                                                                       *)
EXTENDS FeeBilling, FeeCollection, TLC

CONSTANTS tuition, exam
VARIABLE billing

MCMonthsOf == [t \in Types |-> IF t = tuition THEN Months ELSE {}]
MCTotal == [b \in Bills |-> 3]

FeesInit == billing \in BOOLEAN /\ BillingInit /\ Init
FeesNext ==
    /\ UNCHANGED billing
    /\ \/ billing /\ BillingNext /\ UNCHANGED vars
              /\ Cardinality({r \in Runs : stage'[r] # "idle"}) <= 3
       \/ ~billing /\ Next /\ UNCHANGED billingVars
FeesSpec == FeesInit /\ [][FeesNext]_<<billing, billingVars, vars>>

Symmetry == Permutations(Requests) \cup Permutations(Bills)
=============================================================================
