----------------------------- MODULE FeeBilling -----------------------------
(***************************************************************************)
(* Creating fee bills (fees.service.ts): generateBillsForStudent, which    *)
(* skips what is billed already, and bulkGenerateClassBills, applyBulkExtra *)
(* and createBill, which do not look.                                      *)
(*                                                                         *)
(* Every insert is a statement of its own, and so is the look for an       *)
(* existing bill before it.  The amount of a bill decides nothing here.    *)
(***************************************************************************)
EXTENDS Integers, FiniteSets

CONSTANTS
    Students,    \* the students of a class
    Types,       \* enabled fee types of the class structure
    MonthsOf,    \* applicable_months of each type; {} for a session fee
    Months, NoMonth,
    Runs         \* runs of the handlers, each used once

ASSUME MonthsAssumption == MonthsOf \in [Types -> SUBSET Months] /\ NoMonth \notin Months

VARIABLES
    bills,       \* table fee_bills
    stage, left, \* what each run does next and has left to do
    generated,   \* history: students whose generation ran to its end
    unseen       \* history: keys billed again without looking, or while another
                 \* request had looked and not inserted yet

billingVars == <<bills, stage, left, generated, unseen>>

BillMonths == Months \cup {NoMonth}
Key == [student : Students, type : Types, month : BillMonths]
FeeBill == [by : Runs, key : Key]

Items(s) == {k \in Key : /\ k.student = s
                         /\ IF MonthsOf[k.type] = {} THEN k.month = NoMonth
                                                     ELSE k.month \in MonthsOf[k.type]}

BillingSteps == {"idle", "check", "insert", "bulk", "done"}
\* item: the key looked up and not inserted yet, {} for none.
BillingLocal == [todo : SUBSET Key, item : SUBSET Key]
NoItems == [todo |-> {}, item |-> {}]

BillingInit ==
    /\ bills = {}
    /\ stage = [r \in Runs |-> "idle"]
    /\ left = [r \in Runs |-> NoItems]
    /\ generated = {}
    /\ unseen = {}

GoOn(r, step, todo, item) ==
    /\ stage' = [stage EXCEPT ![r] = step]
    /\ left' = [left EXCEPT ![r] = [todo |-> todo, item |-> item]]

Insert(r, k) == bills' = bills \cup {[by |-> r, key |-> k]}

Billed(k) == \E b \in bills : b.key = k
LookedUp(r, k) == \E q \in Runs \ {r} : k \in left[q].item

\* billExistsForStudentFeeTypeMonth: without a month any bill of the type counts.
BillExists(k) == \E b \in bills : /\ b.key.student = k.student /\ b.key.type = k.type
                                  /\ k.month = NoMonth \/ b.key.month = k.month

(***************************************************************************)
(* generateBillsForStudent                                                 *)
(***************************************************************************)
GenerateForStudent(r, s) ==
    /\ stage[r] = "idle"
    /\ Items(s) # {}
    /\ GoOn(r, "check", Items(s), {})
    /\ UNCHANGED <<bills, generated, unseen>>

\* The loop goes on, or is over for student s.
Mutant_StopsAtFirst(r, s, todo) ==
    /\ GoOn(r, "done", {}, {})
    /\ generated' = generated \cup {s}
Continue(r, s, todo) ==
    /\ GoOn(r, IF todo = {} THEN "done" ELSE "check", todo, {})
    /\ generated' = IF todo = {} THEN generated \cup {s} ELSE generated

Check(r, k) ==
    /\ stage[r] = "check" /\ k \in left[r].todo
    /\ IF BillExists(k)
       THEN Continue(r, k.student, left[r].todo \ {k})
       ELSE GoOn(r, "insert", left[r].todo \ {k}, {k}) /\ UNCHANGED generated
    /\ UNCHANGED <<bills, unseen>>

CreateChecked(r, k) ==
    /\ stage[r] = "insert" /\ k \in left[r].item
    /\ Insert(r, k)
    /\ unseen' = IF LookedUp(r, k) THEN unseen \cup {k} ELSE unseen
    /\ Continue(r, k.student, left[r].todo)

(***************************************************************************)
(* bulkGenerateClassBills, applyBulkExtra; createBill for one student      *)
(***************************************************************************)
BulkCreate(r, chosen, t, m) ==
    /\ stage[r] = "idle" /\ chosen # {}
    /\ GoOn(r, "bulk", {[student |-> s, type |-> t, month |-> m] : s \in chosen}, {})
    /\ UNCHANGED <<bills, generated, unseen>>

CreateUnchecked(r, k) ==
    LET todo == left[r].todo \ {k}
    IN  /\ stage[r] = "bulk" /\ k \in left[r].todo
        /\ Insert(r, k)
        /\ unseen' = IF Billed(k) \/ LookedUp(r, k) THEN unseen \cup {k} ELSE unseen
        /\ GoOn(r, IF todo = {} THEN "done" ELSE "bulk", todo, {})
        /\ UNCHANGED generated

\* A statement fails or the process restarts: what is inserted stays.
BillingEnds(r) ==
    /\ stage[r] \notin {"idle", "done"}
    /\ GoOn(r, "done", {}, {})
    /\ UNCHANGED <<bills, generated, unseen>>

BillingRun(r) ==
    \/ \E s \in Students : GenerateForStudent(r, s)
    \/ \E chosen \in SUBSET Students, t \in Types, m \in BillMonths : BulkCreate(r, chosen, t, m)
    \/ \E k \in Key : Check(r, k) \/ CreateChecked(r, k) \/ CreateUnchecked(r, k)
    \/ BillingEnds(r)

BillingNext == \E r \in Runs : BillingRun(r)

BillingSpec == BillingInit /\ [][BillingNext]_billingVars

(***************************************************************************)
(* Properties                                                              *)
(***************************************************************************)

BillingTypeOK ==
    /\ bills \subseteq FeeBill
    /\ stage \in [Runs -> BillingSteps]
    /\ left \in [Runs -> BillingLocal]
    /\ generated \subseteq Students
    /\ unseen \subseteq Key

\* A generation that ran to its end leaves each item of the class structure billed, whatever
\* was skipped, repeated or cut off before; and none is billed twice, unless by an insert
\* that does not look, or looked before another request's insert.
BilledExactlyOnce ==
    /\ \A s \in generated : \A k \in Items(s) : BillExists(k)
    /\ \A a, b \in bills : a.key = b.key /\ a.key \notin unseen => a = b

=============================================================================
