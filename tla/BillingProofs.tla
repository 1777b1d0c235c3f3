---------------------------- MODULE BillingProofs ----------------------------
(***************************************************************************)
(* What is billed and what is owed, in components that share nothing.      *)
(* A school bills its students: for every class structure and any number   *)
(* of overlapping requests, what a generation that ran to its end has      *)
(* billed, and which bills only can be there twice.  The platform bills    *)
(* the school: for every number of invoices and subscriptions, with any    *)
(* modes, that a school that owes nothing is not restricted, but for the   *)
(* excuses of LiftedWhenSettled.  The guard reads the restriction through  *)
(* the cache: for every number of instances, readers and writers, that one *)
(* reader builds at a time, and what may differ from the row after an      *)
(* invalidation.                                                           *)
(***************************************************************************)
EXTENDS FeeBilling, SchoolRestriction, ReadThroughCache, TLAPS

(***************************************************************************)
(* FeeBilling                                                              *)
(***************************************************************************)
\* Only who is about to insert has a key looked up, and none is billed that is not unseen.
LookInv ==
    \A r \in Runs :
        /\ stage[r] # "insert" => left[r].item = {}
        /\ \A k \in left[r].item : k \notin unseen => ~Billed(k)

\* What a generation has left and has looked up are items of one student; the other items
\* of this student are billed.
Generating(r, s) ==
    /\ left[r].todo \cup left[r].item \subseteq Items(s)
    /\ \A k \in Items(s) \ (left[r].todo \cup left[r].item) : BillExists(k)

GenerationInv ==
    \A r \in Runs :
        /\ stage[r] \in {"check", "insert"} => \E s \in Students : Generating(r, s)
        /\ stage[r] = "insert" => \E k \in Key : left[r].item = {k} /\ k \notin left[r].todo

BillsInv == BillingTypeOK /\ LookInv /\ GenerationInv /\ BilledExactlyOnce

-----------------------------------------------------------------------------
LEMMA NothingTyped == NoItems \in BillingLocal
    BY DEF NoItems, BillingLocal

\* What GoOn writes.
LEMMA Went ==
    ASSUME BillingTypeOK, NEW r \in Runs, NEW step \in BillingSteps,
           NEW todo \in SUBSET Key, NEW item \in SUBSET Key, GoOn(r, step, todo, item)
    PROVE  /\ stage' \in [Runs -> BillingSteps] /\ left' \in [Runs -> BillingLocal]
           /\ stage'[r] = step /\ left'[r].todo = todo /\ left'[r].item = item
           /\ \A q \in Runs \ {r} : stage'[q] = stage[q] /\ left'[q] = left[q]
<1>1. [todo |-> todo, item |-> item] \in BillingLocal
    BY DEF BillingLocal
<1> QED
    BY <1>1 DEF GoOn, BillingTypeOK

\* A bill with the key is a bill of the type in the month.
LEMMA BilledExists == ASSUME NEW k \in Key, Billed(k) PROVE BillExists(k)
    BY DEF Billed, BillExists

\* No bill goes away.
LEMMA BillsStay ==
    ASSUME bills \subseteq bills'
    PROVE  \A k \in Key : BillExists(k) => BillExists(k)'
    BY DEF BillExists

\* What another request does to the bills leaves this one's generation as it was.
LEMMA OthersGenerate ==
    ASSUME GenerationInv, bills \subseteq bills', NEW r \in Runs,
           stage'[r] = stage[r], left'[r] = left[r]
    PROVE  /\ stage'[r] \in {"check", "insert"} => \E s \in Students : Generating(r, s)'
           /\ stage'[r] = "insert" =>
                \E k \in Key : left'[r].item = {k} /\ k \notin left'[r].todo
<1>1. ASSUME NEW s \in Students, Generating(r, s) PROVE Generating(r, s)'
    <2>1. Items(s)' = Items(s) /\ Items(s) \subseteq Key
        BY DEF Items, Key, BillMonths
    <2> QED
        BY <1>1, <2>1, BillsStay DEF Generating
<1> QED
    BY <1>1 DEF GenerationInv

\* An insert that notes what it does not see keeps bills apart and looks in order.
LEMMA Inserted ==
    ASSUME BillingTypeOK, LookInv, NEW r \in Runs, NEW k \in Key, Insert(r, k),
           \/ unseen' = unseen \cup {k}
           \/ unseen' = unseen /\ ~LookedUp(r, k) /\ (k \in unseen \/ ~Billed(k)),
           \A a, b \in bills : a.key = b.key /\ a.key \notin unseen => a = b
    PROVE  /\ bills' \subseteq FeeBill /\ unseen' \subseteq Key
           /\ \A a, b \in bills' : a.key = b.key /\ a.key \notin unseen' => a = b
           /\ \A q \in Runs \ {r} : \A l \in left[q].item : l \notin unseen' => ~Billed(l)'
           /\ BillExists(k)'
<1> DEFINE new == [by |-> r, key |-> k]
<1>1. new \in FeeBill /\ bills' = bills \cup {new} /\ new.key = k
    BY DEF FeeBill, Insert
<1>2. k \notin unseen' => ~Billed(k) /\ ~LookedUp(r, k)
    OBVIOUS
<1>3. unseen \subseteq unseen'
    OBVIOUS
<1>4. bills' \subseteq FeeBill /\ unseen' \subseteq Key
    BY <1>1 DEF BillingTypeOK
<1>5. \A a, b \in bills' : a.key = b.key /\ a.key \notin unseen' => a = b
    BY <1>1, <1>2, <1>3 DEF Billed
<1>6. ASSUME NEW q \in Runs \ {r}, NEW l \in left[q].item, l \notin unseen'
      PROVE  ~Billed(l)'
    <2>1. ~Billed(l)
        BY <1>3, <1>6 DEF LookInv
    <2>2. l # k
        BY <1>2, <1>6 DEF LookedUp
    <2> QED
        BY <1>1, <2>1, <2>2 DEF Billed
<1>7. BillExists(k)'
    BY <1>1 DEF BillExists
<1> QED
    BY <1>4, <1>5, <1>6, <1>7

-----------------------------------------------------------------------------
LEMMA BillsInit == BillingInit => BillsInv
<1> SUFFICES ASSUME BillingInit PROVE BillsInv
    OBVIOUS
<1>1. BillingTypeOK
    BY NothingTyped DEF BillingInit, BillingTypeOK, BillingSteps
<1>2. LookInv /\ GenerationInv
    BY DEF BillingInit, LookInv, GenerationInv, NoItems
<1>3. BilledExactlyOnce
    BY DEF BillingInit, BilledExactlyOnce
<1> QED
    BY <1>1, <1>2, <1>3 DEF BillsInv

LEMMA StartInv ==
    ASSUME BillsInv, NEW r \in Runs, NEW s \in Students, GenerateForStudent(r, s) PROVE BillsInv'
<1>1. Items(s) \subseteq Key
    BY DEF Items
<1>2. /\ stage' \in [Runs -> BillingSteps] /\ left' \in [Runs -> BillingLocal]
      /\ stage'[r] = "check" /\ left'[r].todo = Items(s) /\ left'[r].item = {}
      /\ \A q \in Runs \ {r} : stage'[q] = stage[q] /\ left'[q] = left[q]
    BY <1>1, Went DEF GenerateForStudent, BillsInv, BillingSteps
<1>3. BillingTypeOK'
    BY <1>2 DEF BillsInv, BillingTypeOK, GenerateForStudent
<1>4. LookInv'
    BY <1>2 DEF BillsInv, LookInv, GenerateForStudent, Billed
<1>5. Generating(r, s)'
    BY <1>2 DEF Generating, Items
<1>6. GenerationInv'
    BY <1>2, <1>5, OthersGenerate DEF BillsInv, GenerationInv, GenerateForStudent
<1>7. BilledExactlyOnce'
    BY DEF BillsInv, BilledExactlyOnce, GenerateForStudent, BillExists, Items
<1> QED
    BY <1>3, <1>4, <1>6, <1>7 DEF BillsInv

LEMMA BulkInv ==
    ASSUME BillsInv, NEW r \in Runs, NEW chosen \in SUBSET Students, NEW t \in Types,
           NEW m \in BillMonths, BulkCreate(r, chosen, t, m)
    PROVE  BillsInv'
<1> DEFINE todo == {[student |-> s, type |-> t, month |-> m] : s \in chosen}
<1>1. todo \in SUBSET Key
    BY DEF Key
<1>2. /\ stage' \in [Runs -> BillingSteps] /\ left' \in [Runs -> BillingLocal]
      /\ stage'[r] = "bulk" /\ left'[r].item = {}
      /\ \A q \in Runs \ {r} : stage'[q] = stage[q] /\ left'[q] = left[q]
    <2>1. GoOn(r, "bulk", todo, {})
        BY DEF BulkCreate
    <2> HIDE DEF todo
    <2> QED
        <3>1. BillingTypeOK /\ "bulk" \in BillingSteps /\ {} \in SUBSET Key
            BY DEF BillsInv, BillingSteps
        <3> QED
            BY <1>1, <2>1, <3>1, Went
<1> HIDE DEF todo
<1>3. BillingTypeOK'
    BY <1>2 DEF BillsInv, BillingTypeOK, BulkCreate
<1>4. LookInv'
    BY <1>2 DEF BillsInv, LookInv, BulkCreate, Billed
<1>5. GenerationInv'
    BY <1>2, OthersGenerate DEF BillsInv, GenerationInv, BulkCreate
<1>6. BilledExactlyOnce'
    BY DEF BillsInv, BilledExactlyOnce, BulkCreate, BillExists, Items
<1> QED
    BY <1>3, <1>4, <1>5, <1>6 DEF BillsInv

\* A generation that goes on after an item that is billed, with the others still ahead.
LEMMA Continued ==
    ASSUME BillsInv, NEW r \in Runs, NEW s \in Students, NEW k \in Items(s),
           NEW todo \in SUBSET Items(s), k \notin todo,
           bills \subseteq bills', BillExists(k)',
           \A l \in Items(s) \ (todo \cup {k}) : BillExists(l),
           Continue(r, s, todo)
    PROVE  /\ stage' \in [Runs -> BillingSteps] /\ left' \in [Runs -> BillingLocal]
           /\ stage'[r] # "insert" /\ left'[r].item = {}
           /\ \A q \in Runs \ {r} : stage'[q] = stage[q] /\ left'[q] = left[q]
           /\ GenerationInv'
           /\ generated' \subseteq Students
           /\ \A z \in generated' : \A l \in Items(z) : BillExists(l)'
<1> DEFINE step == IF todo = {} THEN "done" ELSE "check"
<1>1. todo \in SUBSET Key /\ Items(s) \subseteq Key /\ step \in BillingSteps
    BY DEF Items, BillingSteps
<1>2. GoOn(r, step, todo, {})
    BY DEF Continue
<1>3. step # "insert" /\ (step = "check" <=> todo # {})
    OBVIOUS
<1> HIDE DEF step
<1>4. /\ stage' \in [Runs -> BillingSteps] /\ left' \in [Runs -> BillingLocal]
      /\ stage'[r] = step /\ left'[r].todo = todo /\ left'[r].item = {}
      /\ \A q \in Runs \ {r} : stage'[q] = stage[q] /\ left'[q] = left[q]
    <2>1. BillingTypeOK /\ {} \in SUBSET Key
        BY DEF BillsInv
    <2> QED
        BY <1>1, <1>2, <2>1, Went
<1>5. \A l \in Items(s) \ todo : BillExists(l)'
    BY <1>1, BillsStay
<1>6. Generating(r, s)'
    BY <1>4, <1>5 DEF Generating, Items
<1>7. GenerationInv'
    BY <1>3, <1>4, <1>6, OthersGenerate DEF BillsInv, GenerationInv
<1>8. generated' \subseteq Students
    BY DEF Continue, BillsInv, BillingTypeOK
<1>9. \A z \in generated' : \A l \in Items(z) : BillExists(l)'
    <2>1. \A z \in Students : Items(z) \subseteq Key
        BY DEF Items
    <2>2. \A z \in generated : \A l \in Items(z) : BillExists(l)'
        BY <2>1, BillsStay DEF BillsInv, BillingTypeOK, BilledExactlyOnce
    <2> QED
        BY <2>2, <1>5 DEF Continue
<1> QED
    BY <1>3, <1>4, <1>7, <1>8, <1>9

LEMMA CheckInv ==
    ASSUME BillsInv, NEW r \in Runs, NEW k \in Key, Check(r, k) PROVE BillsInv'
<1>1. stage[r] = "check" /\ k \in left[r].todo /\ left[r].item = {}
      /\ bills' = bills /\ unseen' = unseen
    BY DEF Check, BillsInv, LookInv
<1>2. PICK s \in Students : Generating(r, s)
    BY <1>1 DEF BillsInv, GenerationInv
<1>3. k \in Items(s) /\ k.student = s /\ Items(s) \subseteq Key
    BY <1>1, <1>2 DEF Generating, Items
<1> DEFINE todo == left[r].todo \ {k}
<1>4. todo \in SUBSET Items(s) /\ k \notin todo
    BY <1>2 DEF Generating
<1>5. \A l \in Items(s) \ (todo \cup {k}) : BillExists(l)
    BY <1>1, <1>2 DEF Generating
<1>6. CASE BillExists(k)
    <2>1. Continue(r, s, todo)
        BY <1>3, <1>6 DEF Check
    <2>2. BillExists(k)'
        BY <1>1, <1>6 DEF BillExists
    <2> HIDE DEF todo
    <2>3. /\ stage' \in [Runs -> BillingSteps] /\ left' \in [Runs -> BillingLocal]
          /\ stage'[r] # "insert" /\ left'[r].item = {}
          /\ \A q \in Runs \ {r} : stage'[q] = stage[q] /\ left'[q] = left[q]
          /\ GenerationInv'
          /\ generated' \subseteq Students
          /\ \A z \in generated' : \A l \in Items(z) : BillExists(l)'
        BY <1>1, <1>3, <1>4, <1>5, <2>1, <2>2, Continued
    <2>4. BillingTypeOK'
        BY <1>1, <2>3 DEF BillsInv, BillingTypeOK
    <2>5. LookInv'
        BY <1>1, <2>3 DEF BillsInv, LookInv, Billed
    <2>6. BilledExactlyOnce'
        BY <1>1, <2>3 DEF BillsInv, BilledExactlyOnce, Items
    <2> QED
        BY <2>3, <2>4, <2>5, <2>6 DEF BillsInv
<1>7. CASE ~BillExists(k)
    <2>1. GoOn(r, "insert", todo, {k}) /\ generated' = generated
        BY <1>7 DEF Check
    <2>2. /\ stage' \in [Runs -> BillingSteps] /\ left' \in [Runs -> BillingLocal]
          /\ stage'[r] = "insert" /\ left'[r].todo = todo /\ left'[r].item = {k}
          /\ \A q \in Runs \ {r} : stage'[q] = stage[q] /\ left'[q] = left[q]
        <3>1. todo \in SUBSET Key /\ "insert" \in BillingSteps /\ {k} \in SUBSET Key /\ BillingTypeOK
            BY <1>3, <1>4 DEF BillingSteps, BillsInv
        <3> HIDE DEF todo
        <3> QED
            BY <2>1, <3>1, Went
    <2> HIDE DEF todo
    <2>3. BillingTypeOK'
        BY <1>1, <2>1, <2>2 DEF BillsInv, BillingTypeOK
    <2>4. LookInv'
        BY <1>1, <1>7, <2>2, BilledExists DEF BillsInv, LookInv, Billed
    <2>5. Generating(r, s)'
        <3>1. Items(s)' = Items(s)
            BY DEF Items, Key, BillMonths
        <3> QED
            BY <1>1, <1>3, <1>4, <1>5, <2>2, <3>1 DEF Generating, BillExists
    <2>6. GenerationInv'
        BY <1>1, <1>4, <2>2, <2>5, OthersGenerate DEF BillsInv, GenerationInv
    <2>7. BilledExactlyOnce'
        BY <1>1, <2>1 DEF BillsInv, BilledExactlyOnce, BillExists, Items
    <2> QED
        BY <2>3, <2>4, <2>6, <2>7 DEF BillsInv
<1> QED
    BY <1>6, <1>7

LEMMA CreateInv ==
    ASSUME BillsInv, NEW r \in Runs, NEW k \in Key, CreateChecked(r, k) PROVE BillsInv'
<1>1. stage[r] = "insert" /\ k \in left[r].item /\ Insert(r, k)
      /\ Continue(r, k.student, left[r].todo)
    BY DEF CreateChecked
<1>2. PICK s \in Students : Generating(r, s)
    BY <1>1 DEF BillsInv, GenerationInv
<1>3. left[r].item = {k} /\ k \notin left[r].todo
    BY <1>1 DEF BillsInv, GenerationInv
<1>4. k \in Items(s) /\ k.student = s /\ left[r].todo \in SUBSET Items(s)
    BY <1>2, <1>3 DEF Generating, Items
<1>5. \A l \in Items(s) \ (left[r].todo \cup {k}) : BillExists(l)
    BY <1>2, <1>3 DEF Generating
<1>6. k \in unseen \/ ~Billed(k)
    BY <1>1 DEF BillsInv, LookInv
<1>7. /\ bills' \subseteq FeeBill /\ unseen' \subseteq Key
      /\ \A a, b \in bills' : a.key = b.key /\ a.key \notin unseen' => a = b
      /\ \A q \in Runs \ {r} : \A l \in left[q].item : l \notin unseen' => ~Billed(l)'
      /\ BillExists(k)'
    <2>1. \/ unseen' = unseen \cup {k}
          \/ unseen' = unseen /\ ~LookedUp(r, k) /\ (k \in unseen \/ ~Billed(k))
        BY <1>6 DEF CreateChecked
    <2>2. \A a, b \in bills : a.key = b.key /\ a.key \notin unseen => a = b
        BY DEF BillsInv, BilledExactlyOnce
    <2> QED
        BY <1>1, <2>1, <2>2, Inserted DEF BillsInv
<1>8. bills \subseteq bills'
    BY <1>1 DEF Insert
<1>9. /\ stage' \in [Runs -> BillingSteps] /\ left' \in [Runs -> BillingLocal]
      /\ stage'[r] # "insert" /\ left'[r].item = {}
      /\ \A q \in Runs \ {r} : stage'[q] = stage[q] /\ left'[q] = left[q]
      /\ GenerationInv'
      /\ generated' \subseteq Students
      /\ \A z \in generated' : \A l \in Items(z) : BillExists(l)'
    BY <1>1, <1>3, <1>4, <1>5, <1>7, <1>8, Continued
<1>10. BillingTypeOK'
    BY <1>7, <1>9 DEF BillsInv, BillingTypeOK
<1>11. LookInv'
    BY <1>7, <1>9 DEF BillsInv, LookInv
<1>12. BilledExactlyOnce'
    BY <1>7, <1>9 DEF BilledExactlyOnce, Items
<1> QED
    BY <1>9, <1>10, <1>11, <1>12 DEF BillsInv

LEMMA UncheckedInv ==
    ASSUME BillsInv, NEW r \in Runs, NEW k \in Key, CreateUnchecked(r, k) PROVE BillsInv'
<1> DEFINE todo == left[r].todo \ {k}
           step == IF todo = {} THEN "done" ELSE "bulk"
<1>1. Insert(r, k) /\ GoOn(r, step, todo, {}) /\ generated' = generated
    BY DEF CreateUnchecked
<1>2. todo \in SUBSET Key /\ step \in BillingSteps /\ step \notin {"check", "insert"}
    BY DEF BillsInv, BillingTypeOK, BillingLocal, BillingSteps
<1>3. \/ unseen' = unseen \cup {k}
      \/ unseen' = unseen /\ ~LookedUp(r, k) /\ (k \in unseen \/ ~Billed(k))
    BY DEF CreateUnchecked
<1> HIDE DEF todo, step
<1>4. /\ stage' \in [Runs -> BillingSteps] /\ left' \in [Runs -> BillingLocal]
      /\ stage'[r] = step /\ left'[r].item = {}
      /\ \A q \in Runs \ {r} : stage'[q] = stage[q] /\ left'[q] = left[q]
    <2>1. BillingTypeOK /\ {} \in SUBSET Key
        BY DEF BillsInv
    <2> QED
        BY <1>1, <1>2, <2>1, Went
<1>5. /\ bills' \subseteq FeeBill /\ unseen' \subseteq Key
      /\ \A a, b \in bills' : a.key = b.key /\ a.key \notin unseen' => a = b
      /\ \A q \in Runs \ {r} : \A l \in left[q].item : l \notin unseen' => ~Billed(l)'
    <2>1. \A a, b \in bills : a.key = b.key /\ a.key \notin unseen => a = b
        BY DEF BillsInv, BilledExactlyOnce
    <2> QED
        BY <1>1, <1>3, <2>1, Inserted DEF BillsInv
<1>6. bills \subseteq bills'
    BY <1>1 DEF Insert
<1>7. BillingTypeOK'
    BY <1>1, <1>4, <1>5 DEF BillsInv, BillingTypeOK
<1>8. LookInv'
    BY <1>2, <1>4, <1>5 DEF BillsInv, LookInv
<1>9. GenerationInv'
    BY <1>2, <1>4, <1>6, OthersGenerate DEF BillsInv, GenerationInv
<1>10. \A s \in generated' : \A l \in Items(s) : BillExists(l)'
    <2>1. \A s \in Students : Items(s) \subseteq Key
        BY DEF Items
    <2> QED
        BY <1>1, <1>6, <2>1, BillsStay DEF BillsInv, BillingTypeOK, BilledExactlyOnce
<1>11. BilledExactlyOnce'
    BY <1>5, <1>10 DEF BilledExactlyOnce, Items
<1> QED
    BY <1>7, <1>8, <1>9, <1>11 DEF BillsInv

LEMMA EndInv == ASSUME BillsInv, NEW r \in Runs, BillingEnds(r) PROVE BillsInv'
<1>1. /\ stage' \in [Runs -> BillingSteps] /\ left' \in [Runs -> BillingLocal]
      /\ stage'[r] = "done" /\ left'[r].item = {}
      /\ \A q \in Runs \ {r} : stage'[q] = stage[q] /\ left'[q] = left[q]
    <2>1. {} \in SUBSET Key /\ "done" \in BillingSteps
        BY DEF BillingSteps
    <2> QED
        BY <2>1, Went DEF BillingEnds, BillsInv
<1>2. BillingTypeOK'
    BY <1>1 DEF BillsInv, BillingTypeOK, BillingEnds
<1>3. LookInv'
    BY <1>1 DEF BillsInv, LookInv, BillingEnds, Billed
<1>4. GenerationInv'
    BY <1>1, OthersGenerate DEF BillsInv, GenerationInv, BillingEnds
<1>5. BilledExactlyOnce'
    BY DEF BillsInv, BilledExactlyOnce, BillingEnds, BillExists, Items
<1> QED
    BY <1>2, <1>3, <1>4, <1>5 DEF BillsInv

LEMMA BillsStep == BillsInv /\ [BillingNext]_billingVars => BillsInv'
<1> SUFFICES ASSUME BillsInv, [BillingNext]_billingVars PROVE BillsInv'
    OBVIOUS
<1>1. CASE UNCHANGED billingVars
    <2>1. bills' = bills /\ stage' = stage /\ left' = left /\ generated' = generated
          /\ unseen' = unseen
        BY <1>1 DEF billingVars
    <2>2. BillingTypeOK' /\ LookInv'
        BY <2>1 DEF BillsInv, BillingTypeOK, LookInv, Billed
    <2>3. GenerationInv'
        BY <2>1, OthersGenerate DEF BillsInv, GenerationInv
    <2>4. BilledExactlyOnce'
        BY <2>1 DEF BillsInv, BilledExactlyOnce, BillExists, Items
    <2> QED
        BY <2>2, <2>3, <2>4 DEF BillsInv
<1>2. CASE BillingNext
    <2>1. PICK r \in Runs : BillingRun(r)
        BY <1>2 DEF BillingNext
    <2> QED
        BY <2>1, StartInv, BulkInv, CheckInv, CreateInv, UncheckedInv, EndInv DEF BillingRun
<1> QED
    BY <1>1, <1>2

THEOREM BillsInvariant == BillingSpec => []BillsInv
    BY BillsInit, BillsStep, PTL DEF BillingSpec

\* Bills, requests and what the history notes keep their types.
THEOREM BillingTypeCorrect == BillingSpec => []BillingTypeOK
<1>1. BillsInv => BillingTypeOK
    BY DEF BillsInv
<1> QED
    BY <1>1, BillsInvariant, PTL

\* generateBillsForStudent, run to its end, leaves no item of the class structure unbilled,
\* and a bill is there twice only by an insert that did not look, or looked too early.
THEOREM EachBilledOnce == BillingSpec => []BilledExactlyOnce
<1>1. BillsInv => BilledExactlyOnce
    BY DEF BillsInv
<1> QED
    BY <1>1, BillsInvariant, PTL

(***************************************************************************)
(* SchoolRestriction                                                       *)
(***************************************************************************)
USE RestrictionAssumption DEF Ages

-----------------------------------------------------------------------------
(* The strengthening.                                                      *)

OverdueIsDue == \A i \in Overdue : invoice[i].age > 0

\* What the job needs is owed, until it is paid while the job runs.
NeedIsOwed ==
    /\ cron.pc \in {"compare", "apply"} => cron.need # "NONE"
    /\ CronRuns /\ cron.need # "NONE" /\ excuse = "none" => Owing

\* A restriction is owed, or some listener is about to lift it.
RestrictionIsOwed ==
    level # "NONE" /\ excuse = "none" => Owing \/ \E i \in Invoices : listener[i] # "idle"

RestrictionInv == TypeOK /\ OverdueIsDue /\ NeedIsOwed /\ RestrictionIsOwed

LEMMA MostSevereIsOne ==
    ASSUME NEW modes \in SUBSET Levels, modes # {} PROVE MostSevere(modes) \in modes
<1>1. \E m \in modes : \A n \in modes : SEVERITY[n] <= SEVERITY[m]
    <2>1. CASE "COMPLETE" \in modes
        BY <2>1 DEF SEVERITY, Levels
    <2>2. CASE "COMPLETE" \notin modes /\ "PARTIAL" \in modes
        BY <2>2 DEF SEVERITY, Levels
    <2>3. CASE "COMPLETE" \notin modes /\ "PARTIAL" \notin modes /\ "SOFT" \in modes
        BY <2>3 DEF SEVERITY, Levels
    <2>4. CASE modes = {"NONE"}
        BY <2>4 DEF SEVERITY, Levels
    <2> QED
        BY <2>1, <2>2, <2>3, <2>4 DEF Levels
<1> QED
    BY <1>1 DEF MostSevere

\* What the job reads is a level, and one that it has found, if it is not NONE.
LEMMA InvoiceNeed ==
    ASSUME TypeOK, NEW need, need = MostSevere(InvoiceModes \cup {"NONE"})
    PROVE  need \in Levels /\ (need # "NONE" => PastGrace # {})
<1>1. InvoiceModes \cup {"NONE"} \in SUBSET Levels
    BY DEF InvoiceModes, PastGrace, Unpaid, Levels
<1>2. need \in InvoiceModes \cup {"NONE"}
    BY <1>1, MostSevereIsOne
<1> QED
    BY <1>1, <1>2 DEF InvoiceModes

LEMMA LapsedNeed ==
    ASSUME TypeOK, NEW need, need = MostSevere({Mode[s] : s \in Lapsed} \cup {cron.need})
    PROVE  need \in Levels /\ (need # "NONE" => Lapsed # {} \/ cron.need # "NONE")
<1>1. {Mode[s] : s \in Lapsed} \cup {cron.need} \in SUBSET Levels
    BY DEF TypeOK, Lapsed
<1>2. need \in {Mode[s] : s \in Lapsed} \cup {cron.need}
    BY <1>1, MostSevereIsOne
<1> QED
    BY <1>1, <1>2

-----------------------------------------------------------------------------
LEMMA ExcuseTypes ==
    ASSUME TypeOK, NEW reason \in {"raced", "late", "silent", "failed"}, Excused(reason)
    PROVE  excuse' \in {"none", "raced", "late", "silent", "failed"} /\ excuse' # "none"
    BY DEF TypeOK, Excused

LEMMA RestrictionInit == Init => RestrictionInv
    BY DEF Init, RestrictionInv, TypeOK, Invoice, Subscription, Levels, OverdueIsDue, Overdue, NeedIsOwed,
           RestrictionIsOwed, CronRuns

\* Time, payments, subscriptions and the overdue job.
LEMMA LifeKeeps ==
    ASSUME RestrictionInv,
           \/ TimePasses \/ MarkOverdue
           \/ \E i \in Invoices : PayPart(i) \/ Pay(i)
           \/ \E s \in Subscriptions : ExpireSubscription(s) \/ Renew(s) \/ Cancel(s)
    PROVE  RestrictionInv'
<1> USE DEF RestrictionInv
<1>1. CASE TimePasses
    <2>0. UNCHANGED <<level, cron, listener, failures, excuse>>
        BY <1>1 DEF TimePasses
    <2>1. ASSUME NEW i \in Invoices, invoice[i].age < 2, UNCHANGED sub,
                 invoice' = [invoice EXCEPT ![i] = Aged(invoice[i])]
          PROVE  TypeOK' /\ OverdueIsDue' /\ (Owing => Owing')
        <3>1. Aged(invoice[i]) \in Invoice /\ Aged(invoice[i]).status = invoice[i].status
              /\ Aged(invoice[i]).age > 0
            BY <2>1 DEF Aged, TypeOK, Invoice
        <3>2. TypeOK'
            BY <2>0, <2>1, <3>1 DEF TypeOK
        <3>3. OverdueIsDue' /\ (Owing => Owing')
            BY <2>1, <3>1 DEF TypeOK, OverdueIsDue, Overdue, Owing, Unpaid, Lapsed
        <3> QED
            BY <3>2, <3>3
    <2>2. ASSUME NEW s \in Subscriptions, sub[s].age < 2, UNCHANGED invoice,
                 sub' = [sub EXCEPT ![s] = Aged(sub[s])]
          PROVE  TypeOK' /\ OverdueIsDue' /\ (Owing => Owing')
        <3>1. Aged(sub[s]) \in Subscription
            BY <2>2 DEF Aged, TypeOK, Subscription
        <3>2. TypeOK' /\ OverdueIsDue'
            BY <2>0, <2>2, <3>1 DEF TypeOK, OverdueIsDue, Overdue
        <3>3. \A t \in Subscriptions : t \in Lapsed => t \in Lapsed'
            BY <2>2 DEF TypeOK, Lapsed
        <3> QED
            BY <2>2, <3>2, <3>3 DEF Owing, Unpaid, Lapsed
    <2>3. TypeOK' /\ OverdueIsDue' /\ (Owing => Owing')
        BY <1>1, <2>1, <2>2 DEF TimePasses
    <2> QED
        BY <2>0, <2>3 DEF NeedIsOwed, RestrictionIsOwed, CronRuns
<1>2. CASE MarkOverdue
    <2>1. /\ invoice' = [i \in Invoices |->
                            IF i \in Candidates THEN [invoice[i] EXCEPT !.status = "OVERDUE"]
                                                ELSE invoice[i]]
          /\ UNCHANGED <<sub, level, cron, listener, failures, excuse>>
        BY <1>2 DEF MarkOverdue
    <2>2. TypeOK'
        BY <2>1 DEF TypeOK, Invoice
    <2>3. OverdueIsDue'
        BY <2>1 DEF TypeOK, Invoice, OverdueIsDue, Overdue, Candidates
    <2>4. Owing => Owing'
        BY <2>1 DEF TypeOK, Invoice, Owing, Unpaid, Lapsed
    <2> QED
        BY <2>1, <2>2, <2>3, <2>4 DEF NeedIsOwed, RestrictionIsOwed, CronRuns
<1>3. ASSUME NEW i \in Invoices, PayPart(i) PROVE RestrictionInv'
    <2>0. UNCHANGED <<sub, level, cron, listener, failures, excuse>>
        BY <1>3 DEF PayPart
    <2> DEFINE row == [status |-> "PARTIALLY_PAID", paid |-> "part", age |-> invoice[i].age]
    <2>1. /\ row \in Invoice /\ row.age = invoice[i].age
          /\ row.status # "PAID" /\ row.status # "OVERDUE"
        BY DEF TypeOK, Invoice
    <2>2. invoice' = [invoice EXCEPT ![i] = row]
        BY <1>3 DEF PayPart, Credit
    <2> HIDE DEF row
    <2>3. TypeOK' /\ OverdueIsDue' /\ (Owing => Owing')
        BY <2>0, <2>1, <2>2 DEF TypeOK, OverdueIsDue, Overdue, Owing, Unpaid, Lapsed
    <2> QED
        BY <2>0, <2>3 DEF NeedIsOwed, RestrictionIsOwed, CronRuns
<1>4. ASSUME NEW i \in Invoices, Pay(i) PROVE RestrictionInv'
    <2>1. IF CronRuns THEN excuse' \in {"raced", "late", "silent", "failed"} ELSE excuse' = excuse
        BY <1>4, ExcuseTypes DEF Pay
    <2> DEFINE row == [status |-> "PAID", paid |-> "all", age |-> invoice[i].age]
    <2>2. /\ row \in Invoice /\ row.status # "OVERDUE"
          /\ invoice' = [invoice EXCEPT ![i] = row]
          /\ listener' = [listener EXCEPT ![i] = "overdue"]
          /\ UNCHANGED <<sub, level, cron, failures>>
        BY <1>4 DEF Pay, Credit, Listen, TypeOK, Invoice
    <2> HIDE DEF row
    <2>3. TypeOK' /\ OverdueIsDue'
        BY <2>1, <2>2 DEF TypeOK, OverdueIsDue, Overdue
    <2>4. listener'[i] # "idle"
        BY <2>2 DEF TypeOK
    <2>5. NeedIsOwed'
        BY <2>1, <2>2 DEF NeedIsOwed, CronRuns
    <2> QED
        BY <2>3, <2>4, <2>5 DEF RestrictionIsOwed
<1>5. ASSUME NEW s \in Subscriptions, ExpireSubscription(s) PROVE RestrictionInv'
    <2>1. TypeOK' /\ OverdueIsDue'
        BY <1>5 DEF ExpireSubscription, TypeOK, Subscription, OverdueIsDue, Overdue
    <2>2. Owing => Owing'
        BY <1>5 DEF ExpireSubscription, TypeOK, Subscription, Owing, Unpaid, Lapsed
    <2> QED
        BY <1>5, <2>1, <2>2 DEF ExpireSubscription, NeedIsOwed, RestrictionIsOwed, CronRuns
<1>6. ASSUME NEW s \in Subscriptions, NEW status \in {"ACTIVE", "CANCELLED"}, NEW age \in Ages,
             Settled(s, status, age)
      PROVE  RestrictionInv'
    <2>1. IF s \in Lapsed THEN excuse' \in {"raced", "late", "silent", "failed"}
                          ELSE excuse' = excuse
        <3>1. CASE s \in Lapsed
            BY <1>6, <3>1, ExcuseTypes DEF Settled
        <3> QED
            BY <1>6, <3>1 DEF Settled
    <2>2. TypeOK' /\ OverdueIsDue'
        BY <1>6, <2>1 DEF Settled, TypeOK, Subscription, OverdueIsDue, Overdue
    <2>3. s \notin Lapsed /\ Owing => Owing'
        BY <1>6 DEF Settled, TypeOK, Subscription, Owing, Unpaid, Lapsed
    <2> QED
        BY <1>6, <2>1, <2>2, <2>3 DEF Settled, NeedIsOwed, RestrictionIsOwed, CronRuns
<1>7. \A s \in Subscriptions : sub[s].age \in Ages
    BY DEF TypeOK, Subscription
<1> QED
    BY <1>1, <1>2, <1>3, <1>4, <1>5, <1>6, <1>7 DEF Renew, Cancel

\* The enforcement job.
LEMMA JobKeeps == ASSUME RestrictionInv, CronStep \/ CronFails PROVE RestrictionInv'
<1> USE DEF RestrictionInv
<1>1. ASSUME UNCHANGED <<invoice, sub, listener, excuse>>, level' \in Levels,
             failures' \in 0..MaxFailures,
             cron' \in [pc : {"idle", "lapsed", "compare", "apply"}, need : Levels],
             cron'.pc \in {"compare", "apply"} => cron'.need # "NONE",
             cron'.need # "NONE" => Owing \/ excuse # "none",
             level' = level \/ Owing \/ excuse # "none"
      PROVE  RestrictionInv'
    <2>1. TypeOK' /\ OverdueIsDue' /\ Owing' = Owing
        BY <1>1 DEF TypeOK, OverdueIsDue, Overdue, Owing, Unpaid, Lapsed
    <2> QED
        BY <1>1, <2>1 DEF NeedIsOwed, RestrictionIsOwed
<1>2. CASE ReadInvoices
    <2>1. PICK need : need = MostSevere(InvoiceModes \cup {"NONE"})
        OBVIOUS
    <2>2. /\ cron' = [pc |-> "lapsed", need |-> need]
          /\ UNCHANGED <<invoice, sub, level, listener, failures, excuse>>
        BY <1>2, <2>1 DEF ReadInvoices, Cron
    <2>3. need \in Levels /\ (need # "NONE" => PastGrace # {})
        BY <2>1, InvoiceNeed
    <2>4. PastGrace # {} => Owing
        BY DEF PastGrace, Owing
    <2> QED
        BY <1>1, <2>2, <2>3, <2>4 DEF TypeOK
<1>3. CASE ReadLapsed
    <2>1. PICK need : need = MostSevere({Mode[s] : s \in Lapsed} \cup {cron.need})
        OBVIOUS
    <2>2. /\ cron' = IF need = "NONE" THEN [pc |-> "idle", need |-> "NONE"]
                                      ELSE [pc |-> "compare", need |-> need]
          /\ cron.pc = "lapsed" /\ UNCHANGED <<invoice, sub, level, listener, failures, excuse>>
        BY <1>3, <2>1 DEF ReadLapsed, Cron
    <2>3. need \in Levels /\ (need # "NONE" => Lapsed # {} \/ cron.need # "NONE")
        BY <2>1, LapsedNeed
    <2>4. need # "NONE" => Owing \/ excuse # "none"
        BY <2>2, <2>3 DEF Owing, NeedIsOwed, CronRuns
    <2>5. "NONE" \in Levels
        BY DEF Levels
    <2> QED
        BY <1>1, <2>2, <2>3, <2>4, <2>5 DEF TypeOK
<1>4. CASE CompareLevel
    BY <1>1, <1>4 DEF CompareLevel, Cron, TypeOK, NeedIsOwed, CronRuns, Levels
<1>5. CASE Apply
    BY <1>1, <1>5 DEF Apply, Cron, TypeOK, NeedIsOwed, CronRuns, Levels
<1>6. CASE CronFails
    BY <1>1, <1>6 DEF CronFails, TypeOK, Levels
<1> QED
    BY <1>2, <1>3, <1>4, <1>5, <1>6 DEF CronStep

\* The listener of INVOICE_PAID.
LEMMA ListenerKeeps ==
    ASSUME RestrictionInv, NEW i \in Invoices, ListenerStep(i) \/ ListenerFails(i) PROVE RestrictionInv'
<1> USE DEF RestrictionInv
<1>1. CASE CheckOverdue(i)
    <2>1. Overdue # {} => Owing
        BY DEF OverdueIsDue, Overdue, Owing, Unpaid
    <2>2. listener'[i] = "idle" => Owing
        BY <1>1, <2>1 DEF CheckOverdue, Listen, HasOverdueInvoices, TypeOK
    <2>3. TypeOK' /\ OverdueIsDue' /\ Owing' = Owing
        BY <1>1 DEF CheckOverdue, Listen, ListenerUnchanged, TypeOK, OverdueIsDue, Overdue, Owing,
                    Unpaid, Lapsed
    <2> QED
        BY <1>1, <2>2, <2>3 DEF CheckOverdue, ListenerUnchanged, NeedIsOwed, RestrictionIsOwed, CronRuns
<1>2. CASE CheckLapsed(i)
    <2>1. listener'[i] = "idle" => Owing
        BY <1>2 DEF CheckLapsed, Listen, HasLapsedSubscription, TypeOK, Owing
    <2>2. TypeOK' /\ OverdueIsDue' /\ Owing' = Owing
        BY <1>2 DEF CheckLapsed, Listen, ListenerUnchanged, TypeOK, OverdueIsDue, Overdue, Owing,
                    Unpaid, Lapsed
    <2> QED
        BY <1>2, <2>1, <2>2 DEF CheckLapsed, ListenerUnchanged, NeedIsOwed, RestrictionIsOwed, CronRuns
<1>3. CASE ClearRestriction(i)
    <2>1. TypeOK' /\ OverdueIsDue' /\ Owing' = Owing
        BY <1>3 DEF ClearRestriction, Listen, ListenerUnchanged, TypeOK, OverdueIsDue, Overdue,
                    Owing, Unpaid, Lapsed, Levels
    <2> QED
        BY <1>3, <2>1 DEF ClearRestriction, ListenerUnchanged, NeedIsOwed, RestrictionIsOwed, CronRuns
<1>4. CASE ListenerFails(i)
    <2>1. excuse' \in {"raced", "late", "silent", "failed"}
        BY <1>4, ExcuseTypes DEF ListenerFails
    <2>2. TypeOK' /\ OverdueIsDue'
        BY <1>4, <2>1 DEF ListenerFails, Listen, TypeOK, OverdueIsDue, Overdue
    <2> QED
        BY <1>4, <2>1, <2>2 DEF ListenerFails, NeedIsOwed, RestrictionIsOwed, CronRuns
<1> QED
    BY <1>1, <1>2, <1>3, <1>4 DEF ListenerStep

LEMMA RestrictionStep == ASSUME RestrictionInv, [Next]_vars PROVE RestrictionInv'
<1>1. CASE UNCHANGED vars
    BY <1>1 DEF vars, RestrictionInv, TypeOK, OverdueIsDue, Overdue, NeedIsOwed, RestrictionIsOwed, Owing,
                Unpaid, Lapsed, CronRuns
<1> QED
    BY <1>1, LifeKeeps, JobKeeps, ListenerKeeps DEF Next

\* The type invariant of the restriction.
THEOREM RestrictionTypeCorrect == Spec => []TypeOK
<1>1. RestrictionInv => TypeOK
    BY DEF RestrictionInv
<1> QED
    BY <1>1, RestrictionInit, RestrictionStep, PTL DEF Spec

\* The listener lifts what the job applies: a school that owes nothing is not restricted,
\* with the excuses that LiftedWhenSettled states.
THEOREM SettledIsLifted == Spec => []LiftedWhenSettled
<1>1. RestrictionInv => LiftedWhenSettled
    BY DEF RestrictionInv, RestrictionIsOwed, LiftedWhenSettled, Quiet
<1> QED
    BY <1>1, RestrictionInit, RestrictionStep, PTL DEF Spec

HIDE RestrictionAssumption DEF Ages

(***************************************************************************)
(* ReadThroughCache                                                        *)
(***************************************************************************)
\* The lock is held by whoever builds, until a lock has run out under its builder.
BuilderHoldsLock == ~overrun => \A r \in Readers : Builds(r) => lock = r

\* A writer that is still to delete the key has found the entry, or has not looked.
WillDelete(w) == doing[w] \in {"scan", "dead"} \/ (doing[w] = "delete" /\ call[w].found)
OldEntryIsExplained ==
    entry # None /\ entry.data # db => entry.lagging \/ \E w \in Writers : WillDelete(w)

\* The types without the bound of db.
CacheTypes ==
    /\ db \in Nat
    /\ entry = None \/ entry \in Entry
    /\ lock \in Readers \cup {None}
    /\ l1 \in [Instances -> Nat \cup {None}]
    /\ doing \in [Calls -> CallSteps]
    /\ call \in [Calls -> CallState]
    /\ overrun \in BOOLEAN

-----------------------------------------------------------------------------

LEMMA InitTypes == CacheInit => CacheTypes
<1> SUFFICES ASSUME CacheInit PROVE CacheTypes
    OBVIOUS
<1>1. \A i \in Instances : [at |-> i, path |-> "idle", value |-> 0, found |-> FALSE] \in CallState
    BY DEF CallState, CallSteps
<1>2. call \in [Calls -> CallState]
    BY <1>1 DEF CacheInit
<1> QED
    BY <1>2 DEF CacheInit, CacheTypes, CallSteps

\* Each action keeps the types.
LEMMA NextTypes == ASSUME CacheTypes, [CacheNext]_cacheVars PROVE CacheTypes'
<1> USE CacheAssumption
<1>1. CASE UNCHANGED cacheVars
    BY <1>1 DEF CacheTypes, cacheVars
<1>2. ASSUME NEW r \in Readers, Call(r) PROVE CacheTypes'
    <2>1. r \in Calls /\ call[r].at \in Instances /\ call[r] \in CallState
        BY DEF Calls, CacheTypes, CallState
    <2>2. doing' \in [Calls -> CallSteps]
        BY <1>2, <2>1 DEF Call, Answer, CacheTypes, Move, CallSteps
    <2>3. call' \in [Calls -> CallState]
        <3>1. CASE l1[call[r].at] # None
            <4>1. l1[call[r].at] \in Nat
                BY <2>1, <3>1 DEF CacheTypes
            <4> DEFINE hit == [call[r] EXCEPT !.path = "get", !.value = l1[call[r].at]]
            <4>2. hit \in CallState
                BY <2>1, <4>1 DEF CacheTypes, CallState, CallSteps
            <4>3. call' = [call EXCEPT ![r] = hit]
                BY <1>2, <3>1 DEF Call, Answer
            <4> HIDE DEF hit
            <4> QED
                BY <4>2, <4>3 DEF CacheTypes
        <3>2. CASE l1[call[r].at] = None
            BY <1>2, <2>1, <3>2 DEF Call, CacheTypes, CallState, CallSteps
        <3> QED
            BY <3>1, <3>2
    <2> QED
        BY <1>2, <2>2, <2>3 DEF Call, CacheTypes
<1>3. ASSUME NEW r \in Readers, Get(r) PROVE CacheTypes'
    <2>1. r \in Calls /\ call[r].at \in Instances /\ call[r] \in CallState
        BY DEF Calls, CacheTypes, CallState
    <2>2. doing' \in [Calls -> CallSteps]
        BY <1>3, <2>1 DEF Get, CacheTypes, Move, CallSteps, Answer
    <2>3. call' \in [Calls -> CallState] /\ l1' \in [Instances -> Nat \cup {None}]
        <3>1. CASE UNCHANGED <<l1, call>>
            BY <3>1 DEF CacheTypes
        <3>2. CASE entry # None /\ L1Set(r, entry.data) /\ Answer(r, "get", entry.data)
            <4>1. entry.data \in Nat
                BY <3>2 DEF CacheTypes, Entry
            <4> QED
                BY <2>1, <3>2, <4>1 DEF CacheTypes, CallState, CallSteps, L1Set, Answer
        <3> QED
            BY <1>3, <3>1, <3>2 DEF Get
    <2> QED
        BY <1>3, <2>2, <2>3 DEF Get, CacheTypes
<1>4. ASSUME NEW r \in Readers, TryLock(r) PROVE CacheTypes'
    BY <1>4 DEF TryLock, CacheTypes, Move, CallSteps, Calls
<1>5. ASSUME NEW r \in Readers, Factory(r) PROVE CacheTypes'
    <2>1. r \in Calls /\ call[r] \in CallState
        BY DEF Calls, CacheTypes
    <2>2. doing' \in [Calls -> CallSteps]
        BY <1>5, <2>1 DEF Factory, CacheTypes, Move, CallSteps
    <2>3. call' \in [Calls -> CallState]
        <3> DEFINE fetched == [call[r] EXCEPT !.path = doing[r], !.value = db]
        <3>1. fetched \in CallState
            BY <2>1 DEF CacheTypes, CallState
        <3>2. [call[r] EXCEPT !.path = "failed"] \in CallState
            BY <2>1 DEF CallState, CallSteps
        <3>3. \/ call' = [call EXCEPT ![r] = fetched]
              \/ call' = [call EXCEPT ![r].path = "failed"]
            BY <1>5 DEF Factory, Fetched
        <3> HIDE DEF fetched
        <3> QED
            BY <3>1, <3>2, <3>3 DEF CacheTypes
    <2> QED
        BY <1>5, <2>2, <2>3 DEF Factory, CacheTypes
<1>6. ASSUME NEW r \in Readers, Store(r) PROVE CacheTypes'
    <2>1. r \in Calls /\ call[r].at \in Instances /\ call[r].value \in Nat
        BY DEF Calls, CacheTypes, CallState
    <2>2. entry' \in Entry
        BY <1>6, <2>1 DEF Store, Entry
    <2>3. doing' \in [Calls -> CallSteps]
        BY <1>6, <2>1 DEF Store, CacheTypes, Move, CallSteps
    <2>4. l1' \in [Instances -> Nat \cup {None}]
        BY <1>6, <2>1 DEF Store, CacheTypes, L1Set
    <2> QED
        BY <1>6, <2>2, <2>3, <2>4 DEF Store, CacheTypes
<1>7. ASSUME NEW r \in Readers, Unlock(r) PROVE CacheTypes'
    BY <1>7 DEF Unlock, CacheTypes, Move, CallSteps, Calls
<1>8. ASSUME NEW r \in Readers, Poll(r) PROVE CacheTypes'
    <2>1. r \in Calls /\ call[r].at \in Instances /\ call[r] \in CallState
        BY DEF Calls, CacheTypes, CallState
    <2>2. entry.data \in Nat
        BY <1>8 DEF Poll, CacheTypes, Entry
    <2>3. doing' \in [Calls -> CallSteps]
        BY <1>8, <2>1 DEF Poll, CacheTypes, Move, CallSteps, Answer
    <2>4. call' \in [Calls -> CallState] /\ l1' \in [Instances -> Nat \cup {None}]
        BY <1>8, <2>1, <2>2 DEF Poll, CacheTypes, CallState, CallSteps, L1Set, Answer
    <2> QED
        BY <1>8, <2>3, <2>4 DEF Poll, CacheTypes
<1>9. ASSUME NEW r \in Readers, Deadline(r) PROVE CacheTypes'
    BY <1>9 DEF Deadline, CacheTypes, Move, CallSteps, Calls
<1>10. ASSUME NEW w \in Writers, Update(w) PROVE CacheTypes'
    BY <1>10 DEF Update, CacheTypes, Move, CallSteps, Calls
<1>11. ASSUME NEW w \in Writers, Scan(w) PROVE CacheTypes'
    <2>1. w \in Calls /\ call[w].at \in Instances /\ call[w] \in CallState
        BY DEF Calls, CacheTypes, CallState
    <2>2. call' \in [Calls -> CallState]
        <3>1. PICK found \in {TRUE, entry # None} : call' = [call EXCEPT ![w].found = found]
            BY <1>11 DEF Scan
        <3>2. found \in BOOLEAN
            OBVIOUS
        <3> QED
            BY <2>1, <3>1, <3>2 DEF CacheTypes, CallState
    <2>3. l1' \in [Instances -> Nat \cup {None}]
        BY <1>11, <2>1 DEF Scan, CacheTypes
    <2>4. doing' \in [Calls -> CallSteps]
        BY <1>11 DEF Scan, CacheTypes, Move, CallSteps
    <2> QED
        BY <1>11, <2>2, <2>3, <2>4 DEF Scan, CacheTypes
<1>12. ASSUME NEW w \in Writers, Delete(w) PROVE CacheTypes'
    BY <1>12 DEF Delete, KeyGone, CacheTypes, Move, CallSteps, Calls
<1>13. CASE MillisecondPasses
    BY <1>13 DEF MillisecondPasses, CacheTypes
<1>14. CASE EntryAges
    <2>1. entry \in Entry
        BY <1>14 DEF EntryAges, CacheTypes
    <2>2. entry' = None \/ entry' \in Entry
        BY <1>14, <2>1 DEF EntryAges, KeyGone, Entry
    <2> QED
        BY <1>14, <2>2 DEF EntryAges, CacheTypes
<1>15. CASE LockExpires
    <2>1. overrun' \in BOOLEAN
        BY <1>15, Zenon DEF LockExpires
    <2> QED
        BY <1>15, <2>1 DEF LockExpires, CacheTypes
<1>16. ASSUME NEW i \in Instances, Crash(i) PROVE CacheTypes'
    <2>1. doing' \in [Calls -> CallSteps]
        <3> DEFINE step(c) == IF call[c].at = i /\ doing[c] \notin {"idle", "failed", "answered"}
                              THEN "dead" ELSE doing[c]
        <3>1. \A c \in Calls : step(c) \in CallSteps
            BY DEF CacheTypes, CallSteps
        <3>2. doing' = [c \in Calls |-> step(c)]
            BY <1>16 DEF Crash
        <3> HIDE DEF step
        <3> QED
            BY <3>1, <3>2
    <2>2. l1' \in [Instances -> Nat \cup {None}]
        BY <1>16 DEF Crash, CacheTypes
    <2> QED
        BY <1>16, <2>1, <2>2 DEF Crash, CacheTypes
<1>17. ASSUME NEW r \in Readers, RedisFails(r) PROVE CacheTypes'
    <2>1. r \in Calls /\ call[r] \in CallState
        BY DEF Calls, CacheTypes
    <2>2. [call[r] EXCEPT !.path = "failed"] \in CallState
        BY <2>1 DEF CallState, CallSteps
    <2>3. call' \in [Calls -> CallState]
        BY <1>17, <2>2 DEF RedisFails, CacheTypes
    <2>4. doing' \in [Calls -> CallSteps]
        BY <1>17, <2>1 DEF RedisFails, Move, CacheTypes, CallSteps
    <2> QED
        BY <1>17, <2>3, <2>4 DEF RedisFails, CacheTypes
<1> QED
    BY <1>1, <1>2, <1>3, <1>4, <1>5, <1>6, <1>7, <1>8, <1>9, <1>10, <1>11, <1>12,
       <1>13, <1>14, <1>15, <1>16, <1>17 DEF CacheNext, Reader

\* Every state of the cache is of its types: doing and the call records of every
\* call, the entry, the lock and the map of every instance.
THEOREM TypesCorrect == CacheSpec => []CacheTypes
<1>1. CacheInit => CacheTypes
    BY InitTypes
<1>2. CacheTypes /\ [CacheNext]_cacheVars => CacheTypes'
    BY NextTypes
<1> QED
    BY <1>1, <1>2, PTL DEF CacheSpec
-----------------------------------------------------------------------------

\* Only TryLock makes a builder, and it takes the lock; only Unlock of a builder and
\* the lock's expiry give the lock up.
LEMMA NextHoldsLock ==
    ASSUME CacheTypes, BuilderHoldsLock, [CacheNext]_cacheVars PROVE BuilderHoldsLock'
<1> USE CacheAssumption
<1> SUFFICES ASSUME ~overrun', NEW q \in Readers, Builds(q)' PROVE lock' = q
    BY DEF BuilderHoldsLock
<1>q. q \in Calls /\ doing[q] \in CallSteps
    BY DEF Calls, CacheTypes
<1>old. ~overrun => (\A r \in Readers : Builds(r) => lock = r)
    BY DEF BuilderHoldsLock
<1>1. CASE UNCHANGED cacheVars
    BY <1>1, <1>old DEF cacheVars, Builds
<1>2. ASSUME NEW r \in Readers, Call(r) PROVE lock' = q
    <2>1. r # q
        BY <1>2, <1>q DEF Call, Answer, Move, CacheTypes, Builds
    <2>2. doing'[q] = doing[q] /\ call'[q] = call[q]
        BY <1>2, <2>1, <1>q DEF Call, Answer, Move, CacheTypes
    <2> QED
        BY <1>2, <2>2, <1>old DEF Call, Builds
<1>3. ASSUME NEW r \in Readers, Get(r) PROVE lock' = q
    <2>1. r # q
        BY <1>3, <1>q DEF Get, Move, Answer, CacheTypes, Builds
    <2>2. doing'[q] = doing[q] /\ call'[q] = call[q]
        BY <1>3, <2>1, <1>q DEF Get, Move, Answer, CacheTypes
    <2> QED
        BY <1>3, <2>2, <1>old DEF Get, Builds
<1>4. ASSUME NEW r \in Readers, TryLock(r) PROVE lock' = q
    <2>1. CASE r = q
        BY <1>4, <1>q, <2>1 DEF TryLock, Move, CacheTypes, Builds
    <2>2. CASE r # q
        <3>1. Builds(q)
            BY <1>4, <1>q, <2>2 DEF TryLock, Move, CacheTypes, Builds
        <3>2. lock = q
            BY <1>4, <3>1, <1>old DEF TryLock
        <3> QED
            BY <1>4, <3>2 DEF TryLock
    <2> QED
        BY <2>1, <2>2
<1>5. ASSUME NEW r \in Readers, Factory(r) PROVE lock' = q
    <2>1. Builds(q)
        <3>1. CASE r = q
            <4>1. doing[q] = "build" \/ (doing'[q] = "store" /\ doing[q] # "build"
                                        /\ call'[q].path = doing[q])
                \/ (doing[q] # "build" /\ doing'[q] = "failed")
                <5>1. doing[q] \in {"build", "refresh", "fallback"}
                    BY <1>5, <3>1 DEF Factory
                <5>2. CASE /\ call' = [call EXCEPT ![r] = [@ EXCEPT !.path = doing[r],
                                                                     !.value = Fetched(r)]]
                           /\ Move(r, "store")
                    <6>1. call'[q].path = doing[q]
                        BY <5>2, <3>1, <1>q DEF CacheTypes, CallState
                    <6>2. doing'[q] = "store"
                        BY <5>2, <3>1, <1>q DEF Move, CacheTypes
                    <6> QED
                        BY <6>1, <6>2
                <5>3. CASE Move(r, IF doing[r] = "build" THEN "unlock" ELSE "failed")
                    BY <5>1, <5>3, <3>1, <1>q DEF Move, CacheTypes
                <5> QED
                    BY <1>5, <5>2, <5>3 DEF Factory
            <4> QED
                BY <4>1 DEF Builds
        <3>2. CASE r # q
            <4>1. doing'[q] = doing[q] /\ call'[q] = call[q]
                BY <1>5, <3>2, <1>q DEF Factory, Move, CacheTypes
            <4> QED
                BY <4>1 DEF Builds
        <3> QED
            BY <3>1, <3>2
    <2> QED
        BY <1>5, <2>1, <1>old DEF Factory
<1>6. ASSUME NEW r \in Readers, Store(r) PROVE lock' = q
    <2>1. Builds(q)
        BY <1>6, <1>q DEF Store, Move, CacheTypes, Builds
    <2> QED
        BY <1>6, <2>1, <1>old DEF Store
<1>7. ASSUME NEW r \in Readers, Unlock(r) PROVE lock' = q
    <2>1. r # q
        BY <1>7, <1>q DEF Unlock, Move, CacheTypes, Builds
    <2>2. Builds(q) /\ Builds(r)
        BY <1>7, <2>1, <1>q DEF Unlock, Move, CacheTypes, Builds
    <2> QED
        BY <1>7, <2>1, <2>2, <1>old DEF Unlock
<1>8. ASSUME NEW r \in Readers, Poll(r) PROVE lock' = q
    <2>1. r # q
        BY <1>8, <1>q DEF Poll, Move, Answer, CacheTypes, Builds
    <2>2. doing'[q] = doing[q] /\ call'[q] = call[q]
        BY <1>8, <2>1, <1>q DEF Poll, Move, Answer, CacheTypes
    <2> QED
        BY <1>8, <2>2, <1>old DEF Poll, Builds
<1>9. ASSUME NEW r \in Readers, Deadline(r) PROVE lock' = q
    <2>1. Builds(q)
        BY <1>9, <1>q DEF Deadline, Move, CacheTypes, Builds
    <2> QED
        BY <1>9, <2>1, <1>old DEF Deadline
<1>10. ASSUME NEW w \in Writers, Update(w) PROVE lock' = q
    <2>1. Builds(q)
        BY <1>10, <1>q DEF Update, Move, CacheTypes, Builds
    <2> QED
        BY <1>10, <2>1, <1>old DEF Update
<1>11. ASSUME NEW w \in Writers, Scan(w) PROVE lock' = q
    <2>1. w # q
        OBVIOUS
    <2>2. doing'[q] = doing[q] /\ call'[q] = call[q]
        BY <1>11, <2>1, <1>q DEF Scan, Move, CacheTypes
    <2> QED
        BY <1>11, <2>2, <1>old DEF Scan, Builds
<1>12. ASSUME NEW w \in Writers, Delete(w) PROVE lock' = q
    <2>1. Builds(q)
        BY <1>12, <1>q DEF Delete, Move, CacheTypes, Builds
    <2> QED
        BY <1>12, <2>1, <1>old DEF Delete
<1>13. CASE MillisecondPasses
    BY <1>13, <1>old DEF MillisecondPasses, Builds
<1>14. CASE EntryAges
    BY <1>14, <1>old DEF EntryAges, Builds
<1>15. CASE LockExpires
    <2>1. Builds(q) /\ lock # None /\ ~overrun /\ ~Builds(lock)
        BY <1>15, Zenon DEF LockExpires, Builds
    <2>2. lock = q
        BY <2>1, <1>old
    <2> QED
        BY <2>1, <2>2
<1>16. ASSUME NEW i \in Instances, Crash(i) PROVE lock' = q
    <2>1. Builds(q)
        BY <1>16, <1>q DEF Crash, CacheTypes, Builds
    <2> QED
        BY <1>16, <2>1, <1>old DEF Crash
<1>17. ASSUME NEW r \in Readers, RedisFails(r) PROVE lock' = q
    <2>1. CASE r = q
        <3>1. doing[q] = "unlock" \/ (doing[q] = "store" /\ call[q].path = "build")
            BY <1>17, <2>1, <1>q DEF RedisFails, Move, CacheTypes, Builds
        <3> QED
            BY <1>17, <3>1, <1>old DEF RedisFails, Builds
    <2>2. CASE r # q
        <3>1. doing'[q] = doing[q] /\ call'[q] = call[q]
            BY <1>17, <2>2, <1>q DEF RedisFails, Move, CacheTypes
        <3> QED
            BY <1>17, <3>1, <1>old DEF RedisFails, Builds
    <2> QED
        BY <2>1, <2>2
<1> QED
    BY <1>1, <1>2, <1>3, <1>4, <1>5, <1>6, <1>7, <1>8, <1>9, <1>10, <1>11, <1>12,
       <1>13, <1>14, <1>15, <1>16, <1>17 DEF CacheNext, Reader

\* OneBuilder, for every number of readers: while no lock has run out under its
\* builder, the build lock of getOrSet lets one reader at a time run the factory
\* on a miss.
THEOREM OneReaderBuilds == CacheSpec => []OneBuilder
<1>1. CacheInit => CacheTypes /\ BuilderHoldsLock
    <2>1. ASSUME CacheInit, NEW r \in Readers PROVE ~Builds(r)
        BY <2>1 DEF CacheInit, Builds, Calls
    <2> QED
        BY <2>1, InitTypes DEF BuilderHoldsLock
<1>2. CacheTypes /\ BuilderHoldsLock /\ [CacheNext]_cacheVars => (CacheTypes /\ BuilderHoldsLock)'
    BY NextTypes, NextHoldsLock
<1>3. BuilderHoldsLock => OneBuilder
    BY DEF BuilderHoldsLock, OneBuilder
<1> QED
    BY <1>1, <1>2, <1>3, PTL DEF CacheSpec
-----------------------------------------------------------------------------

\* A step that changes neither the entry nor the row, and leaves every writer that
\* is still to delete the key where it is, keeps the explanation of an old entry.
LEMMA ExplanationKept ==
    ASSUME OldEntryIsExplained, UNCHANGED <<entry, db>>,
           \A w \in Writers : WillDelete(w) => WillDelete(w)'
    PROVE  OldEntryIsExplained'
BY DEF OldEntryIsExplained

LEMMA NextExplained ==
    ASSUME CacheTypes, OldEntryIsExplained, [CacheNext]_cacheVars PROVE OldEntryIsExplained'
<1> USE CacheAssumption
<1>w. \A w \in Writers : w \in Calls /\ w \notin Readers
    BY DEF Calls
<1>1. CASE UNCHANGED cacheVars
    BY <1>1, ExplanationKept DEF cacheVars, WillDelete
<1>2. ASSUME NEW r \in Readers, Call(r) PROVE OldEntryIsExplained'
    <2>1. \A w \in Writers : doing'[w] = doing[w] /\ call'[w] = call[w]
        BY <1>2, <1>w DEF Call, Answer, Move, CacheTypes
    <2> QED
        BY <1>2, <2>1, ExplanationKept DEF Call, WillDelete
<1>3. ASSUME NEW r \in Readers, Get(r) PROVE OldEntryIsExplained'
    <2>1. \A w \in Writers : doing'[w] = doing[w] /\ call'[w] = call[w]
        BY <1>3, <1>w DEF Get, Move, Answer, CacheTypes
    <2> QED
        BY <1>3, <2>1, ExplanationKept DEF Get, WillDelete
<1>4. ASSUME NEW r \in Readers, TryLock(r) PROVE OldEntryIsExplained'
    <2>1. \A w \in Writers : doing'[w] = doing[w] /\ call'[w] = call[w]
        BY <1>4, <1>w DEF TryLock, Move, CacheTypes
    <2> QED
        BY <1>4, <2>1, ExplanationKept DEF TryLock, WillDelete
<1>5. ASSUME NEW r \in Readers, Factory(r) PROVE OldEntryIsExplained'
    <2>1. \A w \in Writers : doing'[w] = doing[w] /\ call'[w] = call[w]
        BY <1>5, <1>w DEF Factory, Move, CacheTypes
    <2> QED
        BY <1>5, <2>1, ExplanationKept DEF Factory, WillDelete
<1>6. ASSUME NEW r \in Readers, Store(r) PROVE OldEntryIsExplained'
    BY <1>6 DEF Store, OldEntryIsExplained
<1>7. ASSUME NEW r \in Readers, Unlock(r) PROVE OldEntryIsExplained'
    <2>1. \A w \in Writers : doing'[w] = doing[w] /\ call'[w] = call[w]
        BY <1>7, <1>w DEF Unlock, Move, CacheTypes
    <2> QED
        BY <1>7, <2>1, ExplanationKept DEF Unlock, WillDelete
<1>8. ASSUME NEW r \in Readers, Poll(r) PROVE OldEntryIsExplained'
    <2>1. \A w \in Writers : doing'[w] = doing[w] /\ call'[w] = call[w]
        BY <1>8, <1>w DEF Poll, Move, Answer, CacheTypes
    <2> QED
        BY <1>8, <2>1, ExplanationKept DEF Poll, WillDelete
<1>9. ASSUME NEW r \in Readers, Deadline(r) PROVE OldEntryIsExplained'
    <2>1. \A w \in Writers : doing'[w] = doing[w] /\ call'[w] = call[w]
        BY <1>9, <1>w DEF Deadline, Move, CacheTypes
    <2> QED
        BY <1>9, <2>1, ExplanationKept DEF Deadline, WillDelete
<1>10. ASSUME NEW w \in Writers, Update(w) PROVE OldEntryIsExplained'
    <2>1. WillDelete(w)'
        BY <1>10, <1>w DEF Update, Move, CacheTypes, WillDelete
    <2> QED
        BY <2>1 DEF OldEntryIsExplained
<1>11. ASSUME NEW w \in Writers, Scan(w) PROVE OldEntryIsExplained'
    <2>1. \A v \in Writers \ {w} : doing'[v] = doing[v] /\ call'[v] = call[v]
        BY <1>11, <1>w DEF Scan, Move, CacheTypes
    <2>2. CASE entry = None
        BY <1>11, <2>2 DEF Scan, OldEntryIsExplained
    <2>3. CASE entry # None
        <3>1. call'[w].found
            <4>1. call' = [call EXCEPT ![w].found = TRUE]
                BY <1>11, <2>3 DEF Scan
            <4>2. call[w] \in CallState
                BY <1>w DEF CacheTypes
            <4> QED
                BY <4>1, <4>2, <1>w DEF CacheTypes, CallState
        <3>2. WillDelete(w)'
            BY <1>11, <1>w, <3>1 DEF Scan, Move, CacheTypes, WillDelete
        <3> QED
            BY <3>2 DEF OldEntryIsExplained
    <2> QED
        BY <2>2, <2>3
<1>12. ASSUME NEW w \in Writers, Delete(w) PROVE OldEntryIsExplained'
    <2>1. CASE call[w].found
        BY <1>12, <2>1 DEF Delete, KeyGone, OldEntryIsExplained
    <2>2. CASE ~call[w].found
        <3>1. \A v \in Writers \ {w} : doing'[v] = doing[v] /\ call'[v] = call[v]
            BY <1>12, <1>w DEF Delete, Move, CacheTypes
        <3>2. ~WillDelete(w)
            BY <1>12, <2>2 DEF Delete, WillDelete
        <3> QED
            BY <1>12, <2>2, <3>1, <3>2, ExplanationKept DEF Delete, WillDelete
    <2> QED
        BY <2>1, <2>2
<1>13. CASE MillisecondPasses
    BY <1>13, ExplanationKept DEF MillisecondPasses, WillDelete
<1>14. CASE EntryAges
    <2>1. CASE entry' = None
        BY <2>1 DEF OldEntryIsExplained
    <2>2. CASE entry' = [entry EXCEPT !.stale = TRUE]
        <3>1. entry \in Entry /\ entry # None
            BY <1>14 DEF EntryAges, CacheTypes
        <3>2. entry'.data = entry.data /\ entry'.lagging = entry.lagging
            BY <2>2, <3>1 DEF Entry
        <3> QED
            BY <1>14, <3>1, <3>2 DEF EntryAges, OldEntryIsExplained, WillDelete
    <2> QED
        BY <1>14, <2>1, <2>2 DEF EntryAges, KeyGone
<1>15. CASE LockExpires
    BY <1>15, ExplanationKept DEF LockExpires, WillDelete
<1>16. ASSUME NEW i \in Instances, Crash(i) PROVE OldEntryIsExplained'
    <2>1. \A w \in Writers : doing'[w] \in {doing[w], "dead"}
        BY <1>16, <1>w DEF Crash
    <2> QED
        BY <1>16, <2>1, ExplanationKept DEF Crash, WillDelete
<1>17. ASSUME NEW r \in Readers, RedisFails(r) PROVE OldEntryIsExplained'
    <2>1. \A w \in Writers : doing'[w] = doing[w] /\ call'[w] = call[w]
        BY <1>17, <1>w DEF RedisFails, Move, CacheTypes
    <2> QED
        BY <1>17, <2>1, ExplanationKept DEF RedisFails, WillDelete
<1> QED
    BY <1>1, <1>2, <1>3, <1>4, <1>5, <1>6, <1>7, <1>8, <1>9, <1>10, <1>11, <1>12,
       <1>13, <1>14, <1>15, <1>16, <1>17 DEF CacheNext, Reader

\* EntryIsCurrent, for every number of readers and writers: once its writers have
\* deleted the key, an entry that is not the row was stored by a reader that had
\* read the row before it was written.
THEOREM InvalidationWorks == CacheSpec => []EntryIsCurrent
<1>1. CacheInit => CacheTypes /\ OldEntryIsExplained
    BY InitTypes DEF CacheInit, OldEntryIsExplained
<1>2. CacheTypes /\ OldEntryIsExplained /\ [CacheNext]_cacheVars
      => (CacheTypes /\ OldEntryIsExplained)'
    BY NextTypes, NextExplained
<1>3. OldEntryIsExplained => EntryIsCurrent
    BY DEF OldEntryIsExplained, EntryIsCurrent, WillDelete
<1> QED
    BY <1>1, <1>2, <1>3, PTL DEF CacheSpec
==============================================================================
