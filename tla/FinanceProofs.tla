---------------------------- MODULE FinanceProofs ----------------------------
(***************************************************************************)
(* The money a school takes and pays, in two components that share         *)
(* nothing.  For any number of bills, orders, amounts and overlapping      *)
(* requests: what a bill, its payments and discounts, the order and the    *)
(* finance income say of each other.  For any number of accounts, entries  *)
(* and salary transactions, however they are posted, removed and cut off:  *)
(* what the balances say of the entries, and payroll of the ledger.        *)
(***************************************************************************)
EXTENDS FeeCollection, SalaryPosting, FiniteSums

(***************************************************************************)
(* FeeCollection                                                           *)
(***************************************************************************)
Recorded(o) == o \in removed \/ \E p \in payments : p.order = o
Deleting == {"delBill", "delIncome", "delWrite"}
Over == {"markPaid", "done"}
WithBill == {"order", "bill", "income", "write", "discountRow"} \cup Deleting

\* A payment is the last thing its request inserts, and the only one.
RowInv ==
    /\ \A p \in payments : pc[p.by] \in Over
    /\ \A p, q \in payments : p.by = q.by => p = q

\* What a request holds: an order it is about to insert is not there yet, one it handles is;
\* who marks an order PAID has its payment recorded; who deletes a payment holds its row; and
\* an income is booked, or its reversal tried, before the row is written.
HoldsInv(r) ==
    /\ pc[r] = "order" => /\ local[r].order \in Orders
                          /\ order[local[r].order].status = "NONE"
                          /\ \A q \in Requests :
                                pc[q] = "order" /\ local[q].order = local[r].order => q = r
    /\ pc[r] \in {"bill", "markPaid", "markFailed"} => local[r].order \in Orders
    /\ \A o \in Orders : HandlesOrder(r, o) => order[o].status # "NONE"
    /\ pc[r] \in WithBill => local[r].bill \in Bills
    /\ pc[r] = "bill" => ~local[r].income
    /\ pc[r] = "income" => local[r].order = NoOrder /\ local[r].income
    /\ pc[r] = "markPaid" => Recorded(local[r].order)
    /\ pc[r] \in Deleting =>
          /\ local[r].pay \in Requests /\ pc[local[r].pay] \in Over
          /\ \A p \in payments : p.by = local[r].pay =>
                p.order = local[r].order /\ p.income = local[r].income
    /\ pc[r] = "delWrite" /\ local[r].income => local[r].pay \notin incomes \ orphaned
    /\ r \in incomes => (pc[r] = "write" /\ local[r].income) \/ pc[r] \in Over
RequestsInv == \A r \in Requests : HoldsInv(r)

\* An order's row names a bill, and a payment of the order comes after it.
OrderInv ==
    /\ \A o \in Orders : order[o].status # "NONE" => order[o].bill \in Bills
    /\ \A p \in payments : p.order # NoOrder => order[p.order].status # "NONE"

\* Of an undisturbed order: one handler at a time, which has not recorded the payment as long
\* as it may; and a recorded order is PAID, or about to be.
OnceInv ==
    \A o \in Orders \ disturbed :
        /\ \A p, q \in payments : p.order = o /\ q.order = o => p = q
        /\ \A q, r \in Requests : HandlesOrder(q, o) /\ HandlesOrder(r, o) => q = r
        /\ \A p \in payments : p.order = o =>
              /\ \A r \in Requests : HandlesOrder(r, o) => pc[r] = "markPaid"
              /\ \/ order[o].status = "PAID"
                 \/ \E r \in Requests : HandlesOrder(r, o)

IInv == TypeOK /\ RowInv /\ RequestsInv /\ OrderInv /\ OnceInv /\ NothingWithoutPayment

-----------------------------------------------------------------------------
(* Types.                                                                  *)

LEMMA NewBillTyped == NewBill \in Bill /\ [b \in Bills |-> NewBill] \in [Bills -> Bill]
    BY DEF NewBill, Bill, BillStatus

LEMMA NothingTyped == Nothing \in Local
    BY NewBillTyped DEF Nothing, Local

LEMMA ReducedTyped ==
    ASSUME NEW seen \in Bill, NEW amount \in Nat PROVE Reduced(seen, amount) \in Nat
<1> DEFINE d == seen.paid - amount
<1>1. d \in Int
    BY DEF Bill
<1> HIDE DEF d
<1>2. \E x \in {0, d} : \A y \in {0, d} : x >= y
    BY <1>1
<1>3. Max({0, d}) \in {0, d} /\ \A y \in {0, d} : Max({0, d}) >= y
    BY <1>2 DEF Max
<1>4. Max({0, d}) \in Nat
    BY <1>1, <1>3
<1> QED
    BY <1>4 DEF Reduced, d

LEMMA StatusTyped ==
    ASSUME NEW b \in Bills, NEW paid, NEW discount
    PROVE  StatusFor(b, paid, discount) \in BillStatus
    BY DEF StatusFor, BillStatus

LEMMA SetPaidTyped ==
    ASSUME TypeOK, NEW b \in Bills, NEW paid \in Nat, NEW seen \in Bill, SetPaid(b, paid, seen)
    PROVE  bill' \in [Bills -> Bill]
<1> DEFINE status == StatusFor(b, paid, seen.discount)
<1>1. status \in BillStatus
    BY StatusTyped
<1>2. bill' = [bill EXCEPT ![b].paid = paid, ![b].status = status]
    BY DEF SetPaid
<1> HIDE DEF status
<1>3. ASSUME NEW c \in Bills PROVE bill'[c] \in Bill
    BY <1>1, <1>2 DEF TypeOK, Bill
<1> QED
    BY <1>2, <1>3 DEF TypeOK

\* What Goto writes.
LEMMA Went ==
    ASSUME TypeOK, NEW r \in Requests, NEW step \in Steps, NEW seen \in Local, Goto(r, step, seen)
    PROVE  /\ pc' \in [Requests -> Steps] /\ local' \in [Requests -> Local]
           /\ pc'[r] = step /\ local'[r] = seen
           /\ \A q \in Requests \ {r} : pc'[q] = pc[q] /\ local'[q] = local[q]
    BY DEF Goto, TypeOK

-----------------------------------------------------------------------------
LEMMA InitInv == Init => IInv
<1> SUFFICES ASSUME Init PROVE IInv
    OBVIOUS
<1>1. TypeOK
    BY NothingTyped, NewBillTyped DEF Init, TypeOK, Steps, Order, OrderStatus
<1>2. RowInv /\ OrderInv /\ NothingWithoutPayment
    BY DEF Init, RowInv, OrderInv, NothingWithoutPayment
<1>3. RequestsInv /\ OnceInv
    BY DEF Init, RequestsInv, HoldsInv, OnceInv, HandlesOrder, Deleting, Over, WithBill
<1> QED
    BY <1>1, <1>2, <1>3 DEF IInv

\* A step that writes none of the rows in question: what it holds afterwards has to fit, and
\* it handles no undisturbed order that it did not handle before, unless the order is not PAID
\* and no one else does.
LEMMA ReadStep ==
    ASSUME IInv, TypeOK', NEW r \in Requests, pc[r] \notin Over,
           UNCHANGED <<payments, incomes, order, removed, orphaned>>,
           disturbed \subseteq disturbed',
           pc[r] = "write" => r \notin incomes,
           \A q \in Requests \ {r} : pc'[q] = pc[q] /\ local'[q] = local[q],
           HoldsInv(r)', pc'[r] # "markPaid",
           \A o \in Orders \ disturbed' : HandlesOrder(r, o)' =>
               \/ HandlesOrder(r, o)
               \/ order[o].status # "PAID" /\ \A q \in Requests : ~HandlesOrder(q, o)
    PROVE  IInv'
<1>1. RowInv'
    BY DEF IInv, TypeOK, RowInv, Payment, Over
<1>2. ASSUME NEW q \in Requests \ {r} PROVE HoldsInv(q)'
    <2>1. HoldsInv(q) /\ pc'[q] = pc[q] /\ local'[q] = local[q]
        BY DEF IInv, RequestsInv
    <2>2. pc'[q] = "order" => /\ local'[q].order \in Orders
                              /\ order'[local'[q].order].status = "NONE"
                              /\ \A z \in Requests :
                                   pc'[z] = "order" /\ local'[z].order = local'[q].order => z = q
        BY <2>1 DEF HoldsInv
    <2>3. pc'[q] \in Deleting =>
            /\ local'[q].pay \in Requests /\ pc'[local'[q].pay] \in Over
            /\ \A p \in payments' : p.by = local'[q].pay =>
                  p.order = local'[q].order /\ p.income = local'[q].income
        BY <2>1 DEF HoldsInv
    <2> QED
        BY <2>1, <2>2, <2>3 DEF HoldsInv, Recorded, HandlesOrder
<1>3. RequestsInv'
    BY <1>2 DEF RequestsInv
<1>4. OrderInv'
    BY DEF IInv, OrderInv
<1>5. OnceInv'
    <2> SUFFICES ASSUME NEW o \in Orders, o \notin disturbed'
                 PROVE  /\ \A p, q \in payments : p.order = o /\ q.order = o => p = q
                        /\ \A q, z \in Requests :
                              HandlesOrder(q, o)' /\ HandlesOrder(z, o)' => q = z
                        /\ \A p \in payments : p.order = o =>
                              /\ \A z \in Requests : HandlesOrder(z, o)' => pc'[z] = "markPaid"
                              /\ \/ order[o].status = "PAID"
                                 \/ \E z \in Requests : HandlesOrder(z, o)'
        BY DEF OnceInv
    <2>1. \A q \in Requests \ {r} : HandlesOrder(q, o)' <=> HandlesOrder(q, o)
        BY DEF HandlesOrder
    <2>2. /\ \A p, q \in payments : p.order = o /\ q.order = o => p = q
          /\ \A q, z \in Requests : HandlesOrder(q, o) /\ HandlesOrder(z, o) => q = z
          /\ \A p \in payments : p.order = o =>
                /\ \A z \in Requests : HandlesOrder(z, o) => pc[z] = "markPaid"
                /\ \/ order[o].status = "PAID"
                   \/ \E z \in Requests : HandlesOrder(z, o)
        BY DEF IInv, OnceInv
    <2>3. ASSUME NEW p \in payments, p.order = o PROVE ~HandlesOrder(r, o) /\ ~HandlesOrder(r, o)'
        BY <2>2, <2>3 DEF Over
    <2>4. \A q, z \in Requests : HandlesOrder(q, o)' /\ HandlesOrder(z, o)' => q = z
        BY <2>1, <2>2
    <2>5. ASSUME NEW p \in payments, p.order = o
          PROVE  /\ \A z \in Requests : HandlesOrder(z, o)' => pc'[z] = "markPaid"
                 /\ \/ order[o].status = "PAID"
                    \/ \E z \in Requests : HandlesOrder(z, o)'
        BY <2>1, <2>2, <2>3, <2>5
    <2> QED
        BY <2>2, <2>4, <2>5
<1>6. NothingWithoutPayment'
    <2>1. \A i \in incomes : pc[i] = "write" => i # r
        OBVIOUS
    <2> QED
        BY <2>1 DEF IInv, TypeOK, NothingWithoutPayment
<1> QED
    BY <1>1, <1>3, <1>4, <1>5, <1>6 DEF IInv

-----------------------------------------------------------------------------
(* The steps that only read, or write bills and discounts.                 *)

LEMMA ReadBillInv ==
    ASSUME IInv, NEW r \in Requests, NEW ask \in Local, ask.bill \in Bills,
           \/ pc[r] = "idle" /\ ask.order = NoOrder
           \/ pc[r] = "bill" /\ ask = local[r],
           ReadBill(r, ask), UNCHANGED <<tables, captured, history>>
    PROVE  IInv'
<1> DEFINE step == IF Payable(ask.bill, ask.amount)
                   THEN IF ask.income THEN "income" ELSE "write" ELSE "done"
           seen == IF Payable(ask.bill, ask.amount) THEN [ask EXCEPT !.seen = bill] ELSE Nothing
<1>1. step \in Steps /\ Goto(r, step, seen)
    BY DEF ReadBill, Finish, Steps
<1>2. /\ seen \in Local
      /\ step # "done" =>
            seen.order = ask.order /\ seen.income = ask.income /\ seen.bill = ask.bill
    BY NothingTyped DEF Local, IInv, TypeOK
<1>3. step \in {"income", "write", "done"} /\ (step = "income" <=> step # "done" /\ ask.income)
    BY DEF Local
<1> HIDE DEF step, seen
<1>4. /\ pc' \in [Requests -> Steps] /\ local' \in [Requests -> Local]
      /\ pc'[r] = step /\ local'[r] = seen
      /\ \A q \in Requests \ {r} : pc'[q] = pc[q] /\ local'[q] = local[q]
    BY <1>1, <1>2, Went DEF IInv
<1>5. TypeOK'
    BY <1>4 DEF IInv, TypeOK, tables, history
<1>6. r \notin incomes
    BY DEF IInv, RequestsInv, HoldsInv, Over
<1>7. HoldsInv(r)'
    <2>1. step = "income" => ask.order = NoOrder
        BY <1>3 DEF IInv, RequestsInv, HoldsInv
    <2>2. \A o \in Orders : HandlesOrder(r, o)' => HandlesOrder(r, o)
        BY <1>2, <1>3, <1>4, NoneAssumption DEF HandlesOrder
    <2>3. \A o \in Orders : HandlesOrder(r, o)' => order'[o].status # "NONE"
        BY <2>2 DEF IInv, RequestsInv, HoldsInv, tables
    <2> QED
        BY <1>2, <1>3, <1>4, <1>6, <2>1, <2>3 DEF HoldsInv, Deleting, WithBill, Over,
                                                      tables
<1>8. pc'[r] # "markPaid" /\ \A o \in Orders : HandlesOrder(r, o)' => HandlesOrder(r, o)
    BY <1>2, <1>3, <1>4, NoneAssumption DEF HandlesOrder
<1> QED
    BY <1>4, <1>5, <1>6, <1>7, <1>8, ReadStep DEF tables, history, Over

LEMMA PayAtCounterInv ==
    ASSUME IInv, NEW r \in Requests, NEW b \in Bills, NEW amount \in Amounts,
           NEW income \in BOOLEAN, PayAtCounter(r, b, amount, income)
    PROVE  IInv'
<1> DEFINE ask == [Nothing EXCEPT !.bill = b, !.amount = amount, !.income = income]
<1>1. ask \in Local /\ ask.bill \in Bills /\ ask.order = NoOrder
    BY NothingTyped, AmountsAssumption DEF Local, Nothing
<1>2. pc[r] = "idle" /\ ReadBill(r, ask) /\ UNCHANGED <<tables, captured, history>>
    BY DEF PayAtCounter
<1> HIDE DEF ask
<1> QED
    BY <1>1, <1>2, ReadBillInv

LEMMA PayOrderInv == ASSUME IInv, NEW r \in Requests, PayOrder(r) PROVE IInv'
<1>1. pc[r] = "bill" /\ ReadBill(r, local[r]) /\ UNCHANGED <<tables, captured, history>>
    BY DEF PayOrder
<1>2. local[r] \in Local
    BY DEF IInv, TypeOK
<1>3. local[r].bill \in Bills
    BY <1>1 DEF IInv, RequestsInv, HoldsInv, WithBill
<1> QED
    BY <1>1, <1>2, <1>3, ReadBillInv

\* Handlers of discounts and the first steps of a deletion: they neither hold an order that
\* they handle nor an income.
LEMMA OtherReadInv ==
    ASSUME IInv, NEW r \in Requests, NEW step \in Steps, NEW seen \in Local,
           pc[r] \in {"idle", "delBill", "discount", "discountRow"},
           Goto(r, step, seen), bill' \in [Bills -> Bill], discounts' \in [Bills -> Nat],
           raced' \subseteq Bills,
           UNCHANGED <<payments, incomes, order, captured, removed, orphaned, disturbed>>,
           step \in Deleting \cup {"order", "discount", "discountRow", "done"},
           step \in Deleting =>
              /\ seen.pay \in Requests /\ pc[seen.pay] \in Over
              /\ \A p \in payments : p.by = seen.pay =>
                    p.order = seen.order /\ p.income = seen.income
              /\ step = "delWrite" => ~seen.income,
           step \in WithBill => seen.bill \in Bills,
           step = "order" =>
              /\ seen.order \in Orders /\ order[seen.order].status = "NONE"
              /\ \A q \in Requests : ~(pc[q] = "order" /\ local[q].order = seen.order)
    PROVE  IInv'
<1>1. /\ pc' \in [Requests -> Steps] /\ local' \in [Requests -> Local]
      /\ pc'[r] = step /\ local'[r] = seen
      /\ \A q \in Requests \ {r} : pc'[q] = pc[q] /\ local'[q] = local[q]
    BY Went DEF IInv
<1>2. TypeOK'
    BY <1>1 DEF IInv, TypeOK
<1>3. r \notin incomes
    BY DEF IInv, RequestsInv, HoldsInv, Over
<1>4. pc'[r] # "markPaid" /\ \A o \in Orders : ~HandlesOrder(r, o)'
    BY <1>1 DEF HandlesOrder, Deleting
<1>5. HoldsInv(r)'
    BY <1>1, <1>3, <1>4 DEF HoldsInv, Deleting, WithBill, Over
<1> QED
    BY <1>1, <1>2, <1>3, <1>4, <1>5, ReadStep DEF Over

LEMMA OpenOrderInv ==
    ASSUME IInv, NEW r \in Requests, NEW o \in Orders, NEW b \in Bills, NEW amount \in Amounts,
           OpenOrder(r, o, b, amount)
    PROVE  IInv'
<1> DEFINE seen == [Nothing EXCEPT !.bill = b, !.amount = amount, !.order = o]
<1>1. seen \in Local /\ seen.order = o /\ seen.bill = b
    BY NothingTyped, AmountsAssumption DEF Local, Nothing
<1>2. /\ pc[r] = "idle" /\ order[o].status = "NONE" /\ Goto(r, "order", seen)
      /\ \A q \in Requests : ~(pc[q] = "order" /\ local[q].order = o)
      /\ UNCHANGED <<tables, captured, history>>
    BY DEF OpenOrder
<1> HIDE DEF seen
<1>3. "order" \in Steps /\ "order" \notin Deleting
    BY DEF Steps, Deleting
<1>4. /\ bill' \in [Bills -> Bill] /\ discounts' \in [Bills -> Nat] /\ raced' \subseteq Bills
      /\ UNCHANGED <<payments, incomes, order, captured, removed, orphaned, disturbed>>
    BY <1>2 DEF tables, history, IInv, TypeOK
<1> QED
    BY <1>1, <1>2, <1>3, <1>4, OtherReadInv

LEMMA DeletePaymentInv ==
    ASSUME IInv, NEW r \in Requests, NEW p \in payments, DeletePayment(r, p) PROVE IInv'
<1> DEFINE seen == [Nothing EXCEPT !.bill = p.bill, !.amount = p.amount, !.order = p.order,
                                   !.income = p.income, !.pay = p.by]
<1>1. p \in Payment
    BY DEF IInv, TypeOK
<1>2. seen \in Local /\ seen.pay = p.by /\ seen.order = p.order /\ seen.income = p.income
      /\ seen.bill \in Bills
    BY <1>1, NothingTyped DEF Local, Nothing, Payment
<1>3. pc[r] = "idle" /\ Goto(r, "delBill", seen) /\ UNCHANGED <<tables, captured, history>>
    BY DEF DeletePayment
<1> HIDE DEF seen
<1>4. p.by \in Requests /\ pc[p.by] \in Over /\ \A q \in payments : q.by = p.by => q = p
    BY <1>1 DEF IInv, RowInv, Payment
<1>5. "delBill" \in Steps
    BY DEF Steps
<1> QED
    BY <1>2, <1>3, <1>4, <1>5, OtherReadInv DEF tables, history, IInv, TypeOK, Deleting

LEMMA DeleteReadsBillInv ==
    ASSUME IInv, NEW r \in Requests, DeleteReadsBill(r) PROVE IInv'
<1> DEFINE step == IF local[r].income THEN "delIncome" ELSE "delWrite"
           seen == [local[r] EXCEPT !.seen = bill]
<1>1. /\ seen \in Local /\ seen.pay = local[r].pay /\ seen.order = local[r].order
      /\ seen.income = local[r].income /\ seen.bill = local[r].bill
    BY DEF IInv, TypeOK, Local
<1>2. /\ pc[r] = "delBill" /\ Goto(r, step, seen)
      /\ UNCHANGED <<tables, captured, history>>
    BY DEF DeleteReadsBill
<1>3. step \in Steps /\ step \in Deleting /\ (step = "delWrite" => ~local[r].income)
    BY DEF Steps, Deleting
<1> HIDE DEF step, seen
<1>4. HoldsInv(r)
    BY DEF IInv, RequestsInv
<1> QED
    BY <1>1, <1>2, <1>3, <1>4, OtherReadInv
    DEF tables, history, IInv, TypeOK, Deleting, HoldsInv, WithBill

LEMMA DiscountReadsInv ==
    ASSUME IInv, NEW r \in Requests, NEW d \in Discounts, DiscountReads(r, d) PROVE IInv'
<1> DEFINE seen == [Nothing EXCEPT !.amount = d, !.seen = bill, !.todo = Discountable(bill)]
<1>1. seen \in Local
    <2> DEFINE todo == Discountable(bill)
    <2>1. todo \in SUBSET Bills /\ bill \in [Bills -> Bill] /\ d \in Nat
        BY AmountsAssumption DEF Discountable, IInv, TypeOK
    <2> HIDE DEF todo
    <2>2. [Nothing EXCEPT !.amount = d, !.seen = bill, !.todo = todo] \in Local
        BY <2>1, NothingTyped DEF Local, Nothing
    <2> QED
        BY <2>2 DEF todo
<1>2. /\ pc[r] = "idle" /\ UNCHANGED <<tables, captured, history>>
      /\ Goto(r, "done", Nothing) \/ Goto(r, "discount", seen)
    BY DEF DiscountReads, Finish
<1> HIDE DEF seen
<1>3. {"done", "discount"} \subseteq Steps \ (Deleting \cup WithBill)
    BY DEF Steps, Deleting, WithBill
<1>4. /\ bill' \in [Bills -> Bill] /\ discounts' \in [Bills -> Nat] /\ raced' \subseteq Bills
      /\ UNCHANGED <<payments, incomes, order, captured, removed, orphaned, disturbed>>
    BY <1>2 DEF tables, history, IInv, TypeOK
<1>5. CASE Goto(r, "done", Nothing)
    BY <1>2, <1>3, <1>4, <1>5, NothingTyped, OtherReadInv
<1>6. CASE Goto(r, "discount", seen)
    BY <1>1, <1>2, <1>3, <1>4, <1>6, OtherReadInv
<1> QED
    BY <1>2, <1>5, <1>6

LEMMA GrantDiscountInv ==
    ASSUME IInv, NEW r \in Requests, NEW b \in Bills, GrantDiscount(r, b) PROVE IInv'
<1> DEFINE seen == [local[r] EXCEPT !.bill = b, !.todo = @ \ {b}]
           granted == newDiscount(local[r].seen[b], local[r].amount)
<1>1. /\ seen \in Local /\ seen.bill = b
      /\ local[r].seen[b] \in Bill /\ local[r].amount \in Nat
    BY DEF IInv, TypeOK, Local
<1>2. granted \in Nat
    BY <1>1 DEF newDiscount, Bill
<1>3. /\ pc[r] = "discount" /\ Goto(r, "discountRow", seen)
      /\ bill' = [bill EXCEPT ![b].discount = granted]
      /\ raced' \in {raced, raced \cup {b}}
      /\ UNCHANGED <<discounts, payments, incomes, order, captured, disturbed, removed,
                     orphaned>>
    BY DEF GrantDiscount, Note
<1> HIDE DEF seen, granted
<1>4. bill' \in [Bills -> Bill]
    <2>1. ASSUME NEW c \in Bills PROVE bill'[c] \in Bill
        BY <1>2, <1>3 DEF IInv, TypeOK, Bill
    <2> QED
        BY <1>3, <2>1 DEF IInv, TypeOK
<1>5. "discountRow" \in Steps
    BY DEF Steps
<1> QED
    BY <1>1, <1>3, <1>4, <1>5, OtherReadInv DEF IInv, TypeOK, Deleting

LEMMA InsertDiscountInv ==
    ASSUME IInv, NEW r \in Requests, InsertDiscount(r) PROVE IInv'
<1>1. /\ pc[r] = "discountRow"
      /\ UNCHANGED <<bill, payments, incomes, order, captured, history>>
      /\ Goto(r, "done", Nothing) \/ Goto(r, "discount", local[r])
    BY DEF InsertDiscount, Finish
<1>2. local[r] \in Local /\ local[r].amount \in Nat
    BY DEF IInv, TypeOK, Local
<1>3. discounts' \in [Bills -> Nat]
    <2>1. ASSUME NEW b \in Bills PROVE discounts'[b] \in Nat
        BY <1>2 DEF InsertDiscount, IInv, TypeOK
    <2> QED
        BY <2>1 DEF InsertDiscount, IInv, TypeOK
<1>4. {"done", "discount"} \subseteq Steps \ (Deleting \cup WithBill)
    BY DEF Steps, Deleting, WithBill
<1> QED
    BY <1>1, <1>2, <1>3, <1>4, NothingTyped, OtherReadInv DEF history, IInv, TypeOK

-----------------------------------------------------------------------------
(* Orders.                                                                 *)

LEMMA AnswerInv ==
    ASSUME IInv, NEW r \in Requests, NEW o \in Orders, ReadsOrder(r, o),
           NEW step \in {"bill", "markFailed"},
           IF order[o].status = "PAID" THEN Finish(r) ELSE Goto(r, step, Asks(o))
    PROVE  IInv'
<1>1. /\ pc[r] = "idle" /\ order[o].status # "NONE"
      /\ disturbed' \in {disturbed, disturbed \cup {o}}
      /\ o \notin disturbed' => \A q \in Requests : ~HandlesOrder(q, o)
      /\ UNCHANGED <<tables, captured, raced, removed, orphaned>>
    BY DEF ReadsOrder
<1>2. order[o] \in Order /\ order[o].bill \in Bills
    BY <1>1 DEF IInv, TypeOK, OrderInv
<1>3. /\ Asks(o) \in Local /\ Asks(o).order = o /\ Asks(o).bill \in Bills
      /\ Asks(o).income = FALSE
    BY <1>2, NothingTyped DEF Asks, Nothing, Local, Order
<1>4. r \notin incomes
    BY <1>1 DEF IInv, RequestsInv, HoldsInv, Over
<1>5. CASE order[o].status = "PAID"
    <2>1. Goto(r, "done", Nothing) /\ "done" \in Steps
        BY <1>5 DEF Finish, Steps
    <2>2. /\ pc' \in [Requests -> Steps] /\ local' \in [Requests -> Local]
          /\ pc'[r] = "done"
          /\ \A q \in Requests \ {r} : pc'[q] = pc[q] /\ local'[q] = local[q]
        BY <2>1, NothingTyped, Went DEF IInv
    <2>3. TypeOK'
        BY <1>1, <2>2 DEF IInv, TypeOK, tables
    <2>4. HoldsInv(r)' /\ \A z \in Orders : ~HandlesOrder(r, z)'
        BY <1>4, <2>2 DEF HoldsInv, HandlesOrder, Deleting, WithBill, Over
    <2> QED
        BY <1>1, <2>2, <2>3, <2>4, ReadStep DEF tables, Over
<1>6. CASE order[o].status # "PAID"
    <2>1. Goto(r, step, Asks(o)) /\ step \in Steps
        BY <1>6 DEF Steps
    <2>2. /\ pc' \in [Requests -> Steps] /\ local' \in [Requests -> Local]
          /\ pc'[r] = step /\ local'[r] = Asks(o)
          /\ \A q \in Requests \ {r} : pc'[q] = pc[q] /\ local'[q] = local[q]
        BY <1>3, <2>1, Went DEF IInv
    <2>3. TypeOK'
        BY <1>1, <2>2 DEF IInv, TypeOK, tables
    <2>4. \A z \in Orders : HandlesOrder(r, z)' => z = o
        BY <1>3, <2>2 DEF HandlesOrder
    <2>5. HoldsInv(r)'
        BY <1>1, <1>3, <1>4, <2>2, <2>4 DEF HoldsInv, Deleting, WithBill, Over, tables
    <2> QED
        BY <1>1, <1>6, <2>2, <2>3, <2>4, <2>5, ReadStep DEF tables, Over
<1> QED
    BY <1>5, <1>6

LEMMA RecordInv ==
    ASSUME IInv, NEW r \in Requests, NEW o \in Orders, RecordCaptured(r, o) \/ RecordFailed(r, o)
    PROVE  IInv'
    BY AnswerInv DEF RecordCaptured, RecordFailed, AlreadyPaid

LEMMA InsertOrderInv == ASSUME IInv, NEW r \in Requests, InsertOrder(r) PROVE IInv'
<1> DEFINE o == local[r].order
           new == [status |-> "CREATED", bill |-> local[r].bill, amount |-> local[r].amount]
<1>1. /\ pc[r] = "order" /\ order' = [order EXCEPT ![o] = new] /\ Goto(r, "done", Nothing)
      /\ UNCHANGED <<bill, discounts, payments, incomes, captured, history>>
    BY DEF InsertOrder, Finish
<1>2. o \in Orders /\ order[o].status = "NONE" /\ local[r].bill \in Bills
    BY <1>1 DEF IInv, RequestsInv, HoldsInv, WithBill
<1>3. new \in Order /\ new.status = "CREATED" /\ new.bill \in Bills
    BY <1>2 DEF Order, OrderStatus, IInv, TypeOK, Local
<1>4. /\ pc' \in [Requests -> Steps] /\ local' \in [Requests -> Local]
      /\ pc'[r] = "done" /\ local'[r] = Nothing
      /\ \A q \in Requests \ {r} : pc'[q] = pc[q] /\ local'[q] = local[q]
    <2>1. "done" \in Steps
        BY DEF Steps
    <2> QED
        BY <1>1, <2>1, NothingTyped, Went DEF IInv
<1>5. /\ \A q \in Requests : pc[q] = "order" /\ local[q].order = o => q = r
      /\ \A q \in Requests : ~HandlesOrder(q, o)
    BY <1>1, <1>2 DEF IInv, RequestsInv, HoldsInv
<1> HIDE DEF o, new
<1>6. /\ order' \in [Orders -> Order] /\ order'[o] = new
      /\ \A z \in Orders \ {o} : order'[z] = order[z]
    BY <1>1, <1>2, <1>3 DEF IInv, TypeOK
<1>7. TypeOK'
    BY <1>1, <1>4, <1>6 DEF IInv, TypeOK, history
<1>8. RowInv'
    BY <1>1, <1>4 DEF IInv, TypeOK, RowInv, Payment, Over
<1>9. \A q \in Requests, z \in Orders : HandlesOrder(q, z)' <=> HandlesOrder(q, z)
    BY <1>1, <1>4 DEF HandlesOrder
<1>10. HoldsInv(r)'
    <2>1. r \notin incomes
        BY <1>1 DEF IInv, RequestsInv, HoldsInv, Over
    <2>2. \A z \in Orders : ~HandlesOrder(r, z)'
        BY <1>4 DEF HandlesOrder
    <2> QED
        BY <1>1, <1>4, <2>1, <2>2 DEF HoldsInv, Deleting, WithBill, Over
<1>11. ASSUME NEW q \in Requests \ {r} PROVE HoldsInv(q)'
    <2>1. HoldsInv(q) /\ pc'[q] = pc[q] /\ local'[q] = local[q]
        BY <1>4 DEF IInv, RequestsInv
    <2>2. pc'[q] = "order" => /\ local'[q].order \in Orders
                              /\ order'[local'[q].order].status = "NONE"
                              /\ \A z \in Requests :
                                   pc'[z] = "order" /\ local'[z].order = local'[q].order => z = q
        BY <1>4, <1>5, <1>6, <2>1 DEF HoldsInv
    <2>3. \A z \in Orders : HandlesOrder(q, z)' => order'[z].status # "NONE"
        BY <1>3, <1>6, <1>9, <2>1 DEF HoldsInv
    <2>4. pc'[q] \in Deleting =>
            /\ local'[q].pay \in Requests /\ pc'[local'[q].pay] \in Over
            /\ \A p \in payments' : p.by = local'[q].pay =>
                  p.order = local'[q].order /\ p.income = local'[q].income
        BY <1>1, <1>4, <2>1 DEF HoldsInv, Over
    <2> QED
        BY <1>1, <2>1, <2>2, <2>3, <2>4 DEF HoldsInv, Recorded, history
<1>12. RequestsInv'
    BY <1>10, <1>11 DEF RequestsInv
<1>13. \A p \in payments : p.order # o
    BY <1>2, NoneAssumption DEF IInv, OrderInv, o
<1>14. OrderInv'
    BY <1>1, <1>3, <1>6, <1>13 DEF IInv, TypeOK, OrderInv, Payment
<1>15. OnceInv'
    <2> SUFFICES ASSUME NEW z \in Orders \ disturbed
                 PROVE  /\ \A p, q \in payments : p.order = z /\ q.order = z => p = q
                        /\ \A q, t \in Requests :
                              HandlesOrder(q, z)' /\ HandlesOrder(t, z)' => q = t
                        /\ \A p \in payments : p.order = z =>
                              /\ \A t \in Requests : HandlesOrder(t, z)' => pc'[t] = "markPaid"
                              /\ \/ order'[z].status = "PAID"
                                 \/ \E t \in Requests : HandlesOrder(t, z)'
        BY <1>1 DEF OnceInv, history
    <2>1. \A t \in Requests : HandlesOrder(t, z) => pc'[t] = pc[t]
        BY <1>1, <1>4 DEF HandlesOrder
    <2>2. CASE z = o
        BY <1>5, <1>9, <1>13, <2>2
    <2>3. CASE z # o
        BY <1>6, <1>9, <2>1, <2>3 DEF IInv, OnceInv
    <2> QED
        BY <2>2, <2>3
<1>16. NothingWithoutPayment'
    <2>1. \A z \in Orders : order'[z].status = "PAID" => order[z].status = "PAID"
        BY <1>3, <1>6
    <2>2. \A i \in incomes : pc[i] = "write" => pc'[i] = "write"
        BY <1>1, <1>4 DEF IInv, TypeOK
    <2> QED
        BY <1>1, <2>1, <2>2 DEF IInv, NothingWithoutPayment, history
<1> QED
    BY <1>7, <1>8, <1>12, <1>14, <1>15, <1>16 DEF IInv

-----------------------------------------------------------------------------
(* The steps that write an order's status, a payment or an income.         *)

\* What another request holds stays as it is when a step adds what it has not seen, and takes
\* no record away.
LEMMA OthersHold ==
    ASSUME IInv, NEW r \in Requests, NEW q \in Requests \ {r},
           \A z \in Requests \ {r} : pc'[z] = pc[z] /\ local'[z] = local[z],
           pc[r] \in Over => pc'[r] \in Over, pc'[r] # "order",
           \A o \in Orders : order'[o].status = "NONE" <=> order[o].status = "NONE",
           \A o \in Orders : Recorded(o) => Recorded(o)',
           \A p \in payments' : p \in payments \/ (p.by = r /\ pc[r] \notin Over),
           incomes' \subseteq incomes \cup {r}, orphaned \subseteq orphaned',
           pc[r] \in Over => incomes' \subseteq incomes
    PROVE  HoldsInv(q)'
<1>1. HoldsInv(q) /\ pc'[q] = pc[q] /\ local'[q] = local[q]
    BY DEF IInv, RequestsInv
<1>2. pc'[q] = "order" => /\ local'[q].order \in Orders
                          /\ order'[local'[q].order].status = "NONE"
                          /\ \A z \in Requests :
                               pc'[z] = "order" /\ local'[z].order = local'[q].order => z = q
    BY <1>1 DEF HoldsInv
<1>3. \A o \in Orders : HandlesOrder(q, o)' => order'[o].status # "NONE"
    BY <1>1 DEF HoldsInv, HandlesOrder
<1>4. pc'[q] = "markPaid" => Recorded(local[q].order)'
    <2>1. pc[q] = "markPaid" => local[q].order \in Orders /\ Recorded(local[q].order)
        BY <1>1 DEF HoldsInv
    <2>2. \A o \in Orders : o \in removed \/ (\E p \in payments : p.order = o) =>
                              o \in removed' \/ \E p \in payments' : p.order = o
        BY DEF Recorded
    <2> QED
        BY <1>1, <2>1, <2>2 DEF Recorded
<1>5. pc'[q] \in Deleting =>
        /\ local'[q].pay \in Requests /\ pc'[local'[q].pay] \in Over
        /\ \A p \in payments' : p.by = local'[q].pay =>
              p.order = local'[q].order /\ p.income = local'[q].income
    BY <1>1 DEF HoldsInv
<1>6. pc'[q] = "delWrite" /\ local'[q].income => local'[q].pay \notin incomes' \ orphaned'
    BY <1>1 DEF HoldsInv, Deleting
<1>7. q \in incomes' => (pc'[q] = "write" /\ local'[q].income) \/ pc'[q] \in Over
    BY <1>1 DEF HoldsInv
<1> QED
    BY <1>1, <1>2, <1>3, <1>4, <1>5, <1>6, <1>7 DEF HoldsInv

LEMMA MarkInv ==
    ASSUME IInv, NEW r \in Requests, markPaid(r) \/ markFailed(r)
    PROVE  IInv'
<1> DEFINE o == local[r].order
           status == IF pc[r] = "markPaid" THEN "PAID" ELSE "FAILED"
<1>1. /\ pc[r] \in {"markPaid", "markFailed"} /\ Goto(r, "done", Nothing)
      /\ order' = [order EXCEPT ![o].status = status]
      /\ UNCHANGED <<bill, discounts, payments, incomes, captured, history>>
    BY DEF markPaid, markFailed, Mark, Finish
<1>2. /\ o \in Orders /\ order[o].status # "NONE" /\ HandlesOrder(r, o)
      /\ status = "PAID" => pc[r] = "markPaid" /\ Recorded(o)
      /\ status = "FAILED" => pc[r] = "markFailed"
    BY <1>1 DEF IInv, RequestsInv, HoldsInv, HandlesOrder
<1>3. status \in {"PAID", "FAILED"}
    OBVIOUS
<1>4. /\ pc' \in [Requests -> Steps] /\ local' \in [Requests -> Local]
      /\ pc'[r] = "done"
      /\ \A q \in Requests \ {r} : pc'[q] = pc[q] /\ local'[q] = local[q]
    <2>1. "done" \in Steps
        BY DEF Steps
    <2> QED
        BY <1>1, <2>1, NothingTyped, Went DEF IInv
<1> HIDE DEF o, status
<1>5. /\ order' \in [Orders -> Order] /\ order'[o].status = status
      /\ \A z \in Orders : order'[z].bill = order[z].bill
      /\ \A z \in Orders \ {o} : order'[z] = order[z]
    <2>1. ASSUME NEW z \in Orders
          PROVE  order'[z] = IF z = o THEN [order[o] EXCEPT !.status = status] ELSE order[z]
        BY <1>1 DEF IInv, TypeOK
    <2>2. ASSUME NEW z \in Orders PROVE order'[z] \in Order
        BY <1>3, <2>1 DEF IInv, TypeOK, Order, OrderStatus
    <2> QED
        BY <1>1, <1>2, <2>1, <2>2 DEF IInv, TypeOK, Order
<1>6. TypeOK'
    BY <1>1, <1>4, <1>5 DEF IInv, TypeOK, history
<1>7. RowInv'
    BY <1>1, <1>4 DEF IInv, TypeOK, RowInv, Payment, Over
<1>8. \A z \in Orders : order'[z].status = "NONE" <=> order[z].status = "NONE"
    BY <1>2, <1>3, <1>5
<1>9. RequestsInv'
    <2>1. /\ pc'[r] \in Over /\ pc'[r] # "order"
          /\ \A z \in Orders : Recorded(z) => Recorded(z)'
          /\ UNCHANGED <<payments, incomes, orphaned>>
        BY <1>1, <1>4 DEF Over, Recorded, history
    <2>2. \A q \in Requests \ {r} : HoldsInv(q)'
        BY <1>4, <1>8, <2>1, OthersHold
    <2>3. HoldsInv(r)'
        BY <1>4 DEF HoldsInv, HandlesOrder, Deleting, WithBill, Over
    <2> QED
        BY <2>2, <2>3 DEF RequestsInv
<1>10. OrderInv'
    BY <1>1, <1>5, <1>8 DEF IInv, TypeOK, OrderInv, Payment
<1>11. OnceInv'
    <2> SUFFICES ASSUME NEW z \in Orders \ disturbed
                 PROVE  /\ \A p, q \in payments : p.order = z /\ q.order = z => p = q
                        /\ \A q, t \in Requests :
                              HandlesOrder(q, z)' /\ HandlesOrder(t, z)' => q = t
                        /\ \A p \in payments : p.order = z =>
                              /\ \A t \in Requests : HandlesOrder(t, z)' => pc'[t] = "markPaid"
                              /\ \/ order'[z].status = "PAID"
                                 \/ \E t \in Requests : HandlesOrder(t, z)'
        BY <1>1 DEF OnceInv, history
    <2>1. /\ ~HandlesOrder(r, z)'
          /\ \A t \in Requests \ {r} :
                (HandlesOrder(t, z)' <=> HandlesOrder(t, z)) /\ pc'[t] = pc[t]
        BY <1>4 DEF HandlesOrder
    <2>2. CASE z = o
        BY <1>2, <1>3, <1>5, <2>1, <2>2 DEF IInv, OnceInv
    <2>3. CASE z # o
        <3>1. ~HandlesOrder(r, z)
            BY <2>3 DEF HandlesOrder, o
        <3>2. /\ \A p, q \in payments : p.order = z /\ q.order = z => p = q
              /\ \A q, t \in Requests : HandlesOrder(q, z) /\ HandlesOrder(t, z) => q = t
              /\ \A p \in payments : p.order = z =>
                    /\ \A t \in Requests : HandlesOrder(t, z) => pc[t] = "markPaid"
                    /\ order[z].status = "PAID" \/ \E t \in Requests : HandlesOrder(t, z)
            BY DEF IInv, OnceInv
        <3>3. order'[z] = order[z]
            BY <1>5, <2>3
        <3>4. \A t \in Requests : HandlesOrder(t, z)' <=> HandlesOrder(t, z)
            BY <2>1, <3>1
        <3> QED
            BY <2>1, <3>1, <3>2, <3>3, <3>4
    <2> QED
        BY <2>2, <2>3
<1>12. NothingWithoutPayment'
    <2>1. \A z \in Orders : order'[z].status = "PAID" => Recorded(z)
        BY <1>2, <1>5 DEF IInv, NothingWithoutPayment, Recorded
    <2>2. \A i \in incomes : pc[i] = "write" => pc'[i] = "write"
        BY <1>1, <1>4 DEF IInv, TypeOK
    <2> QED
        BY <1>1, <2>1, <2>2 DEF IInv, NothingWithoutPayment, Recorded, history
<1> QED
    BY <1>6, <1>7, <1>9, <1>10, <1>11, <1>12 DEF IInv

LEMMA CapturesInv == ASSUME IInv, NEW o \in Orders, Captures(o) PROVE IInv'
<1>1. /\ UNCHANGED <<bill, discounts, payments, incomes, order, pc, local>>
      /\ UNCHANGED <<raced, disturbed, removed, orphaned>>
      /\ captured' = captured \cup {o}
    BY DEF Captures, tables, history
<1>2. TypeOK' /\ RowInv' /\ OrderInv' /\ NothingWithoutPayment'
    BY <1>1 DEF IInv, TypeOK, RowInv, OrderInv, NothingWithoutPayment
<1>3. RequestsInv' /\ OnceInv'
    BY <1>1 DEF IInv, RequestsInv, HoldsInv, OnceInv, HandlesOrder, Recorded
<1> QED
    BY <1>2, <1>3 DEF IInv

LEMMA BookIncomeInv == ASSUME IInv, NEW r \in Requests, BookIncome(r) PROVE IInv'
<1>1. /\ pc[r] = "income" /\ incomes' = incomes \cup {r} /\ Goto(r, "write", local[r])
      /\ UNCHANGED <<bill, discounts, payments, order, captured, history>>
    BY DEF BookIncome
<1>2. /\ local[r] \in Local /\ local[r].order = NoOrder /\ local[r].income
      /\ local[r].bill \in Bills
    BY <1>1 DEF IInv, TypeOK, RequestsInv, HoldsInv, WithBill
<1>3. /\ pc' \in [Requests -> Steps] /\ local' \in [Requests -> Local]
      /\ pc'[r] = "write" /\ local'[r] = local[r]
      /\ \A q \in Requests \ {r} : pc'[q] = pc[q] /\ local'[q] = local[q]
    <2>1. "write" \in Steps
        BY DEF Steps
    <2> QED
        BY <1>1, <1>2, <2>1, Went DEF IInv
<1>4. TypeOK'
    BY <1>1, <1>3 DEF IInv, TypeOK, history
<1>5. RowInv' /\ OrderInv'
    BY <1>1, <1>3 DEF IInv, TypeOK, RowInv, OrderInv, Payment, Over
<1>6. \A q \in Requests, o \in Orders :
          HandlesOrder(q, o)' <=> HandlesOrder(q, o)
    BY <1>1, <1>2, <1>3, NoneAssumption DEF HandlesOrder
<1>7. RequestsInv'
    <2>1. \A q \in Requests \ {r} : HoldsInv(q)'
        BY <1>1, <1>3, OthersHold DEF Over, Recorded, history
    <2>2. \A o \in Orders : ~HandlesOrder(r, o)'
        BY <1>2, <1>3, NoneAssumption DEF HandlesOrder
    <2>3. HoldsInv(r)'
        BY <1>2, <1>3, <2>2 DEF HoldsInv, Deleting, Over
    <2> QED
        BY <2>1, <2>3 DEF RequestsInv
<1>8. OnceInv'
    <2>1. \A q \in Requests, o \in Orders : HandlesOrder(q, o) => pc'[q] = pc[q]
        BY <1>1, <1>3 DEF HandlesOrder
    <2> QED
        BY <1>1, <1>6, <2>1 DEF IInv, OnceInv, history
<1>9. NothingWithoutPayment'
    BY <1>1, <1>3 DEF IInv, TypeOK, NothingWithoutPayment, history
<1> QED
    BY <1>4, <1>5, <1>7, <1>8, <1>9 DEF IInv

LEMMA InsertPaymentInv == ASSUME IInv, NEW r \in Requests, InsertPayment(r) PROVE IInv'
<1> DEFINE ask == local[r]
           o == ask.order
           b == ask.bill
           seen == ask.seen[b]
           paid == newPaid(seen, ask.amount)
           new == [by |-> r, bill |-> b, amount |-> ask.amount, order |-> o, income |-> ask.income]
           step == IF o = NoOrder THEN "done" ELSE "markPaid"
           next == IF o = NoOrder THEN Nothing ELSE ask
<1>1. /\ pc[r] = "write" /\ payments' = payments \cup {new} /\ SetPaid(b, paid, seen)
      /\ raced' \in {raced, raced \cup {b}} /\ Goto(r, step, next)
      /\ UNCHANGED <<discounts, incomes, order, captured, disturbed, removed, orphaned>>
    BY DEF InsertPayment, Note, Finish
<1>2. /\ ask \in Local /\ b \in Bills /\ seen \in Bill /\ ask.amount \in Nat
      /\ o \in Orders \cup {NoOrder} /\ ask.income \in BOOLEAN
    BY <1>1 DEF IInv, TypeOK, RequestsInv, HoldsInv, WithBill, Local
<1>3. paid \in Nat
    BY <1>2 DEF newPaid, Bill
<1>4. /\ new \in Payment /\ new.by = r /\ new.order = o /\ new.income = ask.income
    BY <1>2 DEF Payment
<1>5. /\ o = NoOrder => step = "done" /\ next = Nothing
      /\ o # NoOrder => step = "markPaid" /\ next = ask
    OBVIOUS
<1>6. o \in Orders => HandlesOrder(r, o) /\ order[o].status # "NONE"
    BY <1>1 DEF HandlesOrder, IInv, RequestsInv, HoldsInv
<1>7. r \in incomes => ask.income
    BY <1>1 DEF IInv, RequestsInv, HoldsInv, Over
<1>8. \A p \in payments : p.by # r
    BY <1>1 DEF IInv, RowInv, Over
<1> HIDE DEF new, step, next, paid
<1>9. /\ pc' \in [Requests -> Steps] /\ local' \in [Requests -> Local]
      /\ pc'[r] = step /\ local'[r] = next
      /\ \A q \in Requests \ {r} : pc'[q] = pc[q] /\ local'[q] = local[q]
    <2>1. step \in Steps /\ next \in Local
        BY <1>2, <1>5, NothingTyped DEF Steps
    <2> QED
        BY <1>1, <2>1, Went DEF IInv
<1>10. o \in Orders => pc'[r] = "markPaid" /\ local'[r].order = o
    BY <1>5, <1>9, NoneAssumption
<1>11. TypeOK'
    <2>1. bill' \in [Bills -> Bill]
        BY <1>1, <1>2, <1>3, SetPaidTyped DEF IInv
    <2> QED
        BY <1>1, <1>2, <1>4, <1>9, <2>1 DEF IInv, TypeOK
<1>12. pc'[r] \in Over
    BY <1>5, <1>9 DEF Over
<1>13. RowInv'
    BY <1>1, <1>4, <1>8, <1>9, <1>12 DEF IInv, TypeOK, RowInv, Payment
<1>14. \A z \in Orders : Recorded(z) => Recorded(z)'
    BY <1>1 DEF Recorded
<1>15. \A z \in Orders : z = o => Recorded(z)'
    BY <1>1, <1>4 DEF Recorded
<1>16. RequestsInv'
    <2>1. pc[r] \notin Over /\ pc'[r] # "order"
        BY <1>1, <1>12 DEF Over
    <2>2. \A p \in payments' : p \in payments \/ p.by = r
        BY <1>1, <1>4
    <2>3. \A q \in Requests \ {r} : HoldsInv(q)'
        BY <1>1, <1>9, <1>14, <2>1, <2>2, OthersHold
    <2>4. pc'[r] = "markPaid" => local'[r].order = o /\ o \in Orders
        BY <1>2, <1>5, <1>9
    <2>5. \A z \in Orders : HandlesOrder(r, z)' => z = o
        BY <1>12, <2>4 DEF HandlesOrder, Over
    <2>6. pc'[r] = "markPaid" => Recorded(local[r].order)'
        BY <1>15, <2>4 DEF Recorded
    <2>7. HoldsInv(r)'
        BY <1>1, <1>6, <1>12, <2>4, <2>5, <2>6 DEF HoldsInv, Deleting, WithBill, Over
    <2> QED
        BY <2>3, <2>7 DEF RequestsInv
<1>17. OrderInv'
    BY <1>1, <1>2, <1>4, <1>6 DEF IInv, OrderInv
<1>18. OnceInv'
    <2> SUFFICES ASSUME NEW z \in Orders \ disturbed
                 PROVE  /\ \A p, q \in payments' : p.order = z /\ q.order = z => p = q
                        /\ \A q, t \in Requests :
                              HandlesOrder(q, z)' /\ HandlesOrder(t, z)' => q = t
                        /\ \A p \in payments' : p.order = z =>
                              /\ \A t \in Requests : HandlesOrder(t, z)' => pc'[t] = "markPaid"
                              /\ order[z].status = "PAID" \/ \E t \in Requests : HandlesOrder(t, z)'
        BY <1>1 DEF OnceInv
    <2>1. /\ \A p, q \in payments : p.order = z /\ q.order = z => p = q
          /\ \A q, t \in Requests : HandlesOrder(q, z) /\ HandlesOrder(t, z) => q = t
          /\ \A p \in payments : p.order = z =>
                /\ \A t \in Requests : HandlesOrder(t, z) => pc[t] = "markPaid"
                /\ order[z].status = "PAID" \/ \E t \in Requests : HandlesOrder(t, z)
        BY DEF IInv, OnceInv
    <2>2. \A t \in Requests \ {r} : (HandlesOrder(t, z)' <=> HandlesOrder(t, z)) /\ pc'[t] = pc[t]
        BY <1>9 DEF HandlesOrder
    <2>3. CASE z = o
        <3>1. HandlesOrder(r, z) /\ HandlesOrder(r, z)' /\ pc[r] # "markPaid"
            BY <1>1, <1>6, <1>10, <2>3 DEF HandlesOrder
        <3>2. \A p \in payments : p.order # z
            BY <2>1, <3>1
        <3> QED
            BY <1>1, <1>4, <1>10, <2>1, <2>2, <2>3, <3>1, <3>2
    <2>4. CASE z # o
        <3>1. ~HandlesOrder(r, z)
            BY <2>4 DEF HandlesOrder
        <3>2. ~HandlesOrder(r, z)'
            BY <1>5, <1>9, <2>4, NoneAssumption DEF HandlesOrder
        <3>3. \A t \in Requests : HandlesOrder(t, z)' <=> HandlesOrder(t, z)
            BY <2>2, <3>1, <3>2
        <3>4. \A p \in payments' : p.order = z => p \in payments
            BY <1>1, <1>4, <2>4
        <3> QED
            BY <2>1, <2>2, <3>1, <3>3, <3>4
    <2> QED
        BY <2>3, <2>4
<1>19. NothingWithoutPayment'
    <2>1. \A z \in Orders : order'[z].status = "PAID" => Recorded(z)'
        BY <1>1, <1>14 DEF IInv, NothingWithoutPayment, Recorded
    <2>2. ASSUME NEW i \in incomes \ orphaned
          PROVE  (\E p \in payments' : p.by = i /\ p.income) \/ pc'[i] = "write"
        <3>1. CASE i = r
            BY <1>1, <1>4, <1>7, <3>1
        <3>2. CASE i # r
            BY <1>1, <1>9, <2>2, <3>2 DEF IInv, TypeOK, NothingWithoutPayment
        <3> QED
            BY <3>1, <3>2
    <2> QED
        BY <1>1, <2>1, <2>2 DEF NothingWithoutPayment, Recorded
<1> QED
    BY <1>11, <1>13, <1>16, <1>17, <1>18, <1>19 DEF IInv

LEMMA ReverseIncomeInv == ASSUME IInv, NEW r \in Requests, ReverseIncome(r) PROVE IInv'
<1>1. /\ pc[r] = "delIncome" /\ Goto(r, "delWrite", local[r])
      /\ incomes' \subseteq incomes /\ incomes \ {local[r].pay} \subseteq incomes'
      /\ orphaned \subseteq orphaned' /\ orphaned' \subseteq orphaned \cup {local[r].pay}
      /\ local[r].pay \notin incomes' \ orphaned'
      /\ UNCHANGED <<bill, discounts, payments, order, captured, raced, disturbed, removed>>
    BY DEF ReverseIncome
<1>2. /\ local[r] \in Local /\ HoldsInv(r) /\ r \notin incomes
      /\ local[r].pay \in Requests
    BY <1>1 DEF IInv, TypeOK, RequestsInv, HoldsInv, Over, Deleting
<1>3. /\ pc' \in [Requests -> Steps] /\ local' \in [Requests -> Local]
      /\ pc'[r] = "delWrite" /\ local'[r] = local[r]
      /\ \A q \in Requests \ {r} : pc'[q] = pc[q] /\ local'[q] = local[q]
    <2>1. "delWrite" \in Steps
        BY DEF Steps
    <2> QED
        BY <1>1, <1>2, <2>1, Went DEF IInv
<1>4. TypeOK'
    BY <1>1, <1>2, <1>3 DEF IInv, TypeOK
<1>5. RowInv' /\ OrderInv'
    BY <1>1, <1>3 DEF IInv, TypeOK, RowInv, OrderInv, Payment, Over
<1>6. RequestsInv'
    <2>1. \A q \in Requests \ {r} : HoldsInv(q)'
        BY <1>1, <1>3, OthersHold DEF Over, Recorded
    <2>2. \A o \in Orders : ~HandlesOrder(r, o)'
        BY <1>3 DEF HandlesOrder
    <2>3. pc[r] \in Deleting /\ pc[r] \notin Over /\ pc'[r] \notin Over
        BY <1>1, <1>3 DEF Deleting, Over
    <2>4. HoldsInv(r)'
        BY <1>1, <1>2, <1>3, <2>2, <2>3 DEF HoldsInv, Deleting, WithBill
    <2> QED
        BY <2>1, <2>4 DEF RequestsInv
<1>7. OnceInv'
    <2>1. \A q \in Requests, o \in Orders : HandlesOrder(q, o)' <=> HandlesOrder(q, o)
        BY <1>1, <1>3 DEF HandlesOrder
    <2>2. \A q \in Requests, o \in Orders : HandlesOrder(q, o) => pc'[q] = pc[q]
        BY <1>1, <1>3 DEF HandlesOrder
    <2> QED
        BY <1>1, <2>1, <2>2 DEF IInv, OnceInv
<1>8. NothingWithoutPayment'
    <2>1. \A i \in incomes : pc[i] = "write" => pc'[i] = "write"
        BY <1>1, <1>3 DEF IInv, TypeOK
    <2> QED
        BY <1>1, <2>1 DEF IInv, NothingWithoutPayment
<1> QED
    BY <1>4, <1>5, <1>6, <1>7, <1>8 DEF IInv

LEMMA DeleteRowInv == ASSUME IInv, NEW r \in Requests, DeleteRow(r) PROVE IInv'
<1> DEFINE ask == local[r]
           b == ask.bill
           seen == ask.seen[b]
           reduced == Reduced(seen, ask.amount)
<1>1. /\ pc[r] = "delWrite" /\ SetPaid(b, reduced, seen) /\ Goto(r, "done", Nothing)
      /\ payments' = payments \ {p \in payments : p.by = ask.pay}
      /\ raced' \in {raced, raced \cup {b}}
      /\ removed' = IF ask.order # NoOrder THEN removed \cup {ask.order} ELSE removed
      /\ UNCHANGED <<discounts, incomes, order, captured, disturbed, orphaned>>
    BY DEF DeleteRow, Note, Finish
<1>2. /\ ask \in Local /\ b \in Bills /\ seen \in Bill /\ ask.amount \in Nat
      /\ ask.order \in Orders \cup {NoOrder}
    BY <1>1 DEF IInv, TypeOK, RequestsInv, HoldsInv, WithBill, Deleting, Local
<1>3. reduced \in Nat
    BY <1>2, ReducedTyped
<1>4. /\ \A p \in payments : p.by = ask.pay => p.order = ask.order /\ p.income = ask.income
      /\ ask.income => ask.pay \notin incomes \ orphaned
      /\ r \notin incomes
    BY <1>1 DEF IInv, RequestsInv, HoldsInv, Deleting, Over
<1> HIDE DEF reduced
<1>5. /\ pc' \in [Requests -> Steps] /\ local' \in [Requests -> Local]
      /\ pc'[r] = "done"
      /\ \A q \in Requests \ {r} : pc'[q] = pc[q] /\ local'[q] = local[q]
    <2>1. "done" \in Steps
        BY DEF Steps
    <2> QED
        BY <1>1, <2>1, NothingTyped, Went DEF IInv
<1>6. TypeOK'
    <2>1. bill' \in [Bills -> Bill]
        BY <1>1, <1>2, <1>3, SetPaidTyped DEF IInv
    <2>2. removed' \subseteq Orders
        BY <1>1, <1>2 DEF IInv, TypeOK
    <2> QED
        BY <1>1, <1>2, <1>5, <2>1, <2>2 DEF IInv, TypeOK
<1>7. RowInv' /\ OrderInv'
    BY <1>1, <1>5 DEF IInv, TypeOK, RowInv, OrderInv, Payment, Over
<1>8. \A o \in Orders : Recorded(o) => Recorded(o)'
    <2> SUFFICES ASSUME NEW o \in Orders, Recorded(o) PROVE Recorded(o)'
        OBVIOUS
    <2>1. CASE o \in removed
        BY <1>1, <2>1 DEF Recorded
    <2>2. ASSUME NEW p \in payments, p.order = o PROVE Recorded(o)'
        <3>1. CASE p.by = ask.pay
            BY <1>1, <1>4, <2>2, <3>1, NoneAssumption DEF Recorded
        <3>2. CASE p.by # ask.pay
            BY <1>1, <2>2, <3>2 DEF Recorded
        <3> QED
            BY <3>1, <3>2
    <2> QED
        BY <2>1, <2>2 DEF Recorded
<1>9. RequestsInv'
    <2>1. pc[r] \notin Over /\ pc'[r] # "order" /\ payments' \subseteq payments
        BY <1>1, <1>5 DEF Over
    <2>2. \A q \in Requests \ {r} : HoldsInv(q)'
        BY <1>1, <1>5, <1>8, <2>1, OthersHold
    <2>3. HoldsInv(r)'
        BY <1>5 DEF HoldsInv, HandlesOrder, Deleting, WithBill, Over
    <2> QED
        BY <2>2, <2>3 DEF RequestsInv
<1>10. OnceInv'
    <2>1. \A q \in Requests, o \in Orders : HandlesOrder(q, o)' <=> HandlesOrder(q, o)
        BY <1>1, <1>5 DEF HandlesOrder
    <2>2. \A q \in Requests, o \in Orders : HandlesOrder(q, o) => pc'[q] = pc[q]
        BY <1>1, <1>5 DEF HandlesOrder
    <2>3. payments' \subseteq payments
        BY <1>1
    <2> QED
        BY <1>1, <2>1, <2>2, <2>3 DEF IInv, OnceInv
<1>11. NothingWithoutPayment'
    <2>1. \A o \in Orders : order'[o].status = "PAID" => Recorded(o)'
        BY <1>1, <1>8 DEF IInv, NothingWithoutPayment, Recorded
    <2>2. ASSUME NEW i \in incomes \ orphaned
          PROVE  (\E p \in payments' : p.by = i /\ p.income) \/ pc'[i] = "write"
        <3>1. CASE pc[i] = "write"
            BY <1>1, <1>5, <3>1 DEF IInv, TypeOK
        <3>2. ASSUME NEW p \in payments, p.by = i, p.income PROVE p \in payments'
            BY <1>1, <1>4, <3>2
        <3> QED
            BY <3>1, <3>2 DEF IInv, NothingWithoutPayment
    <2> QED
        BY <1>1, <2>1, <2>2 DEF NothingWithoutPayment, Recorded
<1> QED
    BY <1>6, <1>7, <1>9, <1>10, <1>11 DEF IInv

LEMMA EndsInv == ASSUME IInv, NEW r \in Requests, Ends(r) PROVE IInv'
<1>1. /\ pc[r] \notin {"idle", "done"} /\ Goto(r, "done", Nothing)
      /\ raced' = IF pc[r] = "discountRow" THEN raced \cup {local[r].bill} ELSE raced
      /\ disturbed' = IF pc[r] = "markPaid" THEN disturbed \cup {local[r].order} ELSE disturbed
      /\ orphaned' = IF pc[r] = "write" /\ local[r].income THEN orphaned \cup {r} ELSE orphaned
      /\ UNCHANGED <<bill, discounts, payments, incomes, order, captured, removed>>
    BY DEF Ends, Finish, tables
<1>2. /\ pc[r] = "discountRow" => local[r].bill \in Bills
      /\ pc[r] = "markPaid" => local[r].order \in Orders
      /\ r \in incomes => (pc[r] = "write" /\ local[r].income) \/ pc[r] \in Over
    BY DEF IInv, RequestsInv, HoldsInv, WithBill
<1>3. /\ pc' \in [Requests -> Steps] /\ local' \in [Requests -> Local]
      /\ pc'[r] = "done"
      /\ \A q \in Requests \ {r} : pc'[q] = pc[q] /\ local'[q] = local[q]
    <2>1. "done" \in Steps
        BY DEF Steps
    <2> QED
        BY <1>1, <2>1, NothingTyped, Went DEF IInv
<1>4. TypeOK'
    BY <1>1, <1>2, <1>3 DEF IInv, TypeOK
<1>5. RowInv' /\ OrderInv'
    BY <1>1, <1>3 DEF IInv, TypeOK, RowInv, OrderInv, Payment, Over
<1>6. RequestsInv'
    <2>1. /\ pc'[r] \in Over /\ pc'[r] # "order" /\ orphaned \subseteq orphaned'
          /\ \A o \in Orders : Recorded(o) => Recorded(o)'
        BY <1>1, <1>3 DEF Over, Recorded
    <2>2. \A q \in Requests \ {r} : HoldsInv(q)'
        BY <1>1, <1>3, <2>1, OthersHold
    <2>3. HoldsInv(r)'
        BY <1>3 DEF HoldsInv, HandlesOrder, Deleting, WithBill, Over
    <2> QED
        BY <2>2, <2>3 DEF RequestsInv
<1>7. OnceInv'
    <2> SUFFICES ASSUME NEW z \in Orders, z \notin disturbed'
                 PROVE  /\ \A p, q \in payments : p.order = z /\ q.order = z => p = q
                        /\ \A q, t \in Requests :
                              HandlesOrder(q, z)' /\ HandlesOrder(t, z)' => q = t
                        /\ \A p \in payments : p.order = z =>
                              /\ \A t \in Requests : HandlesOrder(t, z)' => pc'[t] = "markPaid"
                              /\ order[z].status = "PAID" \/ \E t \in Requests : HandlesOrder(t, z)'
        BY <1>1 DEF OnceInv
    <2>1. z \notin disturbed /\ ~(pc[r] = "markPaid" /\ HandlesOrder(r, z))
        BY <1>1 DEF HandlesOrder
    <2>2. /\ \A p, q \in payments : p.order = z /\ q.order = z => p = q
          /\ \A q, t \in Requests : HandlesOrder(q, z) /\ HandlesOrder(t, z) => q = t
          /\ \A p \in payments : p.order = z =>
                /\ \A t \in Requests : HandlesOrder(t, z) => pc[t] = "markPaid"
                /\ order[z].status = "PAID" \/ \E t \in Requests : HandlesOrder(t, z)
        BY <2>1 DEF IInv, OnceInv
    <2>3. /\ ~HandlesOrder(r, z)'
          /\ \A t \in Requests \ {r} :
                (HandlesOrder(t, z)' <=> HandlesOrder(t, z)) /\ pc'[t] = pc[t]
        BY <1>3 DEF HandlesOrder
    <2> QED
        BY <2>1, <2>2, <2>3
<1>8. NothingWithoutPayment'
    <2>1. ASSUME NEW i \in incomes \ orphaned'
          PROVE  (\E p \in payments : p.by = i /\ p.income) \/ pc'[i] = "write"
        <3>1. i \notin orphaned /\ i \in Requests
            BY <1>1, <2>1 DEF IInv, TypeOK
        <3>2. CASE i = r /\ pc[r] = "write"
            BY <1>1, <1>2, <2>1, <3>2 DEF Over
        <3>3. CASE i # r \/ pc[r] # "write"
            BY <1>3, <3>1, <3>3 DEF IInv, NothingWithoutPayment
        <3> QED
            BY <3>2, <3>3
    <2>2. \A o \in Orders : order[o].status = "PAID" => Recorded(o)
        BY DEF IInv, NothingWithoutPayment, Recorded
    <2> QED
        BY <1>1, <2>1, <2>2 DEF NothingWithoutPayment, Recorded
<1> QED
    BY <1>4, <1>5, <1>6, <1>7, <1>8 DEF IInv

-----------------------------------------------------------------------------
LEMMA StepInv == IInv /\ [Next]_vars => IInv'
<1> SUFFICES ASSUME IInv, [Next]_vars PROVE IInv'
    OBVIOUS
<1>1. CASE UNCHANGED vars
    <2>1. TypeOK' /\ RowInv' /\ OrderInv' /\ NothingWithoutPayment'
        BY <1>1 DEF vars, IInv, TypeOK, RowInv, OrderInv, NothingWithoutPayment
    <2>2. RequestsInv' /\ OnceInv'
        BY <1>1 DEF vars, IInv, RequestsInv, HoldsInv, OnceInv, HandlesOrder, Recorded
    <2> QED
        BY <2>1, <2>2 DEF IInv
<1>2. ASSUME NEW r \in Requests, Handler(r) PROVE IInv'
    BY <1>2, PayAtCounterInv, OpenOrderInv, RecordInv, DeletePaymentInv, DiscountReadsInv,
       GrantDiscountInv, PayOrderInv, BookIncomeInv, InsertPaymentInv, InsertOrderInv, MarkInv,
       DeleteReadsBillInv, ReverseIncomeInv, DeleteRowInv, InsertDiscountInv, EndsInv
    DEF Handler
<1> QED
    BY <1>1, <1>2, CapturesInv DEF Next

-----------------------------------------------------------------------------
(* Sums of amounts.                                                        *)

\* The amounts of a set of rows, as BillMatchesRows adds them up.
Sum(S) == MapThenSumSet(LAMBDA p : p.amount, S)
Amounted(f, S) ==
    f = [s \in SUBSET S |-> IF s = {} THEN 0 ELSE First(s).amount + f[s \ {First(s)}]]

LEMMA SumIs ==
    ASSUME NEW S, IsFiniteSet(S), NEW F, \A p \in S : F[p] = p.amount
    PROVE  Sum(S) = SumOver(F, S)
<1>1. Sum(S) = (CHOOSE f : Amounted(f, S))[S]
    BY DEF Sum, MapThenSumSet, MapThenFoldSet, Amounted, First
<1>2. \A s \in SUBSET S : s # {} => F[First(s)] = First(s).amount
    BY DEF First
<1>3. ASSUME NEW f PROVE Amounted(f, S) <=> Sums(F, f, S)
    <2>1. [s \in SUBSET S |-> IF s = {} THEN 0 ELSE First(s).amount + f[s \ {First(s)}]]
          = [s \in SUBSET S |-> IF s = {} THEN 0 ELSE F[First(s)] + f[s \ {First(s)}]]
        BY <1>2
    <2> QED
        BY <2>1 DEF Amounted, Sums
<1> DEFINE g == CHOOSE f : Amounted(f, S)
<1>4. Amounted(g, S)
    BY <1>3, SumsExist
<1> HIDE DEF g
<1>5. g[S] = SumOver(F, S)
    BY <1>3, <1>4, SumOverSums
<1> QED
    BY <1>1, <1>5 DEF g

LEMMA SumEmpty == Sum({}) = 0
<1> DEFINE F == [p \in {} |-> 0]
<1>1. Sum({}) = SumOver(F, {})
    BY SumIs, FS_EmptySet
<1> QED
    BY <1>1, SumOverEmpty

LEMMA SumTyped ==
    ASSUME NEW S, IsFiniteSet(S), \A p \in S : p.amount \in Nat PROVE Sum(S) \in Nat
<1> DEFINE F == [p \in S |-> p.amount]
<1>1. \A p \in S : F[p] = p.amount
    OBVIOUS
<1> HIDE DEF F
<1> QED
    BY <1>1, SumIs, SumOverTyped

LEMMA SumAny ==
    ASSUME NEW S, IsFiniteSet(S), \A p \in S : p.amount \in Nat, NEW p \in S
    PROVE  Sum(S) = Sum(S \ {p}) + p.amount
<1> DEFINE F == [q \in S |-> q.amount]
<1>1. \A q \in S : F[q] = q.amount /\ F[q] \in Int
    OBVIOUS
<1> HIDE DEF F
<1>2. IsFiniteSet(S \ {p})
    BY FS_Subset
<1>3. Sum(S) = SumOver(F, S)
    BY <1>1, SumIs
<1>4. Sum(S \ {p}) = SumOver(F, S \ {p})
    BY <1>1, <1>2, SumIs
<1>5. SumOver(F, S) = SumOver(F, S \ {p}) + F[p]
    BY <1>1, SumOverAny
<1> QED
    BY <1>1, <1>3, <1>4, <1>5

-----------------------------------------------------------------------------
(* What the bill says of its rows.                                         *)

\* The rows a bill sums up: its payments, and the discounts that it counts already and whose
\* rows are still to be inserted.
RowsOf(b) == {p \in payments : p.bill = b}
Waiting(b) == {r \in Requests : pc[r] = "discountRow" /\ local[r].bill = b}
Owed(b) == {[by |-> r, amount |-> local[r].amount] : r \in Waiting(b)}

\* A payment fits what its request read; a deletion knows its row.
AskInv(r) ==
    /\ pc[r] \in {"income", "write"} =>
          LET seen == local[r].seen[local[r].bill]
          IN  local[r].amount <= Total[local[r].bill] - seen.paid - seen.discount + Tolerance
    /\ pc[r] \in Deleting =>
          \A p \in payments : p.by = local[r].pay =>
              p.bill = local[r].bill /\ p.amount = local[r].amount

MatchInv(b) ==
    /\ bill[b].paid = Sum(RowsOf(b))
    /\ bill[b].discount = discounts[b] + Sum(Owed(b))
    /\ bill[b].status = "PAID" => bill[b].paid + bill[b].discount >= Total[b]
    /\ bill[b].status = "PENDING" => bill[b].paid = 0
    /\ bill[b].paid <= Total[b] + Tolerance

BillInv ==
    /\ IsFiniteSet(payments) /\ \A b \in Bills : IsFiniteSet(Owed(b))
    /\ \A r \in Requests : AskInv(r)
    /\ \A b \in Bills \ raced : MatchInv(b)

LEMMA InitBills == Init => BillInv
<1> SUFFICES ASSUME Init PROVE BillInv
    OBVIOUS
<1>1. \A b \in Bills : RowsOf(b) = {} /\ Owed(b) = {}
    BY DEF Init, RowsOf, Owed, Waiting
<1>2. ASSUME NEW b \in Bills PROVE MatchInv(b)
    <2>1. /\ bill[b] = NewBill /\ discounts[b] = 0 /\ Total[b] \in Nat
          /\ Sum(RowsOf(b)) = 0 /\ Sum(Owed(b)) = 0
        BY <1>1, SumEmpty, TotalAssumption DEF Init
    <2> QED
        BY <2>1 DEF MatchInv, NewBill, Tolerance
<1>3. \A r \in Requests : AskInv(r)
    BY DEF Init, AskInv, Deleting
<1> QED
    BY <1>1, <1>2, <1>3, FS_EmptySet DEF Init, BillInv

\* A step that writes neither bills nor rows.
LEMMA BillsKept ==
    ASSUME IInv, BillInv, NEW r \in Requests, UNCHANGED <<bill, discounts, payments>>,
           raced \subseteq raced', pc'[r] # "discountRow",
           pc[r] = "discountRow" => local[r].bill \in raced',
           \A q \in Requests \ {r} : pc'[q] = pc[q] /\ local'[q] = local[q],
           AskInv(r)'
    PROVE  BillInv'
<1>1. \A q \in Requests : AskInv(q)'
    BY DEF BillInv, AskInv
<1>2. ASSUME NEW b \in Bills PROVE Waiting(b)' = Waiting(b) \ {r}
    BY DEF Waiting
<1>3. ASSUME NEW b \in Bills
      PROVE  Owed(b)' = {[by |-> q, amount |-> local[q].amount] : q \in Waiting(b) \ {r}}
    <2>1. \A q \in Waiting(b) \ {r} : local'[q] = local[q]
        BY DEF Waiting
    <2> QED
        BY <1>2, <2>1 DEF Owed
<1>4. ASSUME NEW b \in Bills PROVE IsFiniteSet(Owed(b)')
    <2>1. Owed(b)' \subseteq Owed(b)
        BY <1>3 DEF Owed
    <2> QED
        BY <2>1, FS_Subset DEF BillInv
<1>5. ASSUME NEW b \in Bills \ raced' PROVE MatchInv(b)'
    <2>1. r \notin Waiting(b)
        BY DEF Waiting
    <2>2. Owed(b)' = Owed(b)
        BY <1>3, <2>1 DEF Owed
    <2>3. RowsOf(b)' = RowsOf(b)
        BY DEF RowsOf
    <2>4. MatchInv(b)
        BY DEF BillInv
    <2> QED
        BY <2>2, <2>3, <2>4 DEF MatchInv
<1> QED
    BY <1>1, <1>4, <1>5 DEF BillInv

\* The floor of zero is not reached.
LEMMA ReducedIs ==
    ASSUME NEW seen \in Bill, NEW amount \in Nat, seen.paid - amount \in Nat
    PROVE  Reduced(seen, amount) = seen.paid - amount
<1> DEFINE d == seen.paid - amount
<1>1. d \in Nat
    OBVIOUS
<1> HIDE DEF d
<1>2. Max({0, d}) = d
    BY <1>1 DEF Max
<1> QED
    BY <1>2 DEF Reduced, d

LEMMA ReadBillKeeps ==
    ASSUME IInv, BillInv, NEW r \in Requests, NEW ask \in Local, ask.bill \in Bills,
           pc[r] \in {"idle", "bill"}, ReadBill(r, ask), UNCHANGED <<tables, captured, history>>
    PROVE  BillInv'
<1> DEFINE seen == [ask EXCEPT !.seen = bill]
<1>1. /\ seen \in Local /\ seen.bill = ask.bill /\ seen.amount = ask.amount /\ seen.seen = bill
      /\ ask.amount \in Int
    BY DEF Local, IInv, TypeOK
<1> HIDE DEF seen
<1>2. \/ Goto(r, "done", Nothing)
      \/ /\ Goto(r, "income", seen) \/ Goto(r, "write", seen)
         /\ Payable(ask.bill, ask.amount)
    BY DEF ReadBill, Finish, seen
<1>3. /\ \A q \in Requests \ {r} : pc'[q] = pc[q] /\ local'[q] = local[q]
      /\ \/ pc'[r] = "done"
         \/ /\ pc'[r] \in {"income", "write"} /\ local'[r] = seen
            /\ Payable(ask.bill, ask.amount)
    <2>1. {"done", "income", "write"} \subseteq Steps
        BY DEF Steps
    <2> QED
        BY <1>1, <1>2, <2>1, NothingTyped, Went DEF IInv
<1>4. AskInv(r)'
    <2>1. CASE pc'[r] = "done"
        BY <2>1 DEF AskInv, Deleting
    <2>2. CASE pc'[r] \in {"income", "write"} /\ local'[r] = seen /\ Payable(ask.bill, ask.amount)
        BY <1>1, <2>2 DEF AskInv, Deleting, Payable, remaining
    <2> QED
        BY <1>3, <2>1, <2>2
<1> QED
    BY <1>3, <1>4, BillsKept DEF tables, history

LEMMA PayAtCounterKeeps ==
    ASSUME IInv, BillInv, NEW r \in Requests, NEW b \in Bills, NEW amount \in Amounts,
           NEW income \in BOOLEAN, PayAtCounter(r, b, amount, income)
    PROVE  BillInv'
<1> DEFINE ask == [Nothing EXCEPT !.bill = b, !.amount = amount, !.income = income]
<1>1. ask \in Local /\ ask.bill \in Bills
    BY NothingTyped, AmountsAssumption DEF Local, Nothing
<1>2. pc[r] = "idle" /\ ReadBill(r, ask) /\ UNCHANGED <<tables, captured, history>>
    BY DEF PayAtCounter
<1> HIDE DEF ask
<1> QED
    BY <1>1, <1>2, ReadBillKeeps

LEMMA PayOrderKeeps == ASSUME IInv, BillInv, NEW r \in Requests, PayOrder(r) PROVE BillInv'
<1>1. pc[r] = "bill" /\ ReadBill(r, local[r]) /\ UNCHANGED <<tables, captured, history>>
    BY DEF PayOrder
<1>2. local[r] \in Local
    BY DEF IInv, TypeOK
<1>3. local[r].bill \in Bills
    BY <1>1 DEF IInv, RequestsInv, HoldsInv, WithBill
<1> QED
    BY <1>1, <1>2, <1>3, ReadBillKeeps

\* What a request has read stays with it when it books or reverses an income.
LEMMA BookIncomeKeeps ==
    ASSUME IInv, BillInv, NEW r \in Requests, BookIncome(r) PROVE BillInv'
<1>1. /\ pc[r] = "income" /\ Goto(r, "write", local[r])
      /\ UNCHANGED <<bill, discounts, payments, order, captured, history>>
    BY DEF BookIncome
<1>2. /\ pc'[r] = "write" /\ local'[r] = local[r]
      /\ \A q \in Requests \ {r} : pc'[q] = pc[q] /\ local'[q] = local[q]
    <2>1. "write" \in Steps /\ local[r] \in Local
        BY DEF Steps, IInv, TypeOK
    <2> QED
        BY <1>1, <2>1, Went DEF IInv
<1>3. AskInv(r)'
    <2>1. AskInv(r)
        BY DEF BillInv
    <2> QED
        BY <1>1, <1>2, <2>1 DEF AskInv, Deleting
<1> QED
    BY <1>1, <1>2, <1>3, BillsKept DEF history

LEMMA ReverseIncomeKeeps ==
    ASSUME IInv, BillInv, NEW r \in Requests, ReverseIncome(r) PROVE BillInv'
<1>1. /\ pc[r] = "delIncome" /\ Goto(r, "delWrite", local[r])
      /\ UNCHANGED <<bill, discounts, payments, raced>>
    BY DEF ReverseIncome
<1>2. /\ pc'[r] = "delWrite" /\ local'[r] = local[r]
      /\ \A q \in Requests \ {r} : pc'[q] = pc[q] /\ local'[q] = local[q]
    <2>1. "delWrite" \in Steps /\ local[r] \in Local
        BY DEF Steps, IInv, TypeOK
    <2> QED
        BY <1>1, <2>1, Went DEF IInv
<1>3. AskInv(r)'
    <2>1. AskInv(r)
        BY DEF BillInv
    <2> QED
        BY <1>1, <1>2, <2>1 DEF AskInv, Deleting
<1> QED
    BY <1>1, <1>2, <1>3, BillsKept

\* A request goes on to a step that neither pays nor deletes, or it ends.
LEMMA ElsewhereKeeps ==
    ASSUME IInv, BillInv, NEW r \in Requests, NEW step \in Steps, NEW seen \in Local,
           Goto(r, step, seen), UNCHANGED <<bill, discounts, payments>>, raced \subseteq raced',
           pc[r] = "discountRow" => local[r].bill \in raced',
           step \notin Deleting \cup {"income", "write", "discountRow"}
    PROVE  BillInv'
<1>1. /\ pc'[r] = step
      /\ \A q \in Requests \ {r} : pc'[q] = pc[q] /\ local'[q] = local[q]
    BY Went DEF IInv
<1>2. AskInv(r)'
    BY <1>1 DEF AskInv
<1> QED
    BY <1>1, <1>2, BillsKept

LEMMA OpenOrderKeeps ==
    ASSUME IInv, BillInv, NEW r \in Requests, NEW o \in Orders, NEW b \in Bills,
           NEW amount \in Amounts, OpenOrder(r, o, b, amount)
    PROVE  BillInv'
<1> DEFINE seen == [Nothing EXCEPT !.bill = b, !.amount = amount, !.order = o]
<1>1. seen \in Local
    BY NothingTyped, AmountsAssumption DEF Local, Nothing
<1>2. pc[r] = "idle" /\ Goto(r, "order", seen) /\ UNCHANGED <<tables, captured, history>>
    BY DEF OpenOrder
<1> HIDE DEF seen
<1>3. "order" \in Steps /\ "order" \notin Deleting \cup {"income", "write", "discountRow"}
    BY DEF Steps, Deleting
<1> QED
    BY <1>1, <1>2, <1>3, ElsewhereKeeps DEF tables, history

LEMMA InsertOrderKeeps ==
    ASSUME IInv, BillInv, NEW r \in Requests, InsertOrder(r) PROVE BillInv'
<1>1. /\ pc[r] = "order" /\ Goto(r, "done", Nothing)
      /\ UNCHANGED <<bill, discounts, payments, history>>
    BY DEF InsertOrder, Finish
<1>2. "done" \in Steps /\ "done" \notin Deleting
    BY DEF Steps, Deleting
<1> QED
    BY <1>1, <1>2, NothingTyped, ElsewhereKeeps DEF history

LEMMA RecordKeeps ==
    ASSUME IInv, BillInv, NEW r \in Requests, NEW o \in Orders,
           RecordCaptured(r, o) \/ RecordFailed(r, o)
    PROVE  BillInv'
<1>1. /\ pc[r] = "idle" /\ order[o].status # "NONE"
      /\ UNCHANGED <<bill, discounts, payments, raced>>
      /\ Goto(r, "done", Nothing) \/ \E step \in {"bill", "markFailed"} : Goto(r, step, Asks(o))
    BY DEF RecordCaptured, RecordFailed, ReadsOrder, Finish, tables
<1>2. Asks(o) \in Local
    <2>1. order[o] \in Order
        BY DEF IInv, TypeOK
    <2> QED
        BY <2>1, NothingTyped DEF Asks, Nothing, Local, Order
<1>3. /\ {"done", "bill", "markFailed"} \subseteq Steps
      /\ \A step \in {"done", "bill", "markFailed"} :
            step \notin Deleting \cup {"income", "write", "discountRow"}
    BY DEF Steps, Deleting
<1> QED
    BY <1>1, <1>2, <1>3, NothingTyped, ElsewhereKeeps

LEMMA MarkKeeps ==
    ASSUME IInv, BillInv, NEW r \in Requests, markPaid(r) \/ markFailed(r) PROVE BillInv'
<1>1. /\ pc[r] \in {"markPaid", "markFailed"} /\ Goto(r, "done", Nothing)
      /\ UNCHANGED <<bill, discounts, payments, history>>
    BY DEF markPaid, markFailed, Mark, Finish
<1>2. "done" \in Steps /\ "done" \notin Deleting
    BY DEF Steps, Deleting
<1> QED
    BY <1>1, <1>2, NothingTyped, ElsewhereKeeps DEF history

LEMMA DiscountReadsKeeps ==
    ASSUME IInv, BillInv, NEW r \in Requests, NEW d \in Discounts, DiscountReads(r, d)
    PROVE  BillInv'
<1> DEFINE seen == [Nothing EXCEPT !.amount = d, !.seen = bill, !.todo = Discountable(bill)]
<1>1. seen \in Local
    <2> DEFINE todo == Discountable(bill)
    <2>1. todo \in SUBSET Bills /\ bill \in [Bills -> Bill] /\ d \in Nat
        BY AmountsAssumption DEF Discountable, IInv, TypeOK
    <2> HIDE DEF todo
    <2>2. [Nothing EXCEPT !.amount = d, !.seen = bill, !.todo = todo] \in Local
        BY <2>1, NothingTyped DEF Local, Nothing
    <2> QED
        BY <2>2 DEF todo
<1>2. /\ pc[r] = "idle" /\ UNCHANGED <<tables, captured, history>>
      /\ Goto(r, "done", Nothing) \/ Goto(r, "discount", seen)
    BY DEF DiscountReads, Finish
<1> HIDE DEF seen
<1>3. /\ {"done", "discount"} \subseteq Steps
      /\ \A step \in {"done", "discount"} :
            step \notin Deleting \cup {"income", "write", "discountRow"}
    BY DEF Steps, Deleting
<1> QED
    BY <1>1, <1>2, <1>3, NothingTyped, ElsewhereKeeps DEF tables, history

LEMMA EndsKeeps == ASSUME IInv, BillInv, NEW r \in Requests, Ends(r) PROVE BillInv'
<1>1. /\ Goto(r, "done", Nothing) /\ UNCHANGED <<bill, discounts, payments>>
      /\ raced' = IF pc[r] = "discountRow" THEN raced \cup {local[r].bill} ELSE raced
    BY DEF Ends, Finish, tables
<1>2. "done" \in Steps /\ "done" \notin Deleting
    BY DEF Steps, Deleting
<1> QED
    BY <1>1, <1>2, NothingTyped, ElsewhereKeeps

LEMMA DeletePaymentKeeps ==
    ASSUME IInv, BillInv, NEW r \in Requests, NEW p \in payments, DeletePayment(r, p)
    PROVE  BillInv'
<1> DEFINE seen == [Nothing EXCEPT !.bill = p.bill, !.amount = p.amount, !.order = p.order,
                                   !.income = p.income, !.pay = p.by]
<1>1. p \in Payment
    BY DEF IInv, TypeOK
<1>2. seen \in Local /\ seen.pay = p.by /\ seen.bill = p.bill /\ seen.amount = p.amount
    BY <1>1, NothingTyped DEF Local, Nothing, Payment
<1>3. pc[r] = "idle" /\ Goto(r, "delBill", seen) /\ UNCHANGED <<tables, captured, history>>
    BY DEF DeletePayment
<1> HIDE DEF seen
<1>4. \A q \in payments : q.by = p.by => q = p
    BY DEF IInv, RowInv
<1>5. "delBill" \in Steps
    BY DEF Steps
<1>6. /\ pc'[r] = "delBill" /\ local'[r] = seen
      /\ \A q \in Requests \ {r} : pc'[q] = pc[q] /\ local'[q] = local[q]
    BY <1>2, <1>3, <1>5, Went DEF IInv
<1>7. AskInv(r)'
    <2>1. \A q \in payments' : q.by = seen.pay => q.bill = seen.bill /\ q.amount = seen.amount
        BY <1>2, <1>3, <1>4 DEF tables
    <2> QED
        BY <1>6, <2>1 DEF AskInv
<1> QED
    BY <1>3, <1>6, <1>7, BillsKept DEF tables, history

LEMMA DeleteReadsBillKeeps ==
    ASSUME IInv, BillInv, NEW r \in Requests, DeleteReadsBill(r) PROVE BillInv'
<1> DEFINE step == IF local[r].income THEN "delIncome" ELSE "delWrite"
           seen == [local[r] EXCEPT !.seen = bill]
<1>1. /\ seen \in Local /\ seen.pay = local[r].pay /\ seen.bill = local[r].bill
      /\ seen.amount = local[r].amount
    BY DEF IInv, TypeOK, Local
<1>2. pc[r] = "delBill" /\ Goto(r, step, seen) /\ UNCHANGED <<tables, captured, history>>
    BY DEF DeleteReadsBill
<1>3. step \in Steps /\ step \in {"delIncome", "delWrite"}
    BY DEF Steps
<1> HIDE DEF step, seen
<1>4. /\ pc'[r] = step /\ local'[r] = seen
      /\ \A q \in Requests \ {r} : pc'[q] = pc[q] /\ local'[q] = local[q]
    BY <1>1, <1>2, <1>3, Went DEF IInv
<1>5. AskInv(r)'
    <2>1. AskInv(r)
        BY DEF BillInv
    <2> QED
        BY <1>1, <1>2, <1>3, <1>4, <2>1 DEF AskInv, Deleting, tables
<1> QED
    BY <1>2, <1>3, <1>4, <1>5, BillsKept DEF tables, history

\* A payment is added to its bill, or a deleted one taken from it.
LEMMA InsertPaymentKeeps ==
    ASSUME IInv, IInv', BillInv, NEW r \in Requests, InsertPayment(r) PROVE BillInv'
<1>0. PICK ask, b : ask = local[r] /\ b = local[r].bill
    OBVIOUS
<1> DEFINE seen == ask.seen[b]
           row == [by |-> r, bill |-> b, amount |-> ask.amount, order |-> ask.order,
                   income |-> ask.income]
           paid == seen.paid + ask.amount
<1>1. /\ pc[r] = "write" /\ payments' = payments \cup {row} /\ SetPaid(b, paid, seen)
      /\ raced' = IF bill[b] # seen THEN raced \cup {b} ELSE raced
      /\ (Goto(r, "done", Nothing) \/ Goto(r, "markPaid", ask))
      /\ UNCHANGED discounts
    BY <1>0 DEF InsertPayment, Note, Finish, newPaid
<1>2. /\ ask \in Local /\ b \in Bills /\ seen \in Bill /\ ask.amount \in Nat
    BY <1>0, <1>1 DEF IInv, TypeOK, RequestsInv, HoldsInv, WithBill, Local
<1>3. row.by = r /\ row.bill = b /\ row.amount = ask.amount
    OBVIOUS
<1>4. /\ Total[b] \in Nat /\ seen.paid \in Nat /\ seen.discount \in Nat
      /\ paid <= Total[b] - seen.discount + Tolerance
    <2>1. AskInv(r)
        BY DEF BillInv
    <2>2. Total[b] \in Nat /\ seen.paid \in Nat /\ seen.discount \in Nat
        BY <1>2, TotalAssumption DEF Bill
    <2>3. ask.amount <= Total[b] - seen.paid - seen.discount + Tolerance
        BY <1>0, <1>1, <2>1 DEF AskInv
    <2> QED
        BY <1>2, <2>2, <2>3 DEF Tolerance
<1>5. /\ \A c \in Bills \ {b} : bill'[c] = bill[c]
      /\ bill'[b].paid = paid /\ bill'[b].discount = bill[b].discount
      /\ bill'[b].status = StatusFor(b, paid, seen.discount)
    BY <1>1, <1>2 DEF SetPaid, IInv, TypeOK, Bill
<1>6. /\ pc'[r] \in {"done", "markPaid"}
      /\ \A q \in Requests \ {r} : pc'[q] = pc[q] /\ local'[q] = local[q]
    <2>1. {"done", "markPaid"} \subseteq Steps
        BY DEF Steps
    <2> QED
        BY <1>1, <1>2, <2>1, NothingTyped, Went DEF IInv
<1>7. \A p \in payments : p.by # r
    BY <1>1 DEF IInv, RowInv, Over
<1> HIDE DEF row, paid
<1>8. IsFiniteSet(payments')
    BY <1>1, FS_AddElement DEF BillInv
<1>9. \A c \in Bills : Owed(c)' = Owed(c)
    <2>1. \A c \in Bills : Waiting(c)' = Waiting(c)
        BY <1>1, <1>6 DEF Waiting
    <2>2. \A c \in Bills : \A q \in Waiting(c) : local'[q] = local[q]
        BY <1>1, <1>6 DEF Waiting
    <2> QED
        BY <2>1, <2>2 DEF Owed
<1>10. ASSUME NEW q \in Requests PROVE AskInv(q)'
    <2>1. CASE q = r
        BY <1>6, <2>1 DEF AskInv, Deleting
    <2>2. CASE q # r
        <3>1. /\ AskInv(q) /\ pc'[q] = pc[q] /\ local'[q] = local[q]
              /\ pc[q] \in Deleting => local[q].pay # r
            BY <1>1, <1>6, <2>2 DEF BillInv, IInv, RequestsInv, HoldsInv, Over
        <3>2. \A p \in payments' : p.by # r => p \in payments
            BY <1>1, <1>3
        <3> QED
            BY <3>1, <3>2 DEF AskInv
    <2> QED
        BY <2>1, <2>2
<1>11. ASSUME NEW c \in Bills \ raced', c # b PROVE MatchInv(c)'
    <2>1. RowsOf(c)' = RowsOf(c)
        BY <1>1, <1>3, <1>11 DEF RowsOf
    <2>2. MatchInv(c) /\ bill'[c] = bill[c] /\ discounts'[c] = discounts[c]
        BY <1>1, <1>5, <1>11 DEF BillInv
    <2> QED
        BY <1>9, <2>1, <2>2 DEF MatchInv
<1>12. ASSUME b \notin raced' PROVE MatchInv(b)'
    <2>1. bill[b] = seen /\ MatchInv(b)
        BY <1>1, <1>2, <1>12 DEF BillInv
    <2>2. Sum(RowsOf(b)') = paid
        <3>1. row \in RowsOf(b)' /\ RowsOf(b)' \ {row} = RowsOf(b)
            BY <1>1, <1>3, <1>7 DEF RowsOf
        <3>2. IsFiniteSet(RowsOf(b)') /\ \A p \in RowsOf(b)' : p.amount \in Nat
            BY <1>8, FS_Subset DEF RowsOf, IInv, TypeOK, Payment
        <3>3. Sum(RowsOf(b)') = Sum(RowsOf(b)) + ask.amount
            BY <1>3, <3>1, <3>2, SumAny
        <3>4. Sum(RowsOf(b)) = seen.paid
            BY <2>1 DEF MatchInv
        <3> QED
            BY <3>3, <3>4 DEF paid
    <2>3. paid \in Nat
        BY <1>2, <1>4 DEF paid
    <2>4. /\ bill'[b].status = "PAID" => paid + seen.discount >= Total[b]
          /\ bill'[b].status = "PENDING" => paid = 0
          /\ paid <= Total[b] + Tolerance
        BY <1>4, <1>5, <2>3 DEF StatusFor, Tolerance
    <2>5. bill'[b].discount = discounts'[b] + Sum(Owed(b)')
        BY <1>1, <1>2, <1>5, <1>9, <2>1 DEF MatchInv
    <2> QED
        BY <1>5, <2>1, <2>2, <2>4, <2>5 DEF MatchInv
<1> QED
    BY <1>8, <1>9, <1>10, <1>11, <1>12 DEF BillInv

LEMMA DeleteRowKeeps ==
    ASSUME IInv, BillInv, NEW r \in Requests, DeleteRow(r) PROVE BillInv'
<1>0. PICK ask, b : ask = local[r] /\ b = local[r].bill
    OBVIOUS
<1> DEFINE seen == ask.seen[b]
           rows == {p \in payments : p.by = ask.pay}
           reduced == Reduced(seen, ask.amount)
<1>1. /\ pc[r] = "delWrite" /\ SetPaid(b, reduced, seen) /\ Goto(r, "done", Nothing)
      /\ payments' = payments \ rows
      /\ raced' = IF bill[b] # seen \/ rows = {} THEN raced \cup {b} ELSE raced
      /\ UNCHANGED discounts
    BY <1>0 DEF DeleteRow, Note, Finish
<1>2. /\ ask \in Local /\ b \in Bills /\ seen \in Bill /\ ask.amount \in Nat
      /\ Total[b] \in Nat /\ seen.paid \in Nat /\ seen.discount \in Nat
    BY <1>0, <1>1, TotalAssumption
    DEF IInv, TypeOK, RequestsInv, HoldsInv, WithBill, Deleting, Local, Bill
<1>3. \A p \in rows : p.bill = b /\ p.amount = ask.amount
    BY <1>0, <1>1 DEF BillInv, AskInv, Deleting, rows
<1>4. \A p, q \in rows : p = q
    BY DEF IInv, RowInv
<1>5. reduced \in Nat
    BY <1>2, ReducedTyped
<1> HIDE DEF rows, reduced
<1>6. /\ \A c \in Bills \ {b} : bill'[c] = bill[c]
      /\ bill'[b].paid = reduced /\ bill'[b].discount = bill[b].discount
      /\ bill'[b].status = StatusFor(b, reduced, seen.discount)
    BY <1>1, <1>2 DEF SetPaid, IInv, TypeOK, Bill
<1>7. /\ pc'[r] = "done"
      /\ \A q \in Requests \ {r} : pc'[q] = pc[q] /\ local'[q] = local[q]
    <2>1. "done" \in Steps
        BY DEF Steps
    <2> QED
        BY <1>1, <2>1, NothingTyped, Went DEF IInv
<1>8. IsFiniteSet(payments) /\ IsFiniteSet(payments')
    BY <1>1, FS_Subset DEF BillInv
<1>9. \A c \in Bills : Owed(c)' = Owed(c)
    <2>1. \A c \in Bills : Waiting(c)' = Waiting(c)
        BY <1>1, <1>7 DEF Waiting
    <2>2. \A c \in Bills : \A q \in Waiting(c) : local'[q] = local[q]
        BY <1>1, <1>7 DEF Waiting
    <2> QED
        BY <2>1, <2>2 DEF Owed
<1>10. ASSUME NEW q \in Requests PROVE AskInv(q)'
    <2>1. CASE q = r
        BY <1>7, <2>1 DEF AskInv, Deleting
    <2>2. CASE q # r
        <3>1. AskInv(q) /\ pc'[q] = pc[q] /\ local'[q] = local[q]
            BY <1>7, <2>2 DEF BillInv
        <3> QED
            BY <1>1, <3>1 DEF AskInv
    <2> QED
        BY <2>1, <2>2
<1>11. ASSUME NEW c \in Bills \ raced', c # b PROVE MatchInv(c)'
    <2>1. RowsOf(c)' = RowsOf(c)
        BY <1>1, <1>3, <1>11 DEF RowsOf
    <2>2. MatchInv(c) /\ bill'[c] = bill[c] /\ discounts'[c] = discounts[c]
        BY <1>1, <1>6, <1>11 DEF BillInv
    <2> QED
        BY <1>9, <2>1, <2>2 DEF MatchInv
<1>12. ASSUME b \notin raced' PROVE MatchInv(b)'
    <2>1. bill[b] = seen /\ rows # {} /\ MatchInv(b)
        BY <1>1, <1>2, <1>12 DEF BillInv
    <2>2. PICK p \in rows : TRUE
        BY <2>1
    <2>3. rows = {p} /\ p \in payments /\ p.bill = b /\ p.amount = ask.amount
        BY <1>3, <1>4, <2>2 DEF rows
    <2>4. p \in RowsOf(b) /\ RowsOf(b)' = RowsOf(b) \ {p}
        BY <1>1, <2>3 DEF RowsOf
    <2>5. IsFiniteSet(RowsOf(b)) /\ \A q \in RowsOf(b) : q.amount \in Nat
        BY <1>8, FS_Subset DEF RowsOf, IInv, TypeOK, Payment
    <2>6. Sum(RowsOf(b)) = Sum(RowsOf(b)') + ask.amount
        BY <2>3, <2>4, <2>5, SumAny
    <2>7. Sum(RowsOf(b)') \in Nat
        BY <2>4, <2>5, FS_Subset, SumTyped
    <2>8. Sum(RowsOf(b)) = seen.paid
        BY <2>1 DEF MatchInv
    <2>9. reduced = Sum(RowsOf(b)') /\ reduced <= seen.paid
        <3>1. seen.paid - ask.amount = Sum(RowsOf(b)')
            BY <1>2, <2>6, <2>7, <2>8
        <3> QED
            BY <1>2, <2>6, <2>7, <2>8, <3>1, ReducedIs DEF reduced
    <2>10. /\ bill'[b].status = "PAID" => reduced + seen.discount >= Total[b]
           /\ bill'[b].status = "PENDING" => reduced = 0
        BY <1>2, <1>5, <1>6 DEF StatusFor
    <2>11. reduced <= Total[b] + Tolerance
        BY <1>2, <1>5, <2>1, <2>9 DEF MatchInv, Tolerance
    <2>12. bill'[b].discount = discounts'[b] + Sum(Owed(b)')
        BY <1>1, <1>2, <1>6, <1>9, <2>1 DEF MatchInv
    <2> QED
        BY <1>6, <2>1, <2>9, <2>10, <2>11, <2>12 DEF MatchInv
<1> QED
    BY <1>8, <1>9, <1>10, <1>11, <1>12 DEF BillInv

\* A discount counts on the bill before its row is inserted.
LEMMA GrantDiscountKeeps ==
    ASSUME IInv, BillInv, NEW r \in Requests, NEW b \in Bills, GrantDiscount(r, b) PROVE BillInv'
<1>0. PICK ask : ask = local[r]
    OBVIOUS
<1> DEFINE seen == ask.seen[b]
           next == [ask EXCEPT !.bill = b, !.todo = @ \ {b}]
           row == [by |-> r, amount |-> ask.amount]
           granted == seen.discount + ask.amount
<1>1. /\ pc[r] = "discount" /\ Goto(r, "discountRow", next)
      /\ bill' = [bill EXCEPT ![b].discount = granted]
      /\ raced' = IF bill[b].discount # seen.discount THEN raced \cup {b} ELSE raced
      /\ UNCHANGED <<discounts, payments>>
    BY <1>0 DEF GrantDiscount, Note, newDiscount
<1>2. /\ next \in Local /\ next.bill = b /\ next.amount = ask.amount
      /\ seen \in Bill /\ seen.discount \in Nat /\ ask.amount \in Nat
    BY <1>0 DEF IInv, TypeOK, Local, Bill
<1>3. row.by = r /\ row.amount = ask.amount
    OBVIOUS
<1> HIDE DEF next
<1>4. /\ \A c \in Bills \ {b} : bill'[c] = bill[c]
      /\ bill'[b].paid = bill[b].paid /\ bill'[b].status = bill[b].status
      /\ bill'[b].discount = granted
    BY <1>1 DEF IInv, TypeOK, Bill
<1>5. /\ pc'[r] = "discountRow" /\ local'[r] = next
      /\ \A q \in Requests \ {r} : pc'[q] = pc[q] /\ local'[q] = local[q]
    <2>1. "discountRow" \in Steps
        BY DEF Steps
    <2> QED
        BY <1>1, <1>2, <2>1, Went DEF IInv
<1>6. \A c \in Bills : r \notin Waiting(c) /\ \A q \in Waiting(c) : local'[q] = local[q]
    BY <1>1, <1>5 DEF Waiting
<1>7. ASSUME NEW c \in Bills \ {b} PROVE Owed(c)' = Owed(c)
    <2>1. Waiting(c)' = Waiting(c)
        BY <1>1, <1>2, <1>5 DEF Waiting
    <2> QED
        BY <1>6, <2>1 DEF Owed
<1>8. Owed(b)' = Owed(b) \cup {row} /\ row \notin Owed(b)
    <2>1. Waiting(b)' = Waiting(b) \cup {r}
        BY <1>1, <1>2, <1>5 DEF Waiting
    <2>2. \A x : x \in Owed(b)' <=>
                    \E q \in Waiting(b) \cup {r} : x = [by |-> q, amount |-> local'[q].amount]
        BY <2>1 DEF Owed
    <2>3. \A x : x \in Owed(b) <=>
                    \E q \in Waiting(b) : x = [by |-> q, amount |-> local'[q].amount]
        BY <1>6 DEF Owed
    <2>4. row = [by |-> r, amount |-> local'[r].amount]
        BY <1>2, <1>5
    <2>5. row \notin Owed(b)
        BY <1>3, <1>6, <2>3
    <2> HIDE DEF row
    <2> QED
        BY <2>2, <2>3, <2>4, <2>5
<1> HIDE DEF row
<1>9. ASSUME NEW c \in Bills PROVE IsFiniteSet(Owed(c)')
    BY <1>7, <1>8, FS_AddElement DEF BillInv
<1>10. ASSUME NEW q \in Requests PROVE AskInv(q)'
    <2>1. CASE q = r
        BY <1>5, <2>1 DEF AskInv, Deleting
    <2>2. CASE q # r
        <3>1. AskInv(q) /\ pc'[q] = pc[q] /\ local'[q] = local[q]
            BY <1>5, <2>2 DEF BillInv
        <3> QED
            BY <1>1, <3>1 DEF AskInv
    <2> QED
        BY <2>1, <2>2
<1>11. \A c \in Bills : RowsOf(c)' = RowsOf(c)
    BY <1>1 DEF RowsOf
<1>12. ASSUME NEW c \in Bills \ raced', c # b PROVE MatchInv(c)'
    <2>1. MatchInv(c) /\ bill'[c] = bill[c] /\ discounts'[c] = discounts[c] /\ Owed(c)' = Owed(c)
        BY <1>1, <1>4, <1>7, <1>12 DEF BillInv
    <2> QED
        BY <1>11, <2>1 DEF MatchInv
<1>13. ASSUME b \notin raced' PROVE MatchInv(b)'
    <2>1. bill[b].discount = seen.discount /\ MatchInv(b)
        BY <1>1, <1>13 DEF BillInv
    <2>2. Sum(Owed(b)') = Sum(Owed(b)) + ask.amount /\ Sum(Owed(b)) \in Nat
        <3>1. row \in Owed(b)' /\ Owed(b)' \ {row} = Owed(b)
            BY <1>8
        <3>2. \A x \in Owed(b) : x.amount \in Nat
            BY DEF Owed, Waiting, IInv, TypeOK, Local
        <3>3. \A x \in Owed(b)' : x.amount \in Nat
            BY <1>2, <1>3, <1>8, <3>2
        <3>4. Sum(Owed(b)') = Sum(Owed(b)) + ask.amount
            BY <1>3, <1>9, <3>1, <3>3, SumAny
        <3>5. Sum(Owed(b)) \in Nat
            BY <3>2, SumTyped DEF BillInv
        <3> QED
            BY <3>4, <3>5
    <2>3. /\ discounts[b] \in Nat /\ bill[b].paid \in Nat /\ Total[b] \in Nat
        BY TotalAssumption DEF IInv, TypeOK, Bill
    <2>4. granted = discounts'[b] + Sum(Owed(b)')
        <3>1. seen.discount = discounts[b] + Sum(Owed(b)) /\ discounts'[b] = discounts[b]
            BY <1>1, <2>1 DEF MatchInv
        <3> QED
            BY <1>2, <2>2, <2>3, <3>1
    <2>5. bill[b].status = "PAID" => bill[b].paid + granted >= Total[b]
        BY <1>2, <2>1, <2>3 DEF MatchInv
    <2> QED
        BY <1>4, <1>11, <2>1, <2>4, <2>5 DEF MatchInv
<1> QED
    BY <1>1, <1>9, <1>10, <1>12, <1>13 DEF BillInv

LEMMA InsertDiscountKeeps ==
    ASSUME IInv, BillInv, NEW r \in Requests, InsertDiscount(r) PROVE BillInv'
<1>0. PICK ask, b : ask = local[r] /\ b = local[r].bill
    OBVIOUS
<1> DEFINE row == [by |-> r, amount |-> ask.amount]
<1>1. /\ pc[r] = "discountRow" /\ (Goto(r, "done", Nothing) \/ Goto(r, "discount", ask))
      /\ discounts' = [discounts EXCEPT ![b] = @ + ask.amount]
      /\ UNCHANGED <<bill, payments, raced>>
    BY <1>0 DEF InsertDiscount, Finish, history
<1>2. ask \in Local /\ ask.amount \in Nat /\ b \in Bills
    BY <1>0, <1>1 DEF IInv, TypeOK, Local, RequestsInv, HoldsInv, WithBill
<1>3. row.by = r /\ row.amount = ask.amount
    OBVIOUS
<1>4. /\ pc'[r] \in {"done", "discount"}
      /\ \A q \in Requests \ {r} : pc'[q] = pc[q] /\ local'[q] = local[q]
    <2>1. {"done", "discount"} \subseteq Steps
        BY DEF Steps
    <2> QED
        BY <1>1, <1>2, <2>1, NothingTyped, Went DEF IInv
<1>5. /\ \A c \in Bills \ {b} : discounts'[c] = discounts[c]
      /\ discounts'[b] = discounts[b] + ask.amount
    BY <1>1, <1>2 DEF IInv, TypeOK
<1>6. ASSUME NEW c \in Bills \ {b} PROVE Owed(c)' = Owed(c)
    <2>1. Waiting(c)' = Waiting(c) /\ \A q \in Waiting(c) : local'[q] = local[q]
        BY <1>0, <1>1, <1>4 DEF Waiting
    <2> QED
        BY <2>1 DEF Owed
<1>7. Owed(b)' = Owed(b) \ {row} /\ row \in Owed(b)
    <2>1. r \in Waiting(b)
        BY <1>0, <1>1 DEF Waiting
    <2>2. Waiting(b)' = Waiting(b) \ {r}
        BY <1>0, <1>1, <1>4 DEF Waiting
    <2>3. \A q \in Waiting(b) \ {r} : local'[q] = local[q]
        BY <1>4 DEF Waiting
    <2>4. \A x : x \in Owed(b)' <=>
                    \E q \in Waiting(b) \ {r} : x = [by |-> q, amount |-> local[q].amount]
        BY <2>2, <2>3 DEF Owed
    <2>5. \A x : x \in Owed(b) <=>
                    \E q \in Waiting(b) : x = [by |-> q, amount |-> local[q].amount]
        BY DEF Owed
    <2>6. \A q \in Waiting(b) \ {r} : [by |-> q, amount |-> local[q].amount] # row
        <3>1. \A q \in Waiting(b) \ {r} : [by |-> q, amount |-> local[q].amount].by # row.by
            OBVIOUS
        <3> QED
            BY <3>1
    <2> QED
        BY <1>0, <2>1, <2>4, <2>5, <2>6
<1> HIDE DEF row
<1>8. ASSUME NEW c \in Bills PROVE IsFiniteSet(Owed(c)')
    BY <1>6, <1>7, FS_Subset DEF BillInv
<1>9. ASSUME NEW q \in Requests PROVE AskInv(q)'
    <2>1. CASE q = r
        BY <1>4, <2>1 DEF AskInv, Deleting
    <2>2. CASE q # r
        <3>1. AskInv(q) /\ pc'[q] = pc[q] /\ local'[q] = local[q]
            BY <1>4, <2>2 DEF BillInv
        <3> QED
            BY <1>1, <3>1 DEF AskInv
    <2> QED
        BY <2>1, <2>2
<1>10. \A c \in Bills : RowsOf(c)' = RowsOf(c)
    BY <1>1 DEF RowsOf
<1>11. ASSUME NEW c \in Bills \ raced', c # b PROVE MatchInv(c)'
    <2>1. MatchInv(c) /\ bill'[c] = bill[c] /\ discounts'[c] = discounts[c] /\ Owed(c)' = Owed(c)
        BY <1>1, <1>5, <1>6, <1>11 DEF BillInv
    <2> QED
        BY <1>10, <2>1 DEF MatchInv
<1>12. ASSUME b \notin raced' PROVE MatchInv(b)'
    <2>1. MatchInv(b)
        BY <1>1, <1>2, <1>12 DEF BillInv
    <2>2. \A x \in Owed(b) : x.amount \in Nat
        BY DEF Owed, Waiting, IInv, TypeOK, Local
    <2>3. IsFiniteSet(Owed(b))
        BY <1>2 DEF BillInv
    <2>4. Sum(Owed(b)) = Sum(Owed(b)') + ask.amount
        BY <1>3, <1>7, <2>2, <2>3, SumAny
    <2>5. Sum(Owed(b)') \in Nat
        BY <1>7, <1>8, <1>2, <2>2, SumTyped
    <2>6. discounts[b] \in Nat
        BY <1>2 DEF IInv, TypeOK
    <2>7. bill[b].discount = discounts'[b] + Sum(Owed(b)')
        <3>1. bill[b].discount = discounts[b] + Sum(Owed(b))
            BY <2>1 DEF MatchInv
        <3> QED
            BY <1>2, <1>5, <2>4, <2>5, <2>6, <3>1
    <2> QED
        BY <1>1, <1>2, <1>10, <2>1, <2>7 DEF MatchInv
<1> QED
    BY <1>1, <1>8, <1>9, <1>11, <1>12 DEF BillInv

LEMMA StepBills == IInv /\ BillInv /\ [Next]_vars => BillInv'
<1> SUFFICES ASSUME IInv, BillInv, [Next]_vars PROVE BillInv'
    OBVIOUS
<1>1. IInv'
    BY StepInv
<1>2. CASE UNCHANGED <<tables, pc, local, history>>
    <2>1. UNCHANGED <<bill, discounts, payments, pc, local, raced>>
        BY <1>2 DEF tables, history
    <2>2. \A b \in Bills : RowsOf(b)' = RowsOf(b) /\ Owed(b)' = Owed(b)
        BY <2>1 DEF RowsOf, Owed, Waiting
    <2>3. \A r \in Requests : AskInv(r)' <=> AskInv(r)
        BY <2>1 DEF AskInv
    <2>4. \A b \in Bills : MatchInv(b)' <=> MatchInv(b)
        BY <2>1, <2>2 DEF MatchInv
    <2> QED
        BY <2>1, <2>2, <2>3, <2>4 DEF BillInv
<1>3. ASSUME NEW r \in Requests, Handler(r) PROVE BillInv'
    BY <1>1, <1>3, PayAtCounterKeeps, OpenOrderKeeps, RecordKeeps, DeletePaymentKeeps,
       DiscountReadsKeeps, GrantDiscountKeeps, PayOrderKeeps, BookIncomeKeeps,
       InsertPaymentKeeps, InsertOrderKeeps, MarkKeeps, DeleteReadsBillKeeps,
       ReverseIncomeKeeps, DeleteRowKeeps, InsertDiscountKeeps, EndsKeeps
    DEF Handler
<1>4. CASE UNCHANGED vars
    BY <1>2, <1>4 DEF vars, tables, history
<1>5. ASSUME NEW o \in Orders, Captures(o) PROVE BillInv'
    BY <1>2, <1>5 DEF Captures
<1> QED
    BY <1>3, <1>4, <1>5 DEF Next

THEOREM Invariant == Spec => []IInv
    BY InitInv, StepInv, PTL DEF Spec

\* Bills, orders, requests and what the history notes keep their types.
THEOREM CollectionTypeCorrect == Spec => []TypeOK
<1>1. IInv => TypeOK
    BY DEF IInv
<1> QED
    BY <1>1, Invariant, PTL

\* Callback and webhook record an order once, unless they overlap or one is cut off before
\* it has marked the order.
THEOREM OrdersRecordedOnce == Spec => []OrderRecordedOnce
<1>1. ASSUME IInv, NEW o \in Orders \ disturbed
      PROVE  Cardinality({p \in payments : p.order = o}) <= 1
    <2> DEFINE S == {p \in payments : p.order = o}
    <2>1. \A p, q \in S : p = q
        BY <1>1 DEF IInv, OnceInv
    <2>2. CASE S = {}
        BY <2>2, FS_EmptySet
    <2>3. ASSUME NEW p \in S PROVE Cardinality(S) <= 1
        <3>1. S = {p}
            BY <2>1
        <3>2. Cardinality({p}) = 1
            BY FS_Singleton
        <3> HIDE DEF S
        <3> QED
            BY <3>1, <3>2
    <2> QED
        BY <2>2, <2>3
<1>2. IInv => OrderRecordedOnce
    BY <1>1 DEF OrderRecordedOnce
<1> QED
    BY <1>2, Invariant, PTL

\* However requests overlap and fail, an order is PAID only with its payment, and an income
\* is booked only for one.
THEOREM PaymentsComeFirst == Spec => []NothingWithoutPayment
<1>1. IInv => NothingWithoutPayment
    BY DEF IInv
<1> QED
    BY <1>1, Invariant, PTL

\* However payments, deletions and discounts overlap and fail: unless a write was computed
\* from a row that had changed, what a bill says is the sum of its rows.
THEOREM BillsMatchRows == Spec => []BillMatchesRows
<1>1. ASSUME IInv, BillInv, NEW b \in Bills \ raced,
             \A r \in Requests : ~(pc[r] = "discountRow" /\ local[r].bill = b)
      PROVE  bill[b].discount = discounts[b]
    <2>1. Owed(b) = {}
        BY <1>1 DEF Owed, Waiting
    <2>2. bill[b].discount = discounts[b] + Sum({}) /\ discounts[b] \in Nat
        BY <1>1, <2>1 DEF BillInv, MatchInv, IInv, TypeOK
    <2> QED
        BY <2>2, SumEmpty
<1>2. IInv /\ BillInv => BillMatchesRows
    <2> SUFFICES ASSUME IInv, BillInv, NEW b \in Bills \ raced
                 PROVE  /\ bill[b].paid = Sum(RowsOf(b))
                        /\ (\A r \in Requests : ~(pc[r] = "discountRow" /\ local[r].bill = b)) =>
                              bill[b].discount = discounts[b]
                        /\ bill[b].status = "PAID" => bill[b].paid + bill[b].discount >= Total[b]
                        /\ bill[b].status = "PENDING" => bill[b].paid = 0
                        /\ bill[b].paid <= Total[b] + Tolerance
        BY DEF BillMatchesRows, Sum, RowsOf
    <2> QED
        BY <1>1 DEF BillInv, MatchInv
<1>3. Spec => []BillInv
    BY InitBills, StepBills, Invariant, PTL DEF Spec
<1> QED
    BY <1>2, <1>3, Invariant, PTL

(***************************************************************************)
(* FinanceLedger                                                           *)
(***************************************************************************)
\* What each entry does to account a, if it is posted.
Effects(a) == [e \in Entries |-> Effect(a, entry[e].posting)]
BalanceInv == twice = {} => \A a \in Accounts : balance[a] = SumOver(Effects(a), Posted)

LEMMA AmountTyped == ASSUME NEW p \in Posting PROVE p.amount \in Int
<1>1. p.amount \in EntryAmounts \cup {0}
    BY DEF Posting
<1>2. \A n \in EntryAmounts \cup {0} : n \in Int
    BY LedgerAssumption
<1> QED
    BY <1>1, <1>2, Zenon

LEMMA EffectTyped == ASSUME NEW a, NEW p \in Posting PROVE Effect(a, p) \in Int
<1>1. p.amount \in Int
    BY AmountTyped
<1> QED
    BY <1>1 DEF Effect

LEMMA EffectsTyped ==
    ASSUME LedgerTypeOK, NEW a, NEW e \in Entries PROVE Effects(a)[e] \in Int
<1>1. entry[e].posting \in Posting
    BY DEF LedgerTypeOK, Row
<1> QED
    BY <1>1, EffectTyped DEF Effects

LEMMA PostedFinite == IsFiniteSet(Posted)
    BY LedgerAssumption, FS_Subset DEF Posted

LEMMA MoveTyped ==
    ASSUME LedgerTypeOK, NEW p \in Posting, NEW sign \in {1, -1}, Move(p, sign)
    PROVE  /\ balance' \in [Accounts -> Int]
           /\ \A a \in Accounts : balance'[a] = balance[a] + sign * Effect(a, p)
<1>1. p.amount \in Int
    BY AmountTyped
<1>2. \A a \in Accounts : balance[a] \in Int
    BY DEF LedgerTypeOK
<1>3. ASSUME NEW a \in Accounts
      PROVE  balance'[a] \in Int /\ balance'[a] = balance[a] + sign * Effect(a, p)
    BY <1>1, <1>2 DEF Move, Effect
<1> QED
    BY <1>3 DEF Move

LEMMA PostEntryBalances ==
    ASSUME LedgerTypeOK, BalanceInv, NEW e \in Entries, NEW p \in Posting, PostEntry(e, p)
    PROVE  LedgerTypeOK' /\ BalanceInv'
<1>1. /\ entry[e].status = "none" /\ Move(p, 1) /\ UNCHANGED <<enabled, twice>>
      /\ entry' = [entry EXCEPT ![e] = [status |-> "posted", posting |-> p]]
    BY DEF PostEntry
<1>2. LedgerTypeOK'
    BY <1>1, MoveTyped DEF LedgerTypeOK, Row
<1>3. /\ entry'[e].status = "posted" /\ entry'[e].posting = p
      /\ \A f \in Entries \ {e} : entry'[f] = entry[f]
    BY <1>1 DEF LedgerTypeOK
<1>4. Posted' = Posted \cup {e} /\ e \notin Posted
    BY <1>1, <1>3 DEF Posted
<1>5. ASSUME NEW a \in Accounts, twice = {}
      PROVE  balance'[a] = SumOver(Effects(a)', Posted')
    <2> DEFINE F == Effects(a)
               G == Effects(a)'
    <2>1. G[e] = Effect(a, p) /\ \A f \in Entries \ {e} : G[f] = F[f]
        BY <1>3 DEF Effects
    <2>2. \A f \in Posted' : G[f] \in Int
        <3>1. \A f \in Entries : F[f] \in Int
            BY EffectsTyped
        <3> QED
            BY <2>1, <3>1, EffectTyped DEF Posted
    <2>3. balance[a] = SumOver(F, Posted)
        BY <1>5 DEF BalanceInv
    <2>4. IsFiniteSet(Posted) /\ IsFiniteSet(Posted')
        BY <1>4, PostedFinite, FS_AddElement
    <2>5. \A f \in Posted : G[f] = F[f] /\ F[f] \in Int
        BY <1>4, <2>1, EffectsTyped DEF Posted
    <2> HIDE DEF F, G
    <2>6. SumOver(G, Posted') = SumOver(G, Posted' \ {e}) + G[e]
        BY <1>4, <2>2, <2>4, SumOverAny
    <2>7. Posted' \ {e} = Posted
        BY <1>4
    <2>8. SumOver(G, Posted) = SumOver(F, Posted)
        BY <2>4, <2>5, SumOverSame
    <2>9. balance'[a] = balance[a] + Effect(a, p) /\ Effect(a, p) \in Int
        <3>1. balance'[a] = balance[a] + 1 * Effect(a, p) /\ Effect(a, p) \in Int
            BY <1>1, MoveTyped, EffectTyped
        <3> QED
            BY <3>1
    <2>10. SumOver(G, Posted') = balance'[a]
        BY <2>1, <2>3, <2>6, <2>7, <2>8, <2>9
    <2> QED
        BY <2>10 DEF G
<1> QED
    BY <1>1, <1>2, <1>5 DEF BalanceInv

LEMMA RemoveEntryBalances ==
    ASSUME LedgerTypeOK, BalanceInv, NEW e \in Entries, RemoveEntry(e)
    PROVE  LedgerTypeOK' /\ BalanceInv'
<1> DEFINE p == entry[e].posting
<1>1. /\ Move(p, -1) /\ UNCHANGED enabled
      /\ entry' = [entry EXCEPT ![e] = [@ EXCEPT !.status = "deleted"]]
      /\ twice' = IF e \in Posted THEN twice ELSE twice \cup {e}
    BY DEF RemoveEntry
<1>2. p \in Posting
    BY DEF LedgerTypeOK, Row
<1> HIDE DEF p
<1>3. LedgerTypeOK'
    BY <1>1, <1>2, MoveTyped DEF LedgerTypeOK, Row
<1>4. /\ entry'[e].status = "deleted" /\ \A f \in Entries : entry'[f].posting = entry[f].posting
      /\ \A f \in Entries \ {e} : entry'[f] = entry[f]
    BY <1>1 DEF LedgerTypeOK, Row
<1>5. Posted' = Posted \ {e}
    BY <1>4 DEF Posted
<1>6. ASSUME NEW a \in Accounts, twice' = {}
      PROVE  balance'[a] = SumOver(Effects(a)', Posted')
    <2>1. e \in Posted /\ twice = {}
        BY <1>1, <1>6
    <2>2. Effects(a)' = Effects(a)
        BY <1>4 DEF Effects
    <2>3. balance[a] = SumOver(Effects(a), Posted)
        BY <1>6, <2>1 DEF BalanceInv
    <2>4. \A f \in Posted : Effects(a)[f] \in Int
        BY EffectsTyped DEF Posted
    <2>5. SumOver(Effects(a), Posted) = SumOver(Effects(a), Posted \ {e}) + Effects(a)[e]
        BY <2>1, <2>4, PostedFinite, SumOverAny
    <2>6. IsFiniteSet(Posted \ {e})
        BY PostedFinite, FS_Subset
    <2>7. SumOver(Effects(a), Posted \ {e}) \in Int
        BY <2>4, <2>6, SumOverTyped
    <2>8. Effects(a)[e] = Effect(a, p) /\ Effect(a, p) \in Int
        BY <1>2, EffectTyped DEF Effects, p
    <2>9. balance'[a] = balance[a] + (-1) * Effect(a, p)
        BY <1>1, <1>2, MoveTyped
    <2> QED
        BY <1>5, <2>2, <2>3, <2>5, <2>7, <2>8, <2>9
<1> QED
    BY <1>3, <1>6 DEF BalanceInv

LEMMA BalancesKept ==
    ASSUME BalanceInv, UNCHANGED <<balance, entry, twice>> PROVE BalanceInv'
<1>1. Posted' = Posted /\ \A a \in Accounts : Effects(a)' = Effects(a)
    BY DEF Posted, Effects
<1> QED
    BY <1>1 DEF BalanceInv

\* The sum of getBalanceAtDate.
EntrySums(a, f, S) ==
    f = [s \in SUBSET S |-> IF s = {} THEN 0
                            ELSE Effect(a, entry[First(s)].posting) + f[s \ {First(s)}]]

LEMMA BalanceIsSum == ASSUME NEW a PROVE SumOfEntries(a) = SumOver(Effects(a), Posted)
<1> DEFINE F == Effects(a)
<1>1. SumOfEntries(a) = (CHOOSE f : EntrySums(a, f, Posted))[Posted]
    BY DEF SumOfEntries, MapThenSumSet, MapThenFoldSet, EntrySums, First
<1>2. \A s \in SUBSET Posted : s # {} => F[First(s)] = Effect(a, entry[First(s)].posting)
    BY DEF First, Effects, Posted
<1> HIDE DEF F
<1>3. ASSUME NEW f PROVE EntrySums(a, f, Posted) <=> Sums(F, f, Posted)
    <2>1. [s \in SUBSET Posted |-> IF s = {} THEN 0
                                   ELSE Effect(a, entry[First(s)].posting) + f[s \ {First(s)}]]
          = [s \in SUBSET Posted |-> IF s = {} THEN 0 ELSE F[First(s)] + f[s \ {First(s)}]]
        BY <1>2
    <2> QED
        BY <2>1 DEF EntrySums, Sums
<1> DEFINE g == CHOOSE f : EntrySums(a, f, Posted)
<1>4. EntrySums(a, g, Posted)
    BY <1>3, PostedFinite, SumsExist
<1> HIDE DEF g
<1>5. g[Posted] = SumOver(F, Posted)
    BY <1>3, <1>4, PostedFinite, SumOverSums
<1> QED
    BY <1>1, <1>5 DEF g, F

(***************************************************************************)
(* SalaryPosting                                                           *)
(***************************************************************************)
\* Who has processed t and has not come to the end.
Posters(t) ==
    {r \in Handlers : context[r].txn = t /\ stage[r] \in {"check", "post", "link"}}

\* What a handler holds: what it has read of its transaction, and the entry it posted or
\* removes.
HandlerInv(r) ==
    /\ stage[r] \in {"process", "link", "delete"} => ForSalary(r)
    /\ stage[r] \in {"find", "remove", "link"} => context[r].entry \in Entries
    /\ ForSalary(r) =>
          /\ stage[r] \in {"process", "check", "post", "link"} =>
                context[r].seen.status = "PENDING" /\ ~context[r].seen.deleted
          /\ stage[r] \in {"find", "remove", "delete"} =>
                context[r].entry = context[r].seen.linked /\ ~context[r].seen.deleted

\* An id without a row was posted by none.
EntriesInv == \A e \in Entries : entry[e].status = "none" => postedBy[e] = NoTransaction

\* Of a transaction that was always as its writers had read it: one handler posts it, once, and
\* until the entry is linked this handler is on its way or was cut off.
PostingInv(t) ==
    /\ txn[t].status # "PROCESSED" =>
          EntriesOf(t) = {} /\ Posters(t) = {} /\ txn[t].linked = NoEntry
    /\ txn[t].posting = NoPosting => EntriesOf(t) = {} /\ Posters(t) = {}
    /\ \A q, r \in Posters(t) : q = r
    /\ \A r \in Posters(t) :
          /\ txn[t].linked = NoEntry
          /\ stage[r] \in {"check", "post"} => EntriesOf(t) = {}
          /\ stage[r] = "link" => EntriesOf(t) = {context[r].entry}
    /\ txn[t].linked # NoEntry => EntriesOf(t) = {txn[t].linked}
    /\ \A e, f \in EntriesOf(t) : e = f
    /\ t \notin cut /\ txn[t].status = "PROCESSED" /\ txn[t].posting # NoPosting
          /\ txn[t].linked = NoEntry => Posters(t) # {}

\* And who deletes it has the expense reversed that it has read of, unless it was cut off.
DeleterInv(t, r) ==
    context[r].txn = t /\ stage[r] \in {"find", "remove", "delete"}
    /\ context[r].seen.linked # NoEntry =>
        /\ context[r].seen.linked \in Entries
        /\ entry[context[r].seen.linked].status # "none"
        /\ t \notin cut /\ stage[r] = "delete" => context[r].seen.linked \notin Posted
DeletedInv(t) ==
    t \notin cut /\ txn[t].deleted /\ txn[t].linked # NoEntry => txn[t].linked \notin Posted

PayrollInv ==
    /\ PayrollTypeOK
    /\ EntriesInv
    /\ \A r \in Handlers : HandlerInv(r)
    /\ \A t \in Transactions \ overtaken :
          PostingInv(t) /\ DeletedInv(t) /\ \A r \in Handlers : DeleterInv(t, r)

-----------------------------------------------------------------------------
LEMMA NoneTyped ==
    /\ NoPosting \in Posting /\ NoRow \in Transaction /\ NoContext \in Context
    /\ NoContext.txn = NoTransaction
<1>1. NoPosting \in Posting
    BY DEF NoPosting, Posting
<1>2. NoRow \in Transaction
    BY <1>1 DEF NoRow, Transaction
<1> QED
    BY <1>1, <1>2 DEF NoContext, Context

\* What Enter writes.
LEMMA Entered ==
    ASSUME PayrollTypeOK, NEW r \in Handlers, NEW step \in Stages, Enter(r, step)
    PROVE  /\ stage' \in [Handlers -> Stages] /\ stage'[r] = step
           /\ \A q \in Handlers \ {r} : stage'[q] = stage[q]
    BY DEF Enter, PayrollTypeOK

LEMMA Begun ==
    ASSUME PayrollTypeOK, NEW r \in Handlers, NEW step \in Stages, NEW given \in Context,
           Begin(r, step, given)
    PROVE  /\ stage[r] = "idle"
           /\ stage' \in [Handlers -> Stages] /\ context' \in [Handlers -> Context]
           /\ stage'[r] = step /\ context'[r] = given
           /\ \A q \in Handlers \ {r} : stage'[q] = stage[q] /\ context'[q] = context[q]
    BY Entered DEF Begin, PayrollTypeOK

\* A handler's step keeps the invariant when the handler does, the entries are not
\* brought back, and the invariant holds of the transactions that are written or posted.
LEMMA StepKeeps ==
    ASSUME PayrollInv, PayrollTypeOK', NEW r \in Handlers, NEW Written \in SUBSET Transactions,
           \A q \in Handlers \ {r} : stage'[q] = stage[q] /\ context'[q] = context[q],
           cut \subseteq cut', overtaken \subseteq overtaken',
           \A e \in Entries : entry[e].status # "none" =>
               entry'[e].status # "none" /\ (e \in Posted' => e \in Posted),
           EntriesInv', HandlerInv(r)',
           \A t \in Transactions \ overtaken' : DeleterInv(t, r)',
           \A t \in Transactions \ Written :
               /\ txn'[t] = txn[t] /\ EntriesOf(t)' = EntriesOf(t)
               /\ r \in Posters(t)' => /\ r \in Posters(t) /\ context'[r].entry = context[r].entry
                                       /\ stage'[r] = "link" <=> stage[r] = "link"
               /\ r \in Posters(t) => r \in Posters(t)' \/ t \in cut',
           \A t \in Written \ overtaken' : PostingInv(t)' /\ DeletedInv(t)'
    PROVE  PayrollInv'
<1>1. ASSUME NEW q \in Handlers PROVE HandlerInv(q)'
    <2>1. CASE q # r
        <3>1. HandlerInv(q) /\ stage'[q] = stage[q] /\ context'[q] = context[q]
            BY <2>1 DEF PayrollInv
        <3> QED
            BY <3>1 DEF HandlerInv, ForSalary
    <2> QED
        BY <2>1
<1>2. ASSUME NEW t \in Transactions \ overtaken', NEW q \in Handlers PROVE DeleterInv(t, q)'
    <2>1. CASE q # r
        <3>1. DeleterInv(t, q) /\ stage'[q] = stage[q] /\ context'[q] = context[q]
            BY <2>1 DEF PayrollInv
        <3> QED
            BY <3>1 DEF DeleterInv
    <2> QED
        BY <2>1
<1>3. ASSUME NEW t \in Transactions \ overtaken', t \notin Written
      PROVE  PostingInv(t)' /\ DeletedInv(t)'
    <2>1. PostingInv(t) /\ DeletedInv(t) /\ txn'[t] = txn[t] /\ EntriesOf(t)' = EntriesOf(t)
        BY <1>3 DEF PayrollInv
    <2>2. ASSUME NEW q \in Handlers
          PROVE  /\ q \in Posters(t)' =>
                     /\ q \in Posters(t) /\ context'[q].entry = context[q].entry
                     /\ stage'[q] = "link" <=> stage[q] = "link"
                 /\ q \in Posters(t) => q \in Posters(t)' \/ t \in cut'
        <3>1. CASE q # r
            <4>1. stage'[q] = stage[q] /\ context'[q] = context[q]
                BY <3>1
            <4> QED
                BY <4>1 DEF Posters
        <3>2. CASE q = r
            BY <1>3, <3>2
        <3> QED
            BY <3>1, <3>2
    <2>3. /\ Posters(t) \subseteq Handlers /\ Posters(t)' \subseteq Posters(t)
          /\ t \notin cut' => Posters(t) \subseteq Posters(t)'
        BY <2>2 DEF Posters
    <2>4. \A q \in Posters(t)' : context'[q].entry = context[q].entry
                                 /\ (stage'[q] = "link" <=> stage[q] = "link")
                                 /\ stage[q] \in {"check", "post", "link"}
                                 /\ stage'[q] \in {"check", "post", "link"}
        BY <2>2, <2>3 DEF Posters
    <2>5. PostingInv(t)'
        <3>1. \A q \in Posters(t)' : /\ txn'[t].linked = NoEntry
                                     /\ stage'[q] \in {"check", "post"} => EntriesOf(t)' = {}
                                     /\ stage'[q] = "link" => EntriesOf(t)' = {context'[q].entry}
            BY <2>1, <2>3, <2>4 DEF PostingInv
        <3> QED
            BY <2>1, <2>3, <3>1 DEF PostingInv
    <2>6. DeletedInv(t)'
        <3> SUFFICES ASSUME t \notin cut', txn[t].deleted, txn[t].linked # NoEntry
                     PROVE  txn[t].linked \notin Posted'
            BY <2>1 DEF DeletedInv
        <3>1. txn[t].linked \notin Posted
            BY <2>1 DEF DeletedInv
        <3>2. txn[t].linked \in EntriesOf(t)
            BY <2>1 DEF PostingInv
        <3>3. txn[t].linked \in Entries /\ entry[txn[t].linked].status # "none"
            BY <3>2, SalaryAssumption DEF EntriesOf, PayrollInv, EntriesInv
        <3> QED
            BY <3>1, <3>3
    <2> QED
        BY <2>5, <2>6
<1>4. \A t \in Transactions \ overtaken' : PostingInv(t)' /\ DeletedInv(t)'
    BY <1>3
<1> QED
    BY <1>1, <1>2, <1>4 DEF PayrollInv

\* A step that writes neither entries nor transactions.
LEMMA ReadKeeps ==
    ASSUME PayrollInv, PayrollTypeOK', NEW r \in Handlers,
           \A q \in Handlers \ {r} : stage'[q] = stage[q] /\ context'[q] = context[q],
           cut \subseteq cut', UNCHANGED <<entry, txn, postedBy, overtaken>>,
           HandlerInv(r)', \A t \in Transactions \ overtaken : DeleterInv(t, r)',
           \A t \in Transactions :
               /\ r \in Posters(t)' => /\ r \in Posters(t) /\ context'[r].entry = context[r].entry
                                       /\ stage'[r] = "link" <=> stage[r] = "link"
               /\ r \in Posters(t) => r \in Posters(t)' \/ t \in cut'
    PROVE  PayrollInv'
<1>1. Posted' = Posted /\ \A t \in Transactions : EntriesOf(t)' = EntriesOf(t)
    BY DEF Posted, EntriesOf
<1>2. EntriesInv'
    BY DEF PayrollInv, EntriesInv
<1>3. \A t \in Transactions \ {} :
        /\ txn'[t] = txn[t] /\ EntriesOf(t)' = EntriesOf(t)
        /\ r \in Posters(t)' => /\ r \in Posters(t) /\ context'[r].entry = context[r].entry
                                /\ stage'[r] = "link" <=> stage[r] = "link"
        /\ r \in Posters(t) => r \in Posters(t)' \/ t \in cut'
    BY <1>1
<1>4. \A t \in Transactions \ overtaken' : DeleterInv(t, r)'
    OBVIOUS
<1>5. \A e \in Entries : entry[e].status # "none" =>
        entry'[e].status # "none" /\ (e \in Posted' => e \in Posted)
    BY <1>1
<1>6. overtaken \subseteq overtaken' /\ {} \in SUBSET Transactions
    OBVIOUS
<1> QED
    BY <1>2, <1>3, <1>4, <1>5, <1>6, StepKeeps

\* A handler begins, and posts nothing yet.
LEMMA BeginKeeps ==
    ASSUME PayrollInv, NEW r \in Handlers, NEW step \in Stages, NEW given \in Context,
           Begin(r, step, given), UNCHANGED <<ledger, salary, cut>>,
           given.txn = NoTransaction \/ step \in {"process", "find", "delete"},
           step \in {"process", "link", "delete"} => given.txn # NoTransaction,
           step \in {"find", "remove", "link"} => given.entry \in Entries,
           given.txn # NoTransaction =>
               /\ step = "process" => given.seen.status = "PENDING" /\ ~given.seen.deleted
               /\ step \in {"find", "delete"} =>
                     given.entry = given.seen.linked /\ ~given.seen.deleted
               /\ step \in {"find", "delete"} /\ given.seen.linked # NoEntry
                     /\ given.txn \notin overtaken =>
                        /\ step = "find" /\ given.seen.linked \in Entries
                        /\ entry[given.seen.linked].status # "none"
    PROVE  PayrollInv'
<1>1. /\ stage[r] = "idle"
      /\ stage' \in [Handlers -> Stages] /\ context' \in [Handlers -> Context]
      /\ stage'[r] = step /\ context'[r] = given
      /\ \A q \in Handlers \ {r} : stage'[q] = stage[q] /\ context'[q] = context[q]
    BY Begun DEF PayrollInv
<1>2. UNCHANGED <<balance, enabled, entry, twice, txn, postedBy, overtaken, cut>>
    BY DEF ledger, salary
<1>3. PayrollTypeOK'
    BY <1>1, <1>2 DEF PayrollInv, PayrollTypeOK, LedgerTypeOK
<1>4. HandlerInv(r)'
    BY <1>1 DEF HandlerInv, ForSalary
<1>5. ASSUME NEW t \in Transactions \ overtaken PROVE DeleterInv(t, r)'
    <2>1. given.txn = t => given.txn # NoTransaction
        BY SalaryAssumption
    <2> QED
        BY <1>1, <1>2, <2>1 DEF DeleterInv
<1>6. \A t \in Transactions : r \notin Posters(t) /\ r \notin Posters(t)'
    BY <1>1, SalaryAssumption DEF Posters
<1> QED
    BY <1>1, <1>2, <1>3, <1>4, <1>5, <1>6, ReadKeeps

LEMMA CreateKeeps ==
    ASSUME PayrollInv, NEW r \in Handlers, NEW p \in Postable, Create(r, p) PROVE PayrollInv'
<1> DEFINE given == [NoContext EXCEPT !.posting = p]
<1>1. given \in Context /\ given.txn = NoTransaction
    BY NoneTyped DEF Context, NoContext, Postable
<1>2. Begin(r, "check", given) /\ UNCHANGED <<ledger, salary, cut>>
    BY DEF Create
<1> HIDE DEF given
<1>3. "check" \in Stages
    BY DEF Stages
<1> QED
    BY <1>1, <1>2, <1>3, BeginKeeps

LEMMA RemoveByHandKeeps ==
    ASSUME PayrollInv, NEW r \in Handlers, NEW e \in Entries, RemoveByHand(r, e) PROVE PayrollInv'
<1> DEFINE given == [NoContext EXCEPT !.entry = e]
<1>1. given \in Context /\ given.txn = NoTransaction /\ given.entry = e
    BY NoneTyped DEF Context, NoContext
<1>2. Begin(r, "find", given) /\ UNCHANGED <<ledger, salary, cut>>
    BY DEF RemoveByHand
<1> HIDE DEF given
<1>3. "find" \in Stages
    BY DEF Stages
<1> QED
    BY <1>1, <1>2, <1>3, BeginKeeps

LEMMA ProcessKeeps ==
    ASSUME PayrollInv, NEW r \in Handlers, NEW t \in Transactions, Process(r, t) PROVE PayrollInv'
<1> DEFINE given == [NoContext EXCEPT !.txn = t, !.seen = txn[t]]
<1>1. given \in Context /\ given.txn = t /\ given.seen = txn[t]
    BY NoneTyped DEF Context, NoContext, PayrollInv, PayrollTypeOK
<1>2. /\ Begin(r, "process", given) /\ UNCHANGED <<ledger, salary, cut>>
      /\ txn[t].status = "PENDING" /\ ~txn[t].deleted
    BY DEF Process, MayProcess
<1> HIDE DEF given
<1>3. "process" \in Stages /\ t # NoTransaction
    BY SalaryAssumption DEF Stages
<1> QED
    BY <1>1, <1>2, <1>3, BeginKeeps

LEMMA DeleteKeeps ==
    ASSUME PayrollInv, NEW r \in Handlers, NEW t \in Transactions, Delete(r, t) PROVE PayrollInv'
<1> DEFINE given == [NoContext EXCEPT !.txn = t, !.seen = txn[t], !.entry = txn[t].linked]
           step == IF Reversible(t) THEN "find" ELSE "delete"
<1>1. txn[t] \in Transaction
    BY DEF PayrollInv, PayrollTypeOK
<1>2. given \in Context /\ given.txn = t /\ given.seen = txn[t] /\ given.entry = txn[t].linked
    BY <1>1, NoneTyped DEF Context, NoContext, Transaction
<1>3. /\ Begin(r, step, given) /\ UNCHANGED <<ledger, salary, cut>> /\ ~txn[t].deleted
    BY DEF Delete
<1> HIDE DEF given
<1>4. /\ step \in {"find", "delete"} /\ step \in Stages /\ t # NoTransaction
      /\ step = "find" => txn[t].linked \in Entries
    BY <1>1, SalaryAssumption DEF Stages, Reversible, Transaction
<1>5. txn[t].linked # NoEntry /\ t \notin overtaken =>
        step = "find" /\ txn[t].linked \in Entries /\ entry[txn[t].linked].status # "none"
    <2> SUFFICES ASSUME txn[t].linked # NoEntry, t \notin overtaken
                 PROVE  /\ step = "find" /\ txn[t].linked \in Entries
                        /\ entry[txn[t].linked].status # "none"
        OBVIOUS
    <2>1. txn[t].status = "PROCESSED" /\ txn[t].linked \in EntriesOf(t)
        BY DEF PayrollInv, PostingInv
    <2> QED
        BY <2>1, SalaryAssumption DEF Reversible, EntriesOf, PayrollInv, EntriesInv
<1> HIDE DEF step
<1> QED
    BY <1>2, <1>3, <1>4, <1>5, BeginKeeps

\* A handler goes on: nothing is written.
LEMMA GoOnKeeps ==
    ASSUME PayrollInv, NEW r \in Handlers, NEW step \in Stages, Enter(r, step),
           UNCHANGED <<ledger, context, salary>>, UNCHANGED cut \/ Fails(r),
           \/ stage[r] = "check" /\ step = "post"
           \/ stage[r] = "find" /\ step = "remove"
           \/ /\ stage[r] \in {"find", "remove"} /\ step = "delete" /\ ForSalary(r)
              /\ Fails(r) \/ context[r].entry \notin Posted
           \/ /\ step = "done"
              /\ Fails(r) \/ stage[r] \in {"find", "remove"}
    PROVE  PayrollInv'
<1> PICK mine : mine = context[r]
    OBVIOUS
<1>1. /\ stage' \in [Handlers -> Stages] /\ stage'[r] = step
      /\ \A q \in Handlers \ {r} : stage'[q] = stage[q]
    BY Entered DEF PayrollInv
<1>2. UNCHANGED <<balance, enabled, entry, twice, context, txn, postedBy, overtaken>>
    BY DEF ledger, salary
<1>3. mine \in Context /\ cut \subseteq Transactions
    BY DEF PayrollInv, PayrollTypeOK
<1>4. cut \subseteq cut' /\ cut' \subseteq Transactions
    BY <1>3, SalaryAssumption DEF Fails, ForSalary, Context
<1>5. PayrollTypeOK'
    BY <1>1, <1>2, <1>4 DEF PayrollInv, PayrollTypeOK, LedgerTypeOK
<1>6. HandlerInv(r)'
    BY <1>1, <1>2 DEF PayrollInv, HandlerInv, ForSalary
<1>7. \A t \in Transactions : mine.txn = t /\ Fails(r) => t \in cut'
    BY SalaryAssumption DEF Fails, ForSalary
<1>8. ASSUME NEW t \in Transactions \ overtaken PROVE DeleterInv(t, r)'
    <2>1. DeleterInv(t, r) /\ HandlerInv(r) /\ Posted' = Posted
        BY <1>2 DEF PayrollInv, Posted
    <2> SUFFICES ASSUME mine.txn = t, stage'[r] \in {"find", "remove", "delete"},
                        mine.seen.linked # NoEntry
                 PROVE  /\ mine.seen.linked \in Entries /\ entry[mine.seen.linked].status # "none"
                        /\ t \notin cut' /\ stage'[r] = "delete" => mine.seen.linked \notin Posted
        BY <1>2, <2>1 DEF DeleterInv
    <2>2. stage[r] \in {"find", "remove"} /\ ForSalary(r)
        BY <1>1, <1>2, SalaryAssumption DEF ForSalary
    <2>3. mine.entry = mine.seen.linked
        BY <2>1, <2>2 DEF HandlerInv
    <2> QED
        BY <1>1, <1>7, <2>1, <2>2, <2>3 DEF DeleterInv
<1>9. ASSUME NEW t \in Transactions
      PROVE  /\ r \in Posters(t)' => /\ r \in Posters(t) /\ context'[r].entry = context[r].entry
                                     /\ stage'[r] = "link" <=> stage[r] = "link"
             /\ r \in Posters(t) => r \in Posters(t)' \/ t \in cut'
    BY <1>1, <1>2, <1>7 DEF Posters
<1>10. \A q \in Handlers \ {r} : stage'[q] = stage[q] /\ context'[q] = context[q]
    BY <1>1, <1>2
<1> QED
    BY <1>2, <1>4, <1>5, <1>6, <1>8, <1>9, <1>10, ReadKeeps

LEMMA CheckKeeps == ASSUME PayrollInv, NEW r \in Handlers, Check(r) PROVE PayrollInv'
<1> DEFINE step == IF MayPost(r) THEN "post" ELSE "done"
<1>1. step \in Stages /\ step \in {"post", "done"} /\ stage[r] = "check"
    BY DEF Stages, Check, At
<1>2. /\ Enter(r, step) /\ UNCHANGED <<ledger, context, salary>>
      /\ (UNCHANGED cut /\ step = "post") \/ (Fails(r) /\ step = "done")
    BY DEF Check, At
<1> HIDE DEF step
<1> QED
    BY <1>1, <1>2, GoOnKeeps

LEMMA FindKeeps == ASSUME PayrollInv, NEW r \in Handlers, Find(r) PROVE PayrollInv'
<1> DEFINE step == IF context[r].entry \in Posted THEN "remove"
                   ELSE IF ForSalary(r) THEN "delete" ELSE "done"
<1>1. /\ step \in Stages /\ stage[r] = "find"
      /\ \/ step = "remove"
         \/ step = "delete" /\ ForSalary(r) /\ context[r].entry \notin Posted
         \/ step = "done"
    BY DEF Stages, Find, At
<1>2. Enter(r, step) /\ UNCHANGED <<ledger, context, salary>> /\ UNCHANGED cut
    BY DEF Find, At
<1> HIDE DEF step
<1> QED
    BY <1>1, <1>2, GoOnKeeps

LEMMA RemovalFailsKeeps ==
    ASSUME PayrollInv, NEW r \in Handlers, RemovalFails(r) PROVE PayrollInv'
<1>1. "delete" \in Stages
    BY DEF Stages
<1>2. /\ stage[r] \in {"find", "remove"} /\ ForSalary(r) /\ Enter(r, "delete") /\ Fails(r)
      /\ UNCHANGED <<ledger, context, salary>>
    BY DEF RemovalFails
<1> QED
    BY <1>1, <1>2, GoOnKeeps

LEMMA DiesKeeps == ASSUME PayrollInv, NEW r \in Handlers, Dies(r) PROVE PayrollInv'
<1>1. "done" \in Stages
    BY DEF Stages
<1>2. Enter(r, "done") /\ Fails(r) /\ UNCHANGED <<ledger, context, salary>>
    BY DEF Dies
<1> QED
    BY <1>1, <1>2, GoOnKeeps

\* An account is enabled or disabled, or nothing happens.
LEMMA SwitchKeeps ==
    ASSUME PayrollInv, (\E a \in Accounts : Switch(a)) \/ UNCHANGED payrollVars
    PROVE  PayrollInv'
<1>1. /\ enabled' \subseteq Accounts
      /\ UNCHANGED <<balance, entry, twice, stage, context, txn, postedBy, overtaken, cut>>
    BY DEF Switch, SwitchAccount, PayrollInv, PayrollTypeOK, LedgerTypeOK, salary, payrollVars,
           ledger
<1>2. PayrollTypeOK'
    BY <1>1 DEF PayrollInv, PayrollTypeOK, LedgerTypeOK
<1>3. EntriesInv' /\ \A r \in Handlers : HandlerInv(r)'
    BY <1>1 DEF PayrollInv, EntriesInv, HandlerInv, ForSalary
<1>4. Posted' = Posted /\ \A t : EntriesOf(t)' = EntriesOf(t) /\ Posters(t)' = Posters(t)
    BY <1>1 DEF Posted, EntriesOf, Posters
<1>5. ASSUME NEW t \in Transactions \ overtaken' PROVE PostingInv(t)' /\ DeletedInv(t)'
    BY <1>1, <1>4 DEF PayrollInv, PostingInv, DeletedInv
<1>6. ASSUME NEW t \in Transactions \ overtaken', NEW r \in Handlers PROVE DeleterInv(t, r)'
    BY <1>1, <1>4 DEF PayrollInv, DeleterInv
<1> QED
    BY <1>2, <1>3, <1>5, <1>6 DEF PayrollInv

LEMMA PostKeeps ==
    ASSUME PayrollInv, BalanceInv, NEW r \in Handlers, Post(r)
    PROVE  PayrollInv' /\ BalanceInv'
<1>0. PICK mine, step :
        mine = context[r] /\ step = IF mine.txn # NoTransaction THEN "link" ELSE "done"
    OBVIOUS
<1>1. PICK e \in Entries :
        /\ PostEntry(e, mine.posting) /\ stage[r] = "post"
        /\ context' = [context EXCEPT ![r] = [mine EXCEPT !.entry = e]]
        /\ postedBy' = [postedBy EXCEPT ![e] = mine.txn]
        /\ Enter(r, step) /\ UNCHANGED <<txn, overtaken, cut>>
    BY <1>0 DEF Post, ForSalary
<1>2. step \in Stages /\ mine \in Context /\ LedgerTypeOK
    BY <1>0, <1>1 DEF PayrollInv, PayrollTypeOK, Stages
<1>3. mine.posting \in Posting /\ mine.txn \in Transactions \cup {NoTransaction}
    BY <1>2 DEF Context
<1>4. LedgerTypeOK' /\ BalanceInv'
    BY <1>0, <1>1, <1>2, <1>3, PostEntryBalances
<1>5. /\ stage' \in [Handlers -> Stages] /\ stage'[r] = step
      /\ \A q \in Handlers \ {r} : stage'[q] = stage[q]
    BY <1>0, <1>1, <1>2, Entered DEF PayrollInv
<1>6. /\ context' \in [Handlers -> Context] /\ context'[r] = [mine EXCEPT !.entry = e]
      /\ \A q \in Handlers \ {r} : context'[q] = context[q]
    BY <1>0, <1>1, <1>2 DEF PayrollInv, PayrollTypeOK, Context
<1>7. context'[r].entry = e /\ context'[r].txn = mine.txn /\ context'[r].seen = mine.seen
    BY <1>2, <1>6 DEF Context
<1>8. /\ entry[e].status = "none" /\ entry'[e].status = "posted"
      /\ \A f \in Entries \ {e} : entry'[f] = entry[f]
    BY <1>0, <1>1, <1>2 DEF PostEntry, LedgerTypeOK
<1>9. /\ postedBy' \in [Entries -> Transactions \cup {NoTransaction}] /\ postedBy'[e] = mine.txn
      /\ \A f \in Entries \ {e} : postedBy'[f] = postedBy[f]
    BY <1>0, <1>1, <1>3 DEF PayrollInv, PayrollTypeOK
<1>10. PayrollTypeOK'
    BY <1>0, <1>1, <1>4, <1>5, <1>6, <1>9 DEF PayrollInv, PayrollTypeOK
<1>11. EntriesInv' /\ postedBy[e] = NoTransaction
    BY <1>8, <1>9 DEF PayrollInv, EntriesInv
<1>12. HandlerInv(r)'
    BY <1>0, <1>1, <1>5, <1>7 DEF PayrollInv, HandlerInv, ForSalary
<1>13. \A t \in Transactions \ overtaken' : DeleterInv(t, r)'
    BY <1>0, <1>1, <1>5 DEF DeleterInv
<1>14. \A f \in Entries : entry[f].status # "none" =>
        entry'[f].status # "none" /\ (f \in Posted' => f \in Posted)
    BY <1>8 DEF Posted
<1> DEFINE Written == {t \in Transactions : mine.txn = t}
<1>15. ASSUME NEW t \in Transactions \ Written
       PROVE  /\ txn'[t] = txn[t] /\ EntriesOf(t)' = EntriesOf(t)
              /\ r \in Posters(t)' => /\ r \in Posters(t) /\ context'[r].entry = context[r].entry
                                      /\ stage'[r] = "link" <=> stage[r] = "link"
              /\ r \in Posters(t) => r \in Posters(t)' \/ t \in cut'
    <2>1. t # NoTransaction /\ t # mine.txn
        BY SalaryAssumption
    <2>2. EntriesOf(t)' = EntriesOf(t)
        BY <1>9, <1>11, <2>1 DEF EntriesOf
    <2>3. r \notin Posters(t) /\ r \notin Posters(t)'
        BY <1>0, <1>1, <1>7, <2>1 DEF Posters
    <2> QED
        BY <1>0, <1>1, <2>2, <2>3
<1>16. ASSUME NEW t \in Written \ overtaken' PROVE PostingInv(t)' /\ DeletedInv(t)'
    <2>1. t \in Transactions \ overtaken /\ mine.txn = t /\ step = "link"
        BY <1>0, <1>1, SalaryAssumption
    <2>2. PostingInv(t) /\ r \in Posters(t)
        BY <1>0, <1>1, <2>1 DEF PayrollInv, Posters
    <2>3. /\ txn[t].status = "PROCESSED" /\ txn[t].posting # NoPosting /\ txn[t].linked = NoEntry
          /\ EntriesOf(t) = {} /\ Posters(t) = {r}
        BY <1>0, <1>1, <2>2 DEF PostingInv
    <2>4. EntriesOf(t)' = {e}
        BY <1>9, <2>1, <2>3 DEF EntriesOf
    <2>5. Posters(t)' = {r}
        BY <1>5, <1>6, <1>7, <2>1, <2>3 DEF Posters
    <2>6. txn'[t] = txn[t]
        BY <1>0, <1>1
    <2> QED
        BY <1>5, <1>7, <2>1, <2>3, <2>4, <2>5, <2>6 DEF PostingInv, DeletedInv
<1>17. \A q \in Handlers \ {r} : stage'[q] = stage[q] /\ context'[q] = context[q]
    BY <1>5, <1>6
<1>18. cut \subseteq cut' /\ overtaken \subseteq overtaken' /\ Written \in SUBSET Transactions
    BY <1>0, <1>1
<1> HIDE DEF Written
<1> QED
    BY <1>4, <1>10, <1>11, <1>12, <1>13, <1>14, <1>15, <1>16, <1>17, <1>18, StepKeeps

LEMMA RemoveKeeps ==
    ASSUME PayrollInv, BalanceInv, NEW r \in Handlers, Remove(r)
    PROVE  PayrollInv' /\ BalanceInv'
<1>1. PICK e, step :
        /\ e = context[r].entry /\ RemoveEntry(e) /\ stage[r] = "remove"
        /\ step = IF ForSalary(r) THEN "delete" ELSE "done"
        /\ Enter(r, step) /\ UNCHANGED <<context, txn, postedBy, overtaken, cut>>
    BY DEF Remove, At, salary
<1>2. step \in Stages /\ e \in Entries /\ LedgerTypeOK
    BY <1>1 DEF PayrollInv, PayrollTypeOK, Stages, HandlerInv
<1>3. LedgerTypeOK' /\ BalanceInv'
    BY <1>1, <1>2, RemoveEntryBalances
<1>4. /\ stage' \in [Handlers -> Stages] /\ stage'[r] = step
      /\ \A q \in Handlers \ {r} : stage'[q] = stage[q]
    BY <1>1, <1>2, Entered DEF PayrollInv
<1>5. entry'[e].status = "deleted" /\ \A f \in Entries \ {e} : entry'[f] = entry[f]
    BY <1>1, <1>2 DEF RemoveEntry, LedgerTypeOK, Row
<1>6. PayrollTypeOK'
    BY <1>1, <1>3, <1>4 DEF PayrollInv, PayrollTypeOK
<1>7. EntriesInv'
    BY <1>1, <1>5 DEF PayrollInv, EntriesInv
<1>8. HandlerInv(r)'
    BY <1>1, <1>4 DEF PayrollInv, HandlerInv, ForSalary
<1>9. Posted' = Posted \ {e}
    BY <1>2, <1>5 DEF Posted
<1>10. ASSUME NEW t \in Transactions \ overtaken' PROVE DeleterInv(t, r)'
    <2> SUFFICES ASSUME context[r].txn = t
                 PROVE  /\ context[r].seen.linked \in Entries
                        /\ entry'[context[r].seen.linked].status # "none"
                        /\ context[r].seen.linked \notin Posted'
        BY <1>1 DEF DeleterInv
    <2>1. context[r].seen.linked = e
        BY <1>1, SalaryAssumption DEF PayrollInv, HandlerInv, ForSalary
    <2> QED
        BY <1>2, <1>5, <1>9, <2>1
<1>11. \A f \in Entries : entry[f].status # "none" =>
        entry'[f].status # "none" /\ (f \in Posted' => f \in Posted)
    BY <1>5, <1>9
<1>12. \A t \in Transactions \ {} :
        /\ txn'[t] = txn[t] /\ EntriesOf(t)' = EntriesOf(t)
        /\ r \in Posters(t)' => /\ r \in Posters(t) /\ context'[r].entry = context[r].entry
                                /\ stage'[r] = "link" <=> stage[r] = "link"
        /\ r \in Posters(t) => r \in Posters(t)' \/ t \in cut'
    BY <1>1, <1>4 DEF EntriesOf, Posters
<1>13. \A q \in Handlers \ {r} : stage'[q] = stage[q] /\ context'[q] = context[q]
    BY <1>1, <1>4
<1>14. cut \subseteq cut' /\ overtaken \subseteq overtaken' /\ {} \in SUBSET Transactions
    BY <1>1
<1> QED
    BY <1>3, <1>6, <1>7, <1>8, <1>10, <1>11, <1>12, <1>13, <1>14, StepKeeps

\* A handler writes a row of its transaction: what it relied on is still there, or the
\* transaction is overtaken.
LEMMA WriteKeeps ==
    ASSUME PayrollInv, PayrollTypeOK', NEW r \in Handlers, NEW t \in Transactions,
           NEW relied, NEW row, context[r].txn = t, context'[r].txn = t,
           \A q \in Handlers \ {r} : stage'[q] = stage[q] /\ context'[q] = context[q],
           txn' = [txn EXCEPT ![t] = row], NoteOvertaken(t, relied),
           UNCHANGED <<ledger, postedBy, cut>>,
           HandlerInv(r)', stage'[r] \in {"check", "done"},
           ASSUME t \notin overtaken, PostingInv(t), DeletedInv(t), DeleterInv(t, r),
                  txn[t] = relied, txn'[t] = row
           PROVE  PostingInv(t)' /\ DeletedInv(t)'
    PROVE  PayrollInv'
<1>1. UNCHANGED <<balance, enabled, entry, twice>>
    BY DEF ledger
<1>2. Posted' = Posted /\ \A s : EntriesOf(s)' = EntriesOf(s)
    BY <1>1 DEF Posted, EntriesOf
<1>3. EntriesInv'
    BY <1>1 DEF PayrollInv, EntriesInv
<1>4. \A s \in Transactions \ overtaken' : DeleterInv(s, r)'
    BY DEF DeleterInv
<1>5. txn'[t] = row /\ \A s \in Transactions \ {t} : txn'[s] = txn[s]
    BY DEF PayrollInv, PayrollTypeOK
<1>6. \A s \in Transactions \ {t} :
        /\ txn'[s] = txn[s] /\ EntriesOf(s)' = EntriesOf(s)
        /\ r \in Posters(s)' => /\ r \in Posters(s) /\ context'[r].entry = context[r].entry
                                /\ stage'[r] = "link" <=> stage[r] = "link"
        /\ r \in Posters(s) => r \in Posters(s)' \/ s \in cut'
    BY <1>2, <1>5 DEF Posters
<1>7. ASSUME t \notin overtaken' PROVE PostingInv(t)' /\ DeletedInv(t)'
    <2>1. t \notin overtaken /\ txn[t] = relied
        BY <1>7 DEF NoteOvertaken
    <2>2. PostingInv(t) /\ DeletedInv(t) /\ DeleterInv(t, r)
        BY <2>1 DEF PayrollInv
    <2> QED
        BY <1>5, <2>1, <2>2
<1>8. \A s \in {t} \ overtaken' : PostingInv(s)' /\ DeletedInv(s)'
    BY <1>7
<1>9. \A e \in Entries : entry[e].status # "none" =>
        entry'[e].status # "none" /\ (e \in Posted' => e \in Posted)
    BY <1>1, <1>2
<1>10. cut \subseteq cut' /\ overtaken \subseteq overtaken' /\ {t} \in SUBSET Transactions
    BY DEF NoteOvertaken
<1> QED
    BY <1>3, <1>4, <1>6, <1>8, <1>9, <1>10, StepKeeps

LEMMA MarkProcessedKeeps ==
    ASSUME PayrollInv, NEW r \in Handlers, MarkProcessed(r) PROVE PayrollInv'
<1>0. PICK mine, t, step, row :
        /\ mine = context[r] /\ t = mine.txn /\ row = Processed(t)
        /\ step = IF mine.seen.posting = NoPosting THEN "done" ELSE "check"
    OBVIOUS
<1>1. /\ stage[r] = "process" /\ txn' = [txn EXCEPT ![t] = row]
      /\ NoteOvertaken(t, mine.seen)
      /\ context' = [context EXCEPT ![r] = [mine EXCEPT !.posting = mine.seen.posting]]
      /\ Enter(r, step) /\ UNCHANGED <<ledger, postedBy, cut>>
    BY <1>0 DEF MarkProcessed
<1>2. step \in Stages /\ mine \in Context /\ HandlerInv(r)
    BY <1>0 DEF PayrollInv, PayrollTypeOK, Stages
<1>3. t \in Transactions /\ mine.seen.status = "PENDING" /\ ~mine.seen.deleted
    BY <1>0, <1>1, <1>2 DEF HandlerInv, ForSalary, Context
<1>4. row = [txn[t] EXCEPT !.status = "PROCESSED"] /\ row \in Transaction
    BY <1>0, <1>3 DEF Processed, PayrollInv, PayrollTypeOK, Transaction
<1>5. /\ stage' \in [Handlers -> Stages] /\ stage'[r] = step
      /\ \A q \in Handlers \ {r} : stage'[q] = stage[q]
    BY <1>1, <1>2, Entered DEF PayrollInv
<1>6. /\ context' \in [Handlers -> Context]
      /\ context'[r].txn = t /\ context'[r].seen = mine.seen
      /\ \A q \in Handlers \ {r} : context'[q] = context[q]
    <2>1. [mine EXCEPT !.posting = mine.seen.posting] \in Context
        BY <1>2 DEF Context, Transaction
    <2> QED
        BY <1>0, <1>1, <1>2, <2>1 DEF PayrollInv, PayrollTypeOK, Context
<1>7. PayrollTypeOK'
    BY <1>1, <1>3, <1>4, <1>5, <1>6
       DEF PayrollInv, PayrollTypeOK, LedgerTypeOK, ledger, NoteOvertaken
<1>8. HandlerInv(r)'
    BY <1>0, <1>3, <1>5, <1>6 DEF HandlerInv, ForSalary
<1>9. stage'[r] \in {"check", "done"}
    BY <1>0, <1>5
<1>10. ASSUME t \notin overtaken, PostingInv(t), DeletedInv(t), DeleterInv(t, r),
              txn[t] = mine.seen, txn'[t] = row
       PROVE  PostingInv(t)' /\ DeletedInv(t)'
    <2>1. EntriesOf(t) = {} /\ Posters(t) = {} /\ txn[t].linked = NoEntry
        BY <1>3, <1>10 DEF PostingInv
    <2>2. EntriesOf(t)' = {}
        BY <1>1, <2>1 DEF EntriesOf
    <2>3. /\ row.status = "PROCESSED" /\ row.linked = NoEntry
          /\ row.posting = mine.seen.posting
        BY <1>3, <1>4, <1>10, <2>1 DEF PayrollInv, PayrollTypeOK, Transaction
    <2>4. Posters(t)' = IF mine.seen.posting = NoPosting THEN {} ELSE {r}
        <3>1. \A q \in Handlers \ {r} : q \notin Posters(t)'
            BY <1>5, <1>6, <2>1 DEF Posters
        <3>2. r \in Posters(t)' <=> mine.seen.posting # NoPosting
            BY <1>0, <1>5, <1>6 DEF Posters
        <3>3. Posters(t)' \subseteq Handlers
            BY DEF Posters
        <3> QED
            BY <3>1, <3>2, <3>3
    <2>5. mine.seen.posting # NoPosting => stage'[r] = "check"
        BY <1>0, <1>5
    <2> QED
        BY <1>10, <2>2, <2>3, <2>4, <2>5 DEF PostingInv, DeletedInv
<1>11. \A q \in Handlers \ {r} : stage'[q] = stage[q] /\ context'[q] = context[q]
    BY <1>5, <1>6
<1>12. context[r].txn = t
    BY <1>0
<1> QED
    BY <1>1, <1>3, <1>6, <1>7, <1>8, <1>9, <1>10, <1>11, <1>12, WriteKeeps

LEMMA LinkKeeps == ASSUME PayrollInv, NEW r \in Handlers, Link(r) PROVE PayrollInv'
<1>0. PICK mine, t, row, relied :
        /\ mine = context[r] /\ t = mine.txn /\ row = [txn[t] EXCEPT !.linked = mine.entry]
        /\ relied = [mine.seen EXCEPT !.status = "PROCESSED"]
    OBVIOUS
<1>1. /\ stage[r] = "link" /\ txn' = [txn EXCEPT ![t] = row] /\ NoteOvertaken(t, relied)
      /\ Enter(r, "done") /\ UNCHANGED <<ledger, context, postedBy, cut>>
    BY <1>0 DEF Link, At
<1>2. "done" \in Stages /\ mine \in Context /\ HandlerInv(r)
    BY <1>0 DEF PayrollInv, PayrollTypeOK, Stages
<1>3. t \in Transactions /\ mine.entry \in Entries /\ ~mine.seen.deleted
    BY <1>0, <1>1, <1>2 DEF HandlerInv, ForSalary, Context
<1>4. row \in Transaction
    BY <1>0, <1>3 DEF PayrollInv, PayrollTypeOK, Transaction
<1>5. /\ stage' \in [Handlers -> Stages] /\ stage'[r] = "done"
      /\ \A q \in Handlers \ {r} : stage'[q] = stage[q]
    BY <1>1, <1>2, Entered DEF PayrollInv
<1>6. PayrollTypeOK'
    BY <1>1, <1>3, <1>4, <1>5
       DEF PayrollInv, PayrollTypeOK, LedgerTypeOK, ledger, NoteOvertaken
<1>7. HandlerInv(r)'
    BY <1>5 DEF HandlerInv, ForSalary
<1>8. ASSUME t \notin overtaken, PostingInv(t), DeletedInv(t), DeleterInv(t, r),
             txn[t] = relied, txn'[t] = row
      PROVE  PostingInv(t)' /\ DeletedInv(t)'
    <2>1. r \in Posters(t)
        BY <1>0, <1>1 DEF Posters
    <2>2. /\ EntriesOf(t) = {mine.entry} /\ Posters(t) = {r} /\ txn[t].posting # NoPosting
          /\ txn[t].status = "PROCESSED"
        BY <1>0, <1>1, <1>8, <2>1 DEF PostingInv
    <2>3. EntriesOf(t)' = {mine.entry}
        BY <1>1, <2>2 DEF EntriesOf
    <2>4. Posters(t)' = {}
        BY <1>1, <1>5, <2>2 DEF Posters
    <2>5. txn[t] \in Transaction /\ ~txn[t].deleted
        BY <1>0, <1>2, <1>3, <1>8 DEF PayrollInv, PayrollTypeOK, Context, Transaction
    <2>6. /\ row.status = "PROCESSED" /\ row.linked = mine.entry /\ ~row.deleted
          /\ row.posting # NoPosting /\ mine.entry # NoEntry
        BY <1>0, <1>3, <2>2, <2>5, LedgerAssumption DEF Transaction
    <2> QED
        BY <1>8, <2>3, <2>4, <2>6 DEF PostingInv, DeletedInv
<1>9. \A q \in Handlers \ {r} : stage'[q] = stage[q] /\ context'[q] = context[q]
    BY <1>1, <1>5
<1>10. context[r].txn = t /\ context'[r].txn = t /\ stage'[r] \in {"check", "done"}
    BY <1>0, <1>1, <1>5
<1> QED
    BY <1>1, <1>3, <1>6, <1>7, <1>8, <1>9, <1>10, WriteKeeps

LEMMA SoftDeleteKeeps == ASSUME PayrollInv, NEW r \in Handlers, SoftDelete(r) PROVE PayrollInv'
<1>0. PICK mine, t, row :
        mine = context[r] /\ t = mine.txn /\ row = [txn[t] EXCEPT !.deleted = TRUE]
    OBVIOUS
<1>1. /\ stage[r] = "delete" /\ txn' = [txn EXCEPT ![t] = row] /\ NoteOvertaken(t, mine.seen)
      /\ Enter(r, "done") /\ UNCHANGED <<ledger, context, postedBy, cut>>
    BY <1>0 DEF SoftDelete, At
<1>2. "done" \in Stages /\ mine \in Context /\ HandlerInv(r)
    BY <1>0 DEF PayrollInv, PayrollTypeOK, Stages
<1>3. t \in Transactions /\ mine.entry = mine.seen.linked
    BY <1>0, <1>1, <1>2 DEF HandlerInv, ForSalary, Context
<1>4. row \in Transaction /\ txn[t] \in Transaction
    BY <1>0, <1>3 DEF PayrollInv, PayrollTypeOK, Transaction
<1>5. /\ stage' \in [Handlers -> Stages] /\ stage'[r] = "done"
      /\ \A q \in Handlers \ {r} : stage'[q] = stage[q]
    BY <1>1, <1>2, Entered DEF PayrollInv
<1>6. PayrollTypeOK'
    BY <1>1, <1>3, <1>4, <1>5
       DEF PayrollInv, PayrollTypeOK, LedgerTypeOK, ledger, NoteOvertaken
<1>7. HandlerInv(r)'
    BY <1>5 DEF HandlerInv, ForSalary
<1>8. ASSUME t \notin overtaken, PostingInv(t), DeletedInv(t), DeleterInv(t, r),
             txn[t] = mine.seen, txn'[t] = row
      PROVE  PostingInv(t)' /\ DeletedInv(t)'
    <2>1. EntriesOf(t)' = EntriesOf(t) /\ Posted' = Posted
        BY <1>1 DEF EntriesOf, Posted, ledger
    <2>2. Posters(t)' = Posters(t)
        BY <1>1, <1>5 DEF Posters
    <2>3. /\ row.status = txn[t].status /\ row.posting = txn[t].posting
          /\ row.linked = txn[t].linked
        BY <1>0, <1>4 DEF Transaction
    <2>4. \A q \in Posters(t) : stage'[q] = stage[q] /\ context'[q] = context[q]
        BY <1>1, <1>5 DEF Posters
    <2>5. PostingInv(t)'
        BY <1>1, <1>8, <2>1, <2>2, <2>3, <2>4 DEF PostingInv
    <2>6. t \notin cut /\ txn[t].linked # NoEntry => txn[t].linked \notin Posted
        BY <1>0, <1>1, <1>8 DEF DeleterInv
    <2>7. DeletedInv(t)'
        BY <1>1, <1>8, <2>1, <2>3, <2>6 DEF DeletedInv
    <2> QED
        BY <2>5, <2>7
<1>9. \A q \in Handlers \ {r} : stage'[q] = stage[q] /\ context'[q] = context[q]
    BY <1>1, <1>5
<1>10. context[r].txn = t /\ context'[r].txn = t /\ stage'[r] \in {"check", "done"}
    BY <1>0, <1>1, <1>5
<1> QED
    BY <1>1, <1>3, <1>6, <1>7, <1>8, <1>9, <1>10, WriteKeeps

LEMMA CreateTransactionKeeps ==
    ASSUME PayrollInv, NEW t \in Transactions, NEW p \in Posting, CreateTransaction(t, p)
    PROVE  PayrollInv'
<1>0. PICK row : row = [txn[t] EXCEPT !.status = "PENDING", !.posting = p]
    OBVIOUS
<1>1. /\ txn[t] = NoRow /\ txn' = [txn EXCEPT ![t] = row]
      /\ UNCHANGED <<balance, enabled, entry, twice, stage, context, postedBy, overtaken, cut>>
    BY <1>0 DEF CreateTransaction, ledger
<1>2. /\ row \in Transaction /\ row.status = "PENDING" /\ ~row.deleted /\ row.linked = NoEntry
      /\ txn[t].status = "none"
    <2>1. row = [status |-> "PENDING", deleted |-> FALSE, posting |-> p, linked |-> NoEntry]
        <3>1. row = [NoRow EXCEPT !.status = "PENDING", !.posting = p]
            BY <1>0, <1>1, Zenon
        <3> QED
            BY <3>1 DEF NoRow
    <2>2. row \in Transaction
        BY <2>1 DEF Transaction
    <2> QED
        BY <1>1, <2>1, <2>2 DEF NoRow
<1>3. txn'[t] = row /\ \A s \in Transactions \ {t} : txn'[s] = txn[s]
    BY <1>1 DEF PayrollInv, PayrollTypeOK
<1>4. PayrollTypeOK'
    BY <1>1, <1>2 DEF PayrollInv, PayrollTypeOK, LedgerTypeOK
<1>5. EntriesInv' /\ \A r \in Handlers : HandlerInv(r)'
    BY <1>1 DEF PayrollInv, EntriesInv, HandlerInv, ForSalary
<1>6. Posted' = Posted /\ \A s : EntriesOf(s)' = EntriesOf(s) /\ Posters(s)' = Posters(s)
    BY <1>1 DEF Posted, EntriesOf, Posters
<1>7. ASSUME NEW s \in Transactions \ overtaken' PROVE PostingInv(s)' /\ DeletedInv(s)'
    <2>1. PostingInv(s) /\ DeletedInv(s)
        BY <1>1 DEF PayrollInv
    <2>2. CASE s # t
        BY <1>1, <1>3, <1>6, <2>1, <2>2 DEF PostingInv, DeletedInv
    <2>3. CASE s = t
        <3>1. EntriesOf(t) = {} /\ Posters(t) = {}
            BY <1>2, <2>1, <2>3 DEF PostingInv
        <3> QED
            BY <1>2, <1>3, <1>6, <2>3, <3>1 DEF PostingInv, DeletedInv
    <2> QED
        BY <2>2, <2>3
<1>8. ASSUME NEW s \in Transactions \ overtaken', NEW r \in Handlers PROVE DeleterInv(s, r)'
    BY <1>1, <1>6 DEF PayrollInv, DeleterInv
<1> QED
    BY <1>4, <1>5, <1>7, <1>8 DEF PayrollInv

LEMMA InitPayroll == PayrollInit => PayrollInv /\ BalanceInv
<1> SUFFICES ASSUME PayrollInit PROVE PayrollInv /\ BalanceInv
    OBVIOUS
<1>1. \A e \in Entries : entry[e] \in Row /\ entry[e].status = "none"
    BY NoneTyped DEF PayrollInit, LedgerInit, Row
<1>2. Posted = {}
    BY <1>1 DEF Posted
<1>3. LedgerTypeOK
    BY <1>1 DEF PayrollInit, LedgerInit, LedgerTypeOK
<1>4. PayrollTypeOK
    BY <1>3, NoneTyped DEF PayrollInit, PayrollTypeOK, Stages
<1>5. EntriesInv
    BY DEF PayrollInit, EntriesInv
<1>6. \A r \in Handlers : stage[r] = "idle" /\ ~ForSalary(r)
    BY NoneTyped DEF PayrollInit, ForSalary
<1>7. \A r \in Handlers : HandlerInv(r) /\ \A t \in Transactions : DeleterInv(t, r)
    BY <1>6 DEF HandlerInv, DeleterInv
<1>8. ASSUME NEW t \in Transactions PROVE PostingInv(t) /\ DeletedInv(t)
    <2>1. EntriesOf(t) = {}
        BY SalaryAssumption DEF PayrollInit, EntriesOf
    <2>2. Posters(t) = {}
        BY <1>6 DEF Posters
    <2>3. txn[t].status = "none" /\ txn[t].linked = NoEntry
        BY DEF PayrollInit, NoRow
    <2> QED
        BY <2>1, <2>2, <2>3 DEF PostingInv, DeletedInv
<1>9. ASSUME NEW a \in Accounts PROVE balance[a] = SumOver(Effects(a), Posted)
    BY <1>2, SumOverEmpty DEF PayrollInit, LedgerInit
<1> QED
    BY <1>4, <1>5, <1>7, <1>8, <1>9 DEF PayrollInv, BalanceInv

LEMMA StepPayroll ==
    PayrollInv /\ BalanceInv /\ [PayrollNext]_payrollVars => PayrollInv' /\ BalanceInv'
<1> SUFFICES ASSUME PayrollInv, BalanceInv, [PayrollNext]_payrollVars
             PROVE  PayrollInv' /\ BalanceInv'
    OBVIOUS
<1>1. ASSUME NEW r \in Handlers, NEW p \in Postable, Create(r, p) PROVE PayrollInv' /\ BalanceInv'
    BY <1>1, CreateKeeps, BalancesKept DEF Create, ledger
<1>2. ASSUME NEW r \in Handlers, NEW e \in Entries, RemoveByHand(r, e)
      PROVE  PayrollInv' /\ BalanceInv'
    BY <1>2, RemoveByHandKeeps, BalancesKept DEF RemoveByHand, ledger
<1>3. ASSUME NEW r \in Handlers, NEW t \in Transactions, Process(r, t)
      PROVE  PayrollInv' /\ BalanceInv'
    BY <1>3, ProcessKeeps, BalancesKept DEF Process, ledger
<1>4. ASSUME NEW r \in Handlers, NEW t \in Transactions, Delete(r, t)
      PROVE  PayrollInv' /\ BalanceInv'
    BY <1>4, DeleteKeeps, BalancesKept DEF Delete, ledger
<1>5. ASSUME NEW r \in Handlers, Check(r) PROVE PayrollInv' /\ BalanceInv'
    BY <1>5, CheckKeeps, BalancesKept DEF Check, ledger
<1>6. ASSUME NEW r \in Handlers, Post(r) PROVE PayrollInv' /\ BalanceInv'
    BY <1>6, PostKeeps
<1>7. ASSUME NEW r \in Handlers, Find(r) PROVE PayrollInv' /\ BalanceInv'
    BY <1>7, FindKeeps, BalancesKept DEF Find, ledger
<1>8. ASSUME NEW r \in Handlers, Remove(r) PROVE PayrollInv' /\ BalanceInv'
    BY <1>8, RemoveKeeps
<1>9. ASSUME NEW r \in Handlers, RemovalFails(r) PROVE PayrollInv' /\ BalanceInv'
    BY <1>9, RemovalFailsKeeps, BalancesKept DEF RemovalFails, ledger
<1>10. ASSUME NEW r \in Handlers, MarkProcessed(r) PROVE PayrollInv' /\ BalanceInv'
    BY <1>10, MarkProcessedKeeps, BalancesKept DEF MarkProcessed, ledger
<1>11. ASSUME NEW r \in Handlers, Link(r) PROVE PayrollInv' /\ BalanceInv'
    BY <1>11, LinkKeeps, BalancesKept DEF Link, ledger
<1>12. ASSUME NEW r \in Handlers, SoftDelete(r) PROVE PayrollInv' /\ BalanceInv'
    BY <1>12, SoftDeleteKeeps, BalancesKept DEF SoftDelete, ledger
<1>13. ASSUME NEW r \in Handlers, Dies(r) PROVE PayrollInv' /\ BalanceInv'
    BY <1>13, DiesKeeps, BalancesKept DEF Dies, ledger
<1>14. ASSUME NEW t \in Transactions,
              NEW p \in {q \in Postable : q.to = NoAccount} \cup {NoPosting},
              CreateTransaction(t, p)
       PROVE  PayrollInv' /\ BalanceInv'
    <2>1. p \in Posting
        BY NoneTyped DEF Postable
    <2> QED
        BY <1>14, <2>1, CreateTransactionKeeps, BalancesKept DEF CreateTransaction, ledger
<1>15. ASSUME \E a \in Accounts : Switch(a) PROVE PayrollInv' /\ BalanceInv'
    BY <1>15, SwitchKeeps, BalancesKept DEF Switch, SwitchAccount
<1>16. ASSUME UNCHANGED payrollVars PROVE PayrollInv' /\ BalanceInv'
    BY <1>16, SwitchKeeps, BalancesKept DEF payrollVars, ledger
<1> QED
    BY <1>1, <1>2, <1>3, <1>4, <1>5, <1>6, <1>7, <1>8, <1>9, <1>10, <1>11, <1>12, <1>13, <1>14,
       <1>15, <1>16 DEF PayrollNext

\* The inductive invariant of payroll and ledger.
THEOREM PayrollInvariant == PayrollSpec => [](PayrollInv /\ BalanceInv)
    BY InitPayroll, StepPayroll, PTL DEF PayrollSpec

\* Accounts, entries, salary transactions and their handlers keep their types.
THEOREM PayrollTypeCorrect == PayrollSpec => []PayrollTypeOK
<1>1. PayrollInv => PayrollTypeOK
    BY DEF PayrollInv
<1> QED
    BY <1>1, PayrollInvariant, PTL

\* However many requests post to the accounts, remove from them and switch them off at
\* once, current_balance is what the live entries add up to, unless an entry was removed
\* twice: finance.repository.ts moves it in the transaction that writes the entry.
THEOREM BalancesMatchEntries == PayrollSpec => []BalanceMatchesEntries
<1>1. BalanceInv => BalanceMatchesEntries
    BY BalanceIsSum DEF BalanceInv, BalanceMatchesEntries
<1> QED
    BY <1>1, PayrollInvariant, PTL

\* A salary is posted at most once, and payroll and ledger agree on a transaction when its
\* handlers have come to their end; in both cases unless a write of salary.service.ts
\* relied on a row that had changed, in the second unless a handler was cut off.
THEOREM LedgerAgreesWithPayroll == PayrollSpec => []LedgerMatchesPayroll
<1>1. ASSUME PayrollInv PROVE LedgerMatchesPayroll
    <2> SUFFICES ASSUME NEW t \in Transactions \ overtaken
                 PROVE  /\ Cardinality(EntriesOf(t)) <= 1
                        /\ t \notin cut /\ Quiet(t) =>
                            LET live == EntriesOf(t) \cap Posted IN
                            IF txn[t].status = "PROCESSED" /\ ~txn[t].deleted
                                  /\ txn[t].posting # NoPosting
                              THEN txn[t].linked # NoEntry /\ live \subseteq {txn[t].linked}
                              ELSE live = {}
        BY DEF LedgerMatchesPayroll
    <2>1. PostingInv(t) /\ DeletedInv(t)
        BY <1>1 DEF PayrollInv
    <2>2. Cardinality(EntriesOf(t)) <= 1
        <3>1. \A e, f \in EntriesOf(t) : e = f
            BY <2>1 DEF PostingInv
        <3>2. CASE EntriesOf(t) = {}
            <4>1. Cardinality(EntriesOf(t)) = 0
                BY <3>2, FS_EmptySet
            <4> QED
                BY <4>1
        <3>3. CASE EntriesOf(t) # {}
            <4>1. PICK e : EntriesOf(t) = {e}
                BY <3>1, <3>3
            <4>2. Cardinality({e}) = 1
                BY FS_Singleton
            <4> QED
                BY <4>1, <4>2
        <3> QED
            BY <3>2, <3>3
    <2>3. ASSUME t \notin cut, Quiet(t), txn[t].status = "PROCESSED", ~txn[t].deleted,
                 txn[t].posting # NoPosting
          PROVE  txn[t].linked # NoEntry /\ EntriesOf(t) \cap Posted \subseteq {txn[t].linked}
        <3>1. Posters(t) = {}
            BY <2>3 DEF Quiet, Posters
        <3> QED
            BY <2>1, <2>3, <3>1 DEF PostingInv
    <2>4. ASSUME t \notin cut, Quiet(t),
                 \/ txn[t].status # "PROCESSED" \/ txn[t].deleted \/ txn[t].posting = NoPosting
          PROVE  EntriesOf(t) \cap Posted = {}
        <3>1. Posters(t) = {}
            BY <2>4 DEF Quiet, Posters
        <3>2. EntriesOf(t) # {} => txn[t].status = "PROCESSED" /\ txn[t].posting # NoPosting
            BY <2>1 DEF PostingInv
        <3>3. EntriesOf(t) # {} => txn[t].linked # NoEntry /\ EntriesOf(t) = {txn[t].linked}
            BY <2>1, <2>4, <3>1, <3>2 DEF PostingInv
        <3>4. EntriesOf(t) # {} => txn[t].linked \notin Posted
            BY <2>1, <2>4, <3>2, <3>3 DEF DeletedInv
        <3> QED
            BY <3>3, <3>4
    <2> QED
        BY <2>2, <2>3, <2>4
<1> QED
    BY <1>1, PayrollInvariant, PTL
=============================================================================
