---------------------------- MODULE SalaryPosting ----------------------------
(***************************************************************************)
(* Payroll and the ledger: salary.service.ts processes and deletes salary  *)
(* transactions, and finance and salary tell each other by events that are *)
(* awaited one inside the other (finance/events, salary/events).  The      *)
(* same accounts are posted to and cleared by hand at the same time.       *)
(***************************************************************************)
EXTENDS FinanceLedger

CONSTANTS Transactions, NoTransaction

ASSUME SalaryAssumption == NoTransaction \notin Transactions

VARIABLES
    txn,        \* the salary transactions
    postedBy,   \* history: the transaction that posted an entry
    overtaken,  \* history: a write relied on a transaction that had changed
    cut         \* history: a handler of the transaction failed or was cut off

salary == <<txn, postedBy, overtaken>>
payrollVars == <<ledger, stage, context, salary, cut>>

\* posts: an account and a head were chosen; linked: finance_expense_id.
Transaction == [status : {"none", "PENDING", "PROCESSED"}, deleted : BOOLEAN,
                posting : Posting, linked : Entries \cup {NoEntry}]
NoRow == [status |-> "none", deleted |-> FALSE, posting |-> NoPosting, linked |-> NoEntry]
Stages == {"idle", "check", "post", "find", "remove", "process", "link", "delete", "done"}
Context == [posting : Posting, entry : Entries \cup {NoEntry},
            txn : Transactions \cup {NoTransaction}, seen : Transaction]
NoContext == [posting |-> NoPosting, entry |-> NoEntry, txn |-> NoTransaction, seen |-> NoRow]

PayrollInit ==
    /\ LedgerInit
    /\ txn = [t \in Transactions |-> NoRow]
    /\ postedBy = [e \in Entries |-> NoTransaction]
    /\ overtaken = {}
    /\ cut = {}
    /\ stage = [r \in Handlers |-> "idle"]
    /\ context = [r \in Handlers |-> NoContext]

Enter(r, step) == stage' = [stage EXCEPT ![r] = step]
Begin(r, step, given) ==
    /\ stage[r] = "idle"
    /\ Enter(r, step)
    /\ context' = [context EXCEPT ![r] = given]
At(r, step) == stage[r] = step /\ UNCHANGED context
ForSalary(r) == context[r].txn # NoTransaction
NoteOvertaken(t, relied) == overtaken' = IF txn[t] = relied THEN overtaken ELSE overtaken \cup {t}
Fails(r) == cut' = IF ForSalary(r) THEN cut \cup {context[r].txn} ELSE cut

-----------------------------------------------------------------------------
(* The ledger, asked by hand or for a salary transaction.                  *)

Create(r, p) ==
    /\ Begin(r, "check", [NoContext EXCEPT !.posting = p])
    /\ UNCHANGED <<ledger, salary, cut>>

\* An error of createExpense is logged by the listener of TRANSACTION_PROCESSED.
Check(r) ==
    /\ At(r, "check")
    /\ IF MayPost(r) THEN Enter(r, "post") /\ UNCHANGED cut
                     ELSE Enter(r, "done") /\ Fails(r)
    /\ UNCHANGED <<ledger, salary>>

Post(r) ==
    /\ stage[r] = "post"
    /\ \E e \in Entries :
          /\ PostEntry(e, context[r].posting)
          /\ context' = [context EXCEPT ![r] = [@ EXCEPT !.entry = e]]
          /\ postedBy' = [postedBy EXCEPT ![e] = context[r].txn]
    /\ Enter(r, IF ForSalary(r) THEN "link" ELSE "done")
    /\ UNCHANGED <<txn, overtaken, cut>>

RemoveByHand(r, e) ==
    /\ Begin(r, "find", [NoContext EXCEPT !.entry = e])
    /\ UNCHANGED <<ledger, salary, cut>>

\* Not found: an error to the user, or one that the listener of TRANSACTION_VOIDED logs.
Find(r) ==
    /\ At(r, "find")
    /\ Enter(r, IF context[r].entry \in Posted THEN "remove"
                ELSE IF ForSalary(r) THEN "delete" ELSE "done")
    /\ UNCHANGED <<ledger, salary, cut>>

Remove(r) ==
    /\ At(r, "remove")
    /\ RemoveEntry(context[r].entry)
    /\ Enter(r, IF ForSalary(r) THEN "delete" ELSE "done")
    /\ UNCHANGED <<salary, cut>>

\* The listener of TRANSACTION_VOIDED logs every other error too: the deletion goes on.
RemovalFails(r) ==
    /\ stage[r] \in {"find", "remove"} /\ ForSalary(r)
    /\ Enter(r, "delete")
    /\ Fails(r)
    /\ UNCHANGED <<ledger, context, salary>>

Switch(a) == SwitchAccount(a) /\ UNCHANGED <<stage, context, salary, cut>>

-----------------------------------------------------------------------------
(* createTransaction, processTransaction and deleteTransaction.            *)

\* With an account and a head the salary will be posted, without it will not.
CreateTransaction(t, p) ==
    /\ txn[t] = NoRow
    /\ txn' = [txn EXCEPT ![t] = [@ EXCEPT !.status = "PENDING", !.posting = p]]
    /\ UNCHANGED <<ledger, stage, context, postedBy, overtaken, cut>>

Mutant_AnyStatus(t) == txn[t].status # "none" /\ ~txn[t].deleted
MayProcess(t) == txn[t].status = "PENDING" /\ ~txn[t].deleted
Process(r, t) ==
    /\ MayProcess(t)
    /\ Begin(r, "process", [NoContext EXCEPT !.txn = t, !.seen = txn[t]])
    /\ UNCHANGED <<ledger, salary, cut>>

Processed(t) == [txn[t] EXCEPT !.status = "PROCESSED"]
MarkProcessed(r) ==
    LET t == context[r].txn IN
    /\ stage[r] = "process"
    /\ txn' = [txn EXCEPT ![t] = Processed(t)]
    /\ NoteOvertaken(t, context[r].seen)
    /\ context' = [context EXCEPT ![r] = [@ EXCEPT !.posting = context[r].seen.posting]]
    /\ Enter(r, IF context[r].seen.posting = NoPosting THEN "done" ELSE "check")
    /\ UNCHANGED <<ledger, postedBy, cut>>

\* The listener of SALARY_EXPENSE_POSTED writes the id back, whatever the row is now.
Mutant_NotLinked(r) ==
    /\ At(r, "link")
    /\ Enter(r, "done")
    /\ UNCHANGED <<ledger, salary, cut>>
Link(r) ==
    LET t == context[r].txn IN
    /\ At(r, "link")
    /\ txn' = [txn EXCEPT ![t] = [@ EXCEPT !.linked = context[r].entry]]
    /\ NoteOvertaken(t, [context[r].seen EXCEPT !.status = "PROCESSED"])
    /\ Enter(r, "done")
    /\ UNCHANGED <<ledger, postedBy, cut>>

\* The expense of a processed transaction is removed first, if it is linked by now.
Reversible(t) == txn[t].status = "PROCESSED" /\ txn[t].linked # NoEntry
Delete(r, t) ==
    /\ txn[t].status # "none" /\ ~txn[t].deleted
    /\ Begin(r, IF Reversible(t) THEN "find" ELSE "delete",
             [NoContext EXCEPT !.txn = t, !.seen = txn[t], !.entry = txn[t].linked])
    /\ UNCHANGED <<ledger, salary, cut>>

SoftDelete(r) ==
    LET t == context[r].txn IN
    /\ At(r, "delete")
    /\ txn' = [txn EXCEPT ![t] = [@ EXCEPT !.deleted = TRUE]]
    /\ NoteOvertaken(t, context[r].seen)
    /\ Enter(r, "done")
    /\ UNCHANGED <<ledger, postedBy, cut>>

\* The instance stops, or the database does not answer.
Dies(r) ==
    /\ stage[r] \notin {"idle", "done"}
    /\ Enter(r, "done")
    /\ Fails(r)
    /\ UNCHANGED <<ledger, context, salary>>

PayrollNext ==
    \/ \E r \in Handlers :
          \/ \E p \in Postable : Create(r, p)
          \/ \E e \in Entries : RemoveByHand(r, e)
          \/ \E t \in Transactions : Process(r, t) \/ Delete(r, t)
          \/ Check(r) \/ Post(r) \/ Find(r) \/ Remove(r)
          \/ RemovalFails(r) \/ MarkProcessed(r) \/ Link(r) \/ SoftDelete(r) \/ Dies(r)
    \/ \E t \in Transactions, p \in {q \in Postable : q.to = NoAccount} \cup {NoPosting} :
          CreateTransaction(t, p)
    \/ \E a \in Accounts : Switch(a)

PayrollSpec == PayrollInit /\ [][PayrollNext]_payrollVars

-----------------------------------------------------------------------------
(* Properties.                                                             *)

PayrollTypeOK ==
    /\ LedgerTypeOK
    /\ txn \in [Transactions -> Transaction]
    /\ postedBy \in [Entries -> Transactions \cup {NoTransaction}]
    /\ overtaken \subseteq Transactions
    /\ cut \subseteq Transactions
    /\ stage \in [Handlers -> Stages]
    /\ context \in [Handlers -> Context]

EntriesOf(t) == {e \in Entries : postedBy[e] = t}
Quiet(t) == \A r \in Handlers : stage[r] \in {"idle", "done"} \/ context[r].txn # t

\* A salary is posted at most once, however its handlers fail and are repeated, as
\* long as no write relied on a row that another had changed (processTransaction).  And
\* payroll and ledger agree on a transaction that no handler is working on: posted and
\* linked once processed, reversed once deleted; unless a handler was cut off.
LedgerMatchesPayroll ==
    \A t \in Transactions \ overtaken :
        /\ Cardinality(EntriesOf(t)) <= 1
        /\ t \notin cut /\ Quiet(t) =>
            LET live == EntriesOf(t) \cap Posted IN
            IF txn[t].status = "PROCESSED" /\ ~txn[t].deleted /\ txn[t].posting # NoPosting
              THEN txn[t].linked # NoEntry /\ live \subseteq {txn[t].linked}
              ELSE live = {}
=============================================================================
