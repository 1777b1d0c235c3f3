---------------------------- MODULE FinanceLedger ----------------------------
(***************************************************************************)
(* The accounts of a school and the expenses, incomes and transfers posted *)
(* to them (finance.service.ts, finance.repository.ts).                    *)
(*                                                                         *)
(* An entry takes its amount from one account, gives it to one, or both:   *)
(* an expense has no account it goes to, an income none it comes from.     *)
(* The inserts, the soft deletes and the update of current_balance that    *)
(* goes with each are one transaction of the database, and one step here.  *)
(* Reads of an account go through the cache of ReadThroughCache.           *)
(***************************************************************************)
EXTENDS Integers, FiniteSets, FiniteSetsExt

CONSTANTS
    Accounts, Entries, Handlers,
    EntryAmounts,     \* the amounts that are posted
    NoAccount, NoEntry

ASSUME LedgerAssumption ==
    /\ EntryAmounts \subseteq Int
    /\ NoAccount \notin Accounts
    /\ NoEntry \notin Entries
    /\ IsFiniteSet(Entries)

VARIABLES
    balance,        \* current_balance less opening_balance of each account
    enabled,        \* the accounts that are enabled and not deleted
    entry,          \* the rows; an id without a row has status "none"
    stage, context, \* what each request does next and has been given or has read
    twice           \* history: entries that were removed when they already were

ledger == <<balance, enabled, entry, twice>>

Posting == [from : Accounts \cup {NoAccount}, to : Accounts \cup {NoAccount},
            amount : EntryAmounts \cup {0}]
NoPosting == [from |-> NoAccount, to |-> NoAccount, amount |-> 0]
Row == [status : {"none", "posted", "deleted"}, posting : Posting]

\* What the endpoints can be asked to post; a transfer needs two accounts.
Postable ==
    {p \in Posting : p.amount \in EntryAmounts /\ p.from # p.to}

Posted == {e \in Entries : entry[e].status = "posted"}

Move(p, sign) ==
    balance' = [a \in Accounts |->
                   balance[a] + (IF a = p.to THEN sign * p.amount ELSE 0)
                              - (IF a = p.from THEN sign * p.amount ELSE 0)]

LedgerInit ==
    /\ balance = [a \in Accounts |-> 0]
    /\ enabled = Accounts
    /\ entry = [e \in Entries |-> [status |-> "none", posting |-> NoPosting]]
    /\ twice = {}

-----------------------------------------------------------------------------
(* createExpense, createIncome and createTransfer, then their transactions. *)

AccountsOf(p) == {p.from, p.to} \ {NoAccount}

\* "Account is disabled", or not found: nothing is posted.
MayPost(r) == AccountsOf(context[r].posting) \subseteq enabled

\* The insert and the update of the accounts it names.
Mutant_PostsDebitOnly(e, p) ==
    /\ entry[e].status = "none"
    /\ entry' = [entry EXCEPT ![e] = [status |-> "posted", posting |-> p]]
    /\ Move([p EXCEPT !.to = NoAccount], 1)
    /\ UNCHANGED <<enabled, twice>>
PostEntry(e, p) ==
    /\ entry[e].status = "none"
    /\ entry' = [entry EXCEPT ![e] = [status |-> "posted", posting |-> p]]
    /\ Move(p, 1)
    /\ UNCHANGED <<enabled, twice>>

-----------------------------------------------------------------------------
(* removeExpense, removeIncome and removeTransfer.                          *)

\* The update finds the row by its id, deleted or not, and what it returns is
\* reversed.
RemoveEntry(e) ==
    /\ entry' = [entry EXCEPT ![e] = [@ EXCEPT !.status = "deleted"]]
    /\ Move(entry[e].posting, -1)
    /\ twice' = IF e \in Posted THEN twice ELSE twice \cup {e}
    /\ UNCHANGED enabled

\* updateAccount, removeAccount.
SwitchAccount(a) ==
    /\ enabled' = IF a \in enabled THEN enabled \ {a} ELSE enabled \cup {a}
    /\ UNCHANGED <<balance, entry, twice>>

-----------------------------------------------------------------------------
(* Properties.                                                             *)

LedgerTypeOK ==
    /\ balance \in [Accounts -> Int]
    /\ enabled \subseteq Accounts
    /\ entry \in [Entries -> Row]
    /\ twice \subseteq Entries

Effect(a, p) == (IF a = p.to THEN p.amount ELSE 0) - (IF a = p.from THEN p.amount ELSE 0)
SumOfEntries(a) == MapThenSumSet(LAMBDA e : Effect(a, entry[e].posting), Posted)

\* The balance kept on an account is the one its live entries add up to, as the
\* statement of getBalanceAtDate computes it, unless an entry was removed twice.
BalanceMatchesEntries == twice = {} => \A a \in Accounts : balance[a] = SumOfEntries(a)
=============================================================================
