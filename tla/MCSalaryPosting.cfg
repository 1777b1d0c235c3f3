\* Three handlers on two accounts and one salary transaction.
CONSTANTS
    Accounts = {a1, a2}
    Entries = {e1, e2}
    Handlers = {r1, r2, r3}
    Transactions = {t1}
    EntryAmounts = {1, 2}
    NoAccount = NoAccount
    NoEntry = NoEntry
    NoTransaction = NoTransaction
SPECIFICATION PayrollSpec
SYMMETRY Symmetry
INVARIANTS
    BalanceMatchesEntries
    LedgerMatchesPayroll
CHECK_DEADLOCK FALSE
