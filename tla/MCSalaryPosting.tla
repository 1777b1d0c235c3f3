--------------------------- MODULE MCSalaryPosting ---------------------------
(* Symmetry for TLC.                                                       *)
EXTENDS SalaryPosting, TLC

Symmetry == Permutations(Handlers) \cup Permutations(Entries) \cup Permutations(Accounts)
                \cup Permutations(Transactions)
=============================================================================
