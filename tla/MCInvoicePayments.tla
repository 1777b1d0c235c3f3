------------------------- MODULE MCInvoicePayments -------------------------
(* One invoice and small sets of payments and handlers for TLC.            *)
EXTENDS InvoicePayments, TLC

Symmetry == Permutations(Calls) \cup Permutations(Payments)
=============================================================================
