------------------------ MODULE MCInvoiceGeneration ------------------------
(* A few overlapping handlers for TLC, and the cron.                       *)
EXTENDS InvoiceGeneration, TLC

Symmetry == Permutations(Requests) \cup Permutations(Charges)
=============================================================================
