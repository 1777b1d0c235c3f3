---------------------------- MODULE InvoiceBook ----------------------------
(***************************************************************************)
(* What createInvoiceWithLines promises (invoices.repository.ts:242-247):  *)
(* the invoices of each year stand in a book, one after the other, and     *)
(* what is in the book is never changed or taken out.  A one-time charge   *)
(* is opened, and is billed with the first invoice that names it.          *)
(*                                                                         *)
(* There are no processes, no counter, no transaction: InvoiceGeneration   *)
(* implements this module.                                                 *)
(***************************************************************************)
EXTENDS Naturals, Sequences

CONSTANTS Years, Charges, Bills

VARIABLES
    book,    \* the invoices of each year, in the order of their numbers
    open,    \* charges that were made
    billed   \* charges that an invoice names

vars == <<book, open, billed>>

Init ==
    /\ book = [y \in Years |-> << >>]
    /\ open = {} /\ billed = {}

Open(c) ==
    /\ c \notin open
    /\ open' = open \cup {c}
    /\ UNCHANGED <<book, billed>>

\* An invoice takes the next number of its year and bills its charges.
Issue(y, bill) ==
    /\ bill.charges \subseteq open
    /\ UNCHANGED open
    /\ billed' = billed \cup bill.charges
    /\ book' = [book EXCEPT ![y] = Append(@, bill)]

Next ==
    \/ \E c \in Charges : Open(c)
    \/ \E y \in Years, bill \in Bills : Issue(y, bill)

Spec == Init /\ [][Next]_vars
=============================================================================
