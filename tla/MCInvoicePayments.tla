-------------------------- MODULE MCInvoicePayments --------------------------
(***************************************************************************)
(* The instances of InvoicePayments that TLC checks.                       *)
(***************************************************************************)
EXTENDS InvoicePayments, TLC

CONSTANTS c1

MCCustomerOf == [i \in Invoices |-> c1]
MCSymmetry   == Permutations(Payments) \cup Permutations(Requests) \cup Permutations(Invoices)
=============================================================================
