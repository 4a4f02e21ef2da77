------------------------- MODULE MCEstimateLifecycle -------------------------
(***************************************************************************)
(* The instances of EstimateLifecycle that TLC checks.                     *)
(***************************************************************************)
EXTENDS EstimateLifecycle, DocumentTotals, TLC

CONSTANTS c1

MCCustomerOf == [e \in Estimates |-> c1]
MCSymmetry   == Permutations(Jobs) \cup Permutations(Invoices) \cup Permutations(Requests)
                \cup Permutations(Estimates)

-----------------------------------------------------------------------------
(* The discount arithmetic of DocumentTotals, evaluated when TLC starts     *)
(* (tax and total leave TLC's 32-bit integers; they are left to the proofs). *)

Discount(s, type, value) == Round(ExactDiscount(s, type, value), Whole)

\* The examples of estimate-totals.util.spec.ts.
ASSUME Examples == /\ Discount(126500, "percentage", 1000) = 12650
                   /\ Discount(10000, "fixed", 50000) = 10000
                   /\ Discount(50000, "percentage", 0) = 0

\* A reference for rounding: the nearest whole number, the upper of two.
ASSUME RoundsToNearest ==
    \A n \in 0 .. 60, d \in 1 .. 12 :
        LET Distance(q) == IF q * d < n THEN n - q * d ELSE q * d - n
            nearest     == {q \in 0 .. n + 1 : \A p \in 0 .. n + 1 : Distance(q) <= Distance(p)}
        IN  Round(n, d) = CHOOSE q \in nearest : \A p \in nearest : p <= q

\* What Amounts_proofs proves of every document, of some around $100.
ASSUME EditsKeepDiscount ==
    \A s \in {0, 1, 49, 50, 51, 9999, 10000, 10001, 19999, 20000},
       type \in DiscountTypes, v \in {0, 1, 33, 50, 999, 1000, 9999, 10000, 12000} :
        LET doc == [subtotal |-> s, discount |-> Discount(s, type, v)]
        IN  Discount(s, type, reconstructDiscountValue(type, doc)) = doc.discount
=============================================================================
