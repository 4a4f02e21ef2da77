--------------------------- MODULE DocumentTotals ---------------------------
(***************************************************************************)
(* The money arithmetic of priced documents: what an estimate or an        *)
(* invoice comes to, and what becomes of it when a draft is edited without *)
(* naming its discount again.  Only the discount's amount is stored, never *)
(* the number a person typed, so each editor works the number out anew.    *)
(*                                                                         *)
(* Amounts are whole cents.  A percentage is counted in hundredths, the    *)
(* two decimals its form accepts: 825 is 8.25%, and a discount of 10% has  *)
(* the value 1000.  The same value under "fixed" is $10.00: a number typed *)
(* is the same integer whether it means dollars or per cent.  The code's   *)
(* doubles are taken as exact and rounded where the code rounds.           *)
(***************************************************************************)
EXTENDS Integers

Whole == 10000      \* 100%, in hundredths of a per cent

DiscountTypes == {"none", "percentage", "fixed"}

\* round2, of n/d cents to whole cents; Math.round takes halves up.
Round(n, d) == (2 * n + d) \div (2 * d)

AtMost(m, n) == IF n < m THEN n ELSE m

\* The discount, before rounding, in cents / Whole.
ExactDiscount(s, type, value) ==
    CASE type = "none"       -> 0
      [] type = "percentage" -> AtMost(s * Whole, s * value)
      [] OTHER               -> AtMost(s * Whole, value * Whole)

\* Tax and total are taken of the exact amounts; each is rounded by itself.
Tax(exact, rate)   == Round(exact * rate, Whole * Whole)
Total(exact, rate) == Round(exact * Whole + exact * rate, Whole * Whole)

computeDocumentTotals(s, type, value, rate) ==
    LET taxable == s * Whole - ExactDiscount(s, type, value)
    IN  [subtotal |-> s, type |-> type, rate |-> rate,
         discount |-> Round(ExactDiscount(s, type, value), Whole),
         tax      |-> Tax(taxable, rate),
         total    |-> Total(taxable, rate)]

-----------------------------------------------------------------------------
(* A partial edit of a draft: doc is what is stored, s what its lines come  *)
(* to afterwards.                                                           *)

reconstructDiscountValue(type, doc) ==
    IF type = "none" \/ doc.discount = 0 THEN 0
    ELSE IF type = "fixed" THEN doc.discount
    ELSE IF doc.subtotal = 0 THEN 0
    ELSE Round(doc.discount * Whole, doc.subtotal)

EstimatePartialEdit(doc, s) ==
    computeDocumentTotals(s, doc.type, reconstructDiscountValue(doc.type, doc), doc.rate)

\* The invoice's editor passes the amount it stored for the value typed.
InvoicePartialEdit(doc) ==
    computeDocumentTotals(doc.subtotal, doc.type, doc.discount, doc.rate)
=============================================================================
