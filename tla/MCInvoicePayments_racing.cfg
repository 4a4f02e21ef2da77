SPECIFICATION Spec
CONSTANTS
    c1 = c1
    None = None
    Customers = {c1}
    CustomerOf <- MCCustomerOf
    Invoices = {i1}
    Payments = {p1, p2}
    Intents = {pi1}
    Requests = {r1, r2}
    Totals = {4}
    Amounts = {2}
    CarefulStaff = TRUE
    OneAtATime = FALSE
SYMMETRY MCSymmetry
INVARIANTS RefundBound HistoryExplains DraftUntouched
CHECK_DEADLOCK FALSE
