SPECIFICATION Spec
CONSTANTS
    Customers = {c1, c2}
    Emails = {e1, e2}
    Docs = {d1, d2}
    Payments = {p1, p2}
    Keys = {k1}
    Requests = {h1, h2}
    None = None
    CarefulStaff = TRUE
    Mixes <- MCMixes
    Amounts = {3}
    MaxInvoices = 1
SYMMETRY MCSymmetry
INVARIANTS LtvIsCollected MergedAwayIsEmpty OneCustomerPerEmail QuotedOnce
CHECK_DEADLOCK FALSE
