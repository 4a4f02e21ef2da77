SPECIFICATION Spec
CONSTANTS
    c1 = c1
    None = None
    Customers = {c1}
    CustomerOf <- MCCustomerOf
    Invoices = {i1, i2}
    Payments = {p1, p2}
    Intents = {pi1}
    Requests = {r1, r2}
    Totals = {4}
    Amounts = {2, 4}
    CarefulStaff = TRUE
    OneAtATime = TRUE
INVARIANTS OneSucceededRow LedgerBalanced StatusMatchesBalance VoidHasNoActivePayment
PROPERTIES ImplementsBooks RecordingFits ClosedPaymentStaysClosed
CHECK_DEADLOCK FALSE
SYMMETRY MCSymmetry
