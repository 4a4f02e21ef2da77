\* No two handlers overlap on an estimate; they may die half way.
SPECIFICATION Spec
CONSTANTS
    c1 = c1
    None = None
    Estimates = {e1, e2}
    Customers = {c1}
    CustomerOf <- MCCustomerOf
    Jobs = {j1, j2}
    Invoices = {v1}
    Requests = {r1, r2}
    Totals = {1, 2}
    OneAtATime = TRUE
    MayCrash = TRUE
SYMMETRY MCSymmetry
PROPERTIES ImplementsQuotes
