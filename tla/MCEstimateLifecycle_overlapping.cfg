\* Handlers overlap and none dies.  The ids of Jobs and Invoices run out.
SPECIFICATION FairSpec
CONSTANTS
    c1 = c1
    None = None
    Estimates = {e1}
    Customers = {c1}
    CustomerOf <- MCCustomerOf
    Jobs = {j1, j2}
    Invoices = {v1}
    Requests = {r1, r2}
    Totals = {1, 2}
    OneAtATime = FALSE
    MayCrash = FALSE
INVARIANTS AcceptanceHonoured
PROPERTIES AcceptedBecomesJob
CHECK_DEADLOCK FALSE
