SPECIFICATION FairSpec
CONSTANTS
    c1 = c1
    None = None
    Customers = {c1}
    CustomerOf <- MCCustomerOf
    Invoices = {i1}
    Payments = {p1, p2, p3}
    Intents = {pi1}
    Requests = {r1}
    Totals = {4}
    Amounts = {}
    CarefulStaff = TRUE
    OneAtATime = TRUE
PROPERTIES StripeMoneyRecorded
CHECK_DEADLOCK FALSE
