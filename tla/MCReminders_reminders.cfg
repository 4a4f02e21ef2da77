SPECIFICATION Spec
CONSTANTS
    e1 = e1
    v1 = v1
    j1 = j1
    now = now
    Cron = cron
    Estimates = {e1}
    Invoices = {v1}
    Jobs = {j1}
    Mixes <- MCMixes
    Phoned = {e1, v1}
    Mailed = {j1}
    Runs = {now}
    ValidUntil <- MCLapse
    ScheduledAt <- MCScheduled
    PropertyOf <- MCProperty
    AfterDays = 1
    BeforeDays = 0
    RecurDays = 1
    Day = 2
    Nine = 1
    MaxClock = 3
    MaxWrites = 1
INVARIANTS LogHonest 
PROPERTY ImplementsNotices
CHECK_DEADLOCK FALSE
