SPECIFICATION Spec
CONSTANTS
    Tabs = {t1, t2}
    Ids = {s1, s2, s3}
    Requests = {h1, h2}
    None = None
    Mixes <- MCMixes
    Ttl = 2
    Window = 1
    MaxFailures = 2
    MaxCount = 4
    MaxClock = 2
SYMMETRY MCSymmetry
INVARIANTS AlarmExplained LiveIsListed RevokedAllAreGone ThrottleKept
CHECK_DEADLOCK FALSE
