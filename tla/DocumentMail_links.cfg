SPECIFICATION Spec
CONSTANTS
    Documents = {d1, d2}
    MaxSends = 2
    None = None
    MaxAttempts = 1
    MaxCrashes = 1
INVARIANTS LastLinkWorks
CHECK_DEADLOCK FALSE
