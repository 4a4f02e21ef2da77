SPECIFICATION Spec
CONSTANTS
    Documents = {d1}
    MaxSends = 1
    None = None
    MaxAttempts = 3
    MaxCrashes = 2
INVARIANTS SentWasAccepted ExtraCopiesExplained
PROPERTIES QueuedMailResolved
CHECK_DEADLOCK FALSE
