\* Handlers overlap, items are linked to jobs, staff schedule any job still open.
SPECIFICATION Spec
CONSTANTS
    None = None
    Jobs = {j1}
    Appts = {a1, a2}
    Technicians = {t1}
    Spans <- MCSpans
    ScheduleFrom = {"draft", "scheduled", "in_progress", "paused"}
    Requests = {r1, r2}
    MaxHandlers = 5
    MaxRacing = 3
SYMMETRY MCSymmetry
INVARIANTS HistoryTellsStatus CompletedJobsStarted NoDoubleBooking JobDatesAreBooked ClosedJobsFreeTheCalendar
PROPERTIES JobsMoveForward
CHECK_DEADLOCK FALSE
