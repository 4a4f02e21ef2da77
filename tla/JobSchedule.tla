----------------------------- MODULE JobSchedule -----------------------------
(***************************************************************************)
(* Jobs and the calendar.  A job keeps its own status and dates; the       *)
(* appointments that put it on the calendar are rows of another table, and *)
(* either side writes the other: scheduling dates the job, cancelling an   *)
(* appointment puts the job back, completing or cancelling the job closes  *)
(* its appointments.  Calendar items are appointments that need no job.    *)
(*                                                                         *)
(* A handler reads its rows in one transaction, looks for a booking of the *)
(* same technician (in a second one, or first thing in the last) and then  *)
(* writes by id.  Nothing is locked in between, so these are three steps;  *)
(* the record of the handler in req carries what it read.  A handler whose *)
(* guard fails, or whose appointment is gone when it writes, rolls back.   *)
(*                                                                         *)
(* linked and overlapped are history variables: which jobs an item or an   *)
(* edit ever touched, and whether two handlers were ever in flight at      *)
(* once.  Properties use them to say exactly when the code keeps a promise.*)
(***************************************************************************)
EXTENDS Integers, FiniteSets

CONSTANTS
    Jobs,           \* job rows
    Appts,          \* row ids the appointments table may use (a bound)
    Technicians,    \* members of the company
    Spans,          \* <<start, end>> of an appointment
    ScheduleFrom,   \* the job statuses from which staff schedule a job
    Requests,       \* handlers that may be in flight together (a bound)
    MaxHandlers,    \* handlers begun in a behaviour (a bound)
    MaxRacing,      \* handlers begun in one where some overlap (a bound)
    None            \* SQL NULL

ASSUME SpanAssumption == \A w \in Spans : w[1] \in Nat /\ w[2] \in Nat /\ w[1] <= w[2]
ASSUME BoundAssumption == MaxHandlers \in Nat /\ MaxRacing \in 0 .. MaxHandlers

\* scheduleJob tests no status; the pages offer it for a job that is still open.
ASSUME OpenAssumption == ScheduleFrom \cap {"completed", "cancelled"} = {}

VARIABLES
    job,            \* [Jobs -> row]
    appt,           \* [Appts -> row]; "absent" when there is none
    req,            \* the handlers in flight
    begun,          \* handlers begun so far
    linked,         \* jobs whose appointments an item or an edit touched
    overlapped      \* TRUE once two handlers were in flight together

vars == <<job, appt, req, begun, linked, overlapped>>

JobStatus  == {"draft", "scheduled", "in_progress", "paused", "completed", "cancelled"}
ApptStatus == {"absent", "scheduled", "completed", "cancelled"}

ASSUME NoneAssumption == None \notin Jobs \cup Appts \cup Technicians \cup Spans \cup JobStatus

\* dates: scheduled_start and scheduled_end.  started: actual_start is set.
\* logged: the to_status of the job's job_status_history rows.
JobRow  == [status : JobStatus, dates : Spans \cup {None}, started : BOOLEAN,
            logged : SUBSET JobStatus]
ApptRow == [status : ApptStatus, job : Jobs \cup {None},
            tech : Technicians \cup {None}, span : Spans \cup {None}]

NoAppt == [status |-> "absent", job |-> None, tech |-> None, span |-> None]

JobOps  == {"cancelJob", "start", "pause", "resume", "complete"}
ApptOps == {"edit", "reschedule", "assign", "unschedule", "cancel"}

Request == [op : {"idle", "schedule", "createItem"} \cup JobOps \cup ApptOps,
            job : Jobs \cup {None}, appt : Appts \cup {None},
            tech : Technicians \cup {None}, span : Spans \cup {None},
            checked : BOOLEAN]

Idle == [op |-> "idle", job |-> None, appt |-> None, tech |-> None, span |-> None,
         checked |-> FALSE]

\* The jobs have been created from accepted estimates.
Init == /\ job = [j \in Jobs |-> [status |-> "draft", dates |-> None, started |-> FALSE,
                                  logged |-> {"draft"}]]
        /\ appt = [a \in Appts |-> NoAppt]
        /\ req = [r \in Requests |-> Idle]
        /\ begun = 0
        /\ linked = {}
        /\ overlapped = FALSE

-----------------------------------------------------------------------------
(* What the handlers ask of the two tables. *)

OfJob(j) == {a \in Appts : appt[a].status # "absent" /\ appt[a].job = j}
Free     == {a \in Appts : appt[a].status = "absent"}

\* The statuses that hold a technician's time (nothing ever sets 'confirmed').
Blocking == {"scheduled"}

Overlap_StartsInside(v, w) == v[1] <= w[1] /\ w[1] < v[2]
Overlap(v, w) == v[1] < w[2] /\ w[1] < v[2]

Booked(a, t) == appt[a].status \in Blocking /\ appt[a].tech = t

\* assertNoTechnicianConflict: nobody is booked when no technician is named.
Conflict(t, w, own) ==
    t # None /\ \E b \in Appts \ {own} : Booked(b, t) /\ Overlap(appt[b].span, w)

ValidTransition_CancelUnderway(from, to) ==
    CASE from \in {"draft", "scheduled"} -> to \in {"in_progress", "cancelled"}
      [] from = "in_progress"            -> to \in {"paused", "completed", "cancelled"}
      [] from = "paused"                 -> to = "in_progress"
      [] OTHER                           -> FALSE

ValidTransition(from, to) ==
    CASE from \in {"draft", "scheduled"} -> to \in {"in_progress", "cancelled"}
      [] from = "in_progress"            -> to \in {"paused", "completed"}
      [] from = "paused"                 -> to = "in_progress"
      [] OTHER                           -> FALSE

Target(op) == CASE op = "cancelJob"          -> "cancelled"
                [] op \in {"start", "resume"} -> "in_progress"
                [] op = "pause"              -> "paused"
                [] op = "complete"           -> "completed"

-----------------------------------------------------------------------------
(* A handler begins with what it was asked for and what it read. *)

Begin(r, h) ==
    /\ req[r] = Idle
    /\ overlapped' = (overlapped \/ \E q \in Requests : req[q] # Idle)
    /\ begun < IF overlapped' THEN MaxRacing ELSE MaxHandlers
    /\ begun' = begun + 1
    /\ req' = [req EXCEPT ![r] = h]
    /\ UNCHANGED <<job, appt, linked>>

\* scheduleJob, up to its conflict check.  A job's first appointment goes to the
\* caller unless a technician was named; a later one keeps whom it had.
BeginSchedule(r) ==
    \E j \in Jobs, t \in Technicians \cup {None}, w \in Spans, self \in Technicians :
        /\ job[j].status \in ScheduleFrom
        /\ \E a \in IF OfJob(j) = {} THEN {None} ELSE OfJob(j) :
              LET kept == IF a = None THEN self ELSE appt[a].tech
                  who  == IF t # None THEN t ELSE kept
              IN  /\ ~ Conflict(who, w, a)
                  /\ Begin(r, [op |-> "schedule", job |-> j, appt |-> a, span |-> w,
                               tech |-> IF a = None THEN who ELSE t, checked |-> TRUE])

\* createCalendarItem, up to its conflict check.
BeginItem(r) ==
    \E j \in Jobs \cup {None}, t \in Technicians \cup {None}, w \in Spans :
        /\ ~ Conflict(t, w, None)
        /\ Begin(r, [op |-> "createItem", job |-> j, appt |-> None, tech |-> t,
                     span |-> w, checked |-> TRUE])

\* updateCalendarItem reads the row and fills in what the request leaves out;
\* with neither a technician nor a time given it looks for no conflict.
BeginEdit(r) ==
    \E a \in Appts \ Free, j \in Jobs \cup {None} :
        \/ \E t \in Technicians \cup {None}, w \in Spans :
              Begin(r, [op |-> "edit", job |-> j, appt |-> a, tech |-> t, span |-> w,
                        checked |-> FALSE])
        \/ Begin(r, [op |-> "edit", job |-> j, appt |-> a, tech |-> appt[a].tech,
                     span |-> appt[a].span, checked |-> TRUE])

\* reschedule reads whom the appointment is assigned to.
BeginReschedule(r) ==
    \E a \in Appts \ Free, w \in Spans :
        Begin(r, [op |-> "reschedule", job |-> appt[a].job, appt |-> a,
                  tech |-> appt[a].tech, span |-> w, checked |-> FALSE])

\* updateAssignment reads when the appointment is.
BeginAssign(r) ==
    \E a \in Appts \ Free, t \in Technicians :
        Begin(r, [op |-> "assign", job |-> appt[a].job, appt |-> a, tech |-> t,
                  span |-> appt[a].span, checked |-> FALSE])

\* unschedule and cancel read the row, and cancel the job's status with it.
BeginRemoval(r) ==
    \E a \in Appts \ Free, op \in {"unschedule", "cancel"} :
        /\ op = "cancel" =>
              /\ appt[a].status \notin {"cancelled", "completed"}
              /\ appt[a].job # None => job[appt[a].job].status # "completed"
        /\ Begin(r, [Idle EXCEPT !.op = op, !.job = appt[a].job, !.appt = a,
                                 !.checked = TRUE])

\* Completing needs the start time the labor hours run from.
HasStartTime_Unasked(op, j) == TRUE
HasStartTime(op, j) == op = "complete" => job[j].started

\* The job handlers read the job and test the transition: start and resume
\* test the same one.
BeginJobOp(r) ==
    \E j \in Jobs, op \in JobOps :
        /\ ValidTransition(job[j].status, Target(op))
        /\ HasStartTime(op, j)
        /\ Begin(r, [Idle EXCEPT !.op = op, !.job = j, !.checked = TRUE])

\* The conflict check of a handler that read its row before.  It answers for
\* the technician and the time the handler holds, not for those of the row.
CheckConflict(r) ==
    /\ req[r].op \in {"edit", "reschedule", "assign"} /\ ~ req[r].checked
    /\ req' = [req EXCEPT ![r] =
                  IF Conflict(req[r].tech, req[r].span, req[r].appt)
                  THEN Idle ELSE [req[r] EXCEPT !.checked = TRUE]]
    /\ UNCHANGED <<job, appt, begun, linked, overlapped>>

-----------------------------------------------------------------------------
(* The write of each handler, by id, whatever became of the row meanwhile. *)

Finish(r) == req' = [req EXCEPT ![r] = Idle] /\ UNCHANGED <<begun, overlapped>>

Ready(r, op) == req[r].op = op /\ req[r].checked

\* The read-back at the end of the transaction throws: all is rolled back.
RowGone(r) ==
    /\ req[r].op \in {"schedule"} \cup (ApptOps \ {"unschedule"}) /\ req[r].checked
    /\ req[r].appt # None
    /\ appt[req[r].appt].status = "absent"
    /\ Finish(r)
    /\ UNCHANGED <<job, appt, linked>>

\* An appointment that is scheduled anew is live, also when it was cancelled.
RebookedStatus_AsItWas(s) == s
RebookedStatus(s) == "scheduled"

WriteSchedule(r) ==
    LET h == req[r] IN
    /\ Ready(r, "schedule")
    /\ IF h.appt = None
       THEN \E a \in Free :
              appt' = [appt EXCEPT ![a] = [status |-> "scheduled", job |-> h.job,
                                           tech |-> h.tech, span |-> h.span]]
       ELSE /\ h.appt \notin Free
            /\ appt' = [appt EXCEPT ![h.appt].status = RebookedStatus(@),
                                    ![h.appt].span = h.span,
                                    ![h.appt].tech = IF h.tech # None THEN h.tech ELSE @]
    /\ job' = [job EXCEPT ![h.job].dates = h.span,
                          ![h.job].status = IF @ = "draft" THEN "scheduled" ELSE @]
    /\ Finish(r)
    /\ UNCHANGED linked

WriteItem(r) ==
    LET h == req[r] IN
    /\ Ready(r, "createItem")
    /\ \E a \in Free :
          appt' = [appt EXCEPT ![a] = [status |-> "scheduled", job |-> h.job,
                                       tech |-> h.tech, span |-> h.span]]
    /\ linked' = linked \cup ({h.job} \ {None})
    /\ Finish(r)
    /\ UNCHANGED job

WriteEdit(r) ==
    LET h == req[r] IN
    /\ Ready(r, "edit") /\ h.appt \notin Free
    /\ appt' = [appt EXCEPT ![h.appt] = [@ EXCEPT !.job = h.job, !.tech = h.tech,
                                                  !.span = h.span]]
    /\ linked' = linked \cup ({h.job, appt[h.appt].job} \ {None})
    /\ Finish(r)
    /\ UNCHANGED job

WriteReschedule(r) ==
    LET h == req[r] IN
    /\ Ready(r, "reschedule") /\ h.appt \notin Free
    /\ appt' = [appt EXCEPT ![h.appt].span = h.span]
    /\ job' = [j \in Jobs |-> IF j = h.job THEN [job[j] EXCEPT !.dates = h.span] ELSE job[j]]
    /\ Finish(r)
    /\ UNCHANGED linked

\* (jobs.assigned_user_id follows the assignment; no handler reads it.)
WriteAssign(r) ==
    LET h == req[r] IN
    /\ Ready(r, "assign") /\ h.appt \notin Free
    /\ appt' = [appt EXCEPT ![h.appt].tech = h.tech]
    /\ Finish(r)
    /\ UNCHANGED <<job, linked>>

\* A job taken off the calendar is a draft again unless it is further along.
StatusPutBack_Always(s) == "draft"
StatusPutBack(s) == IF s = "scheduled" THEN "draft" ELSE s

PutBack(j) ==
    job' = [i \in Jobs |->
              IF i = j THEN [job[i] EXCEPT !.dates = None, !.status = StatusPutBack(@)]
              ELSE job[i]]

\* DELETE, not a status.
Deleted(row) == NoAppt

WriteUnschedule(r) ==
    /\ Ready(r, "unschedule")
    /\ appt' = [appt EXCEPT ![req[r].appt] = Deleted(@)]
    /\ PutBack(req[r].job)
    /\ Finish(r)
    /\ UNCHANGED linked

WriteCancel(r) ==
    /\ Ready(r, "cancel") /\ req[r].appt \notin Free
    /\ appt' = [appt EXCEPT ![req[r].appt].status = "cancelled"]
    /\ PutBack(req[r].job)
    /\ Finish(r)
    /\ UNCHANGED linked

\* Each job handler writes the status and, in the same transaction, a
\* history row; start stamps actual_start.  (Scheduling writes no row.)
Advance(j, to, starts) ==
    job' = [job EXCEPT ![j].status = to, ![j].logged = @ \cup {to}, ![j].started = @ \/ starts]

\* The job's appointments that are still open are closed with it.
CloseAppts(j, to) ==
    appt' = [a \in Appts |-> IF a \in OfJob(j) /\ appt[a].status \notin {"cancelled", "completed"}
                             THEN [appt[a] EXCEPT !.status = to] ELSE appt[a]]

ClosingOps_CancelOnly == {"cancelJob"}
ClosingOps == {"cancelJob", "complete"}

WriteJobOp(r) ==
    LET h == req[r] IN
    /\ h.op \in JobOps
    /\ Advance(h.job, Target(h.op), h.op = "start")
    /\ IF h.op \in ClosingOps THEN CloseAppts(h.job, Target(h.op))
       ELSE UNCHANGED appt
    /\ Finish(r)
    /\ UNCHANGED linked

Next == \E r \in Requests :
    \/ BeginSchedule(r) \/ BeginItem(r) \/ BeginEdit(r) \/ BeginReschedule(r)
    \/ BeginAssign(r) \/ BeginRemoval(r) \/ BeginJobOp(r)
    \/ CheckConflict(r) \/ RowGone(r)
    \/ WriteSchedule(r) \/ WriteItem(r) \/ WriteEdit(r) \/ WriteReschedule(r)
    \/ WriteAssign(r) \/ WriteUnschedule(r) \/ WriteCancel(r) \/ WriteJobOp(r)

Spec == Init /\ [][Next]_vars

-----------------------------------------------------------------------------
(* Properties. *)

\* The rows have the shapes the schema gives them, and a row that is not there
\* says nothing.
TypeOK == /\ job \in [Jobs -> JobRow]
          /\ appt \in [Appts -> ApptRow]
          /\ req \in [Requests -> Request]
          /\ begun \in 0 .. MaxHandlers
          /\ linked \subseteq Jobs
          /\ overlapped \in BOOLEAN
          /\ \A a \in Free : appt[a] = NoAppt
          /\ \A a \in Appts \ Free : appt[a].span # None

\* Whatever the interleaving, the history of a job tells what became of it:
\* its status is one the history names, but for the scheduling that leaves no
\* row; a job whose history names its creation alone is on or off the
\* calendar and nothing else; and what was paused or completed had been under
\* way (cancel, start, pause, resume and complete of the jobs service, against
\* scheduleJob and the removals of the scheduling service).
HistoryTellsStatus ==
    \A j \in Jobs :
        /\ job[j].status \in job[j].logged \cup {"scheduled"}
        /\ job[j].status \in {"draft", "scheduled"} <=> job[j].logged = {"draft"}
        /\ job[j].logged \cap {"paused", "completed"} # {} => "in_progress" \in job[j].logged

\* Whatever the interleaving, a completed job has the start time its labor
\* hours were computed from.
CompletedJobsStarted ==
    \A j \in Jobs : job[j].status = "completed" => job[j].started

\* The unit hours an appointment takes.
Hours(w) == w[1] .. (w[2] - 1)

\* "The one and only conflict rule": while handlers run one after the other no
\* technician is ever booked for two appointments whose times overlap, by
\* whatever mix of scheduling, editing, moving, reassigning and reviving.
NoDoubleBooking ==
    ~ overlapped =>
        \A a, b \in Appts : \A t \in Technicians :
            a # b /\ Booked(a, t) /\ Booked(b, t) =>
                Hours(appt[a].span) \cap Hours(appt[b].span) = {}

\* The dates a scheduled job shows are those of a booking that is really on the
\* calendar, and a draft has none left there: for a job that no calendar item
\* and no edit ever touched, while handlers run one after the other.
JobDatesAreBooked ==
    ~ overlapped =>
        \A j \in Jobs \ linked :
            LET live == {a \in OfJob(j) : appt[a].status = "scheduled"}
            IN  /\ job[j].status = "scheduled" =>
                      \E a \in live : appt[a].span = job[j].dates
                /\ job[j].status = "draft" => live = {}

\* A job that is closed keeps no technician's time: completing and cancelling
\* close every appointment of the job (under the same proviso).
ClosedJobsFreeTheCalendar ==
    ~ overlapped =>
        \A j \in Jobs \ linked :
            job[j].status \in {"completed", "cancelled"} =>
                \A a \in OfJob(j) : appt[a].status \notin Blocking

\* No sequence of handlers, one after the other, takes a job back from where it
\* got to: work that began is not cancelled or put back, what is closed stays.
JobsMoveForward ==
    [][~ overlapped' => \A j \in Jobs :
          \/ job'[j].status = job[j].status
          \/ {job[j].status, job'[j].status} = {"draft", "scheduled"}
          \/ job[j].status \in {"draft", "scheduled"} /\ job'[j].status \in {"in_progress", "cancelled"}
          \/ job[j].status = "in_progress" /\ job'[j].status \in {"paused", "completed"}
          \/ job[j].status = "paused" /\ job'[j].status = "in_progress"]_vars

\* The comment of unschedule: a job is not left 'scheduled' with no actual
\* appointment behind it.
ScheduledJobHasAppointment ==
    ~ overlapped => \A j \in Jobs : job[j].status = "scheduled" => OfJob(j) # {}
=============================================================================
