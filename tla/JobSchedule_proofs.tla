-------------------------- MODULE JobSchedule_proofs --------------------------
(***************************************************************************)
(* What JobSchedule guarantees for any number of jobs, appointments,       *)
(* technicians, times and handlers in flight.                              *)
(*                                                                         *)
(* A handler writes by id what it decided from rows it read before, so the *)
(* invariant has to say what of that stays true until the write: HandlerOK *)
(* whatever the interleaving, GuardHolds and Calendar while handlers run   *)
(* one after the other.                                                    *)
(***************************************************************************)
EXTENDS JobSchedule, TLAPS

\* What a handler holds, from its beginning to its write.
HandlerOK(h) ==
    /\ h.op \in JobOps \cup {"schedule"} => h.job \in Jobs
    /\ h.op \in ApptOps => h.appt \in Appts
    /\ h.op \in {"schedule", "createItem", "edit", "reschedule"} => h.span \in Spans
    /\ h.op = "complete" => job[h.job].started

\* A handler that pauses or completes a job read it under way.
Underway ==
    \A r \in Requests :
        req[r].op \in {"pause", "complete"} => "in_progress" \in job[req[r].job].logged

HandlersOK ==
    \A r \in Requests :
        /\ req[r].op \in JobOps \cup {"schedule"} => req[r].job \in Jobs
        /\ req[r].op \in ApptOps => req[r].appt \in Appts
        /\ req[r].op \in {"schedule", "createItem", "edit", "reschedule"} => req[r].span \in Spans
        /\ req[r].op = "complete" => job[req[r].job].started

\* Alone, a handler still finds its job where it read it.
GuardHolds ==
    ~ overlapped =>
        /\ \A r, q \in Requests : r # q => req[r] = Idle \/ req[q] = Idle
        /\ \A r \in Requests : req[r].op \in JobOps =>
              ValidTransition(job[req[r].job].status, Target(req[r].op))

IInv == /\ TypeOK
        /\ HandlersOK
        /\ Underway
        /\ HistoryTellsStatus
        /\ CompletedJobsStarted
        /\ GuardHolds

-----------------------------------------------------------------------------
(* The two kinds of step: a handler begins, or it goes on.                 *)

BeginAny(r) == \/ BeginSchedule(r) \/ BeginItem(r) \/ BeginEdit(r) \/ BeginReschedule(r)
               \/ BeginAssign(r) \/ BeginRemoval(r) \/ BeginJobOp(r)

WriteAny(r) == \/ CheckConflict(r) \/ RowGone(r)
               \/ WriteSchedule(r) \/ WriteItem(r) \/ WriteEdit(r) \/ WriteReschedule(r)
               \/ WriteAssign(r) \/ WriteUnschedule(r) \/ WriteCancel(r) \/ WriteJobOp(r)

LEMMA IdleType == Idle \in Request /\ Idle.op = "idle"
  BY DEF Idle, Request

LEMMA OpsDiffer ==
    /\ "idle" \notin JobOps \cup ApptOps \cup {"schedule", "createItem", "edit", "reschedule", "complete"}
    /\ JobOps \cap (ApptOps \cup {"schedule", "createItem", "edit", "reschedule"}) = {}
    /\ "schedule" \notin ApptOps /\ "createItem" \notin ApptOps
  BY DEF JobOps, ApptOps

LEMMA IdleOK == HandlerOK(Idle)
  BY IdleType, OpsDiffer DEF HandlerOK

\* Every handler begins with a legal record, and a job handler with a legal
\* transition.
LEMMA BeginsLegal ==
    ASSUME TypeOK, NEW r \in Requests, BeginAny(r)
    PROVE  \E h \in Request :
              /\ HandlerOK(h)
              /\ h.op \in JobOps => ValidTransition(job[h.job].status, Target(h.op))
              /\ h.op # "idle"
              /\ Begin(r, h)
  <1> DEFINE Goal == \E h \in Request :
              /\ HandlerOK(h)
              /\ h.op \in JobOps => ValidTransition(job[h.job].status, Target(h.op))
              /\ h.op # "idle"
              /\ Begin(r, h)
  <1>0. \A a \in Appts \ Free : appt[a].span \in Spans /\ appt[a] \in ApptRow
    BY DEF TypeOK, ApptRow
  <1>1. CASE BeginSchedule(r)
    <2>0. PICK j \in Jobs, t \in Technicians \cup {None}, w \in Spans, self \in Technicians :
             /\ job[j].status \in ScheduleFrom
             /\ \E a \in IF OfJob(j) = {} THEN {None} ELSE OfJob(j) :
                   LET kept == IF a = None THEN self ELSE appt[a].tech
                       who  == IF t # None THEN t ELSE kept
                   IN  /\ ~ Conflict(who, w, a)
                       /\ Begin(r, [op |-> "schedule", job |-> j, appt |-> a, span |-> w,
                                    tech |-> IF a = None THEN who ELSE t, checked |-> TRUE])
      BY <1>1, Zenon DEF BeginSchedule
    <2>01. (IF OfJob(j) = {} THEN {None} ELSE OfJob(j)) \subseteq Appts \cup {None}
      BY DEF OfJob
    <2>1. PICK a \in Appts \cup {None} :
             LET kept == IF a = None THEN self ELSE appt[a].tech
                 who  == IF t # None THEN t ELSE kept
             IN  Begin(r, [op |-> "schedule", job |-> j, appt |-> a, span |-> w,
                           tech |-> IF a = None THEN who ELSE t, checked |-> TRUE])
      BY <2>0, <2>01, Zenon
    <2> DEFINE kept == IF a = None THEN self ELSE appt[a].tech
               who  == IF t # None THEN t ELSE kept
               h    == [op |-> "schedule", job |-> j, appt |-> a, span |-> w,
                        tech |-> IF a = None THEN who ELSE t, checked |-> TRUE]
    <2>2. (IF a = None THEN who ELSE t) \in Technicians \cup {None}
      OBVIOUS
    <2>3. h \in Request
      BY <2>2 DEF Request
    <2>4. HandlerOK(h) /\ h.op \notin JobOps /\ h.op # "idle"
      BY OpsDiffer DEF HandlerOK
    <2> QED
      BY <2>1, <2>3, <2>4
  <1>2. CASE BeginItem(r)
    <2>1. PICK j \in Jobs \cup {None}, t \in Technicians \cup {None}, w \in Spans :
             Begin(r, [op |-> "createItem", job |-> j, appt |-> None, tech |-> t,
                       span |-> w, checked |-> TRUE])
      BY <1>2 DEF BeginItem
    <2> DEFINE h == [op |-> "createItem", job |-> j, appt |-> None, tech |-> t,
                     span |-> w, checked |-> TRUE]
    <2>2. h \in Request
      BY DEF Request
    <2>3. HandlerOK(h) /\ h.op \notin JobOps /\ h.op # "idle"
      BY OpsDiffer DEF HandlerOK
    <2> QED
      BY <2>1, <2>2, <2>3
  <1>3. CASE BeginEdit(r)
    <2>1. PICK a \in Appts, j \in Jobs \cup {None}, t \in Technicians \cup {None}, w \in Spans,
               c \in BOOLEAN :
             Begin(r, [op |-> "edit", job |-> j, appt |-> a, tech |-> t, span |-> w,
                       checked |-> c])
      <3>1. PICK a \in Appts \ Free, j \in Jobs \cup {None} :
               \/ \E t \in Technicians \cup {None}, w \in Spans :
                     Begin(r, [op |-> "edit", job |-> j, appt |-> a, tech |-> t, span |-> w,
                               checked |-> FALSE])
               \/ Begin(r, [op |-> "edit", job |-> j, appt |-> a, tech |-> appt[a].tech,
                            span |-> appt[a].span, checked |-> TRUE])
        BY <1>3, Zenon DEF BeginEdit
      <3>2. appt[a].tech \in Technicians \cup {None} /\ appt[a].span \in Spans
        BY <1>0 DEF ApptRow
      <3> QED
        BY <3>1, <3>2, Zenon
    <2> DEFINE h == [op |-> "edit", job |-> j, appt |-> a, tech |-> t, span |-> w, checked |-> c]
    <2>2. h \in Request
      BY DEF Request, ApptOps
    <2>3. HandlerOK(h) /\ h.op \notin JobOps /\ h.op # "idle"
      BY OpsDiffer DEF HandlerOK
    <2> QED
      BY <2>1, <2>2, <2>3
  <1>4. CASE BeginReschedule(r)
    <2>1. PICK a \in Appts \ Free, w \in Spans :
             Begin(r, [op |-> "reschedule", job |-> appt[a].job, appt |-> a,
                       tech |-> appt[a].tech, span |-> w, checked |-> FALSE])
      BY <1>4 DEF BeginReschedule
    <2> DEFINE h == [op |-> "reschedule", job |-> appt[a].job, appt |-> a,
                     tech |-> appt[a].tech, span |-> w, checked |-> FALSE]
    <2>2. h \in Request
      BY <1>0 DEF Request, ApptRow, ApptOps
    <2>3. HandlerOK(h) /\ h.op \notin JobOps /\ h.op # "idle"
      BY OpsDiffer DEF HandlerOK
    <2> QED
      BY <2>1, <2>2, <2>3
  <1>5. CASE BeginAssign(r)
    <2>1. PICK a \in Appts \ Free, t \in Technicians :
             Begin(r, [op |-> "assign", job |-> appt[a].job, appt |-> a, tech |-> t,
                       span |-> appt[a].span, checked |-> FALSE])
      BY <1>5 DEF BeginAssign
    <2> DEFINE h == [op |-> "assign", job |-> appt[a].job, appt |-> a, tech |-> t,
                     span |-> appt[a].span, checked |-> FALSE]
    <2>2. h \in Request
      BY <1>0 DEF Request, ApptRow, ApptOps
    <2>3. HandlerOK(h) /\ h.op \notin JobOps /\ h.op # "idle"
      BY DEF HandlerOK, JobOps, ApptOps
    <2> QED
      BY <2>1, <2>2, <2>3
  <1>6. CASE BeginRemoval(r)
    <2>1. PICK a \in Appts \ Free, op \in {"unschedule", "cancel"} :
             Begin(r, [Idle EXCEPT !.op = op, !.job = appt[a].job, !.appt = a, !.checked = TRUE])
      BY <1>6, Zenon DEF BeginRemoval
    <2> DEFINE h == [Idle EXCEPT !.op = op, !.job = appt[a].job, !.appt = a, !.checked = TRUE]
    <2>2. h \in Request /\ h.op = op /\ h.appt = a
      BY <1>0 DEF Idle, Request, ApptRow, ApptOps
    <2>3. HandlerOK(h) /\ h.op \notin JobOps /\ h.op # "idle"
      BY <2>2 DEF HandlerOK, JobOps, ApptOps
    <2> QED
      BY <2>1, <2>2, <2>3
  <1>7. CASE BeginJobOp(r)
    <2>1. PICK j \in Jobs, op \in JobOps :
             /\ ValidTransition(job[j].status, Target(op))
             /\ HasStartTime(op, j)
             /\ Begin(r, [Idle EXCEPT !.op = op, !.job = j, !.checked = TRUE])
      BY <1>7 DEF BeginJobOp
    <2> DEFINE h == [Idle EXCEPT !.op = op, !.job = j, !.checked = TRUE]
    <2>2. h \in Request /\ h.op = op /\ h.job = j
      BY DEF Idle, Request
    <2>3. HandlerOK(h) /\ h.op # "idle"
      BY <2>1, <2>2, OpsDiffer DEF HandlerOK, HasStartTime, JobOps
    <2> QED
      BY <2>1, <2>2, <2>3
  <1> QED
    BY <1>1, <1>2, <1>3, <1>4, <1>5, <1>6, <1>7 DEF BeginAny

LEMMA Steps ==
    ASSUME [Next]_vars
    PROVE  UNCHANGED vars \/ \E r \in Requests : BeginAny(r) \/ WriteAny(r)
  BY DEF Next, BeginAny, WriteAny

-----------------------------------------------------------------------------
(* What a step may do to the rows of jobs.                                 *)

\* A write leaves a job's history and start alone and moves its status at most
\* between draft and scheduled, unless it is that job's own handler.
RowStep(r, j) ==
    \/ /\ job'[j].logged = job[j].logged /\ job'[j].started = job[j].started
       /\ \/ job'[j].status = job[j].status
          \/ {job[j].status, job'[j].status} = {"draft", "scheduled"}
    \/ /\ req[r].op \in JobOps /\ j = req[r].job
       /\ job'[j].status = Target(req[r].op)
       /\ job'[j].logged = job[j].logged \cup {Target(req[r].op)}
       /\ job'[j].started = (job[j].started \/ req[r].op = "start")

LEMMA TargetType ==
    ASSUME NEW op \in JobOps
    PROVE  Target(op) \in {"in_progress", "paused", "completed", "cancelled"}
  BY DEF JobOps, Target

LEMMA PutBackRows ==
    ASSUME job \in [Jobs -> JobRow], NEW k \in Jobs \cup {None}, PutBack(k), NEW r \in Requests
    PROVE  job' \in [Jobs -> JobRow] /\ \A j \in Jobs : RowStep(r, j)
  <1>1. \A j \in Jobs : /\ job'[j] \in JobRow
                        /\ job'[j].logged = job[j].logged
                        /\ job'[j].started = job[j].started
                        /\ job'[j].status = job[j].status \/ job'[j].status = StatusPutBack(job[j].status)
    <2>1. "draft" \in JobStatus /\ \A s \in JobStatus : StatusPutBack(s) \in JobStatus
      BY DEF JobStatus, StatusPutBack
    <2> QED
      BY <2>1 DEF PutBack, JobRow
  <1>2. job' \in [Jobs -> JobRow]
    BY <1>1 DEF PutBack
  <1> QED
    BY <1>1, <1>2 DEF RowStep, StatusPutBack

LEMMA WritesRows ==
    ASSUME TypeOK, NEW r \in Requests, HandlerOK(req[r]), WriteAny(r)
    PROVE  job' \in [Jobs -> JobRow] /\ \A j \in Jobs : RowStep(r, j)
  <1> DEFINE h == req[r]
  <1>0. job \in [Jobs -> JobRow] /\ h \in Request
    BY DEF TypeOK
  <1>1. CASE UNCHANGED job
    BY <1>0, <1>1 DEF RowStep
  <1>2. CASE WriteSchedule(r)
    <2>1. h.job \in Jobs /\ h.span \in Spans
      BY <1>2 DEF HandlerOK, WriteSchedule, Ready
    <2>2. job' = [job EXCEPT ![h.job].dates = h.span,
                             ![h.job].status = IF @ = "draft" THEN "scheduled" ELSE @]
      BY <1>2 DEF WriteSchedule
    <2> HIDE DEF h
    <2>3. \A j \in Jobs : /\ job'[j] \in JobRow
                          /\ job'[j].logged = job[j].logged
                          /\ job'[j].started = job[j].started
                          /\ \/ job'[j].status = job[j].status
                             \/ job[j].status = "draft" /\ job'[j].status = "scheduled"
      BY <1>0, <2>1, <2>2 DEF JobRow, JobStatus
    <2>4. job' \in [Jobs -> JobRow]
      BY <1>0, <2>2, <2>3
    <2> QED
      BY <2>3, <2>4 DEF RowStep
  <1>3. CASE WriteReschedule(r)
    <2>1. h.span \in Spans
      BY <1>3 DEF HandlerOK, WriteReschedule, Ready
    <2>2. job' = [j \in Jobs |-> IF j = h.job THEN [job[j] EXCEPT !.dates = h.span] ELSE job[j]]
      BY <1>3 DEF WriteReschedule
    <2> HIDE DEF h
    <2>3. \A j \in Jobs : /\ job'[j] \in JobRow
                          /\ job'[j].logged = job[j].logged
                          /\ job'[j].started = job[j].started
                          /\ job'[j].status = job[j].status
      BY <1>0, <2>1, <2>2 DEF JobRow
    <2>4. job' \in [Jobs -> JobRow]
      BY <2>2, <2>3
    <2> QED
      BY <2>3, <2>4 DEF RowStep
  <1>4. CASE WriteUnschedule(r) \/ WriteCancel(r)
    <2>1. h.job \in Jobs \cup {None}
      BY <1>0 DEF Request
    <2>2. PutBack(h.job)
      BY <1>4 DEF WriteUnschedule, WriteCancel
    <2> QED
      BY <1>0, <2>1, <2>2, PutBackRows
  <1>5. CASE WriteJobOp(r)
    <2>1. h.op \in JobOps /\ h.job \in Jobs
      BY <1>5 DEF HandlerOK, WriteJobOp
    <2> DEFINE to == Target(h.op)
               st == h.op = "start"
    <2>2. job' = [job EXCEPT ![h.job].status = to, ![h.job].logged = @ \cup {to}, ![h.job].started = @ \/ st]
      BY <1>5 DEF WriteJobOp, Advance
    <2>3. to \in {"in_progress", "paused", "completed", "cancelled"}
      BY <2>1, TargetType
    <2> HIDE DEF h, to
    <2>4. \A j \in Jobs : j # h.job => job'[j] = job[j]
      BY <1>0, <2>1, <2>2
    <2>5. /\ job'[h.job].status = to /\ job'[h.job].logged = job[h.job].logged \cup {to}
          /\ job'[h.job].started = (job[h.job].started \/ st)
          /\ job'[h.job] \in JobRow
      <3>1. to \in JobStatus
        BY <2>3 DEF JobStatus
      <3>2. job[h.job].logged \cup {to} \in SUBSET JobStatus
        BY <1>0, <2>1, <3>1 DEF JobRow
      <3> QED
        BY <1>0, <2>1, <2>2, <3>1, <3>2 DEF JobRow
    <2>6. job' \in [Jobs -> JobRow]
      BY <1>0, <2>2, <2>4, <2>5
    <2> QED
      BY <2>1, <2>4, <2>5, <2>6 DEF RowStep, h, to
  <1> QED
    BY <1>1, <1>2, <1>3, <1>4, <1>5
       DEF WriteAny, CheckConflict, RowGone, WriteItem, WriteEdit, WriteAssign

-----------------------------------------------------------------------------
(* Appointments and handlers.                                              *)

ApptsOK == /\ appt \in [Appts -> ApptRow]
           /\ \A a \in Free : appt[a] = NoAppt
           /\ \A a \in Appts \ Free : appt[a].span # None

\* The row of one appointment: nothing, or something with a time.
RowOK(row) == row \in ApptRow /\ (row.status = "absent" => row = NoAppt)
              /\ (row.status # "absent" => row.span # None)

LEMMA NoApptOK == RowOK(NoAppt)
  BY DEF RowOK, NoAppt, ApptRow, ApptStatus

LEMMA RowsOK ==
    ApptsOK <=> appt \in [Appts -> ApptRow] /\ \A a \in Appts : RowOK(appt[a])
  BY DEF ApptsOK, RowOK, Free

LEMMA RowsOKNext ==
    ASSUME appt' \in [Appts -> ApptRow], \A a \in Appts : RowOK(appt'[a])
    PROVE  ApptsOK'
  BY DEF ApptsOK, RowOK, Free

LEMMA WritesAppts ==
    ASSUME TypeOK, NEW r \in Requests, HandlerOK(req[r]), WriteAny(r)
    PROVE  ApptsOK'
  <1> DEFINE h == req[r]
  <1>0. ApptsOK /\ h \in Request /\ appt \in [Appts -> ApptRow] /\ \A a \in Appts : RowOK(appt[a])
    BY RowsOK DEF TypeOK, ApptsOK
  <1>1. CASE UNCHANGED appt
    BY <1>0, <1>1, RowsOKNext
  \* A row of its own for a new appointment.
  <1>2. ASSUME NEW j \in Jobs \cup {None}, NEW a \in Appts, h.span \in Spans,
               appt' = [appt EXCEPT ![a] = [status |-> "scheduled", job |-> j,
                                            tech |-> h.tech, span |-> h.span]]
        PROVE  ApptsOK'
    <2> DEFINE row == [status |-> "scheduled", job |-> j, tech |-> h.tech, span |-> h.span]
    <2>1. RowOK(row)
      BY <1>0, <1>2, NoneAssumption DEF RowOK, ApptRow, ApptStatus, Request
    <2>2. row \in ApptRow
      BY <2>1 DEF RowOK
    <2> HIDE DEF row
    <2>3. appt' = [appt EXCEPT ![a] = row]
      BY <1>2 DEF row
    <2> QED
      BY <1>0, <2>1, <2>2, <2>3, RowsOKNext
  \* Another row for an appointment that is there.
  <1>3. ASSUME NEW a \in Appts, NEW row, RowOK(row), appt' = [appt EXCEPT ![a] = row]
        PROVE  ApptsOK'
    <2>1. row \in ApptRow
      BY <1>3 DEF RowOK
    <2> QED
      BY <1>0, <1>3, <2>1, RowsOKNext
  <1>4. CASE WriteSchedule(r)
    <2>1. h.job \in Jobs /\ h.span \in Spans /\ h.appt \in Appts \cup {None}
          /\ h.tech \in Technicians \cup {None}
      BY <1>0, <1>4 DEF HandlerOK, WriteSchedule, Ready, Request
    <2>2. CASE h.appt = None
      <3>1. PICK a \in Free :
               appt' = [appt EXCEPT ![a] = [status |-> "scheduled", job |-> h.job,
                                            tech |-> h.tech, span |-> h.span]]
        BY <1>4, <2>2 DEF WriteSchedule
      <3> QED
        BY <3>1, <2>1, <1>2 DEF Free
    <2>3. CASE h.appt # None
      <3>1. h.appt \in Appts \ Free
        BY <1>4, <2>1, <2>3 DEF WriteSchedule
      <3> DEFINE row == [appt[h.appt] EXCEPT !.status = "scheduled", !.span = h.span,
                                             !.tech = IF h.tech # None THEN h.tech ELSE @]
      <3>2. appt' = [appt EXCEPT ![h.appt].status = RebookedStatus(@),
                                 ![h.appt].span = h.span,
                                 ![h.appt].tech = IF h.tech # None THEN h.tech ELSE @]
        BY <1>4, <2>3 DEF WriteSchedule
      <3>3. appt' = [appt EXCEPT ![h.appt] = row]
        BY <3>1, <3>2, <1>0 DEF RebookedStatus, ApptRow
      <3>4. RowOK(row)
        BY <1>0, <2>1, <3>1, NoneAssumption DEF RowOK, ApptRow, ApptStatus
      <3> QED
        BY <3>1, <3>3, <3>4, <1>3
    <2> QED
      BY <2>2, <2>3
  <1>5. CASE WriteItem(r)
    <2>1. h.span \in Spans /\ h.job \in Jobs \cup {None}
      BY <1>0, <1>5 DEF HandlerOK, WriteItem, Ready, Request
    <2>2. PICK a \in Free :
             appt' = [appt EXCEPT ![a] = [status |-> "scheduled", job |-> h.job,
                                          tech |-> h.tech, span |-> h.span]]
      BY <1>5 DEF WriteItem
    <2> QED
      BY <2>1, <2>2, <1>2 DEF Free
  <1>6. CASE WriteEdit(r)
    <2>1. h.span \in Spans /\ h.appt \in Appts \ Free
      BY <1>0, <1>6 DEF HandlerOK, WriteEdit, Ready, ApptOps
    <2> DEFINE row == [appt[h.appt] EXCEPT !.job = h.job, !.tech = h.tech, !.span = h.span]
    <2>2. appt' = [appt EXCEPT ![h.appt] = row]
      BY <1>6 DEF WriteEdit
    <2>21. h.job \in Jobs \cup {None} /\ h.tech \in Technicians \cup {None}
      BY <1>0 DEF Request
    <2>22. appt[h.appt] \in ApptRow /\ appt[h.appt].status # "absent"
      BY <1>0, <2>1 DEF Free
    <2> HIDE DEF h
    <2>3. RowOK(row)
      BY <2>1, <2>21, <2>22, NoneAssumption DEF RowOK, ApptRow, ApptStatus
    <2> USE DEF h
    <2> QED
      BY <2>1, <2>2, <2>3, <1>3
  <1>7. CASE WriteReschedule(r)
    <2>1. h.span \in Spans /\ h.appt \in Appts \ Free
      BY <1>0, <1>7 DEF HandlerOK, WriteReschedule, Ready, ApptOps
    <2> DEFINE row == [appt[h.appt] EXCEPT !.span = h.span]
    <2>2. appt' = [appt EXCEPT ![h.appt] = row]
      BY <1>7, <1>0, <2>1 DEF WriteReschedule
    <2>3. RowOK(row)
      BY <1>0, <2>1, NoneAssumption DEF RowOK, ApptRow, ApptStatus, Free
    <2> QED
      BY <2>1, <2>2, <2>3, <1>3
  <1>8. CASE WriteAssign(r)
    <2>1. h.appt \in Appts \ Free
      BY <1>0, <1>8 DEF HandlerOK, WriteAssign, Ready, ApptOps
    <2> DEFINE row == [appt[h.appt] EXCEPT !.tech = h.tech]
    <2>2. appt' = [appt EXCEPT ![h.appt] = row]
      BY <1>8, <1>0, <2>1 DEF WriteAssign
    <2>3. RowOK(row)
      BY <1>0, <2>1 DEF RowOK, ApptRow, ApptStatus, Request, Free
    <2> QED
      BY <2>1, <2>2, <2>3, <1>3
  <1>9. CASE WriteUnschedule(r)
    <2>1. h.appt \in Appts
      BY <1>0, <1>9 DEF HandlerOK, WriteUnschedule, Ready, ApptOps
    <2>2. appt' = [appt EXCEPT ![h.appt] = NoAppt]
      BY <1>9 DEF WriteUnschedule, Deleted
    <2> QED
      BY <2>1, <2>2, <1>3, NoApptOK
  <1>10. CASE WriteCancel(r)
    <2>1. h.appt \in Appts \ Free
      BY <1>0, <1>10 DEF HandlerOK, WriteCancel, Ready, ApptOps
    <2> DEFINE row == [appt[h.appt] EXCEPT !.status = "cancelled"]
    <2>2. appt' = [appt EXCEPT ![h.appt] = row]
      BY <1>10, <1>0, <2>1 DEF WriteCancel
    <2>3. RowOK(row)
      BY <1>0, <2>1 DEF RowOK, ApptRow, ApptStatus, Free
    <2> QED
      BY <2>1, <2>2, <2>3, <1>3
  <1>11. CASE WriteJobOp(r) /\ ~ UNCHANGED appt
    <2>1. h.op \in ClosingOps /\ CloseAppts(h.job, Target(h.op))
      BY <1>11 DEF WriteJobOp
    <2>2. Target(h.op) \in {"completed", "cancelled"}
      BY <2>1 DEF ClosingOps, Target
    <2> DEFINE to == Target(h.op)
    <2>3. appt' = [a \in Appts |-> IF a \in OfJob(h.job) /\ appt[a].status \notin {"cancelled", "completed"}
                                   THEN [appt[a] EXCEPT !.status = to] ELSE appt[a]]
      BY <2>1 DEF CloseAppts
    <2> HIDE DEF to
    <2>4. \A a \in Appts : RowOK(appt[a]) /\ a \in OfJob(h.job) => RowOK([appt[a] EXCEPT !.status = to])
      BY <1>0, <2>2 DEF RowOK, ApptRow, ApptStatus, OfJob, to
    <2>5. \A a \in Appts : RowOK(appt'[a]) /\ appt'[a] \in ApptRow
      BY <1>0, <2>3, <2>4 DEF RowOK
    <2>6. appt' \in [Appts -> ApptRow]
      BY <2>3, <2>5
    <2> QED
      BY <2>5, <2>6, RowsOKNext
  <1> QED
    BY <1>1, <1>4, <1>5, <1>6, <1>7, <1>8, <1>9, <1>10, <1>11
       DEF WriteAny, CheckConflict, RowGone

LEMMA WritesRequests ==
    ASSUME TypeOK, HandlersOK, NEW r \in Requests, WriteAny(r)
    PROVE  /\ req[r].op # "idle"
           /\ req' \in [Requests -> Request]
           /\ \A q \in Requests \ {r} : req'[q] = req[q]
           /\ \/ req'[r] = Idle
              \/ /\ req'[r] = [req[r] EXCEPT !.checked = TRUE]
                 /\ req[r].op \in {"edit", "reschedule", "assign"}
                 /\ UNCHANGED job
           /\ UNCHANGED <<begun, overlapped>>
           /\ linked' \subseteq Jobs
  <1>0. req \in [Requests -> Request] /\ linked \subseteq Jobs /\ appt \in [Appts -> ApptRow]
    BY DEF TypeOK
  <1>1. CASE CheckConflict(r)
    <2>1. req' = [req EXCEPT ![r] = IF Conflict(req[r].tech, req[r].span, req[r].appt)
                                    THEN Idle ELSE [req[r] EXCEPT !.checked = TRUE]]
          /\ req[r].op \in {"edit", "reschedule", "assign"}
      BY <1>1 DEF CheckConflict
    <2>2. [req[r] EXCEPT !.checked = TRUE] \in Request
      BY <1>0 DEF Request
    <2> QED
      BY <1>0, <1>1, <2>1, <2>2, IdleType DEF CheckConflict
  <1>2. CASE ~ CheckConflict(r)
    <2>1. Finish(r) /\ req[r].op # "idle"
      BY <1>2 DEF WriteAny, RowGone, WriteSchedule, WriteItem, WriteEdit, WriteReschedule,
                  WriteAssign, WriteUnschedule, WriteCancel, WriteJobOp, Ready, JobOps, ApptOps
    <2>2. req[r].job \in Jobs \cup {None}
      BY <1>0 DEF Request
    <2>3. linked' \subseteq Jobs
      <3>1. CASE UNCHANGED linked
        BY <1>0, <3>1
      <3>2. CASE WriteItem(r)
        BY <1>0, <2>2, <3>2 DEF WriteItem
      <3>3. CASE WriteEdit(r)
        <4>1. req[r].appt \in Appts /\ appt[req[r].appt].job \in Jobs \cup {None}
          BY <1>0, <3>3 DEF HandlersOK, WriteEdit, Ready, ApptOps, ApptRow
        <4>2. linked' = linked \cup ({req[r].job, appt[req[r].appt].job} \ {None})
          BY <3>3 DEF WriteEdit
        <4> QED
          BY <1>0, <2>2, <4>1, <4>2
      <3> QED
        BY <3>1, <3>2, <3>3, <1>2
           DEF WriteAny, RowGone, WriteSchedule, WriteReschedule, WriteAssign,
               WriteUnschedule, WriteCancel, WriteJobOp
    <2> QED
      BY <1>0, <2>1, <2>3, IdleType DEF Finish
  <1> QED
    BY <1>1, <1>2

-----------------------------------------------------------------------------
(* The invariant.                                                          *)

LEMMA HandlersOKAt ==
    ASSUME HandlersOK, NEW r \in Requests PROVE HandlerOK(req[r])
  BY DEF HandlersOK, HandlerOK

LEMMA InitEstablishes == Init => IInv
  <1> SUFFICES ASSUME Init PROVE IInv
    OBVIOUS
  <1>1. \A r \in Requests : req[r] = Idle
    BY DEF Init
  <1>2. TypeOK
    <2>1. job \in [Jobs -> JobRow]
      BY DEF Init, JobRow, JobStatus
    <2>2. appt \in [Appts -> ApptRow] /\ \A a \in Appts : appt[a] = NoAppt /\ a \in Free
      BY NoApptOK DEF Init, RowOK, Free, NoAppt
    <2>3. req \in [Requests -> Request]
      BY IdleType DEF Init
    <2>4. begun \in 0 .. MaxHandlers /\ linked \subseteq Jobs /\ overlapped \in BOOLEAN
      <3>1. MaxHandlers \in Nat /\ 0 \in 0 .. MaxHandlers
        BY BoundAssumption
      <3>2. begun = 0 /\ linked = {} /\ overlapped = FALSE
        BY DEF Init
      <3> QED
        BY <3>1, <3>2
    <2>5. Appts \ Free = {}
      BY <2>2
    <2> QED
      BY <2>1, <2>2, <2>3, <2>4, <2>5 DEF TypeOK, Free
  <1>3. HandlersOK
    BY <1>1, IdleType, OpsDiffer DEF HandlersOK
  <1>4. Underway /\ HistoryTellsStatus /\ CompletedJobsStarted
    BY <1>1, IdleType DEF Init, Underway, HistoryTellsStatus, CompletedJobsStarted
  <1>5. GuardHolds
    BY <1>1, IdleType, OpsDiffer DEF GuardHolds
  <1> QED
    BY <1>2, <1>3, <1>4, <1>5 DEF IInv

LEMMA BeginKeeps ==
    ASSUME IInv, NEW r \in Requests, BeginAny(r)
    PROVE  IInv'
  <1>0. /\ TypeOK /\ HandlersOK /\ Underway /\ HistoryTellsStatus
        /\ CompletedJobsStarted /\ GuardHolds
    BY DEF IInv
  <1>1. PICK h \in Request :
           /\ HandlerOK(h)
           /\ h.op \in JobOps => ValidTransition(job[h.job].status, Target(h.op))
           /\ h.op # "idle"
           /\ Begin(r, h)
    BY <1>0, BeginsLegal
  <1>2. /\ req[r] = Idle
        /\ overlapped' = (overlapped \/ \E q \in Requests : req[q] # Idle)
        /\ begun < (IF overlapped' THEN MaxRacing ELSE MaxHandlers)
        /\ begun' = begun + 1
        /\ req' = [req EXCEPT ![r] = h]
        /\ UNCHANGED <<job, appt, linked>>
    BY <1>1 DEF Begin
  <1>3. req' \in [Requests -> Request] /\ req'[r] = h
        /\ \A q \in Requests \ {r} : req'[q] = req[q]
    <2>1. req \in [Requests -> Request] /\ req' = [req EXCEPT ![r] = h]
      BY <1>0, <1>2 DEF TypeOK
    <2> QED
      BY <2>1
  <1> HIDE DEF HandlerOK
  <1>31. UNCHANGED <<job, appt, linked>>
    BY <1>2
  <1>4. TypeOK'
    <2>1. begun' \in 0 .. MaxHandlers
      BY <1>0, <1>2, BoundAssumption DEF TypeOK
    <2>2. overlapped' \in BOOLEAN
      BY <1>0, <1>2 DEF TypeOK
    <2> QED
      BY <1>0, <1>31, <1>3, <2>1, <2>2 DEF TypeOK, Free
  <1>5. HandlersOK'
    <2> SUFFICES ASSUME NEW q \in Requests
                 PROVE  /\ req'[q].op \in JobOps \cup {"schedule"} => req'[q].job \in Jobs
                        /\ req'[q].op \in ApptOps => req'[q].appt \in Appts
                        /\ req'[q].op \in {"schedule", "createItem", "edit", "reschedule"} => req'[q].span \in Spans
                        /\ req'[q].op = "complete" => job[req'[q].job].started
      BY <1>31 DEF HandlersOK
    <2>1. CASE q = r
      BY <2>1, <1>1, <1>3, Zenon DEF HandlerOK
    <2>2. CASE q # r
      BY <2>2, <1>0, <1>3 DEF HandlersOK
    <2> QED
      BY <2>1, <2>2
  <1>6. Underway' /\ HistoryTellsStatus' /\ CompletedJobsStarted'
    <2>1. h.op \in {"pause", "complete"} => "in_progress" \in job[h.job].logged
      <3> SUFFICES ASSUME h.op \in {"pause", "complete"} PROVE "in_progress" \in job[h.job].logged
        OBVIOUS
      <3>1. h.op \in JobOps /\ Target(h.op) \in {"paused", "completed"}
        BY DEF JobOps, Target
      <3>2. job[h.job].status = "in_progress"
        BY <1>1, <3>1 DEF ValidTransition
      <3>3. h.job \in Jobs
        BY <1>1, <3>1 DEF HandlerOK
      <3> QED
        BY <1>0, <3>2, <3>3 DEF HistoryTellsStatus
    <2> QED
      BY <1>0, <1>3, <1>31, <2>1 DEF Underway, HistoryTellsStatus, CompletedJobsStarted
  <1>7. GuardHolds'
    <2> SUFFICES ASSUME ~ overlapped'
                 PROVE  /\ \A p, q \in Requests : p # q => req'[p] = Idle \/ req'[q] = Idle
                        /\ \A p \in Requests : req'[p].op \in JobOps =>
                              ValidTransition(job[req'[p].job].status, Target(req'[p].op))
      BY <1>2 DEF GuardHolds
    <2>1. \A q \in Requests : req[q] = Idle
      BY <1>2
    <2>2. \A q \in Requests \ {r} : req'[q] = Idle /\ req'[q].op \notin JobOps
      BY <2>1, <1>3, IdleType, OpsDiffer
    <2>3. req'[r].op \in JobOps => ValidTransition(job[req'[r].job].status, Target(req'[r].op))
      BY <1>1, <1>3, Zenon
    <2> QED
      BY <2>2, <2>3
  <1> QED
    BY <1>4, <1>5, <1>6, <1>7 DEF IInv

LEMMA WriteKeeps ==
    ASSUME IInv, NEW r \in Requests, WriteAny(r)
    PROVE  IInv'
  <1>0. /\ TypeOK /\ HandlersOK /\ Underway /\ HistoryTellsStatus
        /\ CompletedJobsStarted /\ GuardHolds /\ HandlerOK(req[r])
    BY HandlersOKAt DEF IInv
  <1>1. job' \in [Jobs -> JobRow] /\ \A j \in Jobs : RowStep(r, j)
    BY <1>0, WritesRows
  <1>2. ApptsOK'
    BY <1>0, WritesAppts
  <1>3. /\ req[r].op # "idle"
        /\ req' \in [Requests -> Request]
        /\ \A q \in Requests \ {r} : req'[q] = req[q]
        /\ \/ req'[r] = Idle
           \/ /\ req'[r] = [req[r] EXCEPT !.checked = TRUE]
              /\ req[r].op \in {"edit", "reschedule", "assign"}
              /\ UNCHANGED job
        /\ UNCHANGED <<begun, overlapped>>
        /\ linked' \subseteq Jobs
    BY <1>0, WritesRequests
  <1>4. TypeOK'
    BY <1>0, <1>1, <1>2, <1>3 DEF TypeOK, ApptsOK
  <1>5. req[r] \in Request
    BY <1>0 DEF TypeOK
  <1>6. HandlersOK'
    <2>1. \A j \in Jobs : job[j].started => job'[j].started
      BY <1>1 DEF RowStep
    <2> SUFFICES ASSUME NEW q \in Requests
                 PROVE  /\ req'[q].op \in JobOps \cup {"schedule"} => req'[q].job \in Jobs
                        /\ req'[q].op \in ApptOps => req'[q].appt \in Appts
                        /\ req'[q].op \in {"schedule", "createItem", "edit", "reschedule"} => req'[q].span \in Spans
                        /\ req'[q].op = "complete" => job'[req'[q].job].started
      BY DEF HandlersOK
    <2>2. CASE req'[q] = req[q]
      BY <1>0, <2>1, <2>2 DEF HandlersOK, JobOps
    <2>3. CASE req'[q] = Idle
      BY <2>3, IdleType, OpsDiffer
    <2>4. CASE q = r /\ req'[r] = [req[r] EXCEPT !.checked = TRUE] /\ UNCHANGED job
      <3>1. /\ req'[r].op = req[r].op /\ req'[r].job = req[r].job
            /\ req'[r].appt = req[r].appt /\ req'[r].span = req[r].span
        BY <2>4, <1>5 DEF Request
      <3> QED
        BY <3>1, <2>4, <1>0 DEF HandlersOK
    <2> QED
      BY <1>3, <2>2, <2>3, <2>4
  <1>7. Underway' /\ HistoryTellsStatus'
    <2>1. \A j \in Jobs : job[j].logged \subseteq job'[j].logged
      BY <1>1 DEF RowStep
    <2>2. Underway'
      <3> SUFFICES ASSUME NEW q \in Requests, req'[q].op \in {"pause", "complete"}
                   PROVE  "in_progress" \in job'[req'[q].job].logged
        BY DEF Underway
      <3>1. req'[q] = req[q]
        BY <1>3, <1>5, IdleType, OpsDiffer DEF Request
      <3>2. req[q].job \in Jobs
        BY <1>0, <3>1 DEF HandlersOK, JobOps
      <3> QED
        BY <1>0, <2>1, <3>1, <3>2 DEF Underway
    <2>3. ASSUME NEW j \in Jobs
          PROVE  /\ job'[j].status \in job'[j].logged \cup {"scheduled"}
                 /\ job'[j].status \in {"draft", "scheduled"} <=> job'[j].logged = {"draft"}
                 /\ job'[j].logged \cap {"paused", "completed"} # {} => "in_progress" \in job'[j].logged
      <3>0. /\ job[j].status \in job[j].logged \cup {"scheduled"}
            /\ job[j].status \in {"draft", "scheduled"} <=> job[j].logged = {"draft"}
            /\ job[j].logged \cap {"paused", "completed"} # {} => "in_progress" \in job[j].logged
        BY <1>0 DEF HistoryTellsStatus
      <3>1. CASE /\ job'[j].logged = job[j].logged
                 /\ \/ job'[j].status = job[j].status
                    \/ {job[j].status, job'[j].status} = {"draft", "scheduled"}
        BY <3>0, <3>1
      <3>2. CASE /\ req[r].op \in JobOps /\ j = req[r].job
                 /\ job'[j].status = Target(req[r].op)
                 /\ job'[j].logged = job[j].logged \cup {Target(req[r].op)}
        <4> DEFINE to == Target(req[r].op)
        <4>1. to \in {"in_progress", "paused", "completed", "cancelled"}
          BY <3>2, TargetType
        <4>2. to \in {"paused", "completed"} => "in_progress" \in job[j].logged
          <5>1. to \in {"paused", "completed"} => req[r].op \in {"pause", "complete"}
            BY <3>2 DEF JobOps, Target
          <5> QED
            BY <1>0, <3>2, <5>1 DEF Underway
        <4> HIDE DEF to
        <4>3. job'[j].status = to /\ job'[j].logged = job[j].logged \cup {to}
          BY <3>2 DEF to
        <4> QED
          BY <3>0, <4>1, <4>2, <4>3
      <3> QED
        BY <1>1, <3>1, <3>2 DEF RowStep
    <2> QED
      BY <2>2, <2>3 DEF HistoryTellsStatus
  <1>8. CompletedJobsStarted'
    <2> SUFFICES ASSUME NEW j \in Jobs, job'[j].status = "completed" PROVE job'[j].started
      BY DEF CompletedJobsStarted
    <2>1. CASE /\ job'[j].started = job[j].started
               /\ \/ job'[j].status = job[j].status
                  \/ {job[j].status, job'[j].status} = {"draft", "scheduled"}
      <3>1. job[j].status = "completed"
        BY <2>1
      <3> QED
        BY <2>1, <3>1, <1>0 DEF CompletedJobsStarted
    <2>2. CASE /\ req[r].op \in JobOps /\ j = req[r].job
               /\ job'[j].status = Target(req[r].op)
               /\ job'[j].started = (job[j].started \/ req[r].op = "start")
      <3>1. req[r].op = "complete"
        BY <2>2 DEF JobOps, Target
      <3> QED
        BY <2>2, <3>1, <1>0 DEF HandlerOK
    <2> QED
      BY <1>1, <2>1, <2>2 DEF RowStep
  <1>9. GuardHolds'
    <2> SUFFICES ASSUME ~ overlapped
                 PROVE  /\ \A p, q \in Requests : p # q => req'[p] = Idle \/ req'[q] = Idle
                        /\ \A p \in Requests : req'[p].op \notin JobOps
      BY <1>3 DEF GuardHolds
    <2>1. \A q \in Requests \ {r} : req'[q] = Idle
      BY <1>0, <1>3, IdleType DEF GuardHolds
    <2>2. req'[r].op \notin JobOps
      BY <1>3, <1>5, IdleType, OpsDiffer DEF Request, JobOps
    <2> QED
      BY <2>1, <2>2, IdleType, OpsDiffer
  <1> QED
    BY <1>4, <1>6, <1>7, <1>8, <1>9 DEF IInv

LEMMA NextKeeps == IInv /\ [Next]_vars => IInv'
  <1> SUFFICES ASSUME IInv, [Next]_vars PROVE IInv'
    OBVIOUS
  <1>1. CASE UNCHANGED vars
    BY <1>1 DEF vars, IInv, TypeOK, Free, HandlersOK, Underway, HistoryTellsStatus,
                CompletedJobsStarted, GuardHolds
  <1> QED
    BY <1>1, Steps, BeginKeeps, WriteKeeps

LEMMA Invariant == Spec => []IInv
  BY InitEstablishes, NextKeeps, PTL DEF Spec

\* Every row keeps the shape the schema gives it, whatever the handlers write
\* by id over what they read.
THEOREM TypeCorrect == Spec => []TypeOK
  BY Invariant, PTL DEF IInv

\* Whatever the interleaving of scheduling and job handlers, a job's history
\* tells what became of it: each job handler writes both in one transaction,
\* and scheduling, which writes none, never moves a job that was begun or
\* closed.
THEOREM HistoryIsTold == Spec => []HistoryTellsStatus
  BY Invariant, PTL DEF IInv

\* Whatever the interleaving, what was completed had been started: complete
\* checks the start time before its write, and nothing ever takes it back.
THEOREM CompletedWasStarted == Spec => []CompletedJobsStarted
  BY Invariant, PTL DEF IInv

LEMMA StepsForward ==
    ASSUME IInv, [Next]_vars, ~ overlapped', NEW j \in Jobs
    PROVE  \/ job'[j].status = job[j].status
           \/ {job[j].status, job'[j].status} = {"draft", "scheduled"}
           \/ job[j].status \in {"draft", "scheduled"} /\ job'[j].status \in {"in_progress", "cancelled"}
           \/ job[j].status = "in_progress" /\ job'[j].status \in {"paused", "completed"}
           \/ job[j].status = "paused" /\ job'[j].status = "in_progress"
  <1>0. TypeOK /\ HandlersOK /\ GuardHolds
    BY DEF IInv
  <1>1. CASE UNCHANGED job
    BY <1>1
  <1>2. CASE \E r \in Requests : BeginAny(r)
    <2>1. UNCHANGED job
      BY <1>0, <1>2, BeginsLegal DEF Begin
    <2> QED
      BY <2>1
  <1>3. ASSUME NEW r \in Requests, WriteAny(r)
        PROVE  \/ job'[j].status = job[j].status
               \/ {job[j].status, job'[j].status} = {"draft", "scheduled"}
               \/ job[j].status \in {"draft", "scheduled"} /\ job'[j].status \in {"in_progress", "cancelled"}
               \/ job[j].status = "in_progress" /\ job'[j].status \in {"paused", "completed"}
               \/ job[j].status = "paused" /\ job'[j].status = "in_progress"
    <2>1. RowStep(r, j) /\ ~ overlapped
      BY <1>0, <1>3, WritesRows, WritesRequests, HandlersOKAt
    <2>2. CASE req[r].op \in JobOps /\ j = req[r].job /\ job'[j].status = Target(req[r].op)
      <3>1. ValidTransition(job[j].status, job'[j].status)
        BY <1>0, <2>1, <2>2 DEF GuardHolds
      <3> QED
        BY <3>1 DEF ValidTransition
    <2> QED
      BY <2>1, <2>2 DEF RowStep
  <1> QED
    BY <1>1, <1>2, <1>3, Steps DEF vars

\* One after the other, the handlers only ever take a job forward: the guard a
\* job handler tested at its beginning still holds at its write.
THEOREM JobsOnlyMoveForward == Spec => JobsMoveForward
  <1>1. IInv /\ [Next]_vars =>
          [~ overlapped' => \A j \in Jobs :
              \/ job'[j].status = job[j].status
              \/ {job[j].status, job'[j].status} = {"draft", "scheduled"}
              \/ job[j].status \in {"draft", "scheduled"} /\ job'[j].status \in {"in_progress", "cancelled"}
              \/ job[j].status = "in_progress" /\ job'[j].status \in {"paused", "completed"}
              \/ job[j].status = "paused" /\ job'[j].status = "in_progress"]_vars
    BY StepsForward
  <1> QED
    BY <1>1, Invariant, PTL DEF Spec, JobsMoveForward
-----------------------------------------------------------------------------
(* The calendar, while handlers run one after the other.                   *)

\* The technician a schedule handler books.
Who(h) == IF h.tech = None /\ h.appt # None THEN appt[h.appt].tech ELSE h.tech

\* Alone, a handler still finds its job and its appointment as it read them.
ReadHolds(h) ==
    /\ h.op = "schedule" => /\ job[h.job].status \in ScheduleFrom
                            /\ h.appt = None => OfJob(h.job) = {}
                            /\ h.appt # None => h.appt \in OfJob(h.job)
    /\ h.op \in ApptOps => h.appt \notin Free
    /\ h.op \in {"reschedule", "unschedule", "cancel"} => h.job = appt[h.appt].job
    /\ h.op = "reschedule" => h.tech = appt[h.appt].tech
    /\ h.op = "assign" => h.span = appt[h.appt].span

\* Alone, what its conflict check found free is free, unless it had nothing to ask.
CheckHolds(h) ==
    /\ h.op = "schedule" => ~ Conflict(Who(h), h.span, h.appt)
    /\ h.op = "createItem" => ~ Conflict(h.tech, h.span, None)
    /\ h.op = "edit" /\ h.checked =>
          \/ ~ Conflict(h.tech, h.span, h.appt)
          \/ h.tech = appt[h.appt].tech /\ h.span = appt[h.appt].span
    /\ h.op \in {"reschedule", "assign"} /\ h.checked => ~ Conflict(h.tech, h.span, h.appt)

BookingsApart ==
    \A a, b \in Appts : \A t \in Technicians :
        a # b /\ Booked(a, t) /\ Booked(b, t) => ~ Overlap(appt[a].span, appt[b].span)

Live(j) == {a \in OfJob(j) : appt[a].status = "scheduled"}

\* A job that only scheduling put on the calendar has one appointment there.
JobOnCalendar(j) ==
    /\ \A a, b \in OfJob(j) : a = b
    /\ job[j].status = "scheduled" => \E a \in Live(j) : appt[a].span = job[j].dates
    /\ job[j].status \in {"draft", "completed", "cancelled"} => Live(j) = {}

Calendar ==
    ~ overlapped => /\ \A r \in Requests : ReadHolds(req[r]) /\ CheckHolds(req[r])
                    /\ BookingsApart
                    /\ \A j \in Jobs \ linked : JobOnCalendar(j)

CalendarInv == IInv /\ Calendar

LEMMA IdleHolds == ReadHolds(Idle) /\ CheckHolds(Idle)
  BY IdleType DEF ReadHolds, CheckHolds, ApptOps

\* What a handler begins with holds when it begins.
LEMMA BeginsFresh ==
    ASSUME TypeOK, NEW r \in Requests, BeginAny(r)
    PROVE  ReadHolds(req'[r]) /\ CheckHolds(req'[r]) /\ UNCHANGED <<job, appt, linked>>
  <1>0. req \in [Requests -> Request]
    BY DEF TypeOK
  <1>00. ASSUME NEW h, Begin(r, h) PROVE req'[r] = h /\ UNCHANGED <<job, appt, linked>>
    BY <1>0, <1>00 DEF Begin
  <1>1. CASE BeginSchedule(r)
    <2>1. PICK j \in Jobs, t \in Technicians \cup {None}, w \in Spans, self \in Technicians :
             /\ job[j].status \in ScheduleFrom
             /\ \E a \in IF OfJob(j) = {} THEN {None} ELSE OfJob(j) :
                   LET kept == IF a = None THEN self ELSE appt[a].tech
                       who  == IF t # None THEN t ELSE kept
                   IN  /\ ~ Conflict(who, w, a)
                       /\ Begin(r, [op |-> "schedule", job |-> j, appt |-> a, span |-> w,
                                    tech |-> IF a = None THEN who ELSE t, checked |-> TRUE])
      BY <1>1, Zenon DEF BeginSchedule
    <2>2. PICK a \in IF OfJob(j) = {} THEN {None} ELSE OfJob(j) :
             LET kept == IF a = None THEN self ELSE appt[a].tech
                 who  == IF t # None THEN t ELSE kept
             IN  /\ ~ Conflict(who, w, a)
                 /\ Begin(r, [op |-> "schedule", job |-> j, appt |-> a, span |-> w,
                              tech |-> IF a = None THEN who ELSE t, checked |-> TRUE])
      BY <2>1, Zenon
    <2> DEFINE kept == IF a = None THEN self ELSE appt[a].tech
               who  == IF t # None THEN t ELSE kept
               h    == [op |-> "schedule", job |-> j, appt |-> a, span |-> w,
                        tech |-> IF a = None THEN who ELSE t, checked |-> TRUE]
    <2>3. req'[r] = h /\ UNCHANGED <<job, appt, linked>> /\ ~ Conflict(who, w, a)
      BY <1>00, <2>2
    <2>4. a = None => OfJob(j) = {}
      <3>1. None \notin OfJob(j)
        BY NoneAssumption DEF OfJob
      <3> QED
        BY <2>2, <3>1
    <2>5. a # None => a \in OfJob(j)
      BY <2>2
    <2>6. Who(h) = who
      BY NoneAssumption DEF Who
    <2>7. ReadHolds(h)
      BY <2>1, <2>4, <2>5, OpsDiffer DEF ReadHolds
    <2>8. CheckHolds(h)
      BY <2>3, <2>6 DEF CheckHolds
    <2> QED
      BY <2>3, <2>7, <2>8
  <1>2. CASE BeginItem(r)
    <2>1. PICK j \in Jobs \cup {None}, t \in Technicians \cup {None}, w \in Spans :
             /\ ~ Conflict(t, w, None)
             /\ Begin(r, [op |-> "createItem", job |-> j, appt |-> None, tech |-> t,
                          span |-> w, checked |-> TRUE])
      BY <1>2 DEF BeginItem
    <2> DEFINE h == [op |-> "createItem", job |-> j, appt |-> None, tech |-> t,
                     span |-> w, checked |-> TRUE]
    <2>2. req'[r] = h /\ UNCHANGED <<job, appt, linked>>
      BY <1>00, <2>1
    <2>3. ReadHolds(h) /\ CheckHolds(h)
      BY <2>1, OpsDiffer DEF ReadHolds, CheckHolds
    <2> QED
      BY <2>2, <2>3
  <1>3. CASE BeginEdit(r)
    <2>1. PICK a \in Appts \ Free, j \in Jobs \cup {None} :
             \/ \E t \in Technicians \cup {None}, w \in Spans :
                   Begin(r, [op |-> "edit", job |-> j, appt |-> a, tech |-> t, span |-> w,
                             checked |-> FALSE])
             \/ Begin(r, [op |-> "edit", job |-> j, appt |-> a, tech |-> appt[a].tech,
                          span |-> appt[a].span, checked |-> TRUE])
      BY <1>3, Zenon DEF BeginEdit
    <2>2. ASSUME NEW t, NEW w, NEW c, c => t = appt[a].tech /\ w = appt[a].span,
                 Begin(r, [op |-> "edit", job |-> j, appt |-> a, tech |-> t, span |-> w,
                           checked |-> c])
          PROVE  ReadHolds(req'[r]) /\ CheckHolds(req'[r]) /\ UNCHANGED <<job, appt, linked>>
      <3> DEFINE h == [op |-> "edit", job |-> j, appt |-> a, tech |-> t, span |-> w,
                       checked |-> c]
      <3>1. req'[r] = h /\ UNCHANGED <<job, appt, linked>>
        BY <1>00, <2>2
      <3>2. h.op = "edit" /\ h.appt = a /\ h.tech = t /\ h.span = w /\ h.checked = c
        OBVIOUS
      <3> HIDE DEF h
      <3>3. ReadHolds(h) /\ CheckHolds(h)
        BY <2>1, <2>2, <3>2 DEF ReadHolds, CheckHolds
      <3> QED
        BY <3>1, <3>3
    <2>3. CASE \E t \in Technicians \cup {None}, w \in Spans :
                   Begin(r, [op |-> "edit", job |-> j, appt |-> a, tech |-> t, span |-> w,
                             checked |-> FALSE])
      <3>1. PICK t \in Technicians \cup {None}, w \in Spans :
                   Begin(r, [op |-> "edit", job |-> j, appt |-> a, tech |-> t, span |-> w,
                             checked |-> FALSE])
        BY <2>3
      <3>2. FALSE => t = appt[a].tech /\ w = appt[a].span
        OBVIOUS
      <3> QED
        BY <2>2, <3>1, <3>2
    <2>4. CASE Begin(r, [op |-> "edit", job |-> j, appt |-> a, tech |-> appt[a].tech,
                         span |-> appt[a].span, checked |-> TRUE])
      BY <2>2, <2>4
    <2> QED
      BY <2>1, <2>3, <2>4
  <1>4. CASE BeginReschedule(r)
    <2>1. PICK a \in Appts \ Free, w \in Spans :
             Begin(r, [op |-> "reschedule", job |-> appt[a].job, appt |-> a,
                       tech |-> appt[a].tech, span |-> w, checked |-> FALSE])
      BY <1>4 DEF BeginReschedule
    <2> DEFINE h == [op |-> "reschedule", job |-> appt[a].job, appt |-> a,
                     tech |-> appt[a].tech, span |-> w, checked |-> FALSE]
    <2>2. req'[r] = h /\ UNCHANGED <<job, appt, linked>>
      BY <1>00, <2>1
    <2>3. ReadHolds(h) /\ CheckHolds(h)
      BY DEF ReadHolds, CheckHolds
    <2> QED
      BY <2>2, <2>3
  <1>5. CASE BeginAssign(r)
    <2>1. PICK a \in Appts \ Free, t \in Technicians :
             Begin(r, [op |-> "assign", job |-> appt[a].job, appt |-> a, tech |-> t,
                       span |-> appt[a].span, checked |-> FALSE])
      BY <1>5 DEF BeginAssign
    <2> DEFINE h == [op |-> "assign", job |-> appt[a].job, appt |-> a, tech |-> t,
                     span |-> appt[a].span, checked |-> FALSE]
    <2>2. req'[r] = h /\ UNCHANGED <<job, appt, linked>>
      BY <1>00, <2>1
    <2>3. ReadHolds(h) /\ CheckHolds(h)
      BY DEF ReadHolds, CheckHolds
    <2> QED
      BY <2>2, <2>3
  <1>6. CASE BeginRemoval(r)
    <2>1. PICK a \in Appts \ Free, op \in {"unschedule", "cancel"} :
             Begin(r, [Idle EXCEPT !.op = op, !.job = appt[a].job, !.appt = a, !.checked = TRUE])
      BY <1>6, Zenon DEF BeginRemoval
    <2> DEFINE h == [Idle EXCEPT !.op = op, !.job = appt[a].job, !.appt = a, !.checked = TRUE]
    <2>2. req'[r] = h /\ UNCHANGED <<job, appt, linked>>
      BY <1>00, <2>1
    <2>3. h.op = op /\ h.appt = a /\ h.job = appt[a].job
      BY DEF Idle
    <2>4. ReadHolds(h) /\ CheckHolds(h)
      BY <2>1, <2>3 DEF ReadHolds, CheckHolds
    <2> QED
      BY <2>2, <2>4
  <1>7. CASE BeginJobOp(r)
    <2>1. PICK j \in Jobs, op \in JobOps :
             Begin(r, [Idle EXCEPT !.op = op, !.job = j, !.checked = TRUE])
      BY <1>7 DEF BeginJobOp
    <2> DEFINE h == [Idle EXCEPT !.op = op, !.job = j, !.checked = TRUE]
    <2>2. req'[r] = h /\ UNCHANGED <<job, appt, linked>>
      BY <1>00, <2>1
    <2>3. h.op = op
      BY DEF Idle
    <2>4. ReadHolds(h) /\ CheckHolds(h)
      BY <2>1, <2>3 DEF ReadHolds, CheckHolds, JobOps, ApptOps
    <2> QED
      BY <2>2, <2>4
  <1> QED
    BY <1>1, <1>2, <1>3, <1>4, <1>5, <1>6, <1>7 DEF BeginAny

LEMMA HoldsUntouched ==
    ASSUME UNCHANGED <<job, appt>>, NEW r \in Requests,
           ReadHolds(req'[r]), CheckHolds(req'[r])
    PROVE  (ReadHolds(req[r]) /\ CheckHolds(req[r]))'
  BY DEF ReadHolds, CheckHolds, OfJob, Free, Who, Conflict, Booked

LEMMA IdleStill ==
    ASSUME NEW r \in Requests, req'[r] = Idle
    PROVE  (ReadHolds(req[r]) /\ CheckHolds(req[r]))'
  BY IdleType DEF ReadHolds, CheckHolds, ApptOps

LEMMA SameCalendar ==
    ASSUME Calendar, ~ overlapped, UNCHANGED <<job, appt>>, linked \subseteq linked'
    PROVE  BookingsApart' /\ \A j \in Jobs \ linked' : JobOnCalendar(j)'
  BY DEF Calendar, BookingsApart, Booked, JobOnCalendar, Live, OfJob

LEMMA BeginKeepsCalendar ==
    ASSUME CalendarInv, NEW r \in Requests, BeginAny(r), ~ overlapped'
    PROVE  Calendar'
  <1>0. TypeOK /\ Calendar
    BY DEF CalendarInv, IInv
  <1>1. PICK h \in Request : Begin(r, h)
    BY <1>0, BeginsLegal
  <1>2. /\ ~ overlapped /\ \A q \in Requests : req[q] = Idle
        /\ req' = [req EXCEPT ![r] = h]
    BY <1>0, <1>1 DEF Begin, TypeOK
  <1>3. ReadHolds(req'[r]) /\ CheckHolds(req'[r]) /\ UNCHANGED <<job, appt, linked>>
    BY <1>0, BeginsFresh
  <1>4. \A q \in Requests : q # r => req'[q] = Idle
    BY <1>0, <1>2 DEF TypeOK
  <1>5. ASSUME NEW q \in Requests PROVE (ReadHolds(req[q]) /\ CheckHolds(req[q]))'
    BY <1>3, <1>4, HoldsUntouched, IdleStill
  <1> QED
    BY <1>0, <1>2, <1>3, <1>5, SameCalendar DEF Calendar

-----------------------------------------------------------------------------
(* What each write makes of the rows.                                      *)

\* Only the row of a is written, and what it was is given up.
RowWritten(a, status, j, t, w) ==
    /\ \A b \in Appts : b # a => appt'[b] = appt[b]
    /\ appt'[a].status = status /\ appt'[a].job = j /\ appt'[a].tech = t /\ appt'[a].span = w

\* One job shows other dates and another status.
JobWritten(k, status, w) ==
    /\ \A j \in Jobs : j # k => job'[j] = job[j]
    /\ k \in Jobs => job'[k].status = status /\ job'[k].dates = w

LEMMA NewRow ==
    ASSUME TypeOK, NEW a \in Appts, NEW j, NEW t, NEW w,
           appt' = [appt EXCEPT ![a] = [status |-> "scheduled", job |-> j, tech |-> t, span |-> w]]
    PROVE  RowWritten(a, "scheduled", j, t, w)
  <1>1. appt \in [Appts -> ApptRow]
    BY DEF TypeOK
  <1> QED
    BY <1>1 DEF RowWritten

LEMMA ScheduleRows ==
    ASSUME TypeOK, NEW r \in Requests, HandlerOK(req[r]), ReadHolds(req[r]), WriteSchedule(r)
    PROVE  \E a \in Appts :
              /\ a = req[r].appt \/ (req[r].appt = None /\ a \in Free)
              /\ RowWritten(a, "scheduled", req[r].job, Who(req[r]), req[r].span)
              /\ JobWritten(req[r].job, IF job[req[r].job].status = "draft" THEN "scheduled"
                                        ELSE job[req[r].job].status, req[r].span)
  <1> DEFINE h == req[r]
  <1>0. h \in Request /\ appt \in [Appts -> ApptRow] /\ job \in [Jobs -> JobRow]
    BY DEF TypeOK
  <1>1. h.op = "schedule" /\ h.job \in Jobs
    BY DEF WriteSchedule, Ready, HandlerOK
  <1>2. JobWritten(h.job, IF job[h.job].status = "draft" THEN "scheduled"
                          ELSE job[h.job].status, h.span)
    <2>1. job' = [job EXCEPT ![h.job].dates = h.span,
                             ![h.job].status = IF @ = "draft" THEN "scheduled" ELSE @]
      BY DEF WriteSchedule
    <2> HIDE DEF h
    <2> QED
      BY <1>0, <1>1, <2>1 DEF JobWritten, JobRow
  <1>3. CASE h.appt = None
    <2>1. PICK a \in Free :
             appt' = [appt EXCEPT ![a] = [status |-> "scheduled", job |-> h.job,
                                          tech |-> h.tech, span |-> h.span]]
      BY <1>3 DEF WriteSchedule
    <2>2. a \in Appts /\ Who(h) = h.tech
      BY <1>3 DEF Free, Who
    <2> QED
      BY <1>2, <1>3, <2>1, <2>2, NewRow
  <1>4. CASE h.appt # None
    <2>1. h.appt \in Appts /\ appt[h.appt].job = h.job
      BY <1>1, <1>4 DEF ReadHolds, OfJob
    <2>2. appt' = [appt EXCEPT ![h.appt].status = RebookedStatus(@),
                               ![h.appt].span = h.span,
                               ![h.appt].tech = IF h.tech # None THEN h.tech ELSE @]
      BY <1>4 DEF WriteSchedule
    <2>3. Who(h) = IF h.tech # None THEN h.tech ELSE appt[h.appt].tech
      BY <1>4 DEF Who
    <2> DEFINE old == appt[h.appt]
               w   == h.span
               who == IF h.tech # None THEN h.tech ELSE old.tech
               row == [old EXCEPT !.status = "scheduled", !.span = w, !.tech = who]
    <2>4. appt' = [appt EXCEPT ![h.appt] = row]
      BY <1>0, <2>1, <2>2 DEF RebookedStatus, ApptRow
    <2>5. /\ row.status = "scheduled" /\ row.span = h.span /\ row.tech = Who(h)
          /\ row.job = h.job
      <3>1. old \in ApptRow /\ old.job = h.job /\ who = Who(h)
        BY <1>0, <2>1, <2>3
      <3>2. w = h.span
        OBVIOUS
      <3> HIDE DEF h, old, who, w
      <3>3. /\ row.status = "scheduled" /\ row.span = w /\ row.tech = who
            /\ row.job = old.job
        BY <3>1 DEF ApptRow
      <3> QED
        BY <3>1, <3>2, <3>3
    <2> HIDE DEF row
    <2>6. RowWritten(h.appt, "scheduled", h.job, Who(h), h.span)
      BY <1>0, <2>1, <2>4, <2>5 DEF RowWritten
    <2> QED
      BY <1>2, <2>1, <2>6
  <1> QED
    BY <1>3, <1>4

LEMMA PutBackRow ==
    ASSUME TypeOK, NEW k, PutBack(k)
    PROVE  JobWritten(k, StatusPutBack(job[k].status), None)
  <1>1. job \in [Jobs -> JobRow]
    BY DEF TypeOK
  <1> QED
    BY <1>1 DEF PutBack, JobWritten, JobRow

LEMMA ConflictWider ==
    ASSUME NEW t, NEW w, NEW a \in Appts, ~ Conflict(t, w, None)
    PROVE  ~ Conflict(t, w, a)
  BY NoneAssumption DEF Conflict

\* Bookings stay apart when a booking is where nobody is booked, or where it was.
LEMMA ApartAfter ==
    ASSUME BookingsApart, NEW a \in Appts, NEW status, NEW j, NEW t, NEW w,
           RowWritten(a, status, j, t, w),
           status = "scheduled" =>
              \/ ~ Conflict(t, w, a)
              \/ appt[a].status = "scheduled" /\ appt[a].tech = t /\ appt[a].span = w
    PROVE  BookingsApart'
  <1>1. ASSUME NEW b \in Appts, NEW u \in Technicians, b # a, Booked(a, u)', Booked(b, u)'
        PROVE  ~ Overlap(appt'[a].span, appt'[b].span) /\ ~ Overlap(appt'[b].span, appt'[a].span)
    <2>1. status = "scheduled" /\ t = u /\ appt'[b] = appt[b] /\ appt'[a].span = w
      BY <1>1 DEF Booked, Blocking, RowWritten
    <2>2. Booked(b, u)
      BY <1>1, <2>1 DEF Booked
    <2>3. t # None
      BY <2>1, NoneAssumption
    <2>4. CASE ~ Conflict(t, w, a)
      <3>1. ~ Overlap(appt[b].span, w)
        BY <1>1, <2>1, <2>2, <2>3, <2>4 DEF Conflict
      <3> QED
        BY <2>1, <3>1 DEF Overlap
    <2>5. CASE appt[a].status = "scheduled" /\ appt[a].tech = t /\ appt[a].span = w
      <3>1. Booked(a, u)
        BY <2>1, <2>5 DEF Booked, Blocking
      <3> QED
        BY <1>1, <2>1, <2>2, <2>5, <3>1 DEF BookingsApart
    <2> QED
      BY <2>1, <2>4, <2>5
  <1>2. ASSUME NEW b \in Appts, NEW c \in Appts, NEW u \in Technicians,
               b # a, c # a, b # c, Booked(b, u)', Booked(c, u)'
        PROVE  ~ Overlap(appt'[b].span, appt'[c].span)
    <2>1. appt'[b] = appt[b] /\ appt'[c] = appt[c]
      BY <1>2 DEF RowWritten
    <2>2. Booked(b, u) /\ Booked(c, u)
      BY <1>2, <2>1 DEF Booked
    <2> QED
      BY <1>2, <2>1, <2>2 DEF BookingsApart
  <1> QED
    BY <1>1, <1>2 DEF BookingsApart

\* The calendar of a job whose row and appointments are not written stays.
LEMMA Elsewhere ==
    ASSUME NEW j \in Jobs, JobOnCalendar(j), job'[j] = job[j],
           \A b \in Appts : \/ appt'[b] = appt[b]
                            \/ b \notin OfJob(j) /\ b \notin OfJob(j)'
    PROVE  JobOnCalendar(j)'
  <1>1. \A b \in Appts : b \in OfJob(j)' <=> b \in OfJob(j)
    BY DEF OfJob
  <1>2. OfJob(j)' = OfJob(j) /\ OfJob(j) \subseteq Appts
    BY <1>1 DEF OfJob
  <1>3. \A b \in OfJob(j) : appt'[b] = appt[b]
    BY <1>2
  <1>4. Live(j)' = Live(j) /\ Live(j) \subseteq OfJob(j)
    BY <1>2, <1>3 DEF Live
  <1> QED
    BY <1>2, <1>3, <1>4 DEF JobOnCalendar

LEMMA RowElsewhere ==
    ASSUME NEW j \in Jobs, JobOnCalendar(j), job'[j] = job[j],
           NEW a \in Appts, NEW status, NEW k, NEW t, NEW w, RowWritten(a, status, k, t, w),
           appt[a].status = "absent" \/ appt[a].job # j, status = "absent" \/ k # j
    PROVE  JobOnCalendar(j)'
  <1>1. \A b \in Appts : \/ appt'[b] = appt[b]
                         \/ b \notin OfJob(j) /\ b \notin OfJob(j)'
    BY DEF RowWritten, OfJob
  <1> QED
    BY <1>1, Elsewhere

\* The calendar of a job of which one appointment is all that it has.
LEMMA OneRow ==
    ASSUME NEW j \in Jobs, NEW a \in Appts, OfJob(j) \subseteq {a},
           NEW status, NEW t, NEW w, RowWritten(a, status, j, t, w), status \in ApptStatus,
           job'[j].status = "scheduled" => status = "scheduled" /\ w = job'[j].dates,
           job'[j].status \in {"draft", "completed", "cancelled"} => status # "scheduled"
    PROVE  JobOnCalendar(j)'
  <1>1. \A b \in Appts : b \in OfJob(j)' => b = a
    BY DEF RowWritten, OfJob
  <1>2. \A b \in OfJob(j)' : b = a
    BY <1>1 DEF OfJob
  <1>3. \A b \in Live(j)' : b = a /\ status = "scheduled"
    BY <1>2 DEF Live, RowWritten
  <1>4. status = "scheduled" => a \in Live(j)' /\ appt'[a].span = w
    BY DEF Live, OfJob, RowWritten
  <1> QED
    BY <1>2, <1>3, <1>4 DEF JobOnCalendar

-----------------------------------------------------------------------------
(* The writes, each alone.                                                 *)

\* What the calendar says of every booking and of every job.
CalendarRows == BookingsApart /\ \A j \in Jobs \ linked : JobOnCalendar(j)

LEMMA ScheduleKeeps ==
    ASSUME TypeOK, CalendarRows, NEW r \in Requests, HandlerOK(req[r]), ReadHolds(req[r]),
           CheckHolds(req[r]), WriteSchedule(r)
    PROVE  CalendarRows'
  <1> DEFINE h  == req[r]
             to == IF job[h.job].status = "draft" THEN "scheduled" ELSE job[h.job].status
  <1>1. /\ h.op = "schedule" /\ h.job \in Jobs /\ UNCHANGED linked
        /\ job[h.job].status \in ScheduleFrom
        /\ h.appt = None => OfJob(h.job) = {}
        /\ h.appt # None => h.appt \in OfJob(h.job)
        /\ ~ Conflict(Who(h), h.span, h.appt)
    BY DEF WriteSchedule, Ready, HandlerOK, ReadHolds, CheckHolds
  <1>2. PICK a \in Appts :
           /\ a = h.appt \/ (h.appt = None /\ a \in Free)
           /\ RowWritten(a, "scheduled", h.job, Who(h), h.span)
           /\ JobWritten(h.job, to, h.span)
    BY ScheduleRows
  <1> HIDE DEF h
  <1>3. BookingsApart'
    <2>1. ~ Conflict(Who(h), h.span, a)
      BY <1>1, <1>2, ConflictWider
    <2> QED
      BY <1>2, <2>1, ApartAfter DEF CalendarRows
  <1>4. ASSUME NEW j \in Jobs, j \notin linked PROVE JobOnCalendar(j)'
    <2>1. JobOnCalendar(j)
      BY <1>4 DEF CalendarRows
    <2>2. a \in Free \/ a \in OfJob(h.job)
      BY <1>1, <1>2, NoneAssumption DEF OfJob
    <2>3. CASE j # h.job
      <3>1. job'[j] = job[j]
        BY <1>2, <2>3 DEF JobWritten
      <3>2. appt[a].status = "absent" \/ appt[a].job # j
        BY <2>2, <2>3 DEF Free, OfJob
      <3> QED
        BY <1>2, <2>1, <2>3, <3>1, <3>2, RowElsewhere
    <2>4. CASE j = h.job
      <3>1. OfJob(j) \subseteq {a}
        <4>1. CASE h.appt = None
          BY <1>1, <2>4, <4>1
        <4>2. CASE h.appt # None
          BY <1>1, <1>2, <2>1, <2>4, <4>2 DEF JobOnCalendar
        <4> QED
          BY <4>1, <4>2
      <3>2. job'[j].status = to /\ job'[j].dates = h.span
        BY <1>1, <1>2, <2>4 DEF JobWritten
      <3>3. to \notin {"draft", "completed", "cancelled"}
        BY <1>1, OpenAssumption
      <3>4. RowWritten(a, "scheduled", j, Who(h), h.span)
        BY <1>2, <2>4
      <3> HIDE DEF to
      <3> QED
        BY <3>1, <3>2, <3>3, <3>4, OneRow DEF ApptStatus
    <2> QED
      BY <2>3, <2>4
  <1> QED
    BY <1>1, <1>3, <1>4 DEF CalendarRows

LEMMA ItemKeeps ==
    ASSUME TypeOK, CalendarRows, NEW r \in Requests, CheckHolds(req[r]), WriteItem(r)
    PROVE  CalendarRows'
  <1> DEFINE h == req[r]
  <1>1. PICK a \in Free :
           appt' = [appt EXCEPT ![a] = [status |-> "scheduled", job |-> h.job,
                                        tech |-> h.tech, span |-> h.span]]
    BY DEF WriteItem
  <1>2. a \in Appts /\ appt[a].status = "absent"
    BY DEF Free
  <1>3. UNCHANGED job /\ linked' = linked \cup ({h.job} \ {None})
    BY DEF WriteItem
  <1>4. ~ Conflict(h.tech, h.span, a)
    <2>1. ~ Conflict(h.tech, h.span, None)
      BY DEF WriteItem, Ready, CheckHolds
    <2> QED
      BY <1>2, <2>1, ConflictWider
  <1>5. RowWritten(a, "scheduled", h.job, h.tech, h.span)
    BY <1>1, <1>2, NewRow
  <1> HIDE DEF h
  <1>6. BookingsApart'
    BY <1>2, <1>4, <1>5, ApartAfter DEF CalendarRows
  <1>7. ASSUME NEW j \in Jobs, j \notin linked' PROVE JobOnCalendar(j)'
    <2>1. JobOnCalendar(j) /\ j # h.job /\ job'[j] = job[j]
      BY <1>3, <1>7, NoneAssumption DEF CalendarRows
    <2> QED
      BY <1>2, <1>5, <2>1, RowElsewhere
  <1> QED
    BY <1>6, <1>7 DEF CalendarRows

\* A row written over an appointment that is there, its status as it was.
LEMMA OverRow ==
    ASSUME TypeOK, NEW a \in Appts, NEW row,
           appt' = [appt EXCEPT ![a] = row]
    PROVE  RowWritten(a, row.status, row.job, row.tech, row.span)
  <1>1. appt \in [Appts -> ApptRow]
    BY DEF TypeOK
  <1> QED
    BY <1>1 DEF RowWritten

LEMMA EditKeeps ==
    ASSUME TypeOK, CalendarRows, NEW r \in Requests, HandlerOK(req[r]), CheckHolds(req[r]),
           WriteEdit(r)
    PROVE  CalendarRows'
  <1> DEFINE h   == req[r]
             old == appt[h.appt]
  <1>1. /\ h.appt \in Appts /\ old \in ApptRow /\ old.status # "absent"
        /\ UNCHANGED job /\ linked' = linked \cup ({h.job, old.job} \ {None})
        /\ ~ Conflict(h.tech, h.span, h.appt) \/ (h.tech = old.tech /\ h.span = old.span)
    BY DEF WriteEdit, Ready, HandlerOK, CheckHolds, ApptOps, TypeOK, Free
  <1> DEFINE row == [old EXCEPT !.job = h.job, !.tech = h.tech, !.span = h.span]
  <1>2. appt' = [appt EXCEPT ![h.appt] = row]
    BY DEF WriteEdit
  <1> HIDE DEF h, old
  <1>3. row.status = old.status /\ row.job = h.job /\ row.tech = h.tech /\ row.span = h.span
    BY <1>1 DEF ApptRow
  <1> HIDE DEF row
  <1>4. RowWritten(h.appt, old.status, h.job, h.tech, h.span)
    BY <1>1, <1>2, <1>3, OverRow
  <1>5. BookingsApart'
    BY <1>1, <1>4, ApartAfter DEF CalendarRows, old
  <1>6. ASSUME NEW j \in Jobs, j \notin linked' PROVE JobOnCalendar(j)'
    <2>1. JobOnCalendar(j) /\ j # h.job /\ j # old.job /\ job'[j] = job[j]
      BY <1>1, <1>6, NoneAssumption DEF CalendarRows
    <2> QED
      BY <1>1, <1>4, <2>1, RowElsewhere DEF old
  <1> QED
    BY <1>5, <1>6 DEF CalendarRows

LEMMA RescheduleKeeps ==
    ASSUME TypeOK, CalendarRows, NEW r \in Requests, HandlerOK(req[r]), ReadHolds(req[r]),
           CheckHolds(req[r]), WriteReschedule(r)
    PROVE  CalendarRows'
  <1> DEFINE h   == req[r]
             old == appt[h.appt]
             row == [old EXCEPT !.span = h.span]
  <1>1. /\ h.appt \in Appts /\ old \in ApptRow /\ old.status # "absent" /\ UNCHANGED linked
        /\ h.job = old.job /\ h.tech = old.tech
        /\ ~ Conflict(h.tech, h.span, h.appt)
    BY DEF WriteReschedule, Ready, HandlerOK, ReadHolds, CheckHolds, ApptOps, TypeOK, Free
  <1>2. appt' = [appt EXCEPT ![h.appt] = row]
    BY <1>1 DEF WriteReschedule, TypeOK
  <1>3. \A j \in Jobs : job'[j] = IF j = h.job THEN [job[j] EXCEPT !.dates = h.span] ELSE job[j]
    BY DEF WriteReschedule
  <1>30. job \in [Jobs -> JobRow]
    BY DEF TypeOK
  <1> HIDE DEF h, old
  <1>31. /\ \A j \in Jobs : j # h.job => job'[j] = job[j]
         /\ h.job \in Jobs => job'[h.job].status = job[h.job].status /\ job'[h.job].dates = h.span
    BY <1>3, <1>30 DEF JobRow
  <1>32. row.status = old.status /\ row.job = h.job /\ row.tech = h.tech /\ row.span = h.span
    BY <1>1 DEF ApptRow
  <1> HIDE DEF row
  <1>4. RowWritten(h.appt, old.status, h.job, h.tech, h.span)
    BY <1>1, <1>2, <1>32, OverRow
  <1>5. BookingsApart'
    BY <1>1, <1>4, ApartAfter DEF CalendarRows
  <1>6. ASSUME NEW j \in Jobs, j \notin linked PROVE JobOnCalendar(j)'
    <2>1. JobOnCalendar(j)
      BY <1>6 DEF CalendarRows
    <2>2. CASE j # h.job
      BY <1>1, <1>31, <1>4, <2>1, <2>2, RowElsewhere DEF old
    <2>3. CASE j = h.job
      <3>1. h.appt \in OfJob(j) /\ OfJob(j) \subseteq {h.appt}
        BY <1>1, <2>1, <2>3 DEF JobOnCalendar, OfJob, old
      <3>2. job[j].status = "scheduled" => old.status = "scheduled"
        BY <2>1, <3>1 DEF JobOnCalendar, Live, old
      <3>3. job[j].status \in {"draft", "completed", "cancelled"} => old.status # "scheduled"
        BY <2>1, <3>1 DEF JobOnCalendar, Live, old
      <3>4. old.status \in ApptStatus
        BY <1>1 DEF ApptRow
      <3> QED
        BY <1>1, <1>31, <1>4, <2>3, <3>1, <3>2, <3>3, <3>4, OneRow
    <2> QED
      BY <2>2, <2>3
  <1> QED
    BY <1>1, <1>5, <1>6 DEF CalendarRows

LEMMA AssignKeeps ==
    ASSUME TypeOK, CalendarRows, NEW r \in Requests, HandlerOK(req[r]), ReadHolds(req[r]),
           CheckHolds(req[r]), WriteAssign(r)
    PROVE  CalendarRows'
  <1> DEFINE h   == req[r]
             old == appt[h.appt]
             row == [old EXCEPT !.tech = h.tech]
  <1>1. /\ h.appt \in Appts /\ old \in ApptRow /\ old.status # "absent"
        /\ UNCHANGED <<job, linked>>
        /\ h.span = old.span
        /\ ~ Conflict(h.tech, h.span, h.appt)
    BY DEF WriteAssign, Ready, HandlerOK, ReadHolds, CheckHolds, ApptOps, TypeOK, Free
  <1>2. appt' = [appt EXCEPT ![h.appt] = row]
    BY <1>1 DEF WriteAssign, TypeOK
  <1> HIDE DEF h, old
  <1>3. row.status = old.status /\ row.job = old.job /\ row.tech = h.tech /\ row.span = h.span
    BY <1>1 DEF ApptRow
  <1> HIDE DEF row
  <1>4. RowWritten(h.appt, old.status, old.job, h.tech, h.span)
    BY <1>1, <1>2, <1>3, OverRow
  <1>5. BookingsApart'
    BY <1>1, <1>4, ApartAfter DEF CalendarRows
  <1>6. ASSUME NEW j \in Jobs, j \notin linked PROVE JobOnCalendar(j)'
    <2>1. JobOnCalendar(j) /\ job'[j] = job[j]
      BY <1>1, <1>6 DEF CalendarRows
    <2>2. CASE j # old.job
      BY <1>1, <1>4, <2>1, <2>2, RowElsewhere DEF old
    <2>3. CASE j = old.job
      <3>1. h.appt \in OfJob(j) /\ OfJob(j) \subseteq {h.appt}
        BY <1>1, <2>1, <2>3 DEF JobOnCalendar, OfJob, old
      <3>2. job[j].status = "scheduled" => old.status = "scheduled" /\ old.span = job[j].dates
        BY <2>1, <3>1 DEF JobOnCalendar, Live, old
      <3>3. job[j].status \in {"draft", "completed", "cancelled"} => old.status # "scheduled"
        BY <2>1, <3>1 DEF JobOnCalendar, Live, old
      <3>4. old.status \in ApptStatus
        BY <1>1 DEF ApptRow
      <3>5. RowWritten(h.appt, old.status, j, h.tech, h.span)
        BY <1>4, <2>3
      <3> QED
        BY <1>1, <2>1, <3>1, <3>2, <3>3, <3>4, <3>5, OneRow
    <2> QED
      BY <2>2, <2>3
  <1> QED
    BY <1>1, <1>5, <1>6 DEF CalendarRows

\* An appointment that leaves the calendar puts its job back.
LEMMA RemovalKeeps ==
    ASSUME TypeOK, CalendarRows, NEW r \in Requests, HandlerOK(req[r]), ReadHolds(req[r]),
           WriteUnschedule(r) \/ WriteCancel(r)
    PROVE  CalendarRows'
  <1> DEFINE h   == req[r]
             old == appt[h.appt]
             row == IF h.op = "unschedule" THEN NoAppt ELSE [old EXCEPT !.status = "cancelled"]
  <1>1. /\ h.appt \in Appts /\ old \in ApptRow /\ old.status # "absent"
        /\ UNCHANGED linked
        /\ h.job = old.job
        /\ PutBack(h.job)
    BY DEF WriteUnschedule, WriteCancel, Ready, HandlerOK, ReadHolds, ApptOps, TypeOK, Free
  <1>2. appt' = [appt EXCEPT ![h.appt] = row]
    <2>1. CASE WriteUnschedule(r)
      BY <2>1 DEF WriteUnschedule, Ready, Deleted
    <2>2. CASE WriteCancel(r)
      BY <1>1, <2>2 DEF WriteCancel, Ready, TypeOK
    <2> QED
      BY <2>1, <2>2
  <1>3. JobWritten(h.job, StatusPutBack(job[h.job].status), None)
    BY <1>1, PutBackRow
  <1> HIDE DEF h, old
  <1>4. row.status \in {"absent", "cancelled"} /\ (row.status = "absent" \/ row.job = h.job)
    BY <1>1 DEF ApptRow, NoAppt
  <1> HIDE DEF row
  <1>5. RowWritten(h.appt, row.status, row.job, row.tech, row.span)
    BY <1>1, <1>2, OverRow
  <1>6. BookingsApart'
    BY <1>1, <1>4, <1>5, ApartAfter DEF CalendarRows
  <1>7. ASSUME NEW j \in Jobs, j \notin linked PROVE JobOnCalendar(j)'
    <2>1. JobOnCalendar(j)
      BY <1>7 DEF CalendarRows
    <2>2. CASE j # h.job
      <3>1. job'[j] = job[j]
        BY <1>3, <2>2 DEF JobWritten
      <3> QED
        BY <1>1, <1>4, <1>5, <2>1, <2>2, <3>1, RowElsewhere DEF old
    <2>3. CASE j = h.job
      <3>1. OfJob(j) \subseteq {h.appt}
        BY <1>1, <2>1, <2>3 DEF JobOnCalendar, OfJob, old
      <3>2. job'[j].status # "scheduled"
        BY <1>3, <2>3 DEF JobWritten, StatusPutBack
      <3>3. \A b \in OfJob(j)' : b = h.appt /\ appt'[b].status = row.status
        BY <1>5, <3>1 DEF OfJob, RowWritten
      <3>4. Live(j)' = {}
        BY <1>4, <3>3 DEF Live
      <3> QED
        BY <3>2, <3>3, <3>4 DEF JobOnCalendar
    <2> QED
      BY <2>2, <2>3
  <1> QED
    BY <1>1, <1>6, <1>7 DEF CalendarRows

\* A job handler closes appointments of its own job and books nothing.
LEMMA JobOpKeeps ==
    ASSUME TypeOK, CalendarRows, NEW r \in Requests, HandlerOK(req[r]), WriteJobOp(r)
    PROVE  CalendarRows'
  <1> DEFINE h  == req[r]
             to == Target(h.op)
  <1>1. h.op \in JobOps /\ h.job \in Jobs /\ UNCHANGED linked
    BY DEF WriteJobOp, HandlerOK
  <1>2. to \in {"in_progress", "paused", "completed", "cancelled"}
    BY <1>1, TargetType
  <1>3. /\ \A j \in Jobs : j # h.job => job'[j] = job[j]
        /\ job'[h.job].status = to
    <2>1. job \in [Jobs -> JobRow]
      BY DEF TypeOK
    <2>2. job' = [job EXCEPT ![h.job].status = to, ![h.job].logged = @ \cup {to},
                             ![h.job].started = @ \/ h.op = "start"]
      BY DEF WriteJobOp, Advance
    <2> HIDE DEF h, to
    <2> QED
      BY <1>1, <2>1, <2>2 DEF JobRow
  <1>4. ASSUME NEW a \in Appts
        PROVE  /\ a \notin OfJob(h.job) => appt'[a] = appt[a]
               /\ /\ appt'[a].job = appt[a].job /\ appt'[a].tech = appt[a].tech
                  /\ appt'[a].span = appt[a].span
               /\ \/ appt'[a].status = appt[a].status
                  \/ appt'[a].status = to /\ h.op \in ClosingOps /\ a \in OfJob(h.job)
               /\ h.op \in ClosingOps /\ a \in OfJob(h.job) => appt'[a].status # "scheduled"
    <2>0. appt[a] \in ApptRow
      BY DEF TypeOK
    <2>1. CASE h.op \notin ClosingOps
      BY <2>1 DEF WriteJobOp
    <2>2. CASE h.op \in ClosingOps
      <3>1. appt'[a] = IF a \in OfJob(h.job) /\ appt[a].status \notin {"cancelled", "completed"}
                       THEN [appt[a] EXCEPT !.status = to] ELSE appt[a]
        BY <2>2 DEF WriteJobOp, CloseAppts
      <3> HIDE DEF to, h
      <3> QED
        BY <1>2, <2>0, <2>2, <3>1 DEF ApptRow
    <2> QED
      BY <2>1, <2>2
  <1>5. h.op \in ClosingOps <=> to \in {"completed", "cancelled"}
    BY <1>1 DEF ClosingOps, Target, JobOps
  <1> HIDE DEF h, to
  <1>6. BookingsApart'
    <2>1. ASSUME NEW a \in Appts, NEW t \in Technicians, Booked(a, t)'
          PROVE  Booked(a, t) /\ appt'[a].span = appt[a].span
      BY <1>2, <1>4, <2>1 DEF Booked, Blocking
    <2> QED
      BY <2>1 DEF BookingsApart, CalendarRows
  <1>7. ASSUME NEW j \in Jobs, j \notin linked PROVE JobOnCalendar(j)'
    <2>1. JobOnCalendar(j)
      BY <1>7 DEF CalendarRows
    <2>2. CASE j # h.job
      <3>1. \A b \in Appts : \/ appt'[b] = appt[b]
                             \/ b \notin OfJob(j) /\ b \notin OfJob(j)'
        BY <1>4, <2>2 DEF OfJob
      <3> QED
        BY <1>3, <2>1, <2>2, <3>1, Elsewhere
    <2>3. CASE j = h.job
      <3>1. \A a \in Appts : a \in OfJob(j)' => a \in OfJob(j)
        BY <1>2, <1>4, <2>3 DEF OfJob
      <3>2. OfJob(j)' \subseteq OfJob(j) /\ OfJob(j) \subseteq Appts
        BY <3>1 DEF OfJob
      <3>3. h.op \in ClosingOps => Live(j)' = {}
        BY <1>4, <2>3, <3>2 DEF Live
      <3>4. job'[j].status = to
        BY <1>3, <2>3
      <3> QED
        BY <1>2, <1>5, <2>1, <3>2, <3>3, <3>4 DEF JobOnCalendar
    <2> QED
      BY <2>2, <2>3
  <1> QED
    BY <1>1, <1>6, <1>7 DEF CalendarRows

LEMMA CheckKeeps ==
    ASSUME TypeOK, NEW r \in Requests, ReadHolds(req[r]), CheckConflict(r)
    PROVE  /\ UNCHANGED <<job, appt, linked>>
           /\ (ReadHolds(req[r]) /\ CheckHolds(req[r]))'
  <1> DEFINE h == req[r]
             n == [h EXCEPT !.checked = TRUE]
  <1>0. req \in [Requests -> Request] /\ h \in Request
    BY DEF TypeOK
  <1>1. /\ UNCHANGED <<job, appt, linked>>
        /\ h.op \in {"edit", "reschedule", "assign"}
        /\ req'[r] = IF Conflict(h.tech, h.span, h.appt) THEN Idle ELSE n
    BY <1>0 DEF CheckConflict
  <1>2. n.op = h.op /\ n.job = h.job /\ n.appt = h.appt /\ n.tech = h.tech /\ n.span = h.span
    BY <1>0 DEF Request
  <1>3. CASE Conflict(h.tech, h.span, h.appt)
    BY <1>1, <1>3, IdleStill
  <1>4. CASE ~ Conflict(h.tech, h.span, h.appt)
    <2> HIDE DEF n
    <2>1. req'[r] = n /\ ReadHolds(n) /\ CheckHolds(n)
      BY <1>1, <1>2, <1>4 DEF ReadHolds, CheckHolds
    <2> QED
      BY <1>1, <2>1, HoldsUntouched
  <1> QED
    BY <1>1, <1>3, <1>4

LEMMA WriteKeepsCalendar ==
    ASSUME CalendarInv, NEW r \in Requests, WriteAny(r), ~ overlapped'
    PROVE  Calendar'
  <1>0. TypeOK /\ HandlersOK /\ HandlerOK(req[r]) /\ GuardHolds /\ Calendar
    BY HandlersOKAt DEF CalendarInv, IInv
  <1>1. /\ req[r].op # "idle" /\ UNCHANGED overlapped
        /\ \A q \in Requests \ {r} : req'[q] = req[q]
    BY <1>0, WritesRequests
  <1>2. /\ ~ overlapped /\ CalendarRows /\ ReadHolds(req[r]) /\ CheckHolds(req[r])
    BY <1>0, <1>1 DEF Calendar, CalendarRows
  <1>3. \A q \in Requests : q # r => req'[q] = Idle
    BY <1>0, <1>1, <1>2, IdleType DEF GuardHolds
  <1>4. ASSUME NEW q \in Requests, q # r PROVE (ReadHolds(req[q]) /\ CheckHolds(req[q]))'
    BY <1>3, <1>4, IdleStill
  <1>5. CASE CheckConflict(r)
    <2>1. /\ UNCHANGED <<job, appt, linked>>
          /\ (ReadHolds(req[r]) /\ CheckHolds(req[r]))'
      BY <1>0, <1>2, <1>5, CheckKeeps
    <2> QED
      BY <1>0, <1>2, <1>4, <2>1, SameCalendar DEF Calendar
  <1>6. CASE ~ CheckConflict(r)
    <2>1. req'[r] = Idle
      <3>1. Finish(r)
        BY <1>6 DEF WriteAny, RowGone, WriteSchedule, WriteItem, WriteEdit, WriteReschedule,
                    WriteAssign, WriteUnschedule, WriteCancel, WriteJobOp
      <3> QED
        BY <1>0, <3>1 DEF Finish, TypeOK
    <2>2. \A q \in Requests : (ReadHolds(req[q]) /\ CheckHolds(req[q]))'
      BY <1>4, <2>1, IdleStill
    <2>3. CalendarRows'
      <3>1. CASE RowGone(r)
        <4>1. UNCHANGED <<job, appt, linked>>
          BY <3>1 DEF RowGone
        <4> QED
          BY <1>0, <1>2, <4>1, SameCalendar DEF CalendarRows
      <3> QED
        BY <1>0, <1>2, <1>6, <3>1, ScheduleKeeps, ItemKeeps, EditKeeps, RescheduleKeeps,
           AssignKeeps, RemovalKeeps, JobOpKeeps DEF WriteAny
    <2> QED
      BY <2>2, <2>3 DEF Calendar, CalendarRows
  <1> QED
    BY <1>5, <1>6

LEMMA CalendarInit == Init => CalendarInv
  <1> SUFFICES ASSUME Init PROVE Calendar
    BY InitEstablishes DEF CalendarInv
  <1>1. /\ \A r \in Requests : req[r] = Idle
        /\ \A a \in Appts : appt[a].status = "absent"
        /\ \A j \in Jobs : job[j].status = "draft"
    BY DEF Init, NoAppt
  <1>2. \A j \in Jobs : OfJob(j) = {} /\ Live(j) = {}
    BY <1>1 DEF OfJob, Live
  <1>3. BookingsApart
    BY <1>1 DEF BookingsApart, Booked, Blocking
  <1>4. \A j \in Jobs : JobOnCalendar(j)
    BY <1>1, <1>2 DEF JobOnCalendar
  <1> QED
    BY <1>1, <1>3, <1>4, IdleHolds DEF Calendar

LEMMA CalendarNext == CalendarInv /\ [Next]_vars => CalendarInv'
  <1> SUFFICES ASSUME CalendarInv, [Next]_vars PROVE Calendar'
    BY NextKeeps DEF CalendarInv
  <1>1. CASE overlapped'
    BY <1>1 DEF Calendar
  <1>2. CASE UNCHANGED vars
    BY <1>2 DEF vars, CalendarInv, Calendar, ReadHolds, CheckHolds, BookingsApart, Booked,
                JobOnCalendar, Live, OfJob, Free, Who, Conflict
  <1> QED
    BY <1>1, <1>2, Steps, BeginKeepsCalendar, WriteKeepsCalendar

LEMMA CalendarHolds == Spec => []CalendarInv
  BY CalendarInit, CalendarNext, PTL DEF Spec

\* Nobody is in two places at once: whatever mix of scheduling, calendar items,
\* edits, moves, reassignments and revivals runs one after the other, the
\* conflict check of each keeps a technician's appointments apart.
THEOREM NobodyIsDoubleBooked == Spec => []NoDoubleBooking
  <1>1. CalendarInv => NoDoubleBooking
    <2> SUFFICES ASSUME CalendarInv, ~ overlapped,
                        NEW a \in Appts, NEW b \in Appts, NEW t \in Technicians,
                        a # b, Booked(a, t), Booked(b, t)
                 PROVE  Hours(appt[a].span) \cap Hours(appt[b].span) = {}
      BY DEF NoDoubleBooking
    <2>1. ~ Overlap(appt[a].span, appt[b].span)
      BY DEF CalendarInv, Calendar, BookingsApart
    <2>2. appt[a].span \in Spans /\ appt[b].span \in Spans
      BY DEF CalendarInv, IInv, TypeOK, Free, ApptRow, Booked, Blocking
    <2> DEFINE v == appt[a].span
               w == appt[b].span
    <2>3. v[1] \in Nat /\ v[2] \in Nat /\ w[1] \in Nat /\ w[2] \in Nat
      BY <2>2, SpanAssumption
    <2>4. ~ (v[1] < w[2] /\ w[1] < v[2])
      BY <2>1 DEF Overlap
    <2> HIDE DEF v, w
    <2>5. Hours(v) \cap Hours(w) = {}
      BY <2>3, <2>4 DEF Hours
    <2> QED
      BY <2>5 DEF v, w
  <1> QED
    BY <1>1, CalendarHolds, PTL

\* A scheduled job shows the dates of its appointment and a draft has none, though
\* the job and the appointment are two rows that either side's handlers write:
\* while they run one after the other, for a job no item and no edit touched.
THEOREM DatesAreBooked == Spec => []JobDatesAreBooked
  <1>1. CalendarInv => JobDatesAreBooked
    BY DEF CalendarInv, Calendar, JobOnCalendar, Live, JobDatesAreBooked
  <1> QED
    BY <1>1, CalendarHolds, PTL

\* Completing and cancelling a job free the calendar of it, and no later handler
\* puts it back, when the pages only offer to schedule a job that is open.
THEOREM ClosedJobsAreOff == Spec => []ClosedJobsFreeTheCalendar
  <1>1. CalendarInv => ClosedJobsFreeTheCalendar
    BY DEF CalendarInv, Calendar, JobOnCalendar, Live, Blocking, ClosedJobsFreeTheCalendar
  <1> QED
    BY <1>1, CalendarHolds, PTL

=============================================================================
