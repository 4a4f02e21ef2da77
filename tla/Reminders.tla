------------------------------ MODULE Reminders ------------------------------
(***************************************************************************)
(* The automation runs: AutomationService.runForCompany of one company,    *)
(* started once a day by the scheduler and at any time by "run now", runs  *)
(* possibly overlapping, and the process dying at any await.               *)
(*                                                                         *)
(* The clock counts moments, Day of them to a calendar day.  The scheduler *)
(* fires at the moment Nine of a day and serves the companies in turn, so  *)
(* this one's run begins then or later.  A run takes time as well: the     *)
(* clock may move between any two of its steps.                            *)
(* A reminder is a rule with its subject: the dedupe key of its row.       *)
(*                                                                         *)
(* The rest are history variables, read by no action.  dropped: reminders  *)
(* whose row outlived the attempt to send them.  asked: the moment of the  *)
(* last thank-you query.  steady: these queries came a day apart at most,  *)
(* and no run ended between one and its last message.  daily: the          *)
(* scheduler's run of every day so far came to its end on that day.        *)
(* began, of a run: the day it began on.                                   *)
(***************************************************************************)
EXTENDS Integers, Sequences, FiniteSets

CONSTANTS
    Estimates, Invoices, Jobs,     \* the subjects of the rules
    Phoned,                        \* the subjects whose customer has a phone
    Mailed,                        \* those whose customer has only an e-mail
    Runs,                          \* run-now requests that may be in flight
    Cron,                          \* the scheduler's run
    ValidUntil,                    \* [Estimates -> day the estimate lapses]
    ScheduledAt, PropertyOf,       \* [Jobs -> moment], [Jobs -> property]
    Day, Nine,                     \* moments in a day; the one the scheduler fires at
    AfterDays,                     \* days before a follow-up, a payment reminder, a review
    BeforeDays,                    \* days before the lapse of the expiration reminder
    RecurDays,                     \* days after which a service is due again
    MaxClock,                      \* bound: moments
    MaxWrites,                     \* bound: handlers of the others in flight
    Mixes                          \* bound: what meets in a behaviour: the rules that are
                                   \* on, the subjects others act on, the crashes

Rules == <<"estimate_followup", "recurring_reminder", "review_request",
           "payment_reminder", "estimate_expiration_reminder", "job_thank_you">>

Subjects == Estimates \cup Invoices \cup Jobs
SubjectsOf(rule) ==
    CASE rule \in {"estimate_followup", "estimate_expiration_reminder"} -> Estimates
      [] rule = "payment_reminder" -> Invoices
      [] OTHER -> Jobs
Reminder == UNION {{Rules[i]} \X SubjectsOf(Rules[i]) : i \in DOMAIN Rules}

\* A text message if there is a phone, an e-mail if there is only an address.
Channel(s) == IF s \in Phoned THEN "sms" ELSE IF s \in Mailed THEN "email" ELSE "none"

ASSUME CronAssumption    == Cron \notin Runs
ASSUME DayAssumption     == Day \in Nat \ {0} /\ Nine \in 0 .. Day - 1
ASSUME ChannelAssumption == Phoned \cap Mailed = {}

AllRuns == Runs \cup {Cron}

EstimateStatus == {"draft", "sent", "viewed", "answered", "expired"}

VARIABLES
    enabled,        \* the rules that the company's settings leave on
    active,         \* the subjects whose rows others change; the rest stay as they are
    clock,
    estimate,       \* [Estimates -> status]
    sentAt,         \* [Estimates -> moment of the last send]
    writes,         \* <<e, status>>: a handler read e and will write the status by its id
    unpaid,         \* the invoices that are sent or partial, with a balance
    completedAt,    \* [Jobs -> moment, or -1 while the job is open]
    log,            \* [Reminder -> status of its automation_log row]
    handed,         \* [Reminder -> times the message was given to its channel]
    run,            \* [AllRuns -> handler in flight]
    cronDay,        \* the last day the scheduler fired
    crashes,        \* the crashes to come
    dropped, asked, steady, daily

rowVars   == <<enabled, active, clock, estimate, sentAt, writes, unpaid, completedAt>>
thankVars == <<asked, steady, daily>>
ghostVars == <<crashes, dropped, thankVars>>
vars == <<rowVars, log, handed, run, cronDay, ghostVars>>

Today == clock \div Day

Idle == [pc |-> "idle", rule |-> 0, todo |-> {}, passed |-> {}, cur |-> <<>>, began |-> 0]

Init == /\ \E mix \in Mixes : enabled = mix.rules /\ active = mix.subjects /\ crashes = mix.crashes
        /\ clock = 0
        /\ estimate = [e \in Estimates |-> IF e \in active THEN "sent" ELSE "draft"]
        /\ sentAt = [e \in Estimates |-> 0]
        /\ writes = {}
        /\ unpaid = Invoices \cap active
        /\ completedAt = [j \in Jobs |-> -1]
        /\ log = [k \in Reminder |-> "none"]
        /\ handed = [k \in Reminder |-> 0]
        /\ run = [r \in AllRuns |-> Idle]
        /\ cronDay = -1
        /\ dropped = {}
        /\ asked = 0 /\ steady = TRUE /\ daily = TRUE

TypeOK ==
    /\ \E mix \in Mixes : enabled = mix.rules /\ active = mix.subjects /\ crashes <= mix.crashes
    /\ clock \in 0 .. MaxClock /\ cronDay \in -1 .. MaxClock
    /\ estimate \in [Estimates -> EstimateStatus]
    /\ sentAt \in [Estimates -> 0 .. MaxClock]
    /\ writes \subseteq Estimates \X EstimateStatus
    /\ unpaid \subseteq Invoices
    /\ completedAt \in [Jobs -> -1 .. MaxClock]
    /\ log \in [Reminder -> {"none", "sent", "failed"}]
    /\ handed \in [Reminder -> Nat]
    /\ \A r \in AllRuns :
          /\ run[r].pc \in {"idle", "expiring", "each", "send", "mark"}
          /\ run[r].rule \in 0 .. Len(Rules)
          /\ run[r].todo \subseteq Subjects /\ run[r].passed \subseteq Estimates
          /\ run[r].pc \in {"send", "mark"} => run[r].cur \in Reminder /\ log[run[r].cur] # "none"
    /\ crashes \in Nat
    /\ dropped \subseteq Reminder
    /\ asked \in 0 .. MaxClock /\ steady \in BOOLEAN /\ daily \in BOOLEAN

-----------------------------------------------------------------------------
(* Time and the other actors. *)

\* A moment passes.  Where a day ends with it, its run must be over to count.
Tick == /\ clock < MaxClock
        /\ clock' = clock + 1
        /\ daily' = (daily /\ ((clock + 1) % Day = 0 => cronDay = Today /\ run[Cron].pc = "idle"))
        /\ UNCHANGED <<enabled, active, estimate, sentAt, writes, unpaid, completedAt, log, handed, run,
                       cronDay, crashes, dropped, asked, steady>>

Open(e) == estimate[e] \in {"sent", "viewed"}

\* send, the portal's view, an answer (the portal's decline takes an expired one too),
\* markExpired and reopen: the guard is on the row as it is read ...
MayWrite(e, status) ==
    CASE status = "sent"     -> estimate[e] = "draft"
      [] status = "viewed"   -> estimate[e] = "sent"
      [] status = "answered" -> estimate[e] # "answered"
      [] status = "expired"  -> estimate[e] \notin {"answered", "expired"}
      [] status = "draft"    -> estimate[e] # "draft"

ReadEstimate(e, status) ==
    /\ e \in active /\ MayWrite(e, status) /\ Cardinality(writes) < MaxWrites
    /\ writes' = writes \cup {<<e, status>>}
    /\ UNCHANGED <<enabled, active, clock, estimate, sentAt, unpaid, completedAt, log, handed, run,
                   cronDay, ghostVars>>

\* ... and the write is by id, whatever the row has become.
WriteEstimate(e, status) ==
    /\ <<e, status>> \in writes
    /\ writes' = writes \ {<<e, status>>}
    /\ estimate' = [estimate EXCEPT ![e] = status]
    /\ sentAt' = IF status = "sent" THEN [sentAt EXCEPT ![e] = clock] ELSE sentAt
    /\ UNCHANGED <<enabled, active, clock, unpaid, completedAt, log, handed, run, cronDay, ghostVars>>

\* A payment settles an invoice, or its return opens it again.
InvoiceChanges(v) ==
    /\ v \in active
    /\ unpaid' \in {unpaid \ {v}, unpaid \cup {v}}
    /\ UNCHANGED <<enabled, active, clock, estimate, sentAt, writes, completedAt, log, handed, run,
                   cronDay, ghostVars>>

CompleteJob(j) ==
    /\ j \in active /\ completedAt[j] = -1
    /\ completedAt' = [completedAt EXCEPT ![j] = clock]
    /\ UNCHANGED <<enabled, active, clock, estimate, sentAt, writes, unpaid, log, handed, run,
                   cronDay, ghostVars>>

-----------------------------------------------------------------------------
(* A run. *)

Step(r, to) == run' = [run EXCEPT ![r] = to]

\* runEstimateExpiration: the lapsed estimates, then each one through markExpired,
\* whose queries need the tenant context of a request.  The scheduler has none:
\* every one of its markExpired throws and is only reported.
Lapsed == {e \in Estimates : Open(e) /\ ValidUntil[e] < Today}
Begin(r) == Step(r, [Idle EXCEPT !.pc = "expiring", !.todo = Lapsed, !.began = Today])

StartCron ==
    /\ cronDay < Today /\ clock % Day >= Nine /\ run[Cron].pc = "idle"
    /\ cronDay' = Today
    /\ Begin(Cron)
    /\ UNCHANGED <<rowVars, log, handed, ghostVars>>

RunNow(r) ==
    /\ r \in Runs /\ run[r].pc = "idle"
    /\ Begin(r)
    /\ UNCHANGED <<rowVars, log, handed, cronDay, ghostVars>>

HasTenant(r) == r # Cron
ExpireRead(r) ==
    /\ run[r].pc = "expiring" /\ run[r].passed = {}
    /\ \E e \in run[r].todo :
          Step(r, [run[r] EXCEPT !.todo = @ \ {e},
                     !.passed = IF HasTenant(r) /\ MayWrite(e, "expired") THEN {e} ELSE {}])
    /\ UNCHANGED <<rowVars, log, handed, cronDay, ghostVars>>

\* The write by id, or an error that is caught and reported.
ExpireWrite(r) ==
    /\ run[r].pc = "expiring"
    /\ \E e \in run[r].passed : estimate' \in {estimate, [estimate EXCEPT ![e] = "expired"]}
    /\ Step(r, [run[r] EXCEPT !.passed = {}])
    /\ UNCHANGED <<enabled, active, clock, sentAt, writes, unpaid, completedAt, log, handed, cronDay,
                   ghostVars>>

\* The jobs the recurring reminder is about: the last of each property.
LastJobs == {j \in Jobs : completedAt[j] >= 0
               /\ \A k \in Jobs : completedAt[k] >= 0 /\ PropertyOf[k] = PropertyOf[j]
                                    => ScheduledAt[k] <= ScheduledAt[j]}

\* The jobs completed within the 24 hours before the query.
JustCompleted_After == {j \in Jobs : completedAt[j] >= 0 /\ completedAt[j] > clock - Day}
JustCompleted == {j \in Jobs : completedAt[j] >= 0 /\ completedAt[j] >= clock - Day}

\* What a rule's query returns.  An invoice is due on day 0; its due date and an
\* estimate's valid_until are dates, the other times are moments.
Due(rule) ==
    CASE rule = "estimate_followup" ->
           {e \in Estimates : estimate[e] = "sent" /\ sentAt[e] <= clock - AfterDays * Day}
      [] rule = "recurring_reminder" ->
           {j \in LastJobs : ScheduledAt[j] <= clock - RecurDays * Day}
      [] rule = "review_request" ->
           {j \in Jobs : completedAt[j] >= 0
              /\ ScheduledAt[j] \in clock - (AfterDays + 6) * Day .. clock - AfterDays * Day}
      [] rule = "payment_reminder" -> {v \in unpaid : AfterDays <= Today}
      [] rule = "estimate_expiration_reminder" ->
           {e \in Estimates : Open(e) /\ ValidUntil[e] = Today + BeforeDays}
      [] rule = "job_thank_you" -> JustCompleted

\* The query of the next rule that is on; after the last the run is over.
Later(r) == {i \in run[r].rule + 1 .. Len(Rules) : Rules[i] \in enabled}
Between(r) == run[r].pc \in {"expiring", "each"} /\ run[r].todo = {} /\ run[r].passed = {}
NextRule(r) ==
    /\ Between(r)
    /\ IF Later(r) = {} THEN Step(r, Idle) /\ UNCHANGED <<asked, steady>>
       ELSE LET next == CHOOSE i \in Later(r) : \A k \in Later(r) : i <= k
            IN  /\ Step(r, [run[r] EXCEPT !.pc = "each", !.rule = next,
                              !.todo = Due(Rules[next])])
                /\ IF Rules[next] = "job_thank_you"
                   THEN asked' = clock /\ steady' = (steady /\ clock <= asked + Day)
                   ELSE UNCHANGED <<asked, steady>>
    /\ UNCHANGED <<rowVars, log, handed, cronDay, crashes, dropped, daily>>

\* sendOnce: the row with its unique key first; a second row is refused.
Unsaid_Unchecked(k) == TRUE
Unsaid(k) == log[k] = "none"
Announce(r) ==
    /\ run[r].pc = "each"
    /\ \E s \in run[r].todo :
          LET k    == <<Rules[run[r].rule], s>>
              rest == [run[r] EXCEPT !.todo = @ \ {s}]
          IN  IF Channel(s) # "none" /\ Unsaid(k)
              THEN /\ log' = [log EXCEPT ![k] = "sent"]
                   /\ Step(r, [rest EXCEPT !.pc = "send", !.cur = k])
              ELSE Step(r, rest) /\ UNCHANGED log
    /\ UNCHANGED <<rowVars, handed, cronDay, ghostVars>>

Done(r) == Step(r, [run[r] EXCEPT !.pc = "each", !.cur = <<>>])

\* SmsService.send: an answer, or none, in which case the text may have gone.
SendSms(r) ==
    /\ run[r].pc = "send" /\ Channel(run[r].cur[2]) = "sms"
    /\ \E answer \in {"ok", "refused", "lost"}, taken \in BOOLEAN :
          /\ answer = "ok" => taken
          /\ answer = "refused" => ~ taken
          /\ handed' = [handed EXCEPT ![run[r].cur] = IF taken THEN @ + 1 ELSE @]
          /\ IF answer = "ok" THEN Done(r) ELSE Step(r, [run[r] EXCEPT !.pc = "mark"])
    /\ UNCHANGED <<rowVars, log, cronDay, ghostVars>>

Marked_AsSent == "sent"
Marked == "failed"
MarkFailed(r) ==
    /\ run[r].pc = "mark"
    /\ log' = [log EXCEPT ![run[r].cur] = Marked]
    /\ Done(r)
    /\ UNCHANGED <<rowVars, handed, cronDay, ghostVars>>

\* An e-mail is queued, and a queue that is down is only reported: the row stays.
SendEmail(r) ==
    /\ run[r].pc = "send" /\ Channel(run[r].cur[2]) = "email"
    /\ LET k == run[r].cur
       IN  \/ handed' = [handed EXCEPT ![k] = @ + 1] /\ UNCHANGED dropped
           \/ dropped' = dropped \cup {k} /\ UNCHANGED handed
    /\ Done(r)
    /\ UNCHANGED <<rowVars, log, cronDay, crashes, thankVars>>

Telling == {"send", "mark"}
Thanking(r) == run[r].pc \in {"each"} \cup Telling /\ Rules[run[r].rule] = "job_thank_you"

\* These runs end where they are.
End(ended) ==
    /\ run' = [r \in AllRuns |-> IF r \in ended THEN Idle ELSE run[r]]
    /\ dropped' = dropped \cup {run[r].cur : r \in {q \in ended : run[q].pc \in Telling}}
    /\ steady' = (steady /\ \A r \in ended : ~ (Thanking(r) /\ run[r].todo # {}))
    /\ daily' = (daily /\ (Cron \in ended => run[Cron].pc = "idle"))
    /\ UNCHANGED <<rowVars, log, handed, cronDay, asked>>

\* A query or the marking of a failed message throws, and nothing in the run catches it.
Fail(r) ==
    /\ Between(r) \/ run[r].pc = "mark"
    /\ End({r})
    /\ UNCHANGED crashes

\* The process dies with its runs and is started again.
Crash ==
    /\ crashes > 0
    /\ crashes' = crashes - 1
    /\ End(AllRuns)

-----------------------------------------------------------------------------
RunStep(r) == ExpireRead(r) \/ ExpireWrite(r) \/ NextRule(r) \/ Announce(r) \/ SendSms(r)
                \/ MarkFailed(r) \/ SendEmail(r) \/ Fail(r)

Environment ==
    \/ Tick
    \/ \E e \in Estimates, status \in EstimateStatus :
          ReadEstimate(e, status) \/ WriteEstimate(e, status)
    \/ \E v \in Invoices : InvoiceChanges(v)
    \/ \E j \in Jobs : CompleteJob(j)

Next == \/ Environment
        \/ StartCron \/ (\E r \in Runs : RunNow(r)) \/ (\E r \in AllRuns : RunStep(r))
        \/ Crash

Spec == Init /\ [][Next]_vars

-----------------------------------------------------------------------------
(* Properties. *)

\* A customer is told each thing once, however runs overlap, repeat and die: the
\* row that carries the key is there before the message (automation.service.ts 351-358).
ToldOnce == \A k \in Reminder : handed[k] <= 1

\* A reminder whose row is there is in hand until its channel answers or the run dies.
Pending(k) == \E r \in AllRuns : run[r].pc = "send" /\ run[r].cur = k
Phase(k)   == IF log[k] = "none" THEN "open" ELSE IF Pending(k) THEN "pending" ELSE "closed"

Notice == INSTANCE Notices WITH
    Messages <- Reminder,
    phase    <- [k \in Reminder |-> Phase(k)],
    copies   <- handed,
    record   <- log

\* However runs overlap, repeat and die, each reminder is taken in hand once, leaves
\* at most once, is not tried again when it is lost, and its row never goes back to
\* 'sent': the row with the key is there before the message (automation.service.ts
\* 351-358), and nothing but its own run writes it after that (376-400).
ImplementsNotices == Notice!Spec

\* A row that says 'sent' stands for a message that left, unless the run that had it
\* in hand ended there or the mail queue was down.
LogHonest ==
    \A k \in Reminder \ dropped :
        log[k] = "sent" /\ (\A r \in AllRuns : run[r].cur # k) => handed[k] > 0

MustThank(j) == "job_thank_you" \in enabled /\ Channel(j) # "none" /\ completedAt[j] >= 0
Thanked(j)   == log[<<"job_thank_you", j>>] # "none"

\* Windows that overlap leave no job out: while the thank-you queries, of whichever
\* runs, come 24 hours apart at most and their runs get through what they found,
\* every job completed before the last of them was thanked for, or is on the list of
\* a run that is at it (automation.service.ts 299-305).
ThankedWhileSteady ==
    \A j \in Jobs : MustThank(j) /\ steady /\ completedAt[j] < asked =>
        Thanked(j) \/ \E r \in AllRuns : Thanking(r) /\ j \in run[r].todo

\* "This rule runs daily, so a 1-day window catches every job the previous run might
\* have missed" (automation.service.ts 302): once the scheduler's run came to its end
\* on every day, a job completed before yesterday is thanked for.
ThankedByDailyRuns ==
    \A j \in Jobs : MustThank(j) /\ daily /\ completedAt[j] \div Day + 1 < Today => Thanked(j)

\* No rule sees a lapsed estimate as open: the expiration "runs first, so every rule
\* after it sees the corrected status" (automation.service.ts 64-65).
EveryRunExpiresFirst ==
    \A r \in AllRuns : run[r].pc \in {"each"} \cup Telling =>
        \A e \in Estimates : ValidUntil[e] < run[r].began => ~ Open(e)
=============================================================================
