--------------------------- MODULE Reminders_proofs ---------------------------
(***************************************************************************)
(* What the automation runs guarantee for any number of runs, subjects,    *)
(* days and crashes.  The argument is the unique key: of all the runs in   *)
(* flight only the one that inserted a reminder's row holds it, so sending *)
(* and marking it are that run's alone.                                    *)
(***************************************************************************)
EXTENDS Reminders, TLAPS

RunRow == [pc : {"idle", "expiring", "each"} \cup Telling, rule : 0 .. Len(Rules),
           todo : SUBSET Subjects, passed : SUBSET Estimates, cur : Reminder \cup {<<>>}, began : Nat]

Typed == /\ clock \in Nat
         /\ log \in [Reminder -> {"none", "sent", "failed"}]
         /\ handed \in [Reminder -> Nat]
         /\ unpaid \subseteq Invoices
         /\ run \in [AllRuns -> RunRow]

\* What a run goes through belongs to its rule, and only what it is telling is
\* its current reminder.
RunsOK == \A r \in AllRuns :
    /\ run[r].pc \in {"each"} \cup Telling =>
          /\ run[r].rule \in DOMAIN Rules
          /\ run[r].todo \subseteq SubjectsOf(Rules[run[r].rule])
    /\ run[r].pc = "expiring" => run[r].todo \subseteq Estimates
    /\ run[r].pc \in Telling => run[r].cur \in Reminder /\ log[run[r].cur] # "none"
    /\ run[r].pc \notin Telling => run[r].cur = <<>>

\* A reminder in hand has not been given away yet, or was with no answer.
InHand == /\ \A r \in AllRuns : run[r].pc = "send" => handed[run[r].cur] = 0
          /\ \A r, q \in AllRuns : r # q /\ run[r].pc \in Telling => run[r].cur # run[q].cur

RowFirst == \A k \in Reminder : log[k] = "none" => handed[k] = 0

IInv == Typed /\ RunsOK /\ InHand /\ RowFirst /\ ToldOnce /\ LogHonest

-----------------------------------------------------------------------------
LEMMA ReminderShape ==
    ASSUME NEW i \in DOMAIN Rules, NEW s \in SubjectsOf(Rules[i])
    PROVE  <<Rules[i], s>> \in Reminder /\ s \in Subjects
  <1>1. <<Rules[i], s>> \in {Rules[i]} \X SubjectsOf(Rules[i])
    OBVIOUS
  <1>2. SubjectsOf(Rules[i]) \subseteq Subjects
    BY DEF SubjectsOf, Subjects
  <1> QED
    BY <1>1, <1>2 DEF Reminder

LEMMA RulesLength == Len(Rules) = 6 /\ DOMAIN Rules = 1 .. 6
  BY DEF Rules

LEMMA NotAReminder == <<>> \notin Reminder
  BY DEF Reminder

LEMMA DueSubjects ==
    ASSUME Typed,
           NEW rule \in {"estimate_followup", "recurring_reminder", "review_request",
                         "payment_reminder", "estimate_expiration_reminder", "job_thank_you"}
    PROVE  Due(rule) \subseteq SubjectsOf(rule)
  <1>1. CASE rule = "estimate_followup"
    BY <1>1 DEF Due, SubjectsOf
  <1>2. CASE rule = "recurring_reminder"
    BY <1>2 DEF Due, SubjectsOf, LastJobs
  <1>3. CASE rule = "review_request"
    BY <1>3 DEF Due, SubjectsOf
  <1>4. CASE rule = "payment_reminder"
    BY <1>4 DEF Due, SubjectsOf, Typed
  <1>5. CASE rule = "estimate_expiration_reminder"
    BY <1>5 DEF Due, SubjectsOf
  <1>6. CASE rule = "job_thank_you"
    BY <1>6 DEF Due, JustCompleted, SubjectsOf
  <1> QED
    BY <1>1, <1>2, <1>3, <1>4, <1>5, <1>6

LEMMA RuleNames ==
    ASSUME NEW i \in DOMAIN Rules
    PROVE  Rules[i] \in {"estimate_followup", "recurring_reminder", "review_request",
                        "payment_reminder", "estimate_expiration_reminder", "job_thank_you"}
  BY RulesLength DEF Rules

LEMMA IdleRow == Idle \in RunRow /\ Idle.pc = "idle" /\ Idle.cur = <<>>
  <1>1. 0 \in 0 .. Len(Rules)
    BY RulesLength
  <1> QED
    BY <1>1 DEF Idle, RunRow

LEMMA InitEstablishes == Init => IInv
  <1> SUFFICES ASSUME Init PROVE IInv
    OBVIOUS
  <1>1. \A r \in AllRuns : run[r] = Idle /\ run[r].pc = "idle" /\ run[r].cur = <<>>
    BY IdleRow DEF Init
  <1>2. \A k \in Reminder : log[k] = "none" /\ handed[k] = 0
    BY DEF Init
  <1>3. Typed
    BY IdleRow DEF Init, Typed
  <1>4. RunsOK /\ InHand
    BY <1>1 DEF RunsOK, InHand, Telling
  <1>5. RowFirst /\ ToldOnce /\ LogHonest
    BY <1>2 DEF RowFirst, ToldOnce, LogHonest
  <1> QED
    BY <1>3, <1>4, <1>5 DEF IInv

-----------------------------------------------------------------------------
(* The other actors.                                                       *)

LEMMA EnvironmentKeeps ==
    ASSUME IInv, Environment \/ UNCHANGED vars
    PROVE  IInv'
  <1>1. UNCHANGED <<log, handed, run, dropped>>
    BY DEF Environment, Tick, ReadEstimate, WriteEstimate, InvoiceChanges, CompleteJob,
           vars, ghostVars
  <1>2. clock' \in Nat /\ unpaid' \subseteq Invoices
    <2>1. clock' \in {clock, clock + 1}
      BY DEF Environment, Tick, ReadEstimate, WriteEstimate, InvoiceChanges, CompleteJob,
             vars, rowVars
    <2>2. unpaid' = unpaid \/ \E v \in Invoices : unpaid' \in {unpaid \ {v}, unpaid \cup {v}}
      BY DEF Environment, Tick, ReadEstimate, WriteEstimate, InvoiceChanges, CompleteJob,
             vars, rowVars
    <2> QED
      BY <2>1, <2>2 DEF IInv, Typed
  <1> QED
    BY <1>1, <1>2 DEF IInv, Typed, RunRow, RunsOK, InHand, RowFirst, ToldOnce, LogHonest

-----------------------------------------------------------------------------
(* The steps of a run.                                                     *)

\* A step that tells nobody and writes no row: the run's own record changes.
LEMMA QuietStep ==
    ASSUME IInv, NEW r \in AllRuns, NEW row \in RunRow, run' = [run EXCEPT ![r] = row],
           UNCHANGED <<clock, unpaid, log, handed, dropped>>,
           run[r].cur = <<>>, row.cur = <<>>, row.pc \notin Telling,
           row.pc = "each" => /\ row.rule \in DOMAIN Rules
                              /\ row.todo \subseteq SubjectsOf(Rules[row.rule]),
           row.pc = "expiring" => row.todo \subseteq Estimates
    PROVE  IInv'
  <1>0. /\ Typed /\ RunsOK /\ InHand /\ RowFirst /\ ToldOnce /\ LogHonest
    BY DEF IInv
  <1>1. run \in [AllRuns -> RunRow]
    BY <1>0 DEF Typed
  <1>2. /\ run' \in [AllRuns -> RunRow] /\ run'[r] = row
        /\ \A q \in AllRuns : q # r => run'[q] = run[q]
    BY <1>1
  <1>3. Typed'
    BY <1>0, <1>2 DEF Typed, RunRow
  <1>4. RunsOK'
    BY <1>0, <1>2 DEF RunsOK, Telling
  <1>5. InHand'
    <2>1. \A q \in AllRuns : run[q].pc \in Telling => run[q].cur # <<>>
      BY <1>0, NotAReminder DEF RunsOK
    <2> QED
      BY <1>0, <1>2, <2>1 DEF InHand, Telling
  <1>6. \A q \in AllRuns : run'[q].cur = run[q].cur
    BY <1>2
  <1>7. RowFirst' /\ ToldOnce' /\ LogHonest'
    BY <1>0, <1>6 DEF RowFirst, ToldOnce, LogHonest
  <1> QED
    BY <1>3, <1>4, <1>5, <1>7 DEF IInv

LEMMA TodayIsNat == clock \in Nat => Today \in Nat
  BY DayAssumption, Z3 DEF Today

LEMMA BeginKeeps ==
    ASSUME IInv, StartCron \/ (\E r \in Runs : RunNow(r))
    PROVE  IInv'
  <1>1. PICK r \in AllRuns : run[r].pc = "idle" /\ Begin(r)
    BY DEF StartCron, RunNow, AllRuns
  <1>2. UNCHANGED <<clock, unpaid, log, handed, dropped>>
    BY DEF StartCron, RunNow, rowVars, ghostVars
  <1> DEFINE row == [Idle EXCEPT !.pc = "expiring", !.todo = Lapsed, !.began = Today]
  <1>3. run' = [run EXCEPT ![r] = row]
    BY <1>1 DEF Begin, Step
  <1>4. Lapsed \subseteq Subjects /\ Lapsed \subseteq Estimates /\ Today \in Nat
    BY TodayIsNat DEF Lapsed, Subjects, IInv, Typed
  <1>5. row \in RunRow
    BY <1>4, IdleRow DEF Idle, RunRow
  <1>6. row.pc = "expiring" /\ row.cur = <<>> /\ row.todo = Lapsed
    BY DEF Idle
  <1>7. run[r].cur = <<>>
    BY <1>1 DEF IInv, RunsOK, Telling
  <1> HIDE DEF row
  <1> QED
    BY <1>2, <1>3, <1>4, <1>5, <1>6, <1>7, QuietStep DEF Telling

\* Of the rules still to come there is a first.
LEMMA LaterHasFirst ==
    ASSUME NEW r \in AllRuns, run[r] \in RunRow, Later(r) # {}
    PROVE  (CHOOSE i \in Later(r) : \A k \in Later(r) : i <= k) \in DOMAIN Rules
  <1> DEFINE L == Later(r)
  <1>1. run[r].rule \in 0 .. 6
    BY RulesLength DEF RunRow
  <1>2. L \subseteq 1 .. 6
    BY <1>1, RulesLength DEF Later
  <1> HIDE DEF L
  <1>3. L # {}
    BY DEF L
  <1>4. \E i \in L : \A k \in L : i <= k
    <2>1. CASE 1 \in L
      BY <1>2, <2>1
    <2>2. CASE 1 \notin L /\ 2 \in L
      BY <1>2, <2>2
    <2>3. CASE 1 \notin L /\ 2 \notin L /\ 3 \in L
      BY <1>2, <2>3
    <2>4. CASE 1 \notin L /\ 2 \notin L /\ 3 \notin L /\ 4 \in L
      BY <1>2, <2>4
    <2>5. CASE 1 \notin L /\ 2 \notin L /\ 3 \notin L /\ 4 \notin L /\ 5 \in L
      BY <1>2, <2>5
    <2>6. CASE 1 \notin L /\ 2 \notin L /\ 3 \notin L /\ 4 \notin L /\ 5 \notin L
      <3>1. \A k \in L : k = 6
        BY <1>2, <2>6
      <3>2. PICK m \in L : TRUE
        BY <1>3
      <3>3. m = 6 /\ \A k \in L : m <= k
        BY <3>1
      <3> QED
        BY <3>2, <3>3
    <2> QED
      BY <2>1, <2>2, <2>3, <2>4, <2>5, <2>6
  <1>5. (CHOOSE i \in L : \A k \in L : i <= k) \in L
    BY <1>4
  <1> QED
    BY <1>2, <1>5, RulesLength DEF L

LEMMA NextRuleKeeps ==
    ASSUME IInv, NEW r \in AllRuns, NextRule(r)
    PROVE  IInv'
  <1>0. run[r] \in RunRow /\ Typed
    BY DEF IInv, Typed
  <1>1. run[r].pc \in {"expiring", "each"} /\ run[r].todo = {} /\ run[r].cur = <<>>
    BY DEF NextRule, Between, IInv, RunsOK, Telling
  <1>2. UNCHANGED <<clock, unpaid, log, handed, dropped>>
    BY DEF NextRule, rowVars
  <1>3. CASE Step(r, Idle)
    BY <1>1, <1>2, <1>3, IdleRow, QuietStep DEF Step, Telling
  <1>4. CASE Later(r) # {}
    <2> DEFINE next == CHOOSE i \in Later(r) : \A k \in Later(r) : i <= k
    <2>1. Step(r, [run[r] EXCEPT !.pc = "each", !.rule = next, !.todo = Due(Rules[next])])
      BY <1>4 DEF NextRule
    <2>2. next \in DOMAIN Rules
      BY <1>0, <1>4, LaterHasFirst
    <2> DEFINE due == Due(Rules[next])
               row == [run[r] EXCEPT !.pc = "each", !.rule = next, !.todo = due]
    <2>3. run' = [run EXCEPT ![r] = row]
      BY <2>1 DEF Step
    <2> HIDE DEF next
    <2>4. due \subseteq SubjectsOf(Rules[next])
      BY <1>0, <2>2, DueSubjects, RuleNames
    <2>5. SubjectsOf(Rules[next]) \subseteq Subjects
      BY DEF SubjectsOf, Subjects
    <2> HIDE DEF due
    <2>6. /\ row \in RunRow /\ row.pc = "each" /\ row.rule = next /\ row.cur = <<>>
          /\ row.todo = due
      <3>1. due \in SUBSET Subjects /\ next \in 0 .. Len(Rules)
        BY <2>2, <2>4, <2>5, RulesLength
      <3> QED
        BY <1>0, <1>1, <3>1 DEF RunRow
    <2> HIDE DEF row
    <2> QED
      BY <1>1, <1>2, <2>2, <2>3, <2>4, <2>6, QuietStep DEF Telling
  <1> QED
    BY <1>3, <1>4 DEF NextRule

LEMMA ExpireKeeps ==
    ASSUME IInv, NEW r \in AllRuns, ExpireRead(r) \/ ExpireWrite(r)
    PROVE  IInv'
  <1>1. UNCHANGED <<clock, unpaid, log, handed, dropped>> /\ run[r].pc = "expiring"
    BY DEF ExpireRead, ExpireWrite, rowVars, ghostVars
  <1>2. run[r] \in RunRow /\ run[r].cur = <<>>
    BY <1>1 DEF IInv, Typed, RunsOK, Telling
  <1>3. PICK row \in RunRow : /\ run' = [run EXCEPT ![r] = row]
                              /\ row.pc = "expiring" /\ row.cur = <<>>
                              /\ row.todo \subseteq Estimates
    <2>1. \A todo \in SUBSET Estimates, passed \in SUBSET Estimates :
             LET row == [run[r] EXCEPT !.todo = todo, !.passed = passed]
             IN  row \in RunRow /\ row.pc = "expiring" /\ row.cur = <<>> /\ row.todo \subseteq Estimates
      BY <1>1, <1>2 DEF RunRow, Subjects
    <2>2. \E todo \in SUBSET Estimates, passed \in SUBSET Estimates :
             run' = [run EXCEPT ![r] = [run[r] EXCEPT !.todo = todo, !.passed = passed]]
      <3>1. run[r].todo \in SUBSET Estimates
        BY <1>1 DEF IInv, RunsOK
      <3>2. CASE ExpireRead(r)
        <4>1. PICK e \in run[r].todo : run' = [run EXCEPT ![r] = [run[r] EXCEPT
                 !.todo = @ \ {e},
                 !.passed = IF HasTenant(r) /\ MayWrite(e, "expired") THEN {e} ELSE {}]]
          BY <3>2 DEF ExpireRead, Step
        <4>2. run[r].todo \ {e} \in SUBSET Estimates
          BY <3>1
        <4>3. e \in Estimates
          BY <3>1, <4>1
        <4>4. (IF HasTenant(r) /\ MayWrite(e, "expired") THEN {e} ELSE {}) \in SUBSET Estimates
          BY <4>3
        <4> QED
          BY <4>1, <4>2, <4>4
      <3>3. CASE ExpireWrite(r)
        <4>1. run' = [run EXCEPT ![r] = [run[r] EXCEPT !.passed = {}]]
          BY <3>3 DEF ExpireWrite, Step
        <4>2. [run[r] EXCEPT !.passed = {}] = [run[r] EXCEPT !.todo = run[r].todo, !.passed = {}]
          BY <1>2 DEF RunRow
        <4> QED
          BY <3>1, <4>1, <4>2
      <3> QED
        BY <3>2, <3>3
    <2> QED
      BY <2>1, <2>2
  <1> QED
    BY <1>1, <1>2, <1>3, QuietStep DEF Telling

\* A step of the run that holds k, or takes it: only k's row and count change.
Moves(r, row, k, status, n) ==
    /\ run' = [run EXCEPT ![r] = row]
    /\ log' = [log EXCEPT ![k] = status] /\ handed' = [handed EXCEPT ![k] = n]
    /\ clock' = clock /\ unpaid' = unpaid /\ dropped \subseteq dropped'
    /\ row.rule = run[r].rule /\ row.todo \subseteq run[r].todo
    /\ run[r].pc \in {"each"} \cup Telling /\ row.pc \in {"each"} \cup Telling
    /\ \A q \in AllRuns : q # r => run[q].cur # k
    /\ run[r].pc \in Telling => run[r].cur = k
    /\ row.pc \in Telling => row.cur = k
    /\ row.pc \notin Telling => row.cur = <<>> /\ (status = "sent" => n > 0 \/ k \in dropped')
    /\ row.pc = "send" => n = 0

LEMMA MoveStep ==
    ASSUME IInv, NEW r \in AllRuns, NEW row \in RunRow, NEW k \in Reminder,
           NEW status \in {"sent", "failed"}, NEW n \in {0, 1}, Moves(r, row, k, status, n)
    PROVE  IInv'
  <1> USE DEF Moves
  <1>0. /\ Typed /\ RunsOK /\ InHand /\ RowFirst /\ ToldOnce /\ LogHonest
    BY DEF IInv
  <1>1. run \in [AllRuns -> RunRow]
    BY <1>0 DEF Typed
  <1>2. /\ run' \in [AllRuns -> RunRow] /\ run'[r] = row
        /\ \A q \in AllRuns : q # r => run'[q] = run[q]
    BY <1>1
  <1>3. /\ log' \in [Reminder -> {"none", "sent", "failed"}] /\ handed' \in [Reminder -> Nat]
        /\ log'[k] = status /\ handed'[k] = n
        /\ \A m \in Reminder : m # k => log'[m] = log[m] /\ handed'[m] = handed[m]
    BY <1>0 DEF Typed
  <1>4. Typed'
    BY <1>0, <1>2, <1>3 DEF Typed, RunRow
  <1>5. RunsOK'
    <2> SUFFICES ASSUME NEW q \in AllRuns
                 PROVE  /\ run'[q].pc \in {"each"} \cup Telling =>
                              /\ run'[q].rule \in DOMAIN Rules
                              /\ run'[q].todo \subseteq SubjectsOf(Rules[run'[q].rule])
                        /\ run'[q].pc = "expiring" => run'[q].todo \subseteq Estimates
                        /\ run'[q].pc \in Telling => run'[q].cur \in Reminder /\ log'[run'[q].cur] # "none"
                        /\ run'[q].pc \notin Telling => run'[q].cur = <<>>
      BY DEF RunsOK
    <2>1. CASE q = r
      BY <1>0, <1>2, <1>3, <2>1 DEF RunsOK, Telling
    <2>2. CASE q # r
      BY <1>0, <1>2, <1>3, <2>2 DEF RunsOK
    <2> QED
      BY <2>1, <2>2
  <1>6. InHand'
    <2>1. \A q \in AllRuns : run'[q].pc = "send" => handed'[run'[q].cur] = 0
      <3> SUFFICES ASSUME NEW q \in AllRuns, run'[q].pc = "send" PROVE handed'[run'[q].cur] = 0
        OBVIOUS
      <3>1. CASE q = r
        BY <1>2, <1>3, <3>1 DEF Telling
      <3>2. CASE q # r
        <4>1. run[q].cur \in Reminder /\ run[q].cur # k /\ handed[run[q].cur] = 0
          BY <1>0, <1>2, <3>2 DEF RunsOK, InHand, Telling
        <4> QED
          BY <4>1, <1>2, <1>3, <3>2
      <3> QED
        BY <3>1, <3>2
    <2>2. \A p, q \in AllRuns : p # q /\ run'[p].pc \in Telling => run'[p].cur # run'[q].cur
      <3> SUFFICES ASSUME NEW p \in AllRuns, NEW q \in AllRuns, p # q, run'[p].pc \in Telling
                   PROVE  run'[p].cur # run'[q].cur
        OBVIOUS
      <3>1. CASE p = r
        BY <1>2, <3>1
      <3>2. CASE q = r
        <4>1. run[p].cur # k /\ run[p].cur \in Reminder
          BY <1>0, <1>2, <3>2 DEF RunsOK
        <4> QED
          BY <4>1, <1>2, <3>2, NotAReminder
      <3>3. CASE p # r /\ q # r
        BY <1>0, <1>2, <3>3 DEF InHand
      <3> QED
        BY <3>1, <3>2, <3>3
    <2> QED
      BY <2>1, <2>2 DEF InHand
  <1>7. RowFirst' /\ ToldOnce'
    BY <1>0, <1>3 DEF RowFirst, ToldOnce
  <1>8. LogHonest'
    <2> SUFFICES ASSUME NEW m \in Reminder, m \notin dropped', log'[m] = "sent",
                        \A q \in AllRuns : run'[q].cur # m
                 PROVE  handed'[m] > 0
      BY DEF LogHonest
    <2>1. CASE m = k
      <3>1. row.pc \notin Telling
        BY <1>2, <2>1
      <3> QED
        BY <1>3, <2>1, <3>1
    <2>2. CASE m # k
      <3>1. run[r].cur # m
        <4>1. CASE run[r].pc \in Telling
          BY <2>2, <4>1
        <4>2. CASE run[r].pc \notin Telling
          BY <4>2, <1>0, NotAReminder DEF RunsOK
        <4> QED
          BY <4>1, <4>2
      <3>2. \A q \in AllRuns : run[q].cur # m
        BY <1>2, <3>1
      <3> QED
        BY <1>0, <1>3, <2>2, <3>2 DEF LogHonest
    <2> QED
      BY <2>1, <2>2
  <1> QED
    BY <1>4, <1>5, <1>6, <1>7, <1>8 DEF IInv

LEMMA AnnounceKeeps ==
    ASSUME IInv, NEW r \in AllRuns, Announce(r)
    PROVE  IInv'
  <1>0. /\ Typed /\ RunsOK /\ InHand /\ RowFirst /\ ToldOnce /\ LogHonest
        /\ run[r] \in RunRow /\ run[r].pc = "each"
    BY DEF IInv, Typed, Announce
  <1>1. UNCHANGED <<clock, unpaid, handed, dropped>>
    BY DEF Announce, rowVars, ghostVars
  <1>2. PICK s \in run[r].todo :
           LET k    == <<Rules[run[r].rule], s>>
               rest == [run[r] EXCEPT !.todo = @ \ {s}]
           IN  IF Channel(s) # "none" /\ Unsaid(k)
               THEN /\ log' = [log EXCEPT ![k] = "sent"]
                    /\ Step(r, [rest EXCEPT !.pc = "send", !.cur = k])
               ELSE Step(r, rest) /\ UNCHANGED log
    BY DEF Announce
  <1> DEFINE k    == <<Rules[run[r].rule], s>>
             rest == [run[r] EXCEPT !.todo = @ \ {s}]
             row  == [rest EXCEPT !.pc = "send", !.cur = k]
  <1>3. /\ run[r].cur = <<>> /\ run[r].rule \in DOMAIN Rules
        /\ run[r].todo \subseteq SubjectsOf(Rules[run[r].rule])
    BY <1>0 DEF RunsOK, Telling
  <1>4. k \in Reminder
    BY <1>3, ReminderShape
  <1>5. \/ /\ Unsaid(k) /\ log' = [log EXCEPT ![k] = "sent"] /\ run' = [run EXCEPT ![r] = row]
        \/ run' = [run EXCEPT ![r] = rest] /\ UNCHANGED log
    BY <1>2 DEF Step
  <1> HIDE DEF k
  <1>6. /\ rest \in RunRow /\ rest.pc = "each" /\ rest.cur = <<>> /\ rest.began = run[r].began
        /\ rest.todo \subseteq run[r].todo /\ rest.rule = run[r].rule
    BY <1>0, <1>3 DEF RunRow
  <1>7. /\ row \in RunRow /\ row.pc = "send" /\ row.cur = k /\ row.began = run[r].began
        /\ row.todo \subseteq run[r].todo /\ row.rule = run[r].rule
    BY <1>0, <1>3, <1>4 DEF RunRow, Telling
  <1> HIDE DEF rest, row
  <1>8. CASE run' = [run EXCEPT ![r] = rest] /\ UNCHANGED log
    <2> QED
      BY <1>1, <1>3, <1>6, <1>8, QuietStep DEF Telling
  <1>9. CASE Unsaid(k) /\ log' = [log EXCEPT ![k] = "sent"] /\ run' = [run EXCEPT ![r] = row]
    <2>1. log[k] = "none" /\ handed[k] = 0
      BY <1>0, <1>4, <1>9 DEF Unsaid, RowFirst
    <2>2. handed' = [handed EXCEPT ![k] = 0]
      BY <1>0, <1>1, <1>4, <2>1 DEF Typed
    <2>3. \A q \in AllRuns : run[q].cur # k
      BY <1>0, <1>4, <2>1, NotAReminder DEF RunsOK
    <2>4. dropped \subseteq dropped'
      BY <1>1
    <2>5. Moves(r, row, k, "sent", 0)
      BY <1>0, <1>1, <1>7, <1>9, <2>2, <2>3, <2>4 DEF Moves, Telling
    <2> QED
      BY <1>4, <1>7, <2>5, MoveStep
  <1> QED
    BY <1>5, <1>8, <1>9

\* What the run that holds a reminder knows of it.
LEMMA Holder ==
    ASSUME IInv, NEW r \in AllRuns, run[r].pc \in Telling
    PROVE  /\ run[r] \in RunRow /\ run[r].cur \in Reminder
           /\ \A q \in AllRuns : q # r => run[q].cur # run[r].cur
           /\ handed[run[r].cur] \in {0, 1}
           /\ run[r].pc = "send" => handed[run[r].cur] = 0
           /\ log[run[r].cur] \in {"sent", "failed"}
  BY DEF IInv, Typed, RunsOK, InHand, ToldOnce

LEMMA DoneRow ==
    ASSUME NEW old \in RunRow, NEW row, row = [old EXCEPT !.pc = "each", !.cur = <<>>]
    PROVE  /\ row \in RunRow /\ row.pc = "each" /\ row.cur = <<>> /\ row.rule = old.rule
           /\ row.todo = old.todo /\ row.began = old.began
  BY DEF RunRow

LEMMA MarkRow ==
    ASSUME NEW old \in RunRow, NEW row, row = [old EXCEPT !.pc = "mark"]
    PROVE  /\ row \in RunRow /\ row.pc = "mark" /\ row.cur = old.cur /\ row.rule = old.rule
           /\ row.todo = old.todo /\ row.began = old.began
  BY DEF RunRow, Telling

LEMMA TellKeeps ==
    ASSUME IInv, NEW r \in AllRuns, SendSms(r) \/ MarkFailed(r) \/ SendEmail(r)
    PROVE  IInv'
  <1> DEFINE k    == run[r].cur
             done == [run[r] EXCEPT !.pc = "each", !.cur = <<>>]
             mark == [run[r] EXCEPT !.pc = "mark"]
  <1>0. run[r].pc \in Telling
    BY DEF SendSms, MarkFailed, SendEmail, Telling
  <1>1. /\ run[r] \in RunRow /\ k \in Reminder
        /\ \A q \in AllRuns : q # r => run[q].cur # k
        /\ handed[k] \in {0, 1}
        /\ run[r].pc = "send" => handed[k] = 0
        /\ log[k] \in {"sent", "failed"}
        /\ run[r].cur = k
    BY <1>0, Holder
  <1>2. /\ log \in [Reminder -> {"none", "sent", "failed"}] /\ handed \in [Reminder -> Nat]
    BY DEF IInv, Typed
  <1>3. UNCHANGED <<clock, unpaid>>
    BY DEF SendSms, MarkFailed, SendEmail, rowVars
  <1>4. log = [log EXCEPT ![k] = log[k]] /\ handed = [handed EXCEPT ![k] = handed[k]]
    BY <1>1, <1>2
  <1>5. /\ done \in RunRow /\ done.pc = "each" /\ done.cur = <<>> /\ done.rule = run[r].rule
        /\ done.todo = run[r].todo /\ done.began = run[r].began
    BY <1>1, DoneRow
  <1>6. /\ mark \in RunRow /\ mark.pc = "mark" /\ mark.cur = k /\ mark.rule = run[r].rule
        /\ mark.todo = run[r].todo /\ mark.began = run[r].began
    BY <1>1, MarkRow
  <1>7. CASE SendSms(r)
    <2>1. PICK answer \in {"ok", "refused", "lost"}, taken \in BOOLEAN :
             /\ answer = "ok" => taken
             /\ handed' = [handed EXCEPT ![k] = IF taken THEN @ + 1 ELSE @]
             /\ IF answer = "ok" THEN run' = [run EXCEPT ![r] = done] ELSE run' = [run EXCEPT ![r] = mark]
      BY <1>7 DEF SendSms, Done, Step
    <2>2. UNCHANGED <<log, dropped>> /\ handed[k] = 0 /\ run[r].pc = "send"
      BY <1>1, <1>7 DEF SendSms, ghostVars
    <2> HIDE DEF k, done, mark
    <2>3. PICK n \in {0, 1} : handed' = [handed EXCEPT ![k] = n] /\ (answer = "ok" => n = 1)
      <3>0. handed[k] = 0 /\ 0 + 1 = 1
        BY <2>2
      <3>1. CASE taken
        <4>1. handed' = [handed EXCEPT ![k] = 1]
          BY <2>1, <3>0, <3>1
        <4> QED
          BY <4>1
      <3>2. CASE ~ taken
        <4>1. handed' = [handed EXCEPT ![k] = 0]
          BY <2>1, <3>0, <3>2
        <4> QED
          BY <2>1, <3>2, <4>1
      <3> QED
        BY <3>1, <3>2
    <2>4. CASE answer = "ok"
      <3>1. Moves(r, done, k, log[k], n)
        BY <1>0, <1>1, <1>3, <1>4, <1>5, <2>1, <2>2, <2>3, <2>4 DEF Moves, Telling
      <3> QED
        BY <1>1, <1>5, <3>1, MoveStep
    <2>5. CASE answer # "ok"
      <3>1. Moves(r, mark, k, log[k], n)
        BY <1>0, <1>1, <1>3, <1>4, <1>6, <2>1, <2>2, <2>3, <2>5 DEF Moves, Telling
      <3> QED
        BY <1>1, <1>6, <3>1, MoveStep
    <2> QED
      BY <2>4, <2>5
  <1>8. CASE MarkFailed(r)
    <2>1. /\ log' = [log EXCEPT ![k] = "failed"] /\ UNCHANGED <<handed, dropped>>
          /\ run' = [run EXCEPT ![r] = done]
      BY <1>8 DEF MarkFailed, Marked, Done, Step, ghostVars
    <2> HIDE DEF k, done, mark
    <2>2. Moves(r, done, k, "failed", handed[k])
      BY <1>0, <1>1, <1>3, <1>4, <1>5, <2>1 DEF Moves, Telling
    <2> QED
      BY <1>1, <1>5, <2>2, MoveStep
  <1>9. CASE SendEmail(r)
    <2>1. /\ run' = [run EXCEPT ![r] = done] /\ UNCHANGED log /\ run[r].pc = "send"
          /\ \/ handed' = [handed EXCEPT ![k] = @ + 1] /\ UNCHANGED dropped
             \/ dropped' = dropped \cup {k} /\ UNCHANGED handed
      BY <1>9 DEF SendEmail, Done, Step
    <2> HIDE DEF k, done, mark
    <2>2. CASE handed' = [handed EXCEPT ![k] = @ + 1] /\ UNCHANGED dropped
      <3>0. handed[k] = 0 /\ 0 + 1 = 1
        BY <1>1, <2>1
      <3>1. handed' = [handed EXCEPT ![k] = 1]
        BY <3>0, <2>2
      <3>2. 1 > 0 /\ dropped \subseteq dropped'
        BY <2>2
      <3>3. Moves(r, done, k, log[k], 1)
        BY <1>0, <1>1, <1>3, <1>4, <1>5, <2>1, <3>1, <3>2 DEF Moves, Telling
      <3> QED
        BY <1>1, <1>5, <3>3, MoveStep
    <2>3. CASE dropped' = dropped \cup {k} /\ UNCHANGED handed
      <3>1. Moves(r, done, k, log[k], handed[k])
        BY <1>0, <1>1, <1>3, <1>4, <1>5, <2>1, <2>3 DEF Moves, Telling
      <3> QED
        BY <1>1, <1>5, <3>1, MoveStep
    <2> QED
      BY <2>1, <2>2, <2>3
  <1> QED
    BY <1>7, <1>8, <1>9

LEMMA EndKeeps ==
    ASSUME IInv, NEW ended \in SUBSET AllRuns, End(ended)
    PROVE  IInv'
  <1>0. /\ Typed /\ RunsOK /\ InHand /\ RowFirst /\ ToldOnce /\ LogHonest
    BY DEF IInv
  <1>1. UNCHANGED <<clock, unpaid, log, handed>>
    BY DEF End, rowVars
  <1>2. /\ \A r \in ended : run'[r] = Idle /\ run'[r].pc = "idle" /\ run'[r].cur = <<>>
        /\ \A r \in AllRuns \ ended : run'[r] = run[r]
    BY IdleRow DEF End
  <1>3. run' \in [AllRuns -> RunRow]
    BY <1>0, IdleRow DEF End, Typed
  <1>4. Typed'
    BY <1>0, <1>1, <1>3 DEF Typed, RunRow
  <1>5. RunsOK'
    BY <1>0, <1>1, <1>2 DEF RunsOK, Telling
  <1>6. InHand'
    <2>1. \A r \in AllRuns : run'[r].pc = "send" => handed'[run'[r].cur] = 0
      BY <1>0, <1>1, <1>2 DEF InHand
    <2>2. \A r, q \in AllRuns : r # q /\ run'[r].pc \in Telling => run'[r].cur # run'[q].cur
      <3> SUFFICES ASSUME NEW r \in AllRuns, NEW q \in AllRuns, r # q, run'[r].pc \in Telling
                   PROVE  run'[r].cur # run'[q].cur
        OBVIOUS
      <3>1. r \notin ended /\ run'[r] = run[r]
        BY <1>2 DEF Telling
      <3>2. run[r].cur \in Reminder
        BY <1>0, <3>1 DEF RunsOK
      <3>3. CASE q \in ended
        BY <1>2, <3>1, <3>2, <3>3, NotAReminder
      <3>4. CASE q \notin ended
        BY <1>0, <1>2, <3>1, <3>4 DEF InHand
      <3> QED
        BY <3>3, <3>4
    <2> QED
      BY <2>1, <2>2 DEF InHand
  <1>7. RowFirst' /\ ToldOnce'
    BY <1>0, <1>1 DEF RowFirst, ToldOnce
  <1>8. LogHonest'
    <2> SUFFICES ASSUME NEW k \in Reminder, k \notin dropped', log'[k] = "sent",
                        \A q \in AllRuns : run'[q].cur # k
                 PROVE  handed'[k] > 0
      BY DEF LogHonest
    <2>1. k \notin dropped /\ \A q \in ended : run[q].pc \in Telling => run[q].cur # k
      BY DEF End
    <2>2. \A q \in AllRuns : run[q].cur # k
      BY <1>0, <1>2, <2>1, NotAReminder DEF RunsOK
    <2> QED
      BY <1>0, <1>1, <2>1, <2>2 DEF LogHonest
  <1> QED
    BY <1>4, <1>5, <1>6, <1>7, <1>8 DEF IInv

LEMMA CrashKeeps ==
    ASSUME IInv, Crash \/ \E r \in AllRuns : Fail(r)
    PROVE  IInv'
  BY EndKeeps DEF Crash, Fail

-----------------------------------------------------------------------------
LEMMA StepKeeps == IInv /\ [Next]_vars => IInv'
  <1> SUFFICES ASSUME IInv, [Next]_vars PROVE IInv'
    OBVIOUS
  <1>1. CASE Environment \/ UNCHANGED vars
    BY <1>1, EnvironmentKeeps
  <1>2. CASE StartCron \/ (\E r \in Runs : RunNow(r))
    BY <1>2, BeginKeeps
  <1>3. CASE \E r \in AllRuns : RunStep(r)
    <2>1. PICK r \in AllRuns : RunStep(r)
      BY <1>3
    <2>2. CASE NextRule(r)
      BY <2>2, NextRuleKeeps
    <2>3. CASE ExpireRead(r) \/ ExpireWrite(r)
      BY <2>3, ExpireKeeps
    <2>4. CASE Announce(r)
      BY <2>4, AnnounceKeeps
    <2>5. CASE SendSms(r) \/ MarkFailed(r) \/ SendEmail(r)
      BY <2>5, TellKeeps
    <2>6. CASE Fail(r)
      BY <2>6, CrashKeeps
    <2> QED
      BY <2>1, <2>2, <2>3, <2>4, <2>5, <2>6 DEF RunStep
  <1>4. CASE Crash
    BY <1>4, CrashKeeps
  <1> QED
    BY <1>1, <1>2, <1>3, <1>4 DEF Next

LEMMA AlwaysIInv == Spec => []IInv
  BY InitEstablishes, StepKeeps, PTL DEF Spec

\* Nobody is told the same thing twice, however many runs overlap and die:
\* the row with the dedupe key is inserted before the message is handed over.
THEOREM EachToldOnce == Spec => []ToldOnce
  <1>1. IInv => ToldOnce
    BY DEF IInv
  <1> QED
    BY <1>1, AlwaysIInv, PTL

\* A row that says 'sent' stands for a message that left, but for those a crash
\* or a dead mail queue dropped (sendOnce, automation.service.ts 367-405).
THEOREM LogIsHonest == Spec => []LogHonest
  <1>1. IInv => LogHonest
    BY DEF IInv
  <1> QED
    BY <1>1, AlwaysIInv, PTL

-----------------------------------------------------------------------------
(* The thank-you message.  Windows that begin no later than the query       *)
(* before them leave no job between two: one that a query is too late for   *)
(* was completed before the query before it.                                *)

Times == /\ clock \in Nat /\ asked \in Nat /\ asked <= clock
         /\ completedAt \in [Jobs -> Int]
         /\ \A j \in Jobs : completedAt[j] <= clock

ThanksInv == Times /\ ThankedWhileSteady

ThankYou(j) == <<"job_thank_you", j>>

\* Run r is about to thank for job j.
OnList(r, j) == Thanking(r) /\ j \in run[r].todo

LEMMA ThankYouReminder == \A j \in Jobs : ThankYou(j) \in Reminder
  <1>1. 6 \in DOMAIN Rules /\ Rules[6] = "job_thank_you"
    BY RulesLength DEF Rules
  <1>2. SubjectsOf("job_thank_you") = Jobs
    BY DEF SubjectsOf
  <1> QED
    BY <1>1, <1>2, ReminderShape DEF ThankYou

\* A row, once inserted, is never taken away.
LEMMA RowsStay ==
    ASSUME IInv, [Next]_vars, NEW k \in Reminder, log'[k] = "none"
    PROVE  log[k] = "none"
  <1>1. log \in [Reminder -> {"none", "sent", "failed"}]
    BY DEF IInv, Typed
  <1>2. CASE UNCHANGED log
    BY <1>2
  <1>3. ASSUME NEW m, NEW v \in {"sent", "failed"}, log' = [log EXCEPT ![m] = v]
        PROVE  log[k] = "none"
    BY <1>1, <1>3
  <1>4. UNCHANGED log \/ \E v \in {"sent", "failed"} : \E m : log' = [log EXCEPT ![m] = v]
    <2>1. ASSUME NEW r \in AllRuns, RunStep(r)
          PROVE  UNCHANGED log \/ \E v \in {"sent", "failed"} : \E m : log' = [log EXCEPT ![m] = v]
      <3>1. CASE ExpireRead(r) \/ ExpireWrite(r) \/ NextRule(r) \/ SendSms(r) \/ SendEmail(r) \/ Fail(r)
        BY <3>1 DEF ExpireRead, ExpireWrite, NextRule, SendSms, SendEmail, Fail, End
      <3>2. CASE Announce(r)
        BY <3>2 DEF Announce
      <3>3. CASE MarkFailed(r)
        BY <3>3 DEF MarkFailed, Marked
      <3> QED
        BY <2>1, <3>1, <3>2, <3>3 DEF RunStep
    <2>2. CASE Environment \/ UNCHANGED vars
      BY <2>2 DEF Environment, Tick, ReadEstimate, WriteEstimate, InvoiceChanges, CompleteJob, vars
    <2>3. CASE StartCron \/ (\E r \in Runs : RunNow(r)) \/ Crash
      BY <2>3 DEF StartCron, RunNow, Crash, End
    <2> QED
      BY <2>1, <2>2, <2>3 DEF Next
  <1> QED
    BY <1>2, <1>3, <1>4

\* A step without a thank-you query that takes nobody off a list unthanked.
LEMMA ThanksUndisturbed ==
    ASSUME IInv, ThanksInv, [Next]_vars,
           UNCHANGED <<enabled, completedAt, asked>>, clock' \in Nat, clock <= clock',
           steady' => steady,
           \A r \in AllRuns, j \in Jobs :
              steady' /\ MustThank(j) /\ ~ Thanked(j)' /\ OnList(r, j) => OnList(r, j)'
    PROVE  ThanksInv'
  <1>1. Times'
    BY DEF ThanksInv, Times
  <1>2. ASSUME NEW j \in Jobs, MustThank(j)', steady', completedAt'[j] < asked', ~ Thanked(j)'
        PROVE  \E r \in AllRuns : OnList(r, j)'
    <2>1. MustThank(j) /\ completedAt[j] < asked
      BY <1>2 DEF MustThank
    <2>2. ~ Thanked(j)
      BY <1>2, RowsStay, ThankYouReminder DEF Thanked, ThankYou
    <2>3. PICK r \in AllRuns : OnList(r, j)
      BY <1>2, <2>1, <2>2 DEF ThanksInv, ThankedWhileSteady, OnList
    <2> QED
      BY <1>2, <2>1, <2>3
  <1>3. ThankedWhileSteady'
    BY <1>2 DEF ThankedWhileSteady, OnList
  <1> QED
    BY <1>1, <1>3 DEF ThanksInv

LEMMA EnvironmentThanks ==
    ASSUME IInv, ThanksInv, [Next]_vars, Environment \/ UNCHANGED vars
    PROVE  ThanksInv'
  <1>0. /\ clock \in Nat /\ asked \in Nat /\ asked <= clock /\ completedAt \in [Jobs -> Int]
        /\ \A j \in Jobs : completedAt[j] <= clock
    BY DEF ThanksInv, Times
  <1>1. UNCHANGED <<enabled, asked, steady, run, log>>
    BY DEF Environment, Tick, ReadEstimate, WriteEstimate, InvoiceChanges, CompleteJob,
           vars, rowVars, ghostVars, thankVars
  <1>2. CASE UNCHANGED completedAt
    <2>1. clock' \in {clock, clock + 1}
      BY DEF Environment, Tick, ReadEstimate, WriteEstimate, InvoiceChanges, CompleteJob,
             vars, rowVars
    <2>2. \A r \in AllRuns, j \in Jobs : OnList(r, j) => OnList(r, j)'
      BY <1>1 DEF OnList, Thanking
    <2>3. clock' \in Nat /\ clock <= clock'
      BY <1>0, <2>1
    <2> QED
      BY <1>1, <1>2, <2>2, <2>3, ThanksUndisturbed
  <1>3. ASSUME NEW i \in Jobs, CompleteJob(i) PROVE ThanksInv'
    <2>1. completedAt' = [completedAt EXCEPT ![i] = clock] /\ clock' = clock
      BY <1>3 DEF CompleteJob
    <2>2. /\ completedAt'[i] = clock /\ ~ (clock < asked)
          /\ \A j \in Jobs : j # i => completedAt'[j] = completedAt[j]
      BY <1>0, <2>1
    <2>3. Times'
      BY <1>0, <1>1, <2>1, <2>2 DEF Times
    <2>4. ThankedWhileSteady'
      <3> SUFFICES ASSUME NEW j \in Jobs, MustThank(j)', steady', completedAt'[j] < asked'
                   PROVE  Thanked(j)' \/ \E r \in AllRuns : OnList(r, j)'
        BY DEF ThankedWhileSteady, OnList
      <3>1. j # i
        BY <1>1, <2>2
      <3>2. MustThank(j) /\ completedAt[j] < asked
        BY <1>1, <2>2, <3>1 DEF MustThank
      <3>3. Thanked(j) \/ \E r \in AllRuns : OnList(r, j)
        BY <1>1, <3>2 DEF ThanksInv, ThankedWhileSteady, OnList
      <3> QED
        BY <1>1, <3>3 DEF Thanked, OnList, Thanking
    <2> QED
      BY <2>3, <2>4 DEF ThanksInv
  <1>4. UNCHANGED completedAt \/ \E i \in Jobs : CompleteJob(i)
    BY DEF Environment, Tick, ReadEstimate, WriteEstimate, InvoiceChanges, vars, rowVars
  <1> QED
    BY <1>2, <1>3, <1>4

\* Run r thanks nobody: it begins, expires, or has finished a rule.
LEMMA NoThanksOf ==
    ASSUME IInv, ThanksInv, [Next]_vars, NEW r \in AllRuns,
           UNCHANGED <<enabled, completedAt, asked, clock>>, steady' => steady,
           \A q \in AllRuns : q # r => run'[q] = run[q],
           \A j \in Jobs : ~ OnList(r, j)
    PROVE  ThanksInv'
  <1>1. \A q \in AllRuns, j \in Jobs : OnList(q, j) => OnList(q, j)'
    BY DEF OnList, Thanking
  <1>2. clock' \in Nat /\ clock <= clock'
    BY DEF ThanksInv, Times
  <1> QED
    BY <1>1, <1>2, ThanksUndisturbed

LEMMA QuietThanks ==
    ASSUME IInv, ThanksInv, [Next]_vars, NEW r \in AllRuns,
           (r = Cron /\ StartCron) \/ RunNow(r) \/ ExpireRead(r) \/ ExpireWrite(r)
    PROVE  ThanksInv'
  <1>1. UNCHANGED <<enabled, completedAt, asked, clock, steady>>
    BY DEF StartCron, RunNow, ExpireRead, ExpireWrite, rowVars, ghostVars, thankVars
  <1>2. run[r].pc \in {"idle", "expiring"}
    BY DEF StartCron, RunNow, ExpireRead, ExpireWrite
  <1>3. \A j \in Jobs : ~ OnList(r, j)
    BY <1>2 DEF OnList, Thanking, Telling
  <1>4. \A q \in AllRuns : q # r => run'[q] = run[q]
    <2>1. \E row : run' = [run EXCEPT ![r] = row]
      BY DEF StartCron, RunNow, ExpireRead, ExpireWrite, Begin, Step
    <2> QED
      BY <2>1 DEF IInv, Typed
  <1> QED
    BY <1>1, <1>3, <1>4, NoThanksOf

LEMMA NextRuleThanks ==
    ASSUME IInv, ThanksInv, [Next]_vars, NEW r \in AllRuns, NextRule(r)
    PROVE  ThanksInv'
  <1>0. /\ run \in [AllRuns -> RunRow] /\ run[r] \in RunRow /\ run[r].todo = {}
        /\ UNCHANGED <<enabled, completedAt, clock, log>>
    BY DEF IInv, Typed, NextRule, Between, rowVars
  <1>1. \A j \in Jobs : ~ OnList(r, j)
    BY <1>0 DEF OnList
  <1>2. \A q \in AllRuns : q # r => run'[q] = run[q]
    <2>1. \E row : run' = [run EXCEPT ![r] = row]
      BY DEF NextRule, Step
    <2> QED
      BY <1>0, <2>1
  <1> PICK next : next = CHOOSE i \in Later(r) : \A k \in Later(r) : i <= k
    OBVIOUS
  <1>3. CASE UNCHANGED <<asked, steady>>
    BY <1>0, <1>1, <1>2, <1>3, NoThanksOf
  <1>4. CASE Later(r) # {} /\ Rules[next] = "job_thank_you"
    <2>1. /\ run' = [run EXCEPT ![r] = [run[r] EXCEPT !.pc = "each", !.rule = next,
                                          !.todo = Due(Rules[next])]]
          /\ asked' = clock /\ steady' = (steady /\ clock <= asked + Day)
      BY <1>4 DEF NextRule, Step
    <2>2. /\ run'[r].pc = "each" /\ run'[r].rule = next /\ run'[r].todo = JustCompleted
      <3>1. Due(Rules[next]) = JustCompleted
        BY <1>4 DEF Due
      <3> QED
        BY <1>0, <2>1, <3>1 DEF RunRow
    <2>3. /\ clock \in Nat /\ asked \in Nat /\ completedAt \in [Jobs -> Int] /\ Day \in Nat
          /\ Times
      BY DayAssumption DEF ThanksInv, Times
    <2>4. Times'
      BY <1>0, <2>1, <2>3 DEF Times
    <2>5. ThankedWhileSteady'
      <3> SUFFICES ASSUME NEW j \in Jobs, MustThank(j)', steady', completedAt'[j] < asked'
                   PROVE  Thanked(j)' \/ \E q \in AllRuns : OnList(q, j)'
        BY DEF ThankedWhileSteady, OnList
      <3>1. MustThank(j) /\ steady /\ clock <= asked + Day /\ completedAt[j] \in Int
        BY <1>0, <2>1, <2>3 DEF MustThank
      <3>2. CASE completedAt[j] < asked
        <4>1. Thanked(j) \/ \E q \in AllRuns : OnList(q, j)
          BY <3>1, <3>2 DEF ThanksInv, ThankedWhileSteady, OnList
        <4>2. \A q \in AllRuns : OnList(q, j) => OnList(q, j)'
          BY <1>1, <1>2 DEF OnList, Thanking
        <4> QED
          BY <1>0, <4>1, <4>2 DEF Thanked
      <3>3. CASE ~ (completedAt[j] < asked)
        <4>1. completedAt[j] >= clock - Day
          BY <2>3, <3>1, <3>3
        <4>2. j \in JustCompleted
          BY <3>1, <4>1 DEF JustCompleted, MustThank
        <4> QED
          BY <1>4, <2>2, <4>2 DEF OnList, Thanking
      <3> QED
        BY <3>2, <3>3
    <2> QED
      BY <2>4, <2>5 DEF ThanksInv
  <1> QED
    BY <1>3, <1>4 DEF NextRule

LEMMA AnnounceThanks ==
    ASSUME IInv, ThanksInv, [Next]_vars, NEW r \in AllRuns, Announce(r)
    PROVE  ThanksInv'
  <1>0. /\ run \in [AllRuns -> RunRow] /\ run[r] \in RunRow /\ run[r].pc = "each"
        /\ log \in [Reminder -> {"none", "sent", "failed"}]
        /\ UNCHANGED <<enabled, completedAt, asked, clock, steady>>
    BY DEF IInv, Typed, Announce, rowVars, ghostVars, thankVars
  <1>1. PICK s \in run[r].todo :
         LET k    == <<Rules[run[r].rule], s>>
             rest == [run[r] EXCEPT !.todo = @ \ {s}]
         IN  IF Channel(s) # "none" /\ Unsaid(k)
             THEN /\ log' = [log EXCEPT ![k] = "sent"]
                  /\ Step(r, [rest EXCEPT !.pc = "send", !.cur = k])
             ELSE Step(r, rest) /\ UNCHANGED log
    BY DEF Announce
  <1> PICK k : k = <<Rules[run[r].rule], s>>
    OBVIOUS
  <1>2. /\ run'[r].pc \in {"each", "send"} /\ run'[r].rule = run[r].rule
        /\ run'[r].todo = run[r].todo \ {s}
        /\ \A q \in AllRuns : q # r => run'[q] = run[q]
    <2> DEFINE rest == [run[r] EXCEPT !.todo = @ \ {s}]
               row  == [rest EXCEPT !.pc = "send", !.cur = k]
    <2>1. rest.pc = "each" /\ rest.rule = run[r].rule /\ rest.todo = run[r].todo \ {s}
      BY <1>0 DEF RunRow
    <2>2. row.pc = "send" /\ row.rule = run[r].rule /\ row.todo = run[r].todo \ {s}
      BY <1>0 DEF RunRow
    <2>3. run' = [run EXCEPT ![r] = rest] \/ run' = [run EXCEPT ![r] = row]
      BY <1>1 DEF Step
    <2> HIDE DEF rest, row
    <2> QED
      BY <1>0, <2>1, <2>2, <2>3
  <1>3. Channel(s) # "none" /\ log[k] = "none" => log' = [log EXCEPT ![k] = "sent"]
    BY <1>1 DEF Unsaid
  <1>4. ASSUME NEW q \in AllRuns, NEW j \in Jobs, MustThank(j), ~ Thanked(j)', OnList(q, j)
        PROVE  OnList(q, j)'
    <2>1. CASE q # r
      BY <1>2, <1>4, <2>1 DEF OnList, Thanking
    <2>2. CASE q = r
      <3>1. Rules[run[r].rule] = "job_thank_you" /\ j \in run[r].todo
        BY <1>4, <2>2 DEF OnList, Thanking
      <3>2. log'[ThankYou(j)] = "none" /\ log[ThankYou(j)] = "none" /\ ThankYou(j) \in Reminder
        BY <1>4, RowsStay, ThankYouReminder DEF Thanked, ThankYou
      <3>3. j # s
        <4> SUFFICES ASSUME j = s PROVE FALSE
          OBVIOUS
        <4>1. k = ThankYou(j) /\ Channel(s) # "none"
          BY <1>4, <3>1 DEF ThankYou, MustThank
        <4> QED
          BY <1>0, <1>3, <3>2, <4>1
      <3> QED
        BY <1>2, <2>2, <3>1, <3>3 DEF OnList, Thanking, Telling
    <2> QED
      BY <2>1, <2>2
  <1>5. clock' \in Nat /\ clock <= clock'
    BY <1>0 DEF ThanksInv, Times
  <1> QED
    BY <1>0, <1>4, <1>5, ThanksUndisturbed

LEMMA TellThanks ==
    ASSUME IInv, ThanksInv, [Next]_vars, NEW r \in AllRuns,
           SendSms(r) \/ MarkFailed(r) \/ SendEmail(r)
    PROVE  ThanksInv'
  <1>0. /\ run \in [AllRuns -> RunRow] /\ run[r] \in RunRow
        /\ UNCHANGED <<enabled, completedAt, asked, clock, steady>>
    BY DEF IInv, Typed, SendSms, MarkFailed, SendEmail, rowVars, ghostVars, thankVars
  <1>1. /\ run'[r].pc \in {"each", "mark"} /\ run'[r].rule = run[r].rule
        /\ run'[r].todo = run[r].todo /\ \A q \in AllRuns : q # r => run'[q] = run[q]
    <2> DEFINE done == [run[r] EXCEPT !.pc = "each", !.cur = <<>>]
               mark == [run[r] EXCEPT !.pc = "mark"]
    <2>1. done.pc = "each" /\ done.rule = run[r].rule /\ done.todo = run[r].todo
      BY <1>0, DoneRow
    <2>2. mark.pc = "mark" /\ mark.rule = run[r].rule /\ mark.todo = run[r].todo
      BY <1>0, MarkRow
    <2>3. run' = [run EXCEPT ![r] = done] \/ run' = [run EXCEPT ![r] = mark]
      BY DEF SendSms, MarkFailed, SendEmail, Done, Step
    <2> HIDE DEF done, mark
    <2> QED
      BY <1>0, <2>1, <2>2, <2>3
  <1>2. \A q \in AllRuns, j \in Jobs : OnList(q, j) => OnList(q, j)'
    BY <1>1 DEF OnList, Thanking, Telling
  <1>3. clock' \in Nat /\ clock <= clock'
    BY <1>0 DEF ThanksInv, Times
  <1> QED
    BY <1>0, <1>2, <1>3, ThanksUndisturbed

LEMMA EndThanks ==
    ASSUME IInv, ThanksInv, [Next]_vars, NEW ended \in SUBSET AllRuns, End(ended)
    PROVE  ThanksInv'
  <1>1. /\ UNCHANGED <<enabled, completedAt, asked, clock>>
        /\ steady' => steady /\ \A r \in ended : ~ (Thanking(r) /\ run[r].todo # {})
    BY DEF End, rowVars
  <1>2. \A r \in AllRuns \ ended : run'[r] = run[r]
    BY DEF End
  <1>3. \A r \in AllRuns, j \in Jobs : steady' /\ OnList(r, j) => OnList(r, j)'
    BY <1>1, <1>2 DEF OnList, Thanking
  <1>4. clock' \in Nat /\ clock <= clock'
    BY <1>1 DEF ThanksInv, Times
  <1> QED
    BY <1>1, <1>3, <1>4, ThanksUndisturbed

\* A job is thanked for by the thank-you queries that come after it, if these are a
\* day apart at most and the runs get through what they find: windows of 24 hours
\* back from each query leave no gap then (runJobThankYous, automation.service.ts
\* 299-328, and sendOnce, which inserts the row before it sends).
THEOREM ThankedInTime == Spec => []ThankedWhileSteady
  <1>1. Init => ThanksInv
    <2> SUFFICES ASSUME Init PROVE ThanksInv
      OBVIOUS
    <2>1. clock = 0 /\ asked = 0 /\ completedAt = [j \in Jobs |-> -1]
      BY DEF Init
    <2>2. Times
      BY <2>1 DEF Times
    <2>3. ThankedWhileSteady
      BY <2>1 DEF ThankedWhileSteady, MustThank
    <2> QED
      BY <2>2, <2>3 DEF ThanksInv
  <1>2. IInv /\ ThanksInv /\ [Next]_vars => ThanksInv'
    <2> SUFFICES ASSUME IInv, ThanksInv, [Next]_vars PROVE ThanksInv'
      OBVIOUS
    <2>1. CASE Environment \/ UNCHANGED vars
      BY <2>1, EnvironmentThanks
    <2>2. CASE StartCron \/ \E r \in Runs : RunNow(r)
      BY <2>2, QuietThanks DEF AllRuns
    <2>3. ASSUME NEW r \in AllRuns, RunStep(r) PROVE ThanksInv'
      <3>1. CASE Fail(r)
        BY <3>1, EndThanks DEF Fail
      <3> QED
        BY <2>3, <3>1, QuietThanks, NextRuleThanks, AnnounceThanks, TellThanks DEF RunStep
    <2>4. CASE Crash
      BY <2>4, EndThanks DEF Crash
    <2> QED
      BY <2>1, <2>2, <2>3, <2>4 DEF Next
  <1>3. ThanksInv => ThankedWhileSteady
    BY DEF ThanksInv
  <1> QED
    BY <1>1, <1>2, <1>3, AlwaysIInv, PTL DEF Spec

-----------------------------------------------------------------------------
(* The notices.  A reminder is pending while one run is at its send, and    *)
(* only that run moves it; what the runs do besides leaves every reminder   *)
(* where it is.                                                             *)

SamePhase(k) == Phase(k)' = Phase(k)

LEMMA NoticeStutter ==
    ASSUME \A k \in Reminder : SamePhase(k), UNCHANGED <<log, handed>>
    PROVE  UNCHANGED Notice!vars
  BY DEF SamePhase, Notice!vars

LEMMA NoticeUndertaken ==
    ASSUME NEW k \in Reminder, \A m \in Reminder \ {k} : SamePhase(m),
           Phase(k) = "open", Phase(k)' = "pending",
           log' = [log EXCEPT ![k] = "sent"], UNCHANGED handed
    PROVE  Notice!Next
  BY DEF SamePhase, Notice!Next, Notice!Undertake

LEMMA NoticeTold ==
    ASSUME NEW k \in Reminder, \A m \in Reminder \ {k} : SamePhase(m),
           Phase(k) = "pending", Phase(k)' = "closed",
           handed' = [handed EXCEPT ![k] = @ + 1], UNCHANGED log
    PROVE  Notice!Next
  BY DEF SamePhase, Notice!Next, Notice!Tell

LEMMA NoticeAdmitted ==
    ASSUME NEW k \in Reminder, \A m \in Reminder : SamePhase(m), Phase(k) = "closed",
           log' = [log EXCEPT ![k] = "failed"], UNCHANGED handed
    PROVE  Notice!Next
  BY DEF SamePhase, Notice!Next, Notice!Admit

LEMMA NoticesLost ==
    ASSUME NEW lost \in SUBSET Reminder, \A m \in Reminder \ lost : SamePhase(m),
           \A m \in lost : Phase(m) = "pending" /\ Phase(m)' = "closed",
           UNCHANGED <<log, handed>>
    PROVE  Notice!Next
  <1>1. Notice!Lose(lost)
    BY DEF SamePhase, Notice!Lose
  <1> QED
    BY <1>1 DEF Notice!Next

\* A step of run r leaves a reminder alone that it is not sending, before or after.
LEMMA PhaseKept ==
    ASSUME NEW r \in AllRuns, \A q \in AllRuns : q # r => run'[q] = run[q],
           NEW k, log'[k] = log[k],
           ~ (run[r].pc = "send" /\ run[r].cur = k), ~ (run'[r].pc = "send" /\ run'[r].cur = k)
    PROVE  SamePhase(k)
  <1>1. Pending(k)' <=> Pending(k)
    BY DEF Pending
  <1> QED
    BY <1>1 DEF SamePhase, Phase

\* Who begins, expires or looks for reminders has none in hand.
LEMMA QuietNotices ==
    ASSUME IInv, NEW r \in AllRuns, NEW row, run' = [run EXCEPT ![r] = row],
           run[r].pc # "send", row.pc # "send", UNCHANGED <<log, handed>>
    PROVE  UNCHANGED Notice!vars
  <1>1. run \in [AllRuns -> RunRow]
    BY DEF IInv, Typed
  <1>2. run'[r] = row /\ \A q \in AllRuns : q # r => run'[q] = run[q]
    BY <1>1
  <1>3. \A k \in Reminder : SamePhase(k)
    BY <1>2, PhaseKept
  <1> QED
    BY <1>3, NoticeStutter

LEMMA BeginNotices ==
    ASSUME IInv, NEW r \in AllRuns,
           (r = Cron /\ StartCron) \/ RunNow(r) \/ ExpireRead(r) \/ ExpireWrite(r) \/ NextRule(r)
    PROVE  UNCHANGED Notice!vars
  <1>0. run[r] \in RunRow /\ run[r].pc # "send" /\ UNCHANGED <<log, handed>>
    BY DEF IInv, Typed, StartCron, RunNow, ExpireRead, ExpireWrite, NextRule, Between
  <1>1. PICK row : run' = [run EXCEPT ![r] = row] /\ row.pc # "send"
    <2>1. CASE (r = Cron /\ StartCron) \/ RunNow(r)
      <3>1. [Idle EXCEPT !.pc = "expiring", !.todo = Lapsed, !.began = Today].pc = "expiring"
        BY DEF Idle
      <3> QED
        BY <2>1, <3>1 DEF StartCron, RunNow, Begin, Step
    <2>2. CASE ExpireRead(r)
      <3>1. PICK f : run' = [run EXCEPT ![r] = [run[r] EXCEPT !.todo = @ \ {f},
               !.passed = IF HasTenant(r) /\ MayWrite(f, "expired") THEN {f} ELSE {}]]
        BY <2>2 DEF ExpireRead, Step
      <3>2. \A p : [run[r] EXCEPT !.todo = @ \ {f}, !.passed = p].pc = "expiring"
        BY <1>0, <2>2 DEF ExpireRead, RunRow
      <3> QED
        BY <3>1, <3>2
    <2>4. CASE ExpireWrite(r)
      <3>1. [run[r] EXCEPT !.passed = {}].pc = "expiring"
        BY <1>0, <2>4 DEF ExpireWrite, RunRow
      <3> QED
        BY <2>4, <3>1 DEF ExpireWrite, Step
    <2>3. CASE NextRule(r)
      <3>1. \A i, todo : [run[r] EXCEPT !.pc = "each", !.rule = i, !.todo = todo].pc = "each"
        BY <1>0 DEF RunRow
      <3>2. \/ run' = [run EXCEPT ![r] = Idle]
            \/ \E i, todo : run' = [run EXCEPT ![r] =
                 [run[r] EXCEPT !.pc = "each", !.rule = i, !.todo = todo]]
        <4>1. CASE Later(r) = {}
          BY <2>3, <4>1 DEF NextRule, Step
        <4>2. CASE Later(r) # {}
          <5> PICK next : next = CHOOSE i \in Later(r) : \A k \in Later(r) : i <= k
            OBVIOUS
          <5>1. Step(r, [run[r] EXCEPT !.pc = "each", !.rule = next, !.todo = Due(Rules[next])])
            BY <2>3, <4>2 DEF NextRule
          <5> QED
            BY <5>1 DEF Step
        <4> QED
          BY <4>1, <4>2
      <3>3. CASE run' = [run EXCEPT ![r] = Idle]
        BY <3>3, IdleRow
      <3>4. CASE \E i, todo : run' = [run EXCEPT ![r] =
                    [run[r] EXCEPT !.pc = "each", !.rule = i, !.todo = todo]]
        <4>1. PICK i, todo : run' = [run EXCEPT ![r] =
                    [run[r] EXCEPT !.pc = "each", !.rule = i, !.todo = todo]]
          BY <3>4
        <4>2. [run[r] EXCEPT !.pc = "each", !.rule = i, !.todo = todo].pc # "send"
          BY <3>1
        <4> QED
          BY <4>1, <4>2
      <3> QED
        BY <3>2, <3>3, <3>4
    <2> QED
      BY <2>1, <2>2, <2>3, <2>4
  <1> QED
    BY <1>0, <1>1, QuietNotices

LEMMA AnnounceNotices ==
    ASSUME IInv, NEW r \in AllRuns, Announce(r)
    PROVE  [Notice!Next]_(Notice!vars)
  <1>0. /\ run \in [AllRuns -> RunRow] /\ run[r] \in RunRow /\ run[r].pc = "each"
        /\ log \in [Reminder -> {"none", "sent", "failed"}] /\ RunsOK /\ UNCHANGED handed
    BY DEF IInv, Typed, Announce
  <1>1. PICK s \in run[r].todo :
           LET k    == <<Rules[run[r].rule], s>>
               rest == [run[r] EXCEPT !.todo = @ \ {s}]
           IN  IF Channel(s) # "none" /\ Unsaid(k)
               THEN /\ log' = [log EXCEPT ![k] = "sent"]
                    /\ Step(r, [rest EXCEPT !.pc = "send", !.cur = k])
               ELSE Step(r, rest) /\ UNCHANGED log
    BY DEF Announce
  <1> PICK k : k = <<Rules[run[r].rule], s>>
    OBVIOUS
  <1>2. k \in Reminder
    BY <1>0, ReminderShape DEF RunsOK
  <1> DEFINE rest == [run[r] EXCEPT !.todo = @ \ {s}]
             row  == [rest EXCEPT !.pc = "send", !.cur = k]
  <1>3. \/ /\ Unsaid(k) /\ log' = [log EXCEPT ![k] = "sent"] /\ run' = [run EXCEPT ![r] = row]
        \/ run' = [run EXCEPT ![r] = rest] /\ UNCHANGED log
    BY <1>1 DEF Step
  <1>4. rest.pc = "each" /\ row.pc = "send" /\ row.cur = k
    BY <1>0 DEF RunRow
  <1> HIDE DEF rest, row
  <1>5. CASE run' = [run EXCEPT ![r] = rest] /\ UNCHANGED log
    BY <1>0, <1>4, <1>5, QuietNotices
  <1>6. CASE Unsaid(k) /\ log' = [log EXCEPT ![k] = "sent"] /\ run' = [run EXCEPT ![r] = row]
    <2>1. run'[r] = row /\ \A q \in AllRuns : q # r => run'[q] = run[q]
      BY <1>0, <1>6
    <2>2. log[k] = "none" /\ log'[k] = "sent" /\ \A m \in Reminder : m # k => log'[m] = log[m]
      BY <1>0, <1>2, <1>6 DEF Unsaid
    <2>3. Phase(k) = "open"
      BY <2>2 DEF Phase
    <2>4. Pending(k)'
      BY <1>4, <2>1 DEF Pending
    <2>5. Phase(k)' = "pending"
      BY <2>2, <2>4 DEF Phase
    <2>6. \A m \in Reminder \ {k} : SamePhase(m)
      BY <1>0, <1>4, <2>1, <2>2, PhaseKept
    <2> QED
      BY <1>0, <1>2, <1>6, <2>3, <2>5, <2>6, NoticeUndertaken
  <1> QED
    BY <1>3, <1>5, <1>6

\* Whoever has a reminder in hand lets go of it with the answer, or with none.
LEMMA LetGo ==
    ASSUME IInv, NEW r \in AllRuns, run[r].pc = "send",
           NEW row, run' = [run EXCEPT ![r] = row], row.pc # "send",
           NEW k, k = run[r].cur, UNCHANGED log
    PROVE  /\ k \in Reminder /\ Phase(k) = "pending" /\ Phase(k)' = "closed"
           /\ \A m \in Reminder \ {k} : SamePhase(m)
  <1>1. /\ k \in Reminder /\ log[k] # "none"
        /\ \A q \in AllRuns : q # r => run[q].cur # k
    BY Holder DEF Telling
  <1>2. run \in [AllRuns -> RunRow]
    BY DEF IInv, Typed
  <1>3. run'[r] = row /\ \A q \in AllRuns : q # r => run'[q] = run[q]
    BY <1>2
  <1>4. Pending(k) /\ ~ Pending(k)'
    BY <1>1, <1>3 DEF Pending
  <1>5. Phase(k) = "pending" /\ Phase(k)' = "closed"
    BY <1>1, <1>4 DEF Phase
  <1>6. \A m \in Reminder \ {k} : SamePhase(m)
    BY <1>3, PhaseKept
  <1> QED
    BY <1>1, <1>5, <1>6

\* The channel took the message or it did not.
LEMMA AnswerNotices ==
    ASSUME IInv, NEW r \in AllRuns, run[r].pc = "send",
           NEW row, run' = [run EXCEPT ![r] = row], row.pc # "send", UNCHANGED log,
           UNCHANGED handed \/ handed' = [handed EXCEPT ![run[r].cur] = @ + 1]
    PROVE  Notice!Next
  <1> PICK k : k = run[r].cur
    OBVIOUS
  <1>1. /\ k \in Reminder /\ Phase(k) = "pending" /\ Phase(k)' = "closed"
        /\ \A m \in Reminder \ {k} : SamePhase(m)
    BY LetGo
  <1>2. CASE UNCHANGED handed
    <2>1. {k} \in SUBSET Reminder
      BY <1>1
    <2> QED
      BY <1>1, <1>2, <2>1, NoticesLost
  <1>3. CASE handed' = [handed EXCEPT ![k] = @ + 1]
    BY <1>1, <1>3, NoticeTold
  <1> QED
    BY <1>2, <1>3

LEMMA TellNotices ==
    ASSUME IInv, NEW r \in AllRuns, SendSms(r) \/ MarkFailed(r) \/ SendEmail(r)
    PROVE  Notice!Next
  <1> DEFINE done == [run[r] EXCEPT !.pc = "each", !.cur = <<>>]
             mark == [run[r] EXCEPT !.pc = "mark"]
  <1>0. /\ run[r] \in RunRow /\ run[r].pc \in Telling /\ run \in [AllRuns -> RunRow]
        /\ log \in [Reminder -> {"none", "sent", "failed"}]
        /\ handed \in [Reminder -> Nat] /\ run[r].cur \in Reminder
    <2>1. run[r].pc \in Telling
      BY DEF SendSms, MarkFailed, SendEmail, Telling
    <2>2. /\ run \in [AllRuns -> RunRow] /\ handed \in [Reminder -> Nat]
          /\ log \in [Reminder -> {"none", "sent", "failed"}]
      BY DEF IInv, Typed
    <2> QED
      BY <2>1, <2>2, Holder
  <1>1. done.pc = "each" /\ mark.pc = "mark"
    <2>1. done.pc = "each"
      BY <1>0, DoneRow
    <2>2. mark.pc = "mark"
      BY <1>0, MarkRow
    <2> QED
      BY <2>1, <2>2
  <1>2. CASE SendSms(r)
    <2>1. PICK answer \in {"ok", "refused", "lost"}, taken \in BOOLEAN :
             /\ handed' = [handed EXCEPT ![run[r].cur] = IF taken THEN @ + 1 ELSE @]
             /\ IF answer = "ok" THEN run' = [run EXCEPT ![r] = done] ELSE run' = [run EXCEPT ![r] = mark]
      BY <1>2 DEF SendSms, Done, Step
    <2>2. run[r].pc = "send" /\ UNCHANGED log
      BY <1>2 DEF SendSms
    <2>3. UNCHANGED handed \/ handed' = [handed EXCEPT ![run[r].cur] = @ + 1]
      BY <1>0, <2>1
    <2> HIDE DEF done, mark
    <2> QED
      BY <1>1, <2>1, <2>2, <2>3, AnswerNotices
  <1>3. CASE SendEmail(r)
    <2>1. run[r].pc = "send" /\ UNCHANGED log /\ run' = [run EXCEPT ![r] = done]
      BY <1>3 DEF SendEmail, Done, Step
    <2>2. UNCHANGED handed \/ handed' = [handed EXCEPT ![run[r].cur] = @ + 1]
      BY <1>3 DEF SendEmail
    <2> HIDE DEF done
    <2> QED
      BY <1>1, <2>1, <2>2, AnswerNotices
  <1>4. CASE MarkFailed(r)
    <2> PICK k : k = run[r].cur
      OBVIOUS
    <2>1. /\ run[r].pc = "mark" /\ log' = [log EXCEPT ![k] = "failed"] /\ UNCHANGED handed
          /\ run' = [run EXCEPT ![r] = done]
      BY <1>4 DEF MarkFailed, Marked, Done, Step
    <2>2. /\ k \in Reminder /\ log[k] # "none"
          /\ \A q \in AllRuns : q # r => run[q].cur # k
      BY <1>0, Holder
    <2> HIDE DEF done
    <2>3. run'[r] = done /\ \A q \in AllRuns : q # r => run'[q] = run[q]
      BY <1>0, <2>1
    <2>4. log'[k] = "failed" /\ \A m \in Reminder : m # k => log'[m] = log[m]
      BY <1>0, <2>1, <2>2
    <2>5. ~ Pending(k) /\ ~ Pending(k)'
      BY <1>1, <2>1, <2>2, <2>3 DEF Pending
    <2>6. Phase(k) = "closed" /\ SamePhase(k)
      BY <2>2, <2>4, <2>5 DEF Phase, SamePhase
    <2>7. \A m \in Reminder : SamePhase(m)
      BY <1>1, <2>1, <2>3, <2>4, <2>6, PhaseKept
    <2> QED
      BY <2>1, <2>2, <2>6, <2>7, NoticeAdmitted
  <1> QED
    BY <1>2, <1>3, <1>4

LEMMA EndNotices ==
    ASSUME IInv, NEW ended \in SUBSET AllRuns, End(ended)
    PROVE  Notice!Next
  <1>1. UNCHANGED <<log, handed>>
    BY DEF End
  <1>2. /\ \A q \in ended : run'[q].pc = "idle"
        /\ \A q \in AllRuns \ ended : run'[q] = run[q]
    BY IdleRow DEF End
  <1> DEFINE lost == {k \in Reminder : \E q \in ended : run[q].pc = "send" /\ run[q].cur = k}
  <1>3. \A k \in lost : Pending(k) /\ ~ Pending(k)'
    <2> SUFFICES ASSUME NEW k \in lost PROVE Pending(k) /\ ~ Pending(k)'
      OBVIOUS
    <2>1. PICK q \in ended : run[q].pc = "send" /\ run[q].cur = k
      OBVIOUS
    <2>2. \A p \in AllRuns : p # q => run[p].cur # k
      BY <2>1, Holder DEF Telling
    <2> QED
      BY <1>2, <2>1, <2>2 DEF Pending
  <1>4. \A k \in Reminder \ lost : Pending(k)' <=> Pending(k)
    BY <1>2 DEF Pending
  <1>5. \A k \in lost : log[k] # "none"
    BY DEF IInv, RunsOK, Telling
  <1>6. lost \in SUBSET Reminder
    OBVIOUS
  <1> HIDE DEF lost
  <1>7. \A k \in lost : Phase(k) = "pending" /\ Phase(k)' = "closed"
    BY <1>1, <1>3, <1>5 DEF Phase
  <1>8. \A k \in Reminder \ lost : SamePhase(k)
    BY <1>1, <1>4 DEF Phase, SamePhase
  <1> QED
    BY <1>1, <1>6, <1>7, <1>8, NoticesLost

LEMMA OthersNotices ==
    ASSUME UNCHANGED <<log, handed, run>>
    PROVE  UNCHANGED Notice!vars
  <1>1. \A k \in Reminder : SamePhase(k)
    BY DEF SamePhase, Phase, Pending
  <1> QED
    BY <1>1, NoticeStutter

LEMMA NextNotices ==
    ASSUME IInv, [Next]_vars
    PROVE  [Notice!Next]_(Notice!vars)
  <1>1. CASE Environment \/ UNCHANGED vars
    <2>1. UNCHANGED <<log, handed, run>>
      BY <1>1 DEF Environment, Tick, ReadEstimate, WriteEstimate, InvoiceChanges,
                  CompleteJob, vars
    <2> QED
      BY <2>1, OthersNotices
  <1>2. CASE StartCron \/ \E r \in Runs : RunNow(r)
    BY <1>2, BeginNotices DEF AllRuns
  <1>3. ASSUME NEW r \in AllRuns, RunStep(r)
        PROVE  [Notice!Next]_(Notice!vars)
    BY <1>3, BeginNotices, AnnounceNotices, TellNotices, EndNotices DEF RunStep, Fail
  <1>4. CASE Crash
    BY <1>4, EndNotices DEF Crash
  <1> QED
    BY <1>1, <1>2, <1>3, <1>4 DEF Next

\* However runs overlap, repeat and die, the runs implement the notices: each
\* reminder is taken in hand once, leaves at most once and is never tried again,
\* and nothing turns its row back to 'sent' (sendOnce, automation.service.ts
\* 351-405).
THEOREM RefinesNotices == Spec => ImplementsNotices
  <1>1. Init => Notice!Init
    <2> SUFFICES ASSUME Init PROVE Notice!Init
      OBVIOUS
    <2>1. \A k \in Reminder : log[k] = "none" /\ Phase(k) = "open"
      BY DEF Init, Phase
    <2> QED
      BY <2>1 DEF Init, Notice!Init
  <1>2. IInv /\ [Next]_vars => [Notice!Next]_(Notice!vars)
    BY NextNotices
  <1> QED
    BY <1>1, <1>2, AlwaysIInv, PTL DEF Spec, ImplementsNotices, Notice!Spec

=============================================================================
