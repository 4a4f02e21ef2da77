# Verification of RenovoCRM

RenovoCRM is a multi-tenant CRM for exterior-cleaning companies: a NestJS backend
(`src/backend/src`) over Postgres and Redis, a Next.js frontend (`src/frontend`), Stripe for
card payments, Postmark and Twilio for messages, a customer portal and a public quote page.
This directory holds TLA+ models of the parts where several actors change the same state, the
TLC configurations that check them, and TLAPS proofs about them. Paths below are relative to
`src/backend/src` unless they begin with `frontend/`.

## 1. The system

Every handler runs in the one Node process, but each `await` lets another handler run, and
several instances may share the database. `PrismaService.withTenantContext`
(`common/prisma/prisma.service.ts` 101-106) and the `.tenant` client (63-92) open Postgres
transactions at the default isolation level, READ COMMITTED. The pattern of nearly every
operation is: read the row and test its guard in one transaction, then write **by id,
unconditionally**, in another. That pattern is what most of the models are about.

| component | state | operations | interacts with | hard part | what makes it correct |
|---|---|---|---|---|---|
| payments (`payments/`) | `payments`, `payment_status_history`, `invoices.amount_paid/status`, `customers.lifetime_value` | record, record standalone, void, refund | invoices, customers, portal webhook | amounts computed from an earlier read; three copies of one sum; a 0.01 tolerance | the three copies move together; refunds bounded; history agrees |
| invoices (`invoices/`) | `invoices` | generate from job, update, send, void | jobs, payments | stale guards; duplicate generation | a void invoice has no money; a draft has none; the status matches the amounts |
| Stripe webhook (`portal/portal.controller.ts`) | `payments`, `invoices`, `customers` | pay-intent, payment succeeded, payment failed | Stripe, payments | at-least-once delivery, retries on one intent, crashes | recorded at least once, and at most once |
| document totals (`common/utils/document-totals.util.ts`) | none | totals, discount worked out again on an edit | estimates, invoices | rounding; only the discount's amount is stored | an edit that leaves the lines alone leaves the discount alone |
| automation events (`common/utils/automation-event.util.ts`) | `automation_log` | insert or ignore | everyone | errors swallowed | duplicates are harmless |
| estimates (`estimates/`) | `estimates`, `estimate_status_history` | send, accept, decline, expire, reopen, edit, duplicate | portal, jobs, automation, customers | staff, customer and automation act on one row | a decision is not undone by a stale write; accepted means a job exists |
| portal data (`portal/services/portal-data.service.ts`) | as estimates | approve, decline, viewed | estimates, jobs | an S3 upload between guard and write | never demote a decided estimate |
| jobs (`jobs/`) | `jobs`, `job_status_history` | create from estimate, start, pause, resume, complete, cancel | estimates, scheduling, invoices | check-then-insert; racing transitions | one job per estimate; legal transitions only; history agrees |
| scheduling (`scheduling/`) | `appointments`, `jobs.scheduled_*` | schedule, calendar item create and edit, reschedule, assign, unschedule, cancel | jobs | overlap check without a lock; two tables that write each other | no double booking; appointment and job agree |
| documents, mail, sms, portal links (`mail/`, `sms/`, `documents/`, `portal/services/portal-auth.service.ts`) | `portal_document_tokens`, `email_log`, the BullMQ queue | send by e-mail or text, retry, revoke | estimates, invoices | at-least-once queue; lost answers; revoke then insert | the log does not lie; the last link works; everything queued ends |
| automation (`automation/`) | `automation_log` | daily run, run now, send once | mail, sms, estimates | row first, message second; overlapping runs; windows in hours | said at most once; said unless it crashed |
| auth (`auth/`) | Redis sessions, their index, one-time tokens, login counters | login, refresh, revoke, reset | frontend API client | several Redis commands per operation; one-time refresh tokens | revoked means revoked; an honest tab raises no alarm |
| customers (`customers/`), quote widget, leads | `customers` and what points at them | create, update, delete, merge, import, public quote | payments, admin data | check-then-insert; a sum recomputed beside increments; idempotency by cache | `lifetime_value` is the sum of what is kept; one customer per e-mail; one estimate per submission |
| admin data (`admin-data/`) | every table | permanent deletion | payments | as merge | as merge |
| quote wizard (`frontend/app/quote/`) | the state of one React page | nine screens, a map | quote widget | the same area kept in several places; back and forth | what is priced was measured, and shown |
| service catalog, settings | own rows | CRUD | estimates | little | |
| receptionist, ai, weather, geocoding, property intelligence | caches | calls to services | everyone | external failures | |
| reports, dashboard, search, security events, health | none, or append-only | queries | | | |

`PROJECT.json` lists the same components with their status, and the hazards found in each,
at the line where they bite.

## 2. What is modelled

One module per component; each is a state machine of its own, and they meet where the code's
components do: `EstimateLifecycle` composes estimates, portal, jobs, invoices and customers,
`JobSchedule` jobs and calendar, `DocumentMail` documents, links, log and queue, `CustomerRecords`
customers, quotes, payments and purges. `Books`, `Quotes` and `Notices` are the abstract
specifications that `InvoicePayments`, `EstimateLifecycle` and `Reminders` implement. History variables, named as such at the top of
each module, record what a property needs to say exactly when the code keeps a promise.

### `InvoicePayments.tla`

Invoices, payments, `lifetime_value`, the Stripe webhook and the event log.

* **State.** `invoice`, `payment`, `lifetimeValue` and `automationLog` are the rows, reduced
  to the columns the handlers test and write; `intent` is Stripe's side. `payment[p].history`
  is the set of the payment's history rows, `from_status` with `to_status`. It has no order:
  `changed_at` is the start of a transaction, so two that queue on the row lock may be dated in
  the other order than they commit, and which row is the newest says nothing. `req[r]` is one handler in flight with
  the values it has read. Money is counted in cents, so the code's 0.01 is `Cent`.
* **Steps.** One action is one transaction of one handler. `recordPayment` is `RecordRead`
  (lines 53-73) and `RecordCommit` (75-134); the webhook is `ReconcileRead`, `ReconcileCheck`,
  `ReconcileCommit`, three separate database calls in the code. A transaction that only writes
  becomes visible at its commit and is one step. `voidPayment` and `refundPayment` lock the
  payment row with their first UPDATE and *then* read the invoice without a lock; they are
  three steps, with `LockedPayments` for the row lock. All transactions lock payments, then
  invoices, then customers, so no deadlock is possible and none is modelled.
* **Failures.** `Abandon` ends a handler between any two of its transactions (a crash or a
  thrown error); `RecordRollback` is the transaction that fails after it has logged the
  `invoice_paid` event on its own connection. Webhooks may be delivered again at any time.
* **Reduced.** An edit of a draft gives it any total of `Totals` (the totals arithmetic is not
  here); e-mail, PDFs, tips, fees and receipt numbers are left out; `generateFromJob` is the
  initial state, and each invoice belongs to one customer.
* **Two modes.** `CarefulStaff` restricts the staff to what the invoice page offers
  (`frontend/components/payments/PaymentsSection.tsx` 140 and 297-304: record up to the
  balance shown, void only a succeeded payment, refund no more than remains). `OneAtATime`
  says that no two handlers are in flight on the same invoice, which is what a small office
  does nearly always and nothing in the code enforces. Both are constants, so a property is
  always stated with the mode it needs.

### `Books.tla`

The abstract specification: a customer's money is collected by a payment and given back from
it, and whenever the value of a payment changes, the invoice's `amountPaid` and the customer's
`lifetimeValue` move by the same amount in the same step, and never below zero. It has no
handler, no status and no webhook. `InvoicePayments!ImplementsBooks` maps it: the value of a
payment is `amount - refunded_amount` while its status is succeeded, partially_refunded or
refunded, the formula the customer merge (`customers.service.ts` 1025-1030) recomputes
`lifetime_value` with.

### `EstimateLifecycle.tla`

One estimate between the staff, the customer's portal page and the expiry runs, the job its
acceptance makes, and the invoice of that job.

* **State.** `estimate`, `job` and `invoice` are the rows; `leads` are the customers whose
  `leadStatus` is still lead; `req[r]` is one handler in flight, its `op` the transaction it
  runs next. What the line items, discount and tax of an estimate add up to is one number, so
  `job[j].price` and `job[j].lines`, or `invoice[v].total` and `invoice[v].lines`, differ only
  when they were read from different versions of the estimate.
* **Steps.** `update`, `send`, `acceptManually`/`approveEstimate`,
  `declineManually`/`declineEstimate`, `markExpired` (also called by a requested automation run), `reopen` and
  `markEstimateViewed` are each a read with the guard and a later write by id. An acceptance
  goes on through `createFromEstimate` in four transactions (`FindJob`, `ReadAccepted`,
  `JobTxBegin`, `JobTxCommit`) and `ConvertLead`; "Convert to Job" enters at `FindJob`. The
  transaction that inserts the job, and the one that inserts the invoice, look first and insert
  at their commit, with no lock and no unique constraint between.
* **Failures.** With `MayCrash`, `Abandon` ends a handler between any two transactions.
* **Reduced.** The two ways to accept have the same guard and consequences and are one action;
  the two ways to decline differ in their guard (the portal lets a customer decline an expired
  estimate) and share the write. What happens to a job before it is completed is one action,
  `CompleteJob`, as a completed job stays completed; for the same reason `generateFromJob`'s
  read of the job is part of `InvoiceTxBegin`. Estimates are created before the start. Status
  histories, the automation log, notifications and e-mails are written beside these steps and
  read by none of them. Deleting a draft, and staff who edit a customer's lead status by hand,
  are left out.

### `Quotes.tla`

The abstract specification: a quote is revised while it is a draft, offered, decided (an expired
one may still be declined), reopened; sold once, at the terms it was accepted at; billed once.
`EstimateLifecycle!ImplementsQuotes` maps it: sent and viewed are both *offered*, the sale is
the set of jobs of the estimate with their prices, the bill the set of their invoices. That
these sets have at most one element is what the refinement shows.

### `JobSchedule.tla`

Jobs, their status machine and the appointments that put them on the calendar.

* **State.** `job` (status, dates, whether `actual_start` is set, the set of `to_status` in its
  history, which begins with the row `createFromEstimate` inserts, `jobs.service.ts` 91-94; scheduling
  and putting back write none, `scheduling.service.ts` 149-156), `appt` (status, job, technician, span), `req` the handlers in flight. `linked` and
  `overlapped` are history variables.
* **Steps.** A handler begins with its read and guard, may check for a booking of the technician
  (`CheckConflict`; in `scheduleJob` and `createCalendarItem` the check is in the first step) and
  writes by id. `RowGone` is the read-back that throws when the row is gone. `BeginJobOp` tests
  `job-status.util.ts`'s table; start and resume test the same transition, as in the code.
* **Reduced.** Arrival windows, titles, crews, photos; `jobs.assigned_user_id`, which nothing reads.
  Only `scheduled` blocks a technician's time: no statement writes `confirmed`.

### `DocumentMail.tla`

Sending an estimate or an invoice by e-mail or text, through the permanent portal link, the
`email_log` row, the BullMQ queue and the worker.

* **State.** `send[a]` is the a-th call, with the token row, log row and queue job it makes.
  `accepted` and `unlearnt` count what the provider took and what the worker never heard of.
* **Steps.** The handler marks a draft sent (`MarkRead`, `MarkWrite`), finds a recipient and
  revokes the old link (`Revoke`), inserts the new one under the partial unique index (`Insert`,
  migration 048), writes the log and hands the message over. The worker takes, posts and concludes
  (`updateEmailLog`, and `process()` returns or throws); the queue hears of it in a step of its own
  (`Settle`). It skips when the provider is not configured.
* **Failures.** A provider refuses, answers, or is not heard (having taken the message or not);
  `updateEmailLog` may fail silently; the process dies, also between the row that says `sent` and
  the queue's hearing of it, after which the message is posted again. BullMQ (5 attempts) and the providers are
  external and modelled by what the code relies on.

### `Reminders.tla`

`AutomationService.runForCompany` of one company, by the scheduler at 9 or by "run now".

* **State.** The rows the rules read, `log` and `handed` per reminder (a rule with its subject, the
  dedupe key), and the runs in flight. The clock counts moments, `Day` of them to a day; the scheduler
  fires at the moment `Nine` and serves the companies in turn, so this one's run begins then or later.
  `steady`, `asked` and `daily` are history variables about the times at which queries were made.
* **Steps.** Read one lapsed estimate and write it expired, or fail; query the next rule; insert one
  row (`Announce`); send; mark failed. `HasTenant` models `PrismaService.tenant`, which throws outside
  a request: the scheduler's `markExpired` calls all fail and are only reported, and any run's may.
  A query, or the marking of a failed message, may throw and end the run (`Fail`).
* **The others.** Staff and customer send, view, answer, expire and reopen an estimate by a read with
  the guard and a later write by id (`ReadEstimate`, `WriteEstimate`), so that a view that was read
  before may reopen what a run has just expired. Invoices are settled and reopened, jobs completed.
* **Reduced.** `actual_end` is stamped and committed at one moment. The review's and the recurring
  window are kept in moments like the thank-you's; due dates are dates. Wording and consent are left out.

### `Notices.tla`

The abstract specification: a reminder is taken in hand once and entered in the log as sent in the
same step (`Undertake`); then one copy leaves (`Tell`) or none does, several being lost at once in a
crash (`Lose`); that it did not leave may be entered later (`Admit`), never taken back.
`Reminders!ImplementsNotices` maps it: a reminder without a row is *open*, one whose row is there and
which some run is about to send is *pending*, any other is *closed*. It has no run, no rule and no clock,
and says more than `ToldOnce` (no reminder leaves twice): also that none is tried again after it was
lost, and that no row goes back to `sent`.

### `Sessions.tla`

One user's refresh sessions, as `TokenService` keeps them in Redis, and the browser tabs.

* **State.** The session keys and their index with their expiry, the tabs (token and flights), the
  handlers between two Redis commands, the reset token, the counter of failed logins.
* **Steps.** One action is one Redis command or MULTI. `MayStart` is the API client's shared refresh.
  A reload loses the flight, a duplicated tab copies the token; the process may die anywhere.
* **Reduced.** Days stand for the seconds of the expiries; a JWT that has expired is not sent.
  Access tokens, invitations, e-mail verification and two-factor are left out.

### `CustomerRecords.tla`

Customers and what hangs on them: creation and its duplicate check, the public quote, payments,
merge and permanent deletion.

* **State.** `customer` (state, e-mail, lifetime value), `doc` (invoices, and the estimates of
  quotes), `payment` (the attempts that failed among them), the handlers in flight, the idempotency
  keys whose answer is in Redis, where it stays for a day (`Forget`).
* **Steps.** One action is one read, or the statements after which a transaction's writes are seen;
  `Unlocked` models the row locks of an open transaction. A merge is `BeginMerge`, `Move`, `Sum`,
  `Merge`; a purge `BeginDelete`, `Strike`, `Delete`. `Abort` ends any handler.
* **Mode.** `CarefulStaff`: the staff void and refund where the payments section offers it
  (`PaymentsSection.tsx` 297-304: void a succeeded payment, refund no more than remains). The services
  accept more: `voidPayment` refuses only `void` and `refunded`, so a failed or a half refunded payment
  too, and a refund may exceed the rest by the tolerated cent.
* **Reduced.** What an invoice owes is `InvoicePayments`' subject. An e-mail is a value that is
  compared; the other columns and the other tables a merge re-points behave as `doc` does.

### `DocumentTotals.tla`

`computeDocumentTotals` and the two ways a partial edit works the discount out anew, as operators
in whole cents. The code's doubles are taken as exact and rounded where the code rounds.

### `QuoteWizard.tla`

The public quote page: nine screens and the map, one customer back and forth.

* **State.** The React state of `QuoteWidgetClient.tsx` (79-206), one variable each; an area is one
  of a few values. `confirmed` is a history variable.
* **Steps.** One action per handler or button; the lookup and the submission are answered later, on
  whatever screen is shown then. The map's state lives as long as it stays mounted (`Mounted`).
* **The map's queue.** `mapMeasureQueue` is the catalog filtered; `Queue` is the set of the catalog's
  positions that pass the filter, `Place(i)` the index a position has in it and `Nth(n)` the position
  `mapMeasureIndex` is at, so that nothing recursive is needed to reason about it.
* **Names.** Its specification is `WizardInit`, `WizardNext`, `WizardSpec`, because its proofs
  share a module with those of `EstimateLifecycle`.
* **Reduced.** Address text, contact fields, consent and upsells decide nothing else on the page.

### `MC*.tla`

Instances for TLC, the two properties of payments that need a sum over rows, and (in
`MCEstimateLifecycle`) the named assumptions `Examples`, `RoundsToNearest` and `EditsKeepDiscount`,
which compare `DocumentTotals` with the repository's own examples, with a reference definition of
rounding and with what the proofs say, over bounded inputs; TLC evaluates them before each of its
runs. `DocumentMail` needs no MC module.

## 3. What is checked

| run | mode | shows |
|---|---|---|
| `racing` | careful, overlapping | `RefundBound`, `HistoryExplains`, `DraftUntouched`: what survives every interleaving of two handlers, redelivered webhooks and crashes |
| `serial` | careful, one at a time | `LedgerBalanced`, `StatusMatchesBalance`, `VoidHasNoActivePayment`, `OneSucceededRow`, `RecordingFits`, `ClosedPaymentStaysClosed`, `ImplementsBooks` on two invoices of one customer, with Stripe, its retries and redeliveries |
| `delivery` | fair | `StripeMoneyRecorded`: money that Stripe collected is recorded in the end, also when the same intent failed first and handlers die |
| `overlapping` | fair, overlapping, no crash | `AcceptanceHonoured`, `AcceptedBecomesJob`: whatever overwrites whatever, an estimate that stands accepted has its job and its customer is no lead, or a handler is on its way there; and it arrives |
| `quotes` | one at a time, crashes | `ImplementsQuotes` on two estimates of one customer |
| `calendar` | overlapping | for every interleaving `HistoryTellsStatus`, `CompletedJobsStarted`; while handlers do not overlap `NoDoubleBooking`, `JobsMoveForward`, and of jobs no item was linked to by hand `JobDatesAreBooked`, `ClosedJobsFreeTheCalendar` |
| `mail` | fair worker, two crashes | `SentWasAccepted`, `ExtraCopiesExplained`, `QueuedMailResolved` of one message with three attempts |
| `links` | two sends, one crash | `LastLinkWorks` |
| `reminders` | overlapping runs, one crash | `ImplementsNotices`, `LogHonest`, `ThankedWhileSteady` |
| `sessions` | two tabs, two handlers, crashes | `AlarmExplained`, `LiveIsListed`, `RevokedAllAreGone`, `ThrottleKept` |
| `customers` | careful, two handlers | `LtvIsCollected`, `MergedAwayIsEmpty`, `OneCustomerPerEmail`, `QuotedOnce` |
| `wizard` | deadlock checked | `QuantitiesKnown`, `ShownIsPriced`, `MeasuredHere`, and that no screen is a dead end |

**Bounds.** Two handlers are every race of a pair. *Payments*: two payments are enough for one
to be overwritten by another, and three (in `delivery`) leave an intent room for a failed row and
two succeeded ones; a total of 4 with amounts 2 and 4 gives partial payments, exact
payments, and refunds that are partial, full and the rest; two invoices of one customer show that
reversing a payment of one does not touch the other. *Estimates*: two job ids let both handlers
insert one; the two totals of `Totals` tell an edited estimate from the one a job was made of; in
`quotes` the two estimates compete for jobs and for the one invoice id. *Calendar*: one job, two
appointments, one technician and three spans (two that touch, one that covers both); five
handlers in turn book, move, cancel, revive and complete, three when some overlap (`MaxHandlers`,
`MaxRacing`). *Mail*: in `mail` one message with three attempts and two
crashes; in `links` two sends of one document or of two, with a crash, where attempts do not matter.
*Reminders*: `MCMixes` lists what meets in a behaviour: the two rules about a finished job's times, a
job's beside its invoice's, the two of an estimate that others write; the scheduled run and a requested
one over two days of two moments, the scheduler's hour the second of them. Queries a day apart, at one
moment and more than a day apart all occur, as do lapse, follow-up and recurrence. *Sessions*:
three session ids are a session, its successor and one more login; two failures begin a lockout and
four are counted; `Mixes` lists which kinds of requests one behaviour combines, as all of them at once exceed TLC:
each mix holds those that touch the same keys. *Customers*: two customers, two documents, two
payments, one idempotency key, with `Mixes` as above. *Wizard*: four catalogs of two services, each
pairing two of the ways a service can be measured (map, lookup, dialog, typed, requested), none
with two houses or two roofs (`MCQuoteWizard_twins` has them), two areas.
The largest run has three million distinct states; each ends within three minutes.

`SYMMETRY` is used where only invariants or safety action properties are checked and the permuted
values (rows, handlers, tabs, keys) are told apart by neither the next-state relation nor the
property; the only `CHOOSE`s over them pick from singletons. Deadlock is checked in `wizard`, where
`Finished` stutters; elsewhere ids and handlers are used up by the bound, and the office may stop.

**Fairness.** In `delivery`, Stripe repeats a webhook until it is answered with 200, and
a handler that dies answers nothing: hence strong fairness of each webhook step, as a handler
may be abandoned any number of times but not always at the same point. A handler in flight
takes its next step or dies (weak fairness); nothing is assumed of the staff or the customer.
In `overlapping`, `FairSpec` is weak fairness of each handler's `Proceed`: the event loop runs
what is ready, and nobody is assumed to start anything. With `MayCrash` the property is false,
and nothing in the code retries: an acceptance that dies half way cannot be repeated (the
estimate is accepted already); "Convert to Job" still makes the job, but nothing converts the
lead. In `mail`, weak fairness of each job's `WorkerStep`: the queue hands out what it holds, and the
number of attempts is finite.

### Where the code and its comments part

Thirteen more configurations reproduce, with `tlc -config`, a counterexample each. They are kept as
reproductions and are not part of the twelve runs.

| configuration | violates | what happens |
|---|---|---|
| `MCInvoicePayments_redelivery` | `CollectedOnce` | the idempotency check looks for a row with status `succeeded` (`portal.controller.ts` 133), so a success delivered again after a refund or a void is recorded again |
| `MCInvoicePayments_stale_record` | `NoOverCollection` | `recordPayment` tests its limit on a balance read in an earlier transaction (`payments.service.ts` 55-73); two payments recorded at once both pass |
| `MCInvoicePayments_late_webhook` | `ClosedInvoiceTakesNoPayment` | `reconcilePayment` and `pay-intent` never look at the invoice's status, though `invoice-status.util.ts` 11-13 says they do |
| `MCInvoicePayments_void_after_refund` | `VoidTakesWhatIsKept` | `voidPayment` accepts a partially refunded payment and takes its whole amount away (`payments.service.ts` 223-233); the page does not offer it, the API does |
| `MCEstimateLifecycle_late_view` | `ViewDecidesNothing` | `markEstimateViewed` writes `viewed` by id on the strength of an earlier read (`portal-data.service.ts` 344-364), also over an acceptance |
| `MCEstimateLifecycle_reopened_quote` | `InvoiceMatchesItsLines` | `generateFromJob` takes the lines from the job and the totals from the estimate as it is now (`invoices.service.ts` 49-96), which may have been reopened and edited |
| `MCJobSchedule_detached` | `ScheduledJobHasAppointment` | saving a calendar item that is linked to a job with no job in the request unlinks it: the job stays scheduled with no appointment behind it |
| `MCCustomerRecords_uncollected` | `LtvCoversCollected` | `voidPayment` refuses only void and refunded payments (`payments.service.ts` 223), so a failed one, of which nothing was collected (`portal.controller.ts` 190-225), can be voided and its amount is taken off `lifetime_value` (233, 300), with no other handler about; the page does not offer it, the API does |
| `MCReminders_lapsed` | `EveryRunExpiresFirst` | an expiration that fails is only reported (`automation.service.ts` 343-347), and in the scheduler's run, which has no tenant context, all fail; the rules after it see lapsed estimates as open, though 64-65 says they see "the corrected status" |
| `MCReminders_drifting` | `ThankedByDailyRuns` | the thank-you looks 24 hours back from its own query, not to the query before (301-305), so a job completed between two windows is never thanked for when one day's query comes later than the last one's, though 302 says a one-day window "catches every job the previous run might have missed" |
| `MCQuoteWizard_moved` | `RoofFoundHere` | a lookup that finds no building leaves the roof area of the address before (`QuoteWidgetClient.tsx` 256-257), and it is priced |
| `MCQuoteWizard_twins` | `QuantitiesKnown` | the area of a house or a roof is carried to the first service of its type only (`find`, 935-936); a company that publishes two house washes, as nothing forbids, has an instant estimate reviewed in which the second has no quantity |
| `MCQuoteWizard_driveway` | `SizeShownIsPriced` | a driveway size that is tapped and not confirmed is shown in the review; the confirmed one is priced |

With `OneAtATime` set to FALSE, `serial` and `quotes` show the other consequences of
overlapping handlers: two deliveries pass the check together, a payment commits between the check
and the void, two jobs of one estimate.

Smaller ones, seen while modelling:

* *Payments.* A refund one cent short marks a payment refunded (line 252) and leaves the cent in
  `amount_paid`. The webhook's success path writes no `payment_status_history` row, which is why
  `HistoryExplains` speaks of payments without an intent. A void and a refund that race each write the
  `from_status` they read, so the history may leave one status twice, and `changed_at`, the start of
  the transaction, does not say which came last. The paid event is logged on another
  connection before the payment commits.
* *Scheduling.* `scheduleJob` on a job with several appointments moves whichever row comes first
  (100-127). Rescheduling a cancelled appointment still moves the job's dates (331-333). Unscheduling
  clears the dates of a completed job (388-392). `start` is accepted from paused and stamps
  `actual_start` again; `resume` is accepted from draft.
* *Mail.* A message whose row says `sent` is posted again when the worker dies before BullMQ hears of
  it. A document is marked sent before a recipient is looked for. A send whose queue is down leaves
  its log row `queued`. Two sends of one document at once end each other's link or fail on the unique
  index, and a send that fails after its revocation leaves every earlier link dead.
* *Reminders.* A text that failed is never tried again, as its row stays. A queue that is down is
  taken for sent (410-414). A job completed more than a week after its scheduled start is never
  asked for a review.
* *Sessions.* A reload during a refresh, or a duplicated tab, ends every session of the user, as does
  the stale tab of a device that was logged out. A one-time token is read and deleted in two
  commands. An invitation is consumed before the password is checked (`auth.service.ts` 528-538).
* *Customers.* Two opposite merges at once delete both customers. A recount writes over an increment
  that committed beside it. A standalone payment may be recorded on a deleted customer. A merge does
  not re-point portal links, service requests, automation rows or appointments.
* *Totals.* The invoice's partial edit passes the stored amount of a discount as its percentage
  (`invoices.service.ts` 206-211): the theorem `InvoiceEditChangesDiscount`.
* *Wizard.* `PropertyMeasurementMap` has no `key`, so the second service opens on the first one's
  outline (809). Cancelling one map makes the whole quote a request, for good. A late lookup turns
  the page back from wherever the customer is.

## 4. What is proved

All theorems hold for any sets of rows, handlers, runs, tabs and ids and any amounts, spans and days.
They use the named assumptions of the modules: in `InvoicePayments` each invoice has a customer,
totals are natural numbers, amounts are positive, `None` is not a row; in `EstimateLifecycle` the
same of estimates; in `JobSchedule` a span ends no earlier than it starts, and a job that can be
scheduled is one whose page offers it (`OpenAssumption`: draft or scheduled,
`frontend/app/jobs/[id]/page.tsx` 165-184); in `Reminders` a customer is texted or mailed, not both,
and the scheduler's run is none of the requested ones; in `DocumentMail` and `CustomerRecords` what
the constants are numbers of, and that `None` is none of the ids; in `QuoteWizard` that a catalog is a
list without repetition (`CatalogAssumption`) and that a footprint gives an area (`AreaAssumption`).
`QuantitiesAreKnown` and `ShownArePriced` have the hypothesis `OneOfEach`: a catalog lists a house wash
and a roof once at most. The page relies on it and nothing enforces it.

`Amounts_proofs.tla`

* Sums. The provers cannot instantiate the library's induction theorems, so what a sum over a set of
  rows does is proved by the smallest counterexample (`Smallest`): the community modules' sum
  is a recursion that takes some element after another by `CHOOSE`; partial sums along any
  enumeration of the set agree with it (`PartialSumsAgree`, `SumOfPicked`), so the order does not matter.
  What the other modules cite: the sum is a natural number, taking one element out takes its term
  out (`SumWithout`), two sums whose terms agree are equal (`SumOfSame`), a step that changes one
  term changes the sum by the difference (`SumMoves`), and a term is at most the sum (`SumBounds`).
* `TotalsAreSound`: for every subtotal, discount and rate the discount is within the subtotal, and
  total, tax and taxed amount agree to a cent. `EstimateEditKeepsDiscount`: the percentage that is
  worked out from a stored amount gives that amount again, to the cent, by the bounds of the two
  roundings. `InvoiceEditChangesDiscount`: from a
  subtotal of $200, every percentage discount short of the whole grows when the invoice is edited.

`InvoicePayments_proofs.tla`

* `Invariance`: `Inv` is inductive. `TypeOK` alone is not: `ReverseAmountFromInvoice` indexes
  `lifetimeValue` by the customer of the payment the handler names, so `HandlersOK` must say
  that a handler that reverses names an inserted payment of its invoice, and `RowsOK` that an
  inserted payment has a customer. That an inserted row never changes amount, invoice or
  customer (`SamePayments`) carries these facts over the steps of other handlers. `HandlersOK`
  also bounds the `refunded_amount` a refund is about to write.
* `TypeCorrect`, `RefundsBounded`, `HistoryTold`: `TypeOK`, `RefundBound` and
  `HistoryExplains` follow from `Inv`, in every mode: a handler that reverses holds a `from_status` the
  history leads to (`HandlersOK`), and no history row is ever removed.
* `DraftsUntouched`: under `CarefulStaff` alone (handlers may overlap), `DraftUntouched`. The
  strengthening, `DraftInv`, says that a handler that records or reverses is on an invoice that
  has left draft, and that one that already read the invoice did not read the status draft, so
  no handler can write draft back (`HandlerLeftDraft`).
* `RefinesBooks`: under `CarefulStaff` and `OneAtATime`, `Spec => ImplementsBooks`. The
  strengthening `BooksInv` says that what a handler in flight has read is still so
  (`ReadStillHolds`), which is true because no other handler is on its invoice (`Apart`).
  Each step is then a `Collect`, a `GiveBack` or a stutter of the books.
* `StatusIsRight`, `VoidIsEmpty`, `OneRowSucceeds`: under `OneAtATime` alone, so also for what the
  staff try that the page does not offer. `SettledInv` adds what of a handler's reads stays true until it
  writes (`Settled`): the invoice a payment is worked out from is still that invoice, the search of a
  voiding handler still finds no active payment, and the duplicate check of a webhook no succeeded row.
* `LedgerBalances`: every step of the books changes the term of one payment in two sums, the one of
  its invoice and the one of its customer, and both counters by that difference (`SumMoves`). That only
  finitely many rows are inserted is itself part of `LedgerInv`, as `Payments` may be any set.
* `RecordingsFit`: what a handler is about to record fits the invoice as it read it (`Fits`), which alone
  on the invoice it still finds, and `amount_paid` is the sum of what is kept (`LedgerBalances`). It holds
  with any number of PaymentIntents. That nothing is ever over-collected does not: an intent keeps the
  balance of the moment it was created at, so what staff record in between is collected twice.
* `ClosedStaysClosed`: the action property, from `Inv` and what an undisturbed handler read.

`Estimates_proofs.tla`, an estimate from the page that asks for it to the handlers that sell it

* `TypeCorrect`: the invariant `Inv` adds to `TypeOK` that a handler in flight is on an
  estimate (otherwise its write could not be typed), that one about to convert the lead has
  seen a job, and that an inserted row names inserted rows. `SameJobs`, that an inserted job
  stays the job of its estimate, carries these over the steps of the other handlers.
* `AcceptancesHonoured`: under `~ MayCrash` alone, `AcceptanceHonoured`. It is inductive
  together with `Inv`: a job is never removed and a customer never becomes a lead again, so what
  an acceptance achieved is not undone (`HonouredStays`); the handler of an acceptance ends
  early only when it finds that the estimate is no longer accepted, and goes on to
  `convertLead` only when there is a job.
* `HandlersEnd`: a rank of the handler (`Stage`: the transactions between it and its answer at most) goes
  down with every step it takes, errors and its death included, and no other handler moves it. With
  the fairness of the event loop and `AcceptancesHonoured` this is why `AcceptedBecomesJob` holds;
  that last inference is TLC's, with free rows for the jobs.
* `RefinesQuotes`: under `OneAtATime` alone (handlers may die), `Spec => ImplementsQuotes`.
  `QuotesInv` says that what a handler read of its estimate is still so, that an estimate has
  at most one job (`OneJob`), that the handler about to insert a job is on an estimate without
  one, and likewise for the invoice. A step is seen to touch one estimate only
  (`Untouched`, `QuotesInvKept`), and is then one step of the quotes or a stutter.
* The quote page: `WizardInv` says on each screen what is settled by then (`WayOK`). From the map on,
  what was typed with the services is there (`Counted`); on the map, the outlines of the queue up to the
  one being drawn are accepted, stored and priced (`MeasuredTo`), after it all of them (`AllMeasured`),
  also while a roof is measured aside; on the last two screens the areas are carried over, each to the first service of its kind (`Carrying`);
  and a lookup can only answer before the map or after the end. `MeasuredTo` needs that no two
  services have one place in the queue and that no place is beyond its size (`Places`), facts
  about cardinalities. `QuantitiesAreKnown`, `ShownArePriced` and `OutlinesAreHere`
  are what `WizardInv` says of the review, `WizardTypes` that the state keeps its shape;
  of the index it says only that it is between 1 and one past the length of the catalog.

`JobSchedule_proofs.tla`

* `IInv` adds to `TypeOK` what a handler in flight holds (`HandlersOK`: a job handler names a job, an
  appointment handler a row id, one that books a span, and one that completes has seen a start time),
  that one that pauses or completes read a job the history says was under way (`Underway`), and
  that a handler that is alone finds its job where it read it (`GuardHolds`).
* `TypeCorrect`, `HistoryIsTold`, `CompletedWasStarted`: for every interleaving. Scheduling and putting
  back move only draft and scheduled, and decide on the row they write, not on one read before; nothing
  takes a history row away and nothing ever clears a start time.
* `JobsOnlyMoveForward`: the step property, from `GuardHolds`: while no handlers overlapped the
  transition a handler tested is from the status it writes over.
* `NobodyIsDoubleBooked`, `DatesAreBooked`, `ClosedJobsAreOff`: from `CalendarInv`, which says while
  nothing overlapped that the handler about to book found the span free of everyone it will
  assign and that it still is, and relates each job's status to its rows in the calendar between the steps
  of a handler that writes both.

`Reminders_proofs.tla`

* `IInv` has the types, and: what a run goes through belongs to its rule (`RunsOK`); a reminder in
  hand is one run's alone and not given away yet (`InHand`); there is no message without its row
  (`RowFirst`). `EachToldOnce` and `LogIsHonest` are inductive together with these. The heart is the
  unique key: only the run that inserted the row holds the reminder.
* `RefinesNotices`: `Spec => ImplementsNotices`, with no hypothesis. A step of one run moves at most the
  reminder it is about to send, since no other run has it in hand (`PhaseKept`, `LetGo`): an insert is
  `Undertake`, an answer `Tell` or `Lose`, a mark `Admit`, and a crash loses all that is pending at once.
  The days, the customer and the rest of a run leave every reminder where it is. `EachToldOnce` is its
  oldest consequence and kept.
* `ThankedInTime`: while thank-you queries, of whichever runs, come a day apart at most and their runs get
  through what they found, every job completed before the last of them was thanked for or is on the list
  of a run at work (`ThanksInv`): one that a query is too late for was completed before the query
  before it. Its hypothesis is about the times of the queries, and the scheduler does not secure it:
  `MCReminders_drifting` shows a job lost by a run of every day.

`DocumentMail_proofs.tla`

* `IInv`: the four rows of a send (queue, log, provider, link) agree at each of its steps. `SentIsTrue`
  needs that only an attempt whose answer arrived writes sent. `CopiesExplained`: a job has, of
  copies, at most what lost answers and lost workers explain; the one copy more comes with the answer
  that ends it, and a worker that dies before the queue has heard of that answer is one lost worker.
* `LinkWorks`: an undisturbed document has one send in flight at most, whose own link nobody revokes; the last
  link may be dead only between that send's insert and the hand-over of its message.
* `RetriesEnd`: a rank of the job's row (`Rank`: attempts left, then how far the current one is) goes down with
  every change of it, crashes included, and a job that waits has an attempt left. With the
  fairness of the worker this is why `QueuedMailResolved` holds; that last inference is TLC's.

`Sessions_proofs.tla`

* `SessionsInv` has four parts: the types; the index of the user (no session outlives it, and what a
  revocation has read of it still holds every session that works, but for those issued meanwhile); the
  counter of failed logins (INCR is atomic and the count does not fall below the limit it once crossed); and the
  tokens (the token of a tab that did not stray is no other tab's, only that tab's call presents it, and it is
  rotated only while that call issues the next).
* `AlarmsExplained`, `SessionsListed`, `RevokedGone`, `ThrottleHolds` are read off these, one part each.

`CustomerRecords_proofs.tla`

* `RecordsInv` rests on what two handlers in flight that share an e-mail or a key know of each other: they
  have met, and both are marked as overlapping. A handler alone with its e-mail that
  searched for it finds it still free when it inserts; one alone with its key finds no
  estimate under it, or the answer kept, until it expires and nothing is said of the key any more. A merge that moved rows leaves none behind except strays, which
  came after it had looked.
* `EmailsHaveOneCustomer`, `SubmissionsQuotedOnce`, `MergesLeaveNothing` follow.
* `LifetimeValueIsCollected`, under `CarefulStaff`, is inductive with `MoneyInv`. A handler that met nobody (`Met`: two that
  conflict are both marked) finds the payment it returns with the status and the refunded amount it read
  (`GivesBack`), and the total that a merge or a deletion has summed is still that of the rows the customer
  has, or will have, when it is written (`Exact`), because a step of another handler leaves those rows
  alone (`Safe`). Rows that are being written have one writer (`Locks`), and a merge passes its customer on
  to whoever goes on with a moved row, all of whom had met it already (`MetMerge`). A payment or a return is
  then one term of a sum (`CollectedMoves`), a merge or a deletion the same sum over other owners
  (`RecountKept`), by the lemmas on sums of `Amounts_proofs`.

**Only model-checked.** `StripeMoneyRecorded`, `AcceptedBecomesJob` and `QueuedMailResolved` are
liveness under fairness, which this prover does not do. Every invariant and action property of the
twelve runs has a theorem; those with a hypothesis (`OneAtATime`, `CarefulStaff`, no crash, no
intents) are checked in the modes their runs name.

## 5. Plan

Done: the nine models above, the three refinements, and the proofs of section 4. In the order of what
they add, what is left:

1. An abstract at-least-once channel that `DocumentMail` implements, beside `Notices`.
2. Creation, duplication and deletion of estimates as actions of `EstimateLifecycle`; the
   receptionist's tools and recurring work as further callers of `JobSchedule`.
3. Magic links and invitations beside `Sessions`.

## 6. Not modelled

Row level security and tenancy, password hashing, OAuth, PDF and message content; reports,
dashboards and search, which only read (their SQL is arithmetic over rows, with no state of its own);
the frontend beyond the quote wizard, the shared refresh and the payment buttons, as its pages render
and call; calls to weather, geocoding and language-model services; the receptionist, whose
steps an external model chooses; and the CRUD of catalogs, settings, notes, tags, files and
properties, rows that nothing else depends on. Together these are most of the repository's lines.
Numbers are exact cents; the code's arithmetic on JavaScript numbers that come from NUMERIC(12,2)
columns is assumed not to lose a cent.
