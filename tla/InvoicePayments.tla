--------------------------- MODULE InvoicePayments ---------------------------
(***************************************************************************)
(* The money side of RenovoCRM: invoices, the payments recorded against    *)
(* them, the customer's lifetime value, and the Stripe webhook.            *)
(*                                                                         *)
(* The backend runs Postgres at READ COMMITTED and every handler is a few  *)
(* separate transactions: it reads a row and tests its guard in one        *)
(* transaction and writes in another.  A handler in flight is therefore a  *)
(* record in req that carries what it has read; each action below is one   *)
(* transaction (or one read) of one handler, and handlers interleave.      *)
(* A write inside a transaction becomes visible at its commit, so a        *)
(* transaction that only writes is one step; the transactions that void or *)
(* refund a payment read the invoice after locking the payment row, and    *)
(* are two steps.                                                          *)
(*                                                                         *)
(* Money is counted in cents.                                              *)
(***************************************************************************)
EXTENDS Integers, FiniteSets

CONSTANTS
    Invoices,       \* invoice rows
    Customers,      \* customer rows
    CustomerOf,     \* the customer each invoice belongs to
    Payments,       \* row ids the payments table may still use (a bound)
    Intents,        \* Stripe PaymentIntents that may be created (a bound)
    Requests,       \* handlers that may be in flight together (a bound)
    Totals,         \* invoice totals a draft may be edited to
    Amounts,        \* amounts the staff type
    CarefulStaff,   \* TRUE: the staff only do what the invoice page offers
    OneAtATime,     \* TRUE: no two handlers in flight on one invoice
    None            \* no row

ASSUME CustomerAssumption == CustomerOf \in [Invoices -> Customers]
ASSUME MoneyAssumption    == Totals \subseteq Nat /\ Amounts \subseteq Nat \ {0}
ASSUME NoneAssumption     == None \notin Invoices \cup Customers \cup Payments \cup Intents
ASSUME ModeAssumption     == CarefulStaff \in BOOLEAN /\ OneAtATime \in BOOLEAN

VARIABLES
    invoice,        \* [Invoices -> row]: status, total, amountPaid
    payment,        \* [Payments -> row]; "unused" is a row not yet inserted
    lifetimeValue,  \* customers.lifetime_value
    intent,         \* Stripe's PaymentIntents and what became of them
    automationLog,  \* dedupe keys of the events logged so far
    req             \* the handlers in flight

vars == <<invoice, payment, lifetimeValue, intent, automationLog, req>>

Cent == 1

InvoiceStatus == {"draft", "sent", "partial", "paid", "void"}
PaymentStatus == {"unused", "succeeded", "failed", "partially_refunded", "refunded", "void"}
Active        == {"succeeded", "partially_refunded"}

InvoiceRow == [status : InvoiceStatus, total : Nat, amountPaid : Nat]
PaymentRow == [status   : PaymentStatus,
               history  : SUBSET (PaymentStatus \X PaymentStatus),
                                             \* its history rows <<from_status, to_status>>,
                                             \* "unused" for NULL
               amount   : Nat,
               refunded : Nat,
               inv      : Invoices \cup {None},
               cust     : Customers \cup {None},
               intent   : Intents \cup {None}]
IntentRow  == [inv : Invoices \cup {None}, amount : Nat, failed : BOOLEAN, succeeded : BOOLEAN]

Ops == {"idle", "record", "voidPayment", "voidPaymentTx", "refund", "refundTx",
        "update", "send", "voidInvoice", "voidInvoiceChecked",
        "hook", "hookNew", "hookFailed", "hookFailedHistory"}

Request == [op       : Ops,
            inv      : Invoices \cup {None},
            pay      : Payments \cup {None},
            intent   : Intents \cup {None},
            from     : PaymentStatus,        \* the payment's status as it was read
            amount   : Nat,
            refunded : Nat,                  \* the refunded_amount to be written
            seen     : InvoiceRow]           \* the invoice as it was read

Unread == [status |-> "draft", total |-> 0, amountPaid |-> 0]
Idle   == [op |-> "idle", inv |-> None, pay |-> None, intent |-> None,
           from |-> "unused", amount |-> 0, refunded |-> 0, seen |-> Unread]
Unused == [status |-> "unused", history |-> {}, amount |-> 0, refunded |-> 0,
           inv |-> None, cust |-> None, intent |-> None]

(***************************************************************************)
(* What invoice.status becomes once amount_paid is known.                  *)
(***************************************************************************)
StatusAfterPayment(total, newAmountPaid, current) ==
    IF current \in {"draft", "void"} THEN current
    ELSE IF newAmountPaid <= 0       THEN "sent"
    ELSE IF newAmountPaid >= total   THEN "paid"
    ELSE "partial"

BalanceDue(i) == invoice[i].total - invoice[i].amountPaid

Refundable_WholeAmount(p) == payment[p].amount
Refundable(p) == payment[p].amount - payment[p].refunded

AtLeastZero(n) == IF n < 0 THEN 0 ELSE n

InsertPayment(p, status, history, amount, i, c, pi) ==
    /\ payment[p].status = "unused"
    /\ payment' = [payment EXCEPT ![p] =
           [status |-> status, history |-> history, amount |-> amount, refunded |-> 0,
            inv |-> i, cust |-> c, intent |-> pi]]

\* The history row of a payment's insertion.
Inserted(status) == {<<"unused", status>>}

\* The UPDATE of a payment's status and the history row beside it, whose
\* from_status is the one the handler read before its transaction.
Restated_NoHistory(row, from, status) == [row EXCEPT !.status = status]
Restated(row, from, status) ==
    [row EXCEPT !.status = status, !.history = @ \cup {<<from, status>>}]

CreditCustomer(c, amount) == lifetimeValue' = [lifetimeValue EXCEPT ![c] = @ + amount]

InFlight(r) == req[r].op # "idle"

\* Handler r may start on invoice i (None: the payment has no invoice).
MayStart(r, i) ==
    /\ ~ InFlight(r)
    /\ OneAtATime => \A q \in Requests : InFlight(q) => req[q].inv # i

Begin(r, handler) == req' = [req EXCEPT ![r] = handler]
Finish(r)         == req' = [req EXCEPT ![r] = Idle]

\* logAutomationEvent: ON CONFLICT DO NOTHING, and its errors are swallowed.
LogEvent(key) == automationLog' \in {automationLog, automationLog \cup {key}}

-----------------------------------------------------------------------------
(***************************************************************************)
(* Initially the invoices have been generated from completed jobs.         *)
(***************************************************************************)
Init ==
    /\ invoice \in [Invoices -> [status : {"draft"}, total : Totals, amountPaid : {0}]]
    /\ payment = [p \in Payments |-> Unused]
    /\ lifetimeValue = [c \in Customers |-> 0]
    /\ intent = [pi \in Intents |-> [inv |-> None, amount |-> 0, failed |-> FALSE, succeeded |-> FALSE]]
    /\ automationLog = {}
    /\ req = [r \in Requests |-> Idle]

-----------------------------------------------------------------------------
(***************************************************************************)
(* Editing, sending and voiding an invoice.  Each guard is read in one     *)
(* transaction; the write that follows names only the row's id.            *)
(***************************************************************************)
UpdateRead(r, i) ==
    /\ MayStart(r, i)
    /\ invoice[i].status = "draft"
    /\ Begin(r, [Idle EXCEPT !.op = "update", !.inv = i])
    /\ UNCHANGED <<invoice, payment, lifetimeValue, intent, automationLog>>

UpdateWrite(r, total) ==
    /\ req[r].op = "update"
    /\ invoice' = [invoice EXCEPT ![req[r].inv].total = total]
    /\ Finish(r)
    /\ UNCHANGED <<payment, lifetimeValue, intent, automationLog>>

SendRead(r, i) ==
    /\ MayStart(r, i)
    /\ invoice[i].status = "draft"
    /\ Begin(r, [Idle EXCEPT !.op = "send", !.inv = i])
    /\ UNCHANGED <<invoice, payment, lifetimeValue, intent, automationLog>>

SendWrite(r) ==
    /\ req[r].op = "send"
    /\ invoice' = [invoice EXCEPT ![req[r].inv].status = "sent"]
    /\ Finish(r)
    /\ UNCHANGED <<payment, lifetimeValue, intent, automationLog>>

VoidInvoiceRead(r, i) ==
    /\ MayStart(r, i)
    /\ invoice[i].status \notin {"paid", "void"}
    /\ Begin(r, [Idle EXCEPT !.op = "voidInvoice", !.inv = i])
    /\ UNCHANGED <<invoice, payment, lifetimeValue, intent, automationLog>>

HasActivePayment_OnlySucceeded(i) == \E p \in Payments : payment[p].inv = i /\ payment[p].status = "succeeded"
HasActivePayment(i) == \E p \in Payments : payment[p].inv = i /\ payment[p].status \in Active

VoidInvoiceCheck(r) ==
    /\ req[r].op = "voidInvoice"
    /\ IF HasActivePayment(req[r].inv)
       THEN Finish(r)
       ELSE Begin(r, [req[r] EXCEPT !.op = "voidInvoiceChecked"])
    /\ UNCHANGED <<invoice, payment, lifetimeValue, intent, automationLog>>

VoidInvoiceWrite(r) ==
    /\ req[r].op = "voidInvoiceChecked"
    /\ invoice' = [invoice EXCEPT ![req[r].inv].status = "void"]
    /\ Finish(r)
    /\ UNCHANGED <<payment, lifetimeValue, intent, automationLog>>

-----------------------------------------------------------------------------
(***************************************************************************)
(* Recording a payment.                                                    *)
(***************************************************************************)
CanRecord_OnDraft(i, amount) ==
    invoice[i].status # "void" /\ amount <= BalanceDue(i) + Cent
CanRecord_UpToTotal(i, amount) ==
    invoice[i].status \notin {"draft", "void"} /\ amount <= invoice[i].total
CanRecord(i, amount) ==
    /\ invoice[i].status \notin {"draft", "void"}
    /\ amount <= BalanceDue(i) + Cent
    /\ CarefulStaff => amount <= BalanceDue(i)

RecordRead(r, i, amount) ==
    /\ MayStart(r, i)
    /\ CanRecord(i, amount)
    /\ Begin(r, [Idle EXCEPT !.op = "record", !.inv = i, !.amount = amount, !.seen = invoice[i]])
    /\ UNCHANGED <<invoice, payment, lifetimeValue, intent, automationLog>>

\* What the handler is about to write, computed from what it read.
RecordedPaid(r)   == req[r].seen.amountPaid + req[r].amount

RecordedStatus_OldPaid(r) == StatusAfterPayment(req[r].seen.total, req[r].seen.amountPaid, req[r].seen.status)
RecordedStatus(r) == StatusAfterPayment(req[r].seen.total, RecordedPaid(r), req[r].seen.status)

\* The event is logged on a connection of its own, before the commit.
LogIfPaid(r) ==
    IF RecordedStatus(r) = "paid"
    THEN LogEvent(<<"invoice_paid", req[r].inv>>)
    ELSE UNCHANGED automationLog

RecordCommit(r, p) ==
    /\ req[r].op = "record"
    /\ InsertPayment(p, "succeeded", Inserted("succeeded"), req[r].amount, req[r].inv, CustomerOf[req[r].inv], None)
    /\ invoice' = [invoice EXCEPT ![req[r].inv].amountPaid = RecordedPaid(r),
                                  ![req[r].inv].status = RecordedStatus(r)]
    /\ CreditCustomer(CustomerOf[req[r].inv], req[r].amount)
    /\ LogIfPaid(r)
    /\ Finish(r)
    /\ UNCHANGED intent

\* The transaction fails after the event was logged.
RecordRollback(r) ==
    /\ req[r].op = "record"
    /\ LogIfPaid(r)
    /\ Finish(r)
    /\ UNCHANGED <<invoice, payment, lifetimeValue, intent>>

\* A payment with no invoice: nothing that can change is read first.
RecordStandalone(p, c, amount) ==
    /\ InsertPayment(p, "succeeded", Inserted("succeeded"), amount, None, c, None)
    /\ CreditCustomer(c, amount)
    /\ UNCHANGED <<invoice, intent, automationLog, req>>

-----------------------------------------------------------------------------
(***************************************************************************)
(* Voiding and refunding a payment.  The transaction first updates, and so *)
(* locks, the payment row: a second one on the same payment waits there.   *)
(* It then reads the invoice without a lock.                               *)
(***************************************************************************)
LockedPayments == {req[r].pay : r \in {q \in Requests : req[q].op \in {"voidPaymentTx", "refundTx"}}}

BeginTx(r, op, txOp) ==
    /\ req[r].op = op
    /\ req[r].pay \notin LockedPayments
    /\ Begin(r, [req[r] EXCEPT !.op = txOp,
                               !.seen = IF req[r].inv = None THEN Unread ELSE invoice[req[r].inv]])
    /\ UNCHANGED <<invoice, payment, lifetimeValue, intent, automationLog>>

ReverseAmountFromInvoice(r, amount) ==
    LET seen    == req[r].seen
        newPaid == AtLeastZero(seen.amountPaid - amount)
    IN  /\ invoice' = IF req[r].inv = None THEN invoice
                      ELSE [invoice EXCEPT
                             ![req[r].inv].amountPaid = newPaid,
                             ![req[r].inv].status = StatusAfterPayment(seen.total, newPaid, seen.status)]
        /\ lifetimeValue' = [lifetimeValue EXCEPT
                              ![payment[req[r].pay].cust] = AtLeastZero(@ - amount)]

CanVoidPayment_Refunded(p) == payment[p].status \in {"succeeded", "refunded"}
CanVoidPayment(p) ==
    /\ payment[p].status \notin {"unused", "void", "refunded"}
    /\ CarefulStaff => payment[p].status = "succeeded"

VoidPaymentRead(r, p) ==
    /\ MayStart(r, payment[p].inv)
    /\ CanVoidPayment(p)
    /\ Begin(r, [Idle EXCEPT !.op = "voidPayment", !.inv = payment[p].inv, !.pay = p,
                             !.from = payment[p].status])
    /\ UNCHANGED <<invoice, payment, lifetimeValue, intent, automationLog>>

VoidPaymentBegin(r) == BeginTx(r, "voidPayment", "voidPaymentTx")

VoidPaymentCommit(r) ==
    /\ req[r].op = "voidPaymentTx"
    /\ payment' = [payment EXCEPT ![req[r].pay] = Restated(@, req[r].from, "void")]
    /\ ReverseAmountFromInvoice(r, payment[req[r].pay].amount)
    /\ Finish(r)
    /\ UNCHANGED <<intent, automationLog>>

\* amount is what was typed, or the refundable amount when the field is blank.
RefundRead(r, p, amount) ==
    /\ MayStart(r, payment[p].inv)
    /\ payment[p].status \in Active
    /\ amount <= Refundable(p) + Cent
    /\ CarefulStaff => amount <= Refundable(p)
    /\ Begin(r, [Idle EXCEPT !.op = "refund", !.inv = payment[p].inv, !.pay = p,
                             !.from = payment[p].status,
                             !.amount = amount, !.refunded = payment[p].refunded + amount])
    /\ UNCHANGED <<invoice, payment, lifetimeValue, intent, automationLog>>

RefundBegin(r) == BeginTx(r, "refund", "refundTx")

RefundedStatus(r) ==
    IF req[r].refunded >= payment[req[r].pay].amount - Cent THEN "refunded" ELSE "partially_refunded"

RefundedNow_Cumulative(r) == req[r].refunded
RefundedNow(r) == req[r].amount

RefundCommit(r) ==
    /\ req[r].op = "refundTx"
    /\ payment' = [payment EXCEPT ![req[r].pay] =
                      [Restated(@, req[r].from, RefundedStatus(r)) EXCEPT !.refunded = req[r].refunded]]
    /\ ReverseAmountFromInvoice(r, RefundedNow(r))
    /\ Finish(r)
    /\ UNCHANGED <<intent, automationLog>>

-----------------------------------------------------------------------------
(***************************************************************************)
(* Stripe.  A PaymentIntent is created for the balance of the moment; its  *)
(* outcome is announced by webhooks that are delivered at least once, so   *)
(* an announced outcome may be delivered again at any later time.          *)
(***************************************************************************)
CreatePaymentIntent(pi, i) ==
    /\ intent[pi].inv = None
    /\ BalanceDue(i) > 0
    /\ intent' = [intent EXCEPT ![pi].inv = i, ![pi].amount = BalanceDue(i)]
    /\ UNCHANGED <<invoice, payment, lifetimeValue, automationLog, req>>

CardFails(pi) ==
    /\ intent[pi].inv # None /\ ~ intent[pi].succeeded /\ ~ intent[pi].failed
    /\ intent' = [intent EXCEPT ![pi].failed = TRUE]
    /\ UNCHANGED <<invoice, payment, lifetimeValue, automationLog, req>>

CardSucceeds(pi) ==
    /\ intent[pi].inv # None /\ ~ intent[pi].succeeded
    /\ intent' = [intent EXCEPT ![pi].succeeded = TRUE]
    /\ UNCHANGED <<invoice, payment, lifetimeValue, automationLog, req>>

AlreadyRecorded_Never(pi, status)     == FALSE
AlreadyRecorded_AnyStatus(pi, status) == \E p \in Payments : payment[p].intent = pi
AlreadyRecorded(pi, status) == \E p \in Payments : payment[p].intent = pi /\ payment[p].status = status

ReconcileRead(r, pi) ==
    /\ intent[pi].succeeded
    /\ MayStart(r, intent[pi].inv)
    /\ Begin(r, [Idle EXCEPT !.op = "hook", !.inv = intent[pi].inv, !.intent = pi,
                             !.amount = intent[pi].amount, !.seen = invoice[intent[pi].inv]])
    /\ UNCHANGED <<invoice, payment, lifetimeValue, intent, automationLog>>

ReconcileCheck(r) ==
    /\ req[r].op = "hook"
    /\ IF AlreadyRecorded(req[r].intent, "succeeded")
       THEN Finish(r)
       ELSE Begin(r, [req[r] EXCEPT !.op = "hookNew"])
    /\ UNCHANGED <<invoice, payment, lifetimeValue, intent, automationLog>>

\* amount_paid is incremented in place; the status comes from the row read.
\* The event is logged after the commit; a crash in between loses it.
ReconciledPaid_Replaced(r) == req[r].amount
ReconciledPaid(r) == invoice[req[r].inv].amountPaid + req[r].amount

ReconcileCommit(r, p) ==
    LET paidInFull == RecordedPaid(r) >= req[r].seen.total IN
    /\ req[r].op = "hookNew"
    /\ InsertPayment(p, "succeeded", {}, req[r].amount, req[r].inv, CustomerOf[req[r].inv], req[r].intent)
    /\ invoice' = [invoice EXCEPT ![req[r].inv].amountPaid = ReconciledPaid(r),
                                  ![req[r].inv].status = IF paidInFull THEN "paid" ELSE "partial"]
    /\ CreditCustomer(CustomerOf[req[r].inv], req[r].amount)
    /\ IF paidInFull THEN LogEvent(<<"invoice_paid", req[r].inv>>) ELSE UNCHANGED automationLog
    /\ Finish(r)
    /\ UNCHANGED intent

FailedRead(r, pi) ==
    /\ intent[pi].failed
    /\ MayStart(r, intent[pi].inv)
    /\ ~ AlreadyRecorded(pi, "failed")
    /\ Begin(r, [Idle EXCEPT !.op = "hookFailed", !.inv = intent[pi].inv, !.intent = pi,
                             !.amount = intent[pi].amount])
    /\ UNCHANGED <<invoice, payment, lifetimeValue, intent, automationLog>>

FailedCommit(r, p) ==
    /\ req[r].op = "hookFailed"
    /\ InsertPayment(p, "failed", {}, req[r].amount, req[r].inv, CustomerOf[req[r].inv], req[r].intent)
    /\ Begin(r, [req[r] EXCEPT !.op = "hookFailedHistory", !.pay = p])
    /\ UNCHANGED <<invoice, lifetimeValue, intent, automationLog>>

FailedHistory(r) ==
    /\ req[r].op = "hookFailedHistory"
    /\ payment' = [payment EXCEPT ![req[r].pay].history = @ \cup Inserted("failed")]
    /\ LogEvent(<<"payment_failed", req[r].intent>>)
    /\ Finish(r)
    /\ UNCHANGED <<invoice, lifetimeValue, intent>>

\* A handler dies between two of its transactions, or the open one rolls back.
Abandon(r) ==
    /\ InFlight(r)
    /\ Finish(r)
    /\ UNCHANGED <<invoice, payment, lifetimeValue, intent, automationLog>>

-----------------------------------------------------------------------------
InvoiceStep(r) ==
    \/ \E i \in Invoices : UpdateRead(r, i) \/ SendRead(r, i) \/ VoidInvoiceRead(r, i)
    \/ \E t \in Totals : UpdateWrite(r, t)
    \/ SendWrite(r) \/ VoidInvoiceCheck(r) \/ VoidInvoiceWrite(r)

RecordStep(r) ==
    \/ \E i \in Invoices, a \in Amounts : RecordRead(r, i, a)
    \/ \E p \in Payments : RecordCommit(r, p)
    \/ RecordRollback(r)

ReverseStep(r) ==
    \/ \E p \in Payments :
          \/ VoidPaymentRead(r, p)
          \/ \E a \in Amounts \cup {Refundable(p)} : a > 0 /\ RefundRead(r, p, a)
    \/ VoidPaymentBegin(r) \/ VoidPaymentCommit(r)
    \/ RefundBegin(r) \/ RefundCommit(r)

WebhookStep(r) ==
    \/ \E pi \in Intents : ReconcileRead(r, pi) \/ FailedRead(r, pi)
    \/ ReconcileCheck(r)
    \/ \E p \in Payments : ReconcileCommit(r, p) \/ FailedCommit(r, p)
    \/ FailedHistory(r)

StripeStep ==
    \E pi \in Intents :
        \/ \E i \in Invoices : CreatePaymentIntent(pi, i)
        \/ CardFails(pi) \/ CardSucceeds(pi)

StandaloneStep == \E p \in Payments, c \in Customers, a \in Amounts : RecordStandalone(p, c, a)

Next ==
    \/ \E r \in Requests : InvoiceStep(r) \/ RecordStep(r) \/ ReverseStep(r) \/ WebhookStep(r) \/ Abandon(r)
    \/ StripeStep
    \/ StandaloneStep

Spec == Init /\ [][Next]_vars

-----------------------------------------------------------------------------
(***************************************************************************)
(* Properties that hold however the handlers interleave.                   *)
(***************************************************************************)

\* Every row keeps the shape its columns give it; amount_paid and
\* lifetime_value are never negative.
TypeOK ==
    /\ invoice \in [Invoices -> InvoiceRow]
    /\ payment \in [Payments -> PaymentRow]
    /\ lifetimeValue \in [Customers -> Nat]
    /\ intent \in [Intents -> IntentRow]
    /\ automationLog \subseteq ({"invoice_paid"} \X Invoices) \cup ({"payment_failed"} \X Intents)
    /\ req \in [Requests -> Request]

\* However many refunds of a payment race, refunded_amount never passes the
\* amount that was paid by more than the cent the guard tolerates
\* (refundPayment's limit, tested on a row read before the transaction).
RefundBound == \A p \in Payments : payment[p].refunded <= payment[p].amount + Cent

\* The history of a payment recorded by the staff explains its status,
\* whatever voids and refunds of it raced: the status it has was written by
\* a change the history names, and every change but the insertion started
\* from a status another change led to, although that status was read
\* before the transaction (voidPayment, refundPayment).
HistoryExplains ==
    \A p \in Payments :
        payment[p].intent = None /\ payment[p].status # "unused" =>
            /\ \E row \in payment[p].history : row[2] = payment[p].status
            /\ \A row \in payment[p].history :
                  row[1] # "unused" => \E e \in payment[p].history : e # row /\ e[2] = row[1]

\* No payment was ever taken on an invoice that is still a draft, and a
\* draft has nothing paid: a handler that read the invoice earlier can not
\* bring the draft status back after money was recorded.
DraftUntouched ==
    \A i \in Invoices : invoice[i].status = "draft" =>
        /\ invoice[i].amountPaid = 0
        /\ \A p \in Payments : payment[p].inv = i => payment[p].status = "failed"

(***************************************************************************)
(* Properties that hold when no two handlers overlap on an invoice and the *)
(* staff only do what the invoice page offers.                             *)
(***************************************************************************)

\* What is kept of a payment, by the formula the customer merge recomputes
\* lifetime_value with.
Collected == {"succeeded", "partially_refunded", "refunded"}
Net(p)    == IF payment[p].status \in Collected THEN Refundable(p) ELSE 0
Booked(p) == payment[p].status \notin {"unused", "failed"}

\* The handlers implement the books.
Ledger == INSTANCE Books WITH
    account    <- [p \in Payments |-> IF Booked(p) THEN payment[p].inv ELSE None],
    holder     <- [p \in Payments |-> IF Booked(p) THEN payment[p].cust ELSE None],
    net        <- [p \in Payments |-> Net(p)],
    amountPaid <- [i \in Invoices |-> invoice[i].amountPaid]

\* Each commit of a handler moves amount_paid and lifetime_value by exactly
\* what it changes the payment by (recordPayment, voidPayment,
\* refundPayment, reconcilePayment); every other step moves nothing.
ImplementsBooks == Ledger!Spec

\* The three copies of the money agree: amount_paid of an invoice is the sum
\* of what is kept of its payments, and lifetime_value of a customer the sum
\* over theirs, however record, void, refund and the webhook take turns.
LedgerBalanced == Ledger!Balanced

\* No more is kept for an invoice than its total and the cent the guard of
\* recordPayment tolerates.
NoOverCollection == \A i \in Invoices : Ledger!KeptFor(i) <= invoice[i].total + Cent

\* What the staff record never takes what is kept for an invoice past its
\* total and that cent, also while its customer pays online: recordPayment's
\* guard holds at its commit.  Only a webhook may, whose PaymentIntent keeps
\* the balance of an earlier moment.
RecordingFits ==
    [][\A p \in Payments, i \in Invoices :
          /\ payment[p].status = "unused" /\ payment'[p].status = "succeeded"
          /\ payment'[p].inv = i /\ payment'[p].intent = None
          => Ledger!KeptFor(i)' <= invoice'[i].total + Cent]_vars

\* The status of an invoice that was sent is the one its amounts call for.
StatusMatchesBalance ==
    \A i \in Invoices :
        invoice[i].status = StatusAfterPayment(invoice[i].total, invoice[i].amountPaid, invoice[i].status)

\* A voided invoice has no payment that still counts as money collected.
VoidHasNoActivePayment ==
    \A i \in Invoices, p \in Payments :
        invoice[i].status = "void" /\ payment[p].inv = i => payment[p].status \notin Active

\* A payment that was voided or fully refunded stays that way.
ClosedPaymentStaysClosed ==
    [][\A p \in Payments : payment[p].status \in {"void", "refunded"} =>
          payment'[p].status = payment[p].status]_vars

\* A PaymentIntent has at most one payment row in status succeeded, however
\* often its webhook is delivered.
OneSucceededRow ==
    \A p, q \in Payments :
        /\ payment[p].intent = payment[q].intent /\ payment[p].intent # None
        /\ payment[p].status = "succeeded" /\ payment[q].status = "succeeded"
        => p = q

\* Of the money of one PaymentIntent no more than one row is kept, also when
\* its webhook is delivered again after a refund.
CollectedOnce ==
    \A p, q \in Payments :
        /\ payment[p].intent = payment[q].intent /\ payment[p].intent # None
        /\ Net(p) > 0 /\ Net(q) > 0
        => p = q

\* No payment is taken on an invoice that is a draft or void when the money
\* is written to it.
ClosedInvoiceTakesNoPayment ==
    [][\A p \in Payments :
          payment[p].status = "unused" /\ payment'[p].status = "succeeded" /\ payment'[p].inv # None =>
              invoice[payment'[p].inv].status \notin {"draft", "void"}]_vars

\* Voiding a payment takes no more from the customer's lifetime value than
\* what was still kept of that payment.
VoidTakesWhatIsKept ==
    [][\A p \in Payments :
          payment[p].status \notin {"unused", "void"} /\ payment'[p].status = "void" =>
              lifetimeValue'[payment[p].cust] >= lifetimeValue[payment[p].cust] - Net(p)]_vars

(***************************************************************************)
(* Liveness.  Stripe repeats a webhook until it is answered, and a handler *)
(* that dies answers nothing, so some delivery runs to its end.            *)
(***************************************************************************)
WebhookFairness ==
    \A r \in Requests, pi \in Intents :
        /\ SF_vars(ReconcileRead(r, pi))
        /\ SF_vars(ReconcileCheck(r))
        /\ SF_vars(\E p \in Payments : ReconcileCommit(r, p))

HandlersFinish ==
    \A r \in Requests :
        WF_vars(InFlight(r) /\ (InvoiceStep(r) \/ RecordStep(r) \/ ReverseStep(r) \/ WebhookStep(r)))

FairSpec == Spec /\ WebhookFairness /\ HandlersFinish

\* Money Stripe collected for an invoice is eventually recorded, also when
\* an attempt with the same PaymentIntent failed before.
StripeMoneyRecorded ==
    \A pi \in Intents :
        intent[pi].succeeded ~>
            \E p \in Payments : payment[p].intent = pi /\ payment[p].status \notin {"unused", "failed"}
=============================================================================
