------------------------ MODULE InvoicePayments_proofs ------------------------
(***************************************************************************)
(* Proofs about InvoicePayments, for any invoices, customers, payments,    *)
(* PaymentIntents, amounts and number of handlers in flight.               *)
(***************************************************************************)
EXTENDS InvoicePayments, Amounts_proofs

-----------------------------------------------------------------------------
(***************************************************************************)
(* The inductive invariant.  TypeOK alone is not inductive: what a handler *)
(* is about to write is well typed because of what it read when it began,  *)
(* and stays right because a payment row, once inserted, never changes     *)
(* whose money it is.                                                      *)
(***************************************************************************)
OnInvoice == {"update", "send", "voidInvoice", "voidInvoiceChecked", "record",
              "hook", "hookNew", "hookFailed", "hookFailedHistory"}
Hooks     == {"hook", "hookNew", "hookFailed", "hookFailedHistory"}
Reversing == {"voidPayment", "voidPaymentTx", "refund", "refundTx"}

\* Some change of a history led to the status.
ToldIn(history, status) == \E row \in history : row[2] = status

\* Every change of a history but an insertion started where another ended.
Chained(history) ==
    \A row \in history : row[1] # "unused" => \E e \in history : e # row /\ e[2] = row[1]

HandlerOK(r) ==
    /\ req[r].op \in OnInvoice => req[r].inv \in Invoices
    /\ req[r].op \in Hooks => req[r].intent \in Intents
    /\ req[r].op \in Reversing =>
           /\ req[r].pay \in Payments
           /\ payment[req[r].pay].status # "unused"
           /\ payment[req[r].pay].inv = req[r].inv
           /\ payment[req[r].pay].intent = None => ToldIn(payment[req[r].pay].history, req[r].from)
    /\ req[r].op \in {"refund", "refundTx"} =>
           req[r].refunded <= payment[req[r].pay].amount + Cent
    /\ req[r].op = "hookFailedHistory" =>
           /\ req[r].pay \in Payments
           /\ payment[req[r].pay].status # "unused"
           /\ payment[req[r].pay].intent # None

HandlersOK == \A r \in Requests : HandlerOK(r)

IntentsOK == \A pi \in Intents : intent[pi].failed \/ intent[pi].succeeded => intent[pi].inv # None

RowOK(p) ==
    /\ payment[p].status = "unused" => payment[p] = Unused
    /\ payment[p].status # "unused" => payment[p].cust \in Customers
    /\ payment[p].refunded <= payment[p].amount + Cent
    /\ payment[p].intent = None /\ payment[p].status # "unused" =>
           ToldIn(payment[p].history, payment[p].status) /\ Chained(payment[p].history)

RowsOK == \A p \in Payments : RowOK(p)

Inv == TypeOK /\ HandlersOK /\ IntentsOK /\ RowsOK

\* Whose money an inserted payment is does not change.
SamePayment(p) ==
    /\ payment'[p].status # "unused"
    /\ payment'[p].amount = payment[p].amount
    /\ payment'[p].inv = payment[p].inv
    /\ payment'[p].cust = payment[p].cust
    /\ payment'[p].intent = payment[p].intent
    /\ payment[p].history \subseteq payment'[p].history

SamePayments == \A p \in Payments : payment[p].status # "unused" => SamePayment(p)

-----------------------------------------------------------------------------
(***************************************************************************)
(* Types.                                                                  *)
(***************************************************************************)

\* A handler that begins is a request.
LEMMA IdleIsRequest == Idle \in Request /\ Unread \in InvoiceRow /\ Unused \in PaymentRow
  BY DEF Idle, Unread, Unused, Request, InvoiceRow, PaymentRow, Ops, InvoiceStatus, PaymentStatus

\* StatusAfterPayment yields a status.
LEMMA StatusAfterPaymentType ==
  ASSUME NEW total \in Nat, NEW paid \in Int, NEW current \in InvoiceStatus
  PROVE  StatusAfterPayment(total, paid, current) \in InvoiceStatus
  BY DEF StatusAfterPayment, InvoiceStatus

\* AtLeastZero yields a natural number.
LEMMA AtLeastZeroType == ASSUME NEW n \in Int PROVE AtLeastZero(n) \in Nat
  BY DEF AtLeastZero

\* LogEvent adds at most the event it names.
LEMMA LogEventType ==
  ASSUME NEW S, NEW key \in S, automationLog \subseteq S, LogEvent(key)
  PROVE  automationLog' \subseteq S
  BY DEF LogEvent

\* Beginning and finishing a handler keep req well typed.
LEMMA BeginType ==
  ASSUME req \in [Requests -> Request], NEW r \in Requests, NEW h \in Request,
         Begin(r, h) \/ Finish(r)
  PROVE  req' \in [Requests -> Request]
  BY IdleIsRequest DEF Begin, Finish

\* Both amounts of an invoice may be replaced at once.
LEMMA InvoiceWriteType ==
  ASSUME invoice \in [Invoices -> InvoiceRow], NEW i, NEW paid \in Nat, NEW status \in InvoiceStatus
  PROVE  [invoice EXCEPT ![i].amountPaid = paid, ![i].status = status] \in [Invoices -> InvoiceRow]
  BY DEF InvoiceRow

\* An inserted payment row is well typed.
LEMMA InsertPaymentType ==
  ASSUME payment \in [Payments -> PaymentRow], NEW p \in Payments,
         NEW status \in PaymentStatus, NEW history \in SUBSET (PaymentStatus \X PaymentStatus), NEW amount \in Nat,
         NEW i \in Invoices \cup {None}, NEW c \in Customers \cup {None}, NEW pi \in Intents \cup {None},
         InsertPayment(p, status, history, amount, i, c, pi)
  PROVE  payment' \in [Payments -> PaymentRow]
  BY DEF InsertPayment, PaymentRow

\* Crediting a customer keeps lifetime_value well typed.
LEMMA CreditCustomerType ==
  ASSUME lifetimeValue \in [Customers -> Nat], NEW c \in Customers, NEW amount \in Nat, CreditCustomer(c, amount)
  PROVE  lifetimeValue' \in [Customers -> Nat]
  BY DEF CreditCustomer

\* A history that grows still tells what it told.
LEMMA ToldGrows ==
  ASSUME NEW h, NEW g, h \subseteq g, NEW status, ToldIn(h, status)
  PROVE  ToldIn(g, status)
  BY DEF ToldIn

\* A change that started from a status the history tells keeps it chained.
LEMMA ChainGrows ==
  ASSUME NEW h, Chained(h), NEW from, ToldIn(h, from), NEW to
  PROVE  LET g == h \cup {<<from, to>>} IN Chained(g) /\ ToldIn(g, to)
<1> DEFINE new == <<from, to>>
           g == h \cup {new}
<1>1. new \in g /\ new[1] = from /\ new[2] = to
  OBVIOUS
<1>2. ASSUME NEW row \in g, row[1] # "unused"
      PROVE  \E e \in g : e # row /\ e[2] = row[1]
  <2>1. CASE row \in h
    BY <1>2, <2>1 DEF Chained
  <2>2. CASE row \notin h
    BY <1>1, <1>2, <2>2 DEF ToldIn
  <2> QED
    BY <2>1, <2>2
<1> HIDE DEF g, new
<1>3. Chained(g)
  BY <1>2 DEF Chained
<1>4. ToldIn(g, to)
  BY <1>1 DEF ToldIn
<1> QED
  BY <1>3, <1>4 DEF g, new

\* The history of a fresh row.
LEMMA InsertedHistory ==
  ASSUME NEW status \in PaymentStatus
  PROVE  /\ Inserted(status) \in SUBSET (PaymentStatus \X PaymentStatus)
         /\ ToldIn(Inserted(status), status) /\ Chained(Inserted(status))
<1>1. "unused" \in PaymentStatus
  BY DEF PaymentStatus
<1> QED
  BY <1>1 DEF Inserted, ToldIn, Chained

\* What a reversal makes of a payment row.
LEMMA RestatedFields ==
  ASSUME NEW row \in PaymentRow, NEW from \in PaymentStatus, NEW status \in PaymentStatus, NEW refunded \in Nat
  PROVE  /\ LET new == Restated(row, from, status) IN
               /\ new \in PaymentRow /\ new.status = status
               /\ new.history = row.history \cup {<<from, status>>} /\ new.refunded = row.refunded
               /\ new.amount = row.amount /\ new.inv = row.inv
               /\ new.cust = row.cust /\ new.intent = row.intent
         /\ LET new == [Restated(row, from, status) EXCEPT !.refunded = refunded] IN
               /\ new \in PaymentRow /\ new.status = status
               /\ new.history = row.history \cup {<<from, status>>} /\ new.refunded = refunded
               /\ new.amount = row.amount /\ new.inv = row.inv
               /\ new.cust = row.cust /\ new.intent = row.intent
<1>1. row.history \cup {<<from, status>>} \in SUBSET (PaymentStatus \X PaymentStatus)
  BY DEF PaymentRow
<1> QED
  BY <1>1 DEF Restated, PaymentRow

\* A handler that is not stepping keeps its invariant.
LEMMA OtherHandlers ==
  ASSUME TypeOK, HandlersOK, SamePayments, NEW r \in Requests, HandlerOK(r)',
         \A q \in Requests \ {r} : req'[q] = req[q]
  PROVE  HandlersOK'
<1> SUFFICES ASSUME NEW q \in Requests \ {r} PROVE HandlerOK(q)'
  BY DEF HandlersOK
<1>1. req'[q] = req[q] /\ HandlerOK(q)
  BY DEF HandlersOK
<1>2. req[q].op \in Reversing \cup {"hookFailedHistory"} => SamePayment(req[q].pay)
  BY <1>1 DEF HandlerOK, SamePayments
<1>3. req[q].op \in Reversing /\ payment[req[q].pay].intent = None =>
          ToldIn(payment'[req[q].pay].history, req[q].from)
  BY <1>1, <1>2, ToldGrows DEF HandlerOK, SamePayment
<1> QED
  BY <1>1, <1>2, <1>3 DEF HandlerOK, SamePayment, Reversing

\* A handler that has finished has nothing to keep.
LEMMA IdleHandler ==
  ASSUME TypeOK, NEW r \in Requests, Finish(r)
  PROVE  HandlerOK(r)' /\ \A q \in Requests \ {r} : req'[q] = req[q]
  BY DEF Finish, HandlerOK, Idle, OnInvoice, Hooks, Reversing, TypeOK

\* Payments that are left alone stay the same payments.
LEMMA PaymentsUnchanged ==
  ASSUME TypeOK, RowsOK, UNCHANGED payment
  PROVE  SamePayments /\ RowsOK'
  BY DEF SamePayments, SamePayment, RowsOK, RowOK

-----------------------------------------------------------------------------
(***************************************************************************)
(* Every step keeps the invariant.                                         *)
(***************************************************************************)

\* The steps on an invoice.
LEMMA InvoiceStepInv ==
  ASSUME Inv, NEW r \in Requests, InvoiceStep(r)
  PROVE  Inv'
<1> USE DEF Inv
<1>1. UNCHANGED <<payment, lifetimeValue, intent, automationLog>>
  BY DEF InvoiceStep, UpdateRead, SendRead, VoidInvoiceRead, UpdateWrite, SendWrite,
         VoidInvoiceCheck, VoidInvoiceWrite
<1>2. SamePayments /\ RowsOK' /\ IntentsOK'
  BY <1>1, PaymentsUnchanged DEF IntentsOK
<1>3. ASSUME NEW i \in Invoices, UpdateRead(r, i) \/ SendRead(r, i) \/ VoidInvoiceRead(r, i)
      PROVE  Inv'
  <2> DEFINE h(op) == [Idle EXCEPT !.op = op, !.inv = i]
  <2>1. \A op \in Ops : h(op) \in Request
    BY IdleIsRequest DEF Request
  <2>2. PICK op \in {"update", "send", "voidInvoice"} : Begin(r, h(op))
    BY <1>3 DEF UpdateRead, SendRead, VoidInvoiceRead
  <2>3. TypeOK'
    BY <1>1, <1>3, <2>1, <2>2, BeginType DEF TypeOK, UpdateRead, SendRead, VoidInvoiceRead, Ops
  <2>4. HandlerOK(r)' /\ \A q \in Requests \ {r} : req'[q] = req[q]
    BY <2>2 DEF HandlerOK, Begin, Idle, OnInvoice, Hooks, Reversing, TypeOK
  <2> QED
    BY <1>2, <2>3, <2>4, OtherHandlers
<1>4. ASSUME NEW t \in Totals, UpdateWrite(r, t)
      PROVE  Inv'
  <2>1. invoice' \in [Invoices -> InvoiceRow]
    BY <1>4, MoneyAssumption DEF UpdateWrite, TypeOK, InvoiceRow
  <2>2. TypeOK'
    BY <1>1, <1>4, <2>1, IdleIsRequest, BeginType DEF TypeOK, UpdateWrite
  <2> QED
    BY <1>2, <1>4, <2>2, IdleHandler, OtherHandlers DEF UpdateWrite
<1>5. ASSUME SendWrite(r) \/ VoidInvoiceWrite(r)
      PROVE  Inv'
  <2>1. invoice' \in [Invoices -> InvoiceRow]
    BY <1>5 DEF SendWrite, VoidInvoiceWrite, TypeOK, InvoiceRow, InvoiceStatus
  <2>2. TypeOK'
    BY <1>1, <1>5, <2>1, IdleIsRequest, BeginType DEF TypeOK, SendWrite, VoidInvoiceWrite
  <2> QED
    BY <1>2, <1>5, <2>2, IdleHandler, OtherHandlers DEF SendWrite, VoidInvoiceWrite
<1>6. ASSUME VoidInvoiceCheck(r)
      PROVE  Inv'
  <2> DEFINE checked == [req[r] EXCEPT !.op = "voidInvoiceChecked"]
  <2>1. checked \in Request
    BY DEF TypeOK, Request, Ops
  <2>2. TypeOK'
    BY <1>1, <1>6, <2>1, IdleIsRequest, BeginType DEF VoidInvoiceCheck, TypeOK
  <2>3. CASE Finish(r)
    BY <1>2, <2>2, <2>3, IdleHandler, OtherHandlers
  <2>4. CASE Begin(r, checked)
    <3>1. HandlerOK(r)' /\ \A q \in Requests \ {r} : req'[q] = req[q]
      BY <1>6, <2>1, <2>4 DEF VoidInvoiceCheck, HandlersOK, HandlerOK, Begin, OnInvoice, Hooks, Reversing, TypeOK, Request
    <3> QED
      BY <1>2, <2>2, <3>1, OtherHandlers
  <2> QED
    BY <1>6, <2>3, <2>4 DEF VoidInvoiceCheck
<1> QED
  BY <1>3, <1>4, <1>5, <1>6 DEF InvoiceStep

\* What recordPayment is about to write is well typed.
LEMMA RecordedType ==
  ASSUME TypeOK, NEW r \in Requests
  PROVE  /\ RecordedPaid(r) \in Nat
         /\ RecordedStatus(r) \in InvoiceStatus
         /\ req[r].amount \in Nat
<1>1. req[r].amount \in Nat /\ req[r].seen.amountPaid \in Nat /\ req[r].seen.total \in Nat
      /\ req[r].seen.status \in InvoiceStatus
  BY DEF TypeOK, Request, InvoiceRow
<1> QED
  BY <1>1, StatusAfterPaymentType DEF RecordedPaid, RecordedStatus

\* A payment row that is inserted is a good one, and changes no other row.
LEMMA InsertedRow ==
  ASSUME TypeOK, RowsOK, NEW p \in Payments,
         NEW status \in PaymentStatus \ {"unused"}, NEW history \in SUBSET (PaymentStatus \X PaymentStatus), NEW amount \in Nat,
         NEW i \in Invoices \cup {None}, NEW c \in Customers, NEW pi \in Intents \cup {None},
         pi = None => history = Inserted(status),
         InsertPayment(p, status, history, amount, i, c, pi)
  PROVE  /\ payment' \in [Payments -> PaymentRow]
         /\ SamePayments
         /\ RowsOK'
<1>1. payment' \in [Payments -> PaymentRow]
  BY InsertPaymentType DEF TypeOK
<1>2. SamePayments
  BY DEF SamePayments, SamePayment, InsertPayment, TypeOK
<1>3. RowsOK'
  <2> SUFFICES ASSUME NEW q \in Payments PROVE RowOK(q)'
    BY DEF RowsOK
  <2>1. CASE q = p
    <3>1. payment'[q] = [status |-> status, history |-> history, amount |-> amount, refunded |-> 0,
                         inv |-> i, cust |-> c, intent |-> pi]
      BY <2>1 DEF InsertPayment, TypeOK
    <3>2. pi = None => ToldIn(history, status) /\ Chained(history)
      BY InsertedHistory
    <3> QED
      BY <3>1, <3>2 DEF RowOK, Cent
  <2>2. CASE q # p
    BY <2>2 DEF RowsOK, RowOK, InsertPayment, TypeOK
  <2> QED
    BY <2>1, <2>2
<1> QED
  BY <1>1, <1>2, <1>3

\* The steps that record a payment on an invoice.
LEMMA RecordStepInv ==
  ASSUME Inv, NEW r \in Requests, RecordStep(r)
  PROVE  Inv'
<1> USE DEF Inv
<1>1. ASSUME NEW i \in Invoices, NEW a \in Amounts, RecordRead(r, i, a)
      PROVE  Inv'
  <2> DEFINE h == [Idle EXCEPT !.op = "record", !.inv = i, !.amount = a, !.seen = invoice[i]]
  <2>1. h \in Request
    BY IdleIsRequest, MoneyAssumption DEF Request, Ops, TypeOK
  <2>2. Begin(r, h) /\ UNCHANGED <<invoice, payment, lifetimeValue, intent, automationLog>>
    BY <1>1 DEF RecordRead
  <2>3. TypeOK'
    BY <2>1, <2>2, BeginType DEF TypeOK
  <2>4. HandlerOK(r)' /\ \A q \in Requests \ {r} : req'[q] = req[q]
    BY <2>2 DEF HandlerOK, Begin, Idle, OnInvoice, Hooks, Reversing, TypeOK
  <2> QED
    BY <2>2, <2>3, <2>4, PaymentsUnchanged, OtherHandlers DEF IntentsOK
<1>2. ASSUME NEW p \in Payments, RecordCommit(r, p)
      PROVE  Inv'
  <2>1. req[r].inv \in Invoices /\ CustomerOf[req[r].inv] \in Customers
    BY <1>2, CustomerAssumption DEF RecordCommit, HandlersOK, HandlerOK, OnInvoice
  <2>2. payment' \in [Payments -> PaymentRow] /\ SamePayments /\ RowsOK'
    BY <1>2, <2>1, RecordedType, InsertedRow, InsertedHistory DEF RecordCommit, PaymentStatus
  <2>3. invoice' \in [Invoices -> InvoiceRow]
    BY <1>2, RecordedType, InvoiceWriteType DEF RecordCommit, TypeOK
  <2>4. lifetimeValue' \in [Customers -> Nat]
    BY <1>2, <2>1, RecordedType, CreditCustomerType DEF RecordCommit, TypeOK
  <2>5. automationLog' \subseteq ({"invoice_paid"} \X Invoices) \cup ({"payment_failed"} \X Intents)
    BY <1>2, <2>1 DEF RecordCommit, LogIfPaid, LogEvent, TypeOK
  <2>6. Finish(r) /\ UNCHANGED intent
    BY <1>2 DEF RecordCommit
  <2>7. TypeOK'
    BY <2>2, <2>3, <2>4, <2>5, <2>6, IdleIsRequest, BeginType DEF TypeOK
  <2> QED
    BY <2>2, <2>6, <2>7, IdleHandler, OtherHandlers DEF IntentsOK
<1>3. ASSUME RecordRollback(r)
      PROVE  Inv'
  <2>1. req[r].inv \in Invoices
    BY <1>3 DEF RecordRollback, HandlersOK, HandlerOK, OnInvoice
  <2>2. automationLog' \subseteq ({"invoice_paid"} \X Invoices) \cup ({"payment_failed"} \X Intents)
    BY <1>3, <2>1 DEF RecordRollback, LogIfPaid, LogEvent, TypeOK
  <2>3. Finish(r) /\ UNCHANGED <<invoice, payment, lifetimeValue, intent>>
    BY <1>3 DEF RecordRollback
  <2>4. TypeOK'
    BY <2>2, <2>3, IdleIsRequest, BeginType DEF TypeOK
  <2> QED
    BY <2>3, <2>4, PaymentsUnchanged, IdleHandler, OtherHandlers DEF IntentsOK
<1> QED
  BY <1>1, <1>2, <1>3 DEF RecordStep

\* What a void or a refund writes to the invoice and the customer is well typed.
LEMMA ReversedType ==
  ASSUME TypeOK, NEW r \in Requests, NEW amount \in Nat, ReverseAmountFromInvoice(r, amount)
  PROVE  invoice' \in [Invoices -> InvoiceRow] /\ lifetimeValue' \in [Customers -> Nat]
<1> DEFINE newPaid == AtLeastZero(req[r].seen.amountPaid - amount)
           newStatus == StatusAfterPayment(req[r].seen.total, newPaid, req[r].seen.status)
           c == payment[req[r].pay].cust
<1>1. req[r].seen.amountPaid \in Nat /\ req[r].seen.total \in Nat /\ req[r].seen.status \in InvoiceStatus
  BY DEF TypeOK, Request, InvoiceRow
<1>2. newPaid \in Nat
  BY <1>1, AtLeastZeroType
<1>3. newStatus \in InvoiceStatus
  BY <1>1, <1>2, StatusAfterPaymentType
<1>4. \/ invoice' = invoice
      \/ invoice' = [invoice EXCEPT ![req[r].inv].amountPaid = newPaid, ![req[r].inv].status = newStatus]
  BY DEF ReverseAmountFromInvoice
<1>5. invoice' \in [Invoices -> InvoiceRow]
  BY <1>2, <1>3, <1>4, InvoiceWriteType DEF TypeOK
<1>6. lifetimeValue' \in [Customers -> Nat]
  <2>1. lifetimeValue' = [lifetimeValue EXCEPT ![c] = AtLeastZero(lifetimeValue[c] - amount)]
    BY DEF ReverseAmountFromInvoice
  <2>2. CASE c \in Customers
    <3>1. AtLeastZero(lifetimeValue[c] - amount) \in Nat
      BY <2>2, AtLeastZeroType DEF TypeOK
    <3> QED
      BY <2>1, <2>2, <3>1 DEF TypeOK
  <2>3. CASE c \notin Customers
    BY <2>1, <2>3 DEF TypeOK
  <2> QED
    BY <2>2, <2>3
<1> QED
  BY <1>5, <1>6

\* A reversal that begins.
LEMMA ReverseReadInv ==
  ASSUME Inv, NEW r \in Requests, NEW p \in Payments, NEW h \in Request,
         h.op \in {"voidPayment", "refund"}, h.pay = p, h.inv = payment[p].inv,
         h.from = payment[p].status,
         h.op = "refund" => h.refunded <= payment[p].amount + Cent,
         payment[p].status # "unused",
         Begin(r, h),
         UNCHANGED <<invoice, payment, lifetimeValue, intent, automationLog>>
  PROVE  Inv'
<1> USE DEF Inv
<1>1. TypeOK'
  BY BeginType DEF TypeOK
<1>2. req'[r] = h /\ \A q \in Requests \ {r} : req'[q] = req[q]
  BY DEF Begin, TypeOK
<1>3. payment[p].intent = None => ToldIn(payment[p].history, h.from)
  BY DEF RowsOK, RowOK
<1>4. HandlerOK(r)'
  BY <1>2, <1>3 DEF HandlerOK, OnInvoice, Hooks, Reversing
<1> QED
  BY <1>1, <1>2, <1>4, PaymentsUnchanged, OtherHandlers DEF IntentsOK

\* The transaction of a reversal opens.
LEMMA BeginTxInv ==
  ASSUME Inv, NEW r \in Requests,
         NEW op \in {"voidPayment", "refund"}, NEW txOp \in {"voidPaymentTx", "refundTx"},
         (op = "refund") = (txOp = "refundTx"),
         BeginTx(r, op, txOp)
  PROVE  Inv'
<1> USE DEF Inv
<1> DEFINE seen == IF req[r].inv = None THEN Unread ELSE invoice[req[r].inv]
           h == [req[r] EXCEPT !.op = txOp, !.seen = seen]
<1>1. req[r] \in Request /\ HandlerOK(r) /\ req[r].op = op
  BY DEF TypeOK, HandlersOK, BeginTx
<1>2. seen \in InvoiceRow
  BY <1>1, IdleIsRequest DEF TypeOK, Request
<1>3. h \in Request
  BY <1>1, <1>2 DEF Request, Ops
<1>4. Begin(r, h) /\ UNCHANGED <<invoice, payment, lifetimeValue, intent, automationLog>>
  BY DEF BeginTx
<1>5. TypeOK'
  BY <1>3, <1>4, BeginType DEF TypeOK
<1>6. HandlerOK(r)' /\ \A q \in Requests \ {r} : req'[q] = req[q]
  <2>1. req'[r] = h /\ \A q \in Requests \ {r} : req'[q] = req[q]
    BY <1>4 DEF Begin, TypeOK
  <2>2. h.op = txOp /\ h.pay = req[r].pay /\ h.inv = req[r].inv /\ h.refunded = req[r].refunded
    BY <1>1 DEF Request
  <2> QED
    BY <1>1, <1>4, <2>1, <2>2 DEF HandlerOK, OnInvoice, Hooks, Reversing
<1> QED
  BY <1>4, <1>5, <1>6, PaymentsUnchanged, OtherHandlers DEF IntentsOK

\* A commit that restates the payment a reversal works on.
LEMMA RestatedRow ==
  ASSUME Inv, NEW r \in Requests, req[r].op \in Reversing,
         NEW status \in {"void", "refunded", "partially_refunded"}, NEW refunded \in Nat,
         refunded <= payment[req[r].pay].amount + Cent,
         payment' = [payment EXCEPT ![req[r].pay] = [Restated(@, req[r].from, status) EXCEPT !.refunded = refunded]]
  PROVE  /\ payment' \in [Payments -> PaymentRow]
         /\ SamePayments
         /\ RowsOK'
<1> USE DEF Inv
<1> DEFINE p == req[r].pay
           new == [Restated(payment[p], req[r].from, status) EXCEPT !.refunded = refunded]
<1>1. p \in Payments /\ payment[p].status # "unused" /\ payment[p] \in PaymentRow /\ RowOK(p)
  BY DEF HandlersOK, HandlerOK, TypeOK, RowsOK
<1>2. /\ new \in PaymentRow
      /\ new.status = status /\ new.refunded = refunded
      /\ new.history = payment[p].history \cup {<<req[r].from, status>>}
      /\ new.amount = payment[p].amount /\ new.inv = payment[p].inv
      /\ new.cust = payment[p].cust /\ new.intent = payment[p].intent
  <2>1. req[r].from \in PaymentStatus /\ status \in PaymentStatus
    BY DEF TypeOK, Request, PaymentStatus
  <2> QED
    BY <1>1, <2>1, RestatedFields
<1>3. payment'[p] = new /\ \A q \in Payments \ {p} : payment'[q] = payment[q]
  BY <1>1 DEF TypeOK
<1>4. payment' \in [Payments -> PaymentRow]
  BY <1>2 DEF TypeOK
<1>5. SamePayments
  BY <1>1, <1>2, <1>3 DEF SamePayments, SamePayment
<1>6. RowsOK'
  <2> SUFFICES ASSUME NEW q \in Payments PROVE RowOK(q)'
    BY DEF RowsOK
  <2>1. CASE q = p
    <3>1. payment[p].intent = None =>
              ToldIn(payment[p].history, req[r].from) /\ Chained(payment[p].history)
      BY <1>1 DEF RowOK, HandlersOK, HandlerOK
    <3>2. payment[p].intent = None => Chained(new.history) /\ ToldIn(new.history, status)
      BY <1>2, <3>1, ChainGrows
    <3> HIDE DEF new
    <3> QED
      BY <1>1, <1>2, <1>3, <2>1, <3>2 DEF RowOK
  <2>2. CASE q # p
    BY <1>3, <2>2 DEF RowOK, RowsOK
  <2> QED
    BY <2>1, <2>2
<1> QED
  BY <1>4, <1>5, <1>6

\* The steps that void or refund a payment.
LEMMA ReverseStepInv ==
  ASSUME Inv, NEW r \in Requests, ReverseStep(r)
  PROVE  Inv'
<1> USE DEF Inv
<1>1. ASSUME NEW p \in Payments, VoidPaymentRead(r, p)
      PROVE  Inv'
  <2> DEFINE h == [Idle EXCEPT !.op = "voidPayment", !.inv = payment[p].inv, !.pay = p,
                             !.from = payment[p].status]
  <2>1. payment[p].status # "unused" /\ payment[p] \in PaymentRow
    BY <1>1 DEF VoidPaymentRead, CanVoidPayment, TypeOK
  <2>2. h \in Request
    BY <2>1, IdleIsRequest DEF Request, Ops, PaymentRow
  <2>3. h.op = "voidPayment" /\ h.pay = p /\ h.inv = payment[p].inv /\ h.from = payment[p].status
    BY DEF Idle
  <2> QED
    BY <1>1, <2>1, <2>2, <2>3, ReverseReadInv DEF VoidPaymentRead
<1>2. ASSUME NEW p \in Payments, NEW a \in Amounts \cup {Refundable(p)}, a > 0, RefundRead(r, p, a)
      PROVE  Inv'
  <2> DEFINE h == [Idle EXCEPT !.op = "refund", !.inv = payment[p].inv, !.pay = p, !.from = payment[p].status,
                               !.amount = a, !.refunded = payment[p].refunded + a]
  <2>1. payment[p].status # "unused" /\ payment[p] \in PaymentRow
    BY <1>2 DEF RefundRead, Active, TypeOK
  <2>2. a \in Nat /\ payment[p].refunded + a \in Nat /\ payment[p].refunded + a <= payment[p].amount + Cent
    BY <1>2, <2>1, MoneyAssumption DEF PaymentRow, Refundable, RefundRead, Cent
  <2>3. h \in Request
    BY <2>1, <2>2, IdleIsRequest DEF Request, Ops, PaymentRow
  <2>4. /\ h.op = "refund" /\ h.pay = p /\ h.inv = payment[p].inv
        /\ h.from = payment[p].status /\ h.refunded = payment[p].refunded + a
    BY DEF Idle
  <2> QED
    BY <1>2, <2>1, <2>2, <2>3, <2>4, ReverseReadInv DEF RefundRead
<1>3. CASE VoidPaymentBegin(r) \/ RefundBegin(r)
  BY <1>3, BeginTxInv DEF VoidPaymentBegin, RefundBegin
<1>4. ASSUME NEW status \in {"void", "refunded", "partially_refunded"}, NEW refunded \in Nat, NEW amount \in Nat,
             req[r].op \in Reversing,
             refunded <= payment[req[r].pay].amount + Cent,
             payment' = [payment EXCEPT ![req[r].pay] = [Restated(@, req[r].from, status) EXCEPT !.refunded = refunded]],
             ReverseAmountFromInvoice(r, amount), Finish(r), UNCHANGED <<intent, automationLog>>
      PROVE  Inv'
  <2>1. payment' \in [Payments -> PaymentRow] /\ SamePayments /\ RowsOK'
    BY <1>4, RestatedRow
  <2>2. invoice' \in [Invoices -> InvoiceRow] /\ lifetimeValue' \in [Customers -> Nat]
    BY <1>4, ReversedType
  <2>3. TypeOK'
    BY <1>4, <2>1, <2>2, IdleIsRequest, BeginType DEF TypeOK
  <2> QED
    BY <1>4, <2>1, <2>3, IdleHandler, OtherHandlers DEF IntentsOK
<1>5. ASSUME VoidPaymentCommit(r)
      PROVE  Inv'
  <2> DEFINE p == req[r].pay
  <2>1. p \in Payments /\ payment[p] \in PaymentRow /\ RowOK(p) /\ req[r].op \in Reversing
    BY <1>5 DEF VoidPaymentCommit, HandlersOK, HandlerOK, RowsOK, TypeOK, Reversing
  <2>2. payment[p].refunded \in Nat /\ payment[p].amount \in Nat /\ payment[p].refunded <= payment[p].amount + Cent
    BY <2>1 DEF PaymentRow, RowOK
  <2>3. [Restated(payment[p], req[r].from, "void") EXCEPT !.refunded = payment[p].refunded] = Restated(payment[p], req[r].from, "void")
    BY <2>1 DEF Restated, PaymentRow
  <2>4. payment' = [payment EXCEPT ![p] = [Restated(@, req[r].from, "void") EXCEPT !.refunded = payment[p].refunded]]
    BY <1>5, <2>3 DEF VoidPaymentCommit
  <2> QED
    BY <1>4, <1>5, <2>1, <2>2, <2>4 DEF VoidPaymentCommit
<1>6. ASSUME RefundCommit(r)
      PROVE  Inv'
  <2>1. req[r].refunded \in Nat /\ req[r].amount \in Nat /\ req[r].refunded <= payment[req[r].pay].amount + Cent
    BY <1>6 DEF RefundCommit, HandlersOK, HandlerOK, TypeOK, Request
  <2>2. RefundedStatus(r) \in {"void", "refunded", "partially_refunded"}
    BY DEF RefundedStatus
  <2> QED
    BY <1>4, <1>6, <2>1, <2>2 DEF RefundCommit, RefundedNow, Reversing
<1> QED
  BY <1>1, <1>2, <1>3, <1>5, <1>6 DEF ReverseStep

\* The payment rows the webhook inserts.
LEMMA HookRow ==
  ASSUME Inv, NEW r \in Requests, req[r].op \in Hooks, NEW p \in Payments,
         NEW status \in {"succeeded", "failed"},
         InsertPayment(p, status, {}, req[r].amount, req[r].inv, CustomerOf[req[r].inv], req[r].intent)
  PROVE  /\ req[r].inv \in Invoices /\ CustomerOf[req[r].inv] \in Customers
         /\ payment' \in [Payments -> PaymentRow] /\ SamePayments /\ RowsOK'
<1> USE DEF Inv
<1>1. req[r].inv \in Invoices /\ req[r].intent \in Intents /\ req[r].amount \in Nat
  BY DEF HandlersOK, HandlerOK, Hooks, OnInvoice, TypeOK, Request
<1>2. CustomerOf[req[r].inv] \in Customers /\ req[r].intent # None
  BY <1>1, CustomerAssumption, NoneAssumption
<1> QED
  BY <1>1, <1>2, InsertedRow DEF PaymentStatus

\* The steps of the Stripe webhook.
LEMMA WebhookStepInv ==
  ASSUME Inv, NEW r \in Requests, WebhookStep(r)
  PROVE  Inv'
<1> USE DEF Inv
<1>1. ASSUME NEW pi \in Intents, NEW h \in Request,
             h.op \in {"hook", "hookFailed"}, h.inv \in Invoices, h.intent \in Intents,
             Begin(r, h), UNCHANGED <<invoice, payment, lifetimeValue, intent, automationLog>>
      PROVE  Inv'
  <2>1. TypeOK'
    BY <1>1, BeginType DEF TypeOK
  <2>2. HandlerOK(r)' /\ \A q \in Requests \ {r} : req'[q] = req[q]
    BY <1>1 DEF HandlerOK, Begin, OnInvoice, Hooks, Reversing, TypeOK
  <2> QED
    BY <1>1, <2>1, <2>2, PaymentsUnchanged, OtherHandlers DEF IntentsOK
<1>2. ASSUME NEW pi \in Intents, ReconcileRead(r, pi)
      PROVE  Inv'
  <2> DEFINE h == [Idle EXCEPT !.op = "hook", !.inv = intent[pi].inv, !.intent = pi,
                               !.amount = intent[pi].amount, !.seen = invoice[intent[pi].inv]]
  <2>1. intent[pi] \in IntentRow /\ intent[pi].inv \in Invoices
    BY <1>2 DEF ReconcileRead, IntentsOK, TypeOK, IntentRow
  <2>2. h \in Request
    BY <2>1, IdleIsRequest DEF Request, Ops, TypeOK, IntentRow
  <2>3. h.op = "hook" /\ h.inv \in Invoices /\ h.intent \in Intents
    BY <2>1 DEF Idle
  <2> QED
    BY <1>1, <1>2, <2>2, <2>3 DEF ReconcileRead
<1>3. ASSUME NEW pi \in Intents, FailedRead(r, pi)
      PROVE  Inv'
  <2> DEFINE h == [Idle EXCEPT !.op = "hookFailed", !.inv = intent[pi].inv, !.intent = pi,
                               !.amount = intent[pi].amount]
  <2>1. intent[pi] \in IntentRow /\ intent[pi].inv \in Invoices
    BY <1>3 DEF FailedRead, IntentsOK, TypeOK, IntentRow
  <2>2. h \in Request
    BY <2>1, IdleIsRequest DEF Request, Ops, TypeOK, IntentRow
  <2>3. h.op = "hookFailed" /\ h.inv \in Invoices /\ h.intent \in Intents
    BY <2>1 DEF Idle
  <2> QED
    BY <1>1, <1>3, <2>2, <2>3 DEF FailedRead
<1>4. ASSUME ReconcileCheck(r)
      PROVE  Inv'
  <2> DEFINE h == [req[r] EXCEPT !.op = "hookNew"]
  <2>1. UNCHANGED <<invoice, payment, lifetimeValue, intent, automationLog>> /\ (Finish(r) \/ Begin(r, h))
    BY <1>4 DEF ReconcileCheck
  <2>2. req[r] \in Request /\ HandlerOK(r) /\ req[r].op = "hook"
    BY <1>4 DEF ReconcileCheck, TypeOK, HandlersOK
  <2>3. h \in Request /\ h.op = "hookNew" /\ h.inv = req[r].inv /\ h.intent = req[r].intent
    BY <2>2 DEF Request, Ops
  <2>4. TypeOK'
    BY <2>1, <2>3, IdleIsRequest, BeginType DEF TypeOK
  <2>5. HandlerOK(r)' /\ \A q \in Requests \ {r} : req'[q] = req[q]
    <3>1. CASE Finish(r)
      BY <3>1, IdleHandler
    <3>2. CASE Begin(r, h)
      BY <2>2, <2>3, <3>2 DEF HandlerOK, Begin, OnInvoice, Hooks, Reversing, TypeOK
    <3> QED
      BY <2>1, <3>1, <3>2
  <2> QED
    BY <2>1, <2>4, <2>5, PaymentsUnchanged, OtherHandlers DEF IntentsOK
<1>5. ASSUME NEW p \in Payments, ReconcileCommit(r, p)
      PROVE  Inv'
  <2>1. /\ req[r].inv \in Invoices /\ CustomerOf[req[r].inv] \in Customers
        /\ payment' \in [Payments -> PaymentRow] /\ SamePayments /\ RowsOK'
    BY <1>5, HookRow DEF ReconcileCommit, Hooks
  <2>2. req[r].amount \in Nat /\ ReconciledPaid(r) \in Nat
    BY <2>1 DEF ReconciledPaid, TypeOK, InvoiceRow, Request
  <2>3. invoice' \in [Invoices -> InvoiceRow]
    BY <1>5, <2>2, InvoiceWriteType DEF ReconcileCommit, TypeOK, InvoiceStatus
  <2>4. lifetimeValue' \in [Customers -> Nat]
    BY <1>5, <2>1, <2>2, CreditCustomerType DEF ReconcileCommit, TypeOK
  <2>5. automationLog' \subseteq ({"invoice_paid"} \X Invoices) \cup ({"payment_failed"} \X Intents)
    BY <1>5, <2>1 DEF ReconcileCommit, LogEvent, TypeOK
  <2>6. Finish(r) /\ UNCHANGED intent
    BY <1>5 DEF ReconcileCommit
  <2>7. TypeOK'
    BY <2>1, <2>3, <2>4, <2>5, <2>6, IdleIsRequest, BeginType DEF TypeOK
  <2> QED
    BY <2>1, <2>6, <2>7, IdleHandler, OtherHandlers DEF IntentsOK
<1>6. ASSUME NEW p \in Payments, FailedCommit(r, p)
      PROVE  Inv'
  <2> DEFINE h == [req[r] EXCEPT !.op = "hookFailedHistory", !.pay = p]
  <2>1. /\ req[r].inv \in Invoices
        /\ payment' \in [Payments -> PaymentRow] /\ SamePayments /\ RowsOK'
    BY <1>6, HookRow DEF FailedCommit, Hooks
  <2>2. req[r] \in Request /\ HandlerOK(r) /\ req[r].op = "hookFailed" /\ req[r].intent \in Intents
    BY <1>6 DEF FailedCommit, TypeOK, HandlersOK, HandlerOK, Hooks
  <2>3. h \in Request /\ h.op = "hookFailedHistory" /\ h.inv = req[r].inv /\ h.intent = req[r].intent /\ h.pay = p
    BY <2>2 DEF Request, Ops
  <2>4. Begin(r, h) /\ UNCHANGED <<invoice, lifetimeValue, intent, automationLog>>
    BY <1>6 DEF FailedCommit
  <2>5. TypeOK'
    BY <2>1, <2>3, <2>4, BeginType DEF TypeOK
  <2>6. payment'[p].status = "failed" /\ payment'[p].intent = req[r].intent
    BY <1>6 DEF FailedCommit, InsertPayment, TypeOK
  <2>7. HandlerOK(r)' /\ \A q \in Requests \ {r} : req'[q] = req[q]
    <3>1. req'[r] = h /\ \A q \in Requests \ {r} : req'[q] = req[q]
      BY <2>4 DEF Begin, TypeOK
    <3> QED
      BY <2>1, <2>2, <2>3, <2>6, <3>1, NoneAssumption DEF HandlerOK, OnInvoice, Hooks, Reversing
  <2> QED
    BY <2>1, <2>4, <2>5, <2>7, OtherHandlers DEF IntentsOK
<1>7. ASSUME FailedHistory(r)
      PROVE  Inv'
  <2> DEFINE p == req[r].pay
  <2>1. req[r].intent \in Intents /\ p \in Payments /\ payment[p].status # "unused" /\ payment[p].intent # None
    BY <1>7 DEF FailedHistory, HandlersOK, HandlerOK, Hooks
  <2>2. payment' = [payment EXCEPT ![p].history = @ \cup Inserted("failed")]
    BY <1>7 DEF FailedHistory
  <2>3. payment' \in [Payments -> PaymentRow]
    <3>1. [payment[p] EXCEPT !.history = @ \cup Inserted("failed")] \in PaymentRow
      BY <2>1 DEF TypeOK, PaymentRow, PaymentStatus, Inserted
    <3> QED
      BY <2>2, <3>1 DEF TypeOK
  <2>4. SamePayments
    BY <2>1, <2>2 DEF SamePayments, SamePayment, TypeOK, PaymentRow
  <2>5. RowsOK'
    <3> SUFFICES ASSUME NEW q \in Payments PROVE RowOK(q)'
      BY DEF RowsOK
    <3>1. payment[q] \in PaymentRow /\ RowOK(q)
      BY DEF TypeOK, RowsOK
    <3>2. CASE q # p
      BY <2>2, <3>1, <3>2 DEF RowOK, TypeOK
    <3>3. CASE q = p
      BY <2>1, <2>2, <3>1, <3>3 DEF RowOK, TypeOK, PaymentRow
    <3> QED
      BY <3>2, <3>3
  <2>6. automationLog' \subseteq ({"invoice_paid"} \X Invoices) \cup ({"payment_failed"} \X Intents)
    BY <1>7, <2>1 DEF FailedHistory, LogEvent, TypeOK
  <2>7. Finish(r) /\ UNCHANGED <<invoice, lifetimeValue, intent>>
    BY <1>7 DEF FailedHistory
  <2>8. TypeOK'
    BY <2>3, <2>6, <2>7, IdleIsRequest, BeginType DEF TypeOK
  <2> QED
    BY <2>4, <2>5, <2>7, <2>8, IdleHandler, OtherHandlers DEF IntentsOK
<1> QED
  BY <1>2, <1>3, <1>4, <1>5, <1>6, <1>7 DEF WebhookStep

\* Stripe's own steps, standalone payments, and handlers that die.
LEMMA OtherStepInv ==
  ASSUME Inv, StripeStep \/ StandaloneStep \/ (\E r \in Requests : Abandon(r))
  PROVE  Inv'
<1> USE DEF Inv
<1>1. ASSUME NEW pi \in Intents,
             NEW i \in Invoices, CreatePaymentIntent(pi, i)
      PROVE  Inv'
  <2>1. BalanceDue(i) \in Nat
    BY <1>1 DEF CreatePaymentIntent, BalanceDue, TypeOK, InvoiceRow
  <2>2. intent' \in [Intents -> IntentRow]
    <3>1. intent[pi] \in IntentRow
      BY DEF TypeOK
    <3>2. [intent[pi] EXCEPT !.inv = i, !.amount = BalanceDue(i)] \in IntentRow
      BY <2>1, <3>1 DEF IntentRow
    <3>3. intent' = [intent EXCEPT ![pi] = [intent[pi] EXCEPT !.inv = i, !.amount = BalanceDue(i)]]
      BY <1>1 DEF CreatePaymentIntent
    <3> QED
      BY <3>2, <3>3 DEF TypeOK
  <2>3. IntentsOK'
    <3>1. intent'[pi].inv = i /\ \A qi \in Intents \ {pi} : intent'[qi] = intent[qi]
      BY <1>1 DEF CreatePaymentIntent, TypeOK, IntentRow
    <3>2. i # None
      BY NoneAssumption
    <3> QED
      BY <3>1, <3>2 DEF IntentsOK
  <2> QED
    BY <1>1, <2>2, <2>3 DEF CreatePaymentIntent, TypeOK, RowsOK, RowOK, HandlersOK, HandlerOK
<1>2. ASSUME NEW pi \in Intents, CardFails(pi) \/ CardSucceeds(pi)
      PROVE  Inv'
  <2>1. intent' \in [Intents -> IntentRow]
    <3>1. intent[pi] \in IntentRow
      BY DEF TypeOK
    <3>2. /\ [intent[pi] EXCEPT !.failed = TRUE] \in IntentRow
          /\ [intent[pi] EXCEPT !.succeeded = TRUE] \in IntentRow
      BY <3>1 DEF IntentRow
    <3>3. \/ intent' = [intent EXCEPT ![pi] = [intent[pi] EXCEPT !.failed = TRUE]]
          \/ intent' = [intent EXCEPT ![pi] = [intent[pi] EXCEPT !.succeeded = TRUE]]
      BY <1>2 DEF CardFails, CardSucceeds
    <3> QED
      BY <3>2, <3>3 DEF TypeOK
  <2>2. IntentsOK'
    <3>1. intent'[pi].inv = intent[pi].inv /\ \A qi \in Intents \ {pi} : intent'[qi] = intent[qi]
      BY <1>2 DEF CardFails, CardSucceeds, TypeOK, IntentRow
    <3>2. intent[pi].inv # None
      BY <1>2 DEF CardFails, CardSucceeds
    <3> QED
      BY <3>1, <3>2 DEF IntentsOK
  <2> QED
    BY <1>2, <2>1, <2>2 DEF CardFails, CardSucceeds, TypeOK, RowsOK, RowOK, HandlersOK, HandlerOK
<1>3. ASSUME NEW p \in Payments, NEW c \in Customers, NEW a \in Amounts, RecordStandalone(p, c, a)
      PROVE  Inv'
  <2>1. a \in Nat
    BY MoneyAssumption
  <2>2. payment' \in [Payments -> PaymentRow] /\ SamePayments /\ RowsOK'
    BY <1>3, <2>1, InsertedRow, InsertedHistory DEF RecordStandalone, PaymentStatus
  <2>3. TypeOK'
    BY <1>3, <2>1, <2>2, CreditCustomerType DEF RecordStandalone, TypeOK
  <2>4. HandlersOK'
    <3> SUFFICES ASSUME NEW r \in Requests PROVE HandlersOK'
      BY DEF HandlersOK
    <3>1. \A q \in Requests : req'[q] = req[q] /\ HandlerOK(q)
      BY <1>3 DEF RecordStandalone, HandlersOK
    <3>2. ASSUME NEW q \in Requests PROVE HandlerOK(q)'
      <4>1. req'[q] = req[q] /\ HandlerOK(q)
        BY <3>1
      <4>2. req[q].op \in Reversing \cup {"hookFailedHistory"} => SamePayment(req[q].pay)
        BY <2>2, <4>1 DEF HandlerOK, SamePayments
      <4>3. req[q].op \in Reversing /\ payment[req[q].pay].intent = None =>
                ToldIn(payment'[req[q].pay].history, req[q].from)
        BY <4>1, <4>2, ToldGrows DEF HandlerOK, SamePayment
      <4> QED
        BY <4>1, <4>2, <4>3 DEF HandlerOK, SamePayment, Reversing
    <3> QED
      BY <3>2 DEF HandlersOK
  <2> QED
    BY <1>3, <2>2, <2>3, <2>4 DEF RecordStandalone, IntentsOK
<1>4. ASSUME NEW r \in Requests, Abandon(r)
      PROVE  Inv'
  <2>1. TypeOK'
    BY <1>4, IdleIsRequest, BeginType DEF Abandon, TypeOK
  <2> QED
    BY <1>4, <2>1, PaymentsUnchanged, IdleHandler, OtherHandlers DEF Abandon, IntentsOK
<1> QED
  BY <1>1, <1>2, <1>3, <1>4 DEF StripeStep, StandaloneStep

\* The invariant holds initially.
LEMMA InitInv == Init => Inv
<1> SUFFICES ASSUME Init PROVE Inv
  OBVIOUS
<1>1. TypeOK
  <2>1. invoice \in [Invoices -> InvoiceRow]
    <3>1. ASSUME NEW row \in [status : {"draft"}, total : Totals, amountPaid : {0}]
          PROVE  row \in InvoiceRow
      <4>1. row = [status |-> row.status, total |-> row.total, amountPaid |-> row.amountPaid]
        OBVIOUS
      <4>2. row.status \in {"draft"} /\ row.total \in Totals /\ row.amountPaid \in {0}
        OBVIOUS
      <4>3. row.total \in Nat
        BY <4>2, MoneyAssumption
      <4> QED
        BY <4>1, <4>2, <4>3 DEF InvoiceRow, InvoiceStatus
    <3> QED
      BY <3>1 DEF Init
  <2>2. intent \in [Intents -> IntentRow]
    BY DEF Init, IntentRow
  <2>3. payment \in [Payments -> PaymentRow] /\ req \in [Requests -> Request]
    BY IdleIsRequest DEF Init
  <2> QED
    BY <2>1, <2>2, <2>3 DEF Init, TypeOK
<1>2. HandlersOK
  BY DEF Init, HandlersOK, HandlerOK, Idle, OnInvoice, Hooks, Reversing
<1>3. IntentsOK
  BY DEF Init, IntentsOK
<1>4. RowsOK
  BY DEF Init, RowsOK, RowOK, Unused, Cent
<1> QED
  BY <1>1, <1>2, <1>3, <1>4 DEF Inv

\* Every step keeps the invariant.
LEMMA NextInv == Inv /\ [Next]_vars => Inv'
<1> SUFFICES ASSUME Inv, [Next]_vars PROVE Inv'
  OBVIOUS
<1>1. CASE UNCHANGED vars
  BY <1>1 DEF vars, Inv, TypeOK, HandlersOK, HandlerOK, IntentsOK, RowsOK, RowOK
<1>2. CASE Next
  BY <1>2, InvoiceStepInv, RecordStepInv, ReverseStepInv, WebhookStepInv, OtherStepInv DEF Next
<1> QED
  BY <1>1, <1>2

-----------------------------------------------------------------------------
(***************************************************************************)
(* Theorems that hold however the handlers interleave.                     *)
(***************************************************************************)

\* The inductive invariant holds in every reachable state.
THEOREM Invariance == Spec => []Inv
  BY InitInv, NextInv, PTL DEF Spec

\* amount_paid and lifetime_value never become negative, and every row keeps
\* the shape of its table, whatever handlers race (recordPayment,
\* voidPayment, refundPayment, the Stripe webhook).
THEOREM TypeCorrect == Spec => []TypeOK
<1>1. Inv => TypeOK
  BY DEF Inv
<1> QED
  BY <1>1, Invariance, PTL

\* However many refunds of one payment race, refunded_amount passes the
\* amount paid by no more than the cent the guard tolerates.
THEOREM RefundsBounded == Spec => []RefundBound
<1>1. Inv => RefundBound
  BY DEF Inv, RowsOK, RowOK, RefundBound
<1> QED
  BY <1>1, Invariance, PTL

\* The history of a payment the staff recorded explains its status, however
\* voids and refunds of it race.
THEOREM HistoryTold == Spec => []HistoryExplains
<1>1. Inv => HistoryExplains
  BY DEF Inv, RowsOK, RowOK, ToldIn, Chained, HistoryExplains
<1> QED
  BY <1>1, Invariance, PTL

-----------------------------------------------------------------------------
(***************************************************************************)
(* An invoice that left draft never returns to it.  The handlers write a   *)
(* status they computed from a row read earlier, so what has to be kept is *)
(* that none of them read a draft.                                         *)
(***************************************************************************)
LeftDraft(i) == i # None => invoice[i].status # "draft"

HandlerLeftDraft(r) ==
    /\ req[r].op \in {"record"} \cup Reversing => LeftDraft(req[r].inv)
    /\ req[r].op \in {"record", "voidPaymentTx", "refundTx"} /\ req[r].inv # None =>
           req[r].seen.status # "draft"

DraftInv == DraftUntouched /\ \A r \in Requests : HandlerLeftDraft(r)

\* No invoice becomes a draft, and a draft's amount is left alone.
NoNewDraft ==
    \A i \in Invoices : invoice'[i].status = "draft" =>
        invoice[i].status = "draft" /\ invoice'[i].amountPaid = invoice[i].amountPaid

\* A payment of an invoice that still is a draft was there before, or failed.
NoDraftPayment ==
    \A p \in Payments, i \in Invoices :
        payment'[p].inv = i /\ invoice'[i].status = "draft" =>
            \/ payment'[p].status = "failed"
            \/ payment'[p].inv = payment[p].inv /\ payment'[p].status = payment[p].status

\* These two and the stepping handler's own part keep DraftInv.
LEMMA DraftInvKept ==
  ASSUME Inv, Inv', DraftInv, NoNewDraft, NoDraftPayment,
         NEW r \in Requests, \A q \in Requests \ {r} : req'[q] = req[q],
         HandlerLeftDraft(r)'
  PROVE  DraftInv'
<1>1. DraftUntouched'
  BY DEF DraftInv, DraftUntouched, NoNewDraft, NoDraftPayment
<1>2. ASSUME NEW q \in Requests PROVE HandlerLeftDraft(q)'
  <2>1. CASE q = r
    BY <2>1
  <2>2. CASE q # r
    <3>1. HandlerLeftDraft(q) /\ req'[q] = req[q] /\ req[q].inv \in Invoices \cup {None}
      BY <2>2 DEF DraftInv, Inv, TypeOK, Request
    <3>2. LeftDraft(req[q].inv) => LeftDraft(req[q].inv)'
      BY <3>1 DEF LeftDraft, NoNewDraft
    <3> QED
      BY <3>1, <3>2 DEF HandlerLeftDraft, LeftDraft
  <2> QED
    BY <2>1, <2>2
<1> QED
  BY <1>1, <1>2 DEF DraftInv

\* Starting or finishing a handler without touching a row.
LEMMA DraftInvHandler ==
  ASSUME Inv, Inv', DraftInv, UNCHANGED <<invoice, payment>>,
         NEW r \in Requests, NEW h, Begin(r, h),
         h.op \in {"record"} \cup Reversing => LeftDraft(h.inv),
         h.op \in {"record", "voidPaymentTx", "refundTx"} /\ h.inv # None => h.seen.status # "draft"
  PROVE  DraftInv'
<1>1. NoNewDraft /\ NoDraftPayment
  BY DEF NoNewDraft, NoDraftPayment
<1>2. req'[r] = h /\ \A q \in Requests \ {r} : req'[q] = req[q]
  BY DEF Begin, Inv, TypeOK
<1>3. HandlerLeftDraft(r)'
  BY <1>2 DEF HandlerLeftDraft, LeftDraft
<1> QED
  BY <1>1, <1>2, <1>3, DraftInvKept

\* A handler that finishes by writing rows.
LEMMA DraftInvFinish ==
  ASSUME Inv, Inv', DraftInv, NoNewDraft, NoDraftPayment, NEW r \in Requests, Finish(r)
  PROVE  DraftInv'
<1>1. req'[r] = Idle /\ \A q \in Requests \ {r} : req'[q] = req[q]
  BY DEF Finish, Inv, TypeOK
<1>2. HandlerLeftDraft(r)'
  BY <1>1 DEF HandlerLeftDraft, Idle, Reversing
<1> QED
  BY <1>1, <1>2, DraftInvKept

\* The status computed from a row that is no draft is not draft.
LEMMA StatusNotDraft ==
  ASSUME NEW total, NEW paid, NEW current, current # "draft"
  PROVE  StatusAfterPayment(total, paid, current) # "draft"
  BY DEF StatusAfterPayment

\* The steps on an invoice keep DraftInv.
LEMMA InvoiceStepDraft ==
  ASSUME Inv, Inv', DraftInv, NEW r \in Requests, InvoiceStep(r)
  PROVE  DraftInv'
<1>1. ASSUME NEW i \in Invoices, UpdateRead(r, i) \/ SendRead(r, i) \/ VoidInvoiceRead(r, i)
      PROVE  DraftInv'
  <2>1. PICK op \in {"update", "send", "voidInvoice"} : Begin(r, [Idle EXCEPT !.op = op, !.inv = i])
    BY <1>1 DEF UpdateRead, SendRead, VoidInvoiceRead
  <2>2. [Idle EXCEPT !.op = op, !.inv = i].op = op
    BY DEF Idle
  <2>3. UNCHANGED <<invoice, payment>>
    BY <1>1 DEF UpdateRead, SendRead, VoidInvoiceRead
  <2> QED
    BY <2>1, <2>2, <2>3, DraftInvHandler DEF Reversing
<1>2. ASSUME NEW t \in Totals, UpdateWrite(r, t)
      PROVE  DraftInv'
  <2>1. NoNewDraft /\ NoDraftPayment
    BY <1>2 DEF UpdateWrite, NoNewDraft, NoDraftPayment, Inv, TypeOK, InvoiceRow
  <2> QED
    BY <1>2, <2>1, DraftInvFinish DEF UpdateWrite
<1>3. ASSUME SendWrite(r) \/ VoidInvoiceWrite(r)
      PROVE  DraftInv'
  <2>1. NoNewDraft /\ NoDraftPayment
    BY <1>3 DEF SendWrite, VoidInvoiceWrite, NoNewDraft, NoDraftPayment, Inv, TypeOK, InvoiceRow
  <2> QED
    BY <1>3, <2>1, DraftInvFinish DEF SendWrite, VoidInvoiceWrite
<1>4. ASSUME VoidInvoiceCheck(r)
      PROVE  DraftInv'
  <2>1. NoNewDraft /\ NoDraftPayment /\ UNCHANGED <<invoice, payment>>
    BY <1>4 DEF VoidInvoiceCheck, NoNewDraft, NoDraftPayment
  <2>2. CASE Finish(r)
    BY <2>1, <2>2, DraftInvFinish
  <2>3. CASE Begin(r, [req[r] EXCEPT !.op = "voidInvoiceChecked"])
    <3>1. [req[r] EXCEPT !.op = "voidInvoiceChecked"].op = "voidInvoiceChecked"
      BY DEF Inv, TypeOK, Request
    <3> QED
      BY <2>1, <2>3, <3>1, DraftInvHandler DEF Reversing
  <2> QED
    BY <1>4, <2>2, <2>3 DEF VoidInvoiceCheck
<1> QED
  BY <1>1, <1>2, <1>3, <1>4 DEF InvoiceStep

\* The steps that record a payment keep DraftInv.
LEMMA RecordStepDraft ==
  ASSUME Inv, Inv', DraftInv, NEW r \in Requests, RecordStep(r)
  PROVE  DraftInv'
<1>1. ASSUME NEW i \in Invoices, NEW a \in Amounts, RecordRead(r, i, a)
      PROVE  DraftInv'
  <2> DEFINE h == [Idle EXCEPT !.op = "record", !.inv = i, !.amount = a, !.seen = invoice[i]]
  <2>1. h.inv = i /\ h.seen = invoice[i]
    BY DEF Idle
  <2>2. invoice[i].status # "draft"
    BY <1>1 DEF RecordRead, CanRecord
  <2>3. Begin(r, h) /\ UNCHANGED <<invoice, payment>>
    BY <1>1 DEF RecordRead
  <2> QED
    BY <2>1, <2>2, <2>3, DraftInvHandler DEF LeftDraft
<1>2. ASSUME NEW p \in Payments, RecordCommit(r, p)
      PROVE  DraftInv'
  <2> DEFINE i == req[r].inv
  <2>1. i \in Invoices /\ i # None /\ HandlerLeftDraft(r) /\ req[r].op = "record"
    BY <1>2, NoneAssumption DEF RecordCommit, Inv, HandlersOK, HandlerOK, OnInvoice, DraftInv
  <2>2. invoice[i].status # "draft" /\ RecordedStatus(r) # "draft"
    BY <2>1, StatusNotDraft DEF HandlerLeftDraft, LeftDraft, RecordedStatus
  <2>3. invoice'[i].status # "draft" /\ \A j \in Invoices \ {i} : invoice'[j] = invoice[j]
    BY <1>2, <2>1, <2>2 DEF RecordCommit, Inv, TypeOK, InvoiceRow
  <2>4. payment'[p].inv = i /\ \A q \in Payments \ {p} : payment'[q] = payment[q]
    BY <1>2 DEF RecordCommit, InsertPayment, Inv, TypeOK
  <2>5. NoNewDraft /\ NoDraftPayment
    BY <2>3, <2>4 DEF NoNewDraft, NoDraftPayment
  <2> QED
    BY <1>2, <2>5, DraftInvFinish DEF RecordCommit
<1>3. ASSUME RecordRollback(r)
      PROVE  DraftInv'
  <2>1. NoNewDraft /\ NoDraftPayment
    BY <1>3 DEF RecordRollback, NoNewDraft, NoDraftPayment
  <2> QED
    BY <1>3, <2>1, DraftInvFinish DEF RecordRollback
<1> QED
  BY <1>1, <1>2, <1>3 DEF RecordStep

\* A payment that still counts belongs to no draft.
LEMMA ActiveLeftDraft ==
  ASSUME Inv, DraftInv, NEW p \in Payments, payment[p].status \in Active
  PROVE  LeftDraft(payment[p].inv)
<1>1. payment[p].inv \in Invoices \cup {None}
  BY DEF Inv, TypeOK, PaymentRow
<1> QED
  BY <1>1 DEF LeftDraft, DraftInv, DraftUntouched, Active

\* A reversal that begins keeps DraftInv.
LEMMA ReverseReadDraft ==
  ASSUME Inv, Inv', DraftInv, NEW r \in Requests, NEW p \in Payments, NEW h,
         h.op \in {"voidPayment", "refund"}, h.inv = payment[p].inv,
         payment[p].status \in Active,
         Begin(r, h), UNCHANGED <<invoice, payment>>
  PROVE  DraftInv'
  BY ActiveLeftDraft, DraftInvHandler DEF Reversing

\* The transaction of a reversal that opens keeps DraftInv.
LEMMA BeginTxDraft ==
  ASSUME Inv, Inv', DraftInv, NEW r \in Requests,
         NEW op \in {"voidPayment", "refund"}, NEW txOp \in {"voidPaymentTx", "refundTx"},
         BeginTx(r, op, txOp)
  PROVE  DraftInv'
<1> DEFINE seen == IF req[r].inv = None THEN Unread ELSE invoice[req[r].inv]
           h == [req[r] EXCEPT !.op = txOp, !.seen = seen]
<1>1. req[r] \in Request /\ HandlerLeftDraft(r) /\ req[r].op \in Reversing
  BY DEF Inv, TypeOK, DraftInv, BeginTx, Reversing
<1>2. h.inv = req[r].inv /\ h.seen = seen
  BY <1>1 DEF Request
<1>3. LeftDraft(h.inv) /\ (h.inv # None => h.seen.status # "draft")
  BY <1>1, <1>2 DEF HandlerLeftDraft, LeftDraft
<1>4. Begin(r, h) /\ UNCHANGED <<invoice, payment>>
  BY DEF BeginTx
<1> HIDE DEF h
<1> QED
  BY <1>3, <1>4, DraftInvHandler

\* The commit of a reversal keeps DraftInv.
LEMMA ReverseCommitDraft ==
  ASSUME Inv, Inv', DraftInv, NEW r \in Requests, req[r].op \in {"voidPaymentTx", "refundTx"},
         SamePayments, \A q \in Payments \ {req[r].pay} : payment'[q] = payment[q],
         NEW amount, ReverseAmountFromInvoice(r, amount), Finish(r)
  PROVE  DraftInv'
<1> DEFINE i == req[r].inv
           p == req[r].pay
<1>1. HandlerLeftDraft(r) /\ p \in Payments /\ payment[p].inv = i /\ payment'[p].inv = i
      /\ i \in Invoices \cup {None}
  BY DEF DraftInv, Inv, HandlersOK, HandlerOK, Reversing, SamePayments, SamePayment, TypeOK, Request
<1>2. CASE i = None
  <2>1. UNCHANGED invoice
    BY <1>2 DEF ReverseAmountFromInvoice
  <2>2. NoNewDraft /\ NoDraftPayment
    BY <1>1, <1>2, <2>1, NoneAssumption DEF NoNewDraft, NoDraftPayment
  <2> QED
    BY <2>2, DraftInvFinish
<1>3. CASE i # None
  <2> DEFINE newPaid == AtLeastZero(req[r].seen.amountPaid - amount)
             newStatus == StatusAfterPayment(req[r].seen.total, newPaid, req[r].seen.status)
  <2>1. invoice[i].status # "draft" /\ newStatus # "draft"
    BY <1>1, <1>3, StatusNotDraft DEF HandlerLeftDraft, LeftDraft, Reversing
  <2>2. invoice' = [invoice EXCEPT ![i].amountPaid = newPaid, ![i].status = newStatus]
    BY <1>3 DEF ReverseAmountFromInvoice
  <2>3. invoice'[i].status # "draft" /\ \A j \in Invoices \ {i} : invoice'[j] = invoice[j]
    BY <1>1, <1>3, <2>1, <2>2 DEF Inv, TypeOK, InvoiceRow
  <2>4. NoNewDraft /\ NoDraftPayment
    BY <1>1, <2>3 DEF NoNewDraft, NoDraftPayment
  <2> QED
    BY <2>4, DraftInvFinish
<1> QED
  BY <1>2, <1>3

\* The steps that void or refund a payment keep DraftInv, when only payments
\* that count are voided.
LEMMA ReverseStepDraft ==
  ASSUME CarefulStaff, Inv, Inv', DraftInv, NEW r \in Requests, ReverseStep(r)
  PROVE  DraftInv'
<1>1. ASSUME NEW p \in Payments, VoidPaymentRead(r, p)
      PROVE  DraftInv'
  <2> DEFINE h == [Idle EXCEPT !.op = "voidPayment", !.inv = payment[p].inv, !.pay = p,
                             !.from = payment[p].status]
  <2>1. h.op \in {"voidPayment", "refund"} /\ h.inv = payment[p].inv
    BY DEF Idle
  <2>2. payment[p].status \in Active /\ Begin(r, h) /\ UNCHANGED <<invoice, payment>>
    BY <1>1 DEF VoidPaymentRead, CanVoidPayment, Active
  <2> HIDE DEF h
  <2> QED
    BY <2>1, <2>2, ReverseReadDraft
<1>2. ASSUME NEW p \in Payments, NEW a \in Amounts \cup {Refundable(p)}, RefundRead(r, p, a)
      PROVE  DraftInv'
  <2> DEFINE h == [Idle EXCEPT !.op = "refund", !.inv = payment[p].inv, !.pay = p, !.from = payment[p].status,
                               !.amount = a, !.refunded = payment[p].refunded + a]
  <2>1. h.op \in {"voidPayment", "refund"} /\ h.inv = payment[p].inv
    BY DEF Idle
  <2>2. payment[p].status \in Active /\ Begin(r, h) /\ UNCHANGED <<invoice, payment>>
    BY <1>2 DEF RefundRead
  <2> HIDE DEF h
  <2> QED
    BY <2>1, <2>2, ReverseReadDraft
<1>3. CASE VoidPaymentBegin(r) \/ RefundBegin(r)
  BY <1>3, BeginTxDraft DEF VoidPaymentBegin, RefundBegin
<1>4. CASE VoidPaymentCommit(r) \/ RefundCommit(r)
  <2> DEFINE p == req[r].pay
  <2>1. req[r].op \in {"voidPaymentTx", "refundTx"} /\ p \in Payments /\ payment[p] \in PaymentRow
    BY <1>4 DEF VoidPaymentCommit, RefundCommit, Inv, HandlersOK, HandlerOK, Reversing, TypeOK
  <2>2. \A q \in Payments \ {p} : payment'[q] = payment[q]
    BY <1>4 DEF VoidPaymentCommit, RefundCommit, Inv, TypeOK
  <2>3. /\ payment'[p].amount = payment[p].amount /\ payment'[p].inv = payment[p].inv
        /\ payment'[p].cust = payment[p].cust /\ payment'[p].intent = payment[p].intent
        /\ payment[p].history \subseteq payment'[p].history
        /\ payment'[p].status # "unused"
    <3>1. CASE VoidPaymentCommit(r)
      BY <2>1, <3>1 DEF VoidPaymentCommit, Restated, Inv, TypeOK, PaymentRow
    <3>2. CASE RefundCommit(r)
      <4>1. payment'[p] = [Restated(payment[p], req[r].from, RefundedStatus(r)) EXCEPT !.refunded = req[r].refunded]
        BY <2>1, <3>2 DEF RefundCommit, Inv, TypeOK
      <4>2. RefundedStatus(r) # "unused"
        BY DEF RefundedStatus
      <4> QED
        BY <2>1, <4>1, <4>2 DEF Restated, PaymentRow
    <3> QED
      BY <1>4, <3>1, <3>2
  <2>4. SamePayments
    BY <2>2, <2>3 DEF SamePayments, SamePayment
  <2>5. Finish(r) /\ \E amount : ReverseAmountFromInvoice(r, amount)
    BY <1>4 DEF VoidPaymentCommit, RefundCommit
  <2> QED
    BY <2>1, <2>2, <2>4, <2>5, ReverseCommitDraft
<1> QED
  BY <1>1, <1>2, <1>3, <1>4 DEF ReverseStep

\* The steps of the webhook keep DraftInv.
LEMMA WebhookStepDraft ==
  ASSUME Inv, Inv', DraftInv, NEW r \in Requests, WebhookStep(r)
  PROVE  DraftInv'
<1>1. ASSUME NEW pi \in Intents, ReconcileRead(r, pi) \/ FailedRead(r, pi)
      PROVE  DraftInv'
  <2> DEFINE h == [Idle EXCEPT !.op = "hook", !.inv = intent[pi].inv, !.intent = pi,
                               !.amount = intent[pi].amount, !.seen = invoice[intent[pi].inv]]
             f == [Idle EXCEPT !.op = "hookFailed", !.inv = intent[pi].inv, !.intent = pi,
                               !.amount = intent[pi].amount]
  <2>1. h.op = "hook" /\ f.op = "hookFailed"
    BY DEF Idle
  <2>2. (Begin(r, h) \/ Begin(r, f)) /\ UNCHANGED <<invoice, payment>>
    BY <1>1 DEF ReconcileRead, FailedRead
  <2> HIDE DEF h, f
  <2> QED
    BY <2>1, <2>2, DraftInvHandler DEF Reversing
<1>2. ASSUME ReconcileCheck(r)
      PROVE  DraftInv'
  <2>1. UNCHANGED <<invoice, payment>> /\ NoNewDraft /\ NoDraftPayment
    BY <1>2 DEF ReconcileCheck, NoNewDraft, NoDraftPayment
  <2>2. CASE Finish(r)
    BY <2>1, <2>2, DraftInvFinish
  <2>3. CASE Begin(r, [req[r] EXCEPT !.op = "hookNew"])
    <3>1. [req[r] EXCEPT !.op = "hookNew"].op = "hookNew"
      BY DEF Inv, TypeOK, Request
    <3> QED
      BY <2>1, <2>3, <3>1, DraftInvHandler DEF Reversing
  <2> QED
    BY <1>2, <2>2, <2>3 DEF ReconcileCheck
<1>3. ASSUME NEW p \in Payments, ReconcileCommit(r, p)
      PROVE  DraftInv'
  <2> DEFINE i == req[r].inv
  <2>1. i \in Invoices
    BY <1>3 DEF ReconcileCommit, Inv, HandlersOK, HandlerOK, OnInvoice
  <2>2. invoice'[i].status # "draft" /\ \A j \in Invoices \ {i} : invoice'[j] = invoice[j]
    BY <1>3, <2>1 DEF ReconcileCommit, Inv, TypeOK, InvoiceRow
  <2>3. payment'[p].inv = i /\ \A q \in Payments \ {p} : payment'[q] = payment[q]
    BY <1>3 DEF ReconcileCommit, InsertPayment, Inv, TypeOK
  <2>4. NoNewDraft /\ NoDraftPayment
    BY <2>2, <2>3 DEF NoNewDraft, NoDraftPayment
  <2> QED
    BY <1>3, <2>4, DraftInvFinish DEF ReconcileCommit
<1>4. ASSUME NEW p \in Payments, FailedCommit(r, p)
      PROVE  DraftInv'
  <2> DEFINE h == [req[r] EXCEPT !.op = "hookFailedHistory", !.pay = p]
  <2>1. payment'[p].status = "failed" /\ \A q \in Payments \ {p} : payment'[q] = payment[q]
    BY <1>4 DEF FailedCommit, InsertPayment, Inv, TypeOK
  <2>2. NoNewDraft /\ NoDraftPayment
    BY <1>4, <2>1 DEF FailedCommit, NoNewDraft, NoDraftPayment
  <2>3. h.op = "hookFailedHistory"
    BY DEF Inv, TypeOK, Request
  <2>4. req'[r] = h /\ \A q \in Requests \ {r} : req'[q] = req[q]
    BY <1>4 DEF FailedCommit, Begin, Inv, TypeOK
  <2>5. HandlerLeftDraft(r)'
    BY <2>3, <2>4 DEF HandlerLeftDraft, Reversing
  <2> QED
    BY <2>2, <2>4, <2>5, DraftInvKept
<1>5. ASSUME FailedHistory(r)
      PROVE  DraftInv'
  <2>1. payment' = [payment EXCEPT ![req[r].pay].history = @ \cup Inserted("failed")]
    BY <1>5 DEF FailedHistory
  <2>2. \A q \in Payments : payment'[q].inv = payment[q].inv /\ payment'[q].status = payment[q].status
    BY <2>1 DEF Inv, TypeOK, PaymentRow
  <2>3. NoNewDraft /\ NoDraftPayment
    BY <1>5, <2>2 DEF FailedHistory, NoNewDraft, NoDraftPayment
  <2> QED
    BY <1>5, <2>3, DraftInvFinish DEF FailedHistory
<1> QED
  BY <1>1, <1>2, <1>3, <1>4, <1>5 DEF WebhookStep

\* The remaining steps keep DraftInv.
LEMMA OtherStepDraft ==
  ASSUME Inv, Inv', DraftInv, StripeStep \/ StandaloneStep \/ (\E r \in Requests : Abandon(r))
  PROVE  DraftInv'
<1>1. CASE StripeStep
  BY <1>1 DEF StripeStep, CreatePaymentIntent, CardFails, CardSucceeds, DraftInv, DraftUntouched,
              HandlerLeftDraft, LeftDraft
<1>2. ASSUME NEW p \in Payments, NEW c \in Customers, NEW a \in Amounts, RecordStandalone(p, c, a)
      PROVE  DraftInv'
  <2>1. payment'[p].inv = None /\ \A q \in Payments \ {p} : payment'[q] = payment[q]
    BY <1>2 DEF RecordStandalone, InsertPayment, Inv, TypeOK
  <2>2. UNCHANGED <<invoice, req>>
    BY <1>2 DEF RecordStandalone
  <2>3. DraftUntouched'
    BY <2>1, <2>2, NoneAssumption DEF DraftInv, DraftUntouched
  <2> QED
    BY <2>2, <2>3 DEF DraftInv, HandlerLeftDraft, LeftDraft
<1>3. ASSUME NEW r \in Requests, Abandon(r)
      PROVE  DraftInv'
  <2>1. NoNewDraft /\ NoDraftPayment
    BY <1>3 DEF Abandon, NoNewDraft, NoDraftPayment
  <2> QED
    BY <1>3, <2>1, DraftInvFinish DEF Abandon
<1> QED
  BY <1>1, <1>2, <1>3 DEF StandaloneStep

\* DraftInv holds initially, and every step keeps it.
LEMMA InitDraft == Init => DraftInv
  BY NoneAssumption DEF Init, DraftInv, DraftUntouched, HandlerLeftDraft, Unused, Idle, Reversing

LEMMA NextDraft == CarefulStaff /\ Inv /\ Inv' /\ DraftInv /\ [Next]_vars => DraftInv'
<1> SUFFICES ASSUME CarefulStaff, Inv, Inv', DraftInv, [Next]_vars PROVE DraftInv'
  OBVIOUS
<1>1. CASE UNCHANGED vars
  BY <1>1 DEF vars, DraftInv, DraftUntouched, HandlerLeftDraft, LeftDraft
<1>2. CASE Next
  BY <1>2, InvoiceStepDraft, RecordStepDraft, ReverseStepDraft, WebhookStepDraft, OtherStepDraft DEF Next
<1> QED
  BY <1>1, <1>2

\* However handlers and webhooks interleave, an invoice that is a draft has
\* had no money recorded on it, as long as the staff void only payments the
\* invoice page offers to void: no handler that read the invoice earlier
\* brings the draft status back after money was recorded.
THEOREM DraftsUntouched ==
  ASSUME CarefulStaff
  PROVE  Spec => []DraftUntouched
<1>1. DraftInv => DraftUntouched
  BY DEF DraftInv
<1>2. Inv /\ Inv' /\ DraftInv /\ [Next]_vars => DraftInv'
  BY NextDraft
<1> QED
  BY <1>1, <1>2, Invariance, InitDraft, PTL DEF Spec
-----------------------------------------------------------------------------
(***************************************************************************)
(* InvoicePayments implements Books: as long as no two handlers overlap on *)
(* an invoice and the staff do what the invoice page offers, every commit  *)
(* of a handler moves amount_paid and lifetime_value by exactly what it    *)
(* changes the payment by.                                                 *)
(*                                                                         *)
(* The inductive invariant.  Its heart is that what a handler in flight    *)
(* read is still so: no other handler is on its invoice.                   *)
(***************************************************************************)
RowBooked(p) ==
    Booked(p) =>
        /\ payment[p].amount > 0
        /\ payment[p].refunded <= payment[p].amount
        /\ payment[p].status = "succeeded" => payment[p].refunded = 0

ReadStillHolds(r) ==
    /\ req[r].op \in {"record"} \cup Hooks => req[r].amount > 0
    /\ req[r].op \in {"record", "voidPaymentTx", "refundTx"} /\ req[r].inv # None =>
           req[r].seen.amountPaid = invoice[req[r].inv].amountPaid
    /\ req[r].op \in {"voidPayment", "voidPaymentTx"} => payment[req[r].pay].status = "succeeded"
    /\ req[r].op \in {"refund", "refundTx"} =>
           /\ payment[req[r].pay].status \in Active
           /\ req[r].amount > 0
           /\ req[r].refunded = payment[req[r].pay].refunded + req[r].amount
           /\ req[r].refunded <= payment[req[r].pay].amount

Apart == \A r, q \in Requests : r # q /\ InFlight(r) /\ InFlight(q) => req[r].inv # req[q].inv

BooksInv ==
    /\ \A p \in Payments : RowBooked(p)
    /\ \A pi \in Intents : intent[pi].inv # None => intent[pi].amount > 0
    /\ Apart
    /\ \A r \in Requests : ReadStillHolds(r)

\* What handler q has read is not touched by this step.
Undisturbed(q) ==
    /\ req'[q] = req[q]
    /\ InFlight(q) /\ req[q].inv # None =>
           invoice'[req[q].inv].amountPaid = invoice[req[q].inv].amountPaid
    /\ req[q].op \in Reversing =>
           /\ payment'[req[q].pay].status = payment[req[q].pay].status
           /\ payment'[req[q].pay].refunded = payment[req[q].pay].refunded
           /\ payment'[req[q].pay].amount = payment[req[q].pay].amount

\* A step of handler r keeps the invariant if it disturbs no other handler.
LEMMA BooksInvKept ==
  ASSUME Inv, Inv', BooksInv,
         NEW r \in Requests, \A q \in Requests \ {r} : Undisturbed(q),
         \A p \in Payments : RowBooked(p)', UNCHANGED intent,
         ReadStillHolds(r)',
         InFlight(r)' => \A q \in Requests \ {r} : InFlight(q) => req[q].inv # req'[r].inv
  PROVE  BooksInv'
<1>1. Apart'
  <2> SUFFICES ASSUME NEW s \in Requests, NEW q \in Requests, s # q, InFlight(s)', InFlight(q)'
               PROVE  req'[s].inv # req'[q].inv
    BY DEF Apart
  <2>1. CASE s = r
    BY <2>1 DEF Undisturbed, InFlight
  <2>2. CASE q = r
    BY <2>2 DEF Undisturbed, InFlight
  <2>3. CASE s # r /\ q # r
    BY <2>3 DEF Undisturbed, InFlight, BooksInv, Apart
  <2> QED
    BY <2>1, <2>2, <2>3
<1>2. ASSUME NEW q \in Requests PROVE ReadStillHolds(q)'
  <2>1. CASE q = r
    BY <2>1
  <2>2. CASE q # r
    <3>1. Undisturbed(q) /\ ReadStillHolds(q)
      BY <2>2 DEF BooksInv
    <3>2. req'[q] = req[q]
      BY <3>1 DEF Undisturbed
    <3> QED
      BY <3>1, <3>2 DEF Undisturbed, ReadStillHolds, InFlight, Reversing
  <2> QED
    BY <2>1, <2>2
<1> QED
  BY <1>1, <1>2 DEF BooksInv

\* A step that writes nothing but req.
LEMMA BooksInvHandler ==
  ASSUME Inv, Inv', BooksInv, UNCHANGED <<invoice, payment, intent>>,
         NEW r \in Requests, NEW h, Begin(r, h),
         ReadStillHolds(r)',
         h.op = "idle" \/ \A q \in Requests \ {r} : InFlight(q) => req[q].inv # h.inv
  PROVE  BooksInv'
<1>1. req'[r] = h /\ \A q \in Requests \ {r} : req'[q] = req[q]
  BY DEF Begin, Inv, TypeOK
<1>2. \A q \in Requests \ {r} : Undisturbed(q)
  BY <1>1 DEF Undisturbed
<1>3. \A p \in Payments : RowBooked(p)'
  BY DEF BooksInv, RowBooked, Booked
<1>4. InFlight(r)' => \A q \in Requests \ {r} : InFlight(q) => req[q].inv # req'[r].inv
  BY <1>1 DEF InFlight
<1> QED
  BY <1>2, <1>3, <1>4, BooksInvKept

\* A handler that is on an invoice stays apart from the others.
LEMMA StaysApart ==
  ASSUME BooksInv, NEW r \in Requests, InFlight(r)
  PROVE  \A q \in Requests \ {r} : InFlight(q) => req[q].inv # req[r].inv
  BY DEF BooksInv, Apart

\* A handler that starts is apart from the others.
LEMMA StartsApart ==
  ASSUME OneAtATime, NEW r \in Requests, NEW i, MayStart(r, i)
  PROVE  \A q \in Requests \ {r} : InFlight(q) => req[q].inv # i
  BY DEF MayStart

\* A handler that commits on its invoice and its payment disturbs no other.
LEMMA CommitUndisturbing ==
  ASSUME Inv, BooksInv, NEW r \in Requests, InFlight(r), Finish(r),
         \A i \in Invoices : i # req[r].inv => invoice'[i].amountPaid = invoice[i].amountPaid,
         \A p \in Payments : payment[p].status # "unused" /\ payment[p].inv # req[r].inv => payment'[p] = payment[p]
  PROVE  /\ \A q \in Requests \ {r} : Undisturbed(q)
         /\ ReadStillHolds(r)'
         /\ ~ InFlight(r)'
<1>1. req'[r] = Idle /\ \A q \in Requests \ {r} : req'[q] = req[q]
  BY DEF Finish, Inv, TypeOK
<1>2. ASSUME NEW q \in Requests \ {r} PROVE Undisturbed(q)
  <2>1. req'[q] = req[q] /\ HandlerOK(q) /\ req[q] \in Request
    BY <1>1 DEF Inv, HandlersOK, TypeOK
  <2>2. InFlight(q) => req[q].inv # req[r].inv
    BY StaysApart
  <2>3. InFlight(q) /\ req[q].inv # None => invoice'[req[q].inv].amountPaid = invoice[req[q].inv].amountPaid
    BY <2>1, <2>2 DEF Request
  <2>4. req[q].op \in Reversing => payment'[req[q].pay] = payment[req[q].pay]
    BY <2>1, <2>2 DEF HandlerOK, InFlight, Reversing
  <2> QED
    BY <2>1, <2>3, <2>4 DEF Undisturbed
<1>3. ReadStillHolds(r)' /\ ~ InFlight(r)'
  BY <1>1 DEF ReadStillHolds, InFlight, Idle, Hooks
<1> QED
  BY <1>2, <1>3

-----------------------------------------------------------------------------
(***************************************************************************)
(* The steps of the books.                                                 *)
(***************************************************************************)
SameBooks(p) ==
    /\ Booked(p)' <=> Booked(p)
    /\ Booked(p) => payment'[p].inv = payment[p].inv /\ payment'[p].cust = payment[p].cust
    /\ Net(p)' = Net(p)

OnlyPayment(p) == \A q \in Payments \ {p} : payment'[q] = payment[q]

\* amount_paid of invoice i, and of no other, grows or shrinks by a.
PaidMore(i, a) ==
    \A j \in Invoices : invoice'[j].amountPaid = IF j = i THEN invoice[j].amountPaid + a ELSE invoice[j].amountPaid
PaidLess(i, a) ==
    \A j \in Invoices : invoice'[j].amountPaid =
        IF j = i THEN AtLeastZero(invoice[j].amountPaid - a) ELSE invoice[j].amountPaid

\* A payment row that is left alone is the same in the books.
LEMMA UnchangedBooks ==
  ASSUME NEW p \in Payments, payment'[p] = payment[p]
  PROVE  SameBooks(p)
  BY DEF SameBooks, Booked, Net, Refundable

\* A step that moves no money is a stutter of the books.
LEMMA BooksStutter ==
  ASSUME \A p \in Payments : SameBooks(p),
         \A i \in Invoices : invoice'[i].amountPaid = invoice[i].amountPaid,
         UNCHANGED lifetimeValue
  PROVE  UNCHANGED Ledger!vars
<1>1. [p \in Payments |-> IF Booked(p) THEN payment[p].inv ELSE None]'
      = [p \in Payments |-> IF Booked(p) THEN payment[p].inv ELSE None]
  BY DEF SameBooks
<1>2. [p \in Payments |-> IF Booked(p) THEN payment[p].cust ELSE None]'
      = [p \in Payments |-> IF Booked(p) THEN payment[p].cust ELSE None]
  BY DEF SameBooks
<1>3. [p \in Payments |-> Net(p)]' = [p \in Payments |-> Net(p)]
  BY DEF SameBooks
<1>4. [i \in Invoices |-> invoice[i].amountPaid]' = [i \in Invoices |-> invoice[i].amountPaid]
  OBVIOUS
<1> QED
  BY <1>1, <1>2, <1>3, <1>4 DEF Ledger!vars

\* A payment that is inserted is a Collect of the books.
LEMMA BooksCollect ==
  ASSUME Inv, NEW p \in Payments, NEW i \in Invoices \cup {None}, NEW c \in Customers, NEW a \in Nat, a > 0,
         payment[p].status = "unused",
         payment'[p].status = "succeeded", payment'[p].inv = i, payment'[p].cust = c,
         payment'[p].amount = a, payment'[p].refunded = 0,
         OnlyPayment(p), PaidMore(i, a),
         CreditCustomer(c, a)
  PROVE  Ledger!Next
<1> DEFINE account == [q \in Payments |-> IF Booked(q) THEN payment[q].inv ELSE None]
           holder  == [q \in Payments |-> IF Booked(q) THEN payment[q].cust ELSE None]
           net     == [q \in Payments |-> Net(q)]
           paid    == [j \in Invoices |-> invoice[j].amountPaid]
<1>1. /\ ~ Booked(p) /\ Net(p) = 0
      /\ Booked(p)' /\ Net(p)' = a
  BY DEF Booked, Net, Collected, Refundable
<1>2. \A q \in Payments \ {p} : SameBooks(q)
  BY UnchangedBooks DEF OnlyPayment
<1>3. holder[p] = None
  BY <1>1
<1>4. holder' = [holder EXCEPT ![p] = c] /\ account' = [account EXCEPT ![p] = i]
  BY <1>1, <1>2 DEF SameBooks
<1>5. net' = [net EXCEPT ![p] = net'[p]] /\ net'[p] - net[p] = a /\ net'[p] > 0
  <2>1. net[p] = 0 /\ net'[p] = a
    BY <1>1
  <2>2. \A q \in Payments \ {p} : net'[q] = net[q]
    BY <1>2 DEF SameBooks
  <2>3. net' = [net EXCEPT ![p] = net'[p]]
    BY <2>2
  <2> HIDE DEF net
  <2> QED
    BY <2>1, <2>3
<1>6. paid' = IF i = None THEN paid ELSE [paid EXCEPT ![i] = Ledger!Move(@, a)]
  BY NoneAssumption DEF Inv, TypeOK, InvoiceRow, Ledger!Move, PaidMore
<1>7. lifetimeValue' = [lifetimeValue EXCEPT ![c] = Ledger!Move(@, a)]
  <2>1. Ledger!Move(lifetimeValue[c], a) = lifetimeValue[c] + a
    BY DEF Inv, TypeOK, Ledger!Move
  <2> QED
    BY <2>1 DEF CreditCustomer
<1>8. Ledger!Post(p, i, c)
  BY <1>5, <1>6, <1>7 DEF Ledger!Post
<1>9. Ledger!Collect(p, i, c)
  BY <1>3, <1>4, <1>5, <1>8 DEF Ledger!Collect
<1> QED
  BY <1>9 DEF Ledger!Next

\* A payment that is voided or refunded is a GiveBack of the books.
LEMMA BooksGiveBack ==
  ASSUME Inv, NEW p \in Payments, NEW a \in Nat, a > 0,
         Booked(p), Booked(p)',
         payment'[p].inv = payment[p].inv, payment'[p].cust = payment[p].cust,
         Net(p) \in Nat, Net(p)' \in Nat, Net(p)' = Net(p) - a,
         OnlyPayment(p), PaidLess(payment[p].inv, a),
         lifetimeValue' = [lifetimeValue EXCEPT ![payment[p].cust] = AtLeastZero(@ - a)]
  PROVE  Ledger!Next
<1> DEFINE account == [q \in Payments |-> IF Booked(q) THEN payment[q].inv ELSE None]
           holder  == [q \in Payments |-> IF Booked(q) THEN payment[q].cust ELSE None]
           net     == [q \in Payments |-> Net(q)]
           paid    == [j \in Invoices |-> invoice[j].amountPaid]
           i == payment[p].inv
           c == payment[p].cust
<1>1. i \in Invoices \cup {None} /\ c \in Customers
  BY DEF Inv, TypeOK, PaymentRow, RowsOK, RowOK, Booked
<1>2. \A q \in Payments \ {p} : SameBooks(q)
  BY UnchangedBooks DEF OnlyPayment
<1>3. holder[p] = c /\ account[p] = i /\ holder[p] # None
  BY <1>1, NoneAssumption
<1>4. holder' = holder /\ account' = account
  BY <1>2 DEF SameBooks
<1>5. net' = [net EXCEPT ![p] = net'[p]] /\ net'[p] - net[p] = -a /\ 0 <= net'[p] /\ net'[p] < net[p]
  <2>1. net[p] \in Nat /\ net'[p] \in Nat /\ net'[p] = net[p] - a
    OBVIOUS
  <2>2. \A q \in Payments \ {p} : net'[q] = net[q]
    BY <1>2 DEF SameBooks
  <2>3. net' = [net EXCEPT ![p] = net'[p]]
    BY <2>2
  <2> HIDE DEF net
  <2> QED
    BY <2>1, <2>3
<1>6. paid' = IF i = None THEN paid ELSE [paid EXCEPT ![i] = Ledger!Move(@, -a)]
  <2>1. \A j \in Invoices : paid[j] \in Nat /\ Ledger!Move(paid[j], -a) = AtLeastZero(invoice[j].amountPaid - a)
    BY DEF Inv, TypeOK, InvoiceRow, Ledger!Move, AtLeastZero
  <2>2. \A j \in Invoices : paid'[j] = IF j = i THEN Ledger!Move(paid[j], -a) ELSE paid[j]
    BY <2>1 DEF PaidLess
  <2>3. CASE i = None
    BY <2>2, <2>3, NoneAssumption
  <2>4. CASE i # None
    BY <1>1, <2>2, <2>4
  <2> QED
    BY <2>3, <2>4
<1>7. lifetimeValue' = [lifetimeValue EXCEPT ![c] = Ledger!Move(@, -a)]
  BY <1>1 DEF Inv, TypeOK, Ledger!Move, AtLeastZero
<1>8. Ledger!GiveBack(p)
  <2>1. holder[p] # None
    BY <1>3
  <2>2. 0 <= net'[p] /\ net'[p] < net[p]
    BY <1>5
  <2>3. UNCHANGED <<account, holder>>
    BY <1>4
  <2> QED
    BY <2>1, <2>2, <2>3, <1>3, <1>5, <1>6, <1>7 DEF Ledger!GiveBack, Ledger!Post
<1> QED
  BY <1>8 DEF Ledger!Next

-----------------------------------------------------------------------------
(***************************************************************************)
(* Every step keeps BooksInv, and is a step or a stutter of the books.     *)
(***************************************************************************)
BooksStep == BooksInv' /\ [Ledger!Next]_(Ledger!vars)

\* A step that writes no row.
LEMMA HandlerOnlyBooks ==
  ASSUME Inv, Inv', BooksInv, UNCHANGED <<invoice, payment, lifetimeValue, intent>>,
         NEW r \in Requests, NEW h, Begin(r, h),
         ReadStillHolds(r)',
         h.op = "idle" \/ \A q \in Requests \ {r} : InFlight(q) => req[q].inv # h.inv
  PROVE  BooksStep
<1>1. BooksInv'
  BY BooksInvHandler
<1>2. UNCHANGED Ledger!vars
  BY UnchangedBooks, BooksStutter
<1> QED
  BY <1>1, <1>2 DEF BooksStep

\* A handler that finishes and writes no row.
LEMMA FinishBooks ==
  ASSUME Inv, Inv', BooksInv, UNCHANGED <<invoice, payment, lifetimeValue, intent>>,
         NEW r \in Requests, Finish(r)
  PROVE  BooksStep
<1>1. Begin(r, Idle) /\ req'[r] = Idle
  BY DEF Finish, Begin, Inv, TypeOK
<1>2. ReadStillHolds(r)' /\ Idle.op = "idle"
  BY <1>1 DEF ReadStillHolds, Idle, Hooks
<1> QED
  BY <1>1, <1>2, HandlerOnlyBooks

\* A commit that moves no money: the status or the total of the handler's own
\* invoice.
LEMMA InvoiceWriteBooks ==
  ASSUME Inv, Inv', BooksInv, UNCHANGED <<payment, lifetimeValue, intent>>,
         NEW r \in Requests, InFlight(r), Finish(r),
         \A i \in Invoices : invoice'[i].amountPaid = invoice[i].amountPaid
  PROVE  BooksStep
<1>1. \A p \in Payments : RowBooked(p)'
  BY DEF BooksInv, RowBooked, Booked
<1>2. BooksInv'
  BY <1>1, CommitUndisturbing, BooksInvKept
<1>3. UNCHANGED Ledger!vars
  BY UnchangedBooks, BooksStutter
<1> QED
  BY <1>2, <1>3 DEF BooksStep

\* The steps on an invoice.
LEMMA InvoiceStepBooks ==
  ASSUME OneAtATime, Inv, Inv', BooksInv, NEW r \in Requests, InvoiceStep(r)
  PROVE  BooksStep
<1>1. ASSUME NEW i \in Invoices, UpdateRead(r, i) \/ SendRead(r, i) \/ VoidInvoiceRead(r, i)
      PROVE  BooksStep
  <2>1. PICK op \in {"update", "send", "voidInvoice"} : Begin(r, [Idle EXCEPT !.op = op, !.inv = i])
    BY <1>1 DEF UpdateRead, SendRead, VoidInvoiceRead
  <2> DEFINE h == [Idle EXCEPT !.op = op, !.inv = i]
  <2>2. h.op = op /\ h.inv = i
    BY DEF Idle
  <2>3. Begin(r, h) /\ UNCHANGED <<invoice, payment, lifetimeValue, intent>> /\ MayStart(r, i)
    BY <1>1, <2>1 DEF UpdateRead, SendRead, VoidInvoiceRead
  <2> HIDE DEF h
  <2>4. ReadStillHolds(r)'
    BY <2>2, <2>3 DEF ReadStillHolds, Begin, Inv, TypeOK, Hooks
  <2> QED
    BY <2>2, <2>3, <2>4, StartsApart, HandlerOnlyBooks
<1>2. ASSUME NEW t \in Totals, UpdateWrite(r, t)
      PROVE  BooksStep
  <2>1. \A i \in Invoices : invoice'[i].amountPaid = invoice[i].amountPaid
    BY <1>2 DEF UpdateWrite, Inv, TypeOK, InvoiceRow
  <2> QED
    BY <1>2, <2>1, InvoiceWriteBooks DEF UpdateWrite, InFlight
<1>3. ASSUME SendWrite(r) \/ VoidInvoiceWrite(r)
      PROVE  BooksStep
  <2>1. \A i \in Invoices : invoice'[i].amountPaid = invoice[i].amountPaid
    BY <1>3 DEF SendWrite, VoidInvoiceWrite, Inv, TypeOK, InvoiceRow
  <2> QED
    BY <1>3, <2>1, InvoiceWriteBooks DEF SendWrite, VoidInvoiceWrite, InFlight
<1>4. ASSUME VoidInvoiceCheck(r)
      PROVE  BooksStep
  <2> DEFINE h == [req[r] EXCEPT !.op = "voidInvoiceChecked"]
  <2>1. UNCHANGED <<invoice, payment, lifetimeValue, intent>> /\ InFlight(r) /\ (Finish(r) \/ Begin(r, h))
    BY <1>4 DEF VoidInvoiceCheck, InFlight
  <2>2. h.op = "voidInvoiceChecked" /\ h.inv = req[r].inv
    BY DEF Inv, TypeOK, Request
  <2> HIDE DEF h
  <2>3. CASE Finish(r)
    BY <2>1, <2>3, FinishBooks
  <2>4. CASE Begin(r, h)
    <3>1. ReadStillHolds(r)'
      BY <2>2, <2>4 DEF ReadStillHolds, Begin, Inv, TypeOK, Hooks
    <3> QED
      BY <2>1, <2>2, <2>4, <3>1, StaysApart, HandlerOnlyBooks
  <2> QED
    BY <2>1, <2>3, <2>4
<1> QED
  BY <1>1, <1>2, <1>3, <1>4 DEF InvoiceStep

\* A payment that is inserted by a handler on its invoice.
LEMMA CollectBooks ==
  ASSUME Inv, Inv', BooksInv, NEW r \in Requests, req[r].op \in {"record", "hookNew"}, Finish(r),
         NEW p \in Payments, NEW history, NEW pi,
         InsertPayment(p, "succeeded", history, req[r].amount, req[r].inv, CustomerOf[req[r].inv], pi),
         NEW paid, NEW status, paid = invoice[req[r].inv].amountPaid + req[r].amount,
         invoice' = [invoice EXCEPT ![req[r].inv].amountPaid = paid, ![req[r].inv].status = status],
         CreditCustomer(CustomerOf[req[r].inv], req[r].amount),
         UNCHANGED intent
  PROVE  BooksStep
<1> DEFINE i == req[r].inv
           a == req[r].amount
<1>1. i \in Invoices /\ CustomerOf[i] \in Customers /\ a \in Nat /\ a > 0 /\ InFlight(r)
  BY CustomerAssumption DEF Inv, HandlersOK, HandlerOK, OnInvoice, TypeOK, Request, BooksInv, ReadStillHolds,
                            Hooks, InFlight
<1>2. /\ payment[p].status = "unused" /\ payment'[p].status = "succeeded" /\ payment'[p].inv = i
      /\ payment'[p].cust = CustomerOf[i] /\ payment'[p].amount = a /\ payment'[p].refunded = 0
      /\ OnlyPayment(p)
  BY DEF InsertPayment, Inv, TypeOK, OnlyPayment
<1>3. PaidMore(i, a)
  BY <1>1 DEF Inv, TypeOK, InvoiceRow, PaidMore
<1>4. Ledger!Next
  BY <1>1, <1>2, <1>3, BooksCollect
<1>5. \A q \in Payments : RowBooked(q)'
  BY <1>1, <1>2 DEF RowBooked, Booked, BooksInv, OnlyPayment
<1>6. BooksInv'
  <2>1. \A j \in Invoices : j # i => invoice'[j].amountPaid = invoice[j].amountPaid
    BY <1>3 DEF PaidMore
  <2>2. \A q \in Payments : payment[q].status # "unused" /\ payment[q].inv # i => payment'[q] = payment[q]
    BY <1>2 DEF OnlyPayment
  <2> QED
    BY <1>1, <1>5, <2>1, <2>2, CommitUndisturbing, BooksInvKept
<1> QED
  BY <1>4, <1>6 DEF BooksStep

\* The steps that record a payment.
LEMMA RecordStepBooks ==
  ASSUME OneAtATime, Inv, Inv', BooksInv, NEW r \in Requests, RecordStep(r)
  PROVE  BooksStep
<1>1. ASSUME NEW i \in Invoices, NEW a \in Amounts, RecordRead(r, i, a)
      PROVE  BooksStep
  <2> DEFINE h == [Idle EXCEPT !.op = "record", !.inv = i, !.amount = a, !.seen = invoice[i]]
  <2>1. h.op = "record" /\ h.inv = i /\ h.amount = a /\ h.seen = invoice[i] /\ a > 0
    BY MoneyAssumption DEF Idle
  <2>2. Begin(r, h) /\ UNCHANGED <<invoice, payment, lifetimeValue, intent>> /\ MayStart(r, i)
    BY <1>1 DEF RecordRead
  <2> HIDE DEF h
  <2>3. ReadStillHolds(r)'
    BY <2>1, <2>2 DEF ReadStillHolds, Begin, Inv, TypeOK
  <2> QED
    BY <2>1, <2>2, <2>3, StartsApart, HandlerOnlyBooks
<1>2. ASSUME NEW p \in Payments, RecordCommit(r, p)
      PROVE  BooksStep
  <2>1. req[r].op = "record" /\ Finish(r)
    BY <1>2 DEF RecordCommit
  <2>2. req[r].inv \in Invoices /\ req[r].inv # None /\ ReadStillHolds(r)
    BY <2>1, NoneAssumption DEF Inv, HandlersOK, HandlerOK, OnInvoice, BooksInv
  <2>3. RecordedPaid(r) = invoice[req[r].inv].amountPaid + req[r].amount
    BY <2>1, <2>2 DEF ReadStillHolds, RecordedPaid
  <2> QED
    BY <1>2, <2>1, <2>3, CollectBooks DEF RecordCommit
<1>3. ASSUME RecordRollback(r)
      PROVE  BooksStep
  BY <1>3, FinishBooks DEF RecordRollback
<1> QED
  BY <1>1, <1>2, <1>3 DEF RecordStep

\* The transaction of a reversal opens: it reads the invoice it will write.
LEMMA BeginTxBooks ==
  ASSUME Inv, Inv', BooksInv, NEW r \in Requests, NEW op, NEW txOp,
         <<op, txOp>> \in {<<"voidPayment", "voidPaymentTx">>, <<"refund", "refundTx">>},
         BeginTx(r, op, txOp)
  PROVE  BooksStep
<1> DEFINE seen == IF req[r].inv = None THEN Unread ELSE invoice[req[r].inv]
           h == [req[r] EXCEPT !.op = txOp, !.seen = seen]
<1>1. req[r] \in Request /\ ReadStillHolds(r) /\ InFlight(r) /\ req[r].op = op
  BY DEF Inv, TypeOK, BooksInv, BeginTx, InFlight
<1>2. /\ h.op = txOp /\ h.inv = req[r].inv /\ h.pay = req[r].pay
      /\ h.amount = req[r].amount /\ h.refunded = req[r].refunded /\ h.seen = seen
  BY <1>1 DEF Request
<1>3. Begin(r, h) /\ UNCHANGED <<invoice, payment, lifetimeValue, intent>>
  BY DEF BeginTx
<1> HIDE DEF h
<1>4. req'[r] = h
  BY <1>3 DEF Begin, Inv, TypeOK
<1>5. ReadStillHolds(r)'
  <2>1. CASE op = "voidPayment" /\ txOp = "voidPaymentTx"
    BY <1>1, <1>2, <1>3, <1>4, <2>1 DEF ReadStillHolds, Hooks
  <2>2. CASE op = "refund" /\ txOp = "refundTx"
    BY <1>1, <1>2, <1>3, <1>4, <2>2 DEF ReadStillHolds, Hooks
  <2> QED
    BY <2>1, <2>2
<1> QED
  BY <1>1, <1>2, <1>3, <1>5, StaysApart, HandlerOnlyBooks

\* A reversal that commits gives the amount back.
LEMMA GiveBackBooks ==
  ASSUME Inv, Inv', BooksInv, NEW r \in Requests, req[r].op \in {"voidPaymentTx", "refundTx"}, Finish(r),
         NEW p \in Payments, p = req[r].pay,
         OnlyPayment(p), SamePayment(p), RowBooked(p)', Booked(p)',
         NEW a \in Nat, a > 0,
         Net(p) \in Nat, Net(p)' \in Nat, Net(p)' = Net(p) - a,
         ReverseAmountFromInvoice(r, a), UNCHANGED intent
  PROVE  BooksStep
<1> DEFINE i == req[r].inv
<1>1. /\ payment[p].inv = i /\ i \in Invoices \cup {None}
      /\ ReadStillHolds(r) /\ InFlight(r) /\ Booked(p)
  BY DEF Inv, HandlersOK, HandlerOK, Reversing, TypeOK, Request, BooksInv, InFlight, ReadStillHolds, Booked, Active
<1>2. PaidLess(i, a)
  <2> DEFINE newPaid == AtLeastZero(req[r].seen.amountPaid - a)
             newStatus == StatusAfterPayment(req[r].seen.total, newPaid, req[r].seen.status)
  <2>1. CASE i = None
    BY <2>1, NoneAssumption DEF ReverseAmountFromInvoice, PaidLess
  <2>2. CASE i # None
    <3>1. req[r].seen.amountPaid = invoice[i].amountPaid
      BY <1>1, <2>2 DEF ReadStillHolds
    <3>2. invoice' = [invoice EXCEPT ![i].amountPaid = newPaid, ![i].status = newStatus]
      BY <2>2 DEF ReverseAmountFromInvoice
    <3> HIDE DEF newStatus
    <3>3. \A j \in Invoices : invoice'[j].amountPaid = IF j = i THEN newPaid ELSE invoice[j].amountPaid
      BY <3>2 DEF Inv, TypeOK, InvoiceRow
    <3> QED
      BY <3>1, <3>3 DEF PaidLess
  <2> QED
    BY <2>1, <2>2
<1>3. lifetimeValue' = [lifetimeValue EXCEPT ![payment[p].cust] = AtLeastZero(@ - a)]
  BY DEF ReverseAmountFromInvoice
<1>4. Ledger!Next
  <2>1. PaidLess(payment[p].inv, a) /\ payment'[p].inv = payment[p].inv /\ payment'[p].cust = payment[p].cust
    BY <1>1, <1>2 DEF SamePayment
  <2> QED
    BY <1>1, <1>3, <2>1, BooksGiveBack
<1>5. ASSUME NEW q \in Payments PROVE RowBooked(q)'
  <2>1. CASE q = p
    BY <2>1
  <2>2. CASE q # p
    <3>1. payment'[q] = payment[q] /\ RowBooked(q)
      BY <2>2 DEF OnlyPayment, BooksInv
    <3> QED
      BY <3>1 DEF RowBooked, Booked
  <2> QED
    BY <2>1, <2>2
<1>6. BooksInv'
  <2>1. \A j \in Invoices : j # i => invoice'[j].amountPaid = invoice[j].amountPaid
    BY <1>2 DEF PaidLess
  <2>2. \A q \in Payments : payment[q].status # "unused" /\ payment[q].inv # i => payment'[q] = payment[q]
    BY <1>1 DEF OnlyPayment
  <2> QED
    BY <1>1, <1>5, <2>1, <2>2, CommitUndisturbing, BooksInvKept
<1> QED
  BY <1>4, <1>6 DEF BooksStep

\* The steps that void or refund a payment.
LEMMA ReverseStepBooks ==
  ASSUME CarefulStaff, OneAtATime, Inv, Inv', BooksInv, NEW r \in Requests, ReverseStep(r)
  PROVE  BooksStep
<1>1. ASSUME NEW p \in Payments, VoidPaymentRead(r, p)
      PROVE  BooksStep
  <2> DEFINE h == [Idle EXCEPT !.op = "voidPayment", !.inv = payment[p].inv, !.pay = p,
                             !.from = payment[p].status]
  <2>1. h.op = "voidPayment" /\ h.inv = payment[p].inv /\ h.pay = p
    BY DEF Idle
  <2>2. /\ Begin(r, h) /\ UNCHANGED <<invoice, payment, lifetimeValue, intent>>
        /\ MayStart(r, payment[p].inv) /\ payment[p].status = "succeeded"
    BY <1>1 DEF VoidPaymentRead, CanVoidPayment
  <2> HIDE DEF h
  <2>3. ReadStillHolds(r)'
    BY <2>1, <2>2 DEF ReadStillHolds, Begin, Inv, TypeOK, Hooks
  <2> QED
    BY <2>1, <2>2, <2>3, StartsApart, HandlerOnlyBooks
<1>2. ASSUME NEW p \in Payments, NEW a \in Amounts \cup {Refundable(p)}, a > 0, RefundRead(r, p, a)
      PROVE  BooksStep
  <2> DEFINE h == [Idle EXCEPT !.op = "refund", !.inv = payment[p].inv, !.pay = p, !.from = payment[p].status,
                               !.amount = a, !.refunded = payment[p].refunded + a]
  <2>1. /\ h.op = "refund" /\ h.inv = payment[p].inv /\ h.pay = p
        /\ h.amount = a /\ h.refunded = payment[p].refunded + a
    BY DEF Idle
  <2>2. /\ Begin(r, h) /\ UNCHANGED <<invoice, payment, lifetimeValue, intent>>
        /\ MayStart(r, payment[p].inv) /\ payment[p].status \in Active /\ a <= Refundable(p)
    BY <1>2 DEF RefundRead
  <2>3. payment[p].refunded + a <= payment[p].amount
    BY <1>2, <2>2, MoneyAssumption DEF Refundable, Inv, TypeOK, PaymentRow
  <2> HIDE DEF h
  <2>4. ReadStillHolds(r)'
    BY <1>2, <2>1, <2>2, <2>3 DEF ReadStillHolds, Begin, Inv, TypeOK, Hooks
  <2> QED
    BY <2>1, <2>2, <2>4, StartsApart, HandlerOnlyBooks
<1>3. CASE VoidPaymentBegin(r) \/ RefundBegin(r)
  BY <1>3, BeginTxBooks DEF VoidPaymentBegin, RefundBegin
<1>4. ASSUME VoidPaymentCommit(r)
      PROVE  BooksStep
  <2> PICK p \in Payments : p = req[r].pay
    BY <1>4 DEF VoidPaymentCommit, Inv, HandlersOK, HandlerOK, Reversing
  <2> PICK a \in Nat : a = payment[p].amount
    BY DEF Inv, TypeOK, PaymentRow
  <2>1. /\ payment[p] \in PaymentRow /\ payment[p].status = "succeeded" /\ RowBooked(p)
        /\ req[r].op = "voidPaymentTx"
    BY <1>4 DEF VoidPaymentCommit, Inv, HandlersOK, HandlerOK, Reversing, TypeOK, BooksInv, ReadStillHolds
  <2>2. a > 0 /\ payment[p].refunded = 0
    BY <2>1 DEF RowBooked, Booked, PaymentRow
  <2>3. payment'[p] = Restated(payment[p], req[r].from, "void") /\ OnlyPayment(p)
    BY <1>4, <2>1 DEF VoidPaymentCommit, Inv, TypeOK, OnlyPayment
  <2>4. /\ payment'[p].status = "void" /\ payment'[p].amount = a /\ payment'[p].refunded = 0
        /\ payment'[p].inv = payment[p].inv /\ payment'[p].cust = payment[p].cust
        /\ payment'[p].intent = payment[p].intent /\ payment[p].history \subseteq payment'[p].history
    BY <2>1, <2>2, <2>3 DEF Restated, PaymentRow
  <2>5. SamePayment(p) /\ RowBooked(p)' /\ Booked(p)'
    BY <2>2, <2>4 DEF SamePayment, RowBooked, Booked
  <2>6. Net(p) = a /\ Net(p)' = 0
    BY <2>1, <2>2, <2>4 DEF Net, Collected, Refundable
  <2>7. Net(p) \in Nat /\ Net(p)' \in Nat /\ Net(p)' = Net(p) - a
    BY <2>2, <2>6
  <2> QED
    BY <1>4, <2>1, <2>2, <2>3, <2>5, <2>7, GiveBackBooks DEF VoidPaymentCommit
<1>5. ASSUME RefundCommit(r)
      PROVE  BooksStep
  <2> PICK p \in Payments : p = req[r].pay
    BY <1>5 DEF RefundCommit, Inv, HandlersOK, HandlerOK, Reversing
  <2> PICK a \in Nat : a = req[r].amount
    BY DEF Inv, TypeOK, Request
  <2> PICK status \in {"refunded", "partially_refunded"} : status = RefundedStatus(r)
    BY DEF RefundedStatus
  <2>1. /\ payment[p] \in PaymentRow /\ payment[p].status \in Active /\ RowBooked(p)
        /\ req[r].op = "refundTx" /\ req[r] \in Request
        /\ a > 0 /\ req[r].refunded = payment[p].refunded + a /\ req[r].refunded <= payment[p].amount
    BY <1>5 DEF RefundCommit, Inv, HandlersOK, HandlerOK, Reversing, TypeOK, BooksInv, ReadStillHolds
  <2>2. payment[p].amount \in Nat /\ payment[p].amount > 0 /\ payment[p].refunded \in Nat
    BY <2>1 DEF RowBooked, Booked, PaymentRow, Active, Request
  <2>3. payment'[p] = [Restated(payment[p], req[r].from, status) EXCEPT !.refunded = req[r].refunded] /\ OnlyPayment(p)
    BY <1>5, <2>1 DEF RefundCommit, Inv, TypeOK, OnlyPayment
  <2>5. /\ payment'[p].status = status /\ payment'[p].amount = payment[p].amount
        /\ payment'[p].refunded = req[r].refunded
        /\ payment'[p].inv = payment[p].inv /\ payment'[p].cust = payment[p].cust
        /\ payment'[p].intent = payment[p].intent /\ payment[p].history \subseteq payment'[p].history
    BY <2>1, <2>3 DEF Restated, PaymentRow
  <2>6. SamePayment(p) /\ RowBooked(p)' /\ Booked(p)'
    BY <2>1, <2>2, <2>5 DEF SamePayment, RowBooked, Booked
  <2>7. Net(p) = payment[p].amount - payment[p].refunded
        /\ Net(p)' = payment[p].amount - (payment[p].refunded + a)
    BY <2>1, <2>5 DEF Net, Collected, Active, Refundable
  <2>8. Net(p) \in Nat /\ Net(p)' \in Nat /\ Net(p)' = Net(p) - a
    BY <2>1, <2>2, <2>7
  <2> QED
    BY <1>5, <2>1, <2>2, <2>3, <2>6, <2>8, GiveBackBooks DEF RefundCommit, RefundedNow
<1> QED
  BY <1>1, <1>2, <1>3, <1>4, <1>5 DEF ReverseStep
\* The steps of the Stripe webhook.
LEMMA WebhookStepBooks ==
  ASSUME OneAtATime, Inv, Inv', BooksInv, NEW r \in Requests, WebhookStep(r)
  PROVE  BooksStep
<1>1. ASSUME NEW pi \in Intents, ReconcileRead(r, pi) \/ FailedRead(r, pi)
      PROVE  BooksStep
  <2>1. PICK h : /\ h.op \in {"hook", "hookFailed"} /\ h.inv = intent[pi].inv /\ h.amount = intent[pi].amount
                 /\ Begin(r, h)
    <3>1. CASE ReconcileRead(r, pi)
      BY <3>1 DEF ReconcileRead, Idle
    <3>2. CASE FailedRead(r, pi)
      BY <3>2 DEF FailedRead, Idle
    <3> QED
      BY <1>1, <3>1, <3>2
  <2>2. UNCHANGED <<invoice, payment, lifetimeValue, intent>> /\ MayStart(r, intent[pi].inv)
    BY <1>1 DEF ReconcileRead, FailedRead
  <2>3. intent[pi].amount > 0
    BY <1>1 DEF ReconcileRead, FailedRead, Inv, IntentsOK, BooksInv
  <2>4. ReadStillHolds(r)'
    BY <2>1, <2>3 DEF ReadStillHolds, Begin, Inv, TypeOK
  <2> QED
    BY <2>1, <2>2, <2>4, StartsApart, HandlerOnlyBooks
<1>2. ASSUME ReconcileCheck(r)
      PROVE  BooksStep
  <2> DEFINE h == [req[r] EXCEPT !.op = "hookNew"]
  <2>1. /\ UNCHANGED <<invoice, payment, lifetimeValue, intent>> /\ InFlight(r) /\ (Finish(r) \/ Begin(r, h))
        /\ req[r].op = "hook" /\ ReadStillHolds(r)
    BY <1>2 DEF ReconcileCheck, InFlight, BooksInv
  <2>2. h.op = "hookNew" /\ h.inv = req[r].inv /\ h.amount = req[r].amount
    BY DEF Inv, TypeOK, Request
  <2> HIDE DEF h
  <2>3. CASE Finish(r)
    BY <2>1, <2>3, FinishBooks
  <2>4. CASE Begin(r, h)
    <3>1. ReadStillHolds(r)'
      BY <2>1, <2>2, <2>4 DEF ReadStillHolds, Begin, Inv, TypeOK, Hooks
    <3> QED
      BY <2>1, <2>2, <2>4, <3>1, StaysApart, HandlerOnlyBooks
  <2> QED
    BY <2>1, <2>3, <2>4
<1>3. ASSUME NEW p \in Payments, ReconcileCommit(r, p)
      PROVE  BooksStep
  <2>1. PICK status : invoice' = [invoice EXCEPT ![req[r].inv].amountPaid = ReconciledPaid(r),
                                                 ![req[r].inv].status = status]
    BY <1>3 DEF ReconcileCommit
  <2>2. ReconciledPaid(r) = invoice[req[r].inv].amountPaid + req[r].amount
    BY DEF ReconciledPaid
  <2>3. /\ req[r].op = "hookNew" /\ Finish(r) /\ UNCHANGED intent
        /\ InsertPayment(p, "succeeded", {}, req[r].amount, req[r].inv, CustomerOf[req[r].inv], req[r].intent)
        /\ CreditCustomer(CustomerOf[req[r].inv], req[r].amount)
    BY <1>3 DEF ReconcileCommit
  <2> QED
    BY <2>1, <2>2, <2>3, CollectBooks
<1>4. ASSUME NEW p \in Payments, FailedCommit(r, p)
      PROVE  BooksStep
  <2> DEFINE h == [req[r] EXCEPT !.op = "hookFailedHistory", !.pay = p]
  <2>1. /\ req[r].op = "hookFailed" /\ InFlight(r) /\ ReadStillHolds(r) /\ req[r] \in Request
        /\ Begin(r, h) /\ UNCHANGED <<invoice, lifetimeValue, intent>>
    BY <1>4 DEF FailedCommit, InFlight, BooksInv, Inv, TypeOK
  <2>2. /\ payment[p].status = "unused" /\ payment'[p].status = "failed" /\ OnlyPayment(p)
    BY <1>4 DEF FailedCommit, InsertPayment, Inv, TypeOK, OnlyPayment
  <2>3. ASSUME NEW q \in Payments PROVE SameBooks(q) /\ RowBooked(q)'
    <3>1. CASE q = p
      BY <2>2, <3>1 DEF SameBooks, Booked, Net, Collected, RowBooked
    <3>2. CASE q # p
      <4>1. payment'[q] = payment[q] /\ RowBooked(q)
        BY <2>2, <3>2 DEF OnlyPayment, BooksInv
      <4> QED
        BY <4>1, UnchangedBooks DEF RowBooked, Booked
    <3> QED
      BY <3>1, <3>2
  <2>4. h.op = "hookFailedHistory" /\ h.inv = req[r].inv /\ h.amount = req[r].amount
    BY <2>1 DEF Request
  <2> HIDE DEF h
  <2>5. req'[r] = h /\ \A q \in Requests \ {r} : req'[q] = req[q]
    BY <2>1 DEF Begin, Inv, TypeOK
  <2>6. ReadStillHolds(r)'
    BY <2>1, <2>4, <2>5 DEF ReadStillHolds, Hooks
  <2>7. ASSUME NEW q \in Requests \ {r} PROVE Undisturbed(q)
    <3>1. HandlerOK(q)
      BY DEF Inv, HandlersOK
    <3>2. req[q].op \in Reversing => req[q].pay # p /\ req[q].pay \in Payments
      BY <2>2, <3>1 DEF HandlerOK
    <3> QED
      BY <2>1, <2>2, <2>5, <3>2 DEF Undisturbed, OnlyPayment
  <2>8. BooksInv'
    BY <2>1, <2>3, <2>4, <2>5, <2>6, <2>7, StaysApart, BooksInvKept
  <2>9. UNCHANGED Ledger!vars
    BY <2>1, <2>3, BooksStutter
  <2> QED
    BY <2>8, <2>9 DEF BooksStep
<1>5. ASSUME FailedHistory(r)
      PROVE  BooksStep
  <2>1. InFlight(r) /\ Finish(r) /\ UNCHANGED <<invoice, lifetimeValue, intent>>
    BY <1>5 DEF FailedHistory, InFlight
  <2>2. ASSUME NEW q \in Payments
        PROVE  /\ payment'[q].status = payment[q].status /\ payment'[q].amount = payment[q].amount
               /\ payment'[q].refunded = payment[q].refunded
               /\ payment'[q].inv = payment[q].inv /\ payment'[q].cust = payment[q].cust
    BY <1>5 DEF FailedHistory, Inv, TypeOK, PaymentRow
  <2>3. ASSUME NEW q \in Payments PROVE SameBooks(q) /\ RowBooked(q)'
    <3>1. SameBooks(q)
      BY <2>2 DEF SameBooks, Booked, Net, Refundable
    <3>2. RowBooked(q)'
      BY <2>2 DEF RowBooked, Booked, BooksInv
    <3> QED
      BY <3>1, <3>2
  <2>4. req'[r] = Idle /\ \A q \in Requests \ {r} : req'[q] = req[q]
    BY <2>1 DEF Finish, Inv, TypeOK
  <2>5. ASSUME NEW q \in Requests \ {r} PROVE Undisturbed(q)
    <3>1. req[q].op \in Reversing => req[q].pay \in Payments
      BY DEF Inv, HandlersOK, HandlerOK
    <3> QED
      BY <2>1, <2>2, <2>4, <3>1 DEF Undisturbed
  <2>6. ReadStillHolds(r)' /\ ~ InFlight(r)'
    BY <2>4 DEF ReadStillHolds, InFlight, Idle, Hooks
  <2>7. BooksInv'
    BY <2>1, <2>3, <2>5, <2>6, BooksInvKept
  <2>8. UNCHANGED Ledger!vars
    BY <2>1, <2>3, BooksStutter
  <2> QED
    BY <2>7, <2>8 DEF BooksStep
<1> QED
  BY <1>1, <1>2, <1>3, <1>4, <1>5 DEF WebhookStep

\* A step that leaves every handler alone.
LEMMA NoHandlerBooksInv ==
  ASSUME BooksInv, UNCHANGED req,
         \A i \in Invoices : invoice'[i].amountPaid = invoice[i].amountPaid,
         \A r \in Requests : req[r].op \in Reversing => payment'[req[r].pay] = payment[req[r].pay],
         \A r \in Requests : req[r].inv \in Invoices \cup {None},
         \A p \in Payments : RowBooked(p)',
         \A pi \in Intents : intent'[pi].inv # None => intent'[pi].amount > 0
  PROVE  BooksInv'
<1>1. Apart'
  BY DEF BooksInv, Apart, InFlight
<1>2. ASSUME NEW r \in Requests PROVE ReadStillHolds(r)'
  <2>1. ReadStillHolds(r) /\ req'[r] = req[r] /\ req[r].inv \in Invoices \cup {None}
    BY DEF BooksInv
  <2> QED
    BY <2>1 DEF ReadStillHolds, Reversing
<1> QED
  BY <1>1, <1>2 DEF BooksInv

\* The steps at Stripe.
LEMMA StripeStepBooks ==
  ASSUME Inv, BooksInv, StripeStep
  PROVE  BooksStep
<1>1. PICK pi \in Intents : (\E i \in Invoices : CreatePaymentIntent(pi, i)) \/ CardFails(pi) \/ CardSucceeds(pi)
  BY DEF StripeStep
<1>2. UNCHANGED <<invoice, payment, lifetimeValue, req>>
  BY <1>1 DEF CreatePaymentIntent, CardFails, CardSucceeds
<1>3. ASSUME NEW pj \in Intents, intent'[pj].inv # None PROVE intent'[pj].amount > 0
  <2>1. intent[pj].inv # None => intent[pj].amount > 0
    BY DEF BooksInv
  <2>2. CASE \E i \in Invoices : CreatePaymentIntent(pi, i)
    BY <1>3, <2>1, <2>2 DEF CreatePaymentIntent, Inv, TypeOK, IntentRow
  <2>3. CASE CardFails(pi) \/ CardSucceeds(pi)
    BY <1>3, <2>1, <2>3 DEF CardFails, CardSucceeds, Inv, TypeOK, IntentRow
  <2> QED
    BY <1>1, <2>2, <2>3
<1>4. \A p \in Payments : RowBooked(p)' /\ SameBooks(p)
  BY <1>2, UnchangedBooks DEF BooksInv, RowBooked, Booked
<1>5. BooksInv'
  BY <1>2, <1>3, <1>4, NoHandlerBooksInv DEF Inv, TypeOK, Request
<1>6. UNCHANGED Ledger!vars
  BY <1>2, <1>4, BooksStutter
<1> QED
  BY <1>5, <1>6 DEF BooksStep

\* A payment without an invoice.
LEMMA StandaloneStepBooks ==
  ASSUME Inv, BooksInv, StandaloneStep
  PROVE  BooksStep
<1>1. PICK p \in Payments, c \in Customers, a \in Amounts : RecordStandalone(p, c, a)
  BY DEF StandaloneStep
<1>2. a \in Nat /\ a > 0
  BY MoneyAssumption
<1>3. /\ payment[p].status = "unused" /\ payment'[p].status = "succeeded" /\ payment'[p].inv = None
      /\ payment'[p].cust = c /\ payment'[p].amount = a /\ payment'[p].refunded = 0
      /\ OnlyPayment(p)
  BY <1>1 DEF RecordStandalone, InsertPayment, Inv, TypeOK, OnlyPayment
<1>4. PaidMore(None, a) /\ CreditCustomer(c, a) /\ UNCHANGED <<invoice, intent, req>>
  BY <1>1, NoneAssumption DEF RecordStandalone, PaidMore
<1>5. Ledger!Next
  BY <1>2, <1>3, <1>4, BooksCollect
<1>6. \A q \in Payments : RowBooked(q)'
  BY <1>2, <1>3 DEF RowBooked, Booked, BooksInv, OnlyPayment
<1>7. \A r \in Requests : req[r].op \in Reversing => payment'[req[r].pay] = payment[req[r].pay]
  BY <1>3 DEF Inv, HandlersOK, HandlerOK, OnlyPayment
<1>8. BooksInv'
  BY <1>4, <1>6, <1>7, NoHandlerBooksInv DEF Inv, TypeOK, Request, BooksInv
<1> QED
  BY <1>5, <1>8 DEF BooksStep

-----------------------------------------------------------------------------
(***************************************************************************)
(* The refinement.                                                         *)
(***************************************************************************)
LEMMA InitBooks ==
  ASSUME Init
  PROVE  BooksInv /\ Ledger!Init
<1>1. \A p \in Payments : ~ Booked(p) /\ Net(p) = 0
  BY DEF Init, Unused, Booked, Net, Collected
<1>2. BooksInv
  <2>1. Apart
    BY DEF Apart, InFlight, Init, Idle
  <2>2. \A r \in Requests : ReadStillHolds(r)
    BY DEF ReadStillHolds, Init, Idle, Hooks
  <2>3. \A pi \in Intents : intent[pi].inv = None
    BY DEF Init
  <2> QED
    BY <1>1, <2>1, <2>2, <2>3 DEF BooksInv, RowBooked
<1>3. Ledger!Init
  BY <1>1 DEF Init, Ledger!Init
<1> QED
  BY <1>2, <1>3

LEMMA NextBooks ==
  ASSUME CarefulStaff, OneAtATime, Inv, Inv', BooksInv, [Next]_vars
  PROVE  BooksStep
<1>1. ASSUME NEW r \in Requests,
             InvoiceStep(r) \/ RecordStep(r) \/ ReverseStep(r) \/ WebhookStep(r)
      PROVE  BooksStep
  BY <1>1, InvoiceStepBooks, RecordStepBooks, ReverseStepBooks, WebhookStepBooks
<1>2. ASSUME NEW r \in Requests, Abandon(r)
      PROVE  BooksStep
  BY <1>2, FinishBooks DEF Abandon
<1>3. CASE StripeStep \/ StandaloneStep
  BY <1>3, StripeStepBooks, StandaloneStepBooks
<1>4. CASE UNCHANGED vars
  <2>1. UNCHANGED <<invoice, payment, lifetimeValue, intent, req>>
    BY <1>4 DEF vars
  <2>2. \A p \in Payments : RowBooked(p)' /\ SameBooks(p)
    BY <2>1, UnchangedBooks DEF BooksInv, RowBooked, Booked
  <2>3. BooksInv'
    BY <2>1, <2>2, NoHandlerBooksInv DEF Inv, TypeOK, Request, BooksInv
  <2>4. UNCHANGED Ledger!vars
    BY <2>1, <2>2, BooksStutter
  <2> QED
    BY <2>3, <2>4 DEF BooksStep
<1> QED
  BY <1>1, <1>2, <1>3, <1>4 DEF Next

\* When no two handlers overlap on an invoice and the staff do what the
\* invoice page offers, the payment handlers (recordPayment, voidPayment,
\* refundPayment, reconcilePayment) implement the books: each commit moves
\* amount_paid and lifetime_value by what it changes the payment by.
THEOREM RefinesBooks ==
  ASSUME CarefulStaff, OneAtATime
  PROVE  Spec => ImplementsBooks
<1>1. Init => BooksInv /\ Ledger!Init
  BY InitBooks
<1>2. Inv /\ Inv' /\ BooksInv /\ [Next]_vars => BooksInv' /\ [Ledger!Next]_(Ledger!vars)
  BY NextBooks DEF BooksStep
<1> QED
  BY <1>1, <1>2, Invariance, PTL DEF Spec, ImplementsBooks, Ledger!Spec
-----------------------------------------------------------------------------
(***************************************************************************)
(* While no two handlers overlap on an invoice, its status is the one its  *)
(* amounts call for, a void invoice has no payment that counts, and a      *)
(* PaymentIntent has one succeeded row.  Handlers write a status worked    *)
(* out from a row they read before, and void or insert on the strength of  *)
(* a search they made before: Settled says what of that stays true until   *)
(* the write.                                                              *)
(***************************************************************************)
BalanceRight(i) ==
    /\ invoice[i].status = StatusAfterPayment(invoice[i].total, invoice[i].amountPaid, invoice[i].status)
    /\ invoice[i].status = "draft" => invoice[i].amountPaid = 0

VoidRight(i) == invoice[i].status = "void" => ~ HasActivePayment(i)

RowsOfIntents ==
    \A p \in Payments : payment[p].intent # None =>
        payment[p].inv # None /\ intent[payment[p].intent].inv = payment[p].inv

IntentsPriced == \A pi \in Intents : intent[pi].inv # None => intent[pi].amount > 0

Settled(r) ==
    /\ req[r].op \in {"update", "send"} => invoice[req[r].inv].status = "draft"
    /\ req[r].op = "voidInvoiceChecked" => ~ HasActivePayment(req[r].inv)
    /\ req[r].op \in {"record", "hook", "hookNew", "voidPaymentTx", "refundTx"} /\ req[r].inv # None =>
           req[r].seen = invoice[req[r].inv]
    /\ req[r].op = "record" => req[r].seen.status \notin {"draft", "void"}
    /\ req[r].op \in {"hook", "hookNew"} => req[r].amount > 0
    /\ req[r].op \in {"hook", "hookNew", "hookFailed"} => intent[req[r].intent].inv = req[r].inv
    /\ req[r].op = "hookNew" => ~ AlreadyRecorded(req[r].intent, "succeeded")
    /\ req[r].op \in {"refund", "refundTx"} /\ req[r].inv # None => payment[req[r].pay].status \in Active

SettledInv ==
    /\ \A i \in Invoices : BalanceRight(i) /\ VoidRight(i)
    /\ OneSucceededRow
    /\ RowsOfIntents
    /\ IntentsPriced
    /\ Apart
    /\ \A r \in Requests : Settled(r)

\* A step touches the rows of invoice i, and new ones, at most, but for the
\* history of a payment.
Kept(p) ==
    /\ payment'[p].status = payment[p].status
    /\ payment'[p].inv = payment[p].inv
    /\ payment'[p].intent = payment[p].intent

OnlyOn(i) ==
    /\ \A j \in Invoices : j # i => invoice'[j] = invoice[j]
    /\ \A p \in Payments :
          \/ Kept(p)
          \/ payment'[p].inv = i /\ (payment[p].status = "unused" \/ payment[p].inv = i)

\* Handler r is the only one on invoice i.
AloneOn(r, i) == \A q \in Requests \ {r} : InFlight(q) => req[q].inv # i

\* What a handler on another invoice relies on is left alone.
LEMMA ElsewhereSettled ==
  ASSUME Inv, SettledInv, RowsOfIntents', UNCHANGED intent,
         NEW i \in Invoices \cup {None}, OnlyOn(i),
         NEW q \in Requests, req'[q] = req[q], InFlight(q) => req[q].inv # i
  PROVE  Settled(q)'
<1> DEFINE j == req[q].inv
<1>1. Settled(q) /\ HandlerOK(q) /\ j \in Invoices \cup {None} /\ req[q].pay \in Payments \cup {None}
  BY DEF SettledInv, Inv, HandlersOK, TypeOK, Request
<1>2. CASE ~ InFlight(q)
  BY <1>2 DEF Settled, InFlight
<1>3. CASE InFlight(q)
  <2>1. j # i
    BY <1>3
  <2>2. j \in Invoices => invoice'[j] = invoice[j]
    BY <2>1 DEF OnlyOn
  <2>3. j \in Invoices /\ ~ HasActivePayment(j) => ~ HasActivePayment(j)'
    BY <2>1 DEF OnlyOn, Kept, HasActivePayment
  <2>4. req[q].op \in Reversing => Kept(req[q].pay)
    BY <1>1, <2>1 DEF OnlyOn, HandlerOK
  <2>5. req[q].op = "hookNew" => ~ AlreadyRecorded(req[q].intent, "succeeded")'
    <3> SUFFICES ASSUME req[q].op = "hookNew", NEW p \in Payments,
                        payment'[p].intent = req[q].intent, payment'[p].status = "succeeded"
                 PROVE  FALSE
      BY DEF AlreadyRecorded
    <3>1. req[q].intent # None /\ intent[req[q].intent].inv = j
      BY <1>1, NoneAssumption DEF Settled, HandlerOK, Hooks
    <3>2. payment'[p].inv = j
      BY <3>1 DEF RowsOfIntents
    <3>3. Kept(p)
      BY <2>1, <3>2 DEF OnlyOn
    <3> QED
      BY <1>1, <3>3 DEF Kept, Settled, AlreadyRecorded
  <2>6. req[q].op \in OnInvoice => j \in Invoices
    BY <1>1 DEF HandlerOK
  <2> QED
    BY <1>1, <2>2, <2>3, <2>4, <2>5, <2>6 DEF Settled, Kept, OnInvoice, Reversing
<1> QED
  BY <1>2, <1>3

\* A step of handler r on its invoice keeps the invariant if it leaves the
\* rows of that invoice right.
LEMMA SettledKept ==
  ASSUME Inv, SettledInv, UNCHANGED intent,
         NEW r \in Requests, NEW i \in Invoices \cup {None}, AloneOn(r, i), OnlyOn(i),
         \A q \in Requests \ {r} : req'[q] = req[q],
         InFlight(r)' => req'[r].inv = i,
         i # None => BalanceRight(i)' /\ VoidRight(i)',
         OneSucceededRow', RowsOfIntents',
         Settled(r)'
  PROVE  SettledInv'
<1>1. ASSUME NEW j \in Invoices PROVE BalanceRight(j)' /\ VoidRight(j)'
  <2>1. CASE j = i
    BY <2>1, NoneAssumption
  <2>2. CASE j # i
    <3>1. invoice'[j] = invoice[j] /\ BalanceRight(j) /\ VoidRight(j)
      BY <2>2 DEF OnlyOn, SettledInv
    <3>2. ~ HasActivePayment(j) => ~ HasActivePayment(j)'
      BY <2>2 DEF OnlyOn, Kept, HasActivePayment
    <3> QED
      BY <3>1, <3>2 DEF BalanceRight, VoidRight
  <2> QED
    BY <2>1, <2>2
<1>2. Apart'
  <2> SUFFICES ASSUME NEW s \in Requests, NEW q \in Requests, s # q, InFlight(s)', InFlight(q)'
               PROVE  req'[s].inv # req'[q].inv
    BY DEF Apart
  <2>1. CASE s = r
    BY <2>1 DEF AloneOn, InFlight
  <2>2. CASE q = r
    BY <2>2 DEF AloneOn, InFlight
  <2>3. CASE s # r /\ q # r
    BY <2>3 DEF InFlight, SettledInv, Apart
  <2> QED
    BY <2>1, <2>2, <2>3
<1>3. ASSUME NEW q \in Requests PROVE Settled(q)'
  <2>1. CASE q = r
    BY <2>1
  <2>2. CASE q # r
    BY <2>2, ElsewhereSettled DEF AloneOn
  <2> QED
    BY <2>1, <2>2
<1>4. IntentsPriced'
  BY DEF SettledInv, IntentsPriced
<1> QED
  BY <1>1, <1>2, <1>3, <1>4 DEF SettledInv

\* Rows whose intent stays, and that do not become succeeded.
LEMMA NoNewSucceeded ==
  ASSUME SettledInv,
         \A p \in Payments :
            \/ payment'[p].status # "succeeded"
            \/ payment'[p].intent = payment[p].intent /\ payment'[p].status = payment[p].status
  PROVE  OneSucceededRow'
  BY DEF SettledInv, OneSucceededRow

\* Rows whose intent and invoice stay.
LEMMA SameIntents ==
  ASSUME SettledInv, UNCHANGED intent,
         \A p \in Payments :
            \/ payment'[p].intent = None
            \/ payment'[p].intent = payment[p].intent /\ payment'[p].inv = payment[p].inv
  PROVE  RowsOfIntents'
  BY DEF SettledInv, RowsOfIntents

\* A handler that begins, goes on or ends without writing a row.
LEMMA SettledHandler ==
  ASSUME Inv, SettledInv, UNCHANGED <<invoice, payment, intent>>,
         NEW r \in Requests, NEW i \in Invoices \cup {None}, AloneOn(r, i),
         \A q \in Requests \ {r} : req'[q] = req[q],
         InFlight(r)' => req'[r].inv = i,
         Settled(r)'
  PROVE  SettledInv'
<1>1. OnlyOn(i)
  BY DEF OnlyOn, Kept
<1>2. i # None => BalanceRight(i)' /\ VoidRight(i)'
  <2> SUFFICES ASSUME i # None PROVE BalanceRight(i)' /\ VoidRight(i)'
    OBVIOUS
  <2>1. BalanceRight(i) /\ VoidRight(i)
    BY DEF SettledInv
  <2> QED
    BY <2>1 DEF BalanceRight, VoidRight, HasActivePayment
<1>3. OneSucceededRow' /\ RowsOfIntents'
  BY NoNewSucceeded, SameIntents
<1> QED
  BY <1>1, <1>2, <1>3, SettledKept

\* A handler that ends is at rest.
LEMMA FinishedSettled ==
  ASSUME Inv, NEW r \in Requests, Finish(r)
  PROVE  /\ Settled(r)' /\ ~ InFlight(r)'
         /\ \A q \in Requests \ {r} : req'[q] = req[q]
<1>1. req'[r] = Idle /\ \A q \in Requests \ {r} : req'[q] = req[q]
  BY DEF Finish, Inv, TypeOK
<1> QED
  BY <1>1 DEF Settled, InFlight, Idle

\* A handler in flight is alone on its invoice.
LEMMA IsAlone ==
  ASSUME Inv, SettledInv, NEW r \in Requests, InFlight(r)
  PROVE  AloneOn(r, req[r].inv) /\ req[r].inv \in Invoices \cup {None}
  BY DEF AloneOn, SettledInv, Apart, Inv, TypeOK, Request

\* A handler that ends without writing a row.
LEMMA SettledFinish ==
  ASSUME Inv, SettledInv, UNCHANGED <<invoice, payment, intent>>, NEW r \in Requests, InFlight(r), Finish(r)
  PROVE  SettledInv'
  BY FinishedSettled, IsAlone, SettledHandler
\* A handler that starts is alone on its invoice.
LEMMA StartsAlone ==
  ASSUME OneAtATime, NEW r \in Requests, NEW i, MayStart(r, i)
  PROVE  AloneOn(r, i)
  BY DEF MayStart, AloneOn

\* A handler that starts.
LEMMA SettledStart ==
  ASSUME OneAtATime, Inv, SettledInv, UNCHANGED <<invoice, payment, intent>>,
         NEW r \in Requests, NEW i \in Invoices \cup {None}, MayStart(r, i),
         NEW h, Begin(r, h), h.inv = i, Settled(r)'
  PROVE  SettledInv'
<1>1. req'[r] = h /\ \A q \in Requests \ {r} : req'[q] = req[q]
  BY DEF Begin, Inv, TypeOK
<1> QED
  BY <1>1, StartsAlone, SettledHandler

\* A handler that ends with a write to its invoice and no other row.
LEMMA SettledInvoiceWrite ==
  ASSUME Inv, SettledInv, UNCHANGED <<payment, intent>>,
         NEW r \in Requests, InFlight(r), Finish(r), NEW i \in Invoices, i = req[r].inv,
         \A j \in Invoices \ {i} : invoice'[j] = invoice[j],
         BalanceRight(i)', VoidRight(i)'
  PROVE  SettledInv'
<1>1. AloneOn(r, i) /\ i \in Invoices \cup {None}
  BY IsAlone
<1>2. OnlyOn(i)
  BY DEF OnlyOn, Kept
<1>3. OneSucceededRow' /\ RowsOfIntents'
  BY NoNewSucceeded, SameIntents
<1>4. Settled(r)' /\ ~ InFlight(r)' /\ \A q \in Requests \ {r} : req'[q] = req[q]
  BY FinishedSettled
<1> QED
  BY <1>1, <1>2, <1>3, <1>4, SettledKept

-----------------------------------------------------------------------------
(***************************************************************************)
(* Every step keeps SettledInv.                                            *)
(***************************************************************************)

\* The steps on an invoice.
LEMMA InvoiceStepSettled ==
  ASSUME OneAtATime, Inv, SettledInv, NEW r \in Requests, InvoiceStep(r)
  PROVE  SettledInv'
<1>1. ASSUME NEW i \in Invoices, UpdateRead(r, i) \/ SendRead(r, i) \/ VoidInvoiceRead(r, i)
      PROVE  SettledInv'
  <2>1. PICK op \in {"update", "send", "voidInvoice"} :
            /\ Begin(r, [Idle EXCEPT !.op = op, !.inv = i])
            /\ op # "voidInvoice" => invoice[i].status = "draft"
    BY <1>1 DEF UpdateRead, SendRead, VoidInvoiceRead
  <2> DEFINE h == [Idle EXCEPT !.op = op, !.inv = i]
  <2>2. h.op = op /\ h.inv = i
    BY DEF Idle
  <2>3. Begin(r, h) /\ UNCHANGED <<invoice, payment, intent>> /\ MayStart(r, i)
    BY <1>1, <2>1 DEF UpdateRead, SendRead, VoidInvoiceRead
  <2> HIDE DEF h
  <2>4. Settled(r)'
    BY <2>1, <2>2, <2>3 DEF Settled, Begin, Inv, TypeOK
  <2> QED
    BY <2>2, <2>3, <2>4, SettledStart
<1>2. ASSUME req[r].op \in {"update", "send", "voidInvoiceChecked"}, Finish(r), UNCHANGED <<payment, intent>>,
             NEW row \in InvoiceRow, invoice' = [invoice EXCEPT ![req[r].inv] = row],
             row.amountPaid = invoice[req[r].inv].amountPaid,
             \/ req[r].op = "update" /\ row.status = invoice[req[r].inv].status
             \/ req[r].op = "send" /\ row.status = "sent"
             \/ req[r].op = "voidInvoiceChecked" /\ row.status = "void"
      PROVE  SettledInv'
  <2> PICK i \in Invoices : i = req[r].inv
    BY <1>2 DEF Inv, HandlersOK, HandlerOK, OnInvoice
  <2>1. InFlight(r) /\ Settled(r) /\ BalanceRight(i)
    BY <1>2 DEF InFlight, SettledInv
  <2>2. invoice'[i] = row /\ \A j \in Invoices \ {i} : invoice'[j] = invoice[j]
    BY <1>2, <2>1 DEF Inv, TypeOK
  <2>3. row.status # "void" => row.status \in {"draft", "sent"} /\ row.amountPaid = 0
    BY <1>2, <2>1 DEF Settled, BalanceRight
  <2>4. (row.status = StatusAfterPayment(row.total, row.amountPaid, row.status))
        /\ (row.status = "draft" => row.amountPaid = 0)
    BY <2>3 DEF StatusAfterPayment
  <2>5. row.status = "void" => ~ HasActivePayment(i)
    <3>1. row.status = "void" => req[r].op = "voidInvoiceChecked"
      BY <1>2, <2>1 DEF Settled
    <3> QED
      BY <2>1, <3>1 DEF Settled
  <2>6. BalanceRight(i)'
    BY <2>2, <2>4 DEF BalanceRight
  <2>7. VoidRight(i)'
    BY <1>2, <2>2, <2>5 DEF VoidRight, HasActivePayment
  <2> QED
    BY <1>2, <2>1, <2>2, <2>6, <2>7, SettledInvoiceWrite
<1>3. ASSUME NEW t \in Totals, UpdateWrite(r, t)
      PROVE  SettledInv'
  <2> DEFINE row == [invoice[req[r].inv] EXCEPT !.total = t]
  <2>1. invoice[req[r].inv] \in InvoiceRow
    BY <1>3 DEF UpdateWrite, Inv, HandlersOK, HandlerOK, OnInvoice, TypeOK
  <2>2. row \in InvoiceRow /\ row.amountPaid = invoice[req[r].inv].amountPaid
        /\ row.status = invoice[req[r].inv].status
    BY <2>1, MoneyAssumption DEF InvoiceRow
  <2>3. /\ req[r].op = "update" /\ Finish(r) /\ UNCHANGED <<payment, intent>>
        /\ invoice' = [invoice EXCEPT ![req[r].inv] = row]
    BY <1>3 DEF UpdateWrite
  <2> HIDE DEF row
  <2> QED
    BY <1>2, <2>2, <2>3
<1>4. ASSUME SendWrite(r) \/ VoidInvoiceWrite(r)
      PROVE  SettledInv'
  <2> PICK status \in {"sent", "void"} : status = IF req[r].op = "send" THEN "sent" ELSE "void"
    OBVIOUS
  <2> DEFINE row == [invoice[req[r].inv] EXCEPT !.status = status]
  <2>1. invoice[req[r].inv] \in InvoiceRow
    BY <1>4 DEF SendWrite, VoidInvoiceWrite, Inv, HandlersOK, HandlerOK, OnInvoice, TypeOK
  <2>2. row \in InvoiceRow /\ row.amountPaid = invoice[req[r].inv].amountPaid /\ row.status = status
    BY <2>1 DEF InvoiceRow, InvoiceStatus
  <2>3. /\ (req[r].op = "send" /\ status = "sent") \/ (req[r].op = "voidInvoiceChecked" /\ status = "void")
        /\ Finish(r) /\ UNCHANGED <<payment, intent>>
        /\ invoice' = [invoice EXCEPT ![req[r].inv] = row]
    BY <1>4 DEF SendWrite, VoidInvoiceWrite
  <2> HIDE DEF row
  <2> QED
    BY <1>2, <2>2, <2>3
<1>5. ASSUME VoidInvoiceCheck(r)
      PROVE  SettledInv'
  <2> DEFINE h == [req[r] EXCEPT !.op = "voidInvoiceChecked"]
  <2>1. /\ UNCHANGED <<invoice, payment, intent>> /\ InFlight(r)
        /\ Finish(r) \/ (Begin(r, h) /\ ~ HasActivePayment(req[r].inv))
    BY <1>5 DEF VoidInvoiceCheck, InFlight
  <2>2. h.op = "voidInvoiceChecked" /\ h.inv = req[r].inv
    BY DEF Inv, TypeOK, Request
  <2> HIDE DEF h
  <2>3. CASE Finish(r)
    BY <2>1, <2>3, SettledFinish
  <2>4. CASE Begin(r, h) /\ ~ HasActivePayment(req[r].inv)
    <3>1. req'[r] = h /\ \A q \in Requests \ {r} : req'[q] = req[q]
      BY <2>4 DEF Begin, Inv, TypeOK
    <3>2. Settled(r)'
      BY <2>1, <2>2, <2>4, <3>1 DEF Settled, HasActivePayment
    <3> QED
      BY <2>1, <2>2, <3>1, <3>2, IsAlone, SettledHandler
  <2> QED
    BY <2>1, <2>3, <2>4
<1> QED
  BY <1>1, <1>3, <1>4, <1>5 DEF InvoiceStep

\* A status worked out from the amounts is the one they call for, and a void
\* or draft invoice stays what it is.
LEMMA StatusSettles ==
  ASSUME NEW total \in Nat, NEW paid \in Nat, NEW current \in InvoiceStatus,
         NEW status, status = StatusAfterPayment(total, paid, current)
  PROVE  /\ status = StatusAfterPayment(total, paid, status)
         /\ status = "void" <=> current = "void"
         /\ status = "draft" <=> current = "draft"
  BY DEF StatusAfterPayment

\* Money is recorded on the handler's invoice.
LEMMA SettledCollect ==
  ASSUME Inv, SettledInv, NEW r \in Requests, InFlight(r), Finish(r), UNCHANGED intent,
         NEW i \in Invoices, i = req[r].inv, NEW p \in Payments, NEW pi \in Intents \cup {None},
         NEW history, NEW amount, NEW c,
         InsertPayment(p, "succeeded", history, amount, i, c, pi),
         NEW paid \in Nat, NEW status,
         invoice' = [invoice EXCEPT ![i].amountPaid = paid, ![i].status = status],
         status \notin {"draft", "void"}, status = StatusAfterPayment(invoice[i].total, paid, status),
         pi # None => intent[pi].inv = i /\ ~ AlreadyRecorded(pi, "succeeded")
  PROVE  SettledInv'
<1>1. AloneOn(r, i)
  BY IsAlone
<1>2. /\ payment[p].status = "unused" /\ payment'[p].status = "succeeded"
      /\ payment'[p].inv = i /\ payment'[p].intent = pi
      /\ \A q \in Payments \ {p} : payment'[q] = payment[q]
  BY DEF InsertPayment, Inv, TypeOK
<1>3. invoice'[i].total = invoice[i].total /\ invoice'[i].amountPaid = paid /\ invoice'[i].status = status
      /\ \A j \in Invoices \ {i} : invoice'[j] = invoice[j]
  BY DEF Inv, TypeOK, InvoiceRow
<1>4. OnlyOn(i)
  BY <1>2, <1>3 DEF OnlyOn, Kept
<1>5. BalanceRight(i)' /\ VoidRight(i)'
  BY <1>3 DEF BalanceRight, VoidRight
<1>6. OneSucceededRow'
  BY <1>2 DEF OneSucceededRow, SettledInv, AlreadyRecorded
<1>7. RowsOfIntents'
  BY <1>2, NoneAssumption DEF RowsOfIntents, SettledInv
<1>8. Settled(r)' /\ ~ InFlight(r)' /\ \A q \in Requests \ {r} : req'[q] = req[q]
  BY FinishedSettled
<1> QED
  BY <1>1, <1>4, <1>5, <1>6, <1>7, <1>8, SettledKept

\* The steps that record a payment.
LEMMA RecordStepSettled ==
  ASSUME OneAtATime, Inv, SettledInv, NEW r \in Requests, RecordStep(r)
  PROVE  SettledInv'
<1>1. ASSUME NEW i \in Invoices, NEW a \in Amounts, RecordRead(r, i, a)
      PROVE  SettledInv'
  <2> DEFINE h == [Idle EXCEPT !.op = "record", !.inv = i, !.amount = a, !.seen = invoice[i]]
  <2>1. h.op = "record" /\ h.inv = i /\ h.seen = invoice[i]
    BY DEF Idle
  <2>2. /\ Begin(r, h) /\ UNCHANGED <<invoice, payment, intent>> /\ MayStart(r, i)
        /\ invoice[i].status \notin {"draft", "void"}
    BY <1>1 DEF RecordRead, CanRecord
  <2> HIDE DEF h
  <2>3. Settled(r)'
    BY <2>1, <2>2 DEF Settled, Begin, Inv, TypeOK
  <2> QED
    BY <2>1, <2>2, <2>3, SettledStart
<1>2. ASSUME NEW p \in Payments, RecordCommit(r, p)
      PROVE  SettledInv'
  <2> PICK i \in Invoices : i = req[r].inv
    BY <1>2 DEF RecordCommit, Inv, HandlersOK, HandlerOK, OnInvoice
  <2> PICK paid \in Nat : paid = RecordedPaid(r)
    BY RecordedType DEF Inv
  <2> PICK status : status = RecordedStatus(r)
    OBVIOUS
  <2>1. req[r].op = "record" /\ InFlight(r) /\ Settled(r)
    BY <1>2 DEF RecordCommit, InFlight, SettledInv
  <2>2. req[r].seen = invoice[i] /\ invoice[i].status \notin {"draft", "void"} /\ invoice[i] \in InvoiceRow
    BY <2>1, NoneAssumption DEF Settled, Inv, TypeOK
  <2>3. status = StatusAfterPayment(invoice[i].total, paid, invoice[i].status)
    BY <2>2 DEF RecordedStatus
  <2>4. status \notin {"draft", "void"} /\ status = StatusAfterPayment(invoice[i].total, paid, status)
    BY <2>2, <2>3, StatusSettles DEF InvoiceRow
  <2>5. /\ Finish(r) /\ UNCHANGED intent
        /\ InsertPayment(p, "succeeded", Inserted("succeeded"), req[r].amount, i, CustomerOf[i], None)
        /\ invoice' = [invoice EXCEPT ![i].amountPaid = paid, ![i].status = status]
    BY <1>2 DEF RecordCommit
  <2> QED
    BY <2>1, <2>4, <2>5, SettledCollect
<1>3. ASSUME RecordRollback(r)
      PROVE  SettledInv'
  BY <1>3, SettledFinish DEF RecordRollback, InFlight
<1> QED
  BY <1>1, <1>2, <1>3 DEF RecordStep

\* A void or a refund commits.
LEMMA SettledReverse ==
  ASSUME Inv, SettledInv, NEW r \in Requests, req[r].op \in {"voidPaymentTx", "refundTx"},
         Finish(r), UNCHANGED intent,
         NEW p \in Payments, p = req[r].pay, NEW amount \in Nat, ReverseAmountFromInvoice(r, amount),
         \A q \in Payments \ {p} : payment'[q] = payment[q],
         payment'[p].inv = payment[p].inv, payment'[p].intent = payment[p].intent,
         payment'[p].status # "succeeded",
         payment[p].inv # None /\ payment'[p].status \in Active => payment[p].status \in Active
  PROVE  SettledInv'
<1> PICK i \in Invoices \cup {None} : i = req[r].inv
  BY DEF Inv, TypeOK, Request
<1>1. AloneOn(r, i) /\ Settled(r) /\ payment[p].inv = i
  BY IsAlone DEF InFlight, SettledInv, Inv, HandlersOK, HandlerOK, Reversing
<1>2. OneSucceededRow' /\ RowsOfIntents'
  BY NoNewSucceeded, SameIntents
<1>3. Settled(r)' /\ ~ InFlight(r)' /\ \A q \in Requests \ {r} : req'[q] = req[q]
  BY FinishedSettled
<1>4. CASE i = None
  <2>1. UNCHANGED invoice
    BY <1>4 DEF ReverseAmountFromInvoice
  <2>2. OnlyOn(i)
    BY <1>1, <2>1 DEF OnlyOn, Kept
  <2> QED
    BY <1>1, <1>2, <1>3, <1>4, <2>2, SettledKept
<1>5. CASE i # None
  <2>1. i \in Invoices /\ req[r].seen = invoice[i] /\ invoice[i] \in InvoiceRow /\ BalanceRight(i) /\ VoidRight(i)
    BY <1>1, <1>5 DEF Settled, Inv, TypeOK, SettledInv
  <2> PICK paid \in Nat : paid = AtLeastZero(invoice[i].amountPaid - amount)
    BY <2>1, AtLeastZeroType DEF InvoiceRow
  <2> PICK status : status = StatusAfterPayment(invoice[i].total, paid, invoice[i].status)
    OBVIOUS
  <2>2. invoice' = [invoice EXCEPT ![i].amountPaid = paid, ![i].status = status]
    BY <1>5, <2>1 DEF ReverseAmountFromInvoice
  <2>3. invoice'[i].total = invoice[i].total /\ invoice'[i].amountPaid = paid /\ invoice'[i].status = status
        /\ \A j \in Invoices \ {i} : invoice'[j] = invoice[j]
    BY <2>1, <2>2 DEF Inv, TypeOK, InvoiceRow
  <2>4. OnlyOn(i)
    BY <1>1, <2>3 DEF OnlyOn, Kept
  <2>5. /\ status = StatusAfterPayment(invoice[i].total, paid, status)
        /\ status = "void" <=> invoice[i].status = "void"
        /\ status = "draft" <=> invoice[i].status = "draft"
    BY <2>1, StatusSettles DEF InvoiceRow
  <2>6. status = "draft" => paid = 0
    <3>1. status = "draft" => invoice[i].amountPaid = 0
      BY <2>1, <2>5 DEF BalanceRight
    <3> QED
      BY <3>1 DEF AtLeastZero
  <2>7. BalanceRight(i)'
    BY <2>3, <2>5, <2>6 DEF BalanceRight
  <2>8. VoidRight(i)'
    BY <1>1, <1>5, <2>1, <2>3, <2>5 DEF VoidRight, HasActivePayment
  <2> QED
    BY <1>1, <1>2, <1>3, <2>4, <2>7, <2>8, SettledKept
<1> QED
  BY <1>4, <1>5

\* The steps that void or refund a payment.
LEMMA ReverseStepSettled ==
  ASSUME OneAtATime, Inv, SettledInv, NEW r \in Requests, ReverseStep(r)
  PROVE  SettledInv'
<1>1. ASSUME NEW p \in Payments, VoidPaymentRead(r, p)
      PROVE  SettledInv'
  <2> DEFINE h == [Idle EXCEPT !.op = "voidPayment", !.inv = payment[p].inv, !.pay = p,
                             !.from = payment[p].status]
  <2>1. h.op = "voidPayment" /\ h.inv = payment[p].inv /\ h.inv \in Invoices \cup {None}
    BY DEF Idle, Inv, TypeOK, PaymentRow
  <2>2. Begin(r, h) /\ UNCHANGED <<invoice, payment, intent>> /\ MayStart(r, payment[p].inv)
    BY <1>1 DEF VoidPaymentRead
  <2> HIDE DEF h
  <2>3. Settled(r)'
    BY <2>1, <2>2 DEF Settled, Begin, Inv, TypeOK
  <2> QED
    BY <2>1, <2>2, <2>3, SettledStart
<1>2. ASSUME NEW p \in Payments, NEW a, RefundRead(r, p, a)
      PROVE  SettledInv'
  <2> DEFINE h == [Idle EXCEPT !.op = "refund", !.inv = payment[p].inv, !.pay = p, !.from = payment[p].status,
                               !.amount = a, !.refunded = payment[p].refunded + a]
  <2>1. h.op = "refund" /\ h.inv = payment[p].inv /\ h.inv \in Invoices \cup {None} /\ h.pay = p
    BY DEF Idle, Inv, TypeOK, PaymentRow
  <2>2. /\ Begin(r, h) /\ UNCHANGED <<invoice, payment, intent>> /\ MayStart(r, payment[p].inv)
        /\ payment[p].status \in Active
    BY <1>2 DEF RefundRead
  <2> HIDE DEF h
  <2>3. Settled(r)'
    BY <2>1, <2>2 DEF Settled, Begin, Inv, TypeOK
  <2> QED
    BY <2>1, <2>2, <2>3, SettledStart
<1>3. ASSUME NEW op \in {"voidPayment", "refund"}, NEW txOp \in {"voidPaymentTx", "refundTx"},
             op = "refund" <=> txOp = "refundTx", BeginTx(r, op, txOp)
      PROVE  SettledInv'
  <2> DEFINE seen == IF req[r].inv = None THEN Unread ELSE invoice[req[r].inv]
             h == [req[r] EXCEPT !.op = txOp, !.seen = seen]
  <2>1. /\ Begin(r, h) /\ UNCHANGED <<invoice, payment, intent>>
        /\ InFlight(r) /\ req[r].op = op /\ Settled(r)
    BY <1>3 DEF BeginTx, InFlight, SettledInv
  <2>2. h.op = txOp /\ h.inv = req[r].inv /\ h.pay = req[r].pay /\ h.seen = seen
    BY DEF Inv, TypeOK, Request
  <2>3. h.inv # None => h.seen = invoice[h.inv]
    BY <2>2
  <2>4. h.op = "refundTx" /\ h.inv # None => payment[h.pay].status \in Active
    BY <1>3, <2>1, <2>2 DEF Settled
  <2> HIDE DEF h
  <2>5. req'[r] = h /\ \A q \in Requests \ {r} : req'[q] = req[q]
    BY <2>1 DEF Begin, Inv, TypeOK
  <2>6. Settled(r)'
    BY <2>1, <2>2, <2>3, <2>4, <2>5 DEF Settled
  <2> QED
    BY <2>1, <2>2, <2>5, <2>6, IsAlone, SettledHandler
<1>4. CASE VoidPaymentBegin(r) \/ RefundBegin(r)
  BY <1>3, <1>4 DEF VoidPaymentBegin, RefundBegin
<1>5. ASSUME VoidPaymentCommit(r)
      PROVE  SettledInv'
  <2> PICK p \in Payments : p = req[r].pay
    BY <1>5 DEF VoidPaymentCommit, Inv, HandlersOK, HandlerOK, Reversing
  <2> PICK amount \in Nat : amount = payment[p].amount
    BY DEF Inv, TypeOK, PaymentRow
  <2>1. payment'[p] = Restated(payment[p], req[r].from, "void") /\ payment[p] \in PaymentRow
    BY <1>5 DEF VoidPaymentCommit, Inv, TypeOK
  <2>2. \A q \in Payments \ {p} : payment'[q] = payment[q]
    BY <1>5 DEF VoidPaymentCommit, Inv, TypeOK
  <2>3. payment'[p].inv = payment[p].inv /\ payment'[p].intent = payment[p].intent /\ payment'[p].status = "void"
    BY <2>1 DEF Restated, PaymentRow
  <2>4. req[r].op = "voidPaymentTx" /\ Finish(r) /\ UNCHANGED intent /\ ReverseAmountFromInvoice(r, amount)
    BY <1>5 DEF VoidPaymentCommit
  <2> QED
    BY <2>2, <2>3, <2>4, SettledReverse DEF Active
<1>6. ASSUME RefundCommit(r)
      PROVE  SettledInv'
  <2> PICK p \in Payments : p = req[r].pay
    BY <1>6 DEF RefundCommit, Inv, HandlersOK, HandlerOK, Reversing
  <2> PICK amount \in Nat : amount = RefundedNow(r)
    BY DEF RefundedNow, Inv, TypeOK, Request
  <2> PICK status \in {"refunded", "partially_refunded"} : status = RefundedStatus(r)
    BY DEF RefundedStatus
  <2>1. payment'[p] = [Restated(payment[p], req[r].from, status) EXCEPT !.refunded = req[r].refunded] /\ payment[p] \in PaymentRow
    BY <1>6 DEF RefundCommit, Inv, TypeOK
  <2>2. \A q \in Payments \ {p} : payment'[q] = payment[q]
    BY <1>6 DEF RefundCommit, Inv, TypeOK
  <2>3. payment'[p].inv = payment[p].inv /\ payment'[p].intent = payment[p].intent /\ payment'[p].status = status
    BY <2>1 DEF Restated, PaymentRow
  <2>4. req[r].op = "refundTx" /\ Finish(r) /\ UNCHANGED intent /\ ReverseAmountFromInvoice(r, amount)
    BY <1>6 DEF RefundCommit
  <2>5. payment[p].inv # None => payment[p].status \in Active
    BY <2>4 DEF SettledInv, Settled, Inv, HandlersOK, HandlerOK, Reversing
  <2> QED
    BY <2>2, <2>3, <2>4, <2>5, SettledReverse
<1> QED
  BY <1>1, <1>2, <1>4, <1>5, <1>6 DEF ReverseStep

\* The steps of the Stripe webhook.
LEMMA WebhookStepSettled ==
  ASSUME OneAtATime, Inv, SettledInv, NEW r \in Requests, WebhookStep(r)
  PROVE  SettledInv'
<1>1. ASSUME NEW pi \in Intents, ReconcileRead(r, pi) \/ FailedRead(r, pi)
      PROVE  SettledInv'
  <2> PICK i \in Invoices : i = intent[pi].inv
    BY <1>1 DEF ReconcileRead, FailedRead, Inv, IntentsOK, TypeOK, IntentRow
  <2>1. PICK h : /\ h.op \in {"hook", "hookFailed"} /\ h.inv = i /\ h.intent = pi
                 /\ h.amount = intent[pi].amount
                 /\ h.op = "hook" => h.seen = invoice[i]
                 /\ Begin(r, h)
    <3>1. CASE ReconcileRead(r, pi)
      BY <3>1 DEF ReconcileRead, Idle
    <3>2. CASE FailedRead(r, pi)
      BY <3>2 DEF FailedRead, Idle
    <3> QED
      BY <1>1, <3>1, <3>2
  <2>2. UNCHANGED <<invoice, payment, intent>> /\ MayStart(r, i)
    BY <1>1 DEF ReconcileRead, FailedRead
  <2>3. intent[pi].amount > 0
    BY NoneAssumption DEF SettledInv, IntentsPriced
  <2>4. Settled(r)'
    BY <2>1, <2>2, <2>3 DEF Settled, Begin, Inv, TypeOK
  <2> QED
    BY <2>1, <2>2, <2>4, SettledStart
<1>2. ASSUME ReconcileCheck(r)
      PROVE  SettledInv'
  <2> DEFINE h == [req[r] EXCEPT !.op = "hookNew"]
  <2> PICK pi : pi = req[r].intent
    OBVIOUS
  <2>1. /\ UNCHANGED <<invoice, payment, intent>> /\ InFlight(r) /\ req[r].op = "hook" /\ Settled(r)
        /\ Finish(r) \/ (Begin(r, h) /\ ~ AlreadyRecorded(pi, "succeeded"))
    BY <1>2 DEF ReconcileCheck, InFlight, SettledInv
  <2>2. /\ h.op = "hookNew" /\ h.inv = req[r].inv /\ h.amount = req[r].amount
        /\ h.seen = req[r].seen /\ h.intent = pi
    BY DEF Inv, TypeOK, Request
  <2> HIDE DEF h
  <2>3. CASE Finish(r)
    BY <2>1, <2>3, SettledFinish
  <2>4. CASE Begin(r, h) /\ ~ AlreadyRecorded(pi, "succeeded")
    <3>1. req'[r] = h /\ \A q \in Requests \ {r} : req'[q] = req[q]
      BY <2>4 DEF Begin, Inv, TypeOK
    <3>2. ~ AlreadyRecorded(pi, "succeeded")'
      BY <2>1, <2>4 DEF AlreadyRecorded
    <3>3. Settled(r)'
      BY <2>1, <2>2, <3>1, <3>2 DEF Settled, AlreadyRecorded
    <3> QED
      BY <2>1, <2>2, <3>1, <3>3, IsAlone, SettledHandler
  <2> QED
    BY <2>1, <2>3, <2>4
<1>3. ASSUME NEW p \in Payments, ReconcileCommit(r, p)
      PROVE  SettledInv'
  <2> PICK i \in Invoices : i = req[r].inv
    BY <1>3 DEF ReconcileCommit, Inv, HandlersOK, HandlerOK, OnInvoice
  <2> PICK pi \in Intents : pi = req[r].intent
    BY <1>3 DEF ReconcileCommit, Inv, HandlersOK, HandlerOK, Hooks
  <2>1. req[r].op = "hookNew" /\ InFlight(r) /\ Settled(r)
    BY <1>3 DEF ReconcileCommit, InFlight, SettledInv
  <2>2. /\ req[r].seen = invoice[i] /\ invoice[i] \in InvoiceRow /\ req[r].amount \in Nat /\ req[r].amount > 0
        /\ intent[pi].inv = i /\ ~ AlreadyRecorded(pi, "succeeded")
    BY <2>1, NoneAssumption DEF Settled, Inv, TypeOK, Request
  <2> PICK paid \in Nat : paid = invoice[i].amountPaid + req[r].amount
    BY <2>2 DEF InvoiceRow
  <2> PICK status : status = IF paid >= invoice[i].total THEN "paid" ELSE "partial"
    OBVIOUS
  <2>3. paid > 0 /\ status \notin {"draft", "void"} /\ status = StatusAfterPayment(invoice[i].total, paid, status)
    BY <2>2 DEF StatusAfterPayment, InvoiceRow
  <2>4. ReconciledPaid(r) = paid /\ RecordedPaid(r) = paid
    BY <2>2 DEF ReconciledPaid, RecordedPaid
  <2>5. /\ Finish(r) /\ UNCHANGED intent
        /\ InsertPayment(p, "succeeded", {}, req[r].amount, i, CustomerOf[i], pi)
        /\ invoice' = [invoice EXCEPT ![i].amountPaid = paid, ![i].status = status]
    BY <1>3, <2>2, <2>4 DEF ReconcileCommit
  <2> QED
    BY <2>1, <2>2, <2>3, <2>5, SettledCollect
<1>4. ASSUME NEW p \in Payments, FailedCommit(r, p)
      PROVE  SettledInv'
  <2> DEFINE h == [req[r] EXCEPT !.op = "hookFailedHistory", !.pay = p]
  <2> PICK i \in Invoices : i = req[r].inv
    BY <1>4 DEF FailedCommit, Inv, HandlersOK, HandlerOK, OnInvoice
  <2> PICK pi \in Intents : pi = req[r].intent
    BY <1>4 DEF FailedCommit, Inv, HandlersOK, HandlerOK, Hooks
  <2>1. InFlight(r) /\ Settled(r) /\ req[r].op = "hookFailed" /\ UNCHANGED <<invoice, intent>> /\ Begin(r, h)
    BY <1>4 DEF FailedCommit, InFlight, SettledInv
  <2>2. h.op = "hookFailedHistory" /\ h.inv = i
    BY DEF Inv, TypeOK, Request
  <2> HIDE DEF h
  <2>3. req'[r] = h /\ \A q \in Requests \ {r} : req'[q] = req[q]
    BY <2>1 DEF Begin, Inv, TypeOK
  <2>4. /\ payment[p].status = "unused" /\ payment'[p].status = "failed"
        /\ payment'[p].inv = i /\ payment'[p].intent = pi /\ intent[pi].inv = i
        /\ \A q \in Payments \ {p} : payment'[q] = payment[q]
    BY <1>4, <2>1 DEF FailedCommit, InsertPayment, Settled, Inv, TypeOK
  <2>5. OnlyOn(i)
    BY <2>1, <2>4 DEF OnlyOn, Kept
  <2>6. BalanceRight(i)' /\ VoidRight(i)'
    <3>1. BalanceRight(i) /\ VoidRight(i)
      BY DEF SettledInv
    <3> QED
      BY <2>1, <2>4, <3>1 DEF BalanceRight, VoidRight, HasActivePayment, Active
  <2>7. OneSucceededRow'
    BY <2>4, NoNewSucceeded
  <2>8. RowsOfIntents'
    BY <2>1, <2>4, NoneAssumption DEF RowsOfIntents, SettledInv
  <2>9. Settled(r)'
    BY <2>2, <2>3 DEF Settled
  <2> QED
    BY <2>1, <2>2, <2>3, <2>5, <2>6, <2>7, <2>8, <2>9, IsAlone, SettledKept
<1>5. ASSUME FailedHistory(r)
      PROVE  SettledInv'
  <2> PICK i \in Invoices : i = req[r].inv
    BY <1>5 DEF FailedHistory, Inv, HandlersOK, HandlerOK, OnInvoice
  <2>1. InFlight(r) /\ Finish(r) /\ UNCHANGED <<invoice, intent>>
    BY <1>5 DEF FailedHistory, InFlight
  <2>2. \A q \in Payments : Kept(q)
    BY <1>5 DEF FailedHistory, Kept, Inv, TypeOK, PaymentRow
  <2>3. OnlyOn(i)
    BY <2>1, <2>2 DEF OnlyOn
  <2>4. BalanceRight(i)' /\ VoidRight(i)'
    <3>1. BalanceRight(i) /\ VoidRight(i)
      BY DEF SettledInv
    <3> QED
      BY <2>1, <2>2, <3>1 DEF BalanceRight, VoidRight, HasActivePayment, Kept
  <2>5. OneSucceededRow' /\ RowsOfIntents'
    BY <2>1, <2>2, NoNewSucceeded, SameIntents DEF Kept
  <2> QED
    BY <2>1, <2>3, <2>4, <2>5, IsAlone, FinishedSettled, SettledKept
<1> QED
  BY <1>1, <1>2, <1>3, <1>4, <1>5 DEF WebhookStep

\* What happens at Stripe, and payments without an invoice.
LEMMA OtherStepSettled ==
  ASSUME Inv, SettledInv, StripeStep \/ StandaloneStep
  PROVE  SettledInv'
<1>1. /\ UNCHANGED <<invoice, req>>
      /\ \A p \in Payments : payment'[p].inv = None \/ payment'[p] = payment[p]
      /\ \A p \in Payments : payment'[p].intent = None \/ payment'[p] = payment[p]
      /\ \A p \in Payments : payment[p].status # "unused" => payment'[p] = payment[p]
      /\ \A pi \in Intents : intent[pi].inv # None => /\ intent'[pi].inv = intent[pi].inv
                                                      /\ intent'[pi].amount = intent[pi].amount
      /\ IntentsPriced'
  <2>1. CASE StripeStep
    <3>1. PICK pi \in Intents : \/ \E i \in Invoices : CreatePaymentIntent(pi, i)
                                \/ CardFails(pi) \/ CardSucceeds(pi)
      BY <2>1 DEF StripeStep
    <3>2. UNCHANGED <<invoice, payment, req>>
      BY <3>1 DEF CreatePaymentIntent, CardFails, CardSucceeds
    <3>3. \A pj \in Intents \ {pi} : intent'[pj] = intent[pj]
      BY <3>1 DEF CreatePaymentIntent, CardFails, CardSucceeds, Inv, TypeOK
    <3>4. CASE \E i \in Invoices : CreatePaymentIntent(pi, i)
      <4>1. intent[pi].inv = None /\ intent'[pi].amount > 0
        BY <3>4 DEF CreatePaymentIntent, Inv, TypeOK, IntentRow
      <4> QED
        BY <3>2, <3>3, <4>1 DEF SettledInv, IntentsPriced
    <3>5. CASE CardFails(pi) \/ CardSucceeds(pi)
      <4>1. intent'[pi].inv = intent[pi].inv /\ intent'[pi].amount = intent[pi].amount
        BY <3>5 DEF CardFails, CardSucceeds, Inv, TypeOK, IntentRow
      <4> QED
        BY <3>2, <3>3, <4>1 DEF SettledInv, IntentsPriced
    <3> QED
      BY <3>1, <3>4, <3>5
  <2>2. CASE StandaloneStep
    <3>1. PICK p \in Payments, c \in Customers, a \in Amounts : RecordStandalone(p, c, a)
      BY <2>2 DEF StandaloneStep
    <3>2. /\ payment[p].status = "unused" /\ payment'[p].inv = None /\ payment'[p].intent = None
          /\ \A q \in Payments \ {p} : payment'[q] = payment[q]
      BY <3>1 DEF RecordStandalone, InsertPayment, Inv, TypeOK
    <3>3. UNCHANGED <<invoice, req, intent>>
      BY <3>1 DEF RecordStandalone
    <3> QED
      BY <3>2, <3>3 DEF SettledInv, IntentsPriced
  <2> QED
    BY <2>1, <2>2
<1>2. ASSUME NEW i \in Invoices PROVE BalanceRight(i)' /\ VoidRight(i)'
  <2>1. BalanceRight(i) /\ VoidRight(i) /\ i # None
    BY NoneAssumption DEF SettledInv
  <2> QED
    BY <1>1, <2>1 DEF BalanceRight, VoidRight, HasActivePayment
<1>3. OneSucceededRow'
  BY <1>1 DEF SettledInv, OneSucceededRow
<1>4. RowsOfIntents'
  <2> SUFFICES ASSUME NEW p \in Payments, payment'[p].intent # None
               PROVE  payment'[p].inv # None /\ intent'[payment'[p].intent].inv = payment'[p].inv
    BY DEF RowsOfIntents
  <2>1. payment'[p] = payment[p] /\ payment[p].intent \in Intents
    BY <1>1 DEF Inv, TypeOK, PaymentRow
  <2> QED
    BY <1>1, <2>1 DEF SettledInv, RowsOfIntents
<1>5. Apart'
  BY <1>1 DEF SettledInv, Apart, InFlight
<1>6. ASSUME NEW r \in Requests PROVE Settled(r)'
  <2> DEFINE i == req[r].inv
  <2>1. Settled(r) /\ HandlerOK(r) /\ req'[r] = req[r]
    BY <1>1 DEF SettledInv, Inv, HandlersOK
  <2>2. i \in Invoices /\ ~ HasActivePayment(i) => ~ HasActivePayment(i)'
    BY <1>1, NoneAssumption DEF HasActivePayment
  <2>3. req[r].op \in Reversing => payment'[req[r].pay] = payment[req[r].pay]
    BY <1>1, <2>1 DEF HandlerOK
  <2>4. req[r].op \in {"hook", "hookNew", "hookFailed"} =>
            req[r].intent # None /\ intent'[req[r].intent].inv = intent[req[r].intent].inv
    BY <1>1, <2>1, NoneAssumption DEF Settled, HandlerOK, OnInvoice, Hooks
  <2>5. req[r].op = "hookNew" => ~ AlreadyRecorded(req[r].intent, "succeeded")'
    BY <1>1, <2>1, <2>4 DEF Settled, AlreadyRecorded
  <2>6. req[r].op \in OnInvoice => i \in Invoices
    BY <2>1 DEF HandlerOK
  <2> QED
    BY <1>1, <2>1, <2>2, <2>3, <2>4, <2>5, <2>6 DEF Settled, OnInvoice, Reversing
<1> QED
  BY <1>1, <1>2, <1>3, <1>4, <1>5, <1>6 DEF SettledInv

LEMMA InitSettled == Init => SettledInv
<1> SUFFICES ASSUME Init PROVE SettledInv
  OBVIOUS
<1>1. \A i \in Invoices : invoice[i].status = "draft" /\ invoice[i].amountPaid = 0
  BY DEF Init
<1>2. \A p \in Payments : payment[p].status = "unused" /\ payment[p].intent = None
  BY DEF Init, Unused
<1>3. \A r \in Requests : req[r].op = "idle"
  BY DEF Init, Idle
<1>4. \A pi \in Intents : intent[pi].inv = None
  BY DEF Init
<1>5. \A i \in Invoices : BalanceRight(i) /\ VoidRight(i)
  BY <1>1 DEF BalanceRight, VoidRight, StatusAfterPayment
<1>6. OneSucceededRow /\ RowsOfIntents
  BY <1>2 DEF OneSucceededRow, RowsOfIntents
<1>7. Apart /\ (\A r \in Requests : Settled(r))
  BY <1>3 DEF Apart, InFlight, Settled
<1> QED
  BY <1>4, <1>5, <1>6, <1>7 DEF SettledInv, IntentsPriced

LEMMA NextSettled == OneAtATime /\ Inv /\ SettledInv /\ [Next]_vars => SettledInv'
<1> SUFFICES ASSUME OneAtATime, Inv, SettledInv, [Next]_vars PROVE SettledInv'
  OBVIOUS
<1>1. CASE UNCHANGED vars
  BY <1>1 DEF vars, SettledInv, BalanceRight, VoidRight, HasActivePayment, OneSucceededRow, RowsOfIntents,
              IntentsPriced, Apart, InFlight, Settled, AlreadyRecorded
<1>2. ASSUME NEW r \in Requests, Abandon(r) PROVE SettledInv'
  BY <1>2, SettledFinish DEF Abandon
<1>3. CASE Next
  BY <1>2, <1>3, InvoiceStepSettled, RecordStepSettled, ReverseStepSettled, WebhookStepSettled, OtherStepSettled DEF Next
<1> QED
  BY <1>1, <1>3

THEOREM SettledInvariance ==
  ASSUME OneAtATime
  PROVE  Spec => []SettledInv
<1>1. Inv /\ SettledInv /\ [Next]_vars => SettledInv'
  BY NextSettled
<1> QED
  BY <1>1, Invariance, InitSettled, PTL DEF Spec

\* When no two handlers overlap on an invoice, its status is the one its
\* total and amount_paid call for (statusAfterPayment), also with the webhook
\* that writes paid or partial without asking that function, and whatever the
\* staff try that the page does not offer.
THEOREM StatusIsRight ==
  ASSUME OneAtATime
  PROVE  Spec => []StatusMatchesBalance
<1>1. SettledInv => StatusMatchesBalance
  BY DEF SettledInv, BalanceRight, StatusMatchesBalance
<1> QED
  BY <1>1, SettledInvariance, PTL

\* When no two handlers overlap on an invoice, voiding it (voidInvoice) leaves
\* no payment behind that counts, and none is recorded on it later but by a
\* webhook, which takes the invoice out of void.
THEOREM VoidIsEmpty ==
  ASSUME OneAtATime
  PROVE  Spec => []VoidHasNoActivePayment
<1>1. SettledInv => VoidHasNoActivePayment
  BY DEF SettledInv, VoidRight, HasActivePayment, VoidHasNoActivePayment
<1> QED
  BY <1>1, SettledInvariance, PTL

\* When no two handlers overlap on an invoice, a PaymentIntent has one payment
\* in status succeeded at most, however often Stripe repeats its webhook
\* (reconcilePayment).
THEOREM OneRowSucceeds ==
  ASSUME OneAtATime
  PROVE  Spec => []OneSucceededRow
<1>1. SettledInv => OneSucceededRow
  BY DEF SettledInv
<1> QED
  BY <1>1, SettledInvariance, PTL
-----------------------------------------------------------------------------
(***************************************************************************)
(* The books balance.  Every step of the books changes what is kept of one *)
(* payment, so one term of two sums: that of its invoice, and that of its  *)
(* customer.                                                               *)
(***************************************************************************)
Account == [p \in Payments |-> IF Booked(p) THEN payment[p].inv ELSE None]
Holder  == [p \in Payments |-> IF Booked(p) THEN payment[p].cust ELSE None]
NetOf   == [p \in Payments |-> Net(p)]
Paid    == [i \in Invoices |-> invoice[i].amountPaid]

Posted == {p \in Payments : Booked(p)}

\* There are finitely many payments at any time.
LedgerInv == IsFiniteSet(Posted) /\ LedgerBalanced

\* What holds of the rows of the books.
LEMMA BookRows ==
  ASSUME Inv, BooksInv
  PROVE  /\ NetOf \in [Payments -> Nat]
         /\ \A p \in Payments : /\ p \notin Posted => Holder[p] = None /\ Account[p] = None /\ NetOf[p] = 0
                                /\ p \in Posted => Holder[p] \in Customers /\ Holder[p] # None
<1>1. ASSUME NEW p \in Payments PROVE Net(p) \in Nat
  BY DEF Inv, TypeOK, PaymentRow, BooksInv, RowBooked, Booked, Net, Collected, Refundable
<1>2. ASSUME NEW p \in Payments, p \notin Posted
      PROVE  Holder[p] = None /\ Account[p] = None /\ NetOf[p] = 0
  BY <1>2 DEF Posted, Holder, Account, NetOf, Net, Booked, Collected
<1>3. ASSUME NEW p \in Payments, p \in Posted PROVE Holder[p] \in Customers /\ Holder[p] # None
  BY <1>3, NoneAssumption DEF Posted, Holder, Inv, RowsOK, RowOK, Booked, TypeOK, PaymentRow
<1> QED
  BY <1>1, <1>2, <1>3 DEF NetOf

Keyed(a, k) == {q \in Payments : a[q] = k}
KeyedSum(f, a, k) == SumFunctionOnSet(f, Keyed(a, k))

\* The sum under k moves by what payment p, now under k, has changed by.
SumFollows(f, g, a, b, k, p) ==
    /\ KeyedSum(g, b, k) \in Nat
    /\ KeyedSum(g, b, k) = IF b[p] = k THEN KeyedSum(f, a, k) + (g[p] - f[p]) ELSE KeyedSum(f, a, k)

\* The sum under one key, when a payment is posted: the key of no other
\* payment and the net of no other payment changes.
LEMMA KeyedSumMoves ==
  ASSUME NEW f, NEW g, NEW a, NEW b, NEW k, NEW p,
         IsFiniteSet(Keyed(a, k)), IsFiniteSet(Keyed(b, k)),
         f \in [Payments -> Nat], g \in [Payments -> Nat], p \in Payments,
         \A q \in Payments \ {p} : a[q] = b[q] /\ f[q] = g[q],
         a[p] = b[p] \/ f[p] = 0
  PROVE  SumFollows(f, g, a, b, k, p)
<1> DEFINE S == Keyed(a, k)
           T == Keyed(b, k)
<1>1. S \ {p} = T \ {p} /\ (\A q \in S \ {p} : f[q] = g[q]) /\ S \subseteq Payments /\ T \subseteq Payments
  BY DEF Keyed
<1>2. SumFunctionOnSet(g, T) = SumFunctionOnSet(f, S) - Part(f, S, p) + Part(g, T, p)
  BY <1>1, SumMoves
<1>3. SumFunctionOnSet(f, S) \in Nat /\ SumFunctionOnSet(g, T) \in Nat
  <2>1. (\A x \in S : f[x] \in Nat) /\ (\A x \in T : g[x] \in Nat)
    BY <1>1
  <2> HIDE DEF S, T
  <2> QED
    BY <2>1, SumIsNat DEF S, T
<1>4. b[p] = k => Part(g, T, p) = g[p] /\ Part(f, S, p) = f[p]
  BY DEF Part, Keyed
<1>5. b[p] # k => Part(g, T, p) = 0 /\ Part(f, S, p) = 0
  BY DEF Part, Keyed
<1> HIDE DEF S, T
<1>6. /\ SumFunctionOnSet(g, T) \in Nat
      /\ SumFunctionOnSet(g, T) = IF b[p] = k THEN SumFunctionOnSet(f, S) + (g[p] - f[p]) ELSE SumFunctionOnSet(f, S)
  BY <1>2, <1>3, <1>4, <1>5
<1> QED
  BY <1>6 DEF SumFollows, KeyedSum, S, T

BalancedIn(a, h, n, paid, ltv) ==
    /\ \A i \in Invoices : paid[i] = KeyedSum(n, a, i)
    /\ \A c \in Customers : ltv[c] = KeyedSum(n, h, c)

\* The books sum as SumFunctionOnSet does.
LEMMA LedgerSums == ASSUME NEW f, NEW S PROVE Ledger!SumFunctionOnSet(f, S) = SumFunctionOnSet(f, S)
  BY DEF SumFunctionOnSet, FoldFunctionOnSet, MapThenFoldSet,
         Ledger!SumFunctionOnSet, Ledger!FoldFunctionOnSet, Ledger!MapThenFoldSet

LEMMA LedgerIsBalanced ==
  /\ LedgerBalanced <=> BalancedIn(Account, Holder, NetOf, Paid, lifetimeValue)
  /\ LedgerBalanced' <=> BalancedIn(Account', Holder', NetOf', Paid', lifetimeValue')
  BY LedgerSums DEF LedgerBalanced, BalancedIn, KeyedSum, Keyed, Account, Holder, NetOf, Paid,
                    Ledger!Balanced, Ledger!KeptFor, Ledger!KeptFrom

\* The shape of the books.
BookShape(a, h, n, paid, ltv) ==
    /\ n \in [Payments -> Nat]
    /\ paid \in [Invoices -> Nat]
    /\ ltv \in [Customers -> Nat]
    /\ IsFiniteSet({q \in Payments : h[q] # None})
    /\ \A q \in Payments : h[q] = None => a[q] = None /\ n[q] = 0

\* Payment p, of invoice i and customer c, is posted.
PostedOne(a, h, n, paid, ltv, b, g, m, paid2, ltv2, p, i, c) ==
    /\ \A q \in Payments \ {p} : b[q] = a[q] /\ g[q] = h[q] /\ m[q] = n[q]
    /\ b[p] = i /\ g[p] = c
    /\ (a[p] = i /\ h[p] = c) \/ n[p] = 0
    /\ paid2 = IF i = None THEN paid ELSE [paid EXCEPT ![i] = Ledger!Move(@, m[p] - n[p])]
    /\ ltv2 = [ltv EXCEPT ![c] = Ledger!Move(@, m[p] - n[p])]

\* Posting keeps the balance.
LEMMA PostBalances ==
  ASSUME NEW a, NEW h, NEW n, NEW paid, NEW ltv, NEW b, NEW g, NEW m, NEW paid2, NEW ltv2,
         BookShape(a, h, n, paid, ltv), BookShape(b, g, m, paid2, ltv2), BalancedIn(a, h, n, paid, ltv),
         NEW p \in Payments, NEW i \in Invoices \cup {None}, NEW c \in Customers,
         PostedOne(a, h, n, paid, ltv, b, g, m, paid2, ltv2, p, i, c)
  PROVE  BalancedIn(b, g, m, paid2, ltv2)
<1> USE DEF BookShape, PostedOne
<1>1. ASSUME NEW j \in Invoices PROVE paid2[j] = KeyedSum(m, b, j)
  <2>1. IsFiniteSet(Keyed(a, j)) /\ IsFiniteSet(Keyed(b, j))
    <3>1. Keyed(a, j) \subseteq {q \in Payments : h[q] # None} /\ Keyed(b, j) \subseteq {q \in Payments : g[q] # None}
      BY NoneAssumption DEF Keyed
    <3> QED
      BY <3>1, FS_Subset
  <2>2. paid[j] = KeyedSum(n, a, j)
    BY DEF BalancedIn
  <2>3. (\A q \in Payments \ {p} : a[q] = b[q] /\ n[q] = m[q]) /\ (a[p] = b[p] \/ n[p] = 0)
    OBVIOUS
  <2>4. SumFollows(n, m, a, b, j, p)
    BY <2>1, <2>3, KeyedSumMoves
  <2> QED
    BY <2>2, <2>4, NoneAssumption DEF SumFollows, Ledger!Move
<1>2. ASSUME NEW d \in Customers PROVE ltv2[d] = KeyedSum(m, g, d)
  <2>1. IsFiniteSet(Keyed(h, d)) /\ IsFiniteSet(Keyed(g, d))
    <3>1. Keyed(h, d) \subseteq {q \in Payments : h[q] # None} /\ Keyed(g, d) \subseteq {q \in Payments : g[q] # None}
      BY NoneAssumption DEF Keyed
    <3> QED
      BY <3>1, FS_Subset
  <2>2. ltv[d] = KeyedSum(n, h, d)
    BY DEF BalancedIn
  <2>3. (\A q \in Payments \ {p} : h[q] = g[q] /\ n[q] = m[q]) /\ (h[p] = g[p] \/ n[p] = 0)
    OBVIOUS
  <2>4. SumFollows(n, m, h, g, d, p)
    BY <2>1, <2>3, KeyedSumMoves
  <2> QED
    BY <2>2, <2>4 DEF SumFollows, Ledger!Move
<1> QED
  BY <1>1, <1>2 DEF BalancedIn

\* A step of the books, in these names.
LEMMA BooksNext ==
  ASSUME Inv, Inv', BooksInv, BooksInv', Ledger!Next
  PROVE  \E p \in Payments, i \in Invoices \cup {None}, c \in Customers :
            PostedOne(Account, Holder, NetOf, Paid, lifetimeValue,
                      Account', Holder', NetOf', Paid', lifetimeValue', p, i, c)
<1>1. PICK p \in Payments : (\E i \in Invoices \cup {None}, c \in Customers : Ledger!Collect(p, i, c)) \/ Ledger!GiveBack(p)
  BY DEF Ledger!Next
<1>2. DOMAIN Holder = Payments /\ DOMAIN Account = Payments /\ DOMAIN NetOf = Payments
  BY DEF Holder, Account, NetOf
<1>3. CASE \E i \in Invoices \cup {None}, c \in Customers : Ledger!Collect(p, i, c)
  <2>1. PICK i \in Invoices \cup {None}, c \in Customers : Ledger!Collect(p, i, c)
    BY <1>3
  <2>2. /\ Holder[p] = None
        /\ Holder' = [Holder EXCEPT ![p] = c] /\ Account' = [Account EXCEPT ![p] = i]
        /\ NetOf' = [NetOf EXCEPT ![p] = NetOf'[p]]
        /\ Paid' = IF i = None THEN Paid ELSE [Paid EXCEPT ![i] = Ledger!Move(@, NetOf'[p] - NetOf[p])]
        /\ lifetimeValue' = [lifetimeValue EXCEPT ![c] = Ledger!Move(@, NetOf'[p] - NetOf[p])]
    BY <2>1 DEF Ledger!Collect, Ledger!Post, Holder, Account, NetOf, Paid
  <2>3. NetOf[p] = 0
    BY <2>2, BookRows
  <2>4. PostedOne(Account, Holder, NetOf, Paid, lifetimeValue,
                  Account', Holder', NetOf', Paid', lifetimeValue', p, i, c)
    BY <1>2, <2>2, <2>3 DEF PostedOne
  <2> QED
    BY <2>4
<1>4. CASE Ledger!GiveBack(p)
  <2>1. PICK i, c : i = Account[p] /\ c = Holder[p]
    OBVIOUS
  <2>2. /\ Holder[p] # None
        /\ Holder' = Holder /\ Account' = Account
        /\ NetOf' = [NetOf EXCEPT ![p] = NetOf'[p]]
        /\ Paid' = IF i = None THEN Paid ELSE [Paid EXCEPT ![i] = Ledger!Move(@, NetOf'[p] - NetOf[p])]
        /\ lifetimeValue' = [lifetimeValue EXCEPT ![c] = Ledger!Move(@, NetOf'[p] - NetOf[p])]
    BY <1>4, <2>1 DEF Ledger!GiveBack, Ledger!Post, Holder, Account, NetOf, Paid
  <2>3. c \in Customers
    BY <2>1, <2>2, BookRows
  <2>4. i \in Invoices \cup {None}
    BY <2>1 DEF Account, Inv, TypeOK, PaymentRow
  <2>5. PostedOne(Account, Holder, NetOf, Paid, lifetimeValue,
                  Account', Holder', NetOf', Paid', lifetimeValue', p, i, c)
    BY <1>2, <2>1, <2>2 DEF PostedOne
  <2> QED
    BY <2>3, <2>4, <2>5
<1> QED
  BY <1>1, <1>3, <1>4

LEMMA LedgerStep ==
  ASSUME Inv, Inv', BooksInv, BooksInv', LedgerInv, [Ledger!Next]_(Ledger!vars)
  PROVE  LedgerInv'
<1>1. /\ NetOf' \in [Payments -> Nat]
      /\ \A p \in Payments : /\ p \notin Posted' => Holder'[p] = None /\ Account'[p] = None /\ NetOf'[p] = 0
                             /\ p \in Posted' => Holder'[p] \in Customers /\ Holder'[p] # None
  <2>1. ASSUME NEW p \in Payments PROVE Net(p)' \in Nat
    BY DEF Inv, TypeOK, PaymentRow, BooksInv, RowBooked, Booked, Net, Collected, Refundable
  <2>2. ASSUME NEW p \in Payments, p \notin Posted'
        PROVE  Holder'[p] = None /\ Account'[p] = None /\ NetOf'[p] = 0
    BY <2>2 DEF Posted, Holder, Account, NetOf, Net, Booked, Collected
  <2>3. ASSUME NEW p \in Payments, p \in Posted' PROVE Holder'[p] \in Customers /\ Holder'[p] # None
    BY <2>3, NoneAssumption DEF Posted, Holder, Inv, RowsOK, RowOK, Booked, TypeOK, PaymentRow
  <2> QED
    BY <2>1, <2>2, <2>3 DEF NetOf
<1>2. Posted = {q \in Payments : Holder[q] # None} /\ Posted' = {q \in Payments : Holder'[q] # None}
  <2>1. Posted \subseteq Payments /\ Posted' \subseteq Payments
    BY DEF Posted
  <2> QED
    BY <1>1, <2>1, BookRows
<1>3. BalancedIn(Account, Holder, NetOf, Paid, lifetimeValue)
  BY LedgerIsBalanced DEF LedgerInv
<1>4. BookShape(Account, Holder, NetOf, Paid, lifetimeValue)
  <2>1. Paid \in [Invoices -> Nat] /\ lifetimeValue \in [Customers -> Nat]
    BY DEF Paid, Inv, TypeOK, InvoiceRow
  <2> QED
    BY <1>2, <2>1, BookRows DEF BookShape, LedgerInv
<1>5. CASE Ledger!Next
  <2>1. PICK p \in Payments, i \in Invoices \cup {None}, c \in Customers :
            PostedOne(Account, Holder, NetOf, Paid, lifetimeValue,
                      Account', Holder', NetOf', Paid', lifetimeValue', p, i, c)
    BY <1>5, BooksNext
  <2>2. IsFiniteSet(Posted')
    <3>1. Posted' \subseteq Posted \cup {p}
      BY <1>2, <2>1 DEF PostedOne
    <3>2. IsFiniteSet(Posted \cup {p})
      BY FS_AddElement DEF LedgerInv
    <3> QED
      BY <3>1, <3>2, FS_Subset
  <2>3. BookShape(Account', Holder', NetOf', Paid', lifetimeValue')
    <3>1. Paid' \in [Invoices -> Nat] /\ lifetimeValue' \in [Customers -> Nat]
      BY DEF Paid, Inv, TypeOK, InvoiceRow
    <3> QED
      BY <1>1, <1>2, <2>2, <3>1 DEF BookShape
  <2>4. BalancedIn(Account', Holder', NetOf', Paid', lifetimeValue')
    BY <1>3, <1>4, <2>1, <2>3, PostBalances
  <2> QED
    BY <2>2, <2>4, LedgerIsBalanced DEF LedgerInv
<1>6. CASE UNCHANGED Ledger!vars
  <2>1. Account' = Account /\ Holder' = Holder /\ NetOf' = NetOf /\ Paid' = Paid /\ lifetimeValue' = lifetimeValue
    BY <1>6 DEF Ledger!vars, Account, Holder, NetOf, Paid
  <2>2. Posted' = Posted
    BY <1>2, <2>1
  <2> QED
    BY <1>3, <2>1, <2>2, LedgerIsBalanced DEF LedgerInv
<1> QED
  BY <1>5, <1>6

LEMMA InitLedger == Init => LedgerInv
<1> SUFFICES ASSUME Init PROVE LedgerInv
  OBVIOUS
<1>1. /\ \A p \in Payments : Account[p] = None /\ Holder[p] = None
      /\ \A i \in Invoices : Paid[i] = 0
      /\ \A c \in Customers : lifetimeValue[c] = 0
      /\ Posted = {}
  BY DEF Init, Unused, Booked, Account, Holder, Paid, Posted
<1>2. (\A i \in Invoices : Keyed(Account, i) = {}) /\ (\A c \in Customers : Keyed(Holder, c) = {})
  BY <1>1, NoneAssumption DEF Keyed
<1>3. BalancedIn(Account, Holder, NetOf, Paid, lifetimeValue)
  BY <1>1, <1>2, SumEmpty DEF BalancedIn, KeyedSum
<1> QED
  BY <1>1, <1>3, FS_EmptySet, LedgerIsBalanced DEF LedgerInv

LEMMA LedgerInvariance ==
  ASSUME CarefulStaff, OneAtATime
  PROVE  Spec => [](BooksInv /\ LedgerInv)
<1>1. Init => BooksInv /\ LedgerInv
  BY InitBooks, InitLedger
<1>2. Inv /\ Inv' /\ BooksInv /\ LedgerInv /\ [Next]_vars => BooksInv' /\ LedgerInv'
  BY NextBooks, LedgerStep DEF BooksStep
<1> QED
  BY <1>1, <1>2, Invariance, PTL DEF Spec

\* When no two handlers overlap on an invoice and the staff do what the
\* invoice page offers, the three copies of the money agree at all times,
\* for any number of payments, invoices and customers: amount_paid is the sum
\* of what is kept of the invoice's payments, lifetime_value of the customer's
\* (recordPayment, voidPayment, refundPayment, reconcilePayment).
THEOREM LedgerBalances ==
  ASSUME CarefulStaff, OneAtATime
  PROVE  Spec => []LedgerBalanced
<1>1. LedgerInv => LedgerBalanced
  BY DEF LedgerInv
<1> QED
  BY <1>1, LedgerInvariance, PTL

-----------------------------------------------------------------------------
(***************************************************************************)
(* What the staff record fits the invoice: what a handler is about to      *)
(* record fits the invoice as it read it, and so, alone on it, as it is.   *)
(***************************************************************************)
Fits(r) == req[r].op = "record" => req[r].seen.amountPaid + req[r].amount <= req[r].seen.total + Cent

AllFit == \A r \in Requests : Fits(r)

\* A step of handler r that ends, or goes on as h.
LEMMA FitKept ==
  ASSUME Inv, AllFit, NEW r \in Requests, NEW h, Begin(r, h),
         h.op = "record" => h.seen.amountPaid + h.amount <= h.seen.total + Cent
  PROVE  AllFit'
<1>1. req'[r] = h /\ \A q \in Requests \ {r} : req'[q] = req[q]
  BY DEF Begin, Inv, TypeOK
<1> QED
  BY <1>1 DEF AllFit, Fits

LEMMA FitFinish ==
  ASSUME Inv, AllFit, NEW r \in Requests, Finish(r)
  PROVE  AllFit'
<1>1. Begin(r, Idle) /\ Idle.op = "idle"
  BY DEF Begin, Finish, Idle
<1> QED
  BY <1>1, FitKept

\* The steps of a handler that neither begins nor goes on recording.
LEMMA OtherStepFit ==
  ASSUME Inv, AllFit, NEW r \in Requests, NEW h, h.op # "record", Begin(r, h)
  PROVE  AllFit'
  BY FitKept

LEMMA HandlerFit ==
  ASSUME Inv, AllFit, NEW r \in Requests,
         InvoiceStep(r) \/ RecordStep(r) \/ ReverseStep(r) \/ WebhookStep(r) \/ Abandon(r)
  PROVE  AllFit'
<1>1. ASSUME NEW i \in Invoices, NEW a \in Amounts, RecordRead(r, i, a)
      PROVE  AllFit'
  <2> DEFINE h == [Idle EXCEPT !.op = "record", !.inv = i, !.amount = a, !.seen = invoice[i]]
  <2>1. h.seen = invoice[i] /\ h.amount = a /\ Begin(r, h) /\ a <= BalanceDue(i) + Cent
    BY <1>1 DEF RecordRead, CanRecord, Idle
  <2>2. invoice[i].amountPaid \in Nat /\ invoice[i].total \in Nat /\ a \in Nat
    BY MoneyAssumption DEF Inv, TypeOK, InvoiceRow
  <2>3. invoice[i].amountPaid + a <= invoice[i].total + Cent
    BY <2>1, <2>2 DEF BalanceDue, Cent
  <2> HIDE DEF h
  <2> QED
    BY <2>1, <2>3, FitKept
<1>2. CASE Finish(r)
  BY <1>2, FitFinish
<1>3. ASSUME NEW i \in Invoices, UpdateRead(r, i) \/ SendRead(r, i) \/ VoidInvoiceRead(r, i)
      PROVE  AllFit'
  <2>1. PICK op \in {"update", "send", "voidInvoice"} : Begin(r, [Idle EXCEPT !.op = op, !.inv = i])
    BY <1>3 DEF UpdateRead, SendRead, VoidInvoiceRead
  <2> QED
    BY <2>1, OtherStepFit DEF Idle
<1>4. ASSUME NEW p \in Payments, NEW a, VoidPaymentRead(r, p) \/ RefundRead(r, p, a)
      PROVE  AllFit'
  <2>1. CASE VoidPaymentRead(r, p)
    BY <2>1, OtherStepFit DEF VoidPaymentRead, Idle
  <2>2. CASE RefundRead(r, p, a)
    BY <2>2, OtherStepFit DEF RefundRead, Idle
  <2> QED
    BY <1>4, <2>1, <2>2
<1>5. ASSUME NEW pi \in Intents, ReconcileRead(r, pi) \/ FailedRead(r, pi)
      PROVE  AllFit'
  <2>1. CASE ReconcileRead(r, pi)
    BY <2>1, OtherStepFit DEF ReconcileRead, Idle
  <2>2. CASE FailedRead(r, pi)
    BY <2>2, OtherStepFit DEF FailedRead, Idle
  <2> QED
    BY <1>5, <2>1, <2>2
<1>6. ASSUME NEW op \in Ops \ {"record"}, NEW pay, NEW seen,
             \/ Begin(r, [req[r] EXCEPT !.op = op])
             \/ Begin(r, [req[r] EXCEPT !.op = op, !.pay = pay])
             \/ Begin(r, [req[r] EXCEPT !.op = op, !.seen = seen])
      PROVE  AllFit'
  <2>0. req[r] \in Request
    BY DEF Inv, TypeOK
  <2>1. /\ [req[r] EXCEPT !.op = op].op = op
        /\ [req[r] EXCEPT !.op = op, !.pay = pay].op = op
        /\ [req[r] EXCEPT !.op = op, !.seen = seen].op = op
    BY <2>0 DEF Request
  <2> QED
    BY <1>6, <2>1, OtherStepFit
<1>7. VoidInvoiceCheck(r) \/ VoidPaymentBegin(r) \/ RefundBegin(r) \/ ReconcileCheck(r) => AllFit'
  BY <1>2, <1>6 DEF VoidInvoiceCheck, VoidPaymentBegin, RefundBegin, BeginTx, ReconcileCheck, Ops
<1>8. ASSUME NEW p \in Payments, FailedCommit(r, p)
      PROVE  AllFit'
  BY <1>6, <1>8 DEF FailedCommit, Ops
<1>9. ASSUME \/ \E t \in Totals : UpdateWrite(r, t)
             \/ SendWrite(r) \/ VoidInvoiceWrite(r) \/ RecordRollback(r)
             \/ \E p \in Payments : RecordCommit(r, p) \/ ReconcileCommit(r, p)
             \/ VoidPaymentCommit(r) \/ RefundCommit(r) \/ FailedHistory(r) \/ Abandon(r)
      PROVE  Finish(r)
  BY <1>9 DEF UpdateWrite, SendWrite, VoidInvoiceWrite, RecordRollback, RecordCommit, ReconcileCommit,
              VoidPaymentCommit, RefundCommit, FailedHistory, Abandon
<1>10. InvoiceStep(r) => AllFit'
  BY <1>2, <1>3, <1>7, <1>9 DEF InvoiceStep
<1>11. RecordStep(r) => AllFit'
  BY <1>1, <1>2, <1>9 DEF RecordStep
<1>12. ReverseStep(r) => AllFit'
  BY <1>2, <1>4, <1>7, <1>9 DEF ReverseStep
<1>13. WebhookStep(r) => AllFit'
  BY <1>2, <1>5, <1>7, <1>8, <1>9 DEF WebhookStep
<1> QED
  BY <1>2, <1>9, <1>10, <1>11, <1>12, <1>13

LEMMA NextFit == Inv /\ AllFit /\ [Next]_vars => AllFit'
<1> SUFFICES ASSUME Inv, AllFit, [Next]_vars PROVE AllFit'
  OBVIOUS
<1>1. CASE StandaloneStep \/ StripeStep \/ UNCHANGED vars
  <2>1. req' = req
    BY <1>1 DEF StandaloneStep, RecordStandalone, StripeStep, CreatePaymentIntent, CardFails, CardSucceeds, vars
  <2> QED
    BY <2>1 DEF AllFit, Fits
<1> QED
  BY <1>1, HandlerFit DEF Next

\* A succeeded row with no intent on an invoice is inserted by recordPayment.
LEMMA InsertedByStaff ==
  ASSUME Inv, [Next]_vars, NEW p \in Payments, NEW i \in Invoices,
         payment[p].status = "unused", payment'[p].status = "succeeded",
         payment'[p].inv = i, payment'[p].intent = None
  PROVE  \E r \in Requests : RecordCommit(r, p) /\ req[r].inv = i
<1>1. payment' # payment
  BY DEF Inv
<1>2. ASSUME NEW q \in Payments, NEW s, NEW h, NEW a, NEW j, NEW c, NEW pi, InsertPayment(q, s, h, a, j, c, pi)
      PROVE  q = p /\ j = i /\ pi = None /\ s = "succeeded"
  BY <1>2 DEF InsertPayment, Inv, TypeOK
<1>3. ASSUME NEW r \in Requests PROVE ~ (VoidPaymentCommit(r) \/ RefundCommit(r) \/ FailedHistory(r))
  <2>1. req[r].op \in Reversing \cup {"hookFailedHistory"} => req[r].pay # p
    BY DEF Inv, HandlersOK, HandlerOK
  <2>3. CASE VoidPaymentCommit(r)
    BY <2>1, <2>3 DEF VoidPaymentCommit, Inv, TypeOK, Reversing
  <2>4. CASE RefundCommit(r)
    BY <2>1, <2>4 DEF RefundCommit, Inv, TypeOK, Reversing
  <2>5. CASE FailedHistory(r)
    BY <2>1, <2>5 DEF FailedHistory, Inv, TypeOK
  <2> QED
    BY <2>3, <2>4, <2>5
<1>4. ASSUME NEW r \in Requests, InvoiceStep(r) \/ Abandon(r)
      PROVE  payment' = payment
  BY <1>4 DEF InvoiceStep, Abandon, UpdateRead, UpdateWrite, SendRead, SendWrite,
              VoidInvoiceRead, VoidInvoiceCheck, VoidInvoiceWrite
<1>5. ASSUME NEW r \in Requests PROVE ~ ReverseStep(r)
  BY <1>1, <1>3 DEF ReverseStep, VoidPaymentRead, RefundRead, VoidPaymentBegin, RefundBegin, BeginTx
<1>6. ASSUME NEW r \in Requests PROVE ~ WebhookStep(r)
  <2>1. ASSUME NEW q \in Payments PROVE ~ (ReconcileCommit(r, q) \/ FailedCommit(r, q))
    <3>1. CASE ReconcileCommit(r, q)
      BY <1>2, <3>1, NoneAssumption DEF ReconcileCommit, Inv, HandlersOK, HandlerOK, Hooks
    <3>2. CASE FailedCommit(r, q)
      BY <1>2, <3>2, NoneAssumption DEF FailedCommit, Inv, HandlersOK, HandlerOK, Hooks
    <3> QED
      BY <3>1, <3>2
  <2> QED
    BY <1>1, <1>3, <2>1 DEF WebhookStep, ReconcileRead, FailedRead, ReconcileCheck
<1>7. ~ (StripeStep \/ UNCHANGED vars)
  BY <1>1 DEF StripeStep, CreatePaymentIntent, CardFails, CardSucceeds, vars
<1>8. ~ StandaloneStep
  BY <1>2, NoneAssumption DEF StandaloneStep, RecordStandalone
<1>9. PICK r \in Requests : RecordStep(r)
  BY <1>1, <1>4, <1>5, <1>6, <1>7, <1>8 DEF Next
<1>10. PICK q \in Payments : RecordCommit(r, q)
  BY <1>1, <1>9 DEF RecordStep, RecordRead, RecordRollback
<1> QED
  BY <1>2, <1>10 DEF RecordCommit

\* When no two handlers overlap on an invoice and the staff do what the
\* invoice page offers, a payment they record never takes what is kept for
\* the invoice past its total and a cent, for any number of payments and of
\* PaymentIntents that were created, paid and delivered meanwhile.
THEOREM RecordingsFit ==
  ASSUME CarefulStaff, OneAtATime
  PROVE  Spec => RecordingFits
<1>1. Init => AllFit
  BY DEF Init, AllFit, Fits, Idle
<1>2. ASSUME Inv, Inv', SettledInv, AllFit, LedgerBalanced', [Next]_vars, NEW p \in Payments, NEW i \in Invoices,
             payment[p].status = "unused", payment'[p].status = "succeeded",
             payment'[p].inv = i, payment'[p].intent = None
      PROVE  Ledger!KeptFor(i)' <= invoice'[i].total + Cent
  <2>1. PICK r \in Requests : RecordCommit(r, p) /\ req[r].inv = i
    BY <1>2, InsertedByStaff
  <2>2. req[r].seen = invoice[i] /\ RecordedPaid(r) <= invoice[i].total + Cent
    BY <1>2, <2>1, NoneAssumption DEF RecordCommit, SettledInv, Settled, AllFit, Fits, RecordedPaid
  <2>3. invoice'[i].amountPaid = RecordedPaid(r) /\ invoice'[i].total = invoice[i].total
    BY <1>2, <2>1 DEF RecordCommit, Inv, TypeOK, InvoiceRow
  <2>4. Paid'[i] = Ledger!KeptFor(i)'
    BY <1>2 DEF LedgerBalanced, Ledger!Balanced, Paid
  <2>5. Paid'[i] = invoice'[i].amountPaid
    BY DEF Paid
  <2> QED
    BY <2>2, <2>3, <2>4, <2>5
<1>3. Inv /\ Inv' /\ SettledInv /\ AllFit /\ LedgerBalanced' /\ [Next]_vars =>
          [\A p \in Payments, i \in Invoices :
              /\ payment[p].status = "unused" /\ payment'[p].status = "succeeded"
              /\ payment'[p].inv = i /\ payment'[p].intent = None
              => Ledger!KeptFor(i)' <= invoice'[i].total + Cent]_vars
  BY <1>2
<1> QED
  BY <1>1, <1>3, NextFit, Invariance, SettledInvariance, LedgerBalances, PTL DEF Spec, RecordingFits

-----------------------------------------------------------------------------
(***************************************************************************)
(* A void or fully refunded payment is never opened again.                 *)
(***************************************************************************)
Reopens(p) == payment[p].status \in {"void", "refunded"} /\ payment'[p].status # payment[p].status

LEMMA NothingReopens ==
  ASSUME OneAtATime, CarefulStaff, Inv, BooksInv, [Next]_vars, NEW p \in Payments
  PROVE  ~ Reopens(p)
<1> SUFFICES ASSUME payment[p].status \in {"void", "refunded"}
             PROVE  payment'[p].status = payment[p].status
  BY DEF Reopens
<1>1. ASSUME NEW q \in Payments, NEW s, NEW l, NEW a, NEW i, NEW c, NEW pi, InsertPayment(q, s, l, a, i, c, pi)
      PROVE  payment'[p].status = payment[p].status
  BY <1>1 DEF InsertPayment, Inv, TypeOK
<1>2. ASSUME NEW r \in Requests, VoidPaymentCommit(r) \/ RefundCommit(r)
      PROVE  payment'[p].status = payment[p].status
  <2>1. payment[req[r].pay].status \in Active
    BY <1>2 DEF VoidPaymentCommit, RefundCommit, BooksInv, ReadStillHolds, Active
  <2>2. p # req[r].pay
    BY <2>1 DEF Active
  <2> QED
    BY <1>2, <2>2 DEF VoidPaymentCommit, RefundCommit, Inv, TypeOK
<1>3. ASSUME NEW r \in Requests, FailedHistory(r)
      PROVE  payment'[p].status = payment[p].status
  BY <1>3 DEF FailedHistory, Inv, TypeOK, PaymentRow
<1>4. ASSUME NEW r \in Requests, InvoiceStep(r) \/ Abandon(r)
      PROVE  payment' = payment
  BY <1>4 DEF InvoiceStep, Abandon, UpdateRead, UpdateWrite, SendRead, SendWrite,
              VoidInvoiceRead, VoidInvoiceCheck, VoidInvoiceWrite
<1>5. ASSUME NEW r \in Requests, RecordStep(r)
      PROVE  payment'[p].status = payment[p].status
  BY <1>1, <1>5 DEF RecordStep, RecordRead, RecordCommit, RecordRollback
<1>6. ASSUME NEW r \in Requests, ReverseStep(r)
      PROVE  payment'[p].status = payment[p].status
  BY <1>2, <1>6 DEF ReverseStep, VoidPaymentRead, RefundRead, VoidPaymentBegin, RefundBegin, BeginTx
<1>7. ASSUME NEW r \in Requests, WebhookStep(r)
      PROVE  payment'[p].status = payment[p].status
  BY <1>1, <1>3, <1>7 DEF WebhookStep, ReconcileRead, FailedRead, ReconcileCheck, ReconcileCommit, FailedCommit
<1>8. CASE StripeStep \/ UNCHANGED vars
  BY <1>8 DEF StripeStep, CreatePaymentIntent, CardFails, CardSucceeds, vars
<1>9. CASE StandaloneStep
  BY <1>1, <1>9 DEF StandaloneStep, RecordStandalone
<1> QED
  BY <1>4, <1>5, <1>6, <1>7, <1>8, <1>9 DEF Next

\* When no two handlers overlap on an invoice and the staff do what the
\* invoice page offers, a payment that was voided or refunded in full stays
\* that way (voidPayment and refundPayment test the status in a transaction
\* of its own, before the one that writes it).
THEOREM ClosedStaysClosed ==
  ASSUME CarefulStaff, OneAtATime
  PROVE  Spec => ClosedPaymentStaysClosed
<1>1. Inv /\ BooksInv /\ [Next]_vars =>
        [\A p \in Payments : payment[p].status \in {"void", "refunded"} => payment'[p].status = payment[p].status]_vars
  BY NothingReopens DEF Reopens
<1> QED
  BY <1>1, Invariance, LedgerInvariance, PTL DEF Spec, ClosedPaymentStaysClosed

=============================================================================
