--------------------------- MODULE CustomerRecords ---------------------------
(***************************************************************************)
(* The customers of one company and what hangs on them: CustomersService   *)
(* (create, update, soft delete, merge), the public quote that finds or    *)
(* creates a customer (QuoteWidgetService), the payments that move         *)
(* customers.lifetime_value up and down (PaymentsService) and the owner's  *)
(* permanent deletions that recount it (AdminDataService).                 *)
(*                                                                         *)
(* A transaction runs at Postgres' READ COMMITTED: one action is one read, *)
(* or the statements after which its writes are seen.  Rows that an open   *)
(* transaction has written are locked.  What an invoice owes is the        *)
(* subject of InvoicePayments: here a payment has any amount.              *)
(*                                                                         *)
(* drifted, strays, twins and excused are history variables: customers     *)
(* whose payments two handlers wrote at once; records put on a customer    *)
(* that was gone or being merged away; emails that two customers were      *)
(* given knowingly or at once; submissions sent twice at once, that failed *)
(* after their commit, or whose answer has expired.                        *)
(***************************************************************************)
EXTENDS Integers, FiniteSets, Functions

CONSTANTS
    Customers, Emails,
    Docs,           \* invoices, and estimates of quote submissions
    Payments,
    Keys,           \* idempotency keys of quote submissions
    Requests,       \* handlers that may be in flight
    None,           \* no customer, email, key
    CarefulStaff,   \* TRUE: the staff void and refund where the payments section offers
                    \* it, and refund no more than is left
    Mixes,          \* bound: the sets of request kinds that a behaviour mixes;
                    \* with "once" in it, one payment is recorded
    Amounts,        \* bound: amounts paid
    MaxInvoices     \* bound: invoices made

ASSUME AmountsAssumption == Amounts \subseteq Nat \ {0}
ASSUME NoneAssumption    == None \notin Customers \cup Emails \cup Keys
ASSUME StaffAssumption   == CarefulStaff \in BOOLEAN

VARIABLES
    kinds,          \* the kinds of requests of this behaviour
    customer,       \* [Customers -> [state, email, ltv]]
    doc,            \* [Docs -> [state, owner, key]]; key # None: an estimate
    payment,        \* [Payments -> [status, owner, docs, amount, refunded]]
    req,            \* [Requests -> handler in flight]
    answered,       \* keys whose result is in Redis
    drifted, strays, twins, excused

vars == <<kinds, customer, doc, payment, req, answered, drifted, strays, twins, excused>>
ghostVars == <<drifted, strays, twins, excused>>

Counted_NotPartly == {"succeeded", "refunded"}
\* The statuses that a recount of the lifetime value adds up.
Counted == {"succeeded", "partially_refunded", "refunded"}

CustomerState == {"unused", "live", "deleted", "merged"}
DocState      == {"unused", "there", "gone"}
PaymentStatus == Counted \cup {"unused", "failed", "void", "gone"}

Idle == [pc |-> "idle", on |-> {}, c |-> None, dup |-> None, docs |-> {}, pays |-> {},
         amount |-> 0, after |-> [status |-> "unused", refunded |-> 0],
         total |-> 0, email |-> None, key |-> None, knowing |-> FALSE, clean |-> TRUE]

Init == /\ kinds \in Mixes
        /\ customer = [c \in Customers |->
              [state |-> IF "create" \in kinds THEN "unused" ELSE "live", email |-> None, ltv |-> 0]]
        /\ doc = [d \in Docs |-> [state |-> "unused", owner |-> None, key |-> None]]
        /\ payment = [p \in Payments |-> [status |-> "unused", owner |-> None, docs |-> {},
                                          amount |-> 0, refunded |-> 0]]
        /\ req = [h \in Requests |-> Idle]
        /\ answered = {}
        /\ drifted = {} /\ strays = {} /\ twins = {} /\ excused = {}

Live(c)  == customer[c].state = "live"
There(p) == payment[p].status \notin {"unused", "gone"}

TypeOK ==
    /\ customer \in [Customers -> [state : CustomerState, email : Emails \cup {None}, ltv : Int]]
    /\ doc \in [Docs -> [state : DocState, owner : Customers \cup {None}, key : Keys \cup {None}]]
    /\ \A p \in Payments : /\ payment[p].status \in PaymentStatus
                           /\ payment[p].owner \in Customers \cup {None}
                           /\ payment[p].docs \subseteq Docs
                           /\ payment[p].amount \in Nat /\ payment[p].refunded \in Nat
    /\ \A h \in Requests : req[h].total \in Int /\ req[h].docs \subseteq Docs
    /\ answered \subseteq Keys /\ drifted \subseteq Customers /\ strays \subseteq Docs \cup Payments
    /\ twins \subseteq Emails /\ excused \subseteq Keys

-----------------------------------------------------------------------------
(* Handlers in flight. *)

Recounts(r) == r.pc \in {"move", "sum", "merge", "strike", "delete"}

\* Two handlers that may spoil each other's work.
Conflict(r, s) ==
    /\ r.pc # "idle" /\ s.pc # "idle"
    /\ \/ r.on \cap s.on # {} /\ (Recounts(r) \/ Recounts(s))
       \/ r.pays \cap s.pays # {}
       \/ r.email # None /\ r.email = s.email
       \/ r.key # None /\ r.key = s.key

Enter(h, r) ==
    req' = [g \in Requests |->
        IF g = h THEN [r EXCEPT !.clean = @ /\ ~ \E k \in Requests \ {h} : Conflict(r, req[k])]
        ELSE IF Conflict(r, req[g]) THEN [req[g] EXCEPT !.clean = FALSE] ELSE req[g]]

Finish(h) == req' = [req EXCEPT ![h] = Idle]

\* Rows that an open transaction of another handler has written.
Writing(g) == req[g].pc \in {"sum", "merge", "delete"}
Unlocked(h, docs, pays) ==
    \A g \in Requests \ {h} : Writing(g) => req[g].docs \cap docs = {} /\ req[g].pays \cap pays = {}

\* A row put on c is out of the reach of the merge that takes c away.
Stray(c) == ~ Live(c) \/ \E g \in Requests : req[g].dup = c

\* A transaction is rolled back, or the process dies before its commit.
Abort(h) ==
    /\ req[h].pc \notin {"idle", "conclude"}
    /\ Finish(h)
    /\ UNCHANGED <<kinds, customer, doc, payment, answered, ghostVars>>

-----------------------------------------------------------------------------
(* Creating and editing customers. *)

\* assertNoExactEmailConflict; but is the customer that is edited, None for a new one.
Clash_OfNew(e, but) == but = None /\ \E c \in Customers : Live(c) /\ customer[c].email = e
Clash(e, but) == \E c \in Customers \ {but} : Live(c) /\ customer[c].email = e

\* CustomersService.create, findOrCreateByEmail and the CSV import; a clash stops all of
\* them but the staff who have acknowledged it.
BeginCreate(h, e) ==
    /\ "create" \in kinds /\ req[h].pc = "idle"
    /\ \E knowing \in BOOLEAN :
          /\ Clash(e, None) => knowing
          /\ Enter(h, [Idle EXCEPT !.pc = "insert", !.email = e, !.knowing = knowing])
    /\ UNCHANGED <<kinds, customer, doc, payment, answered, ghostVars>>

Twinned(h) == IF req[h].clean /\ ~ req[h].knowing THEN twins ELSE twins \cup {req[h].email}

Insert(h) ==
    /\ req[h].pc = "insert"
    /\ \E c \in Customers :
          /\ customer[c].state = "unused"
          /\ customer' = [customer EXCEPT ![c] = [state |-> "live", email |-> req[h].email, ltv |-> 0]]
    /\ twins' = Twinned(h)
    /\ Finish(h)
    /\ UNCHANGED <<kinds, doc, payment, answered, drifted, strays, excused>>

BeginEdit(h, c, e) ==
    /\ "create" \in kinds /\ req[h].pc = "idle" /\ Live(c)
    /\ \E knowing \in BOOLEAN :
          /\ Clash(e, c) => knowing
          /\ Enter(h, [Idle EXCEPT !.pc = "edit", !.email = e, !.c = c, !.knowing = knowing])
    /\ UNCHANGED <<kinds, customer, doc, payment, answered, ghostVars>>

Edit(h) ==
    /\ req[h].pc = "edit"
    /\ customer' = [customer EXCEPT ![req[h].c].email = req[h].email]
    /\ twins' = Twinned(h)
    /\ Finish(h)
    /\ UNCHANGED <<kinds, doc, payment, answered, drifted, strays, excused>>

SoftDelete(c) ==
    /\ "create" \in kinds /\ Live(c)
    /\ customer' = [customer EXCEPT ![c].state = "deleted"]
    /\ UNCHANGED <<kinds, doc, payment, req, answered, ghostVars>>

-----------------------------------------------------------------------------
(* The public quote: one transaction for customer, property and estimate. *)

Cached_Nothing(k) == FALSE
Cached(k) == k \in answered
Submit(h, k, e) ==
    /\ "quote" \in kinds /\ req[h].pc = "idle"
    /\ ~ Cached(k)
    /\ Enter(h, [Idle EXCEPT !.pc = "find", !.key = k, !.email = e])
    /\ UNCHANGED <<kinds, customer, doc, payment, answered, ghostVars>>

Find(h) ==
    /\ req[h].pc = "find"
    /\ LET found == {c \in Customers : Live(c) /\ customer[c].email = req[h].email}
       IN  IF found = {} THEN Enter(h, [req[h] EXCEPT !.pc = "quote"])
           ELSE \E c \in found : Enter(h, [req[h] EXCEPT !.pc = "quote", !.c = c, !.on = {c}])
    /\ UNCHANGED <<kinds, customer, doc, payment, answered, ghostVars>>

NewDoc(d, c, k) ==
    /\ doc[d].state = "unused"
    /\ doc' = [doc EXCEPT ![d] = [state |-> "there", owner |-> c, key |-> k]]

Quote(h) ==
    /\ req[h].pc = "quote"
    /\ LET key == req[h].key
       IN  \E d \in Docs, c \in Customers :
             /\ IF req[h].c = None
                THEN /\ customer[c].state = "unused"
                     /\ customer' = [customer EXCEPT ![c] = [state |-> "live", email |-> req[h].email, ltv |-> 0]]
                     /\ twins' = Twinned(h)
                ELSE c = req[h].c /\ UNCHANGED <<customer, twins>>
             /\ NewDoc(d, c, key)
             /\ strays' = IF req[h].c # None /\ Stray(c) THEN strays \cup {d} ELSE strays
             /\ excused' = IF req[h].clean THEN excused ELSE excused \cup {key}
    /\ req' = [req EXCEPT ![h].pc = "conclude"]
    /\ UNCHANGED <<kinds, payment, answered, drifted>>

\* The mails and the notification, then the answer is kept; if one of them fails, or the
\* process dies, the estimate is there and the answer is not.
Conclude(h) ==
    /\ req[h].pc = "conclude"
    /\ \/ answered' = answered \cup {req[h].key} /\ UNCHANGED excused
       \/ excused' = excused \cup {req[h].key} /\ UNCHANGED answered
    /\ Finish(h)
    /\ UNCHANGED <<kinds, customer, doc, payment, drifted, strays, twins>>

\* Redis keeps an answer for a day.
Forget(k) ==
    /\ k \in answered
    /\ answered' = answered \ {k}
    /\ excused' = excused \cup {k}
    /\ UNCHANGED <<kinds, customer, doc, payment, req, drifted, strays, twins>>

\* An invoice is made for a job's customer, which may be gone by then.
NewInvoice(c, d) ==
    /\ "pay" \in kinds /\ customer[c].state # "unused"
    /\ Cardinality({e \in Docs : doc[e].state # "unused"}) < MaxInvoices
    /\ NewDoc(d, c, None)
    /\ strays' = IF Stray(c) THEN strays \cup {d} ELSE strays
    /\ UNCHANGED <<kinds, customer, payment, req, answered, drifted, twins, excused>>

-----------------------------------------------------------------------------
(* Payments. *)

BeginPay(h, a) ==
    /\ "pay" \in kinds /\ req[h].pc = "idle"
    /\ \/ \E d \in Docs, status \in {"succeeded", "failed"} :
             \* recordPayment, and the Stripe webhook: an attempt that failed is put down too
             /\ doc[d].state = "there" /\ doc[d].key = None
             /\ Enter(h, [Idle EXCEPT !.pc = "pay", !.c = doc[d].owner, !.on = {doc[d].owner},
                             !.docs = {d}, !.amount = a, !.after = [status |-> status, refunded |-> 0]])
       \/ \E c \in Customers :  \* recordStandalonePayment: a deleted customer will do
             /\ customer[c].state # "unused"
             /\ Enter(h, [Idle EXCEPT !.pc = "pay", !.c = c, !.on = {c}, !.amount = a,
                                      !.after = [status |-> "succeeded", refunded |-> 0]])
    /\ UNCHANGED <<kinds, customer, doc, payment, answered, ghostVars>>

Drift(h, cs) == IF req[h].clean THEN drifted ELSE drifted \cup cs

\* recordFailedPayment inserts a row and leaves invoice and customer as they are, so it
\* waits for no one but who deletes the invoice.
Pay(h) ==
    LET r == req[h]
    IN  /\ r.pc = "pay"
        /\ \A d \in r.docs : doc[d].state = "there"
        /\ IF r.after.status = "failed"
           THEN /\ \A g \in Requests \ {h} : req[g].pc = "delete" => req[g].docs \cap r.docs = {}
                /\ UNCHANGED customer
           ELSE /\ Unlocked(h, r.docs, {})
                /\ customer' = [customer EXCEPT ![r.c].ltv = @ + r.amount]
        /\ \E p \in Payments :
              /\ payment[p].status = "unused"
              /\ "once" \in kinds => \A q \in Payments : payment[q].status = "unused"
              /\ payment' = [payment EXCEPT ![p] = [status |-> r.after.status, owner |-> r.c,
                                  docs |-> r.docs, amount |-> r.amount, refunded |-> 0]]
              /\ strays' = IF Stray(r.c) THEN strays \cup {p} ELSE strays
        /\ drifted' = Drift(h, r.on)
        /\ Finish(h)
        /\ UNCHANGED <<kinds, doc, answered, twins, excused>>

\* Amounts are compared to within a cent.
Cent == 1

AfterRefund(row, a) == IF row.refunded + a >= row.amount - Cent THEN "refunded" ELSE "partially_refunded"

\* A refund, or a void: what it will write is worked out from the row it has read.
BeginReturn(h, p) ==
    /\ "return" \in kinds /\ req[h].pc = "idle" /\ There(p)
    /\ LET row == payment[p]
           Return(a, status, back) ==
               Enter(h, [Idle EXCEPT !.pc = "return", !.pays = {p}, !.docs = row.docs, !.c = row.owner,
                   !.on = {row.owner}, !.amount = a, !.after = [status |-> status, refunded |-> back]])
       IN  \/ /\ row.status \in {"succeeded", "partially_refunded"}
              /\ \E a \in 1 .. row.amount - row.refunded + Cent :
                    /\ CarefulStaff => a <= row.amount - row.refunded
                    /\ Return(a, AfterRefund(row, a), row.refunded + a)
           \/ /\ row.status \notin {"void", "refunded"}
              /\ CarefulStaff => row.status = "succeeded"
              /\ Return(row.amount, "void", row.refunded)
    /\ UNCHANGED <<kinds, customer, doc, payment, answered, ghostVars>>

Reduced(n, a) == IF n > a THEN n - a ELSE 0

Return(h) ==
    LET r == req[h]
        p == CHOOSE q \in Payments : r.pays = {q}
        \* reverseAmountFromInvoice reads the invoice's customer anew
        c == IF r.docs = {} THEN r.c ELSE doc[CHOOSE d \in Docs : r.docs = {d}].owner
    IN  /\ r.pc = "return"
        /\ There(p) /\ Unlocked(h, r.docs, r.pays)
        /\ payment' = [payment EXCEPT ![p].status = r.after.status,
                                      ![p].refunded = IF r.after.status = "void" THEN @ ELSE r.after.refunded]
        /\ customer' = [customer EXCEPT ![c].ltv = Reduced(@, r.amount)]
        /\ drifted' = IF r.clean /\ c = payment[p].owner THEN drifted
                      ELSE drifted \cup {c, payment[p].owner}
        /\ Finish(h)
        /\ UNCHANGED <<kinds, doc, answered, strays, twins, excused>>

-----------------------------------------------------------------------------
(* Merging, and deleting for good. *)

Kept == [p \in Payments |-> payment[p].amount - payment[p].refunded]
Recount(ps) == SumFunctionOnSet(Kept, {p \in ps : payment[p].status \in Counted})
OwnedPays(c) == {p \in Payments : There(p) /\ payment[p].owner = c}

\* A clean recount makes the value right again, whatever it was.
Recounted(h, cs) == IF req[h].clean THEN drifted \ cs ELSE drifted \cup req[h].on

BeginMerge(h, c, dup) ==
    /\ "merge" \in kinds /\ req[h].pc = "idle"
    /\ c # dup /\ Live(c) /\ Live(dup)
    /\ Enter(h, [Idle EXCEPT !.pc = "move", !.c = c, !.dup = dup, !.on = {c, dup}])
    /\ UNCHANGED <<kinds, customer, doc, payment, answered, ghostVars>>

Repointed_DocsOnly(dup) == [docs |-> {d \in Docs : doc[d].state = "there" /\ doc[d].owner = dup}, pays |-> {}]
Repointed(dup) ==
    [docs |-> {d \in Docs : doc[d].state = "there" /\ doc[d].owner = dup}, pays |-> OwnedPays(dup)]

Move(h) ==
    LET moved == Repointed(req[h].dup)
    IN  /\ req[h].pc = "move"
        /\ Unlocked(h, moved.docs, moved.pays)
        /\ Enter(h, [req[h] EXCEPT !.pc = "sum", !.docs = moved.docs, !.pays = moved.pays])
        /\ UNCHANGED <<kinds, customer, doc, payment, answered, ghostVars>>

Sum(h) ==
    /\ req[h].pc = "sum"
    /\ req' = [req EXCEPT ![h].pc = "merge", ![h].total = Recount(OwnedPays(req[h].c) \cup req[h].pays)]
    /\ UNCHANGED <<kinds, customer, doc, payment, answered, ghostVars>>

Merge(h) ==
    LET r == req[h]
    IN  /\ r.pc = "merge"
        /\ doc' = [d \in Docs |-> IF d \in r.docs THEN [doc[d] EXCEPT !.owner = r.c] ELSE doc[d]]
        /\ payment' = [p \in Payments |-> IF p \in r.pays THEN [payment[p] EXCEPT !.owner = r.c] ELSE payment[p]]
        /\ customer' = [customer EXCEPT ![r.c].ltv = r.total, ![r.dup].state = "merged", ![r.dup].ltv = 0]
        /\ strays' = IF Stray(r.c) THEN strays \cup r.docs \cup r.pays ELSE strays
        /\ drifted' = Recounted(h, r.on)
        \* a handler that holds one of the moved rows goes on with it
        /\ req' = [g \in Requests |->
              IF g = h THEN Idle ELSE IF r.dup \in req[g].on THEN [req[g] EXCEPT !.on = @ \cup {r.c}] ELSE req[g]]
        /\ UNCHANGED <<kinds, answered, twins, excused>>

\* deletePayment; deleteInvoice, and the invoices that deleteJob and deleteEstimate remove.
BeginDelete(h) ==
    /\ "delete" \in kinds /\ req[h].pc = "idle"
    /\ \/ \E p \in Payments :
             /\ There(p)
             /\ Enter(h, [Idle EXCEPT !.pc = "strike", !.pays = {p}, !.c = payment[p].owner,
                                      !.on = {payment[p].owner}])
       \/ \E c \in Customers : \E ds \in (SUBSET {d \in Docs : doc[d].state = "there" /\ doc[d].owner = c}) \ {{}} :
             Enter(h, [Idle EXCEPT !.pc = "strike", !.docs = ds, !.c = c, !.on = {c}])
    /\ UNCHANGED <<kinds, customer, doc, payment, answered, ghostVars>>

Strike(h) ==
    LET r    == req[h]
        pays == r.pays \cup {p \in Payments : There(p) /\ payment[p].docs \cap r.docs # {}}
    IN  /\ r.pc = "strike"
        /\ \A p \in pays : There(p)
        /\ \A d \in r.docs : doc[d].state = "there"
        /\ Unlocked(h, r.docs, pays)
        /\ Enter(h, [r EXCEPT !.pc = "delete", !.pays = pays, !.total = Recount(OwnedPays(r.c) \ pays),
                              !.on = @ \cup {payment[p].owner : p \in pays}])
        /\ UNCHANGED <<kinds, customer, doc, payment, answered, ghostVars>>

Delete(h) ==
    LET r      == req[h]
        owners == {payment[p].owner : p \in r.pays}
    IN  /\ r.pc = "delete"
        /\ doc' = [d \in Docs |-> IF d \in r.docs THEN [doc[d] EXCEPT !.state = "gone"] ELSE doc[d]]
        /\ payment' = [p \in Payments |-> IF p \in r.pays THEN [payment[p] EXCEPT !.status = "gone"] ELSE payment[p]]
        /\ customer' = IF r.pays = {} THEN customer ELSE [customer EXCEPT ![r.c].ltv = r.total]
        /\ drifted' = (IF r.pays = {} THEN drifted ELSE Recounted(h, {r.c})) \cup (owners \ {r.c})
        /\ Finish(h)
        /\ UNCHANGED <<kinds, answered, strays, twins, excused>>

-----------------------------------------------------------------------------
Next ==
    \/ \E k \in Keys : Forget(k)
    \/ \E c \in Customers : SoftDelete(c) \/ \E d \in Docs : NewInvoice(c, d)
    \/ \E h \in Requests :
         \/ \E e \in Emails : \/ BeginCreate(h, e)
                              \/ \E c \in Customers : BeginEdit(h, c, e)
                              \/ \E k \in Keys : Submit(h, k, e)
         \/ \E c, dup \in Customers : BeginMerge(h, c, dup)
         \/ \E a \in Amounts : BeginPay(h, a)
         \/ \E p \in Payments : BeginReturn(h, p)
         \/ Insert(h) \/ Edit(h) \/ Find(h) \/ Quote(h) \/ Conclude(h) \/ Pay(h) \/ Return(h)
         \/ Move(h) \/ Sum(h) \/ Merge(h) \/ BeginDelete(h) \/ Strike(h) \/ Delete(h) \/ Abort(h)

Spec == Init /\ [][Next]_vars

-----------------------------------------------------------------------------
(* Properties. *)

\* What is kept of the payments collected from a customer.
CollectedFrom(c) ==
    SumFunctionOnSet(Kept, {p \in OwnedPays(c) : payment[p].status \notin {"void", "failed"}})

\* A customer's lifetime value is what is kept of the payments collected from that customer,
\* whatever payments were recorded side by side and whatever Stripe reports failed; a recount
\* that nothing overlapped repairs it.
LtvIsCollected == \A c \in Customers \ drifted : customer[c].ltv = CollectedFrom(c)

\* "collected revenue, net of refunds/voids - exactly what customers.lifetime_value already
\* tracks" (reports.service.ts 265-266): one return after the other, no revenue is lost from it.
LtvCoversCollected == \A c \in Customers \ drifted : customer[c].ltv >= CollectedFrom(c)

\* A merge leaves nothing on the customer it folds away, except what was put there
\* during the merge or afterwards.
MergedAwayIsEmpty ==
    \A c \in Customers : customer[c].state = "merged" =>
        /\ OwnedPays(c) \subseteq strays
        /\ {d \in Docs : doc[d].state = "there" /\ doc[d].owner = c} \subseteq strays

\* Two live customers share an email only if staff were told, or the two were written at once.
OneCustomerPerEmail ==
    \A e \in Emails \ twins : Cardinality({c \in Customers : Live(c) /\ customer[c].email = e}) <= 1

\* A submission that is sent again within the day its answer is kept makes no second
\* estimate, unless it was sent twice at once or failed after its transaction had committed.
QuotedOnce ==
    \A k \in Keys \ excused : Cardinality({d \in Docs : doc[d].key = k}) <= 1
=============================================================================
