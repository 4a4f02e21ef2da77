-------------------------- MODULE EstimateLifecycle --------------------------
(***************************************************************************)
(* From quote to invoice: an estimate is written, sent, viewed and decided *)
(* by the customer or the staff, its acceptance makes a job, and the job,  *)
(* once completed, is invoiced.                                            *)
(*                                                                         *)
(* As in InvoicePayments, a handler reads a row and tests its guard in one *)
(* transaction and writes the row, by id alone, in a later one.  Accepting *)
(* an estimate is a chain of such transactions: the estimate, the look for *)
(* a job that exists already, the second look at the estimate, the insert  *)
(* of the job, and the customer.  A handler in flight is a record in req,  *)
(* and its op names the transaction it runs next.                          *)
(*                                                                         *)
(* The line items, discount and tax of an estimate are one number, what    *)
(* they add up to.  Every estimate has line items (the DTOs insist on it). *)
(* Histories, logs and notifications are written beside these steps and    *)
(* read by none of them; they are left out.                                *)
(***************************************************************************)
EXTENDS Integers, FiniteSets

CONSTANTS
    Estimates,      \* estimate rows
    Customers,      \* customer rows
    CustomerOf,     \* the customer each estimate is for
    Jobs,           \* row ids the jobs table may still use (a bound)
    Invoices,       \* row ids the invoices table may still use (a bound)
    Requests,       \* handlers that may be in flight together (a bound)
    Totals,         \* what the line items of an estimate may add up to
    OneAtATime,     \* TRUE: no two handlers in flight on one estimate
    MayCrash,       \* TRUE: a handler may die between two transactions
    None            \* no row

ASSUME CustomerAssumption == CustomerOf \in [Estimates -> Customers]
ASSUME TotalsAssumption   == Totals \subseteq Nat
ASSUME NoneAssumption     == None \notin Estimates \cup Jobs
ASSUME ModeAssumption     == OneAtATime \in BOOLEAN /\ MayCrash \in BOOLEAN

VARIABLES
    estimate,       \* [Estimates -> row]; viewed: viewedAt is not before sentAt
    leads,          \* the customers whose leadStatus is still 'lead'
    job,            \* [Jobs -> row]; est is None in a row not yet inserted
    invoice,        \* [Invoices -> row]; job is None in a row not yet inserted
    req             \* the handlers in flight

vars == <<estimate, leads, job, invoice, req>>

EstimateStatus == {"draft", "sent", "viewed", "accepted", "declined", "expired"}

EstimateRow == [status : EstimateStatus, total : Nat, viewed : BOOLEAN]
JobRow      == [est : Estimates \cup {None}, price : Nat, lines : Nat, completed : BOOLEAN]
InvoiceRow  == [job : Jobs \cup {None}, total : Nat, lines : Nat]

\* The transactions of an acceptance after the estimate itself was written.
Converting == {"findJob", "readEstimate", "jobTx", "insertJob", "convertLead"}

Ops == {"idle", "update", "send", "accept", "decline", "expire", "reopen", "view", "invoiceTx"}
       \cup Converting

Request == [op        : Ops,
            est       : Estimates \cup {None},
            job       : Jobs \cup {None},
            accepting : BOOLEAN,    \* part of an acceptance, not a convertToJob
            wasSent   : BOOLEAN,    \* the status a view read was 'sent'
            price     : Nat,        \* totalAmount as it was read
            lines     : Nat]        \* the line items as they were read

Idle == [op |-> "idle", est |-> None, job |-> None, accepting |-> FALSE,
         wasSent |-> FALSE, price |-> 0, lines |-> 0]

NoJob     == [est |-> None, price |-> 0, lines |-> 0, completed |-> FALSE]
NoInvoice == [job |-> None, total |-> 0, lines |-> 0]

InFlight(r) == req[r].op # "idle"

\* Handler r may start on estimate e.
MayStart(r, e) ==
    /\ ~ InFlight(r)
    /\ OneAtATime => \A q \in Requests : InFlight(q) => req[q].est # e

Begin(r, handler) == req' = [req EXCEPT ![r] = handler]
Continue(r, op)   == req' = [req EXCEPT ![r].op = op]
Finish(r)         == req' = [req EXCEPT ![r] = Idle]

\* A handler that has read estimate e and will write it next.
Pass(r, e, op) ==
    /\ MayStart(r, e)
    /\ Begin(r, [Idle EXCEPT !.op = op, !.est = e])
    /\ UNCHANGED <<estimate, leads, job, invoice>>

HasJob(e)     == \E j \in Jobs : job[j].est = e
HasInvoice(j) == \E v \in Invoices : invoice[v].job = j

-----------------------------------------------------------------------------
(***************************************************************************)
(* Initially the estimates have been created by the staff or the website's *)
(* quote form.                                                             *)
(***************************************************************************)
Init ==
    /\ estimate \in [Estimates -> [status : {"draft"}, total : Totals, viewed : {FALSE}]]
    /\ leads = Customers
    /\ job = [j \in Jobs |-> NoJob]
    /\ invoice = [v \in Invoices |-> NoInvoice]
    /\ req = [r \in Requests |-> Idle]

-----------------------------------------------------------------------------
(***************************************************************************)
(* The guards, each on the row as it is read.                              *)
(***************************************************************************)

CanUpdate(e) == estimate[e].status = "draft"

CanSend(e)   == estimate[e].status = "draft"

CanAccept(e) == estimate[e].status \notin {"accepted", "declined", "expired"}

CanDeclineManually(e) == estimate[e].status \notin {"accepted", "declined", "expired"}

CanDeclineInPortal(e) == estimate[e].status \notin {"accepted", "declined"}

CanExpire(e) == estimate[e].status \notin {"accepted", "declined", "expired"}

CanReopen(e) == estimate[e].status # "draft"

(***************************************************************************)
(* The reads.                                                              *)
(***************************************************************************)
UpdateRead(r, e)  == CanUpdate(e) /\ Pass(r, e, "update")
SendRead(r, e)    == CanSend(e)   /\ Pass(r, e, "send")
AcceptRead(r, e)  == CanAccept(e) /\ Pass(r, e, "accept")
DeclineRead(r, e) == (CanDeclineManually(e) \/ CanDeclineInPortal(e)) /\ Pass(r, e, "decline")
ExpireRead(r, e)  == CanExpire(e) /\ Pass(r, e, "expire")
ReopenRead(r, e)  == CanReopen(e) /\ Pass(r, e, "reopen")

\* Only a new view writes anything.
ViewRead(r, e) ==
    /\ ~ estimate[e].viewed
    /\ MayStart(r, e)
    /\ Begin(r, [Idle EXCEPT !.op = "view", !.est = e, !.wasSent = estimate[e].status = "sent"])
    /\ UNCHANGED <<estimate, leads, job, invoice>>

(***************************************************************************)
(* The writes.                                                             *)
(***************************************************************************)
WriteEstimate(r, op, row) ==
    /\ req[r].op = op
    /\ estimate' = [estimate EXCEPT ![req[r].est] = row]
    /\ UNCHANGED <<leads, job, invoice>>

ReadRow(r) == estimate[req[r].est]

UpdateWrite(r, total) == WriteEstimate(r, "update", [ReadRow(r) EXCEPT !.total = total]) /\ Finish(r)

\* sentAt is new, so the next view is a new one.
SendWrite(r) ==
    WriteEstimate(r, "send", [ReadRow(r) EXCEPT !.status = "sent", !.viewed = FALSE]) /\ Finish(r)

AfterAcceptance_NoJob(r) == Finish(r)
AfterAcceptance(r) == req' = [req EXCEPT ![r].op = "findJob", ![r].accepting = TRUE]

AcceptWrite(r) ==
    WriteEstimate(r, "accept", [ReadRow(r) EXCEPT !.status = "accepted"]) /\ AfterAcceptance(r)

DeclineWrite(r) == WriteEstimate(r, "decline", [ReadRow(r) EXCEPT !.status = "declined"]) /\ Finish(r)
ExpireWrite(r)  == WriteEstimate(r, "expire", [ReadRow(r) EXCEPT !.status = "expired"]) /\ Finish(r)
ReopenWrite(r)  == WriteEstimate(r, "reopen", [ReadRow(r) EXCEPT !.status = "draft"]) /\ Finish(r)

ViewedStatus(r) == IF req[r].wasSent THEN "viewed" ELSE ReadRow(r).status

ViewWrite(r) ==
    WriteEstimate(r, "view", [ReadRow(r) EXCEPT !.status = ViewedStatus(r), !.viewed = TRUE]) /\ Finish(r)

-----------------------------------------------------------------------------
(***************************************************************************)
(* createFromEstimate, called by an acceptance or by "Convert to Job".     *)
(***************************************************************************)
ConvertToJob(r, e) == Pass(r, e, "findJob")

\* What comes after createFromEstimate returned a job.
AfterJob_LeadLeft(r) == Finish(r)
AfterJob(r) == IF req[r].accepting THEN Continue(r, "convertLead") ELSE Finish(r)

JobExists_Never(r) == FALSE
JobExists(r) == HasJob(req[r].est)

FindJob(r) ==
    /\ req[r].op = "findJob"
    /\ IF JobExists(r) THEN AfterJob(r) ELSE Continue(r, "readEstimate")
    /\ UNCHANGED <<estimate, leads, job, invoice>>

\* Anything but an accepted estimate is an error, and the handler ends.
ReadAccepted(r) ==
    /\ req[r].op = "readEstimate"
    /\ IF ReadRow(r).status = "accepted"
       THEN req' = [req EXCEPT ![r].op = "jobTx", ![r].price = ReadRow(r).total]
       ELSE Finish(r)
    /\ UNCHANGED <<estimate, leads, job, invoice>>

\* The transaction looks again, without a lock, and reads the line items.
JobTxBegin(r) ==
    /\ req[r].op = "jobTx"
    /\ IF JobExists(r)
       THEN AfterJob(r)
       ELSE req' = [req EXCEPT ![r].op = "insertJob", ![r].lines = ReadRow(r).total]
    /\ UNCHANGED <<estimate, leads, job, invoice>>

JobTxCommit(r, j) ==
    /\ req[r].op = "insertJob"
    /\ job[j].est = None
    /\ job' = [job EXCEPT ![j] = [est |-> req[r].est, price |-> req[r].price,
                                  lines |-> req[r].lines, completed |-> FALSE]]
    /\ AfterJob(r)
    /\ UNCHANGED <<estimate, leads, invoice>>

ConvertLead(r) ==
    /\ req[r].op = "convertLead"
    /\ leads' = leads \ {CustomerOf[req[r].est]}
    /\ Finish(r)
    /\ UNCHANGED <<estimate, job, invoice>>

-----------------------------------------------------------------------------
(***************************************************************************)
(* The job is done, and invoiced: the lines are the job's, the totals are  *)
(* copied from the estimate as it is now.                                  *)
(***************************************************************************)
CompleteJob(j) ==
    /\ job[j].est # None /\ ~ job[j].completed
    /\ job' = [job EXCEPT ![j].completed = TRUE]
    /\ UNCHANGED <<estimate, leads, invoice, req>>

CanInvoice(j) == job[j].est # None /\ job[j].completed

InvoiceTxBegin(r, j) ==
    /\ CanInvoice(j)
    /\ MayStart(r, job[j].est)
    /\ ~ HasInvoice(j)
    /\ Begin(r, [Idle EXCEPT !.op = "invoiceTx", !.est = job[j].est, !.job = j,
                             !.lines = job[j].lines, !.price = estimate[job[j].est].total])
    /\ UNCHANGED <<estimate, leads, job, invoice>>

InvoiceTxCommit(r, v) ==
    /\ req[r].op = "invoiceTx"
    /\ invoice[v].job = None
    /\ invoice' = [invoice EXCEPT ![v] = [job |-> req[r].job, total |-> req[r].price,
                                          lines |-> req[r].lines]]
    /\ Finish(r)
    /\ UNCHANGED <<estimate, leads, job>>

\* A handler dies between two transactions, or one of them fails.
Abandon(r) ==
    /\ MayCrash
    /\ InFlight(r)
    /\ Finish(r)
    /\ UNCHANGED <<estimate, leads, job, invoice>>

-----------------------------------------------------------------------------
Start(r) ==
    \/ \E e \in Estimates :
          \/ UpdateRead(r, e) \/ SendRead(r, e) \/ AcceptRead(r, e) \/ DeclineRead(r, e)
          \/ ExpireRead(r, e) \/ ReopenRead(r, e) \/ ViewRead(r, e) \/ ConvertToJob(r, e)
    \/ \E j \in Jobs : InvoiceTxBegin(r, j)

\* The next transaction of a handler in flight.
Proceed(r) ==
    \/ \E t \in Totals : UpdateWrite(r, t)
    \/ SendWrite(r) \/ AcceptWrite(r) \/ DeclineWrite(r)
    \/ ExpireWrite(r) \/ ReopenWrite(r) \/ ViewWrite(r)
    \/ FindJob(r) \/ ReadAccepted(r) \/ JobTxBegin(r)
    \/ \E j \in Jobs : JobTxCommit(r, j)
    \/ ConvertLead(r)
    \/ \E v \in Invoices : InvoiceTxCommit(r, v)

Next ==
    \/ \E r \in Requests : Start(r) \/ Proceed(r) \/ Abandon(r)
    \/ \E j \in Jobs : CompleteJob(j)

Spec == Init /\ [][Next]_vars

\* The event loop runs every handler that is not waiting for a new request.
FairSpec == Spec /\ \A r \in Requests : WF_vars(Proceed(r))

-----------------------------------------------------------------------------
(***************************************************************************)
(* Properties.                                                             *)
(***************************************************************************)

\* Every row keeps the shape its columns give it.
TypeOK ==
    /\ estimate \in [Estimates -> EstimateRow]
    /\ leads \subseteq Customers
    /\ job \in [Jobs -> JobRow]
    /\ invoice \in [Invoices -> InvoiceRow]
    /\ req \in [Requests -> Request]

Honoured(e) == HasJob(e) /\ CustomerOf[e] \notin leads

\* A handler that accepted e and has not finished what follows from it.
Accepting(r, e) == req[r].op \in Converting /\ req[r].accepting /\ req[r].est = e

\* Unless a handler died, an accepted estimate has its job and its customer
\* is no lead any more, or the handler that accepted it is still at it:
\* acceptances, declines, reopenings and edits that race with it (acceptManually,
\* approveEstimate and createFromEstimate are separate transactions) may undo
\* the acceptance but never leave it without its consequences.
AcceptanceHonoured ==
    \A e \in Estimates :
        estimate[e].status = "accepted" => Honoured(e) \/ \E r \in Requests : Accepting(r, e)

\* The same, as what finally happens: an accepted estimate gets its job, or
\* does not stay accepted.
AcceptedBecomesJob ==
    \A e \in Estimates :
        estimate[e].status = "accepted" ~> (Honoured(e) \/ estimate[e].status # "accepted")

JobsOf(e)     == {j \in Jobs : job[j].est = e}
InvoicesOf(e) == {v \in Invoices : invoice[v].job \in JobsOf(e)}
Sold(e)       == {<<j, job[j].price>> : j \in JobsOf(e)}
Decision(e)   == IF estimate[e].status \in {"sent", "viewed"} THEN "offered" ELSE estimate[e].status

\* The handlers implement the quotes, when no two overlap on one estimate,
\* also when they die half way.
Quote == INSTANCE Quotes WITH
    decision <- [e \in Estimates |-> Decision(e)],
    terms    <- [e \in Estimates |-> estimate[e].total],
    sold     <- [e \in Estimates |-> Sold(e)],
    billed   <- [e \in Estimates |-> InvoicesOf(e)]

\* Only a draft is edited, only an undecided estimate is decided, only a
\* reopening takes a decision back, one job is made of an accepted estimate at the price it was
\* accepted at, and one invoice of that job (the guards of EstimatesService,
\* PortalDataService, createFromEstimate and generateFromJob together).
ImplementsQuotes == Quote!Spec

\* The totals an invoice takes over are those of its own lines.
InvoiceMatchesItsLines ==
    \A v \in Invoices : invoice[v].total = invoice[v].lines

\* Opening the portal page never turns an estimate that is already decided
\* back to viewed (markEstimateViewed).
ViewDecidesNothing ==
    [][\A e \in Estimates :
          estimate[e].status \in {"accepted", "declined", "expired"} =>
              estimate'[e].status # "viewed"]_vars
=============================================================================
