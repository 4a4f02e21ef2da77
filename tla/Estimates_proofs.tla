---------------------------- MODULE Estimates_proofs ----------------------------
(***************************************************************************)
(* Proofs about an estimate, from the public quote page that asks for it   *)
(* (QuoteWizard) to the handlers that send, decide, sell and bill it       *)
(* (EstimateLifecycle): for any catalog, areas, estimates, customers,      *)
(* jobs, totals and number of handlers in flight.  The two components      *)
(* share no state; the names of the page's specification begin with        *)
(* Wizard.  The handlers come first.                                       *)
(***************************************************************************)
EXTENDS EstimateLifecycle, QuoteWizard, FiniteSetTheorems, TLAPS

-----------------------------------------------------------------------------
(***************************************************************************)
(* The inductive invariant behind the types: a handler in flight is on an  *)
(* estimate, one that is about to convert the lead has seen a job, and a   *)
(* row that was inserted names rows that were.                             *)
(***************************************************************************)
HandlerOK(r) ==
    /\ InFlight(r) => req[r].est \in Estimates
    /\ req[r].op = "convertLead" => HasJob(req[r].est)
    /\ req[r].op = "invoiceTx" => req[r].job \in Jobs /\ job[req[r].job].est = req[r].est

HandlersOK == \A r \in Requests : HandlerOK(r)
InvoicesOK == \A v \in Invoices : invoice[v].job \in Jobs => job[invoice[v].job].est \in Estimates

Inv == TypeOK /\ HandlersOK /\ InvoicesOK

\* A job, once inserted, stays the job of its estimate, at its price.
SameJobs ==
    \A j \in Jobs : job[j].est # None => job'[j].est = job[j].est /\ job'[j].price = job[j].price

-----------------------------------------------------------------------------
\* A handler that begins is a request.
LEMMA IdleIsRequest == Idle \in Request /\ NoJob \in JobRow /\ NoInvoice \in InvoiceRow
  BY DEF Idle, NoJob, NoInvoice, Request, JobRow, InvoiceRow, Ops

\* Beginning, continuing and finishing a handler keep req well typed and
\* leave the other handlers alone.
LEMMA BeginHandler ==
  ASSUME TypeOK, NEW r \in Requests, NEW h \in Request, Begin(r, h)
  PROVE  /\ req' \in [Requests -> Request]
         /\ req'[r] = h
         /\ \A q \in Requests \ {r} : req'[q] = req[q]
  BY DEF Begin, TypeOK

LEMMA ContinueHandler ==
  ASSUME TypeOK, NEW r \in Requests, NEW op \in Ops, Continue(r, op)
  PROVE  /\ req' \in [Requests -> Request]
         /\ req'[r] = [req[r] EXCEPT !.op = op]
         /\ \A q \in Requests \ {r} : req'[q] = req[q]
  BY DEF Continue, TypeOK, Request

LEMMA FinishHandler ==
  ASSUME TypeOK, NEW r \in Requests, Finish(r)
  PROVE  /\ req' \in [Requests -> Request]
         /\ req'[r] = Idle
         /\ \A q \in Requests \ {r} : req'[q] = req[q]
  BY IdleIsRequest DEF Finish, TypeOK

\* A job that exists goes on existing.
LEMMA JobStays ==
  ASSUME NoneAssumption, SameJobs, NEW e \in Estimates, HasJob(e)
  PROVE  HasJob(e)'
  BY NoneAssumption DEF HasJob, SameJobs, NoneAssumption

\* The part of the invariant that speaks of the handlers and the invoices,
\* when handler r steps and no invoice is inserted.
LEMMA InvKept ==
  ASSUME Inv, TypeOK', SameJobs, UNCHANGED invoice, NEW r \in Requests, HandlerOK(r)',
         \A q \in Requests \ {r} : req'[q] = req[q]
  PROVE  Inv'
<1>1. ASSUME NEW q \in Requests \ {r} PROVE HandlerOK(q)'
  <2>1. req'[q] = req[q] /\ HandlerOK(q)
    BY DEF Inv, HandlersOK
  <2>2. req[q].op = "convertLead" => HasJob(req[q].est)'
    BY <2>1, JobStays, NoneAssumption DEF HandlerOK, InFlight
  <2>3. req[q].op = "invoiceTx" => job'[req[q].job].est = req[q].est
    BY <2>1, NoneAssumption DEF HandlerOK, InFlight, SameJobs, NoneAssumption
  <2> QED
    BY <2>1, <2>2, <2>3 DEF HandlerOK, InFlight, HasJob
<1>2. InvoicesOK'
  BY NoneAssumption DEF Inv, InvoicesOK, SameJobs, NoneAssumption
<1> QED
  BY <1>1, <1>2 DEF Inv, HandlersOK

\* The steps that touch only the handler.
LEMMA NoJobInserted ==
  ASSUME UNCHANGED job
  PROVE  SameJobs /\ \A e : HasJob(e)' <=> HasJob(e)
  BY DEF SameJobs, HasJob

-----------------------------------------------------------------------------
(***************************************************************************)
(* Every step keeps the invariant.                                         *)
(***************************************************************************)
LEMMA PassInv ==
  ASSUME Inv, NEW r \in Requests, NEW e \in Estimates, NEW op \in Ops \ {"convertLead", "invoiceTx"}, Pass(r, e, op)
  PROVE  Inv'
<1> DEFINE h == [Idle EXCEPT !.op = op, !.est = e]
<1>1. h \in Request /\ h.op = op /\ h.est = e
  BY DEF Idle, Request, Ops
<1>2. Begin(r, h)
  BY DEF Pass
<1> HIDE DEF h
<1>3. TypeOK' /\ HandlerOK(r)' /\ \A q \in Requests \ {r} : req'[q] = req[q]
  BY <1>1, <1>2, BeginHandler DEF Pass, Inv, TypeOK, HandlerOK, InFlight
<1> QED
  BY <1>3, InvKept, NoJobInserted DEF Pass

LEMMA StartInv ==
  ASSUME Inv, NEW r \in Requests, Start(r)
  PROVE  Inv'
<1>1. ASSUME NEW e \in Estimates,
             \/ UpdateRead(r, e) \/ SendRead(r, e) \/ AcceptRead(r, e) \/ DeclineRead(r, e)
             \/ ExpireRead(r, e) \/ ReopenRead(r, e) \/ ConvertToJob(r, e)
      PROVE  Inv'
  BY <1>1, PassInv DEF UpdateRead, SendRead, AcceptRead, DeclineRead, ExpireRead, ReopenRead,
                       ConvertToJob, Ops, Converting
<1>2. ASSUME NEW e \in Estimates, ViewRead(r, e)
      PROVE  Inv'
  <2> DEFINE h == [Idle EXCEPT !.op = "view", !.est = e, !.wasSent = estimate[e].status = "sent"]
  <2>1. h \in Request /\ h.op = "view" /\ h.est = e
    BY DEF Idle, Request, Ops
  <2>2. Begin(r, h)
    BY <1>2 DEF ViewRead
  <2> HIDE DEF h
  <2>3. TypeOK' /\ HandlerOK(r)' /\ \A q \in Requests \ {r} : req'[q] = req[q]
    BY <1>2, <2>1, <2>2, BeginHandler DEF ViewRead, Inv, TypeOK, HandlerOK, InFlight
  <2> QED
    BY <1>2, <2>3, InvKept, NoJobInserted DEF ViewRead
<1>3. ASSUME NEW j \in Jobs, InvoiceTxBegin(r, j)
      PROVE  Inv'
  <2> DEFINE h == [Idle EXCEPT !.op = "invoiceTx", !.est = job[j].est, !.job = j,
                               !.lines = job[j].lines, !.price = estimate[job[j].est].total]
  <2>1. job[j].est \in Estimates /\ job[j].lines \in Nat /\ estimate[job[j].est].total \in Nat
    BY <1>3 DEF InvoiceTxBegin, CanInvoice, Inv, TypeOK, JobRow, EstimateRow
  <2>2. h \in Request /\ h.op = "invoiceTx" /\ h.est = job[j].est /\ h.job = j
    BY <2>1 DEF Idle, Request, Ops
  <2>3. Begin(r, h)
    BY <1>3 DEF InvoiceTxBegin
  <2> HIDE DEF h
  <2>4. TypeOK' /\ HandlerOK(r)' /\ \A q \in Requests \ {r} : req'[q] = req[q]
    BY <1>3, <2>1, <2>2, <2>3, BeginHandler DEF InvoiceTxBegin, Inv, TypeOK, HandlerOK, InFlight
  <2> QED
    BY <1>3, <2>4, InvKept, NoJobInserted DEF InvoiceTxBegin
<1> QED
  BY <1>1, <1>2, <1>3 DEF Start

\* A finished handler has nothing to keep.
LEMMA FinishInv ==
  ASSUME Inv, NEW r \in Requests, Finish(r), SameJobs, UNCHANGED invoice,
         estimate' \in [Estimates -> EstimateRow], leads' \subseteq Customers, job' \in [Jobs -> JobRow]
  PROVE  Inv'
<1>1. TypeOK'
  BY FinishHandler DEF Inv, TypeOK
<1>2. HandlerOK(r)'
  BY FinishHandler DEF Inv, HandlerOK, InFlight, Idle
<1> QED
  BY <1>1, <1>2, FinishHandler, InvKept DEF Inv

\* A handler writes one estimate.
LEMMA WriteType ==
  ASSUME Inv, NEW r \in Requests, NEW op \in Ops \ {"idle"}, NEW row, WriteEstimate(r, op, row),
         ReadRow(r) \in EstimateRow => row \in EstimateRow
  PROVE  /\ estimate' \in [Estimates -> EstimateRow]
         /\ UNCHANGED <<leads, job, invoice>>
         /\ req[r].est \in Estimates
  BY DEF Inv, TypeOK, HandlersOK, HandlerOK, InFlight, WriteEstimate, ReadRow

LEMMA WriteInv ==
  ASSUME Inv, NEW r \in Requests,
         \/ \E t \in Totals : UpdateWrite(r, t)
         \/ SendWrite(r) \/ DeclineWrite(r) \/ ExpireWrite(r) \/ ReopenWrite(r) \/ ViewWrite(r)
  PROVE  Inv'
<1> SUFFICES estimate' \in [Estimates -> EstimateRow] /\ UNCHANGED <<leads, job, invoice>> /\ Finish(r)
  BY FinishInv, NoJobInserted DEF Inv, TypeOK
<1>1. ASSUME NEW t \in Totals, UpdateWrite(r, t)
      PROVE  estimate' \in [Estimates -> EstimateRow] /\ UNCHANGED <<leads, job, invoice>>
  BY <1>1, WriteType, TotalsAssumption DEF UpdateWrite, EstimateRow, Ops
<1>2. CASE SendWrite(r)
  BY <1>2, WriteType DEF SendWrite, EstimateRow, EstimateStatus, Ops
<1>3. CASE DeclineWrite(r)
  BY <1>3, WriteType DEF DeclineWrite, EstimateRow, EstimateStatus, Ops
<1>4. CASE ExpireWrite(r)
  BY <1>4, WriteType DEF ExpireWrite, EstimateRow, EstimateStatus, Ops
<1>5. CASE ReopenWrite(r)
  BY <1>5, WriteType DEF ReopenWrite, EstimateRow, EstimateStatus, Ops
<1>6. CASE ViewWrite(r)
  BY <1>6, WriteType DEF ViewWrite, ViewedStatus, EstimateRow, EstimateStatus, Ops
<1> QED
  BY <1>1, <1>2, <1>3, <1>4, <1>5, <1>6 DEF UpdateWrite

LEMMA AcceptInv ==
  ASSUME Inv, NEW r \in Requests, AcceptWrite(r)
  PROVE  Inv'
<1>1. estimate' \in [Estimates -> EstimateRow] /\ UNCHANGED <<leads, job, invoice>> /\ req[r].est \in Estimates
  BY WriteType DEF AcceptWrite, EstimateRow, EstimateStatus, Ops
<1>2. req' = [req EXCEPT ![r].op = "findJob", ![r].accepting = TRUE]
  BY DEF AcceptWrite, AfterAcceptance
<1>3. /\ req' \in [Requests -> Request]
      /\ req'[r].op = "findJob" /\ req'[r].est = req[r].est
      /\ \A q \in Requests \ {r} : req'[q] = req[q]
  <2> DEFINE h == [req[r] EXCEPT !.op = "findJob", !.accepting = TRUE]
  <2>1. TypeOK /\ req[r] \in Request /\ "findJob" \in Ops
    BY DEF Inv, TypeOK, Ops, Converting
  <2>2. h \in Request /\ h.op = "findJob" /\ h.est = req[r].est
    BY <2>1 DEF Request
  <2>3. Begin(r, h)
    BY <1>2, <2>1 DEF Begin, TypeOK
  <2> HIDE DEF h
  <2> QED
    BY <2>1, <2>2, <2>3, BeginHandler
<1>4. TypeOK' /\ HandlerOK(r)'
  BY <1>1, <1>3 DEF Inv, TypeOK, HandlerOK, InFlight
<1> QED
  BY <1>1, <1>3, <1>4, InvKept, NoJobInserted

\* createFromEstimate has returned a job to handler r.
LEMMA AfterJobHandler ==
  ASSUME Inv, NEW r \in Requests, req[r].op \in Converting, AfterJob(r)
  PROVE  /\ req' \in [Requests -> Request]
         /\ \A q \in Requests \ {r} : req'[q] = req[q]
         /\ \/ req[r].accepting /\ req'[r] = [req[r] EXCEPT !.op = "convertLead"]
            \/ ~ req[r].accepting /\ req'[r] = Idle
<1>1. TypeOK /\ "convertLead" \in Ops
  BY DEF Inv, Ops, Converting
<1> QED
  BY <1>1, ContinueHandler, FinishHandler DEF AfterJob

LEMMA AfterJobInv ==
  ASSUME Inv, NEW r \in Requests, req[r].op \in Converting, AfterJob(r),
         SameJobs, UNCHANGED <<estimate, leads, invoice>>, job' \in [Jobs -> JobRow],
         \E k \in Jobs : job'[k].est = req[r].est
  PROVE  Inv'
<1>1. TypeOK'
  BY AfterJobHandler DEF Inv, TypeOK
<1>2. req[r].est \in Estimates /\ req[r] \in Request
  BY DEF Inv, HandlersOK, HandlerOK, InFlight, Converting, TypeOK
<1>3. HandlerOK(r)'
  <2>1. CASE req'[r] = Idle
    BY <2>1 DEF HandlerOK, InFlight, Idle
  <2>2. CASE req'[r] = [req[r] EXCEPT !.op = "convertLead"]
    <3>1. req'[r].op = "convertLead" /\ req'[r].est = req[r].est
      BY <2>2, <1>2 DEF Request
    <3> QED
      BY <3>1, <1>2 DEF HandlerOK, InFlight, HasJob
  <2> QED
    BY <2>1, <2>2, AfterJobHandler
<1> QED
  BY <1>1, <1>3, AfterJobHandler, InvKept

\* A handler on its way to the job goes one step further.
LEMMA ConvertingInv ==
  ASSUME Inv, NEW r \in Requests, req[r].op \in Converting, NEW h \in Request,
         h.op \in {"readEstimate", "jobTx", "insertJob"}, h.est = req[r].est,
         Begin(r, h), UNCHANGED <<estimate, leads, job, invoice>>
  PROVE  Inv'
<1>1. TypeOK' /\ req'[r] = h /\ \A q \in Requests \ {r} : req'[q] = req[q]
  BY BeginHandler DEF Inv, TypeOK
<1>2. HandlerOK(r)'
  BY <1>1 DEF Inv, HandlersOK, HandlerOK, InFlight, Converting
<1> QED
  BY <1>1, <1>2, InvKept, NoJobInserted

LEMMA ConvertInv ==
  ASSUME Inv, NEW r \in Requests, FindJob(r) \/ ReadAccepted(r) \/ JobTxBegin(r)
  PROVE  Inv'
<1> USE DEF Converting
<1>1. /\ req[r].op \in Converting
      /\ UNCHANGED <<estimate, leads, job, invoice>>
  BY DEF FindJob, ReadAccepted, JobTxBegin
<1>2. req[r] \in Request /\ req[r].est \in Estimates
  BY <1>1 DEF Inv, TypeOK, HandlersOK, HandlerOK, InFlight
<1>3. ReadRow(r).total \in Nat
  BY <1>2 DEF ReadRow, Inv, TypeOK, EstimateRow
<1>4. CASE Finish(r)
  BY <1>1, <1>4, FinishInv, NoJobInserted DEF Inv, TypeOK
<1>5. CASE JobExists(r) /\ AfterJob(r)
  BY <1>1, <1>5, AfterJobInv, NoJobInserted DEF JobExists, HasJob, Inv, TypeOK
<1>6. CASE Continue(r, "readEstimate")
  <2> DEFINE h == [req[r] EXCEPT !.op = "readEstimate"]
  <2>1. h \in Request /\ h.op = "readEstimate" /\ h.est = req[r].est
    BY <1>2 DEF Request, Ops
  <2>2. Begin(r, h)
    BY <1>6 DEF Continue, Begin, Inv, TypeOK
  <2> HIDE DEF h
  <2> QED
    BY <2>1, <2>2, <1>1, ConvertingInv
<1>7. CASE req' = [req EXCEPT ![r].op = "jobTx", ![r].price = ReadRow(r).total]
  <2> DEFINE h == [req[r] EXCEPT !.op = "jobTx", !.price = ReadRow(r).total]
  <2>1. h \in Request /\ h.op = "jobTx" /\ h.est = req[r].est
    BY <1>2, <1>3 DEF Request, Ops
  <2>2. Begin(r, h)
    BY <1>7 DEF Begin, Inv, TypeOK
  <2> HIDE DEF h
  <2> QED
    BY <2>1, <2>2, <1>1, ConvertingInv
<1>8. CASE req' = [req EXCEPT ![r].op = "insertJob", ![r].lines = ReadRow(r).total]
  <2> DEFINE h == [req[r] EXCEPT !.op = "insertJob", !.lines = ReadRow(r).total]
  <2>1. h \in Request /\ h.op = "insertJob" /\ h.est = req[r].est
    BY <1>2, <1>3 DEF Request, Ops
  <2>2. Begin(r, h)
    BY <1>8 DEF Begin, Inv, TypeOK
  <2> HIDE DEF h
  <2> QED
    BY <2>1, <2>2, <1>1, ConvertingInv
<1> QED
  BY <1>4, <1>5, <1>6, <1>7, <1>8 DEF FindJob, ReadAccepted, JobTxBegin

\* Inserting a job leaves the others what they are.
LEMMA InsertedJob ==
  ASSUME Inv, NEW r \in Requests, NEW j \in Jobs, JobTxCommit(r, j)
  PROVE  /\ job' \in [Jobs -> JobRow]
         /\ SameJobs
         /\ \E k \in Jobs : job'[k].est = req[r].est
         /\ UNCHANGED <<estimate, leads, invoice>>
         /\ req[r].op \in Converting /\ AfterJob(r)
<1>1. req[r] \in Request /\ req[r].est \in Estimates
  BY DEF Inv, TypeOK, HandlersOK, HandlerOK, InFlight, JobTxCommit
<1>2. job' = [job EXCEPT ![j] = [est |-> req[r].est, price |-> req[r].price,
                                 lines |-> req[r].lines, completed |-> FALSE]]
  BY DEF JobTxCommit
<1>3. job' \in [Jobs -> JobRow]
  BY <1>1, <1>2 DEF Inv, TypeOK, JobRow, Request
<1>4. SameJobs
  BY <1>2 DEF SameJobs, JobTxCommit, Inv, TypeOK
<1>5. \E k \in Jobs : job'[k].est = req[r].est
  BY <1>2 DEF HasJob, Inv, TypeOK, JobTxCommit, AfterJob, Continue, Finish
<1> QED
  BY <1>3, <1>4, <1>5 DEF JobTxCommit, Converting

LEMMA InvoiceInv ==
  ASSUME Inv, NEW r \in Requests, NEW v \in Invoices, InvoiceTxCommit(r, v)
  PROVE  Inv'
<1>1. req[r] \in Request /\ req[r].est \in Estimates /\ req[r].job \in Jobs /\ job[req[r].job].est = req[r].est
  BY DEF Inv, TypeOK, HandlersOK, HandlerOK, InFlight, InvoiceTxCommit
<1>2. invoice' = [invoice EXCEPT ![v] = [job |-> req[r].job, total |-> req[r].price, lines |-> req[r].lines]]
  BY DEF InvoiceTxCommit
<1>3. TypeOK'
  BY <1>1, <1>2, FinishHandler DEF Inv, TypeOK, InvoiceRow, Request, InvoiceTxCommit
<1>4. InvoicesOK'
  BY <1>1, <1>2 DEF Inv, InvoicesOK, TypeOK, InvoiceTxCommit
<1>5. HandlersOK'
  BY FinishHandler DEF Inv, HandlersOK, HandlerOK, InFlight, HasJob, InvoiceTxCommit, Idle
<1> QED
  BY <1>3, <1>4, <1>5 DEF Inv

LEMMA ProceedInv ==
  ASSUME Inv, NEW r \in Requests, Proceed(r)
  PROVE  Inv'
<1>1. ASSUME NEW j \in Jobs, JobTxCommit(r, j) PROVE Inv'
  BY <1>1, InsertedJob, AfterJobInv
<1>2. CASE ConvertLead(r)
  BY <1>2, FinishInv, NoJobInserted DEF ConvertLead, Inv, TypeOK
<1> QED
  BY <1>1, <1>2, WriteInv, AcceptInv, ConvertInv, InvoiceInv DEF Proceed

\* Completing a job moves no handler.
LEMMA CompleteInv ==
  ASSUME Inv, NEW j \in Jobs, CompleteJob(j)
  PROVE  Inv' /\ SameJobs /\ \A k \in Jobs : job'[k].est = job[k].est
<1>1. job' \in [Jobs -> JobRow] /\ SameJobs /\ \A k \in Jobs : job'[k].est = job[k].est
  BY DEF CompleteJob, Inv, TypeOK, JobRow, SameJobs
<1>2. TypeOK'
  BY <1>1 DEF CompleteJob, Inv, TypeOK
<1>3. HandlersOK'
  BY <1>1 DEF CompleteJob, Inv, HandlersOK, HandlerOK, InFlight, HasJob
<1>4. InvoicesOK'
  BY <1>1 DEF CompleteJob, Inv, InvoicesOK
<1> QED
  BY <1>1, <1>2, <1>3, <1>4 DEF Inv

LEMMA InitInv == Init => Inv
<1> SUFFICES ASSUME Init PROVE Inv
  OBVIOUS
<1>1. TypeOK
  BY IdleIsRequest, TotalsAssumption DEF Init, TypeOK, EstimateRow, EstimateStatus
<1>2. HandlersOK
  BY DEF Init, HandlersOK, HandlerOK, InFlight, Idle
<1>3. InvoicesOK
  BY NoneAssumption DEF Init, InvoicesOK, NoInvoice, NoneAssumption
<1> QED
  BY <1>1, <1>2, <1>3 DEF Inv

LEMMA NextInv == Inv /\ [Next]_vars => Inv'
<1> SUFFICES ASSUME Inv, [Next]_vars PROVE Inv'
  OBVIOUS
<1>1. ASSUME NEW r \in Requests, Abandon(r) PROVE Inv'
  BY <1>1, FinishInv, NoJobInserted DEF Abandon, Inv, TypeOK
<1>2. CASE UNCHANGED vars
  BY <1>2 DEF vars, Inv, TypeOK, HandlersOK, HandlerOK, InFlight, HasJob, InvoicesOK
<1> QED
  BY <1>1, <1>2, StartInv, ProceedInv, CompleteInv DEF Next

LEMMA Invariance == Spec => []Inv
  BY InitInv, NextInv, PTL DEF Spec

\* The estimates, jobs, invoices and handlers keep the shape their columns
\* and the handlers' code give them.
THEOREM TypeCorrect == Spec => []TypeOK
<1>1. Inv => TypeOK
  BY DEF Inv
<1> QED
  BY <1>1, Invariance, PTL

-----------------------------------------------------------------------------
(***************************************************************************)
(* AcceptanceHonoured is inductive beside Inv: whichever handler wrote     *)
(* 'accepted' still has the job and the customer before it, and fails only *)
(* after somebody else took the acceptance back.                           *)
(***************************************************************************)

\* What has happened for an accepted estimate is not undone.
LEMMA HonouredStays ==
  ASSUME SameJobs, leads' \subseteq leads, NEW e \in Estimates, Honoured(e)
  PROVE  Honoured(e)'
  BY JobStays, NoneAssumption DEF Honoured

\* A step of handler r keeps the property if it drops no acceptance.
LEMMA HonouredKept ==
  ASSUME Inv, Inv', AcceptanceHonoured, SameJobs, leads' \subseteq leads,
         NEW r \in Requests, \A q \in Requests \ {r} : req'[q] = req[q],
         \A e \in Estimates : estimate'[e].status = "accepted" =>
             /\ estimate[e].status = "accepted" \/ Accepting(r, e)'
             /\ Accepting(r, e) => Accepting(r, e)' \/ Honoured(e)'
  PROVE  AcceptanceHonoured'
<1> SUFFICES ASSUME NEW e \in Estimates, estimate'[e].status = "accepted", ~ Accepting(r, e)'
             PROVE  Honoured(e)' \/ \E q \in Requests : Accepting(q, e)'
  BY DEF AcceptanceHonoured
<1>1. estimate[e].status = "accepted"
  OBVIOUS
<1>2. CASE Honoured(e)
  BY <1>2, HonouredStays
<1>3. CASE \E q \in Requests : Accepting(q, e)
  <2>1. PICK q \in Requests : Accepting(q, e)
    BY <1>3
  <2>2. CASE q = r
    BY <2>1, <2>2
  <2>3. CASE q # r
    BY <2>1, <2>3 DEF Accepting
  <2> QED
    BY <2>2, <2>3
<1> QED
  BY <1>1, <1>2, <1>3 DEF AcceptanceHonoured

\* A handler that is not converting leaves every acceptance in place.
LEMMA OutsideHonoured ==
  ASSUME Inv, Inv', AcceptanceHonoured, SameJobs, leads' \subseteq leads,
         NEW r \in Requests, \A q \in Requests \ {r} : req'[q] = req[q],
         req[r].op \notin Converting,
         \A e \in Estimates : estimate'[e].status = "accepted" =>
             estimate[e].status = "accepted" \/ Accepting(r, e)'
  PROVE  AcceptanceHonoured'
  BY HonouredKept DEF Accepting

\* What the writes do to the statuses.
LEMMA WriteStatus ==
  ASSUME Inv, NEW r \in Requests, NEW op \in Ops \ {"idle"}, NEW row, WriteEstimate(r, op, row)
  PROVE  /\ req[r].est \in Estimates
         /\ estimate'[req[r].est] = row
         /\ \A e \in Estimates \ {req[r].est} : estimate'[e] = estimate[e]
         /\ SameJobs /\ UNCHANGED <<leads, job, invoice>>
  BY NoJobInserted DEF Inv, TypeOK, HandlersOK, HandlerOK, InFlight, WriteEstimate

LEMMA StartHonoured ==
  ASSUME Inv, Inv', AcceptanceHonoured, NEW r \in Requests, Start(r)
  PROVE  AcceptanceHonoured'
<1>1. UNCHANGED <<estimate, leads, job>>
  BY DEF Start, UpdateRead, SendRead, AcceptRead, DeclineRead, ExpireRead, ReopenRead, ViewRead,
         ConvertToJob, Pass, InvoiceTxBegin
<1>2. \E h : Begin(r, h)
  BY DEF Start, UpdateRead, SendRead, AcceptRead, DeclineRead, ExpireRead, ReopenRead, ViewRead,
         ConvertToJob, Pass, InvoiceTxBegin
<1>3. req[r].op \notin Converting
  BY DEF Start, UpdateRead, SendRead, AcceptRead, DeclineRead, ExpireRead, ReopenRead, ViewRead,
         ConvertToJob, Pass, InvoiceTxBegin, MayStart, InFlight, Converting
<1>4. \A q \in Requests \ {r} : req'[q] = req[q]
  BY <1>2 DEF Begin, Inv, TypeOK
<1> QED
  BY <1>1, <1>3, <1>4, OutsideHonoured, NoJobInserted

\* A write that accepts nothing.
LEMMA OtherWriteHonoured ==
  ASSUME Inv, Inv', AcceptanceHonoured, NEW r \in Requests,
         NEW op \in {"update", "send", "decline", "expire", "reopen", "view"}, NEW row,
         WriteEstimate(r, op, row), Finish(r),
         row.status = "accepted" => ReadRow(r).status = "accepted"
  PROVE  AcceptanceHonoured'
<1>1. op \in Ops \ {"idle"}
  BY DEF Ops
<1>2. SameJobs /\ UNCHANGED <<leads, job, invoice>> /\ req[r].op \notin Converting
  BY <1>1, WriteStatus DEF WriteEstimate, Converting
<1>3. \A e \in Estimates : estimate'[e].status = "accepted" => estimate[e].status = "accepted"
  BY <1>1, WriteStatus DEF ReadRow
<1>4. \A q \in Requests \ {r} : req'[q] = req[q]
  BY FinishHandler DEF Inv
<1> QED
  BY <1>2, <1>3, <1>4, OutsideHonoured

LEMMA WriteHonoured ==
  ASSUME Inv, Inv', AcceptanceHonoured, NEW r \in Requests,
         \/ \E t \in Totals : UpdateWrite(r, t)
         \/ SendWrite(r) \/ DeclineWrite(r) \/ ExpireWrite(r) \/ ReopenWrite(r) \/ ViewWrite(r)
  PROVE  AcceptanceHonoured'
<1>1. req[r].op # "idle" => ReadRow(r) \in EstimateRow
  BY DEF Inv, TypeOK, HandlersOK, HandlerOK, InFlight, ReadRow
<1>2. ASSUME NEW t \in Totals, UpdateWrite(r, t) PROVE AcceptanceHonoured'
  <2>1. [ReadRow(r) EXCEPT !.total = t].status = ReadRow(r).status
    BY <1>1, <1>2 DEF UpdateWrite, WriteEstimate, EstimateRow
  <2> QED
    BY <1>2, <2>1, OtherWriteHonoured DEF UpdateWrite
<1>3. CASE SendWrite(r)
  <2>1. [ReadRow(r) EXCEPT !.status = "sent", !.viewed = FALSE].status = "sent"
    BY <1>1, <1>3 DEF SendWrite, WriteEstimate, EstimateRow
  <2> QED
    BY <1>3, <2>1, OtherWriteHonoured DEF SendWrite
<1>4. CASE DeclineWrite(r)
  <2>1. [ReadRow(r) EXCEPT !.status = "declined"].status = "declined"
    BY <1>1, <1>4 DEF DeclineWrite, WriteEstimate, EstimateRow
  <2> QED
    BY <1>4, <2>1, OtherWriteHonoured DEF DeclineWrite
<1>5. CASE ExpireWrite(r)
  <2>1. [ReadRow(r) EXCEPT !.status = "expired"].status = "expired"
    BY <1>1, <1>5 DEF ExpireWrite, WriteEstimate, EstimateRow
  <2> QED
    BY <1>5, <2>1, OtherWriteHonoured DEF ExpireWrite
<1>6. CASE ReopenWrite(r)
  <2>1. [ReadRow(r) EXCEPT !.status = "draft"].status = "draft"
    BY <1>1, <1>6 DEF ReopenWrite, WriteEstimate, EstimateRow
  <2> QED
    BY <1>6, <2>1, OtherWriteHonoured DEF ReopenWrite
<1>7. CASE ViewWrite(r)
  <2>1. [ReadRow(r) EXCEPT !.status = ViewedStatus(r), !.viewed = TRUE].status = ViewedStatus(r)
    BY <1>1, <1>7 DEF ViewWrite, WriteEstimate, EstimateRow
  <2>2. ViewedStatus(r) = "accepted" => ReadRow(r).status = "accepted"
    BY DEF ViewedStatus
  <2> QED
    BY <1>7, <2>1, <2>2, OtherWriteHonoured DEF ViewWrite
<1> QED
  BY <1>2, <1>3, <1>4, <1>5, <1>6, <1>7

LEMMA AcceptHonoured ==
  ASSUME Inv, Inv', AcceptanceHonoured, NEW r \in Requests, AcceptWrite(r)
  PROVE  AcceptanceHonoured'
<1>1. /\ \A e \in Estimates \ {req[r].est} : estimate'[e] = estimate[e]
      /\ SameJobs /\ UNCHANGED <<leads, job, invoice>>
  BY WriteStatus DEF AcceptWrite, Ops
<1>2. req[r].op \notin Converting
  BY DEF AcceptWrite, WriteEstimate, Converting
<1>3. /\ \A q \in Requests \ {r} : req'[q] = req[q]
      /\ \A e \in Estimates : e = req[r].est => Accepting(r, e)'
  <2>1. req' = [req EXCEPT ![r].op = "findJob", ![r].accepting = TRUE]
    BY DEF AcceptWrite, AfterAcceptance
  <2> QED
    BY <2>1 DEF Accepting, Inv, TypeOK, Request, Converting
<1> QED
  BY <1>1, <1>2, <1>3, OutsideHonoured

\* The look for a job and the reads on the way to it: only a handler whose
\* estimate is not accepted any more gives up.
LEMMA ConvertHonoured ==
  ASSUME Inv, Inv', AcceptanceHonoured, NEW r \in Requests, FindJob(r) \/ ReadAccepted(r) \/ JobTxBegin(r)
  PROVE  AcceptanceHonoured'
<1> USE DEF Converting
<1>1. req[r].op \in Converting /\ UNCHANGED <<estimate, leads, job, invoice>>
  BY DEF FindJob, ReadAccepted, JobTxBegin
<1>2. SameJobs /\ \A e \in Estimates : Honoured(e)' <=> Honoured(e)
  BY <1>1, NoJobInserted DEF Honoured
<1>3. req[r] \in Request /\ req[r].est \in Estimates
  BY <1>1 DEF Inv, TypeOK, HandlersOK, HandlerOK, InFlight
<1>4. ASSUME \A q \in Requests \ {r} : req'[q] = req[q],
             req'[r].op \in Converting, req'[r].est = req[r].est, req'[r].accepting = req[r].accepting
      PROVE  AcceptanceHonoured'
  BY <1>1, <1>2, <1>4, HonouredKept DEF Accepting
<1>5. ASSUME Finish(r), ~ req[r].accepting \/ ReadRow(r).status # "accepted"
      PROVE  AcceptanceHonoured'
  <2>1. \A q \in Requests \ {r} : req'[q] = req[q]
    BY <1>5, FinishHandler DEF Inv
  <2>2. ASSUME NEW e \in Estimates, Accepting(r, e), estimate'[e].status = "accepted"
        PROVE  FALSE
    BY <2>2, <1>1, <1>5 DEF Accepting, ReadRow
  <2> QED
    BY <1>1, <1>2, <2>1, <2>2, HonouredKept
<1>6. ASSUME NEW op \in Converting, Continue(r, op)
      PROVE  AcceptanceHonoured'
  <2>1. /\ req'[r] = [req[r] EXCEPT !.op = op]
        /\ \A q \in Requests \ {r} : req'[q] = req[q]
    BY <1>6, ContinueHandler DEF Inv, Ops
  <2>2. req'[r].op = op /\ req'[r].est = req[r].est /\ req'[r].accepting = req[r].accepting
    BY <1>3, <2>1 DEF Request
  <2> QED
    BY <1>4, <2>1, <2>2
<1>7. ASSUME AfterJob(r)
      PROVE  AcceptanceHonoured'
  <2>1. CASE req[r].accepting
    BY <1>7, <1>6, <2>1 DEF AfterJob
  <2>2. CASE ~ req[r].accepting
    BY <1>5, <1>7, <2>2 DEF AfterJob
  <2> QED
    BY <2>1, <2>2
<1>8. CASE FindJob(r)
  <2>1. CASE Continue(r, "readEstimate")
    BY <1>6, <2>1
  <2> QED
    BY <1>7, <1>8, <2>1 DEF FindJob
<1>9. CASE ReadAccepted(r)
  <2>1. CASE req' = [req EXCEPT ![r].op = "jobTx", ![r].price = ReadRow(r).total]
    <3>1. req'[r].op = "jobTx" /\ req'[r].est = req[r].est /\ req'[r].accepting = req[r].accepting
      BY <1>3, <2>1 DEF Inv, TypeOK, Request
    <3> QED
      BY <1>4, <2>1, <3>1 DEF Inv, TypeOK
  <2> QED
    BY <1>5, <1>9, <2>1 DEF ReadAccepted
<1>10. CASE JobTxBegin(r)
  <2>1. CASE req' = [req EXCEPT ![r].op = "insertJob", ![r].lines = ReadRow(r).total]
    <3>1. req'[r].op = "insertJob" /\ req'[r].est = req[r].est /\ req'[r].accepting = req[r].accepting
      BY <1>3, <2>1 DEF Inv, TypeOK, Request
    <3> QED
      BY <1>4, <2>1, <3>1 DEF Inv, TypeOK
  <2> QED
    BY <1>7, <1>10, <2>1 DEF JobTxBegin
<1> QED
  BY <1>8, <1>9, <1>10

LEMMA InsertHonoured ==
  ASSUME Inv, Inv', AcceptanceHonoured, NEW r \in Requests, NEW j \in Jobs, JobTxCommit(r, j)
  PROVE  AcceptanceHonoured'
<1>1. SameJobs /\ UNCHANGED <<estimate, leads, invoice>> /\ req[r].op \in Converting /\ AfterJob(r)
  BY InsertedJob
<1>2. req[r] \in Request
  BY DEF Inv, TypeOK
<1>3. \A q \in Requests \ {r} : req'[q] = req[q]
  BY <1>1, AfterJobHandler
<1>4. ASSUME NEW e \in Estimates, Accepting(r, e) PROVE Accepting(r, e)'
  <2>1. req'[r] = [req[r] EXCEPT !.op = "convertLead"]
    BY <1>1, <1>4, AfterJobHandler DEF Accepting
  <2> QED
    BY <1>2, <1>4, <2>1 DEF Accepting, Request, Converting
<1> QED
  BY <1>1, <1>3, <1>4, HonouredKept

LEMMA LeadHonoured ==
  ASSUME Inv, Inv', AcceptanceHonoured, NEW r \in Requests, ConvertLead(r)
  PROVE  AcceptanceHonoured'
<1>1. SameJobs /\ UNCHANGED <<estimate, job>> /\ leads' = leads \ {CustomerOf[req[r].est]}
  BY NoJobInserted DEF ConvertLead
<1>2. \A q \in Requests \ {r} : req'[q] = req[q]
  BY FinishHandler DEF Inv, ConvertLead
<1>3. ASSUME NEW e \in Estimates, Accepting(r, e) PROVE Honoured(e)'
  BY <1>1, <1>3 DEF Accepting, Honoured, HasJob, Inv, HandlersOK, HandlerOK, ConvertLead
<1> QED
  BY <1>1, <1>2, <1>3, HonouredKept

LEMMA NextHonoured ==
  ASSUME ~ MayCrash
  PROVE  Inv /\ Inv' /\ AcceptanceHonoured /\ [Next]_vars => AcceptanceHonoured'
<1> SUFFICES ASSUME Inv, Inv', AcceptanceHonoured, [Next]_vars PROVE AcceptanceHonoured'
  OBVIOUS
<1>1. ASSUME NEW r \in Requests, Proceed(r) PROVE AcceptanceHonoured'
  <2>1. ASSUME NEW v \in Invoices, InvoiceTxCommit(r, v) PROVE AcceptanceHonoured'
    <3>1. UNCHANGED <<estimate, leads, job>> /\ req[r].op \notin Converting /\ Finish(r)
      BY <2>1 DEF InvoiceTxCommit, Converting
    <3> QED
      BY <3>1, FinishHandler, OutsideHonoured, NoJobInserted DEF Inv
  <2> QED
    BY <1>1, <2>1, WriteHonoured, AcceptHonoured, ConvertHonoured, InsertHonoured, LeadHonoured DEF Proceed
<1>2. ASSUME NEW j \in Jobs, CompleteJob(j) PROVE AcceptanceHonoured'
  <2>1. UNCHANGED <<estimate, leads, req>> /\ \A k \in Jobs : job'[k].est = job[k].est
    BY <1>2, CompleteInv DEF CompleteJob
  <2> QED
    BY <2>1 DEF AcceptanceHonoured, Honoured, HasJob, Accepting
<1>3. CASE UNCHANGED vars
  BY <1>3 DEF vars, AcceptanceHonoured, Honoured, HasJob, Accepting
<1> QED
  BY <1>1, <1>2, <1>3, StartHonoured DEF Next, Abandon

\* As long as no handler dies, an accepted estimate has its job and its
\* customer is no lead, or the handler that accepted it is still on its way
\* there, however acceptances, declines, edits and reopenings interleave
\* (acceptManually, approveEstimate, createFromEstimate).
THEOREM AcceptancesHonoured ==
  ASSUME ~ MayCrash
  PROVE  Spec => []AcceptanceHonoured
<1>1. Init => AcceptanceHonoured
  BY DEF Init, AcceptanceHonoured
<1> QED
  BY <1>1, Invariance, NextHonoured, PTL DEF Spec
-----------------------------------------------------------------------------
(***************************************************************************)
(* The handlers end: how far one is from answering its request.            *)
(***************************************************************************)
Stage(op) ==
    CASE op = "idle"         -> 0
      [] op = "insertJob"    -> 2
      [] op = "jobTx"        -> 3
      [] op = "readEstimate" -> 4
      [] op = "findJob"      -> 5
      [] op = "accept"       -> 6
      [] OTHER               -> 1

Moved(r)  == InFlight(r) /\ req'[r] # req[r]
Nearer(r) == Stage(req'[r].op) < Stage(req[r].op)

HandlersRunOut == \A r \in Requests : Moved(r) => Nearer(r)

\* A handler that answers, by an error too, is at the last stage.
LEMMA FinishedIsNearer ==
  ASSUME TypeOK, NEW r \in Requests, Finish(r), InFlight(r)
  PROVE  Nearer(r)
<1>1. Stage(req[r].op) > 0
  BY DEF Stage, InFlight
<1>2. Stage(req'[r].op) = 0
  BY FinishHandler DEF Idle, Stage
<1>3. Stage(req[r].op) \in Nat
  BY DEF Stage
<1> QED
  BY <1>1, <1>2, <1>3 DEF Nearer

\* A handler that goes on towards its job is nearer the answer.
LEMMA GoneOn ==
  ASSUME TypeOK, NEW r \in Requests,
         \/ FindJob(r) /\ ~ JobExists(r)
         \/ ReadAccepted(r) /\ ReadRow(r).status = "accepted"
         \/ JobTxBegin(r) /\ ~ JobExists(r)
         \/ AcceptWrite(r)
  PROVE  Nearer(r)
<1>1. req[r] \in Request
  BY DEF TypeOK
<1>2. CASE FindJob(r) /\ ~ JobExists(r)
  <2>1. req[r].op = "findJob" /\ req'[r].op = "readEstimate"
    BY <1>1, <1>2 DEF FindJob, Continue, TypeOK, Request
  <2> QED
    BY <2>1 DEF Nearer, Stage
<1>3. CASE ReadAccepted(r) /\ ReadRow(r).status = "accepted"
  <2>1. req[r].op = "readEstimate" /\ req'[r].op = "jobTx"
    BY <1>1, <1>3 DEF ReadAccepted, TypeOK, Request
  <2> QED
    BY <2>1 DEF Nearer, Stage
<1>4. CASE JobTxBegin(r) /\ ~ JobExists(r)
  <2>1. req[r].op = "jobTx" /\ req'[r].op = "insertJob"
    BY <1>1, <1>4 DEF JobTxBegin, TypeOK, Request
  <2> QED
    BY <2>1 DEF Nearer, Stage
<1>5. CASE AcceptWrite(r)
  <2>1. req[r].op = "accept" /\ req'[r].op = "findJob"
    BY <1>1, <1>5 DEF AcceptWrite, WriteEstimate, AfterAcceptance, TypeOK, Request
  <2> QED
    BY <2>1 DEF Nearer, Stage
<1> QED
  BY <1>2, <1>3, <1>4, <1>5

\* A handler that has its job converts the lead, or answers.
LEMMA AfterJobIsNearer ==
  ASSUME Inv, NEW r \in Requests, AfterJob(r), req[r].op \in Converting \ {"convertLead"}
  PROVE  Nearer(r)
<1>1. CASE Finish(r)
  BY <1>1, FinishedIsNearer DEF Inv, InFlight, Converting
<1>2. CASE req'[r] = [req[r] EXCEPT !.op = "convertLead"]
  <2>1. req'[r].op = "convertLead"
    BY <1>2 DEF Inv, TypeOK, Request
  <2> QED
    BY <2>1 DEF Nearer, Stage, Converting
<1> QED
  BY <1>1, <1>2, AfterJobHandler DEF AfterJob, Converting

\* Every transaction of a handler takes it nearer, and moves no other.
LEMMA ProceedIsNearer ==
  ASSUME Inv, NEW r \in Requests, Proceed(r)
  PROVE  Nearer(r) /\ \A q \in Requests \ {r} : req'[q] = req[q]
<1>0. TypeOK
  BY DEF Inv
<1>1. ASSUME InFlight(r), Finish(r)
      PROVE  Nearer(r) /\ \A q \in Requests \ {r} : req'[q] = req[q]
  BY <1>0, <1>1, FinishedIsNearer, FinishHandler
<1>2. ASSUME AfterJob(r), req[r].op \in Converting \ {"convertLead"}
      PROVE  Nearer(r) /\ \A q \in Requests \ {r} : req'[q] = req[q]
  BY <1>2, AfterJobIsNearer, AfterJobHandler
<1>3. CASE \/ \E t \in Totals : UpdateWrite(r, t)
           \/ SendWrite(r) \/ DeclineWrite(r) \/ ExpireWrite(r) \/ ReopenWrite(r) \/ ViewWrite(r)
           \/ ConvertLead(r)
           \/ \E v \in Invoices : InvoiceTxCommit(r, v)
  BY <1>1, <1>3 DEF UpdateWrite, SendWrite, DeclineWrite, ExpireWrite, ReopenWrite, ViewWrite,
                    WriteEstimate, ConvertLead, InvoiceTxCommit, InFlight
<1>4. CASE \/ FindJob(r) /\ ~ JobExists(r)
           \/ ReadAccepted(r) /\ ReadRow(r).status = "accepted"
           \/ JobTxBegin(r) /\ ~ JobExists(r)
           \/ AcceptWrite(r)
  <2>1. \A q \in Requests \ {r} : req'[q] = req[q]
    BY <1>0, <1>4 DEF FindJob, ReadAccepted, JobTxBegin, AcceptWrite, AfterAcceptance, Continue, TypeOK
  <2> QED
    BY <1>0, <1>4, <2>1, GoneOn
<1>5. CASE FindJob(r) /\ JobExists(r)
  BY <1>2, <1>5 DEF FindJob, Converting
<1>6. CASE ReadAccepted(r) /\ ReadRow(r).status # "accepted"
  BY <1>1, <1>6 DEF ReadAccepted, InFlight
<1>7. CASE JobTxBegin(r) /\ JobExists(r)
  BY <1>2, <1>7 DEF JobTxBegin, Converting
<1>8. CASE \E j \in Jobs : JobTxCommit(r, j)
  BY <1>2, <1>8 DEF JobTxCommit, Converting
<1> QED
  BY <1>3, <1>4, <1>5, <1>6, <1>7, <1>8 DEF Proceed

\* A request that starts was not in flight, and moves no other.
LEMMA StartMovesNone ==
  ASSUME Inv, NEW r \in Requests, Start(r)
  PROVE  \A q \in Requests : ~ Moved(q)
<1>1. /\ ~ InFlight(r)
      /\ \A q \in Requests \ {r} : req'[q] = req[q]
  BY DEF Start, UpdateRead, SendRead, AcceptRead, DeclineRead, ExpireRead, ReopenRead, ViewRead,
         ConvertToJob, InvoiceTxBegin, Pass, MayStart, Begin, Inv, TypeOK
<1> QED
  BY <1>1 DEF Moved

\* No handler runs for ever: whatever happens to one in flight, its own next
\* transaction, an error or its death, it is nearer its answer (acceptManually,
\* approveEstimate, createFromEstimate, generateFromJob and the single writes).
THEOREM HandlersEnd == Spec => [][HandlersRunOut]_vars
<1>1. Inv /\ [Next]_vars => HandlersRunOut
  <2> SUFFICES ASSUME Inv, [Next]_vars, NEW r \in Requests, Moved(r)
               PROVE  Nearer(r)
    BY DEF HandlersRunOut
  <2>1. ASSUME NEW q \in Requests, Start(q) PROVE Nearer(r)
    BY <2>1, StartMovesNone
  <2>2. ASSUME NEW q \in Requests, Proceed(q) PROVE Nearer(r)
    BY <2>2, ProceedIsNearer DEF Moved
  <2>3. ASSUME NEW q \in Requests, Abandon(q) PROVE Nearer(r)
    BY <2>3, FinishedIsNearer, FinishHandler DEF Abandon, Moved, Inv
  <2>4. CASE (\E j \in Jobs : CompleteJob(j)) \/ UNCHANGED vars
    BY <2>4 DEF CompleteJob, vars, Moved
  <2> QED
    BY <2>1, <2>2, <2>3, <2>4 DEF Next
<1> QED
  BY <1>1, Invariance, PTL DEF Spec

-----------------------------------------------------------------------------
(***************************************************************************)
(* EstimateLifecycle implements Quotes: as long as no two handlers overlap *)
(* on an estimate, and whichever of them die, an estimate is edited,       *)
(* decided, reopened, sold and billed as the abstract quote is.            *)
(*                                                                         *)
(* The inductive invariant: what a handler in flight read is still so,     *)
(* because no other handler is on its estimate.                            *)
(***************************************************************************)
Undecided == {"draft", "sent", "viewed"}

ReadStillHolds(r) ==
    /\ req[r].op \in {"update", "send"} => ReadRow(r).status = "draft"
    /\ req[r].op \in {"accept", "expire"} => ReadRow(r).status \in Undecided
    /\ req[r].op = "decline" => ReadRow(r).status \notin {"accepted", "declined"}
    /\ req[r].op = "reopen" => ReadRow(r).status # "draft"
    /\ req[r].op = "view" /\ req[r].wasSent => ReadRow(r).status = "sent"
    /\ req[r].op \in {"jobTx", "insertJob"} =>
           ReadRow(r).status = "accepted" /\ req[r].price = ReadRow(r).total
    /\ req[r].op = "insertJob" => \A j \in Jobs : job[j].est # req[r].est
    /\ req[r].op = "invoiceTx" =>
           \A v \in Invoices : invoice[v].job \in Jobs => job[invoice[v].job].est # req[r].est

Apart  == \A r, q \in Requests : r # q /\ InFlight(r) /\ InFlight(q) => req[r].est # req[q].est
OneJob == \A j, k \in Jobs : job[j].est = job[k].est /\ job[j].est # None => j = k

QuotesInv == Apart /\ OneJob /\ \A r \in Requests : ReadStillHolds(r)

\* No handler but r is on estimate e.
Alone(r, e) == \A q \in Requests \ {r} : InFlight(q) => req[q].est # e

\* This step does not touch estimate e, its job or its invoice.
Untouched(e) ==
    /\ estimate'[e] = estimate[e]
    /\ \A j \in Jobs : job'[j].est = e <=> job[j].est = e
    /\ \A v \in Invoices :
          invoice'[v].job \in Jobs /\ job'[invoice'[v].job].est = e =>
              invoice[v].job \in Jobs /\ job[invoice[v].job].est = e

\* A step of handler r that touches only the estimate it has to itself.
LEMMA QuotesInvKept ==
  ASSUME Inv, Inv', QuotesInv, OneJob', NEW r \in Requests, NEW e \in Estimates,
         Alone(r, e), \A q \in Requests \ {r} : req'[q] = req[q],
         \A f \in Estimates \ {e} : Untouched(f),
         InFlight(r)' => req'[r].est = e, ReadStillHolds(r)'
  PROVE  QuotesInv'
<1>1. Apart'
  BY DEF QuotesInv, Apart, Alone, InFlight
<1>2. ASSUME NEW q \in Requests \ {r} PROVE ReadStillHolds(q)'
  <2>1. req'[q] = req[q] /\ ReadStillHolds(q)
    BY DEF QuotesInv
  <2>2. CASE InFlight(q)
    <3>1. req[q].est \in Estimates \ {e}
      BY <2>2 DEF Alone, Inv, HandlersOK, HandlerOK
    <3>2. PICK f \in Estimates \ {e} : f = req[q].est
      BY <3>1
    <3>3. Untouched(f)
      BY <3>2
    <3> QED
      BY <2>1, <3>2, <3>3 DEF ReadStillHolds, Untouched, ReadRow
  <2>3. CASE ~ InFlight(q)
    BY <2>1, <2>3 DEF ReadStillHolds, InFlight
  <2> QED
    BY <2>2, <2>3
<1> QED
  BY <1>1, <1>2 DEF QuotesInv

\* A handler that has finished has read nothing.
LEMMA FinishedReads ==
  ASSUME Inv, NEW r \in Requests, Finish(r)
  PROVE  ~ InFlight(r)' /\ ReadStillHolds(r)'
  BY FinishHandler DEF Inv, ReadStillHolds, InFlight, Idle

\* A handler in flight has its estimate to itself.
LEMMA InFlightAlone ==
  ASSUME QuotesInv, NEW r \in Requests, InFlight(r)
  PROVE  Alone(r, req[r].est)
  BY DEF QuotesInv, Apart, Alone

-----------------------------------------------------------------------------
(***************************************************************************)
(* The steps of a quote.                                                   *)
(***************************************************************************)
SameDecision(e) == Decision(e)' = Decision(e)
SameTerms(e)    == estimate'[e].total = estimate[e].total
SameSale(e)     == Sold(e)' = Sold(e)
SameBill(e)     == InvoicesOf(e)' = InvoicesOf(e)

Same(e) == SameDecision(e) /\ SameTerms(e) /\ SameSale(e) /\ SameBill(e)

LEMMA QuoteStutter ==
  ASSUME \A e \in Estimates : Same(e)
  PROVE  UNCHANGED Quote!vars
  BY DEF Same, SameDecision, SameTerms, SameSale, SameBill, Quote!vars

LEMMA QuoteRevised ==
  ASSUME NEW e \in Estimates, \A f \in Estimates \ {e} : Same(f),
         SameDecision(e), SameSale(e), SameBill(e),
         Decision(e) = "draft", NEW t \in Totals, estimate'[e].total = t
  PROVE  Quote!Next
  BY DEF Same, SameDecision, SameTerms, SameSale, SameBill, Quote!Next, Quote!Revise

LEMMA QuoteOffered ==
  ASSUME NEW e \in Estimates, \A f \in Estimates \ {e} : Same(f),
         SameTerms(e), SameSale(e), SameBill(e),
         Decision(e) = "draft", Decision(e)' = "offered"
  PROVE  Quote!Next
  BY DEF Same, SameDecision, SameTerms, SameSale, SameBill, Quote!Next, Quote!Offer

LEMMA QuoteDecided ==
  ASSUME NEW e \in Estimates, \A f \in Estimates \ {e} : Same(f),
         SameTerms(e), SameSale(e), SameBill(e),
         NEW d \in {"accepted", "declined", "expired"}, Decision(e)' = d,
         Decision(e) \in {"draft", "offered"} \/ (Decision(e) = "expired" /\ d = "declined")
  PROVE  Quote!Next
  BY DEF Same, SameDecision, SameTerms, SameSale, SameBill, Quote!Next, Quote!Decide

LEMMA QuoteReopened ==
  ASSUME NEW e \in Estimates, \A f \in Estimates \ {e} : Same(f),
         SameTerms(e), SameSale(e), SameBill(e),
         Decision(e) # "draft", Decision(e)' = "draft"
  PROVE  Quote!Next
  BY DEF Same, SameDecision, SameTerms, SameSale, SameBill, Quote!Next, Quote!Reopen

LEMMA QuoteSold ==
  ASSUME NEW e \in Estimates, \A f \in Estimates \ {e} : Same(f),
         SameDecision(e), SameTerms(e), SameBill(e),
         NEW j \in Jobs, Decision(e) = "accepted", Sold(e) = {}, Sold(e)' = {<<j, estimate[e].total>>}
  PROVE  Quote!Next
  BY DEF Same, SameDecision, SameTerms, SameSale, SameBill, Quote!Next, Quote!Sell

LEMMA QuoteBilled ==
  ASSUME NEW e \in Estimates, \A f \in Estimates \ {e} : Same(f),
         SameDecision(e), SameTerms(e), SameSale(e),
         NEW v \in Invoices, Sold(e) # {}, InvoicesOf(e) = {}, InvoicesOf(e)' = {v}
  PROVE  Quote!Next
  BY DEF Same, SameDecision, SameTerms, SameSale, SameBill, Quote!Next, Quote!Bill

\* An estimate whose row, jobs and invoices stay is the same quote.
LEMMA SameQuote ==
  ASSUME UNCHANGED invoice, \A j \in Jobs : job'[j].est = job[j].est /\ job'[j].price = job[j].price
  PROVE  \A e \in Estimates : SameSale(e) /\ SameBill(e)
  BY DEF SameSale, SameBill, Sold, JobsOf, InvoicesOf

QuotesStep == QuotesInv' /\ [Quote!Next]_(Quote!vars)

\* A step that moves only the handler, which has its estimate to itself.
LEMMA HandlerMoves ==
  ASSUME Inv, Inv', QuotesInv, NEW r \in Requests, NEW e \in Estimates, Alone(r, e),
         \A q \in Requests \ {r} : req'[q] = req[q],
         UNCHANGED <<estimate, job, invoice>>, req'[r].est = e, ReadStillHolds(r)'
  PROVE  QuotesStep
<1>1. OneJob' /\ \A f \in Estimates : Untouched(f) /\ Same(f)
  BY DEF QuotesInv, OneJob, Untouched, Same, SameDecision, SameTerms, SameSale, SameBill,
         Decision, Sold, InvoicesOf, JobsOf
<1>2. QuotesInv'
  BY <1>1, QuotesInvKept
<1> QED
  BY <1>1, <1>2, QuoteStutter DEF QuotesStep

\* A handler that ends, and writes at most its own estimate: the quotes move
\* as that estimate does.
LEMMA HandlerEnds ==
  ASSUME Inv, Inv', QuotesInv, NEW r \in Requests, InFlight(r), Finish(r),
         UNCHANGED <<job, invoice>>, \A f \in Estimates \ {req[r].est} : estimate'[f] = estimate[f]
  PROVE  /\ QuotesInv'
         /\ \A f \in Estimates \ {req[r].est} : Same(f)
         /\ \A f \in Estimates : SameSale(f) /\ SameBill(f)
<1>1. PICK e \in Estimates : e = req[r].est
  BY DEF Inv, HandlersOK, HandlerOK
<1>2. \A f \in Estimates : SameSale(f) /\ SameBill(f)
  BY SameQuote
<1>3. OneJob' /\ \A f \in Estimates \ {e} : Untouched(f) /\ Same(f)
  BY <1>1, <1>2 DEF QuotesInv, OneJob, Untouched, Same, SameDecision, SameTerms, Decision
<1>4. ReadStillHolds(r)' /\ ~ InFlight(r)' /\ \A q \in Requests \ {r} : req'[q] = req[q]
  BY FinishedReads, FinishHandler DEF Inv
<1>5. Alone(r, e)
  BY <1>1, InFlightAlone
<1> QED
  BY <1>1, <1>2, <1>3, <1>4, <1>5, QuotesInvKept

-----------------------------------------------------------------------------
(***************************************************************************)
(* A handler begins.                                                       *)
(***************************************************************************)
LEMMA StartedAlone ==
  ASSUME OneAtATime, NEW r \in Requests, NEW e, MayStart(r, e)
  PROVE  Alone(r, e)
  BY DEF MayStart, Alone

LEMMA PassQuotes ==
  ASSUME OneAtATime, Inv, Inv', QuotesInv, NEW r \in Requests, NEW e \in Estimates,
         NEW op \in {"update", "send", "accept", "decline", "expire", "reopen", "findJob"},
         Pass(r, e, op),
         op \in {"update", "send"} => estimate[e].status = "draft",
         op \in {"accept", "expire"} => estimate[e].status \in Undecided,
         op = "decline" => estimate[e].status \notin {"accepted", "declined"},
         op = "reopen" => estimate[e].status # "draft"
  PROVE  QuotesStep
<1> DEFINE h == [Idle EXCEPT !.op = op, !.est = e]
<1>1. h \in Request /\ h.op = op /\ h.est = e
  BY DEF Idle, Request, Ops, Converting
<1>2. Begin(r, h)
  BY DEF Pass
<1> HIDE DEF h
<1>3. req'[r] = h /\ \A q \in Requests \ {r} : req'[q] = req[q]
  BY <1>1, <1>2, BeginHandler DEF Inv
<1>4. ReadStillHolds(r)'
  BY <1>1, <1>3 DEF Pass, ReadStillHolds, ReadRow
<1>5. Alone(r, e)
  BY StartedAlone DEF Pass
<1> QED
  BY <1>1, <1>3, <1>4, <1>5, HandlerMoves DEF Pass

LEMMA StartQuotes ==
  ASSUME OneAtATime, Inv, Inv', QuotesInv, NEW r \in Requests, Start(r)
  PROVE  QuotesStep
<1>1. ASSUME NEW e \in Estimates,
             \/ UpdateRead(r, e) \/ SendRead(r, e) \/ AcceptRead(r, e) \/ DeclineRead(r, e)
             \/ ExpireRead(r, e) \/ ReopenRead(r, e) \/ ConvertToJob(r, e)
      PROVE  QuotesStep
  <2>1. estimate[e].status \in EstimateStatus
    BY DEF Inv, TypeOK, EstimateRow
  <2> QED
    BY <1>1, <2>1, PassQuotes DEF UpdateRead, SendRead, AcceptRead, DeclineRead, ExpireRead,
       ReopenRead, ConvertToJob, CanUpdate, CanSend, CanAccept, CanDeclineManually,
       CanDeclineInPortal, CanExpire, CanReopen, EstimateStatus, Undecided
<1>2. ASSUME NEW e \in Estimates, ViewRead(r, e)
      PROVE  QuotesStep
  <2> DEFINE h == [Idle EXCEPT !.op = "view", !.est = e, !.wasSent = estimate[e].status = "sent"]
  <2>1. h \in Request /\ h.op = "view" /\ h.est = e /\ h.wasSent = (estimate[e].status = "sent")
    BY DEF Idle, Request, Ops
  <2>2. Begin(r, h)
    BY <1>2 DEF ViewRead
  <2> HIDE DEF h
  <2>3. req'[r] = h /\ \A q \in Requests \ {r} : req'[q] = req[q]
    BY <2>1, <2>2, BeginHandler DEF Inv
  <2>4. ReadStillHolds(r)'
    BY <1>2, <2>1, <2>3 DEF ViewRead, ReadStillHolds, ReadRow
  <2>5. Alone(r, e)
    BY <1>2, StartedAlone DEF ViewRead
  <2> QED
    BY <1>2, <2>1, <2>3, <2>4, <2>5, HandlerMoves DEF ViewRead
<1>3. ASSUME NEW j \in Jobs, InvoiceTxBegin(r, j)
      PROVE  QuotesStep
  <2> DEFINE h == [Idle EXCEPT !.op = "invoiceTx", !.est = job[j].est, !.job = j,
                               !.lines = job[j].lines, !.price = estimate[job[j].est].total]
  <2>1. job[j].est \in Estimates /\ job[j].lines \in Nat /\ estimate[job[j].est].total \in Nat
    BY <1>3 DEF InvoiceTxBegin, CanInvoice, Inv, TypeOK, JobRow, EstimateRow
  <2>2. h \in Request /\ h.op = "invoiceTx" /\ h.est = job[j].est
    BY <2>1 DEF Idle, Request, Ops
  <2>3. Begin(r, h)
    BY <1>3 DEF InvoiceTxBegin
  <2> HIDE DEF h
  <2>4. req'[r] = h /\ \A q \in Requests \ {r} : req'[q] = req[q]
    BY <2>2, <2>3, BeginHandler DEF Inv
  <2>5. \A v \in Invoices : invoice[v].job \in Jobs => job[invoice[v].job].est # job[j].est
    BY <1>3 DEF InvoiceTxBegin, CanInvoice, HasInvoice, QuotesInv, OneJob
  <2>6. ReadStillHolds(r)'
    BY <1>3, <2>2, <2>4, <2>5 DEF InvoiceTxBegin, ReadStillHolds
  <2>7. Alone(r, job[j].est)
    BY <1>3, StartedAlone DEF InvoiceTxBegin
  <2> QED
    BY <1>3, <2>1, <2>2, <2>4, <2>6, <2>7, HandlerMoves DEF InvoiceTxBegin
<1> QED
  BY <1>1, <1>2, <1>3 DEF Start

-----------------------------------------------------------------------------
(***************************************************************************)
(* A handler writes its estimate: it still is what the handler read.       *)
(***************************************************************************)
LEMMA WriteQuotes ==
  ASSUME Inv, Inv', QuotesInv, NEW r \in Requests,
         \/ \E t \in Totals : UpdateWrite(r, t)
         \/ SendWrite(r) \/ DeclineWrite(r) \/ ExpireWrite(r) \/ ReopenWrite(r) \/ ViewWrite(r)
  PROVE  QuotesStep
<1>1. InFlight(r)
  BY DEF InFlight, UpdateWrite, SendWrite, DeclineWrite, ExpireWrite, ReopenWrite, ViewWrite, WriteEstimate
<1>2. PICK e \in Estimates : e = req[r].est
  BY <1>1 DEF Inv, HandlersOK, HandlerOK
<1>3. Finish(r) /\ UNCHANGED <<job, invoice>> /\ \A f \in Estimates \ {e} : estimate'[f] = estimate[f]
  BY <1>2 DEF UpdateWrite, SendWrite, DeclineWrite, ExpireWrite, ReopenWrite, ViewWrite, WriteEstimate,
              Inv, TypeOK
<1>4. /\ QuotesInv'
      /\ \A f \in Estimates \ {e} : Same(f)
      /\ SameSale(e) /\ SameBill(e)
  BY <1>1, <1>2, <1>3, HandlerEnds
<1>5. estimate \in [Estimates -> EstimateRow] /\ estimate[e].status \in EstimateStatus /\ ReadStillHolds(r)
  BY DEF Inv, TypeOK, QuotesInv, EstimateRow
<1>6. ASSUME NEW t \in Totals, UpdateWrite(r, t)
      PROVE  Quote!Next
  <2>1. estimate[e].status = "draft" /\ estimate'[e] = [estimate[e] EXCEPT !.total = t]
    BY <1>2, <1>5, <1>6 DEF UpdateWrite, WriteEstimate, ReadStillHolds, ReadRow
  <2>2. SameDecision(e) /\ Decision(e) = "draft" /\ estimate'[e].total = t
    BY <1>5, <2>1 DEF SameDecision, Decision, EstimateRow
  <2> QED
    BY <1>4, <2>2, QuoteRevised
<1>7. CASE SendWrite(r)
  <2>1. estimate[e].status = "draft" /\ estimate'[e] = [estimate[e] EXCEPT !.status = "sent", !.viewed = FALSE]
    BY <1>2, <1>5, <1>7 DEF SendWrite, WriteEstimate, ReadStillHolds, ReadRow
  <2>2. Decision(e) = "draft" /\ Decision(e)' = "offered" /\ SameTerms(e)
    BY <1>5, <2>1 DEF SameTerms, Decision, EstimateRow
  <2> QED
    BY <1>4, <2>2, QuoteOffered DEF QuotesStep
<1>8. CASE DeclineWrite(r)
  <2>1. /\ estimate[e].status \notin {"accepted", "declined"}
        /\ estimate'[e] = [estimate[e] EXCEPT !.status = "declined"]
    BY <1>2, <1>5, <1>8 DEF DeclineWrite, WriteEstimate, ReadStillHolds, ReadRow
  <2>2. Decision(e) \in {"draft", "offered", "expired"} /\ Decision(e)' = "declined" /\ SameTerms(e)
    BY <1>5, <2>1 DEF SameTerms, Decision, EstimateRow, EstimateStatus
  <2> QED
    BY <1>4, <2>2, QuoteDecided DEF QuotesStep
<1>9. CASE ExpireWrite(r)
  <2>1. estimate[e].status \in Undecided /\ estimate'[e] = [estimate[e] EXCEPT !.status = "expired"]
    BY <1>2, <1>5, <1>9 DEF ExpireWrite, WriteEstimate, ReadStillHolds, ReadRow
  <2>2. Decision(e) \in {"draft", "offered"} /\ Decision(e)' = "expired" /\ SameTerms(e)
    BY <1>5, <2>1 DEF SameTerms, Decision, EstimateRow, Undecided
  <2> QED
    BY <1>4, <2>2, QuoteDecided DEF QuotesStep
<1>10. CASE ReopenWrite(r)
  <2>1. estimate[e].status # "draft" /\ estimate'[e] = [estimate[e] EXCEPT !.status = "draft"]
    BY <1>2, <1>5, <1>10 DEF ReopenWrite, WriteEstimate, ReadStillHolds, ReadRow
  <2>2. Decision(e) # "draft" /\ Decision(e)' = "draft" /\ SameTerms(e)
    BY <1>5, <2>1 DEF SameTerms, Decision, EstimateRow
  <2> QED
    BY <1>4, <2>2, QuoteReopened DEF QuotesStep
<1>11. CASE ViewWrite(r)
  <2>1. /\ req[r].wasSent => estimate[e].status = "sent"
        /\ estimate'[e] = [estimate[e] EXCEPT !.status = IF req[r].wasSent THEN "viewed" ELSE estimate[e].status,
                                              !.viewed = TRUE]
    BY <1>2, <1>5, <1>11 DEF ViewWrite, ViewedStatus, WriteEstimate, ReadStillHolds, ReadRow
  <2>2. SameDecision(e) /\ SameTerms(e)
    BY <1>5, <2>1 DEF SameDecision, SameTerms, Decision, EstimateRow
  <2>3. \A f \in Estimates : Same(f)
    BY <1>4, <2>2 DEF Same
  <2> QED
    BY <1>4, <2>3, QuoteStutter DEF QuotesStep
<1> QED
  BY <1>4, <1>6, <1>7, <1>8, <1>9, <1>10, <1>11 DEF QuotesStep

LEMMA AcceptQuotes ==
  ASSUME Inv, Inv', QuotesInv, NEW r \in Requests, AcceptWrite(r)
  PROVE  QuotesStep
<1>1. InFlight(r) /\ req[r].op = "accept" /\ UNCHANGED <<job, invoice>>
  BY DEF InFlight, AcceptWrite, WriteEstimate
<1>2. PICK e \in Estimates : e = req[r].est
  BY <1>1 DEF Inv, HandlersOK, HandlerOK
<1>3. /\ estimate \in [Estimates -> EstimateRow] /\ estimate[e].status \in Undecided
      /\ estimate' = [estimate EXCEPT ![e] = [estimate[e] EXCEPT !.status = "accepted"]]
  BY <1>1, <1>2 DEF AcceptWrite, WriteEstimate, QuotesInv, ReadStillHolds, ReadRow, Inv, TypeOK
<1>4. /\ req'[r].op = "findJob" /\ req'[r].est = e
      /\ \A q \in Requests \ {r} : req'[q] = req[q]
  BY <1>2 DEF AcceptWrite, AfterAcceptance, Inv, TypeOK, Request
<1>5. \A f \in Estimates : SameSale(f) /\ SameBill(f)
  BY <1>1, SameQuote
<1>6. \A f \in Estimates \ {e} : Same(f) /\ Untouched(f)
  BY <1>1, <1>3, <1>5 DEF Same, SameDecision, SameTerms, Decision, Untouched
<1>7. ReadStillHolds(r)' /\ OneJob'
  BY <1>1, <1>4 DEF ReadStillHolds, QuotesInv, OneJob
<1>8. QuotesInv'
  BY <1>1, <1>2, <1>4, <1>6, <1>7, InFlightAlone, QuotesInvKept
<1>9. Decision(e) \in {"draft", "offered"} /\ Decision(e)' = "accepted" /\ SameTerms(e)
  BY <1>3 DEF SameTerms, Decision, EstimateRow, Undecided
<1> QED
  BY <1>5, <1>6, <1>8, <1>9, QuoteDecided DEF QuotesStep

-----------------------------------------------------------------------------
(***************************************************************************)
(* The way to the job.                                                     *)
(***************************************************************************)
LEMMA EndQuotes ==
  ASSUME Inv, Inv', QuotesInv, NEW r \in Requests, InFlight(r), Finish(r), UNCHANGED <<estimate, job, invoice>>
  PROVE  QuotesStep
<1>1. QuotesInv' /\ \A f \in Estimates : SameSale(f) /\ SameBill(f)
  BY HandlerEnds
<1>2. \A f \in Estimates : Same(f)
  BY <1>1 DEF Same, SameDecision, SameTerms, Decision
<1> QED
  BY <1>1, <1>2, QuoteStutter DEF QuotesStep

LEMMA ConvertQuotes ==
  ASSUME Inv, Inv', QuotesInv, NEW r \in Requests, FindJob(r) \/ ReadAccepted(r) \/ JobTxBegin(r)
  PROVE  QuotesStep
<1> USE DEF Converting
<1>1. InFlight(r) /\ req[r].op \in Converting /\ UNCHANGED <<estimate, leads, job, invoice>>
  BY DEF FindJob, ReadAccepted, JobTxBegin, InFlight
<1>2. PICK e \in Estimates : e = req[r].est
  BY <1>1 DEF Inv, HandlersOK, HandlerOK
<1>3. Alone(r, e) /\ ReadStillHolds(r) /\ req \in [Requests -> Request]
  BY <1>1, <1>2, InFlightAlone DEF QuotesInv, Inv, TypeOK
<1>4. CASE Finish(r)
  BY <1>1, <1>4, EndQuotes
<1>5. CASE AfterJob(r)
  <2>1. CASE ~ Finish(r)
    <3>1. req' = [req EXCEPT ![r].op = "convertLead"]
      BY <1>5, <2>1 DEF AfterJob, Continue
    <3>2. req'[r].op = "convertLead" /\ req'[r].est = e /\ \A q \in Requests \ {r} : req'[q] = req[q]
      BY <1>2, <1>3, <3>1 DEF Request
    <3>3. ReadStillHolds(r)'
      BY <3>2 DEF ReadStillHolds
    <3> QED
      BY <1>1, <1>3, <3>2, <3>3, HandlerMoves
  <2> QED
    BY <1>4, <2>1
<1>6. CASE Continue(r, "readEstimate")
  <2>1. req'[r].op = "readEstimate" /\ req'[r].est = e /\ \A q \in Requests \ {r} : req'[q] = req[q]
    BY <1>2, <1>3, <1>6 DEF Continue, Request
  <2>2. ReadStillHolds(r)'
    BY <2>1 DEF ReadStillHolds
  <2> QED
    BY <1>1, <1>3, <2>1, <2>2, HandlerMoves
<1>7. CASE ReadRow(r).status = "accepted" /\ req' = [req EXCEPT ![r].op = "jobTx", ![r].price = ReadRow(r).total]
  <2>1. /\ req'[r].op = "jobTx" /\ req'[r].est = e /\ req'[r].price = estimate[e].total
        /\ \A q \in Requests \ {r} : req'[q] = req[q]
    BY <1>2, <1>3, <1>7 DEF Request, ReadRow
  <2>2. ReadStillHolds(r)'
    BY <1>1, <1>2, <1>7, <2>1 DEF ReadStillHolds, ReadRow
  <2> QED
    BY <1>1, <1>3, <2>1, <2>2, HandlerMoves
<1>8. CASE /\ req[r].op = "jobTx" /\ ~ JobExists(r)
           /\ req' = [req EXCEPT ![r].op = "insertJob", ![r].lines = ReadRow(r).total]
  <2>1. /\ req'[r].op = "insertJob" /\ req'[r].est = e /\ req'[r].price = req[r].price
        /\ \A q \in Requests \ {r} : req'[q] = req[q]
    BY <1>2, <1>3, <1>8 DEF Request
  <2>2. estimate[e].status = "accepted" /\ req[r].price = estimate[e].total /\ \A j \in Jobs : job[j].est # e
    BY <1>2, <1>3, <1>8 DEF ReadStillHolds, ReadRow, JobExists, HasJob
  <2>3. ReadStillHolds(r)'
    BY <1>1, <2>1, <2>2 DEF ReadStillHolds, ReadRow
  <2> QED
    BY <1>1, <1>3, <2>1, <2>3, HandlerMoves
<1> QED
  BY <1>4, <1>5, <1>6, <1>7, <1>8 DEF FindJob, ReadAccepted, JobTxBegin

\* The job that is inserted is the estimate's first, at the price it was
\* accepted at.
LEMMA SellQuotes ==
  ASSUME Inv, Inv', QuotesInv, NEW r \in Requests, NEW j \in Jobs, JobTxCommit(r, j)
  PROVE  QuotesStep
<1>1. InFlight(r) /\ req[r].op \in Converting /\ AfterJob(r) /\ UNCHANGED <<estimate, invoice>>
  BY DEF JobTxCommit, InFlight, Converting
<1>2. PICK e \in Estimates : e = req[r].est
  BY <1>1 DEF Inv, HandlersOK, HandlerOK
<1>3. /\ Alone(r, e) /\ req \in [Requests -> Request] /\ job \in [Jobs -> JobRow]
      /\ estimate[e].status = "accepted" /\ req[r].price = estimate[e].total
      /\ \A k \in Jobs : job[k].est # e
  BY <1>1, <1>2, InFlightAlone DEF QuotesInv, Inv, TypeOK, JobTxCommit, ReadStillHolds, ReadRow
<1>4. /\ job[j].est = None /\ job'[j].est = e /\ job'[j].price = estimate[e].total
      /\ \A k \in Jobs \ {j} : job'[k] = job[k]
  BY <1>2, <1>3 DEF JobTxCommit
<1>5. \A v \in Invoices : invoice[v].job # j
  BY <1>4, NoneAssumption DEF Inv, InvoicesOK, NoneAssumption
<1>6. OneJob'
  BY <1>3, <1>4 DEF QuotesInv, OneJob
<1>7. None \notin Estimates
  BY NoneAssumption DEF NoneAssumption
<1>8. ASSUME NEW f \in Estimates \ {e} PROVE Untouched(f) /\ Same(f)
  <2>1. \A k \in Jobs : job'[k].est = f <=> job[k].est = f
    BY <1>4, <1>7
  <2>2. JobsOf(f)' = JobsOf(f) /\ \A k \in JobsOf(f) : job'[k] = job[k]
    BY <1>4, <1>7, <2>1 DEF JobsOf
  <2>3. Sold(f)' = Sold(f) /\ InvoicesOf(f)' = InvoicesOf(f)
    BY <1>1, <2>2 DEF Sold, InvoicesOf
  <2> QED
    BY <1>1, <2>1, <2>3 DEF Untouched, Same, SameDecision, SameTerms, SameSale, SameBill, Decision
<1>9. SameDecision(e) /\ SameTerms(e)
  BY <1>1 DEF SameDecision, SameTerms, Decision
<1>10. SameBill(e)
  <2>1. JobsOf(e) = {} /\ JobsOf(e)' = {j}
    BY <1>3, <1>4 DEF JobsOf
  <2> QED
    BY <1>1, <1>5, <2>1 DEF SameBill, InvoicesOf
<1>11. Sold(e) = {} /\ Sold(e)' = {<<j, estimate[e].total>>}
  <2>1. JobsOf(e) = {} /\ JobsOf(e)' = {j}
    BY <1>3, <1>4 DEF JobsOf
  <2> QED
    BY <1>4, <2>1 DEF Sold
<1>12. Quote!Next
  BY <1>3, <1>8, <1>9, <1>10, <1>11, QuoteSold DEF Decision
<1>13. (InFlight(r)' => req'[r].est = e) /\ ReadStillHolds(r)' /\ \A q \in Requests \ {r} : req'[q] = req[q]
  <2>1. CASE Finish(r)
    BY <2>1, FinishedReads, FinishHandler DEF Inv
  <2>2. CASE ~ Finish(r)
    <3>1. req' = [req EXCEPT ![r].op = "convertLead"]
      BY <1>1, <2>2 DEF AfterJob, Continue
    <3>2. req'[r].op = "convertLead" /\ req'[r].est = e /\ \A q \in Requests \ {r} : req'[q] = req[q]
      BY <1>2, <1>3, <3>1 DEF Request
    <3> QED
      BY <3>2 DEF ReadStillHolds
  <2> QED
    BY <2>1, <2>2
<1>14. QuotesInv'
  BY <1>3, <1>6, <1>8, <1>13, QuotesInvKept
<1> QED
  BY <1>12, <1>14 DEF QuotesStep

-----------------------------------------------------------------------------
(***************************************************************************)
(* The job is completed, and invoiced.                                     *)
(***************************************************************************)
LEMMA CompleteQuotes ==
  ASSUME Inv, Inv', QuotesInv, NEW j \in Jobs, CompleteJob(j)
  PROVE  QuotesStep
<1>1. /\ UNCHANGED <<estimate, invoice, req>>
      /\ \A k \in Jobs : job'[k].est = job[k].est /\ job'[k].price = job[k].price
  BY DEF CompleteJob, Inv, TypeOK, JobRow
<1>2. \A f \in Estimates : Same(f)
  BY <1>1, SameQuote DEF Same, SameDecision, SameTerms, Decision
<1>3. OneJob' /\ Apart'
  BY <1>1 DEF QuotesInv, OneJob, Apart, InFlight
<1>4. ASSUME NEW r \in Requests PROVE ReadStillHolds(r)'
  BY <1>1 DEF QuotesInv, ReadStillHolds, ReadRow
<1> QED
  BY <1>2, <1>3, <1>4, QuoteStutter DEF QuotesStep, QuotesInv

\* The invoice that is inserted is the estimate's first.
LEMMA BillQuotes ==
  ASSUME Inv, Inv', QuotesInv, NEW r \in Requests, NEW v \in Invoices, InvoiceTxCommit(r, v)
  PROVE  QuotesStep
<1>1. InFlight(r) /\ req[r].op = "invoiceTx" /\ Finish(r) /\ UNCHANGED <<estimate, job>>
  BY DEF InvoiceTxCommit, InFlight
<1>2. PICK e \in Estimates : e = req[r].est
  BY <1>1 DEF Inv, HandlersOK, HandlerOK
<1>3. PICK j \in Jobs : j = req[r].job /\ job[j].est = e
  BY <1>1, <1>2 DEF Inv, HandlersOK, HandlerOK
<1>4. Alone(r, e) /\ \A w \in Invoices : invoice[w].job \in Jobs => job[invoice[w].job].est # e
  BY <1>1, <1>2, InFlightAlone DEF QuotesInv, ReadStillHolds
<1>5. invoice[v].job = None /\ invoice'[v].job = j /\ \A w \in Invoices \ {v} : invoice'[w] = invoice[w]
  BY <1>3 DEF InvoiceTxCommit, Inv, TypeOK
<1>6. None \notin Jobs
  BY NoneAssumption DEF NoneAssumption
<1>7. ASSUME NEW f \in Estimates \ {e} PROVE Untouched(f) /\ Same(f)
  <2>1. InvoicesOf(f)' = InvoicesOf(f)
    BY <1>1, <1>3, <1>5, <1>6 DEF InvoicesOf, JobsOf
  <2> QED
    BY <1>1, <1>3, <1>5, <2>1 DEF Untouched, Same, SameDecision, SameTerms, SameSale, SameBill,
                                  Decision, Sold, JobsOf
<1>8. SameDecision(e) /\ SameTerms(e) /\ SameSale(e)
  BY <1>1 DEF SameDecision, SameTerms, SameSale, Decision, Sold, JobsOf
<1>9. InvoicesOf(e) = {} /\ InvoicesOf(e)' = {v}
  BY <1>1, <1>3, <1>4, <1>5 DEF InvoicesOf, JobsOf
<1>10. Sold(e) # {}
  <2>1. <<j, job[j].price>> \in Sold(e)
    BY <1>3 DEF Sold, JobsOf
  <2> QED
    BY <2>1
<1>11. Quote!Next
  BY <1>7, <1>8, <1>9, <1>10, QuoteBilled
<1>12. OneJob' /\ ~ InFlight(r)' /\ ReadStillHolds(r)' /\ \A q \in Requests \ {r} : req'[q] = req[q]
  BY <1>1, FinishedReads, FinishHandler DEF Inv, QuotesInv, OneJob
<1>13. QuotesInv'
  BY <1>4, <1>7, <1>12, QuotesInvKept
<1> QED
  BY <1>11, <1>13 DEF QuotesStep

-----------------------------------------------------------------------------
(***************************************************************************)
(* The theorem.                                                            *)
(***************************************************************************)
LEMMA InitQuotes == Init => QuotesInv /\ Quote!Init
<1> SUFFICES ASSUME Init PROVE QuotesInv /\ Quote!Init
  OBVIOUS
<1>1. (\A j \in Jobs : job[j].est = None) /\ (\A v \in Invoices : invoice[v].job = None)
  BY DEF Init, NoJob, NoInvoice
<1>2. \A r \in Requests : req[r] = Idle
  BY DEF Init
<1>3. QuotesInv
  BY <1>1, <1>2 DEF QuotesInv, Apart, InFlight, ReadStillHolds, Idle, OneJob
<1>4. None \notin Estimates /\ None \notin Jobs
  BY NoneAssumption DEF NoneAssumption
<1>5. \A e \in Estimates : JobsOf(e) = {} /\ Sold(e) = {} /\ InvoicesOf(e) = {}
  BY <1>1, <1>4 DEF JobsOf, Sold, InvoicesOf
<1>6. \A e \in Estimates : Decision(e) = "draft" /\ estimate[e].total \in Totals
  BY DEF Init, Decision
<1> QED
  BY <1>3, <1>5, <1>6 DEF Quote!Init

LEMMA NextQuotes ==
  ASSUME OneAtATime, Inv, Inv', QuotesInv, [Next]_vars
  PROVE  QuotesStep
<1>1. ASSUME NEW r \in Requests, Proceed(r) PROVE QuotesStep
  <2>1. CASE ConvertLead(r)
    BY <2>1, EndQuotes DEF ConvertLead, InFlight
  <2> QED
    BY <1>1, <2>1, WriteQuotes, AcceptQuotes, ConvertQuotes, SellQuotes, BillQuotes DEF Proceed
<1>2. ASSUME NEW r \in Requests, Abandon(r) PROVE QuotesStep
  BY <1>2, EndQuotes DEF Abandon
<1>3. CASE UNCHANGED vars
  <2>1. \A f \in Estimates : Same(f)
    BY <1>3 DEF vars, Same, SameDecision, SameTerms, SameSale, SameBill, Decision, Sold, InvoicesOf, JobsOf
  <2>2. QuotesInv'
    BY <1>3 DEF vars, QuotesInv, Apart, OneJob, InFlight, ReadStillHolds, ReadRow
  <2> QED
    BY <2>1, <2>2, QuoteStutter DEF QuotesStep
<1> QED
  BY <1>1, <1>2, <1>3, StartQuotes, CompleteQuotes DEF Next

\* When no two handlers overlap on an estimate, and even when they die half
\* way, the estimate, portal, job and invoice handlers (EstimatesService,
\* PortalDataService, createFromEstimate, generateFromJob) implement the quote:
\* edited as a draft, decided once, sold once at its terms, billed once.
THEOREM RefinesQuotes ==
  ASSUME OneAtATime
  PROVE  Spec => ImplementsQuotes
<1>1. Init => QuotesInv /\ Quote!Init
  BY InitQuotes
<1>2. Inv /\ Inv' /\ QuotesInv /\ [Next]_vars => QuotesInv' /\ [Quote!Next]_(Quote!vars)
  BY NextQuotes DEF QuotesStep
<1> QED
  BY <1>1, <1>2, Invariance, PTL DEF Spec, ImplementsQuotes, Quote!Spec

-----------------------------------------------------------------------------
(***************************************************************************)
(* The quote page.  The customer leaves a screen only for the one before   *)
(* or after it, but the review leads back to the map and to the areas, and *)
(* a lookup or a submission answers on whatever screen is shown.  What is  *)
(* known on the review was therefore settled on the way to it, and the     *)
(* invariant says on each screen what is settled by then: from the map on, *)
(* what was typed; on the map, the outlines up to the one being drawn;     *)
(* after it, all of them; after the areas, those.                          *)
(***************************************************************************)
Screens == {"mapMeasure", "confirm", "contact", "review"}

\* What is typed or picked with the services is there.
Counted ==
    \A s \in selected : \/ Mode[s] = "request" \/ Kind[s] = "flat_rate"
                        \/ Kind[s] \in Researched \cup OnTheMap
                        \/ quantity[s] # Unset

\* An outline was accepted here, and is what the service is priced on.
Measured(s) == drawn[s] # Unset /\ quantity[s] = drawn[s] /\ s \in confirmed

\* The areas are known, and are what the first service of each kind is priced on.
Carrying == \A s \in selected : Kind[s] \in Researched =>
                area[Kind[s]] # Unset /\ (s \in First(Kind[s]) => quantity[s] = area[Kind[s]])

AsideOK == aside # {} => /\ step \in {"mapMeasure", "success"}
                         /\ \E s \in selected : aside = {s} /\ Kind[s] \in Researched

AllMeasured  == \A i \in Queue : Measured(catalog[i])
MeasuredTo(n) == \A i \in Queue : Place(i) < n => Measured(catalog[i])

MapOK ==
    /\ step = "mapMeasure" /\ aside = {} => MeasuredTo(index)
    /\ step \in Screens /\ (step # "mapMeasure" \/ aside # {}) => AllMeasured

WayOK ==
    /\ looking => step \in {"researching", "success"} /\ aside = {}
    /\ AsideOK
    /\ step \in Screens => Counted
    /\ uncertain \/ MapOK
    /\ step \in {"contact", "review"} => Carrying

WizardInv == WizardTypeOK /\ WayOK

-----------------------------------------------------------------------------
(* The queue of the map.                                                   *)

LEMMA Listed == ASSUME WizardTypeOK
                PROVE  /\ catalog \in Seq(Services) /\ DOMAIN catalog = 1 .. Len(catalog) /\ Len(catalog) \in Nat
                       /\ Range(catalog) \subseteq Services /\ selected \subseteq Services
<1>1. catalog \in Catalogs /\ selected \subseteq Range(catalog)
  BY DEF WizardTypeOK
<1>2. catalog \in Seq(Services)
  BY <1>1, CatalogAssumption
<1>3. Range(catalog) \subseteq Services
  BY <1>1 DEF Services
<1> QED
  BY <1>1, <1>2, <1>3

LEMMA UpToSize == ASSUME NEW n \in Nat PROVE IsFiniteSet(1 .. n) /\ Cardinality(1 .. n) = n
<1>1. Cardinality(1 .. n) = n
  BY FS_Interval
<1> QED
  BY <1>1, FS_Interval

LEMMA SameSize ==
  ASSUME NEW S, IsFiniteSet(S), NEW T, T \subseteq S, Cardinality(T) = Cardinality(S)
  PROVE  T = S
<1>1. T \in SUBSET S
  OBVIOUS
<1> QED
  BY <1>1, FS_Subset

\* No two services of the queue have one place in it.
LEMMA Places ==
  ASSUME WizardTypeOK
  PROVE  /\ Cardinality(Queue) \in 0 .. Len(catalog)
         /\ \A i \in Queue : Place(i) \in 1 .. Cardinality(Queue)
         /\ \A i, j \in Queue : Place(i) = Place(j) => i = j
<1> DEFINE upTo(i) == {k \in Queue : k <= i}
<1>1. IsFiniteSet(1 .. Len(catalog)) /\ Cardinality(1 .. Len(catalog)) = Len(catalog) /\ Queue \subseteq 1 .. Len(catalog)
  <2>1. Len(catalog) \in Nat /\ DOMAIN catalog = 1 .. Len(catalog)
    BY Listed
  <2>2. IsFiniteSet(1 .. Len(catalog)) /\ Cardinality(1 .. Len(catalog)) = Len(catalog)
    BY <2>1, UpToSize
  <2> QED
    BY <2>1, <2>2 DEF Queue
<1>2. IsFiniteSet(Queue) /\ Cardinality(Queue) \in Nat /\ Cardinality(Queue) <= Len(catalog)
  BY <1>1, FS_Subset, FS_CardinalityType
<1>3. \A i : /\ IsFiniteSet(upTo(i)) /\ Cardinality(upTo(i)) \in Nat /\ Cardinality(upTo(i)) <= Cardinality(Queue)
             /\ Place(i) = Cardinality(upTo(i))
  <2>1. ASSUME NEW i PROVE IsFiniteSet(upTo(i)) /\ Cardinality(upTo(i)) <= Cardinality(Queue)
    <3>1. upTo(i) \in SUBSET Queue
      OBVIOUS
    <3> QED
      BY ONLY <1>2, <3>1, FS_Subset
  <2> QED
    BY <2>1, FS_CardinalityType DEF Place
<1>4. ASSUME NEW i \in Queue PROVE Place(i) # 0
  <2>1. i \in upTo(i)
    BY <1>1, Listed
  <2> QED
    BY <1>3, <2>1, FS_EmptySet
<1>5. ASSUME NEW i \in Queue, NEW j \in Queue, i < j PROVE Place(i) # Place(j)
  <2>1. upTo(i) \subseteq upTo(j) /\ j \in upTo(j) /\ j \notin upTo(i)
    <3>1. \A k \in Queue : k \in Int
      BY <1>1, Listed
    <3>2. \A k \in Queue : k <= i => k <= j
      BY <1>5, <3>1
    <3>3. j <= j /\ ~ (j <= i)
      BY <1>5, <3>1
    <3> QED
      BY <3>2, <3>3
  <2> PICK S, T : S = upTo(j) /\ T = upTo(i)
    OBVIOUS
  <2>2. IsFiniteSet(S) /\ T \subseteq S /\ j \in S /\ j \notin T
    BY <1>3, <2>1
  <2>3. Cardinality(T) # Cardinality(S)
    BY ONLY <2>2, SameSize
  <2> QED
    BY <1>3, <2>3
<1>6. \A i, j \in Queue : i < j \/ j < i \/ i = j
  BY <1>1, Listed
<1> HIDE DEF upTo
<1> QED
  BY <1>2, <1>3, <1>4, <1>5, <1>6, Listed

\* The queue changes only with the services that are chosen.
LEMMA QueueStays ==
  ASSUME UNCHANGED <<catalog, selected>>
  PROVE  /\ Queue' = Queue /\ (\A i : Place(i)' = Place(i))
         /\ (Researchable' <=> Researchable)
  BY DEF Queue, Place, Researchable, Chosen

\* The screens the progress bar knows are six, or five without the areas to confirm.
LEMMA Moves ==
  ASSUME Move
  PROVE  \/ step = "contact" /\ step' = "review"
         \/ step = "service" /\ step' = "propertyConfirm"
         \/ step = "confirm" /\ step' = "service"
         \/ step = "contact" /\ Researchable /\ step' = "confirm"
         \/ step = "contact" /\ ~ Researchable /\ step' = "service"
         \/ step = "review" /\ step' = "contact"
<1>1. CASE Researchable
  <2>1. Order = <<"property", "propertyConfirm", "service", "confirm", "contact", "review">>
    BY <1>1 DEF Order
  <2>2. PICK i \in 1 .. 5 :
           \/ step = Order[i] /\ step = "contact" /\ step' = Order[i + 1]
           \/ step = Order[i + 1] /\ step \in {"service", "confirm", "contact", "review"} /\ step' = Order[i]
    BY <2>1 DEF Move
  <2>3. i = 1 \/ i = 2 \/ i = 3 \/ i = 4 \/ i = 5
    OBVIOUS
  <2> QED
    BY <1>1, <2>1, <2>2, <2>3
<1>2. CASE ~ Researchable
  <2>1. Order = <<"property", "propertyConfirm", "service", "contact", "review">>
    BY <1>2 DEF Order
  <2>2. PICK i \in 1 .. 4 :
           \/ step = Order[i] /\ step = "contact" /\ step' = Order[i + 1]
           \/ step = Order[i + 1] /\ step \in {"service", "confirm", "contact", "review"} /\ step' = Order[i]
    BY <2>1 DEF Move
  <2>3. i = 1 \/ i = 2 \/ i = 3 \/ i = 4
    OBVIOUS
  <2> QED
    BY <1>2, <2>1, <2>2, <2>3
<1> QED
  BY <1>1, <1>2

\* The map is open for one service, of the queue or aside of it.
LEMMA ActiveIs ==
  ASSUME WizardTypeOK, NEW s \in Active
  PROVE  /\ aside # {} => s \in aside
         /\ aside = {} => \E i \in Queue : s = catalog[i] /\ Place(i) = index
         /\ s \in selected
  BY DEF Active, Nth, Queue, WizardTypeOK

-----------------------------------------------------------------------------
(* Every variable keeps its type.                                          *)

LEMMA WizardTypeInit == WizardInit => WizardTypeOK
<1> SUFFICES ASSUME WizardInit PROVE WizardTypeOK
  OBVIOUS
<1>1. catalog \in Seq(Services)
  <2>1. catalog \in Catalogs
    BY DEF WizardInit
  <2> QED
    BY <2>1, CatalogAssumption
<1>2. Len(catalog) \in Nat
  BY <1>1
<1>3. index \in 1 .. Len(catalog) + 1
  <2>1. index = 1
    BY DEF WizardInit
  <2> QED
    BY <1>2, <2>1
<1> QED
  BY <1>3 DEF WizardInit, WizardTypeOK, Size, Steps, Nowhere

\* What is chosen, measured and drawn is of the catalog, which stays.
LEMMA WizardTypeStep == WizardInv /\ [WizardNext]_WizardVars => WizardTypeOK'
<1> SUFFICES ASSUME WizardInv, [WizardNext]_WizardVars PROVE WizardTypeOK'
  OBVIOUS
<1>0. WizardTypeOK /\ AsideOK
  BY DEF WizardInv, WayOK
<1> USE <1>0 DEF WizardTypeOK, Steps, Size, pages, answers, mapState
<1>1. CASE ContinueProperty
  BY <1>1 DEF ContinueProperty
<1>2. CASE Lookup
  <2>1. PICK r \in {Nowhere, [Nowhere EXCEPT !.located = TRUE]} \cup
               {[located |-> TRUE,
                 area |-> [k \in Researched |-> IF k = "house_wash" THEN a ELSE RoofOf[a]]] : a \in Areas} :
          /\ found' = r
          /\ area' = [k \in Researched |-> IF r.area[k] # Unset THEN r.area[k] ELSE area[k]]
    BY <1>2 DEF Lookup
  <2>2. r.located \in BOOLEAN /\ r.area \in [Researched -> Size]
    <3>1. CASE r \in {Nowhere, [Nowhere EXCEPT !.located = TRUE]}
      <4>1. /\ Nowhere.located \in BOOLEAN /\ Nowhere.area \in [Researched -> Size]
            /\ [Nowhere EXCEPT !.located = TRUE].located \in BOOLEAN
            /\ [Nowhere EXCEPT !.located = TRUE].area \in [Researched -> Size]
        BY DEF Nowhere
      <4> QED
        BY <3>1, <4>1
    <3>2. ASSUME NEW a \in Areas,
                 r = [located |-> TRUE, area |-> [k \in Researched |-> IF k = "house_wash" THEN a ELSE RoofOf[a]]]
          PROVE  r.located \in BOOLEAN /\ r.area \in [Researched -> Size]
      <4>1. RoofOf[a] \in Areas
        BY AreaAssumption
      <4>2. [k \in Researched |-> IF k = "house_wash" THEN a ELSE RoofOf[a]] \in [Researched -> Size]
        BY <4>1
      <4> QED
        BY <3>2, <4>2
    <3> QED
      BY <3>1, <3>2
  <2>3. found'.located \in BOOLEAN /\ found'.area \in [Researched -> Size] /\ area' \in [Researched -> Size]
    BY <2>1, <2>2
  <2> QED
    BY <1>2, <2>3 DEF Lookup
<1>3. CASE AboutProperty
  BY <1>3 DEF AboutProperty
<1>4. CASE ConfirmProperty
  BY <1>4 DEF ConfirmProperty
<1>5. ASSUME NEW s \in Range(catalog), Toggle(s) PROVE WizardTypeOK'
  <2>1. selected' = IF s \in selected THEN selected \ {s} ELSE selected \cup {s}
    BY <1>5 DEF Toggle
  <2>2. selected' \subseteq Range(catalog)
    BY ONLY <2>1, selected \subseteq Range(catalog), s \in Range(catalog)
  <2>3. catalog' = catalog /\ step' = step /\ aside' = aside /\ aside = {}
    BY <1>5 DEF Toggle, AsideOK
  <2> QED
    BY <1>5, <2>2, <2>3 DEF Toggle
<1>6. ASSUME NEW s \in Range(catalog), TypeQuantity(s) PROVE WizardTypeOK'
  BY <1>6, Listed DEF TypeQuantity
<1>7. ASSUME NEW s \in Range(catalog), PickDrivewaySize(s) PROVE WizardTypeOK'
  BY <1>7, Listed DEF PickDrivewaySize, First, Chosen
<1>8. ASSUME NEW s \in Range(catalog), MeasureAside(s) PROVE WizardTypeOK'
  BY <1>8, Listed DEF MeasureAside, Mounted, Researched, First, Chosen
<1>9. CASE ContinueService
  <2>1. step' \in Steps
    BY <1>9 DEF ContinueService, AfterMap
  <2>2. index' \in 1 .. Len(catalog) + 1
    <3>1. Len(catalog) \in Nat /\ (index' = 1 \/ index' = index)
      BY <1>9, Listed DEF ContinueService
    <3>2. 1 \in 1 .. Len(catalog) + 1
      BY ONLY <3>1
    <3> QED
      BY <3>1, <3>2
  <2>3. outline' \in Size
    <3>1. CASE outline' = outline
      BY <3>1
    <3>2. ASSUME NEW s \in Nth(1), outline' = Mounted(s, FALSE) PROVE outline' \in Size
      <4>1. s \in Services
        BY Listed DEF Nth, Queue
      <4> QED
        BY <3>2, <4>1 DEF Mounted
    <3> QED
      BY <1>9, <3>1, <3>2 DEF ContinueService
  <2>4. UNCHANGED <<pages, selected, quantity, area, answers, drawn, aside, uncertain, confirmed>>
    BY <1>9 DEF ContinueService
  <2> QED
    BY <2>1, <2>2, <2>3, <2>4
<1>10. CASE Draw
  BY <1>10 DEF Draw
<1>11. CASE CompleteMap
  <2> PICK s \in Active :
          /\ drawn' = [drawn EXCEPT ![s] = outline]
          /\ quantity' = [quantity EXCEPT ![s] = outline]
          /\ confirmed' = confirmed \cup {s}
          /\ IF aside # {}
             THEN /\ area' = [area EXCEPT ![Kind[s]] = outline]
                  /\ adjusting' = adjusting \cup {Kind[s]}
                  /\ step' = "confirm" /\ outline' = Unset /\ UNCHANGED index
             ELSE /\ UNCHANGED <<area, adjusting>>
                  /\ IF index < Cardinality(Queue) THEN index' = index + 1 /\ UNCHANGED <<step, outline>>
                     ELSE step' = AfterMap /\ outline' = Unset /\ UNCHANGED index
    BY <1>11 DEF CompleteMap
  <2>1. s \in Services /\ (aside # {} => Kind[s] \in Researched)
    BY Listed, ActiveIs DEF AsideOK
  <2>2. drawn' \in [Services -> Size] /\ quantity' \in [Services -> Size] /\ confirmed' \subseteq Services
    BY <2>1
  <2>3. area' \in [Researched -> Size] /\ adjusting' \subseteq Researched
    BY <2>1
  <2>4. step' \in Steps /\ outline' \in Size
    BY DEF AfterMap
  <2>5. index' \in 1 .. Len(catalog) + 1
    <3>1. /\ Len(catalog) \in Nat /\ Cardinality(Queue) \in 0 .. Len(catalog)
          /\ index' = index \/ (index < Cardinality(Queue) /\ index' = index + 1)
      BY Listed, Places
    <3>2. PICK n, c : n \in Nat /\ c \in 0 .. n /\ n = Len(catalog) /\ c = Cardinality(Queue)
      BY <3>1
    <3>3. index \in 1 .. n + 1
      BY <3>2
    <3> QED
      BY ONLY <3>1, <3>2, <3>3
  <2>6. aside' = {} /\ UNCHANGED <<pages, selected, answer, drivewaySize, uncertain>>
    BY <1>11 DEF CompleteMap
  <2> QED
    BY <2>2, <2>3, <2>4, <2>5, <2>6
<1>12. CASE CancelMap
  BY <1>12 DEF CancelMap, AfterMap
<1>13. CASE \E k \in Researched : TypeArea(k)
  BY <1>13 DEF TypeArea
<1>14. CASE AboutRoof
  BY <1>14 DEF AboutRoof
<1>15. CASE ContinueConfirm
  BY <1>15 DEF ContinueConfirm, Carried
<1>16. CASE Move
  <2>1. step' \in Steps
    BY <1>16, Moves
  <2> QED
    BY <1>16, <2>1 DEF Move
<1>17. CASE Amend
  <2>1. CASE step' = "confirm" /\ UNCHANGED <<index, outline>>
    BY <1>17, <2>1 DEF Amend
  <2>2. ASSUME NEW i \in Queue, step' = "mapMeasure", index' = Place(i), outline' = Mounted(catalog[i], FALSE)
        PROVE  WizardTypeOK'
    <3>1. catalog[i] \in Services
      BY Listed DEF Queue
    <3>2. outline' \in Size
      BY <2>2, <3>1 DEF Mounted
    <3>3. index' \in 1 .. Len(catalog) + 1
      <4>1. Len(catalog) \in Nat /\ Cardinality(Queue) \in 0 .. Len(catalog) /\ Place(i) \in 1 .. Cardinality(Queue)
        BY Listed, Places
      <4>2. PICK n, c, p : /\ n \in Nat /\ c \in 0 .. n /\ p \in 1 .. c
                             /\ n = Len(catalog) /\ c = Cardinality(Queue) /\ p = Place(i)
        BY <4>1
      <4> QED
        BY ONLY <2>2, <4>2
    <3> QED
      BY <1>17, <2>2, <3>2, <3>3 DEF Amend
  <2> QED
    BY <1>17, <2>1, <2>2 DEF Amend
<1>18. CASE Submit
  BY <1>18 DEF Submit
<1>19. CASE Answered
  BY <1>19 DEF Answered
<1>20. CASE UNCHANGED WizardVars
  BY <1>20 DEF WizardVars
<1> QED
  BY <1>1, <1>2, <1>3, <1>4, <1>5, <1>6, <1>7, <1>8, <1>9, <1>10, <1>11, <1>12, <1>13, <1>14,
     <1>15, <1>16, <1>17, <1>18, <1>19, <1>20 DEF WizardNext, Finished

-----------------------------------------------------------------------------
(* What is settled on the way to the review stays so.                      *)

\* A step that writes none of it.
LEMMA SettledStays ==
  ASSUME UNCHANGED <<catalog, selected, quantity, drawn, confirmed>>
  PROVE  /\ AllMeasured' <=> AllMeasured
         /\ \A n : MeasuredTo(n)' <=> MeasuredTo(n)
         /\ Counted' <=> Counted
  BY QueueStays DEF AllMeasured, MeasuredTo, Measured, Counted

\* Before the map nothing is settled.
LEMMA BeforeTheMap ==
  ASSUME step' \notin Screens, aside' = {}, looking' => step' = "researching"
  PROVE  WayOK'
  BY DEF WayOK, AsideOK, MapOK, Screens

LEMMA EarlyStep ==
  ASSUME WizardInv,
         \/ ContinueProperty \/ Lookup \/ AboutProperty \/ ConfirmProperty
         \/ \E s \in Range(catalog) : Toggle(s) \/ TypeQuantity(s) \/ PickDrivewaySize(s)
  PROVE  WayOK'
<1> USE DEF WizardInv, WayOK, AsideOK, Screens, mapState, pages, answers
<1>1. CASE ContinueProperty
  <2>1. step' = "researching" /\ aside' = {}
    BY <1>1 DEF ContinueProperty
  <2> QED
    BY <2>1, BeforeTheMap
<1>2. CASE Lookup
  <2>1. step' = "propertyConfirm" /\ aside' = {} /\ ~ looking'
    BY <1>2 DEF Lookup
  <2> QED
    BY <2>1, BeforeTheMap
<1>3. CASE AboutProperty \/ ConfirmProperty
  <2>1. step' \in {"propertyConfirm", "service", "property"} /\ aside' = {} /\ ~ looking'
    <3>1. step = "propertyConfirm" /\ UNCHANGED <<aside, looking>>
      BY <1>3 DEF AboutProperty, ConfirmProperty
    <3>2. step' \in {"propertyConfirm", "service", "property"}
      BY <1>3 DEF AboutProperty, ConfirmProperty
    <3>3. aside = {} /\ ~ looking
      BY ONLY <3>1, WayOK DEF WayOK, AsideOK
    <3> QED
      BY <3>1, <3>2, <3>3
  <2> QED
    BY <2>1, BeforeTheMap
<1>4. ASSUME NEW s, Toggle(s) \/ TypeQuantity(s) \/ PickDrivewaySize(s) PROVE WayOK'
  <2>1. step' = "service" /\ aside' = {} /\ ~ looking'
    BY <1>4 DEF Toggle, TypeQuantity, PickDrivewaySize
  <2> QED
    BY <2>1, BeforeTheMap
<1> QED
  BY <1>1, <1>2, <1>3, <1>4

\* On the way out of the services what was typed is there, and the map begins
\* with the first of its queue, whatever was drawn before.
LEMMA ContinueServiceStep == ASSUME WizardInv, ContinueService PROVE WayOK'
<1>1. WizardTypeOK /\ aside = {} /\ ~ looking
  BY DEF WizardInv, WayOK, AsideOK, ContinueService
<1>2. /\ Counted /\ ToMeasure = Queue
      /\ UNCHANGED <<catalog, selected, quantity, drawn, confirmed, area, aside, looking>>
  BY DEF ContinueService, CanContinueService, Counted, ToMeasure, pages
<1>3. Counted' /\ Queue' = Queue
  BY <1>2, SettledStays, QueueStays
<1>4. CASE Queue # {}
  <2>1. step' = "mapMeasure" /\ index' = 1
    BY <1>2, <1>4 DEF ContinueService
  <2>2. MeasuredTo(1)
    <3>1. ASSUME NEW i \in Queue PROVE ~ (Place(i) < 1)
      <4>1. Cardinality(Queue) \in Nat /\ Place(i) \in 1 .. Cardinality(Queue)
        BY <1>1, Places, Listed
      <4> QED
        BY ONLY <4>1
    <3> QED
      BY <3>1 DEF MeasuredTo
  <2>3. MeasuredTo(index)'
    <3>1. MeasuredTo(1)'
      BY <1>2, <2>2, SettledStays
    <3> QED
      BY <2>1, <3>1 DEF MeasuredTo
  <2> QED
    BY <1>1, <1>2, <1>3, <2>1, <2>3 DEF WayOK, AsideOK, MapOK
<1>5. CASE Queue = {}
  <2>1. step' = AfterMap
    BY <1>2, <1>5 DEF ContinueService
  <2>2. AllMeasured'
    BY <1>3, <1>5 DEF AllMeasured
  <2>3. step' \in {"confirm", "contact"} /\ (step' = "contact" => ~ Researchable')
    BY <1>2, <2>1, QueueStays DEF AfterMap
  <2>4. step' = "contact" => Carrying'
    BY <2>3 DEF Carrying, Researchable, Chosen
  <2> QED
    BY <1>1, <1>2, <1>3, <2>2, <2>3, <2>4 DEF WayOK, AsideOK, MapOK
<1> QED
  BY <1>4, <1>5
\* An outline accepted in the queue settles the one service it is of; one accepted
\* aside is of a service the queue does not hold.
LEMMA CompleteMapStep == ASSUME WizardInv, CompleteMap PROVE WayOK'
<1>1. WizardTypeOK /\ WayOK /\ AsideOK
  BY DEF WizardInv, WayOK
<1>2. /\ step = "mapMeasure" /\ outline # Unset /\ aside' = {}
      /\ UNCHANGED <<catalog, selected, looking, uncertain>>
  BY DEF CompleteMap, pages
<1>3. PICK s \in Active :
        /\ drawn' = [drawn EXCEPT ![s] = outline]
        /\ quantity' = [quantity EXCEPT ![s] = outline]
        /\ confirmed' = confirmed \cup {s}
        /\ IF aside # {}
           THEN step' = "confirm" /\ UNCHANGED index
           ELSE /\ UNCHANGED <<area, adjusting>>
                /\ IF index < Cardinality(Queue) THEN index' = index + 1 /\ UNCHANGED step
                   ELSE step' = AfterMap /\ UNCHANGED index
  BY DEF CompleteMap
<1>4. s \in selected /\ s \in Services
  BY <1>1, ActiveIs, Listed
<1>5. /\ drawn'[s] = outline /\ quantity'[s] = outline
      /\ \A t \in Services \ {s} : drawn'[t] = drawn[t] /\ quantity'[t] = quantity[t]
  BY <1>1, <1>3, <1>4 DEF WizardTypeOK
<1>6. Measured(s)' /\ \A t \in Services : Measured(t) => Measured(t)'
  BY <1>2, <1>3, <1>5 DEF Measured
<1>7. /\ Queue' = Queue /\ (\A i : Place(i)' = Place(i)) /\ (Researchable' <=> Researchable)
      /\ \A i \in Queue : catalog[i] \in Services
  BY <1>1, <1>2, QueueStays, Listed DEF Queue
<1>8. Counted'
  <2>1. Counted
    BY <1>1, <1>2 DEF WayOK, Screens
  <2>2. \A t \in selected : quantity[t] # Unset => quantity'[t] # Unset
    BY <1>1, <1>2, <1>5, Listed
  <2> QED
    BY <1>2, <2>1, <2>2 DEF Counted
<1>9. ~ looking' /\ step' \in {"mapMeasure", "confirm", "contact"}
  <2>1. ~ looking
    BY <1>1, <1>2 DEF WayOK
  <2> QED
    BY <1>2, <1>3, <2>1 DEF AfterMap
<1>10. CASE aside # {}
  <2>1. step' = "confirm"
    BY <1>3, <1>10
  <2>2. ~ uncertain => AllMeasured
    BY <1>1, <1>2, <1>10 DEF WayOK, MapOK, Screens
  <2>3. AllMeasured => AllMeasured'
    BY <1>2, <1>6, <1>7 DEF AllMeasured
  <2> QED
    BY <1>2, <1>8, <1>9, <2>1, <2>2, <2>3 DEF WayOK, AsideOK, MapOK
<1>11. CASE aside = {}
  <2>1. PICK i \in Queue : s = catalog[i] /\ Place(i) = index
    BY <1>1, <1>11, ActiveIs
  <2>2. ~ uncertain => MeasuredTo(index)
    BY <1>1, <1>2, <1>11 DEF WayOK, MapOK
  <2>3. ASSUME ~ uncertain, NEW j \in Queue, Place(j) <= index PROVE Measured(catalog[j])'
    <3>1. CASE Place(j) < index
      BY <1>2, <1>6, <1>7, <2>2, <2>3, <3>1 DEF MeasuredTo
    <3>2. CASE Place(j) = index
      <4>1. j = i
        BY <1>1, <2>1, <3>2, Places
      <4> QED
        BY <1>2, <1>6, <2>1, <4>1
    <3>3. Place(j) \in Int /\ index \in Int
      BY <1>1, <2>1, Places, Listed
    <3> QED
      BY <2>3, <3>1, <3>2, <3>3
  <2>4. \A j \in Queue : Place(j) \in 1 .. Cardinality(Queue) /\ Cardinality(Queue) \in Nat
    BY <1>1, Places, Listed
  <2>5. CASE index < Cardinality(Queue)
    <3>1. index' = index + 1 /\ step' = step
      BY <1>3, <1>11, <2>5
    <3>2. \A j \in Queue : Place(j) < index + 1 => Place(j) <= index
      BY <2>1, <2>4
    <3>3. ~ uncertain => MeasuredTo(index)'
      BY <1>7, <2>3, <3>1, <3>2 DEF MeasuredTo
    <3> QED
      BY <1>2, <1>8, <1>9, <3>1, <3>3 DEF WayOK, AsideOK, MapOK
  <2>6. CASE ~ (index < Cardinality(Queue))
    <3>1. step' = AfterMap
      BY <1>3, <1>11, <2>6
    <3>2. \A j \in Queue : Place(j) <= index
      BY <2>1, <2>4, <2>6
    <3>3. ~ uncertain => AllMeasured'
      BY <1>7, <2>3, <3>2 DEF AllMeasured
    <3>4. step' \in {"confirm", "contact"} /\ (step' = "contact" => ~ Researchable')
      BY <1>7, <3>1 DEF AfterMap
    <3>5. step' = "contact" => Carrying'
      BY <3>4 DEF Carrying, Researchable, Chosen
    <3> QED
      BY <1>2, <1>8, <1>9, <3>3, <3>4, <3>5 DEF WayOK, AsideOK, MapOK
  <2> QED
    BY <2>5, <2>6
<1> QED
  BY <1>10, <1>11

\* A map that is given up makes the quote a request, or was not of the queue.
LEMMA CancelMapStep == ASSUME WizardInv, CancelMap PROVE WayOK'
<1>1. WizardTypeOK /\ WayOK /\ AsideOK
  BY DEF WizardInv, WayOK
<1>2. /\ step = "mapMeasure" /\ aside' = {}
      /\ UNCHANGED <<catalog, selected, quantity, drawn, confirmed, looking>>
  BY DEF CancelMap, pages
<1>3. /\ aside # {} => step' = "confirm" /\ uncertain' = uncertain
      /\ aside = {} => step' = AfterMap /\ uncertain'
  BY DEF CancelMap
<1>4. Counted /\ ~ looking /\ (aside # {} => uncertain \/ AllMeasured)
  BY <1>1, <1>2 DEF WayOK, MapOK, Screens
<1>5. Counted' /\ ~ looking' /\ (AllMeasured' <=> AllMeasured) /\ (Researchable' <=> Researchable)
  BY <1>2, <1>4, SettledStays, QueueStays
<1>6. step' \in {"confirm", "contact"} /\ (step' = "contact" => ~ Researchable')
  BY <1>3, <1>5 DEF AfterMap
<1>7. step' = "contact" => Carrying'
  BY <1>6 DEF Carrying, Researchable, Chosen
<1>8. uncertain' \/ AllMeasured'
  BY <1>3, <1>4, <1>5
<1> QED
  BY <1>2, <1>5, <1>6, <1>7, <1>8 DEF WayOK, AsideOK, MapOK

\* On the confirm screen an area may be measured, typed, or taken as it is; the
\* outlines are not touched, and on the way out every area is carried.
LEMMA ConfirmStep ==
  ASSUME WizardInv,
         \/ \E s \in Range(catalog) : MeasureAside(s)
         \/ \E k \in Researched : TypeArea(k)
         \/ AboutRoof \/ ContinueConfirm
  PROVE  WayOK'
<1>1. /\ step = "confirm"
      /\ UNCHANGED <<catalog, selected, drawn, confirmed, looking, uncertain>>
  BY DEF MeasureAside, TypeArea, AboutRoof, ContinueConfirm, pages, mapState
<1>2. WizardTypeOK /\ Counted /\ ~ looking /\ aside = {} /\ (uncertain \/ AllMeasured)
  BY <1>1 DEF WizardInv, WayOK, AsideOK, MapOK, Screens
<1>3. CASE \E s \in Range(catalog) : MeasureAside(s)
  <2>1. PICK s \in Range(catalog) : MeasureAside(s)
    BY <1>3
  <2>2. step' = "mapMeasure" /\ aside' = {s} /\ s \in selected' /\ Kind[s] \in Researched /\ quantity' = quantity
    BY <2>1 DEF MeasureAside, pages, First, Chosen
  <2>3. Counted' /\ (AllMeasured' <=> AllMeasured)
    BY <1>1, <1>2, <2>2, SettledStays
  <2> QED
    BY <1>1, <1>2, <2>2, <2>3 DEF WayOK, AsideOK, MapOK
<1>4. CASE (\E k \in Researched : TypeArea(k)) \/ AboutRoof
  <2>1. UNCHANGED <<step, aside, quantity>>
    BY <1>4 DEF TypeArea, AboutRoof, mapState
  <2>2. Counted' /\ (AllMeasured' <=> AllMeasured)
    BY <1>1, <1>2, <2>1, SettledStays
  <2> QED
    BY <1>1, <1>2, <2>1, <2>2 DEF WayOK, AsideOK, MapOK
<1>5. CASE ContinueConfirm
  <2>1. /\ \A s \in selected : Kind[s] \in Researched => area[Kind[s]] # Unset
        /\ quantity' = Carried /\ step' = "contact" /\ UNCHANGED <<area, aside>>
    BY <1>5 DEF ContinueConfirm, mapState
  <2>2. \A s \in selected : quantity'[s] = IF Kind[s] \in Researched /\ s \in First(Kind[s])
                                            THEN area[Kind[s]] ELSE quantity[s]
    BY <1>2, <2>1, Listed DEF Carried
  <2>3. Carrying' /\ Counted'
    BY <1>1, <1>2, <2>1, <2>2 DEF Carrying, Counted, First, Chosen
  <2>4. AllMeasured => AllMeasured'
    <3>1. \A i \in Queue : catalog[i] \in selected /\ Kind[catalog[i]] \notin Researched
      BY DEF Queue, OnTheMap, Researched
    <3>2. Queue' = Queue
      BY <1>1, QueueStays
    <3> QED
      BY <1>1, <2>2, <3>1, <3>2 DEF AllMeasured, Measured
  <2> QED
    BY <1>1, <1>2, <2>1, <2>3, <2>4 DEF WayOK, AsideOK, MapOK
<1> QED
  BY <1>3, <1>4, <1>5

\* From the contact and the review the customer goes where it was settled.
LEMMA MoveStep == ASSUME WizardInv, Move PROVE WayOK'
<1>1. /\ UNCHANGED <<catalog, selected, quantity, area, drawn, confirmed, looking, aside, uncertain, index>>
      /\ step \in {"service", "confirm", "contact", "review"}
  BY Moves DEF Move, pages, mapState
<1>2. WayOK /\ ~ looking /\ aside = {}
  BY <1>1 DEF WizardInv, WayOK, AsideOK
<1>3. CASE step' \notin Screens
  BY <1>1, <1>2, <1>3, BeforeTheMap
<1>4. CASE step' \in Screens
  <2>1. step \in {"contact", "review"} /\ step' \in {"confirm", "contact", "review"}
    BY <1>4, Moves DEF Screens
  <2>2. Counted /\ Carrying /\ (uncertain \/ AllMeasured)
    BY <1>2, <2>1 DEF WayOK, MapOK, Screens
  <2>3. Counted' /\ (AllMeasured' <=> AllMeasured)
    BY <1>1, <2>2, SettledStays
  <2>4. Carrying'
    BY <1>1, <2>2 DEF Carrying, First, Chosen
  <2> QED
    BY <1>1, <1>2, <2>1, <2>2, <2>3, <2>4 DEF WayOK, AsideOK, MapOK
<1> QED
  BY <1>3, <1>4

LEMMA AmendStep == ASSUME WizardInv, Amend PROVE WayOK'
<1>1. /\ UNCHANGED <<catalog, selected, quantity, drawn, confirmed, looking, aside, uncertain>>
      /\ step = "review" /\ step' \in {"confirm", "mapMeasure"}
  BY DEF Amend, pages
<1>2. ~ looking /\ aside = {} /\ Counted /\ (uncertain \/ AllMeasured)
  BY <1>1 DEF WizardInv, WayOK, AsideOK, MapOK, Screens
<1>3. Counted' /\ (AllMeasured' <=> AllMeasured)
  BY <1>1, <1>2, SettledStays
<1>4. AllMeasured' => MeasuredTo(index)'
  BY DEF AllMeasured, MeasuredTo
<1> QED
  BY <1>1, <1>2, <1>3, <1>4 DEF WayOK, AsideOK, MapOK

\* An answer may turn the page from any screen, the map of a service aside too.
LEMMA AnswerStep ==
  ASSUME WizardInv, Draw \/ Submit \/ Answered \/ UNCHANGED WizardVars
  PROVE  WayOK'
<1>1. /\ UNCHANGED <<catalog, selected, quantity, area, drawn, confirmed, looking, aside, uncertain, index>>
      /\ step' = step \/ step' = "success"
  BY DEF Draw, Submit, Answered, WizardVars, pages, mapState
<1>2. WayOK
  BY DEF WizardInv
<1>3. CASE step' = step
  <2>1. /\ Counted' <=> Counted
        /\ AllMeasured' <=> AllMeasured
        /\ \A n : MeasuredTo(n)' <=> MeasuredTo(n)
    BY <1>1, SettledStays
  <2>2. (Carrying' <=> Carrying) /\ (AsideOK' <=> AsideOK)
    BY <1>1, <1>3 DEF Carrying, AsideOK, First, Chosen
  <2>3. MeasuredTo(index) => MeasuredTo(index)'
    BY <1>1, QueueStays DEF MeasuredTo, Measured
  <2> QED
    BY <1>1, <1>2, <1>3, <2>1, <2>2, <2>3 DEF WayOK, MapOK
<1>4. CASE step' = "success"
  <2>1. AsideOK' /\ (looking' => aside' = {})
    BY <1>1, <1>2, <1>4 DEF WayOK, AsideOK
  <2> QED
    BY <1>4, <2>1 DEF WayOK, MapOK, Screens
<1> QED
  BY <1>1, <1>3, <1>4

-----------------------------------------------------------------------------
\* On every screen what has to be settled by then is, whichever way led there.
THEOREM WizardInvariant == WizardSpec => []WizardInv
<1>1. WizardInit => WizardInv
  <2> SUFFICES ASSUME WizardInit PROVE WayOK
    BY WizardTypeInit DEF WizardInv
  <2>1. step = "property" /\ aside = {} /\ ~ looking
    BY DEF WizardInit
  <2> QED
    BY <2>1 DEF WayOK, AsideOK, MapOK, Screens
<1>2. WizardInv /\ [WizardNext]_WizardVars => WizardInv'
  <2> SUFFICES ASSUME WizardInv, [WizardNext]_WizardVars PROVE WayOK'
    BY WizardTypeStep DEF WizardInv
  <2> QED
    BY EarlyStep, ContinueServiceStep, CompleteMapStep, CancelMapStep, ConfirmStep, MoveStep, AmendStep,
       AnswerStep DEF WizardNext, Finished
<1> QED
  BY <1>1, <1>2, PTL DEF WizardSpec

\* Every variable of the page keeps its type: the index of the map never passes the
\* end of its queue by more than the one place the code starts from.
THEOREM WizardTypes == WizardSpec => []WizardTypeOK
<1>1. WizardInv => WizardTypeOK
  BY DEF WizardInv
<1> QED
  BY <1>1, WizardInvariant, PTL

\* Where a researched kind is listed once, its service is the first that find meets.
LEMMA OnlyIsFirst ==
  ASSUME OneOfEach, WizardTypeOK, NEW s \in selected, Kind[s] \in Researched
  PROVE  s \in First(Kind[s])
<1>1. catalog \in Catalogs /\ DOMAIN catalog = 1 .. Len(catalog) /\ Len(catalog) \in Nat
  BY Listed DEF WizardTypeOK
<1>2. PICK i \in DOMAIN catalog : catalog[i] = s
  BY DEF WizardTypeOK, Range
<1>3. ASSUME NEW j \in 1 .. i - 1, Kind[catalog[j]] = Kind[s] PROVE FALSE
  <2>1. j \in DOMAIN catalog /\ j # i
    BY <1>1
  <2> QED
    BY <1>1, <1>2, <1>3, <2>1 DEF OneOfEach
<1> QED
  BY <1>2, <1>3 DEF First, Chosen

\* If the catalog lists each researched kind once, the review of an instant estimate is
\* reached only with the measure of every service it prices, by whatever way through
\* the screens (payload, 501).
THEOREM QuantitiesAreKnown ==
  ASSUME OneOfEach
  PROVE  WizardSpec => []QuantitiesKnown
<1>1. WizardInv => QuantitiesKnown
  <2> SUFFICES ASSUME WizardInv, Priced, NEW s \in selected, Kind[s] # "flat_rate"
               PROVE  quantity[s] # Unset
    BY DEF QuantitiesKnown
  <2>1. step = "review" /\ ~ uncertain /\ Mode[s] # "request"
    BY DEF Priced, RequestOnly
  <2>2. Counted /\ Carrying /\ AllMeasured
    BY <2>1 DEF WizardInv, WayOK, MapOK, Screens
  <2>3. CASE Kind[s] \in OnTheMap
    <3>1. PICK i \in Queue : catalog[i] = s
      BY <2>3 DEF Queue, Range, WizardInv, WizardTypeOK
    <3> QED
      BY <2>2, <3>1 DEF AllMeasured, Measured
  <2>4. CASE Kind[s] \in Researched
    <3>1. s \in First(Kind[s])
      BY <2>4, OnlyIsFirst DEF WizardInv
    <3> QED
      BY <2>2, <2>4, <3>1 DEF Carrying
  <2> QED
    BY <2>1, <2>2, <2>3, <2>4 DEF Counted
<1> QED
  BY <1>1, WizardInvariant, PTL

\* If the catalog lists each researched kind once, the areas and outlines the review
\* shows are those the services are priced on, though each is kept twice and written on
\* four screens.
THEOREM ShownArePriced ==
  ASSUME OneOfEach
  PROVE  WizardSpec => []ShownIsPriced
<1>1. WizardInv => ShownIsPriced
  <2> SUFFICES ASSUME WizardInv, Priced, NEW s \in selected
               PROVE  /\ Kind[s] \in Researched => quantity[s] = area[Kind[s]]
                      /\ Kind[s] \in OnTheMap => quantity[s] = drawn[s]
    BY DEF ShownIsPriced
  <2>1. step = "review" /\ ~ uncertain
    BY DEF Priced, RequestOnly
  <2>2. Carrying /\ AllMeasured
    BY <2>1 DEF WizardInv, WayOK, MapOK, Screens
  <2>3. ASSUME Kind[s] \in OnTheMap PROVE \E i \in Queue : catalog[i] = s
    BY <2>3 DEF Queue, Range, WizardInv, WizardTypeOK
  <2>4. Kind[s] \in Researched => s \in First(Kind[s])
    BY OnlyIsFirst DEF WizardInv
  <2> QED
    BY <2>2, <2>3, <2>4 DEF Carrying, AllMeasured, Measured
<1> QED
  BY <1>1, WizardInvariant, PTL

\* Every outline that is priced was accepted on the map of the quoted address, also
\* after the customer went back from the review and gave another one.
THEOREM OutlinesAreHere == WizardSpec => []MeasuredHere
<1>1. WizardInv => MeasuredHere
  <2> SUFFICES ASSUME WizardInv, Priced, NEW s \in selected, Kind[s] \in OnTheMap
               PROVE  s \in confirmed
    BY DEF MeasuredHere
  <2>1. step = "review" /\ ~ uncertain
    BY DEF Priced, RequestOnly
  <2>2. AllMeasured
    BY <2>1 DEF WizardInv, WayOK, MapOK, Screens
  <2>3. \E i \in Queue : catalog[i] = s
    BY DEF Queue, Range, WizardInv, WizardTypeOK
  <2> QED
    BY <2>2, <2>3 DEF AllMeasured, Measured
<1> QED
  BY <1>1, WizardInvariant, PTL
=============================================================================
