----------------------------- MODULE DocumentMail -----------------------------
(***************************************************************************)
(* Sending estimates and invoices: sendEmail and sendSms of a document,    *)
(* the permanent portal link each message carries, and the mail worker.    *)
(* A send is one call of a handler with all it makes: its token row, its   *)
(* email_log row and, by e-mail, its BullMQ job.  A worker that throws is  *)
(* tried again until its attempts run out, and one that dies leaves its    *)
(* job to be taken again (BullMQ, Postmark and Twilio are not under src/:  *)
(* they are modelled by what the code relies on).                          *)
(*                                                                         *)
(* accepted counts, for each send, the copies the provider took, unlearnt  *)
(* the answers that were lost and the workers that died with its job;      *)
(* last is the last send of a document whose message left the handler;     *)
(* disturbed holds the documents with a send that overlapped another or    *)
(* failed after it had revoked the old link.  They are history variables.  *)
(***************************************************************************)
EXTENDS Naturals, FiniteSets

CONSTANTS
    Documents,      \* estimates and invoices
    None,           \* no document
    MaxSends,       \* bound: calls of sendEmail and sendSms
    MaxAttempts,    \* attempts of a queue job
    MaxCrashes      \* bound: crashes of the process

ASSUME AttemptAssumption == MaxAttempts \in Nat \ {0}
ASSUME NoneAssumption    == None \notin Documents
ASSUME SendsAssumption   == MaxSends \in Nat
ASSUME CrashAssumption   == MaxCrashes \in Nat

\* The calls, numbered as they come; 0 is none.
Sends == 1 .. MaxSends

VARIABLES
    configured,     \* the provider's token and the from address are set
    status,         \* [Documents -> status]
    send,           \* [Sends -> handler in flight: its step, document and channel]
    token,          \* [Sends -> its row of portal_document_tokens]
    mailLog,        \* [Sends -> status of its email_log row]
    job,            \* [Sends -> its queue job]
    accepted, unlearnt, last, disturbed, crashes

vars == <<configured, status, send, token, mailLog, job, accepted, unlearnt, last,
          disturbed, crashes>>

\* posting: taken by the worker, not yet posted.  ok, refused, lost: the answer.
\* told, threw: process() returned or threw, which the queue has not yet heard.
InWorker == {"posting", "ok", "refused", "lost", "told", "threw"}
JobState == {"none", "waiting", "done", "dead"} \cup InWorker

\* The steps of a send at which its handler is in flight.
InHandler == {"marking", "writing", "recipient", "insert", "log", "hand", "tell"}

Init == /\ configured \in BOOLEAN
        /\ status = [d \in Documents |-> "draft"]
        /\ send = [a \in Sends |-> [pc |-> "none", document |-> None, by |-> "email", answer |-> "none"]]
        /\ token = [a \in Sends |-> "none"]
        /\ mailLog = [a \in Sends |-> "none"]
        /\ job = [a \in Sends |-> [state |-> "none", tries |-> 0]]
        /\ accepted = [a \in Sends |-> 0]
        /\ unlearnt = [a \in Sends |-> 0]
        /\ last = [d \in Documents |-> 0]
        /\ disturbed = {}
        /\ crashes = 0

TypeOK == /\ configured \in BOOLEAN
          /\ status \in [Documents -> {"draft", "sent", "closed"}]
          /\ send \in [Sends -> [pc : {"none", "done", "threw"} \cup InHandler,
                                 document : Documents \cup {None}, by : {"email", "sms"},
                                 answer : {"none", "ok", "refused", "lost"}]]
          /\ token \in [Sends -> {"none", "active", "revoked"}]
          /\ mailLog \in [Sends -> {"none", "queued", "sent", "failed"}]
          /\ job \in [Sends -> [state : JobState, tries : 0 .. MaxAttempts]]
          /\ accepted \in [Sends -> Nat] /\ unlearnt \in [Sends -> Nat]
          /\ last \in [Documents -> 0 .. MaxSends]
          /\ disturbed \subseteq Documents
          /\ crashes \in 0 .. MaxCrashes

mailVars == <<configured, job>>

-----------------------------------------------------------------------------
(* The handler: sendEmail and sendSms. *)

SendsOf(d) == {a \in Sends : send[a].document = d}
InFlight(d) == {a \in SendsOf(d) : send[a].pc \in InHandler}

Goto(a, pc) == send' = [send EXCEPT ![a].pc = pc]

\* A draft is marked sent first; one that is declined, expired or void is refused.
Begin(a) ==
    /\ send[a].pc = "none" /\ \A b \in 1 .. a - 1 : send[b].pc # "none"
    /\ \E d \in Documents, by \in {"email", "sms"} :
          /\ status[d] # "closed"
          /\ send' = [send EXCEPT ![a].document = d, ![a].by = by,
                        ![a].pc = IF status[d] = "draft" THEN "marking" ELSE "recipient"]
          /\ disturbed' = IF InFlight(d) = {} THEN disturbed ELSE disturbed \cup {d}
    /\ UNCHANGED <<mailVars, status, token, mailLog, accepted, unlearnt, last, crashes>>

\* send(): the guard is read again, the write is by id.
MarkRead(a) ==
    /\ send[a].pc = "marking"
    /\ Goto(a, IF status[send[a].document] = "draft" THEN "writing" ELSE "threw")
    /\ UNCHANGED <<mailVars, status, token, mailLog, accepted, unlearnt, last, disturbed, crashes>>

MarkWrite(a) ==
    /\ send[a].pc = "writing"
    /\ status' = [status EXCEPT ![send[a].document] = "sent"]
    /\ Goto(a, "recipient")
    /\ UNCHANGED <<mailVars, token, mailLog, accepted, unlearnt, last, disturbed, crashes>>

\* The links that a new one replaces: those of the same document.
LinksReplaced_OfCustomer(d) == {a \in Sends : token[a] = "active"}
LinksReplaced(d) == {a \in SendsOf(d) : token[a] = "active"}

\* Without a recipient the send ends here, its document marked sent; for a customer
\* who was deleted the message goes without a link; else the old link is revoked.
Revoke(a) ==
    /\ send[a].pc = "recipient"
    /\ \/ Goto(a, "threw") /\ UNCHANGED token
       \/ Goto(a, "log") /\ UNCHANGED token
       \/ /\ Goto(a, "insert")
          /\ token' = [b \in Sends |-> IF b \in LinksReplaced(send[a].document) THEN "revoked"
                                       ELSE token[b]]
    /\ UNCHANGED <<mailVars, status, mailLog, accepted, unlearnt, last, disturbed, crashes>>

\* The unique index allows one active token of a document.
Insert(a) ==
    /\ send[a].pc = "insert"
    /\ IF LinksReplaced(send[a].document) # {}
       THEN /\ Goto(a, "threw")
            /\ disturbed' = disturbed \cup {send[a].document}
            /\ UNCHANGED token
       ELSE /\ Goto(a, "log")
            /\ token' = [token EXCEPT ![a] = "active"]
            /\ UNCHANGED disturbed
    /\ UNCHANGED <<mailVars, status, mailLog, accepted, unlearnt, last, crashes>>

WriteLog(a) ==
    /\ send[a].pc = "log"
    /\ mailLog' = [mailLog EXCEPT ![a] = "queued"]
    /\ Goto(a, "hand")
    /\ UNCHANGED <<mailVars, status, token, accepted, unlearnt, last, disturbed, crashes>>

\* sendDocumentEmail: the queue takes the job, or its failure reaches the caller,
\* and the log row stays 'queued'.
Enqueue(a) ==
    /\ send[a].pc = "hand" /\ send[a].by = "email"
    /\ \/ /\ job' = [job EXCEPT ![a].state = "waiting"]
          /\ last' = [last EXCEPT ![send[a].document] = a]
          /\ Goto(a, "done")
          /\ UNCHANGED disturbed
       \/ /\ disturbed' = disturbed \cup {send[a].document}
          /\ Goto(a, "threw")
          /\ UNCHANGED <<job, last>>
    /\ UNCHANGED <<configured, status, token, mailLog, accepted, unlearnt, crashes>>

\* A provider answers, or no answer comes: it may have taken the message then.
Answered(a, answer, taken) ==
    /\ answer = "ok" => taken
    /\ answer = "refused" => ~ taken
    /\ accepted' = [accepted EXCEPT ![a] = IF taken THEN @ + 1 ELSE @]

\* SmsService.send answers in the handler, which then writes the log itself.
Text(a) ==
    /\ send[a].pc = "hand" /\ send[a].by = "sms"
    /\ \E answer \in {"ok", "refused", "lost"}, taken \in BOOLEAN :
          /\ Answered(a, answer, taken)
          /\ send' = [send EXCEPT ![a].pc = "tell", ![a].answer = answer]
          /\ IF taken THEN last' = [last EXCEPT ![send[a].document] = a] /\ UNCHANGED disturbed
             ELSE disturbed' = disturbed \cup {send[a].document} /\ UNCHANGED last
    /\ UNCHANGED <<mailVars, status, token, mailLog, unlearnt, crashes>>

\* What the log says of an answer.
Outcome_Optimistic(answer) == IF answer = "refused" THEN "failed" ELSE "sent"
Outcome(answer) == IF answer = "ok" THEN "sent" ELSE "failed"

TellText(a) ==
    /\ send[a].pc = "tell"
    /\ mailLog' = [mailLog EXCEPT ![a] = Outcome(send[a].answer)]
    /\ send' = [send EXCEPT ![a].answer = "none",
                  ![a].pc = IF send[a].answer = "ok" THEN "done" ELSE "threw"]
    /\ UNCHANGED <<mailVars, status, token, accepted, unlearnt, last, disturbed, crashes>>

\* The document is declined, expires or is voided.
Close(d) ==
    /\ status[d] = "sent"
    /\ status' = [status EXCEPT ![d] = "closed"]
    /\ UNCHANGED <<mailVars, send, token, mailLog, accepted, unlearnt, last, disturbed, crashes>>

-----------------------------------------------------------------------------
(* The worker: MailProcessor.process. *)

handlerVars == <<status, send, token, last, disturbed, crashes>>

Take(a) ==
    /\ job[a].state = "waiting"
    /\ job[a].tries < MaxAttempts
    /\ job' = [job EXCEPT ![a] = [state |-> "posting", tries |-> @.tries + 1]]
    /\ UNCHANGED <<configured, mailLog, accepted, unlearnt, handlerVars>>

Post(a) ==
    /\ job[a].state = "posting" /\ configured
    /\ \E answer \in {"ok", "refused", "lost"}, taken \in BOOLEAN :
          /\ Answered(a, answer, taken)
          /\ job' = [job EXCEPT ![a].state = answer]
          /\ unlearnt' = [unlearnt EXCEPT ![a] = IF answer = "lost" THEN @ + 1 ELSE @]
    /\ UNCHANGED <<configured, mailLog, handlerVars>>

\* updateEmailLog never throws: a row that cannot be written stays as it was.
Tell(a, outcome) == mailLog' \in {mailLog, [mailLog EXCEPT ![a] = outcome]}

\* How process() ends: it throws for anything but an accepted message.
AfterAnswer_Again(a) == "threw"
AfterAnswer(a) == IF job[a].state = "ok" THEN "told" ELSE "threw"

Conclude(a) ==
    /\ job[a].state \in {"ok", "refused", "lost"}
    /\ Tell(a, Outcome(job[a].state))
    /\ job' = [job EXCEPT ![a].state = AfterAnswer(a)]
    /\ UNCHANGED <<configured, accepted, unlearnt, handlerVars>>

\* Without credentials the row is told failed and process() returns: no retry would help.
Skip(a) ==
    /\ job[a].state = "posting" /\ ~ configured
    /\ Tell(a, "failed")
    /\ job' = [job EXCEPT ![a].state = "told"]
    /\ UNCHANGED <<configured, accepted, unlearnt, handlerVars>>

\* A job that failed is tried again, while it has an attempt left.
Retried_Always(a) == "waiting"
Retried(a) == IF job[a].tries < MaxAttempts THEN "waiting" ELSE "dead"

\* The queue hears how process() ended.
Settle(a) ==
    /\ job[a].state \in {"told", "threw"}
    /\ job' = [job EXCEPT ![a].state = IF job[a].state = "told" THEN "done" ELSE Retried(a)]
    /\ UNCHANGED <<configured, mailLog, accepted, unlearnt, handlerVars>>

\* The process dies, its handlers and workers with it: what a worker held goes back to
\* the queue, also when its row already says 'sent'.
Crash ==
    /\ crashes < MaxCrashes
    /\ crashes' = crashes + 1
    /\ job' = [a \in Sends |-> IF job[a].state \in InWorker
                               THEN [job[a] EXCEPT !.state = Retried(a)] ELSE job[a]]
    /\ unlearnt' = [a \in Sends |-> IF job[a].state \in InWorker THEN unlearnt[a] + 1 ELSE unlearnt[a]]
    /\ send' = [a \in Sends |-> IF send[a].pc \in InHandler THEN [send[a] EXCEPT !.pc = "threw", !.answer = "none"]
                                ELSE send[a]]
    /\ disturbed' = disturbed \cup {d \in Documents : InFlight(d) # {}}
    /\ UNCHANGED <<configured, status, token, mailLog, accepted, last>>

-----------------------------------------------------------------------------
HandlerStep(a) == MarkRead(a) \/ MarkWrite(a) \/ Revoke(a) \/ Insert(a) \/ WriteLog(a)
                    \/ Enqueue(a) \/ Text(a) \/ TellText(a)
WorkerStep(a) == Take(a) \/ Post(a) \/ Conclude(a) \/ Skip(a) \/ Settle(a)

Next == \/ \E a \in Sends : Begin(a) \/ HandlerStep(a) \/ WorkerStep(a)
        \/ \E d \in Documents : Close(d)
        \/ Crash

\* The queue hands out what it holds, and a worker that was given a job goes on.
Spec == Init /\ [][Next]_vars /\ \A a \in Sends : WF_vars(WorkerStep(a))

-----------------------------------------------------------------------------
(* Properties. *)

\* What the staff read as 'sent' was taken by a provider: through refusals, lost
\* answers, retries and crashes the log never claims more than happened.
SentWasAccepted ==
    \A a \in Sends : mailLog[a] = "sent" => accepted[a] > 0

\* A customer gets a further copy of a message only for an answer that was lost or a
\* worker that died before the queue heard from it: a refusal, a row that could not be
\* written and a job without attempts left never send one (MailProcessor.process).
ExtraCopiesExplained ==
    \A a \in Sends : accepted[a] <= 1 + unlearnt[a]

\* Between sends the link in the last message about a document works, unless two
\* sends of it overlapped or one failed after it had revoked the link before it.
LastLinkWorks ==
    \A d \in Documents \ disturbed :
        last[d] # 0 /\ InFlight(d) = {} => token[last[d]] # "revoked"

\* Whatever is queued is delivered or given up: retries do not go on forever.
QueuedMailResolved ==
    \A a \in Sends : job[a].state = "waiting" ~> job[a].state \in {"done", "dead"}
=============================================================================
