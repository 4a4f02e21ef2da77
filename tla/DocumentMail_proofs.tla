-------------------------- MODULE DocumentMail_proofs --------------------------
(***************************************************************************)
(* What sending documents guarantees for any documents, sends, attempts    *)
(* and crashes.  Each send owns its token, its log row and its job, so     *)
(* what the log says and how many copies went out is an argument about one *)
(* send at a time; the link is one about the sends of one document.        *)
(***************************************************************************)
EXTENDS DocumentMail, TLAPS

\* The steps of a send that come before its message, and before its link.
Unsent   == {"none", "marking", "writing", "recipient", "insert", "log", "hand"}
Unlinked == {"none", "marking", "writing", "recipient", "insert"}

\* A send has a document from its first step, its link after "insert", and a
\* queue job or a copy only when its handler has let the message go.
SendOK(a) ==
    /\ send[a].pc = "none" <=> send[a].document = None
    /\ send[a].pc \in Unsent => job[a].state = "none" /\ accepted[a] = 0
    /\ send[a].pc = "tell" => job[a].state = "none"
    /\ send[a].pc \in Unlinked => token[a] = "none"

\* Only a job whose worker learnt of a success, or is over with it, has one copy more
\* than the answers and workers that were lost; a text is sent once.
CopiesOK(a) ==
    /\ job[a].state \in {"none", "ok", "told", "done"} => accepted[a] <= 1 + unlearnt[a]
    /\ job[a].state \in {"waiting", "posting", "refused", "lost", "threw", "dead"} =>
          accepted[a] <= unlearnt[a]

\* An answer that says ok stands for a copy, and so does the log.
AnswerOK(a) ==
    /\ job[a].state = "ok" => accepted[a] > 0
    /\ send[a].pc = "tell" /\ send[a].answer = "ok" => accepted[a] > 0
    /\ mailLog[a] = "sent" => accepted[a] > 0

SendsOK == \A a \in Sends : SendOK(a) /\ CopiesOK(a) /\ AnswerOK(a)

\* Undisturbed, a document has one send in flight, whose own link nobody revokes;
\* from its "insert" until its message is gone the last link may be a dead one.
Replacing == {"insert", "log", "hand"}

LinkOK(d) ==
    /\ \A a, b \in InFlight(d) : a = b
    /\ \A a \in InFlight(d) : token[a] # "revoked"
    /\ \A a \in InFlight(d) : send[a].pc = "tell" => last[d] = a
    /\ last[d] # 0 => send[last[d]].document = d
    /\ last[d] # 0 /\ (\A a \in InFlight(d) : send[a].pc \notin Replacing) => token[last[d]] # "revoked"

LinksOK == \A d \in Documents \ disturbed : LinkOK(d)

IInv == TypeOK /\ SendsOK /\ LinksOK

-----------------------------------------------------------------------------
(* Rows, and what a step makes of the row of one send.                     *)

Pc      == {"none", "done", "threw"} \cup InHandler
SendRow == [pc : Pc, document : Documents \cup {None}, by : {"email", "sms"},
            answer : {"none", "ok", "refused", "lost"}]
JobRow  == [state : JobState, tries : 0 .. MaxAttempts]

LEMMA Rows == TypeOK => send \in [Sends -> SendRow] /\ job \in [Sends -> JobRow]
  BY DEF TypeOK, SendRow, JobRow, Pc

LEMMA RowsTyped ==
    ASSUME /\ configured' \in BOOLEAN
           /\ status' \in [Documents -> {"draft", "sent", "closed"}]
           /\ send' \in [Sends -> SendRow]
           /\ token' \in [Sends -> {"none", "active", "revoked"}]
           /\ mailLog' \in [Sends -> {"none", "queued", "sent", "failed"}]
           /\ job' \in [Sends -> JobRow]
           /\ accepted' \in [Sends -> Nat] /\ unlearnt' \in [Sends -> Nat]
           /\ last' \in [Documents -> 0 .. MaxSends]
           /\ disturbed' \subseteq Documents
           /\ crashes' \in 0 .. MaxCrashes
    PROVE  TypeOK'
  BY DEF TypeOK, SendRow, JobRow, Pc

LEMMA RowSet ==
    ASSUME NEW row \in SendRow
    PROVE  /\ \A pc \in Pc : /\ [row EXCEPT !.pc = pc] \in SendRow
                             /\ [row EXCEPT !.pc = pc].pc = pc
                             /\ [row EXCEPT !.pc = pc].document = row.document
                             /\ [row EXCEPT !.pc = pc].by = row.by
                             /\ [row EXCEPT !.pc = pc].answer = row.answer
           /\ row.document \in Documents \cup {None} /\ row.pc \in Pc
           /\ row.answer \in {"none", "ok", "refused", "lost"}
  BY DEF SendRow

\* Only the step of a is written.
OnlyPc(a, pc) ==
    /\ send' \in [Sends -> SendRow]
    /\ \A b \in Sends : b # a => send'[b] = send[b]
    /\ send'[a].pc = pc /\ send'[a].document = send[a].document /\ send'[a].by = send[a].by
    /\ send'[a].answer = send[a].answer

LEMMA GotoWrites ==
    ASSUME TypeOK, NEW a \in Sends, NEW pc \in Pc, Goto(a, pc)
    PROVE  OnlyPc(a, pc)
  <1> DEFINE row == [send[a] EXCEPT !.pc = pc]
  <1>1. send \in [Sends -> SendRow]
    BY Rows
  <1>2. /\ row \in SendRow /\ row.pc = pc /\ row.document = send[a].document
        /\ row.by = send[a].by /\ row.answer = send[a].answer
    BY <1>1, RowSet
  <1>3. send' = [send EXCEPT ![a] = row]
    BY DEF Goto
  <1> HIDE DEF row
  <1> QED
    BY <1>1, <1>2, <1>3 DEF OnlyPc

LEMMA BeginWrites ==
    ASSUME TypeOK, NEW a \in Sends, Begin(a)
    PROVE  \E d \in Documents :
              /\ send' \in [Sends -> SendRow]
              /\ \A b \in Sends : b # a => send'[b] = send[b]
              /\ send'[a].document = d /\ send'[a].pc \in {"marking", "recipient"}
              /\ disturbed' = IF InFlight(d) = {} THEN disturbed ELSE disturbed \cup {d}
  <1>1. PICK d \in Documents, by \in {"email", "sms"} :
           /\ send' = [send EXCEPT ![a].document = d, ![a].by = by,
                         ![a].pc = IF status[d] = "draft" THEN "marking" ELSE "recipient"]
           /\ disturbed' = IF InFlight(d) = {} THEN disturbed ELSE disturbed \cup {d}
    BY DEF Begin
  <1> DEFINE to  == IF status[d] = "draft" THEN "marking" ELSE "recipient"
             row == [send[a] EXCEPT !.document = d, !.by = by, !.pc = to]
  <1>2. send \in [Sends -> SendRow] /\ to \in {"marking", "recipient"}
    BY Rows
  <1>3. send' = [send EXCEPT ![a] = row]
    BY <1>1, <1>2
  <1> HIDE DEF to
  <1>4. row \in SendRow /\ row.document = d /\ row.pc = to
    BY <1>2 DEF SendRow, Pc, InHandler
  <1> HIDE DEF row
  <1>5. /\ send' \in [Sends -> SendRow] /\ send'[a] = row
        /\ \A b \in Sends : b # a => send'[b] = send[b]
    BY <1>2, <1>3, <1>4
  <1>6. disturbed' = IF InFlight(d) = {} THEN disturbed ELSE disturbed \cup {d}
    BY <1>1
  <1>7. send'[a].document = d /\ send'[a].pc \in {"marking", "recipient"}
    BY <1>2, <1>4, <1>5
  <1> QED
    BY <1>5, <1>6, <1>7

LEMMA TextWrites ==
    ASSUME TypeOK, NEW a \in Sends, Text(a)
    PROVE  \E answer \in {"ok", "refused", "lost"}, taken \in BOOLEAN :
              /\ answer = "ok" => taken
              /\ send' \in [Sends -> SendRow]
              /\ \A b \in Sends : b # a => send'[b] = send[b]
              /\ send'[a].document = send[a].document /\ send'[a].pc = "tell"
              /\ send'[a].answer = answer
              /\ accepted' = [accepted EXCEPT ![a] = IF taken THEN @ + 1 ELSE @]
              /\ IF taken THEN last' = [last EXCEPT ![send[a].document] = a] /\ UNCHANGED disturbed
                 ELSE disturbed' = disturbed \cup {send[a].document} /\ UNCHANGED last
  <1>1. PICK answer \in {"ok", "refused", "lost"}, taken \in BOOLEAN :
           /\ Answered(a, answer, taken)
           /\ send' = [send EXCEPT ![a].pc = "tell", ![a].answer = answer]
           /\ IF taken THEN last' = [last EXCEPT ![send[a].document] = a] /\ UNCHANGED disturbed
              ELSE disturbed' = disturbed \cup {send[a].document} /\ UNCHANGED last
    BY DEF Text
  <1> DEFINE row == [send[a] EXCEPT !.pc = "tell", !.answer = answer]
  <1>2. send \in [Sends -> SendRow]
    BY Rows
  <1>3. send' = [send EXCEPT ![a] = row]
    BY <1>1, <1>2
  <1>4. /\ row \in SendRow /\ row.document = send[a].document /\ row.pc = "tell"
        /\ row.answer = answer
    BY <1>2 DEF SendRow, Pc, InHandler
  <1> HIDE DEF row
  <1>5. /\ send' \in [Sends -> SendRow] /\ send'[a] = row
        /\ \A b \in Sends : b # a => send'[b] = send[b]
    BY <1>2, <1>3, <1>4
  <1> QED
    BY <1>1, <1>4, <1>5 DEF Answered

LEMMA TellTextWrites ==
    ASSUME TypeOK, NEW a \in Sends, TellText(a)
    PROVE  /\ send' \in [Sends -> SendRow]
           /\ \A b \in Sends : b # a => send'[b] = send[b]
           /\ send'[a].document = send[a].document /\ send'[a].pc \in {"done", "threw"}
  <1> DEFINE to  == IF send[a].answer = "ok" THEN "done" ELSE "threw"
             row == [send[a] EXCEPT !.answer = "none", !.pc = to]
  <1>2. send \in [Sends -> SendRow] /\ to \in {"done", "threw"}
    BY Rows
  <1>3. send' = [send EXCEPT ![a] = row]
    BY <1>2 DEF TellText
  <1> HIDE DEF to
  <1>4. row \in SendRow /\ row.document = send[a].document /\ row.pc = to
    BY <1>2 DEF SendRow, Pc
  <1> HIDE DEF row
  <1> QED
    BY <1>2, <1>3, <1>4

LEMMA CrashWrites ==
    ASSUME TypeOK, Crash, NEW a \in Sends
    PROVE  /\ send' \in [Sends -> SendRow]
           /\ send'[a].document = send[a].document
           /\ send'[a].pc = IF send[a].pc \in InHandler THEN "threw" ELSE send[a].pc
           /\ job' \in [Sends -> JobRow]
           /\ job'[a].state = IF job[a].state \in InWorker THEN Retried(a) ELSE job[a].state
  <1> DEFINE Threw(b) == [send[b] EXCEPT !.pc = "threw", !.answer = "none"]
             Again(b) == [job[b] EXCEPT !.state = Retried(b)]
  <1>1. send \in [Sends -> SendRow] /\ job \in [Sends -> JobRow]
    BY Rows
  <1>2. \A b \in Sends : /\ Threw(b) \in SendRow /\ Threw(b).pc = "threw"
                         /\ Threw(b).document = send[b].document
    BY <1>1 DEF SendRow, Pc
  <1>3. \A b \in Sends : Again(b) \in JobRow /\ Again(b).state = Retried(b)
    BY <1>1 DEF JobRow, JobState, Retried
  <1>4. /\ send' = [b \in Sends |-> IF send[b].pc \in InHandler THEN Threw(b) ELSE send[b]]
        /\ job' = [b \in Sends |-> IF job[b].state \in InWorker THEN Again(b) ELSE job[b]]
    BY DEF Crash
  <1> HIDE DEF Threw, Again
  <1> QED
    BY <1>1, <1>2, <1>3, <1>4

\* A worker writes the row of its job only.
LEMMA JobWrites ==
    ASSUME TypeOK, NEW a \in Sends, NEW state \in JobState,
           job' = [job EXCEPT ![a].state = state]
    PROVE  /\ job' \in [Sends -> JobRow] /\ job'[a].state = state
           /\ \A b \in Sends : b # a => job'[b] = job[b]
  <1>1. job \in [Sends -> JobRow]
    BY Rows
  <1> QED
    BY <1>1 DEF JobRow

LEMMA TakeWrites ==
    ASSUME TypeOK, NEW a \in Sends, Take(a)
    PROVE  /\ job' \in [Sends -> JobRow] /\ job'[a].state = "posting"
           /\ \A b \in Sends : b # a => job'[b] = job[b]
  <1> DEFINE row == [state |-> "posting", tries |-> job[a].tries + 1]
  <1>1. job \in [Sends -> JobRow] /\ job[a].tries < MaxAttempts
    BY Rows DEF Take
  <1>2. row \in JobRow
    BY <1>1, AttemptAssumption DEF JobRow, JobState, InWorker
  <1>3. job' = [job EXCEPT ![a] = row]
    BY DEF Take
  <1> QED
    BY <1>1, <1>2, <1>3

-----------------------------------------------------------------------------
(* Types.                                                                  *)

LEMMA InitTyped == Init => TypeOK
  BY AttemptAssumption, SendsAssumption, CrashAssumption
     DEF Init, TypeOK, InHandler, JobState, InWorker, Sends

LEMMA RetriedType ==
    ASSUME NEW a \in Sends
    PROVE  Retried(a) \in {"waiting", "dead"} /\ AfterAnswer(a) \in {"told", "threw"}
  BY DEF Retried, AfterAnswer

LEMMA HandlerTyped ==
    ASSUME TypeOK, NEW a \in Sends, SendOK(a), Begin(a) \/ HandlerStep(a)
    PROVE  TypeOK'
  <1>0. send \in [Sends -> SendRow] /\ job \in [Sends -> JobRow]
    BY Rows
  <1>01. \A b \in Sends : b \in 0 .. MaxSends
    BY SendsAssumption DEF Sends
  <1>02. disturbed \subseteq Documents /\ last \in [Documents -> 0 .. MaxSends]
    BY DEF TypeOK
  <1>03. send[a].pc # "none" => send[a].document \in Documents
    <2>1. send[a].document \in Documents \cup {None}
      BY <1>0, RowSet
    <2> QED
      BY <2>1 DEF SendOK
  <1>1. CASE Begin(a)
    <2>0. PICK d \in Documents :
             /\ send' \in [Sends -> SendRow]
             /\ disturbed' = IF InFlight(d) = {} THEN disturbed ELSE disturbed \cup {d}
      BY <1>1, BeginWrites
    <2>1. send' \in [Sends -> SendRow] /\ disturbed' \subseteq Documents
      BY <1>02, <2>0
    <2> QED
      BY <1>0, <1>1, <2>1, RowsTyped DEF Begin, mailVars, TypeOK
  <1>2. ASSUME NEW pc \in Pc, Goto(a, pc) PROVE send' \in [Sends -> SendRow]
    BY <1>2, GotoWrites DEF OnlyPc
  <1>3. CASE MarkRead(a)
    BY <1>0, <1>2, <1>3, RowsTyped DEF MarkRead, mailVars, TypeOK, Pc, InHandler
  <1>4. CASE MarkWrite(a)
    BY <1>0, <1>2, <1>4, RowsTyped DEF MarkWrite, mailVars, TypeOK, Pc, InHandler
  <1>5. CASE Revoke(a)
    <2>1. token' \in [Sends -> {"none", "active", "revoked"}]
      BY <1>5 DEF Revoke, TypeOK
    <2>2. send' \in [Sends -> SendRow]
      BY <1>2, <1>5 DEF Revoke, Pc, InHandler
    <2> QED
      BY <1>0, <1>5, <2>1, <2>2, RowsTyped DEF Revoke, mailVars, TypeOK
  <1>6. CASE Insert(a)
    <2>1. token' \in [Sends -> {"none", "active", "revoked"}]
      BY <1>6 DEF Insert, TypeOK
    <2>2. send' \in [Sends -> SendRow]
      BY <1>2, <1>6 DEF Insert, Pc, InHandler
    <2>3. disturbed' \subseteq Documents
      BY <1>02, <1>03, <1>6 DEF Insert
    <2> QED
      BY <1>0, <1>6, <2>1, <2>2, <2>3, RowsTyped DEF Insert, mailVars, TypeOK
  <1>7. CASE WriteLog(a)
    BY <1>0, <1>2, <1>7, RowsTyped DEF WriteLog, mailVars, TypeOK, Pc, InHandler
  <1>8. CASE Enqueue(a)
    <2>1. send' \in [Sends -> SendRow]
      BY <1>2, <1>8 DEF Enqueue, Pc
    <2>2. job' \in [Sends -> JobRow]
      <3>1. CASE job' = [job EXCEPT ![a].state = "waiting"]
        BY <3>1, JobWrites DEF JobState
      <3> QED
        BY <1>0, <1>8, <3>1 DEF Enqueue
    <2>3. disturbed' \subseteq Documents /\ last' \in [Documents -> 0 .. MaxSends]
      <3>1. send[a].document \in Documents
        BY <1>03, <1>8 DEF Enqueue
      <3> QED
        BY <1>01, <1>02, <1>8, <3>1 DEF Enqueue
    <2> QED
      BY <1>8, <2>1, <2>2, <2>3, RowsTyped DEF Enqueue, TypeOK
  <1>9. CASE Text(a)
    <2>1. send[a].document \in Documents
      BY <1>03, <1>9 DEF Text
    <2>2. PICK answer \in {"ok", "refused", "lost"}, taken \in BOOLEAN :
             /\ send' \in [Sends -> SendRow]
             /\ accepted' = [accepted EXCEPT ![a] = IF taken THEN @ + 1 ELSE @]
             /\ IF taken THEN last' = [last EXCEPT ![send[a].document] = a] /\ UNCHANGED disturbed
                ELSE disturbed' = disturbed \cup {send[a].document} /\ UNCHANGED last
      BY <1>9, TextWrites
    <2>3. disturbed' \subseteq Documents /\ last' \in [Documents -> 0 .. MaxSends]
      BY <1>01, <1>02, <2>1, <2>2
    <2>4. accepted' \in [Sends -> Nat]
      BY <2>2 DEF TypeOK
    <2> QED
      BY <1>0, <1>9, <2>2, <2>3, <2>4, RowsTyped DEF Text, mailVars, TypeOK
  <1>10. CASE TellText(a)
    <2>1. mailLog' \in [Sends -> {"none", "queued", "sent", "failed"}]
      BY <1>10 DEF TellText, Outcome, TypeOK
    <2> QED
      BY <1>0, <1>10, <2>1, TellTextWrites, RowsTyped DEF TellText, mailVars, TypeOK
  <1> QED
    BY <1>1, <1>3, <1>4, <1>5, <1>6, <1>7, <1>8, <1>9, <1>10 DEF HandlerStep

LEMMA WorkerTyped ==
    ASSUME TypeOK, NEW a \in Sends, WorkerStep(a)
    PROVE  TypeOK'
  <1>0. send \in [Sends -> SendRow] /\ job \in [Sends -> JobRow]
    BY Rows
  <1>1. CASE Take(a)
    BY <1>0, <1>1, TakeWrites, RowsTyped DEF Take, handlerVars, TypeOK
  <1>2. CASE Post(a)
    <2>1. job' \in [Sends -> JobRow]
      BY <1>2, JobWrites DEF Post, JobState, InWorker
    <2>2. accepted' \in [Sends -> Nat] /\ unlearnt' \in [Sends -> Nat]
      BY <1>2 DEF Post, Answered, TypeOK
    <2> QED
      BY <1>0, <1>2, <2>1, <2>2, RowsTyped DEF Post, handlerVars, TypeOK
  <1>3. CASE Conclude(a)
    <2>1. job' \in [Sends -> JobRow]
      BY <1>3, JobWrites, RetriedType DEF Conclude, JobState, InWorker
    <2>2. mailLog' \in [Sends -> {"none", "queued", "sent", "failed"}]
      BY <1>3 DEF Conclude, Tell, Outcome, TypeOK
    <2> QED
      BY <1>0, <1>3, <2>1, <2>2, RowsTyped DEF Conclude, handlerVars, TypeOK
  <1>4. CASE Skip(a)
    <2>1. job' \in [Sends -> JobRow]
      BY <1>4, JobWrites DEF Skip, JobState, InWorker
    <2>2. mailLog' \in [Sends -> {"none", "queued", "sent", "failed"}]
      BY <1>4 DEF Skip, Tell, TypeOK
    <2> QED
      BY <1>0, <1>4, <2>1, <2>2, RowsTyped DEF Skip, handlerVars, TypeOK
  <1>5. CASE Settle(a)
    <2>1. job' \in [Sends -> JobRow]
      <3>1. PICK to \in {"done", "waiting", "dead"} : job' = [job EXCEPT ![a].state = to]
        BY <1>5, RetriedType DEF Settle
      <3> QED
        BY <3>1, JobWrites DEF JobState
    <2> QED
      BY <1>0, <1>5, <2>1, RowsTyped DEF Settle, handlerVars, TypeOK
  <1> QED
    BY <1>1, <1>2, <1>3, <1>4, <1>5 DEF WorkerStep

LEMMA CloseTyped ==
    ASSUME TypeOK, NEW d \in Documents, Close(d)
    PROVE  TypeOK'
  BY DEF TypeOK, Close, mailVars

LEMMA CrashTyped ==
    ASSUME TypeOK, Crash
    PROVE  TypeOK'
  <1>1. CASE Sends = {}
    BY <1>1, CrashAssumption DEF TypeOK, Crash
  <1>2. CASE Sends # {}
    <2>1. send' \in [Sends -> SendRow] /\ job' \in [Sends -> JobRow]
      BY <1>2, CrashWrites
    <2>2. /\ unlearnt \in [Sends -> Nat] /\ disturbed \subseteq Documents
          /\ crashes \in 0 .. MaxCrashes
      BY DEF TypeOK
    <2>3. /\ unlearnt' = [a \in Sends |-> IF job[a].state \in InWorker THEN unlearnt[a] + 1
                                          ELSE unlearnt[a]]
          /\ disturbed' = disturbed \cup {d \in Documents : InFlight(d) # {}}
          /\ crashes < MaxCrashes /\ crashes' = crashes + 1
      BY Zenon DEF Crash
    <2>4. unlearnt' \in [Sends -> Nat]
      BY <2>2, <2>3
    <2>5. disturbed' \subseteq Documents /\ crashes' \in 0 .. MaxCrashes
      BY <2>2, <2>3, CrashAssumption
    <2> QED
      BY <2>1, <2>4, <2>5, RowsTyped DEF Crash, TypeOK
  <1> QED
    BY <1>1, <1>2

-----------------------------------------------------------------------------
(* One send at a time.                                                     *)

OneSendOK(a) == SendOK(a) /\ CopiesOK(a) /\ AnswerOK(a)

\* A step of a touches the rows of the other sends only to revoke an active link.
OthersKept(a) ==
    \A b \in Sends \ {a} :
        /\ send'[b] = send[b] /\ job'[b] = job[b] /\ mailLog'[b] = mailLog[b]
        /\ accepted'[b] = accepted[b] /\ unlearnt'[b] = unlearnt[b]
        /\ token[b] = "none" => token'[b] = "none"

LEMMA OneSendSuffices ==
    ASSUME SendsOK, NEW a \in Sends, OthersKept(a), OneSendOK(a)'
    PROVE  SendsOK'
  <1> SUFFICES ASSUME NEW b \in Sends, b # a
               PROVE  OneSendOK(b)'
    BY DEF SendsOK, OneSendOK
  <1>1. OneSendOK(b)
    BY DEF SendsOK, OneSendOK
  <1>2. /\ send'[b] = send[b] /\ job'[b] = job[b] /\ mailLog'[b] = mailLog[b]
        /\ accepted'[b] = accepted[b] /\ unlearnt'[b] = unlearnt[b]
        /\ token[b] = "none" => token'[b] = "none"
    BY DEF OthersKept
  <1> QED
    BY <1>1, <1>2 DEF OneSendOK, SendOK, CopiesOK, AnswerOK

LEMMA Counts ==
    ASSUME TypeOK, NEW a \in Sends
    PROVE  accepted[a] \in Nat /\ unlearnt[a] \in Nat /\ job[a].state \in JobState
  <1>1. accepted \in [Sends -> Nat] /\ unlearnt \in [Sends -> Nat]
    BY DEF TypeOK
  <1>2. job \in [Sends -> JobRow]
    BY Rows
  <1> QED
    BY <1>1, <1>2 DEF JobRow

LEMMA HandlerOK ==
    ASSUME TypeOK, SendsOK, NEW a \in Sends, Begin(a) \/ HandlerStep(a)
    PROVE  SendsOK'
  <1>0. OneSendOK(a) /\ accepted[a] \in Nat /\ unlearnt[a] \in Nat
    BY Counts DEF SendsOK, OneSendOK
  <1>00. token \in [Sends -> {"none", "active", "revoked"}] /\ mailLog \in [Sends -> {"none", "queued", "sent", "failed"}]
         /\ accepted \in [Sends -> Nat]
    BY DEF TypeOK
  <1> USE DEF OneSendOK, SendOK, CopiesOK, AnswerOK
  <1>1. CASE Begin(a)
    <2>1. PICK d \in Documents :
             /\ \A b \in Sends : b # a => send'[b] = send[b]
             /\ send'[a].document = d /\ send'[a].pc \in {"marking", "recipient"}
      BY <1>1, BeginWrites
    <2>2. /\ send[a].pc = "none"
          /\ UNCHANGED <<job, token, mailLog, accepted, unlearnt>>
      BY <1>1 DEF Begin, mailVars
    <2>3. OneSendOK(a)'
      BY <1>0, <2>1, <2>2, NoneAssumption DEF Unsent, Unlinked
    <2>4. OthersKept(a)
      BY <2>1, <2>2 DEF OthersKept
    <2> QED
      BY <2>3, <2>4, OneSendSuffices
  <1>2. CASE MarkRead(a)
    <2>1. PICK pc \in {"writing", "threw"} : Goto(a, pc)
      BY <1>2 DEF MarkRead
    <2>2. OnlyPc(a, pc)
      BY <2>1, GotoWrites DEF Pc, InHandler
    <2>3. /\ send[a].pc = "marking"
          /\ UNCHANGED <<job, token, mailLog, accepted, unlearnt>>
      BY <1>2 DEF MarkRead, mailVars
    <2>4. OneSendOK(a)'
      BY <1>0, <2>2, <2>3 DEF OnlyPc, Unsent, Unlinked
    <2>5. OthersKept(a)
      BY <2>2, <2>3 DEF OnlyPc, OthersKept
    <2> QED
      BY <2>4, <2>5, OneSendSuffices
  <1>3. CASE MarkWrite(a)
    <2>2. OnlyPc(a, "recipient")
      BY <1>3, GotoWrites DEF MarkWrite, Pc, InHandler
    <2>3. /\ send[a].pc = "writing"
          /\ UNCHANGED <<job, token, mailLog, accepted, unlearnt>>
      BY <1>3 DEF MarkWrite, mailVars
    <2>4. OneSendOK(a)'
      BY <1>0, <2>2, <2>3 DEF OnlyPc, Unsent, Unlinked
    <2>5. OthersKept(a)
      BY <2>2, <2>3 DEF OnlyPc, OthersKept
    <2> QED
      BY <2>4, <2>5, OneSendSuffices
  <1>4. CASE Revoke(a)
    <2>1. PICK pc \in {"threw", "log", "insert"} : Goto(a, pc)
      BY <1>4 DEF Revoke
    <2>2. OnlyPc(a, pc)
      BY <2>1, GotoWrites DEF Pc, InHandler
    <2>3. /\ send[a].pc = "recipient"
          /\ UNCHANGED <<job, mailLog, accepted, unlearnt>>
      BY <1>4 DEF Revoke, mailVars
    <2>4. \A b \in Sends : token[b] = "none" => token'[b] = "none"
      BY <1>4 DEF Revoke, LinksReplaced
    <2>5. OneSendOK(a)'
      BY <1>0, <2>2, <2>3, <2>4 DEF OnlyPc, Unsent, Unlinked
    <2>6. OthersKept(a)
      BY <2>2, <2>3, <2>4 DEF OnlyPc, OthersKept
    <2> QED
      BY <2>5, <2>6, OneSendSuffices
  <1>5. CASE Insert(a)
    <2>1. PICK pc \in {"threw", "log"} : Goto(a, pc)
      BY <1>5 DEF Insert
    <2>2. OnlyPc(a, pc)
      BY <2>1, GotoWrites DEF Pc, InHandler
    <2>3. /\ send[a].pc = "insert"
          /\ UNCHANGED <<job, mailLog, accepted, unlearnt>>
      BY <1>5 DEF Insert, mailVars
    <2>4. \A b \in Sends : b # a => token'[b] = token[b]
      BY <1>00, <1>5 DEF Insert
    <2>5. OneSendOK(a)'
      BY <1>0, <2>2, <2>3 DEF OnlyPc, Unsent, Unlinked
    <2>6. OthersKept(a)
      BY <2>2, <2>3, <2>4 DEF OnlyPc, OthersKept
    <2> QED
      BY <2>5, <2>6, OneSendSuffices
  <1>6. CASE WriteLog(a)
    <2>2. OnlyPc(a, "hand")
      BY <1>6, GotoWrites DEF WriteLog, Pc, InHandler
    <2>3. /\ send[a].pc = "log"
          /\ UNCHANGED <<job, token, accepted, unlearnt>>
          /\ mailLog' = [mailLog EXCEPT ![a] = "queued"]
      BY <1>6 DEF WriteLog, mailVars
    <2>4. mailLog'[a] = "queued" /\ \A b \in Sends : b # a => mailLog'[b] = mailLog[b]
      BY <1>00, <2>3
    <2>5. OneSendOK(a)'
      BY <1>0, <2>2, <2>3, <2>4 DEF OnlyPc, Unsent, Unlinked
    <2>6. OthersKept(a)
      BY <2>2, <2>3, <2>4 DEF OnlyPc, OthersKept
    <2> QED
      BY <2>5, <2>6, OneSendSuffices
  <1>7. CASE Enqueue(a)
    <2>1. PICK pc \in {"threw", "done"} : Goto(a, pc)
      BY <1>7 DEF Enqueue
    <2>2. OnlyPc(a, pc)
      BY <2>1, GotoWrites DEF Pc, InHandler
    <2>3. /\ send[a].pc = "hand"
          /\ UNCHANGED <<token, mailLog, accepted, unlearnt>>
      BY <1>7 DEF Enqueue
    <2>4. /\ job'[a].state \in {"none", "waiting"}
          /\ \A b \in Sends : b # a => job'[b] = job[b]
      <3>1. CASE job' = [job EXCEPT ![a].state = "waiting"]
        BY <3>1, JobWrites DEF JobState
      <3>2. CASE UNCHANGED job
        BY <1>0, <2>3, <3>2 DEF Unsent
      <3> QED
        BY <1>7, <3>1, <3>2 DEF Enqueue
    <2>5. OneSendOK(a)'
      <3>1. accepted[a] = 0
        BY <1>0, <2>3 DEF Unsent
      <3>2. mailLog[a] # "sent"
        BY <1>0, <3>1
      <3> QED
        BY <1>0, <2>2, <2>3, <2>4, <3>1, <3>2 DEF OnlyPc, Unsent, Unlinked
    <2>6. OthersKept(a)
      BY <2>2, <2>3, <2>4 DEF OnlyPc, OthersKept
    <2> QED
      BY <2>5, <2>6, OneSendSuffices
  <1>8. CASE Text(a)
    <2>1. PICK answer \in {"ok", "refused", "lost"}, taken \in BOOLEAN :
             /\ answer = "ok" => taken
             /\ \A b \in Sends : b # a => send'[b] = send[b]
             /\ send'[a].document = send[a].document /\ send'[a].pc = "tell"
             /\ send'[a].answer = answer
             /\ accepted' = [accepted EXCEPT ![a] = IF taken THEN @ + 1 ELSE @]
      BY <1>8, TextWrites
    <2>2. /\ send[a].pc = "hand"
          /\ UNCHANGED <<job, token, mailLog, unlearnt>>
      BY <1>8 DEF Text, mailVars
    <2>3. /\ accepted'[a] = IF taken THEN accepted[a] + 1 ELSE accepted[a]
          /\ \A b \in Sends : b # a => accepted'[b] = accepted[b]
      BY <1>00, <2>1
    <2>4. accepted[a] = 0 /\ job[a].state = "none" /\ mailLog[a] # "sent"
      BY <1>0, <2>2 DEF Unsent
    <2>5. OneSendOK(a)'
      BY <1>0, <2>1, <2>2, <2>3, <2>4 DEF Unsent, Unlinked
    <2>6. OthersKept(a)
      BY <2>1, <2>2, <2>3 DEF OthersKept
    <2> QED
      BY <2>5, <2>6, OneSendSuffices
  <1>9. CASE TellText(a)
    <2>1. /\ \A b \in Sends : b # a => send'[b] = send[b]
          /\ send'[a].document = send[a].document /\ send'[a].pc \in {"done", "threw"}
      BY <1>9, TellTextWrites
    <2>2. /\ send[a].pc = "tell"
          /\ UNCHANGED <<job, token, accepted, unlearnt>>
          /\ mailLog' = [mailLog EXCEPT ![a] = Outcome(send[a].answer)]
      BY <1>9 DEF TellText, mailVars
    <2>3. /\ mailLog'[a] = Outcome(send[a].answer)
          /\ \A b \in Sends : b # a => mailLog'[b] = mailLog[b]
      BY <1>00, <2>2
    <2>4. OneSendOK(a)'
      BY <1>0, <2>1, <2>2, <2>3 DEF Outcome, Unsent, Unlinked
    <2>5. OthersKept(a)
      BY <2>1, <2>2, <2>3 DEF OthersKept
    <2> QED
      BY <2>4, <2>5, OneSendSuffices
  <1> QED
    BY <1>1, <1>2, <1>3, <1>4, <1>5, <1>6, <1>7, <1>8, <1>9 DEF HandlerStep

\* A worker leaves the handler alone, which has let go of the message.
LEMMA WorkerOK ==
    ASSUME TypeOK, SendsOK, NEW a \in Sends, WorkerStep(a)
    PROVE  SendsOK'
  <1>0. OneSendOK(a) /\ accepted[a] \in Nat /\ unlearnt[a] \in Nat
    BY Counts DEF SendsOK, OneSendOK
  <1>00. /\ accepted \in [Sends -> Nat] /\ unlearnt \in [Sends -> Nat]
         /\ mailLog \in [Sends -> {"none", "queued", "sent", "failed"}]
    BY DEF TypeOK
  <1>1. UNCHANGED <<send, token>>
    BY DEF WorkerStep, Take, Post, Conclude, Skip, Settle, handlerVars
  <1>2. job[a].state # "none"
    BY DEF WorkerStep, Take, Post, Conclude, Skip, Settle
  <1>3. send[a].pc \notin Unsent /\ send[a].pc # "tell"
    BY <1>0, <1>2 DEF OneSendOK, SendOK
  <1>4. SendOK(a)'
    BY <1>0, <1>1, <1>3 DEF OneSendOK, SendOK, Unsent, Unlinked
  <1> USE DEF OneSendOK, CopiesOK, AnswerOK
  <1>5. CASE Take(a)
    <2>1. /\ job'[a].state = "posting" /\ \A b \in Sends : b # a => job'[b] = job[b]
      BY <1>5, TakeWrites
    <2>2. job[a].state = "waiting" /\ UNCHANGED <<mailLog, accepted, unlearnt>>
      BY <1>5 DEF Take
    <2>3. OneSendOK(a)'
      BY <1>0, <1>1, <1>4, <2>1, <2>2
    <2>4. OthersKept(a)
      BY <1>1, <2>1, <2>2 DEF OthersKept
    <2> QED
      BY <2>3, <2>4, OneSendSuffices
  <1>6. CASE Post(a)
    <2>1. PICK answer \in {"ok", "refused", "lost"}, taken \in BOOLEAN :
             /\ Answered(a, answer, taken)
             /\ job' = [job EXCEPT ![a].state = answer]
             /\ unlearnt' = [unlearnt EXCEPT ![a] = IF answer = "lost" THEN @ + 1 ELSE @]
      BY <1>6 DEF Post
    <2>2. /\ job'[a].state = answer /\ \A b \in Sends : b # a => job'[b] = job[b]
      BY <2>1, JobWrites DEF JobState, InWorker
    <2>3. /\ answer = "ok" => taken
          /\ answer = "refused" => ~ taken
          /\ accepted' = [accepted EXCEPT ![a] = IF taken THEN @ + 1 ELSE @]
      BY <2>1 DEF Answered
    <2>4. /\ accepted'[a] = IF taken THEN accepted[a] + 1 ELSE accepted[a]
          /\ unlearnt'[a] = IF answer = "lost" THEN unlearnt[a] + 1 ELSE unlearnt[a]
          /\ \A b \in Sends : b # a => accepted'[b] = accepted[b] /\ unlearnt'[b] = unlearnt[b]
      BY <1>00, <2>1, <2>3
    <2>5. job[a].state = "posting" /\ UNCHANGED mailLog
      BY <1>6 DEF Post
    <2>6. accepted[a] <= unlearnt[a]
      BY <1>0, <2>5
    <2>7. CopiesOK(a)'
      BY <1>0, <2>2, <2>3, <2>4, <2>6
    <2>8. AnswerOK(a)'
      BY <1>0, <1>1, <1>3, <2>2, <2>3, <2>4, <2>5
    <2>9. OthersKept(a)
      BY <1>1, <2>2, <2>4, <2>5 DEF OthersKept
    <2> QED
      BY <1>4, <2>7, <2>8, <2>9, OneSendSuffices
  <1>7. CASE Conclude(a)
    <2>1. /\ job'[a].state = AfterAnswer(a) /\ \A b \in Sends : b # a => job'[b] = job[b]
      BY <1>7, JobWrites, RetriedType DEF Conclude, JobState, InWorker
    <2>2. /\ job[a].state \in {"ok", "refused", "lost"}
          /\ UNCHANGED <<accepted, unlearnt>> /\ Tell(a, Outcome(job[a].state))
      BY <1>7 DEF Conclude
    <2>3. /\ mailLog'[a] = mailLog[a] \/ mailLog'[a] = Outcome(job[a].state)
          /\ \A b \in Sends : b # a => mailLog'[b] = mailLog[b]
      BY <1>00, <2>2 DEF Tell
    <2>4. /\ job[a].state = "ok" => job'[a].state = "told"
          /\ job[a].state # "ok" => job'[a].state = "threw"
      BY <2>1, RetriedType DEF AfterAnswer
    <2>5. OneSendOK(a)'
      BY <1>0, <1>1, <1>4, <2>2, <2>3, <2>4 DEF Outcome
    <2>6. OthersKept(a)
      BY <1>1, <2>1, <2>2, <2>3 DEF OthersKept
    <2> QED
      BY <2>5, <2>6, OneSendSuffices
  <1>8. CASE Skip(a)
    <2>1. /\ job'[a].state = "told" /\ \A b \in Sends : b # a => job'[b] = job[b]
      BY <1>8, JobWrites DEF Skip, JobState, InWorker
    <2>2. /\ job[a].state = "posting"
          /\ UNCHANGED <<accepted, unlearnt>> /\ Tell(a, "failed")
      BY <1>8 DEF Skip
    <2>3. /\ mailLog'[a] = mailLog[a] \/ mailLog'[a] = "failed"
          /\ \A b \in Sends : b # a => mailLog'[b] = mailLog[b]
      BY <1>00, <2>2 DEF Tell
    <2>4. OneSendOK(a)'
      BY <1>0, <1>1, <1>4, <2>1, <2>2, <2>3
    <2>5. OthersKept(a)
      BY <1>1, <2>1, <2>2, <2>3 DEF OthersKept
    <2> QED
      BY <2>4, <2>5, OneSendSuffices
  <1>9. CASE Settle(a)
    <2>0. PICK to \in {"done", "waiting", "dead"} :
             /\ job' = [job EXCEPT ![a].state = to]
             /\ job[a].state = "told" => to = "done"
             /\ job[a].state # "told" => to # "done"
      BY <1>9, RetriedType DEF Settle
    <2>1. /\ job'[a].state = to /\ \A b \in Sends : b # a => job'[b] = job[b]
      BY <2>0, JobWrites DEF JobState
    <2>2. job[a].state \in {"told", "threw"} /\ UNCHANGED <<mailLog, accepted, unlearnt>>
      BY <1>9 DEF Settle
    <2>3. OneSendOK(a)'
      BY <1>0, <1>1, <1>4, <2>0, <2>1, <2>2
    <2>4. OthersKept(a)
      BY <1>1, <2>1, <2>2 DEF OthersKept
    <2> QED
      BY <2>3, <2>4, OneSendSuffices
  <1> QED
    BY <1>5, <1>6, <1>7, <1>8, <1>9 DEF WorkerStep

\* A crash takes back what a worker held: the copy it may stand for is one more unlearnt.
LEMMA CrashOK ==
    ASSUME TypeOK, SendsOK, Crash
    PROVE  SendsOK'
  <1> SUFFICES ASSUME NEW a \in Sends
               PROVE  OneSendOK(a)'
    BY DEF SendsOK, OneSendOK
  <1>0. OneSendOK(a) /\ accepted[a] \in Nat /\ unlearnt[a] \in Nat
    BY Counts DEF SendsOK, OneSendOK
  <1>1. /\ send'[a].document = send[a].document
        /\ send'[a].pc = IF send[a].pc \in InHandler THEN "threw" ELSE send[a].pc
        /\ job'[a].state = IF job[a].state \in InWorker THEN Retried(a) ELSE job[a].state
    BY CrashWrites
  <1>2. /\ unlearnt' = [b \in Sends |-> IF job[b].state \in InWorker THEN unlearnt[b] + 1 ELSE unlearnt[b]]
        /\ UNCHANGED <<token, mailLog, accepted>>
    BY Zenon DEF Crash
  <1>3. unlearnt'[a] = IF job[a].state \in InWorker THEN unlearnt[a] + 1 ELSE unlearnt[a]
    BY <1>2
  <1>4. SendOK(a)'
    BY <1>0, <1>1, <1>2 DEF OneSendOK, SendOK, Unsent, Unlinked, InHandler, InWorker
  <1>5. CopiesOK(a)'
    BY <1>0, <1>1, <1>2, <1>3, RetriedType DEF OneSendOK, CopiesOK, InWorker
  <1>6. AnswerOK(a)'
    BY <1>0, <1>1, <1>2, RetriedType DEF OneSendOK, AnswerOK, InHandler, InWorker
  <1> QED
    BY <1>4, <1>5, <1>6 DEF OneSendOK

LEMMA CloseOK ==
    ASSUME SendsOK, NEW d \in Documents, Close(d)
    PROVE  SendsOK'
  BY DEF Close, mailVars, SendsOK, SendOK, CopiesOK, AnswerOK

-----------------------------------------------------------------------------
(* The links of a document.                                                *)

LEMMA InFlightIs ==
    ASSUME NEW d \in Documents, NEW a \in Sends
    PROVE  a \in InFlight(d) <=> send[a].document = d /\ send[a].pc \in InHandler
  BY DEF InFlight, SendsOf

LEMMA LastIsSend ==
    ASSUME TypeOK, NEW d \in Documents, last[d] # 0
    PROVE  last[d] \in Sends
  <1>1. last \in [Documents -> 0 .. MaxSends]
    BY DEF TypeOK
  <1> QED
    BY <1>1, SendsAssumption DEF Sends

\* A step of a send of another document leaves the links of this one alone.
LEMMA LinkElsewhere ==
    ASSUME TypeOK, NEW d \in Documents, LinkOK(d), NEW a \in Sends,
           \A b \in Sends : b # a => send'[b] = send[b],
           send[a].document # d, send'[a].document # d,
           \A b \in Sends : send[b].document = d => token'[b] = token[b],
           last'[d] = last[d]
    PROVE  LinkOK(d)'
  <1>1. \A b \in Sends : b \in InFlight(d)' <=> b \in InFlight(d)
    BY DEF InFlight, SendsOf
  <1>2. \A b \in InFlight(d) : b \in Sends /\ send[b].document = d /\ send'[b] = send[b]
    BY DEF InFlight, SendsOf
  <1>3. InFlight(d)' = InFlight(d)
    BY <1>1 DEF InFlight, SendsOf
  <1>4. last[d] # 0 => /\ last[d] \in Sends /\ send[last[d]].document = d
                       /\ send'[last[d]] = send[last[d]]
                       /\ token'[last[d]] = token[last[d]]
    BY LastIsSend DEF LinkOK
  <1> QED
    BY <1>2, <1>3, <1>4 DEF LinkOK

\* A step of the only send of the document that is in flight.
LEMMA LinkHere ==
    ASSUME TypeOK, NEW d \in Documents, LinkOK(d), NEW a \in Sends,
           \A b \in Sends : b # a => send'[b] = send[b],
           send[a].document = d, send'[a].document = d, send[a].pc \in InHandler,
           last'[d] = last[d] \/ last'[d] = a,
           send'[a].pc \in InHandler => token'[a] # "revoked",
           send'[a].pc = "tell" => last'[d] = a,
           last'[d] # 0 /\ send'[a].pc \notin Replacing => token'[last'[d]] # "revoked"
    PROVE  LinkOK(d)'
  <1>1. a \in InFlight(d)
    BY InFlightIs
  <1>2. \A b \in InFlight(d)' : b = a
    <2> SUFFICES ASSUME NEW b \in Sends, b # a, b \in InFlight(d)'
                 PROVE  FALSE
      BY DEF InFlight, SendsOf
    <2>1. b \in InFlight(d)
      BY DEF InFlight, SendsOf
    <2> QED
      BY <1>1, <2>1 DEF LinkOK
  <1>3. a \in InFlight(d)' <=> send'[a].pc \in InHandler
    BY DEF InFlight, SendsOf
  <1>4. last'[d] # 0 => send'[last'[d]].document = d
    BY LastIsSend DEF LinkOK
  <1>5. send'[a].pc \in Replacing => send'[a].pc \in InHandler
    BY DEF Replacing, InHandler
  <1> QED
    BY <1>2, <1>3, <1>4, <1>5 DEF LinkOK

\* The link of the sends of a document that are in flight is the newest.
LEMMA OwnLink ==
    ASSUME TypeOK, NEW d \in Documents, LinkOK(d), NEW a \in Sends,
           send[a].document = d, send[a].pc \in InHandler
    PROVE  /\ token[a] # "revoked"
           /\ send[a].pc = "tell" => last[d] = a
           /\ last[d] # 0 /\ send[a].pc \notin Replacing => token[last[d]] # "revoked"
  <1>1. a \in InFlight(d)
    BY InFlightIs
  <1>2. \A b \in InFlight(d) : b = a
    BY <1>1 DEF LinkOK
  <1> QED
    BY <1>1, <1>2 DEF LinkOK

LEMMA HandlerLinks ==
    ASSUME TypeOK, SendsOK, LinksOK, NEW a \in Sends, Begin(a) \/ HandlerStep(a)
    PROVE  LinksOK'
  <1> SUFFICES ASSUME NEW d \in Documents, d \notin disturbed'
               PROVE  LinkOK(d)'
    BY DEF LinksOK
  <1>0. SendOK(a)
    BY DEF SendsOK
  <1>00. /\ token \in [Sends -> {"none", "active", "revoked"}]
         /\ last \in [Documents -> 0 .. MaxSends]
    BY DEF TypeOK
  <1>1. CASE Begin(a)
    <2>1. PICK e \in Documents :
             /\ \A b \in Sends : b # a => send'[b] = send[b]
             /\ send'[a].document = e /\ send'[a].pc \in {"marking", "recipient"}
             /\ disturbed' = IF InFlight(e) = {} THEN disturbed ELSE disturbed \cup {e}
      BY <1>1, BeginWrites
    <2>2. LinkOK(d) /\ (d = e => InFlight(d) = {})
      BY <2>1 DEF LinksOK
    <2>3. send[a].pc = "none" /\ UNCHANGED <<token, last>>
      BY <1>1 DEF Begin
    <2>4. send[a].document # d /\ token[a] = "none"
      BY <1>0, <2>3, NoneAssumption DEF SendOK, Unlinked
    <2>5. CASE d # e
      BY <2>1, <2>2, <2>3, <2>4, <2>5, LinkElsewhere
    <2>6. CASE d = e
      <3>1. InFlight(d) = {}
        BY <2>2, <2>6
      <3>2. \A b \in InFlight(d)' : b = a
        <4> SUFFICES ASSUME NEW b \in Sends, b # a, b \in InFlight(d)'
                     PROVE  FALSE
          BY DEF InFlight, SendsOf
        <4>1. b \in InFlight(d)
          BY <2>1 DEF InFlight, SendsOf
        <4> QED
          BY <3>1, <4>1
      <3>3. last[d] # 0 => /\ last[d] \in Sends /\ last[d] # a
                           /\ send[last[d]].document = d
                           /\ token[last[d]] # "revoked"
        BY <2>2, <2>4, <3>1, LastIsSend DEF LinkOK
      <3>4. last'[d] # 0 => send'[last'[d]].document = d /\ token'[last'[d]] # "revoked"
        BY <2>1, <2>3, <3>3
      <3> QED
        BY <2>1, <2>3, <2>4, <3>2, <3>4 DEF LinkOK
    <2> QED
      BY <2>5, <2>6
  <1>2. CASE HandlerStep(a)
    <2>0. send[a].pc \in InHandler
      BY <1>2 DEF HandlerStep, MarkRead, MarkWrite, Revoke, Insert, WriteLog, Enqueue, Text,
                  TellText, InHandler
    <2>1. disturbed \subseteq disturbed'
      BY <1>2, Zenon DEF HandlerStep, MarkRead, MarkWrite, Revoke, Insert, WriteLog, Enqueue, Text,
                  TellText
    <2>2. LinkOK(d)
      BY <2>1 DEF LinksOK
    <2>3. ASSUME NEW pc \in Pc, Goto(a, pc)
          PROVE  /\ \A b \in Sends : b # a => send'[b] = send[b]
                 /\ send'[a].document = send[a].document /\ send'[a].pc = pc
      BY <2>3, GotoWrites DEF OnlyPc
    <2> DEFINE e == send[a].document
    <2>4. e = d => /\ token[a] # "revoked"
                   /\ send[a].pc = "tell" => last[d] = a
                   /\ last[d] # 0 /\ send[a].pc \notin Replacing => token[last[d]] # "revoked"
      BY <2>0, <2>2, OwnLink
    <2>5. CASE MarkRead(a)
      <3>1. PICK pc \in {"writing", "threw"} : Goto(a, pc)
        BY <2>5 DEF MarkRead
      <3>2. /\ \A b \in Sends : b # a => send'[b] = send[b]
            /\ send'[a].document = send[a].document /\ send'[a].pc = pc
        BY <2>3, <3>1 DEF Pc, InHandler
      <3>3. send[a].pc = "marking" /\ UNCHANGED <<token, last>>
        BY <2>5 DEF MarkRead
      <3>4. CASE e # d
        BY <2>2, <3>2, <3>3, <3>4, LinkElsewhere
      <3>5. CASE e = d
        BY <2>0, <2>2, <2>4, <3>2, <3>3, <3>5, LinkHere DEF Replacing
      <3> QED
        BY <3>4, <3>5
    <2>6. CASE MarkWrite(a)
      <3>2. /\ \A b \in Sends : b # a => send'[b] = send[b]
            /\ send'[a].document = send[a].document /\ send'[a].pc = "recipient"
        BY <2>3, <2>6 DEF MarkWrite, Pc, InHandler
      <3>3. send[a].pc = "writing" /\ UNCHANGED <<token, last>>
        BY <2>6 DEF MarkWrite
      <3>4. CASE e # d
        BY <2>2, <3>2, <3>3, <3>4, LinkElsewhere
      <3>5. CASE e = d
        BY <2>0, <2>2, <2>4, <3>2, <3>3, <3>5, LinkHere DEF Replacing
      <3> QED
        BY <3>4, <3>5
    <2>7. CASE Revoke(a)
      <3>1. PICK pc \in {"threw", "log", "insert"} : /\ Goto(a, pc)
                                                     /\ pc = "threw" => UNCHANGED token
        BY <2>7 DEF Revoke
      <3>2. /\ \A b \in Sends : b # a => send'[b] = send[b]
            /\ send'[a].document = send[a].document /\ send'[a].pc = pc
        BY <2>3, <3>1 DEF Pc, InHandler
      <3>3. send[a].pc = "recipient" /\ UNCHANGED last
        BY <2>7 DEF Revoke
      <3>4. token[a] = "none"
        BY <1>0, <3>3 DEF SendOK, Unlinked
      <3>5. \A b \in Sends : token'[b] = token[b] \/ (b \in LinksReplaced(e) /\ token[b] = "active")
        BY <2>7 DEF Revoke, LinksReplaced
      <3>6. CASE e # d
        <4>1. \A b \in Sends : send[b].document = d => token'[b] = token[b]
          BY <3>5, <3>6 DEF LinksReplaced, SendsOf
        <4> QED
          BY <2>2, <3>2, <3>3, <3>6, <4>1, LinkElsewhere
      <3>7. CASE e = d
        <4>1. token'[a] = "none"
          BY <3>4, <3>5
        <4>2. last'[d] # 0 /\ pc \notin Replacing => token'[last'[d]] # "revoked"
          BY <2>4, <3>1, <3>3, <3>7 DEF Replacing
        <4> QED
          BY <2>0, <2>2, <3>1, <3>2, <3>3, <3>7, <4>1, <4>2, LinkHere
      <3> QED
        BY <3>6, <3>7
    <2>8. CASE Insert(a)
      <3>1. PICK pc \in {"threw", "log"} : /\ Goto(a, pc)
                                           /\ pc = "threw" => disturbed' = disturbed \cup {e}
        BY <2>8 DEF Insert
      <3>2. /\ \A b \in Sends : b # a => send'[b] = send[b]
            /\ send'[a].document = send[a].document /\ send'[a].pc = pc
        BY <2>3, <3>1 DEF Pc, InHandler
      <3>3. send[a].pc = "insert" /\ UNCHANGED last
        BY <2>8 DEF Insert
      <3>4. /\ \A b \in Sends : b # a => token'[b] = token[b]
            /\ token'[a] \in {"none", "active"}
        BY <1>0, <1>00, <2>8, <3>3 DEF Insert, SendOK, Unlinked
      <3>6. CASE e # d
        <4>1. \A b \in Sends : send[b].document = d => token'[b] = token[b]
          BY <3>4, <3>6
        <4> QED
          BY <2>2, <3>2, <3>3, <3>6, <4>1, LinkElsewhere
      <3>7. CASE e = d
        <4>1. pc = "log"
          BY <3>1, <3>7
        <4> QED
          BY <2>0, <2>2, <3>2, <3>3, <3>4, <3>7, <4>1, LinkHere DEF Replacing
      <3> QED
        BY <3>6, <3>7
    <2>9. CASE WriteLog(a)
      <3>2. /\ \A b \in Sends : b # a => send'[b] = send[b]
            /\ send'[a].document = send[a].document /\ send'[a].pc = "hand"
        BY <2>3, <2>9 DEF WriteLog, Pc, InHandler
      <3>3. UNCHANGED <<token, last>>
        BY <2>9 DEF WriteLog
      <3>4. CASE e # d
        BY <2>2, <3>2, <3>3, <3>4, LinkElsewhere
      <3>5. CASE e = d
        BY <2>0, <2>2, <2>4, <3>2, <3>3, <3>5, LinkHere DEF Replacing
      <3> QED
        BY <3>4, <3>5
    <2>10. CASE Enqueue(a)
      <3>1. PICK pc \in {"threw", "done"} :
               /\ Goto(a, pc)
               /\ pc = "threw" => disturbed' = disturbed \cup {e} /\ UNCHANGED last
               /\ pc = "done" => last' = [last EXCEPT ![e] = a]
        BY <2>10 DEF Enqueue
      <3>2. /\ \A b \in Sends : b # a => send'[b] = send[b]
            /\ send'[a].document = send[a].document /\ send'[a].pc = pc
        BY <2>3, <3>1 DEF Pc, InHandler
      <3>3. UNCHANGED token
        BY <2>10 DEF Enqueue
      <3>4. CASE e # d
        <4>1. last'[d] = last[d]
          BY <1>00, <3>1, <3>4
        <4> QED
          BY <2>2, <3>2, <3>3, <3>4, <4>1, LinkElsewhere
      <3>5. CASE e = d
        <4>1. pc = "done" /\ last'[d] = a
          BY <1>00, <3>1, <3>5
        <4> QED
          BY <2>0, <2>2, <2>4, <3>2, <3>3, <3>5, <4>1, LinkHere
      <3> QED
        BY <3>4, <3>5
    <2>11. CASE Text(a)
      <3>1. PICK taken \in BOOLEAN :
               /\ \A b \in Sends : b # a => send'[b] = send[b]
               /\ send'[a].document = send[a].document /\ send'[a].pc = "tell"
               /\ IF taken THEN last' = [last EXCEPT ![e] = a] /\ UNCHANGED disturbed
                  ELSE disturbed' = disturbed \cup {e} /\ UNCHANGED last
        BY <2>11, TextWrites
      <3>3. UNCHANGED token
        BY <2>11 DEF Text
      <3>4. CASE e # d
        <4>1. last'[d] = last[d]
          BY <1>00, <3>1, <3>4
        <4> QED
          BY <2>2, <3>1, <3>3, <3>4, <4>1, LinkElsewhere
      <3>5. CASE e = d
        <4>1. last'[d] = a
          BY <1>00, <3>1, <3>5
        <4> QED
          BY <2>0, <2>2, <2>4, <3>1, <3>3, <3>5, <4>1, LinkHere
      <3> QED
        BY <3>4, <3>5
    <2>12. CASE TellText(a)
      <3>2. /\ \A b \in Sends : b # a => send'[b] = send[b]
            /\ send'[a].document = send[a].document /\ send'[a].pc \in {"done", "threw"}
        BY <2>12, TellTextWrites
      <3>3. send[a].pc = "tell" /\ UNCHANGED <<token, last>>
        BY <2>12 DEF TellText
      <3>4. CASE e # d
        BY <2>2, <3>2, <3>3, <3>4, LinkElsewhere
      <3>5. CASE e = d
        BY <2>0, <2>2, <2>4, <3>2, <3>3, <3>5, LinkHere DEF Replacing
      <3> QED
        BY <3>4, <3>5
    <2> QED
      BY <1>2, <2>5, <2>6, <2>7, <2>8, <2>9, <2>10, <2>11, <2>12 DEF HandlerStep
  <1> QED
    BY <1>1, <1>2

\* A crash disturbs the documents it cut a send of short.
LEMMA CrashLinks ==
    ASSUME TypeOK, LinksOK, Crash
    PROVE  LinksOK'
  <1>1. /\ disturbed' = disturbed \cup {d \in Documents : InFlight(d) # {}}
        /\ UNCHANGED <<token, last>>
    BY Zenon DEF Crash
  <1> SUFFICES ASSUME NEW d \in Documents, d \notin disturbed'
               PROVE  LinkOK(d)'
    BY DEF LinksOK
  <1>2. LinkOK(d) /\ InFlight(d) = {}
    BY <1>1 DEF LinksOK
  <1>3. \A a \in Sends : /\ send'[a].document = send[a].document
                         /\ send'[a].pc = IF send[a].pc \in InHandler THEN "threw" ELSE send[a].pc
    BY CrashWrites
  <1>4. InFlight(d)' = {}
    BY <1>3 DEF InFlight, SendsOf, InHandler
  <1>5. last[d] # 0 => /\ last[d] \in Sends /\ send[last[d]].document = d
                       /\ token[last[d]] # "revoked"
    BY <1>2, LastIsSend DEF LinkOK
  <1> QED
    BY <1>1, <1>3, <1>4, <1>5 DEF LinkOK

LEMMA LinksUntouched ==
    ASSUME LinksOK, UNCHANGED <<send, token, last, disturbed>>
    PROVE  LinksOK'
  BY DEF LinksOK, LinkOK, InFlight, SendsOf

-----------------------------------------------------------------------------
(* The invariant.                                                          *)

LEMMA InitOK == Init => IInv
  <1> SUFFICES ASSUME Init
               PROVE  IInv
    OBVIOUS
  <1>1. \A a \in Sends : /\ send[a].pc = "none" /\ send[a].document = None
                         /\ token[a] = "none" /\ mailLog[a] = "none" /\ job[a].state = "none"
                         /\ accepted[a] = 0 /\ unlearnt[a] = 0
    BY DEF Init
  <1>2. SendsOK
    BY <1>1 DEF SendsOK, SendOK, CopiesOK, AnswerOK, Unsent
  <1>3. \A d \in Documents : last[d] = 0 /\ InFlight(d) = {}
    BY <1>1 DEF Init, InFlight, SendsOf, InHandler
  <1>4. LinksOK
    BY <1>3 DEF LinksOK, LinkOK
  <1> QED
    BY <1>2, <1>4, InitTyped DEF IInv

LEMMA StepOK == IInv /\ [Next]_vars => IInv'
  <1> SUFFICES ASSUME IInv, [Next]_vars
               PROVE  IInv'
    OBVIOUS
  <1>0. TypeOK /\ SendsOK /\ LinksOK
    BY DEF IInv
  <1>1. ASSUME NEW a \in Sends, Begin(a) \/ HandlerStep(a) PROVE IInv'
    <2>1. SendOK(a)
      BY <1>0 DEF SendsOK
    <2> QED
      BY <1>0, <1>1, <2>1, HandlerTyped, HandlerOK, HandlerLinks DEF IInv
  <1>2. ASSUME NEW a \in Sends, WorkerStep(a) PROVE IInv'
    <2>1. UNCHANGED <<send, token, last, disturbed>>
      BY <1>2 DEF WorkerStep, Take, Post, Conclude, Skip, Settle, handlerVars
    <2> QED
      BY <1>0, <1>2, <2>1, WorkerTyped, WorkerOK, LinksUntouched DEF IInv
  <1>3. ASSUME NEW d \in Documents, Close(d) PROVE IInv'
    <2>1. UNCHANGED <<send, token, last, disturbed>>
      BY <1>3 DEF Close
    <2> QED
      BY <1>0, <1>3, <2>1, CloseTyped, CloseOK, LinksUntouched DEF IInv
  <1>4. CASE Crash
    BY <1>0, <1>4, CrashTyped, CrashOK, CrashLinks DEF IInv
  <1>5. CASE UNCHANGED vars
    BY <1>0, <1>5 DEF vars, IInv, TypeOK, SendsOK, SendOK, CopiesOK, AnswerOK, LinksOK, LinkOK,
                      InFlight, SendsOf
  <1> QED
    BY <1>1, <1>2, <1>3, <1>4, <1>5 DEF Next

\* In every reachable state the variables have their types and the rows of every
\* send, of every document, agree: sendEmail, sendSms and the mail worker.
THEOREM Invariant == Spec => []IInv
  BY InitOK, StepOK, PTL DEF Spec

\* Every variable of the handlers, of the queue and of the worker keeps its type,
\* attempts and crashes within their bounds.
THEOREM Types == Spec => []TypeOK
  BY Invariant, PTL DEF IInv

\* The email_log says 'sent' only of a message a provider took, whatever is
\* refused, lost, retried or cut short by a crash (MailProcessor, SmsService).
THEOREM SentIsTrue == Spec => []SentWasAccepted
  <1>1. IInv => SentWasAccepted
    BY DEF IInv, SendsOK, AnswerOK, SentWasAccepted
  <1> QED
    BY <1>1, Invariant, PTL

\* A provider takes one copy of a message, and at most one more for each answer that
\* was lost and each worker that died with its job: the retries of the mail queue.
THEOREM CopiesExplained == Spec => []ExtraCopiesExplained
  <1>1. IInv => ExtraCopiesExplained
    <2> SUFFICES ASSUME IInv, NEW a \in Sends
                 PROVE  accepted[a] <= 1 + unlearnt[a]
      BY DEF ExtraCopiesExplained
    <2>1. /\ accepted[a] \in Nat /\ unlearnt[a] \in Nat /\ job[a].state \in JobState
          /\ CopiesOK(a)
      BY Counts DEF IInv, SendsOK
    <2> QED
      BY <2>1 DEF CopiesOK, JobState, InWorker
  <1> QED
    BY <1>1, Invariant, PTL

\* The link in the last message about a document works once its sends are over,
\* unless two of them overlapped or one failed after it had revoked the old link.
THEOREM LinkWorks == Spec => []LastLinkWorks
  <1>1. IInv => LastLinkWorks
    BY DEF IInv, LinksOK, LinkOK, LastLinkWorks
  <1> QED
    BY <1>1, Invariant, PTL

-----------------------------------------------------------------------------
(* The retries run out.  The rank of a job goes down with all that happens  *)
(* to it, and one that waits has an attempt left to be taken for: what      *)
(* remains of "whatever is queued is resolved" is that the worker goes on.  *)

Rank(row) ==
    CASE row.state = "none"                        -> 4 * MaxAttempts + 1
      [] row.state = "posting"                     -> 4 * (MaxAttempts - row.tries) + 3
      [] row.state \in {"ok", "refused", "lost"}   -> 4 * (MaxAttempts - row.tries) + 2
      [] row.state \in {"told", "threw"}           -> 4 * (MaxAttempts - row.tries) + 1
      [] row.state = "waiting"                     -> 4 * (MaxAttempts - row.tries)
      [] OTHER                                     -> 0

TriesLeft ==
    \A a \in Sends : job[a].state \in {"none", "waiting"} => job[a].tries < MaxAttempts

RetriesRunOut == \A a \in Sends : job'[a] # job[a] => Rank(job'[a]) < Rank(job[a])

\* What can happen to the row of a job.
JobStep(old, new) ==
    \/ old.state = "none" /\ new.state = "waiting" /\ new.tries = old.tries
    \/ old.state = "waiting" /\ new.state = "posting" /\ old.tries < MaxAttempts /\ new.tries = old.tries + 1
    \/ old.state = "posting" /\ new.state \in {"ok", "refused", "lost"} /\ new.tries = old.tries
    \/ /\ old.state \in {"posting", "ok", "refused", "lost"} /\ new.state \in {"told", "threw"}
       /\ new.tries = old.tries
    \/ /\ old.state \in InWorker /\ new.tries = old.tries
       /\ new.state \in {"done", "dead"} \/ (new.state = "waiting" /\ old.tries < MaxAttempts)

LEMMA JobStepRank ==
    ASSUME NEW old \in JobRow, NEW new \in JobRow, JobStep(old, new)
    PROVE  Rank(new) < Rank(old)
  <1>1. /\ MaxAttempts \in Nat /\ old.tries \in 0 .. MaxAttempts /\ new.tries \in 0 .. MaxAttempts
        /\ old.state \in JobState /\ new.state \in JobState
    BY AttemptAssumption DEF JobRow
  <1>2. CASE old.state = "none" /\ new.state = "waiting"
    BY <1>1, <1>2 DEF Rank
  <1>3. CASE old.state = "waiting" /\ new.state = "posting" /\ new.tries = old.tries + 1
    BY <1>1, <1>3 DEF Rank
  <1>4. CASE old.state = "posting" /\ new.state \in {"ok", "refused", "lost"} /\ new.tries = old.tries
    BY <1>1, <1>4 DEF Rank
  <1>5. CASE /\ old.state \in InWorker /\ new.tries = old.tries
             /\ new.state \in {"done", "dead", "waiting"}
    BY <1>1, <1>5 DEF Rank, InWorker
  <1>6. CASE /\ old.state \in {"posting", "ok", "refused", "lost"} /\ new.state \in {"told", "threw"}
             /\ new.tries = old.tries
    BY <1>1, <1>6 DEF Rank
  <1> QED
    BY <1>2, <1>3, <1>4, <1>5, <1>6 DEF JobStep

\* A write of the state leaves the attempts as they are.
LEMMA StateWrite ==
    ASSUME TypeOK, NEW a \in Sends, NEW state \in JobState, job' = [job EXCEPT ![a].state = state]
    PROVE  /\ job'[a].state = state /\ job'[a].tries = job[a].tries
           /\ \A b \in Sends : b # a => job'[b] = job[b]
  <1>1. job \in [Sends -> JobRow]
    BY Rows
  <1> QED
    BY <1>1 DEF JobRow

LEMMA WorkerJobStep ==
    ASSUME IInv, NEW a \in Sends, WorkerStep(a)
    PROVE  JobStep(job[a], job'[a]) /\ \A b \in Sends : b # a => job'[b] = job[b]
  <1>0. TypeOK /\ job \in [Sends -> JobRow]
    BY Rows DEF IInv
  <1>1. CASE Take(a)
    <2>1. job' = [job EXCEPT ![a] = [state |-> "posting", tries |-> job[a].tries + 1]]
      BY <1>1 DEF Take
    <2> QED
      BY <1>0, <1>1, <2>1 DEF JobStep, Take
  <1>2. CASE Post(a)
    <2>1. PICK answer \in {"ok", "refused", "lost"} : job' = [job EXCEPT ![a].state = answer]
      BY <1>2 DEF Post
    <2>2. answer \in JobState /\ job[a].state = "posting"
      BY <1>2 DEF Post, JobState, InWorker
    <2> QED
      BY <1>0, <2>1, <2>2, StateWrite DEF JobStep
  <1>3. CASE Conclude(a)
    <2>1. PICK to \in {"told", "threw"} : job' = [job EXCEPT ![a].state = to]
      BY <1>3, RetriedType DEF Conclude
    <2>2. to \in JobState /\ job[a].state \in {"ok", "refused", "lost"}
      BY <1>3 DEF Conclude, JobState, InWorker
    <2> QED
      BY <1>0, <2>1, <2>2, StateWrite DEF JobStep
  <1>4. CASE Skip(a)
    <2>1. "told" \in JobState /\ job[a].state = "posting" /\ job' = [job EXCEPT ![a].state = "told"]
      BY <1>4 DEF Skip, JobState, InWorker
    <2> QED
      BY <1>0, <2>1, StateWrite DEF JobStep
  <1>5. CASE Settle(a)
    <2>1. PICK to : /\ job' = [job EXCEPT ![a].state = to]
                    /\ to \in {"done", "dead"} \/ (to = "waiting" /\ job[a].tries < MaxAttempts)
      BY <1>5 DEF Settle, Retried
    <2>2. to \in JobState /\ job[a].state \in InWorker
      BY <1>5, <2>1 DEF Settle, JobState, InWorker
    <2> QED
      BY <1>0, <2>1, <2>2, StateWrite DEF JobStep
  <1> QED
    BY <1>1, <1>2, <1>3, <1>4, <1>5 DEF WorkerStep

LEMMA JobSteps ==
    ASSUME IInv, [Next]_vars, NEW a \in Sends
    PROVE  job'[a] = job[a] \/ JobStep(job[a], job'[a])
  <1>0. TypeOK /\ SendsOK /\ job \in [Sends -> JobRow]
    BY Rows DEF IInv
  <1>1. CASE UNCHANGED job
    BY <1>1
  <1>2. ASSUME NEW b \in Sends, Enqueue(b), job' # job
        PROVE  job'[a] = job[a] \/ JobStep(job[a], job'[a])
    <2>1. job' = [job EXCEPT ![b].state = "waiting"] /\ send[b].pc = "hand"
      BY <1>2 DEF Enqueue
    <2>2. job[b].state = "none" /\ "waiting" \in JobState
      BY <1>0, <2>1 DEF SendsOK, SendOK, Unsent, JobState
    <2> QED
      BY <1>0, <2>1, <2>2, StateWrite DEF JobStep
  <1>3. ASSUME NEW b \in Sends, WorkerStep(b)
        PROVE  job'[a] = job[a] \/ JobStep(job[a], job'[a])
    BY <1>3, WorkerJobStep
  <1>4. CASE Crash
    <2>1. job'[a] = IF job[a].state \in InWorker THEN [job[a] EXCEPT !.state = Retried(a)] ELSE job[a]
      BY <1>4 DEF Crash
    <2>2. CASE job[a].state \in InWorker
      <3> PICK to : to = Retried(a)
        OBVIOUS
      <3>1. to = "dead" \/ (to = "waiting" /\ job[a].tries < MaxAttempts)
        BY DEF Retried
      <3>2. job'[a].state = to /\ job'[a].tries = job[a].tries
        BY <1>0, <2>1, <2>2 DEF JobRow
      <3> QED
        BY <2>2, <3>1, <3>2 DEF JobStep
    <2> QED
      BY <2>1, <2>2
  <1>5. ASSUME NEW b \in Sends, Begin(b) \/ (HandlerStep(b) /\ ~ Enqueue(b))
        PROVE  UNCHANGED job
    BY <1>5 DEF Begin, HandlerStep, MarkRead, MarkWrite, Revoke, Insert, WriteLog, Text, TellText,
                mailVars
  <1>6. ASSUME (\E d \in Documents : Close(d)) \/ UNCHANGED vars
        PROVE  UNCHANGED job
    BY <1>6 DEF Close, mailVars, vars
  <1> QED
    BY <1>1, <1>2, <1>3, <1>4, <1>5, <1>6 DEF Next, HandlerStep

\* The retries of a message run out: all that happens to its job brings it nearer
\* its end, crashes of the worker included, and a job that waits has an attempt left,
\* so it is never stuck (the mail queue's attempts, MailProcessor.process).
THEOREM RetriesEnd == Spec => []TriesLeft /\ [][RetriesRunOut]_vars
  <1>1. Init => TriesLeft
    BY AttemptAssumption DEF Init, TriesLeft
  <1>2. IInv /\ TriesLeft /\ [Next]_vars => TriesLeft'
    <2> SUFFICES ASSUME IInv, TriesLeft, [Next]_vars, NEW a \in Sends,
                        job'[a].state \in {"none", "waiting"}
                 PROVE  job'[a].tries < MaxAttempts
      BY DEF TriesLeft
    <2>1. CASE job'[a] = job[a]
      BY <2>1 DEF TriesLeft
    <2>2. CASE JobStep(job[a], job'[a])
      BY <2>2 DEF JobStep, TriesLeft
    <2> QED
      BY <2>1, <2>2, JobSteps
  <1>3. IInv /\ IInv' /\ [Next]_vars => RetriesRunOut
    <2> SUFFICES ASSUME IInv, IInv', [Next]_vars, NEW a \in Sends, job'[a] # job[a]
                 PROVE  Rank(job'[a]) < Rank(job[a])
      BY DEF RetriesRunOut
    <2>1. job[a] \in JobRow /\ job'[a] \in JobRow
      BY Rows DEF IInv, TypeOK, JobRow
    <2> QED
      BY <2>1, JobSteps, JobStepRank
  <1> QED
    BY <1>1, <1>2, <1>3, Invariant, PTL DEF Spec

=============================================================================
