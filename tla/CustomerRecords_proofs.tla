------------------------ MODULE CustomerRecords_proofs ------------------------
(***************************************************************************)
(* Proofs about CustomerRecords, for any customers, emails, documents,     *)
(* payments, keys, amounts and number of handlers in flight.               *)
(*                                                                         *)
(* A handler decides on what it read in its own transaction or before it:  *)
(* that no customer has the email, that a key has no estimate, which rows  *)
(* belong to the customer it folds away, what a payment has been refunded  *)
(* and what a customer's payments come to.  Each of the four invariants    *)
(* says what of that is still so when the handler writes.                  *)
(***************************************************************************)
EXTENDS CustomerRecords, Amounts_proofs

-----------------------------------------------------------------------------
(***************************************************************************)
(* Shapes.  What a recount adds up is left open: N is any set with the     *)
(* lifetime values and totals of a state in it.                            *)
(***************************************************************************)
Phases == {"idle", "insert", "edit", "find", "quote", "conclude", "pay", "return",
           "move", "sum", "merge", "strike", "delete"}

CustomerRow(N) == [state : CustomerState, email : Emails \cup {None}, ltv : N]
DocRow     == [state : DocState, owner : Customers \cup {None}, key : Keys \cup {None}]
PaymentRow == [status : PaymentStatus, owner : Customers \cup {None}, docs : SUBSET Docs,
               amount : Nat, refunded : Nat]
Handler(N) ==
    [pc : Phases, on : SUBSET (Customers \cup {None}), c : Customers \cup {None}, dup : Customers \cup {None},
     docs : SUBSET Docs, pays : SUBSET Payments, amount : Nat,
     after : [status : PaymentStatus, refunded : Nat],
     total : N, email : Emails \cup {None}, key : Keys \cup {None}, knowing : BOOLEAN, clean : BOOLEAN]

Shapes(N) == customer \in [Customers -> CustomerRow(N)] /\ req \in [Requests -> Handler(N)]

Types ==
    /\ \E N : 0 \in N /\ Shapes(N)
    /\ doc \in [Docs -> DocRow] /\ payment \in [Payments -> PaymentRow]

\* What a handler carries of amounts.
SameMoney(r, s) == r.amount = s.amount /\ r.after = s.after /\ r.total = s.total

\* The handler of g is where it was, but perhaps for a conflict or a merge noted on it.
Onward(g) ==
    /\ req'[g].pc = req[g].pc /\ req'[g].c = req[g].c /\ req'[g].dup = req[g].dup
    /\ req'[g].docs = req[g].docs /\ req'[g].pays = req[g].pays
    /\ req'[g].email = req[g].email /\ req'[g].key = req[g].key
    /\ req'[g].knowing = req[g].knowing /\ (req'[g].clean => req[g].clean)
    /\ req[g].on \subseteq req'[g].on /\ SameMoney(req'[g], req[g])

\* The handler of h is r, but perhaps for a conflict noted on it.
Became(h, r) ==
    /\ req'[h].pc = r.pc /\ req'[h].c = r.c /\ req'[h].dup = r.dup
    /\ req'[h].docs = r.docs /\ req'[h].pays = r.pays
    /\ req'[h].email = r.email /\ req'[h].key = r.key
    /\ req'[h].knowing = r.knowing /\ (req'[h].clean => r.clean)
    /\ req'[h].on = r.on /\ SameMoney(req'[h], r)

\* The other handlers are on the same customers.
Steady(h) == \A g \in Requests \ {h} : req'[g].on = req[g].on

LEMMA IdleIsHandler == ASSUME NEW N, 0 \in N PROVE Idle \in Handler(N)
  BY DEF Idle, Handler, Phases, PaymentStatus

LEMMA EnterEffect ==
  ASSUME NEW N, req \in [Requests -> Handler(N)], NEW h \in Requests, NEW r \in Handler(N), Enter(h, r)
  PROVE  /\ req' \in [Requests -> Handler(N)]
         /\ Became(h, r) /\ Steady(h)
         /\ \A g \in Requests \ {h} : Onward(g) /\ (Conflict(r, req[g]) => ~ req'[g].clean /\ ~ req'[h].clean)
<1> DEFINE lone == ~ \E k \in Requests \ {h} : Conflict(r, req[k])
           own  == [r EXCEPT !.clean = @ /\ lone]
           seen(g) == [req[g] EXCEPT !.clean = FALSE]
<1>1. req' = [g \in Requests |-> IF g = h THEN own ELSE IF Conflict(r, req[g]) THEN seen(g) ELSE req[g]]
  BY DEF Enter
<1>2. own \in Handler(N) /\ \A g \in Requests : seen(g) \in Handler(N)
  BY DEF Handler
<1>3. /\ own.pc = r.pc /\ own.c = r.c /\ own.dup = r.dup /\ own.docs = r.docs /\ own.pays = r.pays
      /\ own.email = r.email /\ own.key = r.key /\ own.knowing = r.knowing
      /\ own.clean = (r.clean /\ lone) /\ own.on = r.on /\ SameMoney(own, r)
  BY DEF Handler, SameMoney
<1>4. ASSUME NEW g \in Requests
      PROVE  /\ seen(g).pc = req[g].pc /\ seen(g).c = req[g].c /\ seen(g).dup = req[g].dup
             /\ seen(g).docs = req[g].docs /\ seen(g).pays = req[g].pays
             /\ seen(g).email = req[g].email /\ seen(g).key = req[g].key /\ seen(g).knowing = req[g].knowing
             /\ seen(g).clean = FALSE /\ seen(g).on = req[g].on /\ SameMoney(seen(g), req[g])
  BY DEF Handler, SameMoney
<1> HIDE DEF own, seen
<1>5. req'[h] = own /\ \A g \in Requests \ {h} : req'[g] = IF Conflict(r, req[g]) THEN seen(g) ELSE req[g]
  BY <1>1
<1>6. req' \in [Requests -> Handler(N)]
  BY <1>1, <1>2
<1>7. Became(h, r)
  BY <1>3, <1>5 DEF Became
<1>8. ASSUME NEW g \in Requests \ {h} PROVE Onward(g) /\ req'[g].on = req[g].on
  <2>1. CASE req'[g] = seen(g)
    <3> PICK s : s = seen(g)
      OBVIOUS
    <3>1. /\ s.pc = req[g].pc /\ s.c = req[g].c /\ s.dup = req[g].dup /\ s.docs = req[g].docs /\ s.pays = req[g].pays
          /\ s.email = req[g].email /\ s.key = req[g].key /\ s.knowing = req[g].knowing
          /\ s.clean = FALSE /\ s.on = req[g].on /\ SameMoney(s, req[g])
      BY <1>4
    <3>2. req'[g] = s
      BY <2>1
    <3> QED
      BY <3>1, <3>2 DEF Onward
  <2>2. CASE req'[g] = req[g]
    <3>1. SameMoney(req'[g], req[g])
      BY <2>2 DEF SameMoney
    <3> QED
      BY <2>2, <3>1 DEF Onward
  <2> QED
    BY <1>5, <2>1, <2>2
<1>9. ASSUME NEW g \in Requests \ {h}, Conflict(r, req[g]) PROVE ~ req'[g].clean /\ ~ req'[h].clean
  BY <1>3, <1>4, <1>5, <1>9
<1> QED
  <2>1. Steady(h)
    BY <1>8 DEF Steady
  <2> QED
    BY <1>6, <1>7, <1>8, <1>9, <2>1

LEMMA FinishEffect ==
  ASSUME NEW N, 0 \in N, req \in [Requests -> Handler(N)], NEW h \in Requests, Finish(h)
  PROVE  /\ req' \in [Requests -> Handler(N)]
         /\ Became(h, Idle) /\ Steady(h)
         /\ \A g \in Requests \ {h} : Onward(g)
  BY IdleIsHandler DEF Finish, Became, Onward, SameMoney, Steady

-----------------------------------------------------------------------------
(***************************************************************************)
(* Handlers.                                                               *)
(***************************************************************************)
Merging == {"move", "sum", "merge"}
Quoting == {"find", "quote", "conclude"}

HandlerOK(r) ==
    /\ r.pc = "idle" => r.email = None /\ r.key = None
    /\ r.pc \in {"insert", "edit", "find", "quote"} => r.email \in Emails
    /\ r.pc \in {"insert", "find"} => r.c = None
    /\ r.pc = "edit" => r.c \in Customers
    /\ r.pc \in Quoting => r.key \in Keys /\ ~ r.knowing
    /\ r.pc \in Merging => r.dup \in Customers /\ r.c # r.dup
    /\ r.dup # None => r.pc \in Merging /\ customer[r.dup].state # "unused"

Share(r, s) == (r.email # None /\ r.email = s.email) \/ (r.key # None /\ r.key = s.key)

\* Two handlers with the same email, or the same key, have met.
Apart == \A h, g \in Requests : h # g /\ Share(req[h], req[g]) => ~ req[h].clean

HandlersInv == Apart /\ \A h \in Requests : HandlerOK(req[h])

\* Handler h goes on as r, the others where they are; a handler that arrives is marked,
\* and marks, where two conflict.
Moves(h, r)  == Became(h, r) /\ \A g \in Requests \ {h} : Onward(g)
Entered(h, r) ==
    /\ Moves(h, r) /\ Steady(h) /\ r.pc # "idle"
    /\ \A g \in Requests \ {h} : Conflict(r, req[g]) => ~ req'[g].clean /\ ~ req'[h].clean

LEMMA EnterDoes ==
  ASSUME Types, NEW N, 0 \in N, Shapes(N), NEW h \in Requests, NEW r \in Handler(N), r.pc # "idle", Enter(h, r),
         UNCHANGED <<customer, doc, payment>>
  PROVE  Types' /\ Entered(h, r)
<1>1. Entered(h, r) /\ req' \in [Requests -> Handler(N)]
  BY EnterEffect DEF Shapes, Entered, Moves
<1>2. Shapes(N)'
  BY <1>1 DEF Shapes
<1> QED
  BY <1>1, <1>2 DEF Types

LEMMA FinishDoes ==
  ASSUME NEW N, 0 \in N, Shapes(N), NEW h \in Requests, Finish(h)
  PROVE  req' \in [Requests -> Handler(N)] /\ Moves(h, Idle) /\ Steady(h)
  BY FinishEffect DEF Shapes, Moves

LEMMA Wider ==
  ASSUME NEW N, NEW M, N \subseteq M
  PROVE  CustomerRow(N) \subseteq CustomerRow(M) /\ Handler(N) \subseteq Handler(M)
  BY DEF CustomerRow, Handler

LEMMA ShapesWiden ==
  ASSUME NEW N, NEW M, N \subseteq M, Shapes(N)
  PROVE  Shapes(M)
<1>1. ASSUME NEW c \in Customers PROVE customer[c] \in CustomerRow(M)
  BY Wider DEF Shapes
<1>2. ASSUME NEW h \in Requests PROVE req[h] \in Handler(M)
  BY Wider DEF Shapes
<1> QED
  BY <1>1, <1>2 DEF Shapes

\* A lifetime value is written.
LEMMA LtvShape ==
  ASSUME NEW N, customer \in [Customers -> CustomerRow(N)], NEW c, NEW x, customer' = [customer EXCEPT ![c].ltv = x]
  PROVE  /\ customer' \in [Customers -> CustomerRow(N \cup {x})]
         /\ \A d \in Customers : customer'[d].state = customer[d].state /\ customer'[d].email = customer[d].email
<1>1. ASSUME NEW d \in Customers
      PROVE  customer'[d] = IF d = c THEN [customer[d] EXCEPT !.ltv = x] ELSE customer[d]
  OBVIOUS
<1>2. ASSUME NEW row \in CustomerRow(N)
      PROVE  /\ [row EXCEPT !.ltv = x] \in CustomerRow(N \cup {x}) /\ row \in CustomerRow(N \cup {x})
             /\ [row EXCEPT !.ltv = x].state = row.state /\ [row EXCEPT !.ltv = x].email = row.email
  BY DEF CustomerRow
<1>3. customer' = [d \in Customers |-> customer'[d]]
  OBVIOUS
<1> QED
  BY <1>1, <1>2, <1>3

-----------------------------------------------------------------------------
(***************************************************************************)
(* What each action does to the handlers, with its types.                  *)
(***************************************************************************)
LEMMA BeginCreateDoes ==
  ASSUME Types, NEW h \in Requests, NEW e \in Emails, BeginCreate(h, e)
  PROVE  Types' /\ \E r : /\ Entered(h, r) /\ r.pc = "insert" /\ r.email = e /\ r.c = None /\ r.dup = None /\ r.key = None
                          /\ Clash(e, None) => r.knowing
<1> PICK N : 0 \in N /\ Shapes(N)
  BY DEF Types
<1>1. PICK knowing \in BOOLEAN :
          /\ Clash(e, None) => knowing
          /\ Enter(h, [Idle EXCEPT !.pc = "insert", !.email = e, !.knowing = knowing])
  BY DEF BeginCreate
<1> DEFINE r == [Idle EXCEPT !.pc = "insert", !.email = e, !.knowing = knowing]
<1>2. /\ r \in Handler(N) /\ r.pc = "insert" /\ r.email = e /\ r.c = None /\ r.dup = None /\ r.key = None
      /\ r.knowing = knowing
  BY DEF Idle, Handler, Phases, PaymentStatus
<1>3. Enter(h, r) /\ UNCHANGED <<customer, doc, payment>>
  BY <1>1 DEF BeginCreate
<1> HIDE DEF r
<1>4. Types' /\ Entered(h, r)
  BY <1>2, <1>3, EnterDoes
<1> QED
  BY <1>1, <1>2, <1>4

LEMMA BeginEditDoes ==
  ASSUME Types, NEW h \in Requests, NEW c \in Customers, NEW e \in Emails, BeginEdit(h, c, e)
  PROVE  Types' /\ \E r : /\ Entered(h, r) /\ r.pc = "edit" /\ r.email = e /\ r.c = c /\ r.dup = None /\ r.key = None
                          /\ Clash(e, c) => r.knowing
<1> PICK N : 0 \in N /\ Shapes(N)
  BY DEF Types
<1>1. PICK knowing \in BOOLEAN :
          /\ Clash(e, c) => knowing
          /\ Enter(h, [Idle EXCEPT !.pc = "edit", !.email = e, !.c = c, !.knowing = knowing])
  BY DEF BeginEdit
<1> DEFINE r == [Idle EXCEPT !.pc = "edit", !.email = e, !.c = c, !.knowing = knowing]
<1>2. /\ r \in Handler(N) /\ r.pc = "edit" /\ r.email = e /\ r.c = c /\ r.dup = None /\ r.key = None
      /\ r.knowing = knowing
  BY DEF Idle, Handler, Phases, PaymentStatus
<1>3. Enter(h, r) /\ UNCHANGED <<customer, doc, payment>>
  BY <1>1 DEF BeginEdit
<1> HIDE DEF r
<1>4. Types' /\ Entered(h, r)
  BY <1>2, <1>3, EnterDoes
<1> QED
  BY <1>1, <1>2, <1>4

LEMMA SubmitDoes ==
  ASSUME Types, NEW h \in Requests, NEW k \in Keys, NEW e \in Emails, Submit(h, k, e)
  PROVE  Types' /\ \E r : /\ Entered(h, r) /\ r.pc = "find" /\ r.email = e /\ r.key = k
                          /\ r.c = None /\ r.dup = None /\ ~ r.knowing
<1> PICK N : 0 \in N /\ Shapes(N)
  BY DEF Types
<1> DEFINE r == [Idle EXCEPT !.pc = "find", !.key = k, !.email = e]
<1>2. /\ r \in Handler(N) /\ r.pc = "find" /\ r.email = e /\ r.key = k /\ r.c = None /\ r.dup = None /\ r.knowing = FALSE
  BY DEF Idle, Handler, Phases, PaymentStatus
<1>3. Enter(h, r) /\ UNCHANGED <<customer, doc, payment>>
  BY DEF Submit
<1> HIDE DEF r
<1>4. Types' /\ Entered(h, r)
  BY <1>2, <1>3, EnterDoes
<1> QED
  BY <1>2, <1>4

\* A customer with the email is found, or none has it.
LEMMA FindDoes ==
  ASSUME Types, NEW h \in Requests, Find(h)
  PROVE  Types' /\ \E r : /\ Entered(h, r) /\ r.pc = "quote" /\ r.email = req[h].email /\ r.key = req[h].key
                          /\ r.dup = req[h].dup /\ r.knowing = req[h].knowing /\ r.clean = req[h].clean
                          /\ r.c \in Customers \/ ~ Clash(req[h].email, None)
<1> PICK N : 0 \in N /\ Shapes(N)
  BY DEF Types
<1>1. req[h] \in Handler(N) /\ UNCHANGED <<customer, doc, payment>>
  BY DEF Shapes, Find
<1>2. CASE ~ Clash(req[h].email, None) /\ Enter(h, [req[h] EXCEPT !.pc = "quote"])
  <2> DEFINE r == [req[h] EXCEPT !.pc = "quote"]
  <2>1. /\ r \in Handler(N) /\ r.pc = "quote" /\ r.email = req[h].email /\ r.key = req[h].key
        /\ r.dup = req[h].dup /\ r.knowing = req[h].knowing /\ r.clean = req[h].clean
    BY <1>1 DEF Handler, Phases
  <2>2. Enter(h, r)
    BY <1>2
  <2> HIDE DEF r
  <2>3. Types' /\ Entered(h, r)
    BY <1>1, <2>1, <2>2, EnterDoes
  <2> QED
    BY <1>2, <2>1, <2>3
<1>3. ASSUME NEW c \in Customers, Enter(h, [req[h] EXCEPT !.pc = "quote", !.c = c, !.on = {c}])
      PROVE  Types' /\ \E r : /\ Entered(h, r) /\ r.pc = "quote" /\ r.email = req[h].email /\ r.key = req[h].key
                              /\ r.dup = req[h].dup /\ r.knowing = req[h].knowing /\ r.clean = req[h].clean
                              /\ r.c \in Customers
  <2> DEFINE r == [req[h] EXCEPT !.pc = "quote", !.c = c, !.on = {c}]
  <2>1. /\ r \in Handler(N) /\ r.pc = "quote" /\ r.email = req[h].email /\ r.key = req[h].key /\ r.c \in Customers
        /\ r.dup = req[h].dup /\ r.knowing = req[h].knowing /\ r.clean = req[h].clean
    BY <1>1 DEF Handler, Phases
  <2>2. Enter(h, r)
    BY <1>3
  <2> HIDE DEF r
  <2>3. Types' /\ Entered(h, r)
    BY <1>1, <2>1, <2>2, EnterDoes
  <2> QED
    BY <2>1, <2>3
<1>4. \/ ~ Clash(req[h].email, None) /\ Enter(h, [req[h] EXCEPT !.pc = "quote"])
      \/ \E c \in Customers : Enter(h, [req[h] EXCEPT !.pc = "quote", !.c = c, !.on = {c}])
  BY DEF Find, Clash
<1> QED
  BY <1>2, <1>3, <1>4

LEMMA BeginMergeDoes ==
  ASSUME Types, NEW h \in Requests, NEW c \in Customers, NEW dup \in Customers, BeginMerge(h, c, dup)
  PROVE  Types' /\ \E r : /\ Entered(h, r) /\ r.pc = "move" /\ r.c = c /\ r.dup = dup /\ r.email = None /\ r.key = None
<1> PICK N : 0 \in N /\ Shapes(N)
  BY DEF Types
<1> DEFINE r == [Idle EXCEPT !.pc = "move", !.c = c, !.dup = dup, !.on = {c, dup}]
<1>2. r \in Handler(N) /\ r.pc = "move" /\ r.c = c /\ r.dup = dup /\ r.email = None /\ r.key = None
  BY DEF Idle, Handler, Phases, PaymentStatus
<1>3. Enter(h, r) /\ UNCHANGED <<customer, doc, payment>>
  BY DEF BeginMerge
<1> HIDE DEF r
<1>4. Types' /\ Entered(h, r)
  BY <1>2, <1>3, EnterDoes
<1> QED
  BY <1>2, <1>4

\* The rows of the duplicate are read, to be moved.
LEMMA MoveDoes ==
  ASSUME Types, NEW h \in Requests, Move(h)
  PROVE  Types' /\ \E r : /\ Entered(h, r) /\ r.pc = "sum" /\ r.c = req[h].c /\ r.dup = req[h].dup
                          /\ r.email = req[h].email /\ r.key = req[h].key
                          /\ r.docs = {d \in Docs : doc[d].state = "there" /\ doc[d].owner = req[h].dup}
                          /\ r.pays = OwnedPays(req[h].dup)
<1> PICK N : 0 \in N /\ Shapes(N)
  BY DEF Types
<1> DEFINE ds == {d \in Docs : doc[d].state = "there" /\ doc[d].owner = req[h].dup}
           ps == OwnedPays(req[h].dup)
           r  == [req[h] EXCEPT !.pc = "sum", !.docs = ds, !.pays = ps]
<1>1. Enter(h, r) /\ UNCHANGED <<customer, doc, payment>> /\ ds \in SUBSET Docs /\ ps \in SUBSET Payments
  BY DEF Move, Repointed, OwnedPays
<1> HIDE DEF ds, ps
<1>a. req[h] \in Handler(N)
  BY DEF Shapes
<1>2. /\ r \in Handler(N) /\ r.pc = "sum" /\ r.c = req[h].c /\ r.dup = req[h].dup
      /\ r.email = req[h].email /\ r.key = req[h].key /\ r.docs = ds /\ r.pays = ps
  BY <1>1, <1>a DEF Handler, Phases
<1> HIDE DEF r
<1>3. Types' /\ Entered(h, r)
  BY <1>1, <1>2, EnterDoes
<1> QED
  BY <1>2, <1>3 DEF ds, ps

\* A handler that pays, returns or deletes.
MovesMoney(h, r) ==
    /\ r.pc \in {"pay", "return", "strike", "delete"}
    /\ r.dup = None \/ (req[h].pc = "strike" /\ r.dup = req[h].dup)

LEMMA BeginPayDoes ==
  ASSUME Types, NEW h \in Requests, NEW a \in Amounts, BeginPay(h, a)
  PROVE  Types' /\ \E r : Entered(h, r) /\ MovesMoney(h, r)
<1> PICK N : 0 \in N /\ Shapes(N)
  BY DEF Types
<1>1. UNCHANGED <<customer, doc, payment>> /\ a \in Nat
  BY AmountsAssumption DEF BeginPay
<1>2. ASSUME NEW c \in Customers \cup {None}, NEW ds \in SUBSET Docs, NEW status \in {"succeeded", "failed"},
             Enter(h, [Idle EXCEPT !.pc = "pay", !.c = c, !.on = {c}, !.docs = ds, !.amount = a,
                                   !.after = [status |-> status, refunded |-> 0]])
      PROVE  Types' /\ \E r : Entered(h, r) /\ MovesMoney(h, r)
  <2> DEFINE r == [Idle EXCEPT !.pc = "pay", !.c = c, !.on = {c}, !.docs = ds, !.amount = a,
                               !.after = [status |-> status, refunded |-> 0]]
  <2>1. r \in Handler(N) /\ r.pc = "pay" /\ r.dup = None
    BY <1>1 DEF Idle, Handler, Phases, PaymentStatus, Counted
  <2>2. Enter(h, r)
    BY <1>2
  <2> HIDE DEF r
  <2> QED
    BY <1>1, <2>1, <2>2, EnterDoes DEF MovesMoney
<1>3. ASSUME NEW c \in Customers, Enter(h, [Idle EXCEPT !.pc = "pay", !.c = c, !.on = {c}, !.amount = a,
                                                      !.after = [status |-> "succeeded", refunded |-> 0]])
      PROVE  Types' /\ \E r : Entered(h, r) /\ MovesMoney(h, r)
  <2> DEFINE r == [Idle EXCEPT !.pc = "pay", !.c = c, !.on = {c}, !.amount = a,
                               !.after = [status |-> "succeeded", refunded |-> 0]]
  <2>1. r \in Handler(N) /\ r.pc = "pay" /\ r.dup = None
    BY <1>1 DEF Idle, Handler, Phases, PaymentStatus, Counted
  <2>2. Enter(h, r)
    BY <1>3
  <2> HIDE DEF r
  <2> QED
    BY <1>1, <2>1, <2>2, EnterDoes DEF MovesMoney
<1>4. \/ \E d \in Docs, status \in {"succeeded", "failed"} :
             Enter(h, [Idle EXCEPT !.pc = "pay", !.c = doc[d].owner, !.on = {doc[d].owner},
                          !.docs = {d}, !.amount = a, !.after = [status |-> status, refunded |-> 0]])
      \/ \E c \in Customers : Enter(h, [Idle EXCEPT !.pc = "pay", !.c = c, !.on = {c}, !.amount = a,
                                                     !.after = [status |-> "succeeded", refunded |-> 0]])
  BY DEF BeginPay
<1>5. ASSUME NEW d \in Docs PROVE doc[d].owner \in Customers \cup {None} /\ {d} \in SUBSET Docs
  BY DEF Types, DocRow
<1> QED
  BY <1>2, <1>3, <1>4, <1>5

LEMMA BeginReturnDoes ==
  ASSUME Types, NEW h \in Requests, NEW p \in Payments, BeginReturn(h, p)
  PROVE  Types' /\ \E r : Entered(h, r) /\ MovesMoney(h, r)
<1> PICK N : 0 \in N /\ Shapes(N)
  BY DEF Types
<1> PICK row \in PaymentRow : row = payment[p]
  BY DEF Types
<1> DEFINE r(a, status, back) ==
      [Idle EXCEPT !.pc = "return", !.pays = {p}, !.docs = row.docs, !.c = row.owner,
          !.on = {row.owner}, !.amount = a, !.after = [status |-> status, refunded |-> back]]
<1>1. UNCHANGED <<customer, doc, payment>>
  BY DEF BeginReturn
<1>2. \/ \E a \in 1 .. row.amount - row.refunded + Cent : Enter(h, r(a, AfterRefund(row, a), row.refunded + a))
      \/ Enter(h, r(row.amount, "void", row.refunded))
  BY DEF BeginReturn
<1>3. /\ row.owner \in Customers \cup {None} /\ row.docs \in SUBSET Docs /\ row.amount \in Nat /\ row.refunded \in Nat
      /\ \A a \in 1 .. row.amount - row.refunded + Cent :
             a \in Nat /\ row.refunded + a \in Nat /\ AfterRefund(row, a) \in {"refunded", "partially_refunded"}
  BY DEF PaymentRow, AfterRefund, Cent
<1>4. ASSUME NEW a \in Nat, NEW status \in {"refunded", "partially_refunded", "void"}, NEW back \in Nat
      PROVE  r(a, status, back) \in Handler(N) /\ r(a, status, back).pc = "return" /\ r(a, status, back).dup = None
  BY <1>3 DEF Idle, Handler, Phases, PaymentStatus, Counted
<1> HIDE DEF r
<1>5. \E a \in Nat, status \in {"refunded", "partially_refunded", "void"}, back \in Nat : Enter(h, r(a, status, back))
  BY <1>2, <1>3
<1> QED
  BY <1>1, <1>4, <1>5, EnterDoes DEF MovesMoney

LEMMA BeginDeleteDoes ==
  ASSUME Types, NEW h \in Requests, BeginDelete(h)
  PROVE  Types' /\ \E r : Entered(h, r) /\ MovesMoney(h, r)
<1> PICK N : 0 \in N /\ Shapes(N)
  BY DEF Types
<1>1. UNCHANGED <<customer, doc, payment>>
  BY DEF BeginDelete
<1>2. ASSUME NEW c \in Customers, NEW ds \in SUBSET Docs,
             Enter(h, [Idle EXCEPT !.pc = "strike", !.docs = ds, !.c = c, !.on = {c}])
      PROVE  Types' /\ \E r : Entered(h, r) /\ MovesMoney(h, r)
  <2> DEFINE r == [Idle EXCEPT !.pc = "strike", !.docs = ds, !.c = c, !.on = {c}]
  <2>1. r \in Handler(N) /\ r.pc = "strike" /\ r.dup = None
    BY DEF Idle, Handler, Phases, PaymentStatus
  <2>2. Enter(h, r)
    BY <1>2
  <2> HIDE DEF r
  <2> QED
    BY <1>1, <2>1, <2>2, EnterDoes DEF MovesMoney
<1>3. ASSUME NEW p \in Payments, NEW c \in Customers \cup {None},
             Enter(h, [Idle EXCEPT !.pc = "strike", !.pays = {p}, !.c = c, !.on = {c}])
      PROVE  Types' /\ \E r : Entered(h, r) /\ MovesMoney(h, r)
  <2> DEFINE r == [Idle EXCEPT !.pc = "strike", !.pays = {p}, !.c = c, !.on = {c}]
  <2>1. r \in Handler(N) /\ r.pc = "strike" /\ r.dup = None
    BY DEF Idle, Handler, Phases, PaymentStatus
  <2>2. Enter(h, r)
    BY <1>3
  <2> HIDE DEF r
  <2> QED
    BY <1>1, <2>1, <2>2, EnterDoes DEF MovesMoney
<1>4. \/ \E p \in Payments : Enter(h, [Idle EXCEPT !.pc = "strike", !.pays = {p}, !.c = payment[p].owner,
                                                   !.on = {payment[p].owner}])
      \/ \E c \in Customers : \E ds \in SUBSET Docs :
             Enter(h, [Idle EXCEPT !.pc = "strike", !.docs = ds, !.c = c, !.on = {c}])
  <2>1. \A c \in Customers : (SUBSET {d \in Docs : doc[d].state = "there" /\ doc[d].owner = c}) \ {{}} \subseteq SUBSET Docs
    OBVIOUS
  <2> QED
    BY <2>1 DEF BeginDelete
<1>5. \A p \in Payments : payment[p].owner \in Customers \cup {None}
  BY DEF Types, PaymentRow
<1> QED
  BY <1>2, <1>3, <1>4, <1>5

\* What a recount comes to may be anything: the total joins the open set.
LEMMA StrikeDoes ==
  ASSUME Types, NEW h \in Requests, Strike(h)
  PROVE  Types' /\ \E r : Entered(h, r) /\ MovesMoney(h, r)
<1> PICK N : 0 \in N /\ Shapes(N)
  BY DEF Types
<1> DEFINE pays == req[h].pays \cup {p \in Payments : There(p) /\ payment[p].docs \cap req[h].docs # {}}
           total == Recount(OwnedPays(req[h].c) \ pays)
           on == req[h].on \cup {payment[p].owner : p \in pays}
           M == N \cup {total}
           r == [req[h] EXCEPT !.pc = "delete", !.pays = pays, !.total = total, !.on = on]
<1>1. Enter(h, r) /\ req[h].pc = "strike" /\ UNCHANGED <<customer, doc, payment>>
  BY DEF Strike
<1>2. 0 \in M /\ total \in M /\ N \subseteq M
  OBVIOUS
<1>3. req[h] \in Handler(N) /\ \A p \in Payments : payment[p].owner \in Customers \cup {None}
  BY DEF Shapes, Types, PaymentRow
<1>4. pays \in SUBSET Payments
  BY <1>3 DEF Handler
<1>5. on \in SUBSET (Customers \cup {None})
  <2>1. req[h].on \subseteq Customers \cup {None}
    BY <1>3 DEF Handler
  <2>2. {payment[p].owner : p \in pays} \subseteq Customers \cup {None}
    BY <1>3, <1>4
  <2> QED
    BY <2>1, <2>2
<1> HIDE DEF pays, total, on, M
<1>6. Shapes(M)
  BY <1>2, ShapesWiden
<1>7. r \in Handler(M) /\ r.pc = "delete" /\ r.dup = req[h].dup
  <2>1. req[h] \in Handler(M)
    BY <1>6 DEF Shapes
  <2> QED
    BY <1>2, <1>4, <1>5, <2>1 DEF Handler, Phases
<1> HIDE DEF r
<1> QED
  BY <1>1, <1>2, <1>6, <1>7, EnterDoes DEF MovesMoney

LEMMA TypesFrom ==
  ASSUME NEW N, 0 \in N, Shapes(N)', doc' \in [Docs -> DocRow], payment' \in [Payments -> PaymentRow]
  PROVE  Types'
  BY DEF Types

\* c has the email of handler h from now on, and nothing else changes of the customers.
GivesEmail(h, c) ==
    /\ c \in Customers /\ customer'[c].email = req[h].email
    /\ \A d \in Customers \ {c} : customer'[d] = customer[d]
    /\ customer'[c].state # customer[c].state =>
           customer[c].state = "unused" /\ customer'[c].state = "live"

\* A customer that was not there is made, for a new email.
LEMMA NewCustomer ==
  ASSUME NEW N, 0 \in N, Shapes(N), NEW h \in Requests, NEW c \in Customers, customer[c].state = "unused",
         customer' = [customer EXCEPT ![c] = [state |-> "live", email |-> req[h].email, ltv |-> 0]]
  PROVE  /\ customer' \in [Customers -> CustomerRow(N)] /\ GivesEmail(h, c)
         /\ customer'[c].state = "live"
<1>1. req[h].email \in Emails \cup {None}
  BY DEF Shapes, Handler
<1>2. [state |-> "live", email |-> req[h].email, ltv |-> 0] \in CustomerRow(N)
  BY <1>1 DEF CustomerRow, CustomerState
<1> QED
  BY <1>2 DEF Shapes, GivesEmail

LEMMA InsertDoes ==
  ASSUME Types, NEW h \in Requests, Insert(h)
  PROVE  /\ Types' /\ Moves(h, Idle)
         /\ \E c \in Customers : customer[c].state = "unused" /\ GivesEmail(h, c)
<1> PICK N : 0 \in N /\ Shapes(N)
  BY DEF Types
<1>1. PICK c \in Customers :
          /\ customer[c].state = "unused"
          /\ customer' = [customer EXCEPT ![c] = [state |-> "live", email |-> req[h].email, ltv |-> 0]]
  BY DEF Insert
<1>2. customer' \in [Customers -> CustomerRow(N)] /\ GivesEmail(h, c)
  BY <1>1, NewCustomer
<1>3. req' \in [Requests -> Handler(N)] /\ Moves(h, Idle)
  BY FinishDoes DEF Insert
<1>4. Types'
  BY <1>2, <1>3, TypesFrom DEF Shapes, Types, Insert
<1> QED
  BY <1>1, <1>2, <1>3, <1>4

LEMMA EditDoes ==
  ASSUME Types, HandlersInv, NEW h \in Requests, Edit(h)
  PROVE  Types' /\ Moves(h, Idle) /\ GivesEmail(h, req[h].c)
<1> PICK N : 0 \in N /\ Shapes(N)
  BY DEF Types
<1>1. PICK c \in Customers : c = req[h].c
  BY DEF Edit, HandlersInv, HandlerOK
<1>2. customer' = [customer EXCEPT ![c].email = req[h].email] /\ req[h].email \in Emails \cup {None}
  BY <1>1 DEF Edit, Shapes, Handler
<1>3. customer' \in [Customers -> CustomerRow(N)] /\ GivesEmail(h, c)
  BY <1>2 DEF Shapes, CustomerRow, GivesEmail
<1>4. req' \in [Requests -> Handler(N)] /\ Moves(h, Idle)
  BY FinishDoes DEF Edit
<1>5. Types'
  BY <1>3, <1>4, TypesFrom DEF Shapes, Types, Edit
<1> QED
  BY <1>1, <1>3, <1>4, <1>5

LEMMA SoftDeleteDoes ==
  ASSUME Types, NEW c \in Customers, SoftDelete(c)
  PROVE  /\ Types' /\ UNCHANGED <<doc, payment, req, answered, ghostVars>>
         /\ customer'[c].state = "deleted" /\ Live(c)
         /\ \A d \in Customers \ {c} : customer'[d] = customer[d]
<1> PICK N : 0 \in N /\ Shapes(N)
  BY DEF Types
<1>1. /\ customer' = [customer EXCEPT ![c].state = "deleted"] /\ Live(c)
      /\ UNCHANGED <<doc, payment, req, answered, ghostVars>>
  BY DEF SoftDelete
<1>2. /\ customer' \in [Customers -> CustomerRow(N)] /\ customer'[c].state = "deleted"
      /\ \A d \in Customers \ {c} : customer'[d] = customer[d]
  BY <1>1 DEF Shapes, CustomerRow, CustomerState
<1>3. Types'
  BY <1>1, <1>2, TypesFrom DEF Shapes, Types
<1> QED
  BY <1>1, <1>2, <1>3

\* A document is made for c.
LEMMA NewDocDoes ==
  ASSUME doc \in [Docs -> DocRow], NEW d \in Docs, NEW c \in Customers, NEW k \in Keys \cup {None}, NewDoc(d, c, k)
  PROVE  /\ doc' \in [Docs -> DocRow]
         /\ doc'[d].key = k /\ doc'[d].owner = c /\ \A x \in Docs \ {d} : doc'[x] = doc[x]
<1>1. [state |-> "there", owner |-> c, key |-> k] \in DocRow
  BY DEF DocRow, DocState
<1> QED
  BY <1>1 DEF NewDoc

LEMMA NewInvoiceDoes ==
  ASSUME Types, NEW c \in Customers, NEW d \in Docs, NewInvoice(c, d)
  PROVE  /\ Types' /\ UNCHANGED <<customer, payment, req, answered, twins, excused>>
         /\ doc'[d].key = None /\ doc'[d].owner = c /\ \A x \in Docs \ {d} : doc'[x] = doc[x]
         /\ customer[c].state # "unused"
         /\ strays' = IF Stray(c) THEN strays \cup {d} ELSE strays
<1> PICK N : 0 \in N /\ Shapes(N)
  BY DEF Types
<1>1. /\ UNCHANGED <<customer, payment, req, answered, twins, excused>> /\ NewDoc(d, c, None)
      /\ customer[c].state # "unused" /\ strays' = IF Stray(c) THEN strays \cup {d} ELSE strays
  BY DEF NewInvoice
<1>2. /\ doc' \in [Docs -> DocRow]
      /\ doc'[d].key = None /\ doc'[d].owner = c /\ \A x \in Docs \ {d} : doc'[x] = doc[x]
  BY <1>1, NewDocDoes DEF Types
<1>3. Types'
  BY <1>1, <1>2, TypesFrom DEF Shapes, Types
<1> QED
  BY <1>1, <1>2, <1>3

LEMMA AbortDoes ==
  ASSUME Types, NEW h \in Requests, Abort(h)
  PROVE  Types' /\ Moves(h, Idle) /\ req[h].pc # "conclude" /\ UNCHANGED <<customer, doc, payment, answered, ghostVars>>
<1> PICK N : 0 \in N /\ Shapes(N)
  BY DEF Types
<1>1. Finish(h) /\ req[h].pc # "conclude" /\ UNCHANGED <<customer, doc, payment, answered, ghostVars>>
  BY DEF Abort
<1>2. req' \in [Requests -> Handler(N)] /\ Moves(h, Idle)
  BY <1>1, FinishDoes
<1> QED
  BY <1>1, <1>2, TypesFrom DEF Shapes, Types

LEMMA ConcludeDoes ==
  ASSUME Types, NEW h \in Requests, Conclude(h)
  PROVE  /\ Types' /\ Moves(h, Idle) /\ UNCHANGED <<customer, doc, payment, strays, twins>>
         /\ \/ answered' = answered \cup {req[h].key} /\ UNCHANGED excused
            \/ excused' = excused \cup {req[h].key} /\ UNCHANGED answered
<1> PICK N : 0 \in N /\ Shapes(N)
  BY DEF Types
<1>1. /\ Finish(h) /\ UNCHANGED <<customer, doc, payment, strays, twins>>
      /\ \/ answered' = answered \cup {req[h].key} /\ UNCHANGED excused
         \/ excused' = excused \cup {req[h].key} /\ UNCHANGED answered
  BY DEF Conclude
<1>2. req' \in [Requests -> Handler(N)] /\ Moves(h, Idle)
  BY <1>1, FinishDoes
<1>3. Types'
  BY <1>1, <1>2, TypesFrom DEF Shapes, Types
<1> QED
  BY <1>1, <1>2, <1>3

\* The rest of the handler's row goes on as it was.
Advances(h, r, pc) ==
    /\ Moves(h, r) /\ Steady(h) /\ r.on = req[h].on /\ r.pc = pc /\ r.c = req[h].c /\ r.dup = req[h].dup /\ r.docs = req[h].docs /\ r.pays = req[h].pays
    /\ r.email = req[h].email /\ r.key = req[h].key /\ r.knowing = req[h].knowing /\ r.clean = req[h].clean

LEMMA AdvanceDoes ==
  ASSUME NEW N, req \in [Requests -> Handler(N)], NEW h \in Requests, NEW pc \in Phases, NEW x \in N,
         \/ req' = [req EXCEPT ![h].pc = pc]
         \/ req' = [req EXCEPT ![h].pc = pc, ![h].total = x]
  PROVE  req' \in [Requests -> Handler(N)] /\ \E r : Advances(h, r, pc)
<1>1. /\ req'[h] \in Handler(N) /\ req'[h].on = req[h].on /\ req'[h].pc = pc /\ req'[h].c = req[h].c /\ req'[h].dup = req[h].dup
      /\ req'[h].docs = req[h].docs /\ req'[h].pays = req[h].pays
      /\ req'[h].email = req[h].email /\ req'[h].key = req[h].key /\ req'[h].knowing = req[h].knowing
      /\ req'[h].clean = req[h].clean
  <2>0. PICK r \in Handler(N) : r = req[h]
    OBVIOUS
  <2>1. CASE req' = [req EXCEPT ![h].pc = pc]
    <3>1. req'[h] = [r EXCEPT !.pc = pc]
      BY <2>0, <2>1
    <3> QED
      BY <2>0, <3>1 DEF Handler
  <2>2. CASE req' = [req EXCEPT ![h].pc = pc, ![h].total = x]
    <3>1. req'[h] = [r EXCEPT !.pc = pc, !.total = x]
      BY <2>0, <2>2
    <3> QED
      BY <2>0, <3>1 DEF Handler
  <2> QED
    BY <2>1, <2>2
<1>2. \A g \in Requests \ {h} : req'[g] = req[g]
  OBVIOUS
<1>3. req' \in [Requests -> Handler(N)]
  BY <1>1, <1>2
<1>4. PICK r : r = req'[h]
  OBVIOUS
<1>5. Advances(h, r, pc)
  BY <1>1, <1>2, <1>4 DEF Advances, Moves, Became, Onward, SameMoney, Steady
<1> QED
  BY <1>3, <1>5

\* The estimate of a submission, for the customer that was found or for a new one.
QuotesFor(h, d, c) ==
    /\ doc'[d].key = req[h].key /\ doc'[d].owner = c /\ \A x \in Docs \ {d} : doc'[x] = doc[x]
    /\ \/ /\ req[h].c = None /\ customer[c].state = "unused" /\ GivesEmail(h, c) /\ twins' = Twinned(h)
          /\ customer'[c].state = "live" /\ UNCHANGED strays
       \/ /\ req[h].c = c /\ UNCHANGED <<customer, twins>>
          /\ strays' = IF Stray(c) THEN strays \cup {d} ELSE strays

LEMMA QuoteDoes ==
  ASSUME Types, NEW h \in Requests, Quote(h)
  PROVE  /\ Types' /\ (\E r : Advances(h, r, "conclude"))
         /\ \E d \in Docs, c \in Customers : QuotesFor(h, d, c)
         /\ excused' = (IF req[h].clean THEN excused ELSE excused \cup {req[h].key})
         /\ UNCHANGED <<payment, answered>>
<1> PICK N : 0 \in N /\ Shapes(N)
  BY DEF Types
<1>1. PICK d \in Docs, c \in Customers :
         /\ IF req[h].c = None
            THEN /\ customer[c].state = "unused"
                 /\ customer' = [customer EXCEPT ![c] = [state |-> "live", email |-> req[h].email, ltv |-> 0]]
                 /\ twins' = Twinned(h)
            ELSE c = req[h].c /\ UNCHANGED <<customer, twins>>
         /\ NewDoc(d, c, req[h].key)
         /\ strays' = (IF req[h].c # None /\ Stray(req[h].c) THEN strays \cup {d} ELSE strays)
         /\ excused' = IF req[h].clean THEN excused ELSE excused \cup {req[h].key}
  BY DEF Quote
<1>2. req' = [req EXCEPT ![h].pc = "conclude"] /\ UNCHANGED <<payment, answered>>
  BY DEF Quote
<1>3. req' \in [Requests -> Handler(N)] /\ \E r : Advances(h, r, "conclude")
  BY <1>2, AdvanceDoes DEF Shapes, Phases
<1>4. req[h].key \in Keys \cup {None}
  BY DEF Shapes, Handler
<1>5. /\ doc' \in [Docs -> DocRow]
      /\ doc'[d].key = req[h].key /\ doc'[d].owner = c /\ \A x \in Docs \ {d} : doc'[x] = doc[x]
  BY <1>1, <1>4, NewDocDoes DEF Types
<1>6. customer' \in [Customers -> CustomerRow(N)]
  <2>1. CASE req[h].c = None
    BY <1>1, <2>1, NewCustomer
  <2>2. CASE req[h].c # None
    BY <1>1, <2>2 DEF Shapes
  <2> QED
    BY <2>1, <2>2
<1>7. QuotesFor(h, d, c)
  <2>1. CASE req[h].c = None
    BY <1>1, <1>5, <2>1, NewCustomer DEF QuotesFor
  <2>2. CASE req[h].c # None
    BY <1>1, <1>5, <2>2, NoneAssumption DEF QuotesFor
  <2> QED
    BY <2>1, <2>2
<1>8. Types'
  BY <1>2, <1>3, <1>5, <1>6, TypesFrom DEF Shapes, Types
<1> QED
  BY <1>1, <1>2, <1>3, <1>7, <1>8

LEMMA SumDoes ==
  ASSUME Types, NEW h \in Requests, Sum(h)
  PROVE  /\ Types' /\ (\E r : Advances(h, r, "merge")) /\ req[h].pc = "sum"
         /\ UNCHANGED <<customer, doc, payment, answered, ghostVars>>
<1> PICK N : 0 \in N /\ Shapes(N)
  BY DEF Types
<1>1. PICK total : req' = [req EXCEPT ![h].pc = "merge", ![h].total = total]
  BY DEF Sum
<1>2. UNCHANGED <<customer, doc, payment, answered, ghostVars>> /\ req[h].pc = "sum"
  BY DEF Sum
<1> DEFINE M == N \cup {total}
<1>3. 0 \in M /\ total \in M /\ N \subseteq M
  OBVIOUS
<1> HIDE DEF M
<1>4. Shapes(M)
  BY <1>3, ShapesWiden
<1>5. req' \in [Requests -> Handler(M)] /\ \E r : Advances(h, r, "merge")
  BY <1>1, <1>3, <1>4, AdvanceDoes DEF Shapes, Phases
<1>6. Types'
  BY <1>2, <1>3, <1>4, <1>5, TypesFrom DEF Shapes, Types
<1> QED
  BY <1>2, <1>5, <1>6

\* Only lifetime values change.
SameCustomers == \A c \in Customers : customer'[c].state = customer[c].state /\ customer'[c].email = customer[c].email

LEMMA PayDoes ==
  ASSUME Types, NEW h \in Requests, Pay(h)
  PROVE  /\ Types' /\ Moves(h, Idle) /\ SameCustomers /\ UNCHANGED <<doc, answered, twins, excused>>
         /\ req[h].pc = "pay"
         /\ \E p \in Payments :
               /\ payment'[p].owner = req[h].c /\ \A q \in Payments \ {p} : payment'[q] = payment[q]
               /\ strays' = IF Stray(req[h].c) THEN strays \cup {p} ELSE strays
<1> PICK N : 0 \in N /\ Shapes(N)
  BY DEF Types
<1> DEFINE ltv == customer[req[h].c].ltv + req[h].amount
           row == [status |-> req[h].after.status, owner |-> req[h].c, docs |-> req[h].docs,
                   amount |-> req[h].amount, refunded |-> 0]
<1>1. PICK p \in Payments :
          /\ payment' = [payment EXCEPT ![p] = row]
          /\ strays' = IF Stray(req[h].c) THEN strays \cup {p} ELSE strays
  BY DEF Pay
<1>2. /\ customer' = [customer EXCEPT ![req[h].c].ltv = ltv] \/ customer' = customer
      /\ Finish(h)
      /\ UNCHANGED <<doc, answered, twins, excused>> /\ req[h].pc = "pay"
  BY DEF Pay
<1>3. row \in PaymentRow /\ row.owner = req[h].c
  BY DEF PaymentRow, PaymentStatus, Counted, Shapes, Handler
<1> HIDE DEF row, ltv
<1>4. /\ payment' \in [Payments -> PaymentRow]
      /\ payment'[p].owner = req[h].c /\ \A q \in Payments \ {p} : payment'[q] = payment[q]
  BY <1>1, <1>3 DEF Types
<1>m. PICK M : M = N \cup {ltv}
  OBVIOUS
<1>6. Shapes(M) /\ 0 \in M
  BY <1>m, ShapesWiden
<1>5. customer' \in [Customers -> CustomerRow(M)] /\ SameCustomers
  <2>1. CASE customer' = customer
    BY <1>6, <2>1 DEF Shapes, SameCustomers
  <2>2. CASE customer' = [customer EXCEPT ![req[h].c].ltv = ltv]
    BY <2>2, <1>m, LtvShape DEF Shapes, SameCustomers
  <2> QED
    BY <1>2, <2>1, <2>2
<1>7. req' \in [Requests -> Handler(M)] /\ Moves(h, Idle)
  BY <1>2, <1>6, FinishDoes
<1>8. Types'
  <2>1. Shapes(M)' /\ 0 \in M
    BY <1>5, <1>6, <1>7 DEF Shapes
  <2> QED
    BY <1>2, <1>4, <2>1 DEF Types
<1> QED
  BY <1>1, <1>2, <1>4, <1>5, <1>7, <1>8

\* A payment that is there stays where it is.
LEMMA ReturnDoes ==
  ASSUME Types, NEW h \in Requests, Return(h)
  PROVE  /\ Types' /\ Moves(h, Idle) /\ SameCustomers /\ UNCHANGED <<doc, answered, strays, twins, excused>>
         /\ req[h].pc = "return"
         /\ \A q \in Payments : payment'[q].owner = payment[q].owner /\ (There(q)' => There(q))
<1> PICK N : 0 \in N /\ Shapes(N)
  BY DEF Types
<1> DEFINE r == req[h]
           after == r.after
           pay == CHOOSE q \in Payments : r.pays = {q}
           owner == IF r.docs = {} THEN r.c ELSE doc[CHOOSE d \in Docs : r.docs = {d}].owner
           back == IF after.status = "void" THEN payment[pay].refunded ELSE after.refunded
           ltv == Reduced(customer[owner].ltv, r.amount)
<1>1. /\ r.pc = "return" /\ There(pay) /\ Finish(h) /\ UNCHANGED <<doc, answered, strays, twins, excused>>
      /\ payment' = [payment EXCEPT ![pay].status = after.status, ![pay].refunded = back]
      /\ customer' = [customer EXCEPT ![owner].ltv = ltv]
  BY DEF Return
<1>2. after.status \in PaymentStatus /\ after.refunded \in Nat
  BY DEF Shapes, Handler
<1> HIDE DEF pay, owner, ltv, after
<1>3. ASSUME NEW q \in Payments
      PROVE  payment'[q] \in PaymentRow /\ payment'[q].owner = payment[q].owner /\ (There(q)' => There(q))
  <2>0. payment[q] \in PaymentRow
    BY DEF Types
  <2>1. CASE q # pay
    BY <1>1, <2>0, <2>1 DEF Types, There
  <2>2. CASE q = pay
    <3>1. payment'[q] = [payment[q] EXCEPT !.status = after.status, !.refunded = back] /\ back \in Nat
      BY <1>1, <1>2, <2>0, <2>2 DEF Types, PaymentRow
    <3>2. There(q)
      BY <1>1, <2>2
    <3> HIDE DEF back
    <3> QED
      BY <1>2, <2>0, <3>1, <3>2 DEF PaymentRow
  <2> QED
    BY <2>1, <2>2
<1>4. payment' \in [Payments -> PaymentRow]
  BY <1>1, <1>3 DEF Types
<1>m. PICK M : M = N \cup {ltv}
  OBVIOUS
<1>5. customer' \in [Customers -> CustomerRow(M)] /\ SameCustomers
  BY <1>1, <1>m, LtvShape DEF Shapes, SameCustomers
<1>6. Shapes(M) /\ 0 \in M
  BY <1>m, ShapesWiden
<1>7. req' \in [Requests -> Handler(M)] /\ Moves(h, Idle)
  BY <1>1, <1>6, FinishDoes
<1>8. Types'
  <2>1. Shapes(M)' /\ 0 \in M
    BY <1>5, <1>6, <1>7 DEF Shapes
  <2> QED
    BY <1>1, <1>4, <2>1 DEF Types
<1> QED
  BY <1>1, <1>3, <1>5, <1>7, <1>8

\* Rows go with their customers; no row goes to one, or comes back.
LEMMA DeleteDoes ==
  ASSUME Types, NEW h \in Requests, Delete(h)
  PROVE  /\ Types' /\ Moves(h, Idle) /\ SameCustomers /\ UNCHANGED <<answered, strays, twins, excused>>
         /\ req[h].pc = "delete"
         /\ \A q \in Payments : payment'[q].owner = payment[q].owner /\ (There(q)' => There(q))
         /\ \A d \in Docs : /\ doc'[d].owner = doc[d].owner /\ doc'[d].key = doc[d].key
                            /\ doc'[d].state = "there" => doc[d].state = "there"
<1> PICK N : 0 \in N /\ Shapes(N)
  BY DEF Types
<1> DEFINE r == req[h]
<1>1. /\ r.pc = "delete" /\ Finish(h) /\ UNCHANGED <<answered, strays, twins, excused>>
      /\ doc' = [d \in Docs |-> IF d \in r.docs THEN [doc[d] EXCEPT !.state = "gone"] ELSE doc[d]]
      /\ payment' = [p \in Payments |-> IF p \in r.pays THEN [payment[p] EXCEPT !.status = "gone"] ELSE payment[p]]
      /\ customer' = IF r.pays = {} THEN customer ELSE [customer EXCEPT ![r.c].ltv = r.total]
  BY DEF Delete
<1>2. ASSUME NEW q \in Payments
      PROVE  payment'[q] \in PaymentRow /\ payment'[q].owner = payment[q].owner /\ (There(q)' => There(q))
  BY <1>1 DEF Types, PaymentRow, PaymentStatus, There
<1>3. ASSUME NEW d \in Docs
      PROVE  /\ doc'[d] \in DocRow /\ doc'[d].owner = doc[d].owner /\ doc'[d].key = doc[d].key
             /\ doc'[d].state = "there" => doc[d].state = "there"
  BY <1>1 DEF Types, DocRow, DocState
<1>4. payment' \in [Payments -> PaymentRow] /\ doc' \in [Docs -> DocRow]
  BY <1>1, <1>2, <1>3
<1>5. customer' \in [Customers -> CustomerRow(N)] /\ SameCustomers
  <2>1. CASE r.pays = {}
    BY <1>1, <2>1 DEF Shapes, SameCustomers
  <2>2. CASE r.pays # {}
    <3>1. customer' = [customer EXCEPT ![r.c].ltv = r.total] /\ r.total \in N
      BY <1>1, <2>2 DEF Shapes, Handler
    <3>2. PICK total \in N : total = r.total
      BY <3>1
    <3>3. customer' \in [Customers -> CustomerRow(N \cup {total})] /\ SameCustomers
      BY <3>1, <3>2, LtvShape DEF Shapes, SameCustomers
    <3>4. N \cup {total} = N
      BY <3>2
    <3> QED
      BY <3>3, <3>4
  <2> QED
    BY <2>1, <2>2
<1>6. req' \in [Requests -> Handler(N)] /\ Moves(h, Idle)
  BY <1>1, FinishDoes
<1>7. Types'
  BY <1>4, <1>5, <1>6, TypesFrom DEF Shapes
<1> QED
  BY <1>1, <1>2, <1>3, <1>5, <1>6, <1>7

\* The rows that were read go to the customer that is kept; the other is merged away.
LEMMA MergeDoes ==
  ASSUME Types, HandlersInv, NEW h \in Requests, Merge(h)
  PROVE  /\ Types' /\ Moves(h, Idle) /\ UNCHANGED <<answered, twins, excused>> /\ req[h].pc = "merge"
         /\ \A c \in Customers \ {req[h].dup} :
               customer'[c].state = customer[c].state /\ customer'[c].email = customer[c].email
         /\ customer'[req[h].dup].state = "merged"
         /\ \A d \in Docs : /\ doc'[d].state = doc[d].state /\ doc'[d].key = doc[d].key
                            /\ doc'[d].owner = IF d \in req[h].docs THEN req[h].c ELSE doc[d].owner
         /\ \A p \in Payments : /\ payment'[p].status = payment[p].status
                                /\ payment'[p].owner = IF p \in req[h].pays THEN req[h].c ELSE payment[p].owner
         /\ strays' = IF Stray(req[h].c) THEN strays \cup req[h].docs \cup req[h].pays ELSE strays
<1> PICK N : 0 \in N /\ Shapes(N)
  BY DEF Types
<1> DEFINE r == req[h]
<1>1. /\ r.pc = "merge" /\ UNCHANGED <<answered, twins, excused>>
      /\ doc' = [d \in Docs |-> IF d \in r.docs THEN [doc[d] EXCEPT !.owner = r.c] ELSE doc[d]]
      /\ payment' = [p \in Payments |-> IF p \in r.pays THEN [payment[p] EXCEPT !.owner = r.c] ELSE payment[p]]
      /\ customer' = [customer EXCEPT ![r.c].ltv = r.total, ![r.dup].state = "merged", ![r.dup].ltv = 0]
      /\ strays' = IF Stray(r.c) THEN strays \cup r.docs \cup r.pays ELSE strays
      /\ req' = [g \in Requests |->
             IF g = h THEN Idle ELSE IF r.dup \in req[g].on THEN [req[g] EXCEPT !.on = @ \cup {r.c}] ELSE req[g]]
  BY DEF Merge
<1>2. /\ r.c \in Customers \cup {None} /\ r.total \in N /\ r.dup \in Customers /\ r.c # r.dup
  BY <1>1 DEF Shapes, Handler, HandlersInv, HandlerOK, Merging
<1>3. ASSUME NEW d \in Docs
      PROVE  /\ doc'[d] \in DocRow /\ doc'[d].state = doc[d].state /\ doc'[d].key = doc[d].key
             /\ doc'[d].owner = IF d \in r.docs THEN r.c ELSE doc[d].owner
  BY <1>1, <1>2 DEF Types, DocRow
<1>4. ASSUME NEW p \in Payments
      PROVE  /\ payment'[p] \in PaymentRow /\ payment'[p].status = payment[p].status
             /\ payment'[p].owner = IF p \in r.pays THEN r.c ELSE payment[p].owner
  BY <1>1, <1>2 DEF Types, PaymentRow
<1>5. payment' \in [Payments -> PaymentRow] /\ doc' \in [Docs -> DocRow]
  BY <1>1, <1>3, <1>4
<1>6. ASSUME NEW c \in Customers
      PROVE  /\ customer'[c] \in CustomerRow(N)
             /\ c # r.dup => customer'[c].state = customer[c].state /\ customer'[c].email = customer[c].email
             /\ c = r.dup => customer'[c].state = "merged"
  <2>1. PICK row \in CustomerRow(N) : row = customer[c]
    BY DEF Shapes
  <2>2. customer'[c] = IF c = r.dup THEN [row EXCEPT !.state = "merged", !.ltv = 0]
                       ELSE IF c = r.c THEN [row EXCEPT !.ltv = r.total] ELSE row
    BY <1>1, <1>2, <2>1 DEF Shapes
  <2> QED
    BY <1>2, <2>1, <2>2 DEF CustomerRow, CustomerState
<1>7. customer' \in [Customers -> CustomerRow(N)]
  BY <1>1, <1>6 DEF Shapes
<1>8. ASSUME NEW g \in Requests \ {h} PROVE req'[g] \in Handler(N) /\ Onward(g)
  <2>1. PICK row \in Handler(N) : row = req[g]
    BY DEF Shapes
  <2>2. req'[g] = row \/ req'[g] = [row EXCEPT !.on = @ \cup {r.c}]
    BY <1>1, <2>1
  <2> QED
    BY <1>2, <2>1, <2>2 DEF Handler, Onward, SameMoney
<1>9. req' \in [Requests -> Handler(N)] /\ Moves(h, Idle)
  BY <1>1, <1>8, IdleIsHandler DEF Moves, Became, SameMoney
<1>10. Types'
  BY <1>5, <1>7, <1>9, TypesFrom DEF Shapes
<1> QED
  BY <1>1, <1>2, <1>3, <1>4, <1>6, <1>9, <1>10

-----------------------------------------------------------------------------
(***************************************************************************)
(* Handlers that share an email or a key have met.                         *)
(***************************************************************************)
\* A customer that was made stays made.
Lasting == \A c \in Customers : customer[c].state # "unused" => customer'[c].state # "unused"

LEMMA OnwardOK ==
  ASSUME Lasting, NEW g \in Requests, HandlerOK(req[g]), Onward(g)
  PROVE  HandlerOK(req[g])'
<1>1. req[g].dup # None => req[g].dup \in Customers
  BY DEF HandlerOK
<1> QED
  BY <1>1 DEF HandlerOK, Onward, Lasting

LEMMA HandlersMove ==
  ASSUME HandlersInv, Lasting, NEW h \in Requests, NEW r, Moves(h, r), HandlerOK(r)',
         \A g \in Requests \ {h} : Share(r, req[g]) => ~ req'[g].clean /\ ~ req'[h].clean
  PROVE  HandlersInv'
<1>1. ASSUME NEW g \in Requests PROVE HandlerOK(req[g])'
  <2>1. CASE g = h
    BY <2>1 DEF Moves, Became, HandlerOK
  <2>2. CASE g # h
    BY <2>2, OnwardOK DEF Moves, HandlersInv
  <2> QED
    BY <2>1, <2>2
<1>2. ASSUME NEW g \in Requests, NEW k \in Requests, g # k, Share(req'[g], req'[k]) PROVE ~ req'[g].clean
  <2>1. CASE g # h /\ k # h
    BY <1>2, <2>1 DEF HandlersInv, Apart, Moves, Onward, Share
  <2>2. CASE g = h
    BY <1>2, <2>2 DEF Moves, Became, Onward, Share
  <2>3. CASE k = h
    BY <1>2, <2>3 DEF Moves, Became, Onward, Share
  <2> QED
    BY <2>1, <2>2, <2>3
<1>3. Apart'
  BY <1>2 DEF Apart, Share
<1> QED
  BY <1>1, <1>3 DEF HandlersInv

LEMMA HandlersEnter ==
  ASSUME HandlersInv, UNCHANGED customer, NEW h \in Requests, NEW r, Entered(h, r), HandlerOK(r)
  PROVE  HandlersInv'
<1>1. ASSUME NEW g \in Requests \ {h}, Share(r, req[g]) PROVE ~ req'[g].clean /\ ~ req'[h].clean
  <2>1. req[g].pc # "idle"
    BY <1>1 DEF HandlersInv, HandlerOK, Share
  <2> QED
    BY <1>1, <2>1 DEF Entered, Conflict, Share
<1>2. HandlerOK(r)' /\ Lasting
  BY DEF HandlerOK, Lasting
<1> QED
  BY <1>1, <1>2, HandlersMove DEF Entered

LEMMA HandlersLeave ==
  ASSUME HandlersInv, Lasting, NEW h \in Requests, Moves(h, Idle)
  PROVE  HandlersInv'
<1>1. HandlerOK(Idle)'
  BY DEF HandlerOK, Idle, Quoting, Merging
<1>2. \A g \in Requests : ~ Share(Idle, req[g])
  BY DEF Share, Idle
<1> QED
  BY <1>1, <1>2, HandlersMove

LEMMA HandlersAdvance ==
  ASSUME HandlersInv, Lasting, NEW h \in Requests, NEW r, NEW pc, Advances(h, r, pc),
         (req[h].pc = "quote" /\ pc = "conclude") \/ (req[h].pc = "sum" /\ pc = "merge")
  PROVE  HandlersInv'
<1>1. HandlerOK(req[h])
  BY DEF HandlersInv
<1>2. HandlerOK(r)'
  <2>1. r.dup # None => r.dup \in Customers
    BY <1>1 DEF Advances, HandlerOK
  <2> QED
    BY <1>1, <2>1 DEF Advances, HandlerOK, Lasting, Quoting, Merging
<1>3. \A g \in Requests \ {h} : Share(r, req[g]) => ~ req'[g].clean /\ ~ req'[h].clean
  <2> SUFFICES ASSUME NEW g \in Requests \ {h}, Share(r, req[g]) PROVE ~ req'[g].clean /\ ~ req'[h].clean
    OBVIOUS
  <2>1. Share(req[h], req[g]) /\ Share(req[g], req[h])
    BY DEF Advances, Share
  <2>2. ~ req[h].clean /\ ~ req[g].clean
    BY <2>1 DEF HandlersInv, Apart
  <2> QED
    BY <2>2 DEF Advances, Moves, Became, Onward
<1> QED
  BY <1>2, <1>3, HandlersMove DEF Advances

LEMMA GivesEmailLasts == ASSUME NEW h, NEW c, GivesEmail(h, c) PROVE Lasting
  BY DEF GivesEmail, Lasting

LEMMA HandlersMoney ==
  ASSUME HandlersInv, UNCHANGED customer, NEW h \in Requests, NEW r, Entered(h, r), MovesMoney(h, r)
  PROVE  HandlersInv'
<1>1. r.dup = None
  BY DEF MovesMoney, HandlersInv, HandlerOK, Merging
<1>2. HandlerOK(r)
  BY <1>1 DEF MovesMoney, HandlerOK, Quoting, Merging
<1> QED
  BY <1>2, HandlersEnter

LEMMA HandlersCustomers ==
  ASSUME Types, HandlersInv, NEW h \in Requests, NEW e \in Emails,
         BeginCreate(h, e) \/ \E c \in Customers : BeginEdit(h, c, e)
  PROVE  Types' /\ HandlersInv'
<1>1. CASE BeginCreate(h, e)
  <2>1. Types' /\ UNCHANGED customer
    BY <1>1, BeginCreateDoes DEF BeginCreate
  <2>2. PICK r : /\ Entered(h, r) /\ r.pc = "insert" /\ r.email = e /\ r.c = None /\ r.dup = None /\ r.key = None
    BY <1>1, BeginCreateDoes
  <2>3. HandlerOK(r)
    BY <2>2 DEF HandlerOK, Quoting, Merging
  <2> QED
    BY <2>1, <2>2, <2>3, HandlersEnter
<1>2. ASSUME NEW c \in Customers, BeginEdit(h, c, e) PROVE Types' /\ HandlersInv'
  <2>1. Types' /\ UNCHANGED customer
    BY <1>2, BeginEditDoes DEF BeginEdit
  <2>2. PICK r : /\ Entered(h, r) /\ r.pc = "edit" /\ r.email = e /\ r.c = c /\ r.dup = None /\ r.key = None
    BY <1>2, BeginEditDoes
  <2>3. HandlerOK(r)
    BY <2>2 DEF HandlerOK, Quoting, Merging
  <2> QED
    BY <2>1, <2>2, <2>3, HandlersEnter
<1> QED
  BY <1>1, <1>2

LEMMA HandlersQuotes ==
  ASSUME Types, HandlersInv, NEW h \in Requests,
         Find(h) \/ Quote(h) \/ Conclude(h) \/ Abort(h) \/ \E k \in Keys, e \in Emails : Submit(h, k, e)
  PROVE  Types' /\ HandlersInv'
<1>1. ASSUME NEW k \in Keys, NEW e \in Emails, Submit(h, k, e) PROVE Types' /\ HandlersInv'
  <2>1. Types' /\ UNCHANGED customer
    BY <1>1, SubmitDoes DEF Submit
  <2>2. PICK r : /\ Entered(h, r) /\ r.pc = "find" /\ r.email = e /\ r.key = k
                 /\ r.c = None /\ r.dup = None /\ ~ r.knowing
    BY <1>1, SubmitDoes
  <2>3. HandlerOK(r)
    BY <2>2 DEF HandlerOK, Quoting, Merging
  <2> QED
    BY <2>1, <2>2, <2>3, HandlersEnter
<1>2. CASE Find(h)
  <2>1. Types' /\ UNCHANGED customer /\ req[h].pc = "find"
    BY <1>2, FindDoes DEF Find
  <2>2. PICK r : /\ Entered(h, r) /\ r.pc = "quote" /\ r.email = req[h].email /\ r.key = req[h].key
                 /\ r.dup = req[h].dup /\ r.knowing = req[h].knowing
    BY <1>2, FindDoes
  <2>3. HandlerOK(r)
    BY <2>1, <2>2 DEF HandlersInv, HandlerOK, Quoting, Merging
  <2> QED
    BY <2>1, <2>2, <2>3, HandlersEnter
<1>3. CASE Quote(h)
  <2>1. Types' /\ req[h].pc = "quote" /\ \E d \in Docs, c \in Customers : QuotesFor(h, d, c)
    BY <1>3, QuoteDoes DEF Quote
  <2>2. Lasting
    BY <2>1, GivesEmailLasts DEF QuotesFor, Lasting
  <2> QED
    BY <1>3, <2>1, <2>2, QuoteDoes, HandlersAdvance
<1>4. CASE Conclude(h)
  BY <1>4, ConcludeDoes, HandlersLeave DEF Lasting
<1>5. CASE Abort(h)
  BY <1>5, AbortDoes, HandlersLeave DEF Lasting
<1> QED
  BY <1>1, <1>2, <1>3, <1>4, <1>5

LEMMA HandlersMerges ==
  ASSUME Types, HandlersInv, NEW h \in Requests,
         Move(h) \/ Sum(h) \/ Merge(h) \/ \E c, dup \in Customers : BeginMerge(h, c, dup)
  PROVE  Types' /\ HandlersInv'
<1>1. ASSUME NEW c \in Customers, NEW dup \in Customers, BeginMerge(h, c, dup) PROVE Types' /\ HandlersInv'
  <2>1. Types' /\ UNCHANGED customer /\ c # dup /\ customer[dup].state # "unused"
    BY <1>1, BeginMergeDoes DEF BeginMerge, Live
  <2>2. PICK r : /\ Entered(h, r) /\ r.pc = "move" /\ r.c = c /\ r.dup = dup /\ r.email = None /\ r.key = None
    BY <1>1, BeginMergeDoes
  <2>3. HandlerOK(r)
    BY <2>1, <2>2 DEF HandlerOK, Quoting, Merging
  <2> QED
    BY <2>1, <2>2, <2>3, HandlersEnter
<1>2. CASE Move(h)
  <2>1. Types' /\ UNCHANGED customer /\ req[h].pc = "move"
    BY <1>2, MoveDoes DEF Move
  <2>2. PICK r : /\ Entered(h, r) /\ r.pc = "sum" /\ r.c = req[h].c /\ r.dup = req[h].dup
                 /\ r.email = req[h].email /\ r.key = req[h].key
    BY <1>2, MoveDoes
  <2>3. HandlerOK(r)
    BY <2>1, <2>2 DEF HandlersInv, HandlerOK, Quoting, Merging
  <2> QED
    BY <2>1, <2>2, <2>3, HandlersEnter
<1>3. CASE Sum(h)
  BY <1>3, SumDoes, HandlersAdvance DEF Lasting
<1>4. CASE Merge(h)
  <2>1. Lasting
    BY <1>4, MergeDoes DEF Lasting
  <2> QED
    BY <1>4, <2>1, MergeDoes, HandlersLeave
<1> QED
  BY <1>1, <1>2, <1>3, <1>4

LEMMA HandlersPayments ==
  ASSUME Types, HandlersInv, NEW h \in Requests,
         \/ Pay(h) \/ Return(h) \/ BeginDelete(h) \/ Strike(h) \/ Delete(h)
         \/ (\E a \in Amounts : BeginPay(h, a)) \/ \E p \in Payments : BeginReturn(h, p)
  PROVE  Types' /\ HandlersInv'
<1>1. CASE Pay(h) \/ Return(h) \/ Delete(h)
  <2>1. Types' /\ Moves(h, Idle) /\ SameCustomers
    BY <1>1, PayDoes, ReturnDoes, DeleteDoes
  <2> QED
    BY <2>1, HandlersLeave DEF SameCustomers, Lasting
<1>2. CASE \/ BeginDelete(h) \/ Strike(h)
           \/ (\E a \in Amounts : BeginPay(h, a)) \/ \E p \in Payments : BeginReturn(h, p)
  <2>1. Types' /\ \E r : Entered(h, r) /\ MovesMoney(h, r)
    BY <1>2, BeginDeleteDoes, StrikeDoes, BeginPayDoes, BeginReturnDoes
  <2>2. UNCHANGED customer
    BY <1>2 DEF BeginDelete, Strike, BeginPay, BeginReturn
  <2> QED
    BY <2>1, <2>2, HandlersMoney
<1> QED
  BY <1>1, <1>2

\* No handler moves, and no customer that was made is unmade.
LEMMA HandlersUntouched ==
  ASSUME HandlersInv, Lasting, UNCHANGED req
  PROVE  HandlersInv'
<1>1. ASSUME NEW g \in Requests PROVE HandlerOK(req[g])'
  BY OnwardOK DEF HandlersInv, Onward, SameMoney
<1> QED
  BY <1>1 DEF HandlersInv, Apart, Share

\* An answer expires.
LEMMA ForgetDoes ==
  ASSUME Types, NEW k \in Keys, Forget(k)
  PROVE  /\ Types' /\ UNCHANGED <<customer, doc, payment, req, drifted, strays, twins>>
         /\ answered' = answered \ {k} /\ excused' = excused \cup {k}
<1>1. UNCHANGED <<customer, doc, payment, req>>
  BY DEF Forget
<1>2. Types'
  BY <1>1 DEF Types, Shapes
<1> QED
  BY <1>2 DEF Forget

LEMMA NextHandlers == Types /\ HandlersInv /\ [Next]_vars => Types' /\ HandlersInv'
<1> SUFFICES ASSUME Types, HandlersInv, [Next]_vars PROVE Types' /\ HandlersInv'
  OBVIOUS
<1>1. ASSUME NEW c \in Customers, SoftDelete(c) PROVE Types' /\ HandlersInv'
  <2>1. Types' /\ UNCHANGED req
    BY <1>1, SoftDeleteDoes
  <2>2. Lasting
    BY <1>1, SoftDeleteDoes DEF Lasting
  <2> QED
    BY <2>1, <2>2, HandlersUntouched
<1>2. ASSUME NEW c \in Customers, NEW d \in Docs, NewInvoice(c, d) PROVE Types' /\ HandlersInv'
  BY <1>2, NewInvoiceDoes, HandlersUntouched DEF Lasting
<1>3. CASE UNCHANGED vars
  <2>1. UNCHANGED <<customer, doc, payment, req>>
    BY <1>3 DEF vars
  <2>2. Types'
    BY <2>1 DEF Types, Shapes
  <2> QED
    BY <2>1, <2>2, HandlersUntouched DEF Lasting
<1>4. ASSUME NEW h \in Requests, Insert(h) \/ Edit(h) PROVE Types' /\ HandlersInv'
  BY <1>4, InsertDoes, EditDoes, GivesEmailLasts, HandlersLeave
<1>6. ASSUME NEW k \in Keys, Forget(k) PROVE Types' /\ HandlersInv'
  BY <1>6, ForgetDoes, HandlersUntouched DEF Lasting
<1>5. CASE Next
  BY <1>1, <1>2, <1>4, <1>5, <1>6, HandlersCustomers, HandlersQuotes, HandlersMerges, HandlersPayments DEF Next
<1> QED
  BY <1>3, <1>5

LEMMA InitHandlers == Init => Types /\ HandlersInv
<1> SUFFICES ASSUME Init PROVE Types /\ HandlersInv
  OBVIOUS
<1>1. \A h \in Requests : req[h] = Idle
  BY DEF Init
<1>2. HandlersInv
  BY <1>1 DEF HandlersInv, Apart, HandlerOK, Share, Idle, Quoting, Merging
<1>3. Shapes({0})
  BY IdleIsHandler DEF Init, Shapes, CustomerRow, CustomerState
<1>4. doc \in [Docs -> DocRow] /\ payment \in [Payments -> PaymentRow]
  BY DEF Init, DocRow, DocState, PaymentRow, PaymentStatus
<1> QED
  BY <1>2, <1>3, <1>4 DEF Types

-----------------------------------------------------------------------------
(***************************************************************************)
(* Emails: a handler that alone looked for an email, and was not told to   *)
(* go on, finds it as free when it writes as when it looked.               *)
(***************************************************************************)
Emailing(r) == r.pc \in {"insert", "edit"} \/ (r.pc = "quote" /\ r.c = None)
Searched(h) == Emailing(req[h]) /\ req[h].clean /\ ~ req[h].knowing

OneEach == \A e \in Emails \ twins : \A c, d \in Customers :
    Live(c) /\ Live(d) /\ customer[c].email = e /\ customer[d].email = e => c = d

EmailInv ==
    /\ OneEach
    /\ \A h \in Requests : Searched(h) => ~ Clash(req[h].email, req[h].c)

LEMMA EachIsOne == OneEach => OneCustomerPerEmail
<1> SUFFICES ASSUME OneEach, NEW e \in Emails \ twins
             PROVE  Cardinality({c \in Customers : Live(c) /\ customer[c].email = e}) <= 1
  BY DEF OneCustomerPerEmail
<1> DEFINE S == {c \in Customers : Live(c) /\ customer[c].email = e}
<1>1. CASE S = {}
  <2>1. Cardinality(S) = 0
    BY <1>1, FS_EmptySet
  <2> QED
    BY <2>1
<1>2. CASE S # {}
  <2>1. PICK c : c \in S
    BY <1>2
  <2>2. S = {c}
    BY <2>1 DEF OneEach
  <2>3. Cardinality(S) = 1
    BY <2>2, FS_Singleton
  <2> QED
    BY <2>3
<1> QED
  BY <1>1, <1>2

\* No customer comes to have an email.
Fewer == \A c \in Customers : Live(c)' => Live(c) /\ customer'[c].email = customer[c].email

LEMMA EmailKept ==
  ASSUME EmailInv, Fewer, twins \subseteq twins', NEW h \in Requests, NEW r, Moves(h, r),
         Emailing(r) /\ r.clean /\ ~ r.knowing => ~ Clash(r.email, r.c)
  PROVE  EmailInv'
<1>1. OneEach'
  BY DEF EmailInv, OneEach, Fewer
<1>2. ASSUME NEW g \in Requests, Searched(g)' PROVE ~ Clash(req'[g].email, req'[g].c)
  <2>1. CASE g = h
    BY <1>2, <2>1 DEF Searched, Emailing, Moves, Became
  <2>2. CASE g # h
    BY <1>2, <2>2 DEF EmailInv, Searched, Emailing, Moves, Onward
  <2> QED
    BY <2>1, <2>2
<1>3. ASSUME NEW g \in Requests, Searched(g)' PROVE ~ Clash(req[g].email, req[g].c)'
  BY <1>2, <1>3 DEF Clash, Fewer
<1> QED
  BY <1>1, <1>3 DEF EmailInv

LEMMA EmailUntouched ==
  ASSUME EmailInv, Fewer, twins \subseteq twins', UNCHANGED req
  PROVE  EmailInv'
<1>1. OneEach'
  BY DEF EmailInv, OneEach, Fewer
<1>2. ASSUME NEW g \in Requests, Searched(g)' PROVE ~ Clash(req[g].email, req[g].c)'
  BY <1>2 DEF EmailInv, Searched, Emailing, Clash, Fewer
<1> QED
  BY <1>1, <1>2 DEF EmailInv

\* A customer is given an email: either nobody has it, or two are known to.
LEMMA EmailGiven ==
  ASSUME HandlersInv, EmailInv, NEW h \in Requests, NEW r, Moves(h, r), ~ Emailing(r), Emailing(req[h]),
         NEW c \in Customers, GivesEmail(h, c), twins' = Twinned(h), req[h].c \in {c, None}
  PROVE  EmailInv'
<1>1. req[h].email \in Emails
  BY DEF HandlersInv, HandlerOK, Emailing
<1>2. Searched(h) => \A d \in Customers \ {c} : Live(d) => customer[d].email # req[h].email
  BY NoneAssumption DEF EmailInv, Clash
<1>3. req[h].email \notin twins' => Searched(h)
  BY DEF Twinned, Searched
<1>4. twins \subseteq twins'
  BY DEF Twinned
<1>5. \A d \in Customers \ {c} : customer'[d] = customer[d]
  BY DEF GivesEmail
<1>6. customer'[c].email = req[h].email
  BY DEF GivesEmail
<1>7. ASSUME NEW e \in Emails \ twins', NEW a \in Customers, NEW b \in Customers,
             Live(a)', Live(b)', customer'[a].email = e, customer'[b].email = e
      PROVE  a = b
  <2>1. CASE e = req[h].email
    <3>1. \A d \in Customers \ {c} : ~ (Live(d)' /\ customer'[d].email = e)
      BY <1>2, <1>3, <1>5, <2>1 DEF Live
    <3> QED
      BY <1>7, <3>1
  <2>2. CASE e # req[h].email
    <3>1. a # c /\ b # c
      BY <1>6, <1>7, <2>2
    <3>2. Live(a) /\ Live(b) /\ customer[a].email = e /\ customer[b].email = e
      BY <1>5, <1>7, <3>1 DEF Live
    <3> QED
      BY <1>4, <3>2 DEF EmailInv, OneEach
  <2> QED
    BY <2>1, <2>2
<1>8. OneEach'
  BY <1>7 DEF OneEach
<1>9. ASSUME NEW g \in Requests, Searched(g)' PROVE ~ Clash(req[g].email, req[g].c)'
  <2>1. g # h
    BY <1>9 DEF Searched, Emailing, Moves, Became
  <2>2. Onward(g)
    BY <2>1 DEF Moves
  <2>3. Searched(g)
    BY <1>9, <2>2 DEF Searched, Emailing, Onward
  <2>4. req[g].email # req[h].email
    BY <1>1, <2>1, <2>3, NoneAssumption DEF HandlersInv, Apart, Share, Searched
  <2>5. ASSUME NEW d \in Customers \ {req[g].c}, Live(d)', customer'[d].email = req[g].email PROVE FALSE
    <3>1. d # c
      BY <1>6, <2>4, <2>5
    <3>2. Live(d) /\ customer[d].email = req[g].email
      BY <1>5, <2>5, <3>1 DEF Live
    <3> QED
      BY <2>3, <3>2 DEF EmailInv, Clash
  <2> QED
    BY <2>2, <2>5 DEF Clash, Onward
<1> QED
  BY <1>8, <1>9 DEF EmailInv

LEMMA IdleEmailsNobody == ~ Emailing(Idle)
  BY DEF Emailing, Idle

LEMMA NextEmail == Types /\ HandlersInv /\ EmailInv /\ [Next]_vars => EmailInv'
<1> SUFFICES ASSUME Types, HandlersInv, EmailInv, [Next]_vars PROVE EmailInv'
  OBVIOUS
<1>1. ASSUME NEW c \in Customers, SoftDelete(c) PROVE EmailInv'
  <2>1. Fewer /\ UNCHANGED <<req, twins>>
    BY <1>1, SoftDeleteDoes DEF Fewer, Live, ghostVars
  <2> QED
    BY <2>1, EmailUntouched
<1>2. ASSUME NEW c \in Customers, NEW d \in Docs, NewInvoice(c, d) PROVE EmailInv'
  BY <1>2, EmailUntouched DEF NewInvoice, Fewer, Live
<1>3. CASE UNCHANGED vars
  BY <1>3, EmailUntouched DEF vars, Fewer, Live
<1>4. ASSUME NEW h \in Requests, NEW e \in Emails, BeginCreate(h, e) PROVE EmailInv'
  <2>1. Fewer /\ UNCHANGED twins
    BY <1>4 DEF BeginCreate, ghostVars, Fewer, Live
  <2>2. PICK r : Entered(h, r) /\ r.email = e /\ r.c = None /\ (Clash(e, None) => r.knowing)
    BY <1>4, BeginCreateDoes
  <2> QED
    BY <2>1, <2>2, EmailKept DEF Entered
<1>5. ASSUME NEW h \in Requests, NEW c \in Customers, NEW e \in Emails, BeginEdit(h, c, e) PROVE EmailInv'
  <2>1. Fewer /\ UNCHANGED twins
    BY <1>5 DEF BeginEdit, ghostVars, Fewer, Live
  <2>2. PICK r : Entered(h, r) /\ r.email = e /\ r.c = c /\ (Clash(e, c) => r.knowing)
    BY <1>5, BeginEditDoes
  <2> QED
    BY <2>1, <2>2, EmailKept DEF Entered
<1>6. ASSUME NEW h \in Requests, Insert(h) PROVE EmailInv'
  <2>1. req[h].pc = "insert" /\ twins' = Twinned(h)
    BY <1>6 DEF Insert
  <2>2. Emailing(req[h]) /\ req[h].c = None
    BY <2>1 DEF Emailing, HandlersInv, HandlerOK
  <2> QED
    BY <1>6, <2>1, <2>2, InsertDoes, IdleEmailsNobody, EmailGiven
<1>7. ASSUME NEW h \in Requests, Edit(h) PROVE EmailInv'
  <2>1. req[h].pc = "edit" /\ twins' = Twinned(h)
    BY <1>7 DEF Edit
  <2>2. Emailing(req[h]) /\ req[h].c \in Customers
    BY <2>1 DEF Emailing, HandlersInv, HandlerOK
  <2> QED
    BY <1>7, <2>1, <2>2, EditDoes, IdleEmailsNobody, EmailGiven
<1>8. ASSUME NEW h \in Requests, Find(h) PROVE EmailInv'
  <2>1. Fewer /\ UNCHANGED twins
    BY <1>8 DEF Find, ghostVars, Fewer, Live
  <2>2. PICK r : Entered(h, r) /\ r.pc = "quote" /\ r.email = req[h].email
                 /\ (r.c \in Customers \/ ~ Clash(req[h].email, None))
    BY <1>8, FindDoes
  <2>3. Emailing(r) => ~ Clash(r.email, r.c)
    BY <2>2, NoneAssumption DEF Emailing
  <2> QED
    BY <2>1, <2>2, <2>3, EmailKept DEF Entered
<1>9. ASSUME NEW h \in Requests, Quote(h) PROVE EmailInv'
  <2>1. PICK r : Advances(h, r, "conclude")
    BY <1>9, QuoteDoes
  <2>2. PICK d \in Docs, c \in Customers : QuotesFor(h, d, c)
    BY <1>9, QuoteDoes
  <2>3. Moves(h, r) /\ ~ Emailing(r) /\ req[h].pc = "quote"
    BY <1>9, <2>1 DEF Advances, Emailing, Quote
  <2>4. CASE UNCHANGED <<customer, twins>>
    BY <2>3, <2>4, EmailKept DEF Fewer, Live
  <2>5. CASE req[h].c = None /\ GivesEmail(h, c) /\ twins' = Twinned(h)
    BY <2>3, <2>5, EmailGiven DEF Emailing
  <2> QED
    BY <2>2, <2>4, <2>5 DEF QuotesFor
<1>10. ASSUME NEW h \in Requests, Conclude(h) \/ Abort(h) PROVE EmailInv'
  <2>1. Moves(h, Idle) /\ UNCHANGED <<customer, twins>>
    BY <1>10, ConcludeDoes, AbortDoes DEF ghostVars
  <2> QED
    BY <2>1, EmailKept, IdleEmailsNobody DEF Fewer, Live
<1>11. ASSUME NEW h \in Requests, NEW k \in Keys, NEW e \in Emails, Submit(h, k, e) PROVE EmailInv'
  <2>1. Fewer /\ UNCHANGED twins
    BY <1>11 DEF Submit, ghostVars, Fewer, Live
  <2>2. PICK r : Entered(h, r) /\ r.pc = "find"
    BY <1>11, SubmitDoes
  <2> QED
    BY <2>1, <2>2, EmailKept DEF Entered, Emailing
<1>12. ASSUME NEW h \in Requests, Move(h) \/ \E c, dup \in Customers : BeginMerge(h, c, dup) PROVE EmailInv'
  <2>1. Fewer /\ UNCHANGED twins
    BY <1>12 DEF Move, BeginMerge, ghostVars, Fewer, Live
  <2>2. PICK r : Entered(h, r) /\ r.pc \in {"sum", "move"}
    BY <1>12, MoveDoes, BeginMergeDoes
  <2> QED
    BY <2>1, <2>2, EmailKept DEF Entered, Emailing
<1>13. ASSUME NEW h \in Requests, Sum(h) PROVE EmailInv'
  <2>1. Fewer /\ UNCHANGED twins
    BY <1>13 DEF Sum, ghostVars, Fewer, Live
  <2>2. PICK r : Advances(h, r, "merge")
    BY <1>13, SumDoes
  <2> QED
    BY <2>1, <2>2, EmailKept DEF Advances, Emailing
<1>14. ASSUME NEW h \in Requests, Merge(h) PROVE EmailInv'
  <2>1. Fewer
    BY <1>14, MergeDoes DEF Fewer, Live
  <2> QED
    BY <1>14, <2>1, MergeDoes, EmailKept, IdleEmailsNobody
<1>15. ASSUME NEW h \in Requests, Pay(h) \/ Return(h) \/ Delete(h) PROVE EmailInv'
  <2>1. SameCustomers /\ Moves(h, Idle) /\ UNCHANGED twins
    BY <1>15, PayDoes, ReturnDoes, DeleteDoes
  <2>2. Fewer
    BY <2>1 DEF SameCustomers, Fewer, Live
  <2> QED
    BY <2>1, <2>2, EmailKept, IdleEmailsNobody
<1>16. ASSUME NEW h \in Requests,
              \/ BeginDelete(h) \/ Strike(h)
              \/ (\E a \in Amounts : BeginPay(h, a)) \/ \E p \in Payments : BeginReturn(h, p)
       PROVE  EmailInv'
  <2>1. PICK r : Entered(h, r) /\ MovesMoney(h, r)
    BY <1>16, BeginDeleteDoes, StrikeDoes, BeginPayDoes, BeginReturnDoes
  <2>2. Fewer /\ UNCHANGED twins
    BY <1>16 DEF BeginDelete, Strike, BeginPay, BeginReturn, ghostVars, Fewer, Live
  <2> QED
    BY <2>1, <2>2, EmailKept DEF Entered, Emailing, MovesMoney
<1>17. ASSUME NEW k \in Keys, Forget(k) PROVE EmailInv'
  BY <1>17, ForgetDoes, EmailUntouched DEF Fewer, Live
<1> QED
  BY <1>1, <1>2, <1>3, <1>4, <1>5, <1>6, <1>7, <1>8, <1>9, <1>10, <1>11, <1>12, <1>13, <1>14, <1>15, <1>16, <1>17
  DEF Next

LEMMA InitEmail == Init => EmailInv
<1> SUFFICES ASSUME Init PROVE EmailInv
  OBVIOUS
<1>1. \A c \in Customers : customer[c].email \notin Emails
  BY NoneAssumption DEF Init
<1>2. \A h \in Requests : ~ Searched(h)
  BY IdleEmailsNobody DEF Init, Searched
<1> QED
  BY <1>1, <1>2 DEF EmailInv, OneEach

-----------------------------------------------------------------------------
(***************************************************************************)
(* Keys: an estimate with a key was made by a submission whose answer is   *)
(* kept, or is about to be; who is alone with the key has found neither.   *)
(***************************************************************************)
KeyedOnce == \A k \in Keys \ excused : \A d, e \in Docs : doc[d].key = k /\ doc[e].key = k => d = e

Concluding(k) == \E h \in Requests : req[h].pc = "conclude" /\ req[h].key = k

AnswerKept == \A k \in Keys \ excused : \A d \in Docs : doc[d].key = k => k \in answered \/ Concluding(k)

NotYet(h) ==
    req[h].pc \in {"find", "quote"} /\ req[h].clean /\ req[h].key \notin excused =>
        \A d \in Docs : doc[d].key # req[h].key

KeyInv == KeyedOnce /\ AnswerKept /\ \A h \in Requests : NotYet(h)

LEMMA KeyedIsOne == KeyedOnce => QuotedOnce
<1> SUFFICES ASSUME KeyedOnce, NEW k \in Keys \ excused PROVE Cardinality({d \in Docs : doc[d].key = k}) <= 1
  BY DEF QuotedOnce
<1> DEFINE S == {d \in Docs : doc[d].key = k}
<1>1. CASE S = {}
  <2>1. Cardinality(S) = 0
    BY <1>1, FS_EmptySet
  <2> QED
    BY <2>1
<1>2. CASE S # {}
  <2>1. PICK d : d \in S
    BY <1>2
  <2>2. S = {d}
    BY <2>1 DEF KeyedOnce
  <2>3. Cardinality(S) = 1
    BY <2>2, FS_Singleton
  <2> QED
    BY <2>3
<1> QED
  BY <1>1, <1>2

\* No document comes to have a key.
FewerKeyed == \A d \in Docs : doc'[d].key = doc[d].key \/ doc'[d].key = None

LEMMA KeyKept ==
  ASSUME HandlersInv, HandlersInv', KeyInv, FewerKeyed, answered \subseteq answered', excused \subseteq excused',
         NEW h \in Requests, NEW r, Moves(h, r),
         req[h].pc = "conclude" => req[h].key \in answered' \cup excused',
         r.pc \in {"find", "quote"} /\ req'[h].clean /\ r.key \notin excused => \A d \in Docs : doc[d].key # r.key
  PROVE  KeyInv'
<1>1. KeyedOnce'
  BY NoneAssumption DEF KeyInv, KeyedOnce, FewerKeyed
<1>2. ASSUME NEW k \in Keys \ excused', NEW d \in Docs, doc'[d].key = k PROVE k \in answered' \/ Concluding(k)'
  <2>1. doc[d].key = k
    BY <1>2, NoneAssumption DEF FewerKeyed
  <2>2. CASE k \in answered
    BY <2>2
  <2>3. ASSUME NEW g \in Requests, req[g].pc = "conclude", req[g].key = k PROVE k \in answered' \/ Concluding(k)'
    <3>1. CASE g = h
      BY <2>3, <3>1
    <3>2. CASE g # h
      BY <2>3, <3>2 DEF Moves, Onward, Concluding
    <3> QED
      BY <3>1, <3>2
  <2> QED
    BY <2>1, <2>2, <2>3 DEF KeyInv, AnswerKept, Concluding
<1>3. ASSUME NEW g \in Requests, req'[g].pc \in {"find", "quote"}, req'[g].clean, req'[g].key \notin excused'
      PROVE  req'[g].key # None /\ \A d \in Docs : doc[d].key # req'[g].key
  <2>1. req'[g].key # None
    BY <1>3, NoneAssumption DEF HandlersInv, HandlerOK, Quoting
  <2>2. CASE g = h
    BY <1>3, <2>1, <2>2 DEF Moves, Became
  <2>3. CASE g # h
    BY <1>3, <2>1, <2>3 DEF Moves, Onward, KeyInv, NotYet
  <2> QED
    BY <2>2, <2>3
<1>4. \A g \in Requests : NotYet(g)'
  BY <1>3 DEF NotYet, FewerKeyed
<1> QED
  BY <1>1, <1>2, <1>4 DEF KeyInv, AnswerKept

\* The estimate of a submission is made: the key has one, and whoever has the same key
\* has met the handler that made it.
LEMMA KeyGiven ==
  ASSUME HandlersInv, KeyInv, NEW h \in Requests, NEW r, Advances(h, r, "conclude"), req[h].pc = "quote",
         NEW d \in Docs, doc'[d].key = req[h].key, \A x \in Docs \ {d} : doc'[x] = doc[x],
         excused' = (IF req[h].clean THEN excused ELSE excused \cup {req[h].key}), UNCHANGED answered
  PROVE  KeyInv'
<1>1. PICK key \in Keys : key = req[h].key
  BY DEF HandlersInv, HandlerOK, Quoting
<1>2. req'[h].pc = "conclude" /\ req'[h].key = key
  BY <1>1 DEF Advances, Moves, Became
<1>3. key \notin excused' => \A x \in Docs : doc[x].key # key
  BY <1>1 DEF KeyInv, NotYet
<1>4. excused \subseteq excused'
  OBVIOUS
<1>5. ASSUME NEW k \in Keys \ excused', NEW x \in Docs, NEW y \in Docs, doc'[x].key = k, doc'[y].key = k PROVE x = y
  BY <1>1, <1>3, <1>4, <1>5 DEF KeyInv, KeyedOnce
<1>6. KeyedOnce'
  BY <1>5 DEF KeyedOnce
<1>7. ASSUME NEW k \in Keys \ excused', NEW x \in Docs, doc'[x].key = k PROVE k \in answered' \/ Concluding(k)'
  <2>1. CASE k = key
    BY <1>2, <2>1 DEF Concluding
  <2>2. CASE k # key
    <3>1. doc[x].key = k
      BY <1>1, <1>7, <2>2
    <3>2. CASE k \in answered
      BY <3>2
    <3>3. ASSUME NEW g \in Requests, req[g].pc = "conclude", req[g].key = k PROVE Concluding(k)'
      <4>1. g # h
        BY <3>3
      <4> QED
        BY <3>3, <4>1 DEF Advances, Moves, Onward, Concluding
    <3> QED
      BY <1>4, <3>1, <3>2, <3>3 DEF KeyInv, AnswerKept, Concluding
  <2> QED
    BY <2>1, <2>2
<1>8. ASSUME NEW g \in Requests, req'[g].pc \in {"find", "quote"}, req'[g].clean, req'[g].key \notin excused'
      PROVE  \A x \in Docs : doc'[x].key # req'[g].key
  <2>1. g # h
    BY <1>2, <1>8
  <2>2. Onward(g)
    BY <2>1 DEF Advances, Moves
  <2>3. req[g].key # key
    BY <1>1, <1>8, <2>1, <2>2, NoneAssumption DEF HandlersInv, Apart, Share, Onward
  <2>4. \A x \in Docs : doc[x].key # req[g].key
    BY <1>4, <1>8, <2>2 DEF KeyInv, NotYet, Onward
  <2> QED
    BY <1>1, <2>2, <2>3, <2>4 DEF Onward
<1>9. \A g \in Requests : NotYet(g)'
  BY <1>8 DEF NotYet
<1> QED
  BY <1>6, <1>7, <1>9 DEF KeyInv, AnswerKept

LEMMA KeyUntouched ==
  ASSUME KeyInv, FewerKeyed, UNCHANGED <<req, answered, excused>>, HandlersInv
  PROVE  KeyInv'
<1>1. KeyedOnce'
  BY NoneAssumption DEF KeyInv, KeyedOnce, FewerKeyed
<1>2. AnswerKept'
  BY NoneAssumption DEF KeyInv, AnswerKept, FewerKeyed, Concluding
<1>3. ASSUME NEW g \in Requests PROVE NotYet(g)'
  BY NoneAssumption DEF KeyInv, NotYet, FewerKeyed, HandlersInv, HandlerOK, Quoting
<1> QED
  BY <1>1, <1>2, <1>3 DEF KeyInv

\* An answer expires, and nothing is said of its key any more.
LEMMA KeyForgotten ==
  ASSUME KeyInv, UNCHANGED <<doc, req>>, NEW k, answered' = answered \ {k}, excused' = excused \cup {k}
  PROVE  KeyInv'
<1>1. KeyedOnce'
  BY DEF KeyInv, KeyedOnce
<1>2. AnswerKept'
  BY DEF KeyInv, AnswerKept, Concluding
<1>3. ASSUME NEW g \in Requests PROVE NotYet(g)'
  BY DEF KeyInv, NotYet
<1> QED
  BY <1>1, <1>2, <1>3 DEF KeyInv

\* A handler enters that is not a submission.
LEMMA KeyEnter ==
  ASSUME HandlersInv, HandlersInv', KeyInv, UNCHANGED <<doc, answered, excused>>,
         NEW h \in Requests, NEW r, Entered(h, r), r.pc \notin {"find", "quote"}, req[h].pc # "conclude"
  PROVE  KeyInv'
  BY KeyKept DEF Entered, FewerKeyed

LEMMA NextKey == Types /\ HandlersInv /\ HandlersInv' /\ KeyInv /\ [Next]_vars => KeyInv'
<1> SUFFICES ASSUME Types, HandlersInv, HandlersInv', KeyInv, [Next]_vars PROVE KeyInv'
  OBVIOUS
<1>1. ASSUME NEW c \in Customers, SoftDelete(c) PROVE KeyInv'
  BY <1>1, KeyUntouched DEF SoftDelete, ghostVars, FewerKeyed
<1>2. ASSUME NEW c \in Customers, NEW d \in Docs, NewInvoice(c, d) PROVE KeyInv'
  <2>1. FewerKeyed /\ UNCHANGED <<req, answered, excused>>
    BY <1>2, NewInvoiceDoes DEF FewerKeyed
  <2> QED
    BY <2>1, KeyUntouched
<1>3. CASE UNCHANGED vars
  BY <1>3, KeyUntouched DEF vars, FewerKeyed
<1>4. ASSUME NEW h \in Requests, NEW e \in Emails, BeginCreate(h, e) \/ \E c \in Customers : BeginEdit(h, c, e) PROVE KeyInv'
  <2>1. UNCHANGED <<doc, answered, excused>> /\ req[h].pc = "idle"
    BY <1>4 DEF BeginCreate, BeginEdit, ghostVars
  <2>2. PICK r : Entered(h, r) /\ r.pc \in {"insert", "edit"}
    BY <1>4, BeginCreateDoes, BeginEditDoes
  <2> QED
    BY <2>1, <2>2, KeyEnter
<1>5. ASSUME NEW h \in Requests, Insert(h) \/ Edit(h) PROVE KeyInv'
  <2>1. UNCHANGED <<doc, answered, excused>> /\ req[h].pc # "conclude"
    BY <1>5 DEF Insert, Edit
  <2>2. Moves(h, Idle) /\ Idle.pc = "idle"
    BY <1>5, InsertDoes, EditDoes DEF Idle
  <2> QED
    BY <2>1, <2>2, KeyKept DEF FewerKeyed
<1>6. ASSUME NEW h \in Requests, NEW k \in Keys, NEW e \in Emails, Submit(h, k, e) PROVE KeyInv'
  <2>1. UNCHANGED <<doc, answered, excused>> /\ req[h].pc = "idle" /\ k \notin answered
    BY <1>6 DEF Submit, ghostVars, Cached
  <2>2. PICK r : Entered(h, r) /\ r.pc = "find" /\ r.key = k
    BY <1>6, SubmitDoes
  <2>3. ASSUME req'[h].clean, k \notin excused, NEW d \in Docs, doc[d].key = k PROVE FALSE
    <3>1. PICK g \in Requests : req[g].pc = "conclude" /\ req[g].key = k
      BY <2>1, <2>3 DEF KeyInv, AnswerKept, Concluding
    <3>2. g # h
      BY <2>1, <3>1
    <3>3. Conflict(r, req[g])
      BY <2>2, <3>1, NoneAssumption DEF Conflict
    <3> QED
      BY <2>2, <2>3, <3>2, <3>3 DEF Entered
  <2> QED
    BY <2>1, <2>2, <2>3, KeyKept DEF Entered, FewerKeyed
<1>7. ASSUME NEW h \in Requests, Find(h) PROVE KeyInv'
  <2>1. UNCHANGED <<doc, answered, excused>> /\ req[h].pc = "find"
    BY <1>7 DEF Find, ghostVars
  <2>2. PICK r : Entered(h, r) /\ r.pc = "quote" /\ r.key = req[h].key /\ r.clean = req[h].clean
    BY <1>7, FindDoes
  <2>3. req'[h].clean => req[h].clean
    BY <2>2 DEF Entered, Moves, Became
  <2>4. r.pc \in {"find", "quote"} /\ req'[h].clean /\ r.key \notin excused => \A d \in Docs : doc[d].key # r.key
    BY <2>1, <2>2, <2>3 DEF KeyInv, NotYet
  <2> QED
    BY <2>1, <2>2, <2>4, KeyKept DEF Entered, FewerKeyed
<1>8. ASSUME NEW h \in Requests, Quote(h) PROVE KeyInv'
  <2>1. PICK r : Advances(h, r, "conclude")
    BY <1>8, QuoteDoes
  <2>2. PICK d \in Docs : doc'[d].key = req[h].key /\ \A x \in Docs \ {d} : doc'[x] = doc[x]
    BY <1>8, QuoteDoes DEF QuotesFor
  <2>3. /\ req[h].pc = "quote" /\ UNCHANGED answered
        /\ excused' = (IF req[h].clean THEN excused ELSE excused \cup {req[h].key})
    BY <1>8, QuoteDoes DEF Quote
  <2> QED
    BY <2>1, <2>2, <2>3, KeyGiven
<1>9. ASSUME NEW h \in Requests, Conclude(h) \/ Abort(h) PROVE KeyInv'
  <2>1. Moves(h, Idle) /\ UNCHANGED doc /\ Idle.pc = "idle"
    BY <1>9, ConcludeDoes, AbortDoes DEF Idle
  <2>2. answered \subseteq answered' /\ excused \subseteq excused'
    BY <1>9, ConcludeDoes, AbortDoes DEF ghostVars
  <2>3. req[h].pc = "conclude" => req[h].key \in answered' \cup excused'
    BY <1>9, ConcludeDoes, AbortDoes
  <2> QED
    BY <2>1, <2>2, <2>3, KeyKept DEF FewerKeyed
<1>10. ASSUME NEW h \in Requests, Move(h) \/ \E c, dup \in Customers : BeginMerge(h, c, dup) PROVE KeyInv'
  <2>1. UNCHANGED <<doc, answered, excused>> /\ req[h].pc # "conclude"
    BY <1>10 DEF Move, BeginMerge, ghostVars
  <2>2. PICK r : Entered(h, r) /\ r.pc \in {"sum", "move"}
    BY <1>10, MoveDoes, BeginMergeDoes
  <2> QED
    BY <2>1, <2>2, KeyEnter
<1>11. ASSUME NEW h \in Requests, Sum(h) PROVE KeyInv'
  <2>1. UNCHANGED <<doc, answered, excused>> /\ req[h].pc = "sum"
    BY <1>11 DEF Sum, ghostVars
  <2>2. PICK r : Moves(h, r) /\ r.pc = "merge"
    BY <1>11, SumDoes DEF Advances
  <2> QED
    BY <2>1, <2>2, KeyKept DEF FewerKeyed
<1>12. ASSUME NEW h \in Requests, Merge(h) \/ Pay(h) \/ Return(h) \/ Delete(h) PROVE KeyInv'
  <2>1. UNCHANGED <<answered, excused>> /\ Moves(h, Idle) /\ req[h].pc # "conclude" /\ Idle.pc = "idle"
    BY <1>12, MergeDoes, PayDoes, ReturnDoes, DeleteDoes DEF Idle
  <2>2. FewerKeyed
    BY <1>12, MergeDoes, PayDoes, ReturnDoes, DeleteDoes DEF FewerKeyed
  <2> QED
    BY <2>1, <2>2, KeyKept
<1>13. ASSUME NEW h \in Requests,
              \/ BeginDelete(h) \/ Strike(h)
              \/ (\E a \in Amounts : BeginPay(h, a)) \/ \E p \in Payments : BeginReturn(h, p)
       PROVE  KeyInv'
  <2>1. PICK r : Entered(h, r) /\ MovesMoney(h, r)
    BY <1>13, BeginDeleteDoes, StrikeDoes, BeginPayDoes, BeginReturnDoes
  <2>2. UNCHANGED <<doc, answered, excused>> /\ req[h].pc # "conclude"
    BY <1>13 DEF BeginDelete, Strike, BeginPay, BeginReturn, ghostVars
  <2> QED
    BY <2>1, <2>2, KeyEnter DEF MovesMoney
<1>14. ASSUME NEW k \in Keys, Forget(k) PROVE KeyInv'
  BY <1>14, ForgetDoes, KeyForgotten
<1> QED
  BY <1>1, <1>2, <1>3, <1>4, <1>5, <1>6, <1>7, <1>8, <1>9, <1>10, <1>11, <1>12, <1>13, <1>14 DEF Next

LEMMA InitKey == Init => KeyInv
<1> SUFFICES ASSUME Init PROVE KeyInv
  OBVIOUS
<1>1. \A d \in Docs : doc[d].key = None
  BY DEF Init
<1>2. \A h \in Requests : req[h] = Idle
  BY DEF Init
<1> QED
  BY <1>1, <1>2, NoneAssumption DEF KeyInv, KeyedOnce, AnswerKept, NotYet, Idle

-----------------------------------------------------------------------------
(***************************************************************************)
(* Merging: between reading the rows of the customer it folds away and     *)
(* moving them, a merge has all of that customer's rows but the strays.    *)
(***************************************************************************)
DocOf(d, c) == doc[d].state = "there" /\ doc[d].owner = c
PayOf(p, c) == There(p) /\ payment[p].owner = c

EmptyWhenMerged ==
    \A c \in Customers : customer[c].state = "merged" =>
        /\ \A d \in Docs : DocOf(d, c) => d \in strays
        /\ \A p \in Payments : PayOf(p, c) => p \in strays

RowsRead(h) ==
    req[h].pc \in {"sum", "merge"} =>
        /\ \A d \in Docs : DocOf(d, req[h].dup) => d \in req[h].docs \cup strays
        /\ \A p \in Payments : PayOf(p, req[h].dup) => p \in req[h].pays \cup strays

MergeInv == EmptyWhenMerged /\ \A h \in Requests : RowsRead(h)

\* Merged away, or about to be.
Folding(c) == customer[c].state = "merged" \/ \E g \in Requests : req[g].dup = c

LEMMA FoldingIsStray == ASSUME NEW c, Folding(c) PROVE Stray(c)
  BY DEF Folding, Stray, Live

\* Such a customer gains no row but strays.
NothingGained ==
    \A c \in Customers : Folding(c) =>
        /\ \A d \in Docs : DocOf(d, c)' => DocOf(d, c) \/ d \in strays'
        /\ \A p \in Payments : PayOf(p, c)' => PayOf(p, c) \/ p \in strays'

\* A customer that is merged away in this step has no row left but strays.
EmptiedWhenMerged ==
    \A c \in Customers : customer'[c].state = "merged" =>
        \/ customer[c].state = "merged"
        \/ /\ \A d \in Docs : DocOf(d, c)' => d \in strays'
           /\ \A p \in Payments : PayOf(p, c)' => p \in strays'

LEMMA MergedStayEmpty ==
  ASSUME MergeInv, NothingGained, EmptiedWhenMerged, strays \subseteq strays'
  PROVE  EmptyWhenMerged'
<1> SUFFICES ASSUME NEW c \in Customers, customer'[c].state = "merged"
             PROVE  /\ \A d \in Docs : DocOf(d, c)' => d \in strays'
                    /\ \A p \in Payments : PayOf(p, c)' => p \in strays'
  BY DEF EmptyWhenMerged
<1>1. CASE customer[c].state = "merged"
  <2>1. Folding(c)
    BY <1>1 DEF Folding
  <2> QED
    BY <1>1, <2>1 DEF MergeInv, EmptyWhenMerged, NothingGained
<1>2. CASE customer[c].state # "merged"
  BY <1>2 DEF EmptiedWhenMerged
<1> QED
  BY <1>1, <1>2

LEMMA OnwardRead ==
  ASSUME HandlersInv, MergeInv, NothingGained, strays \subseteq strays', NEW g \in Requests, Onward(g)
  PROVE  RowsRead(g)'
<1> SUFFICES ASSUME req[g].pc \in {"sum", "merge"} PROVE RowsRead(g)'
  BY DEF RowsRead, Onward
<1>1. PICK c \in Customers : c = req[g].dup
  BY DEF HandlersInv, HandlerOK, Merging
<1>2. Folding(c)
  BY <1>1 DEF Folding
<1>3. /\ \A d \in Docs : DocOf(d, c) => d \in req[g].docs \cup strays
      /\ \A p \in Payments : PayOf(p, c) => p \in req[g].pays \cup strays
  BY <1>1 DEF MergeInv, RowsRead
<1>4. /\ \A d \in Docs : DocOf(d, c)' => d \in req'[g].docs \cup strays'
      /\ \A p \in Payments : PayOf(p, c)' => p \in req'[g].pays \cup strays'
  BY <1>2, <1>3 DEF NothingGained, Onward
<1>5. req'[g].dup = c
  BY <1>1 DEF Onward
<1> QED
  BY <1>4, <1>5 DEF RowsRead, DocOf, PayOf

LEMMA MergeMoves ==
  ASSUME HandlersInv, MergeInv, NothingGained, EmptiedWhenMerged, strays \subseteq strays',
         NEW h \in Requests, NEW r, Moves(h, r), r.pc \notin {"sum", "merge"}
  PROVE  MergeInv'
<1>1. RowsRead(h)'
  BY DEF RowsRead, Moves, Became
<1>2. \A g \in Requests \ {h} : RowsRead(g)'
  BY OnwardRead DEF Moves
<1> QED
  BY <1>1, <1>2, MergedStayEmpty DEF MergeInv

\* No row and no customer changes.
LEMMA NothingMoved ==
  ASSUME UNCHANGED <<doc, payment, strays>>, \A c \in Customers : customer'[c].state = "merged" => customer[c].state = "merged"
  PROVE  NothingGained /\ EmptiedWhenMerged
  BY DEF NothingGained, EmptiedWhenMerged, DocOf, PayOf, There

LEMMA MergeEnter ==
  ASSUME HandlersInv, MergeInv, UNCHANGED <<customer, doc, payment, strays>>,
         NEW h \in Requests, NEW r, Entered(h, r), r.pc \notin {"sum", "merge"}
  PROVE  MergeInv'
  BY NothingMoved, MergeMoves DEF Entered

LEMMA MergeUntouched ==
  ASSUME HandlersInv, MergeInv, NothingGained, EmptiedWhenMerged, strays \subseteq strays', UNCHANGED req
  PROVE  MergeInv'
<1>1. \A g \in Requests : RowsRead(g)'
  BY OnwardRead DEF Onward, SameMoney
<1> QED
  BY <1>1, MergedStayEmpty DEF MergeInv

LEMMA MergeByMove ==
  ASSUME Types, HandlersInv, MergeInv, NEW h \in Requests, Move(h)
  PROVE  MergeInv'
<1>1. PICK r : /\ Entered(h, r) /\ r.dup = req[h].dup
               /\ r.docs = {d \in Docs : doc[d].state = "there" /\ doc[d].owner = req[h].dup}
               /\ r.pays = OwnedPays(req[h].dup)
  BY MoveDoes
<1>2. UNCHANGED <<customer, doc, payment, strays>>
  BY DEF Move, ghostVars
<1>3. NothingGained /\ EmptiedWhenMerged
  BY <1>2, NothingMoved
<1>4. RowsRead(h)'
  <2>1. req'[h].dup = req[h].dup /\ req'[h].docs = r.docs /\ req'[h].pays = r.pays
    BY <1>1 DEF Entered, Moves, Became
  <2> QED
    BY <1>1, <1>2, <2>1 DEF RowsRead, DocOf, PayOf, There, OwnedPays
<1>5. \A g \in Requests \ {h} : RowsRead(g)'
  BY <1>1, <1>2, <1>3, OnwardRead DEF Entered, Moves
<1> QED
  BY <1>2, <1>3, <1>4, <1>5, MergedStayEmpty DEF MergeInv

LEMMA MergeBySum ==
  ASSUME Types, HandlersInv, MergeInv, NEW h \in Requests, Sum(h)
  PROVE  MergeInv'
<1>1. PICK r : Advances(h, r, "merge")
  BY SumDoes
<1>2. UNCHANGED <<customer, doc, payment, strays>> /\ req[h].pc = "sum"
  BY DEF Sum, ghostVars
<1>3. NothingGained /\ EmptiedWhenMerged
  BY <1>2, NothingMoved
<1>4. req'[h].dup = req[h].dup /\ req'[h].docs = req[h].docs /\ req'[h].pays = req[h].pays
  BY <1>1 DEF Advances, Moves, Became
<1>5. RowsRead(h)'
  BY <1>2, <1>4 DEF MergeInv, RowsRead, DocOf, PayOf, There
<1>6. \A g \in Requests \ {h} : RowsRead(g)'
  BY <1>1, <1>2, <1>3, OnwardRead DEF Advances, Moves
<1> QED
  BY <1>2, <1>3, <1>5, <1>6, MergedStayEmpty DEF MergeInv

\* What was read moves to the other customer; had that one been merged away too, or were
\* it about to be, the rows are strays.
LEMMA MergeByMerge ==
  ASSUME Types, HandlersInv, MergeInv, NEW h \in Requests, Merge(h)
  PROVE  MergeInv'
<1>1. PICK dup \in Customers : dup = req[h].dup
  BY DEF HandlersInv, HandlerOK, Merging, Merge
<1>2. PICK c : c = req[h].c
  OBVIOUS
<1>3. c # dup
  BY <1>1, <1>2 DEF HandlersInv, HandlerOK, Merging, Merge
<1>4. /\ Moves(h, Idle) /\ req[h].pc = "merge"
      /\ \A x \in Customers \ {dup} : customer'[x].state = customer[x].state
      /\ \A d \in Docs : doc'[d].state = doc[d].state /\ doc'[d].owner = IF d \in req[h].docs THEN c ELSE doc[d].owner
      /\ \A p \in Payments : payment'[p].status = payment[p].status
                             /\ payment'[p].owner = IF p \in req[h].pays THEN c ELSE payment[p].owner
      /\ strays' = IF Stray(c) THEN strays \cup req[h].docs \cup req[h].pays ELSE strays
  BY <1>1, <1>2, MergeDoes
<1>5. /\ \A d \in Docs : DocOf(d, dup) => d \in req[h].docs \cup strays
      /\ \A p \in Payments : PayOf(p, dup) => p \in req[h].pays \cup strays
  BY <1>1, <1>4 DEF MergeInv, RowsRead
<1>6. NothingGained
  BY <1>4, FoldingIsStray DEF NothingGained, DocOf, PayOf, There
<1>7. EmptiedWhenMerged
  BY <1>3, <1>4, <1>5 DEF EmptiedWhenMerged, DocOf, PayOf, There
<1>8. strays \subseteq strays' /\ Idle.pc = "idle"
  BY <1>4 DEF Idle
<1> QED
  BY <1>4, <1>6, <1>7, <1>8, MergeMoves

LEMMA MergeByQuote ==
  ASSUME Types, HandlersInv, MergeInv, NEW h \in Requests, Quote(h)
  PROVE  MergeInv'
<1>1. PICK r : Advances(h, r, "conclude")
  BY QuoteDoes
<1>2. PICK d \in Docs, c \in Customers : QuotesFor(h, d, c)
  BY QuoteDoes
<1>3. UNCHANGED payment /\ doc'[d].owner = c /\ \A x \in Docs \ {d} : doc'[x] = doc[x]
  BY <1>2, QuoteDoes DEF QuotesFor
<1>4. strays \subseteq strays' /\ (Folding(c) => d \in strays')
  <2>1. customer[c].state = "unused" => ~ Folding(c)
    <3>1. \A g \in Requests : req[g].dup = c => customer[c].state # "unused"
      BY NoneAssumption DEF HandlersInv, HandlerOK
    <3> QED
      BY <3>1 DEF Folding
  <2> QED
    BY <1>2, <2>1, FoldingIsStray DEF QuotesFor
<1>5. NothingGained
  BY <1>3, <1>4 DEF NothingGained, DocOf, PayOf, There
<1>6. EmptiedWhenMerged
  BY <1>2 DEF EmptiedWhenMerged, QuotesFor, GivesEmail
<1>7. Moves(h, r) /\ r.pc \notin {"sum", "merge"}
  BY <1>1 DEF Advances
<1> QED
  BY <1>4, <1>5, <1>6, <1>7, MergeMoves

LEMMA MergeByPayments ==
  ASSUME Types, HandlersInv, MergeInv, NEW h \in Requests, Pay(h) \/ Return(h) \/ Delete(h)
  PROVE  MergeInv'
<1>1. Moves(h, Idle) /\ SameCustomers /\ Idle.pc = "idle"
  BY PayDoes, ReturnDoes, DeleteDoes DEF Idle
<1>2. EmptiedWhenMerged
  BY <1>1 DEF EmptiedWhenMerged, SameCustomers
<1>3. CASE Pay(h)
  <2>1. PICK p \in Payments :
            /\ payment'[p].owner = req[h].c /\ \A q \in Payments \ {p} : payment'[q] = payment[q]
            /\ strays' = IF Stray(req[h].c) THEN strays \cup {p} ELSE strays
    BY <1>3, PayDoes
  <2>2. UNCHANGED doc /\ strays \subseteq strays'
    BY <1>3, <2>1, PayDoes
  <2>3. NothingGained
    BY <2>1, <2>2, FoldingIsStray DEF NothingGained, DocOf, PayOf, There
  <2> QED
    BY <1>1, <1>2, <2>2, <2>3, MergeMoves
<1>4. CASE Return(h) \/ Delete(h)
  <2>1. /\ UNCHANGED strays
        /\ \A q \in Payments : payment'[q].owner = payment[q].owner /\ (There(q)' => There(q))
    BY <1>4, ReturnDoes, DeleteDoes
  <2>2. \A d \in Docs : doc'[d].state = "there" => doc[d].state = "there" /\ doc'[d].owner = doc[d].owner
    BY <1>4, ReturnDoes, DeleteDoes
  <2>3. NothingGained
    BY <2>1, <2>2 DEF NothingGained, DocOf, PayOf
  <2> QED
    BY <1>1, <1>2, <2>1, <2>3, MergeMoves
<1> QED
  BY <1>3, <1>4

LEMMA NextMerge == Types /\ HandlersInv /\ MergeInv /\ [Next]_vars => MergeInv'
<1> SUFFICES ASSUME Types, HandlersInv, MergeInv, [Next]_vars PROVE MergeInv'
  OBVIOUS
<1>1. ASSUME NEW c \in Customers, SoftDelete(c) PROVE MergeInv'
  <2>1. UNCHANGED <<doc, payment, strays, req>>
    BY <1>1, SoftDeleteDoes DEF ghostVars
  <2>2. \A x \in Customers : customer'[x].state = "merged" => customer[x].state = "merged"
    BY <1>1, SoftDeleteDoes
  <2> QED
    BY <2>1, <2>2, NothingMoved, MergeUntouched
<1>2. ASSUME NEW c \in Customers, NEW d \in Docs, NewInvoice(c, d) PROVE MergeInv'
  <2>1. UNCHANGED <<customer, payment, req>> /\ strays \subseteq strays'
    BY <1>2, NewInvoiceDoes
  <2>2. NothingGained
    BY <1>2, NewInvoiceDoes, FoldingIsStray DEF NothingGained, DocOf, PayOf, There
  <2>3. EmptiedWhenMerged
    BY <2>1 DEF EmptiedWhenMerged
  <2> QED
    BY <2>1, <2>2, <2>3, MergeUntouched
<1>3. CASE UNCHANGED vars
  BY <1>3, NothingMoved, MergeUntouched DEF vars
<1>4. ASSUME NEW h \in Requests,
             \/ \E e \in Emails : BeginCreate(h, e) \/ (\E c \in Customers : BeginEdit(h, c, e))
                                  \/ \E k \in Keys : Submit(h, k, e)
             \/ Find(h) \/ \E c, dup \in Customers : BeginMerge(h, c, dup)
      PROVE  MergeInv'
  <2>1. UNCHANGED <<customer, doc, payment, strays>>
    BY <1>4 DEF BeginCreate, BeginEdit, Submit, Find, BeginMerge, ghostVars
  <2>2. \E r : Entered(h, r) /\ r.pc \notin {"sum", "merge"}
    BY <1>4, BeginCreateDoes, BeginEditDoes, SubmitDoes, FindDoes, BeginMergeDoes
  <2> QED
    BY <2>1, <2>2, MergeEnter
<1>5. ASSUME NEW h \in Requests,
             \/ BeginDelete(h) \/ Strike(h)
             \/ (\E a \in Amounts : BeginPay(h, a)) \/ \E p \in Payments : BeginReturn(h, p)
      PROVE  MergeInv'
  <2>1. PICK r : Entered(h, r) /\ MovesMoney(h, r)
    BY <1>5, BeginDeleteDoes, StrikeDoes, BeginPayDoes, BeginReturnDoes
  <2>2. UNCHANGED <<customer, doc, payment, strays>>
    BY <1>5 DEF BeginDelete, Strike, BeginPay, BeginReturn, ghostVars
  <2> QED
    BY <2>1, <2>2, MergeEnter DEF MovesMoney
<1>6. ASSUME NEW h \in Requests, Insert(h) \/ Edit(h) PROVE MergeInv'
  <2>1. UNCHANGED <<doc, payment, strays>>
    BY <1>6 DEF Insert, Edit
  <2>2. PICK c : Moves(h, Idle) /\ GivesEmail(h, c)
    BY <1>6, InsertDoes, EditDoes
  <2>3. \A x \in Customers : customer'[x].state = "merged" => customer[x].state = "merged"
    BY <2>2 DEF GivesEmail
  <2> QED
    BY <2>1, <2>2, <2>3, NothingMoved, MergeMoves DEF Idle
<1>7. ASSUME NEW h \in Requests, Conclude(h) \/ Abort(h) PROVE MergeInv'
  <2>1. UNCHANGED <<customer, doc, payment, strays>> /\ Moves(h, Idle)
    BY <1>7, ConcludeDoes, AbortDoes DEF ghostVars
  <2> QED
    BY <2>1, NothingMoved, MergeMoves DEF Idle
<1>8. ASSUME NEW k \in Keys, Forget(k) PROVE MergeInv'
  BY <1>8, ForgetDoes, NothingMoved, MergeUntouched
<1> QED
  BY <1>1, <1>2, <1>3, <1>4, <1>5, <1>6, <1>7, <1>8, MergeByMove, MergeBySum, MergeByMerge, MergeByQuote, MergeByPayments
  DEF Next

LEMMA InitMerge == Init => MergeInv
  BY DEF Init, MergeInv, EmptyWhenMerged, RowsRead, Idle

-----------------------------------------------------------------------------
(***************************************************************************)
(* The theorems.                                                           *)
(***************************************************************************)
RecordsInv == Types /\ HandlersInv /\ EmailInv /\ KeyInv /\ MergeInv

\* The invariants hold together, for any customers, emails, documents, payments and keys.
THEOREM Invariance == Spec => []RecordsInv
<1>1. Init => RecordsInv
  BY InitHandlers, InitEmail, InitKey, InitMerge DEF RecordsInv
<1>2. RecordsInv /\ [Next]_vars => RecordsInv'
  BY NextHandlers, NextEmail, NextKey, NextMerge DEF RecordsInv
<1> QED
  BY <1>1, <1>2, PTL DEF Spec

\* OneCustomerPerEmail: create, update, findOrCreateByEmail and the public quote give an
\* email to a second live customer only if staff acknowledged it or two wrote at once.
THEOREM EmailsHaveOneCustomer == Spec => []OneCustomerPerEmail
<1>1. RecordsInv => OneCustomerPerEmail
  BY EachIsOne DEF RecordsInv, EmailInv
<1> QED
  BY <1>1, Invariance, PTL

\* QuotedOnce: a submission sent again with its idempotency key, within the day that Redis
\* keeps its answer, makes no second estimate, unless both were in flight at once or the
\* first failed after its commit.
THEOREM SubmissionsQuotedOnce == Spec => []QuotedOnce
<1>1. RecordsInv => QuotedOnce
  BY KeyedIsOne DEF RecordsInv, KeyInv
<1> QED
  BY <1>1, Invariance, PTL

\* MergedAwayIsEmpty: mergeCustomers leaves no estimate, invoice or payment behind, except
\* one put on the duplicate after the merge had read its rows.
THEOREM MergesLeaveNothing == Spec => []MergedAwayIsEmpty
<1>1. RecordsInv => MergedAwayIsEmpty
  BY DEF RecordsInv, MergeInv, EmptyWhenMerged, MergedAwayIsEmpty, DocOf, PayOf, OwnedPays
<1> QED
  BY <1>1, Invariance, PTL

-----------------------------------------------------------------------------
(***************************************************************************)
(* Money: the lifetime value of a customer is the sum of what is kept of   *)
(* the payments that a recount adds up.                                    *)
(*                                                                         *)
(* Two handlers that conflict have met, so a handler that met nobody still *)
(* finds the payment it returns as it read it, and the rows it has summed  *)
(* are those its customer has, or will have, when it writes the sum.       *)
(***************************************************************************)
Used(p)  == payment[p].status # "unused"
Known(c) == c \in Customers => customer[c].state # "unused"

Met == \A h, g \in Requests : h # g /\ Conflict(req[h], req[g]) => ~ req[h].clean

Locks == \A h, g \in Requests : h # g /\ Writing(h) /\ Writing(g) => req[h].pays \cap req[g].pays = {}

Placed(r) ==
    /\ Known(r.c) /\ r.total \in Nat
    /\ Recounts(r) \/ r.pc = "pay" => r.c \in r.on
    /\ r.pc = "pay" => r.after.status \in {"succeeded", "failed"}
    /\ r.pc \in Merging => r.dup \in r.on

\* What a return is to write of payment p.
GivesBack(r, p) ==
    /\ Used(p) /\ payment[p].owner \in r.on
    /\ r.after.refunded <= payment[p].amount
    /\ r.after.status \in {"refunded", "partially_refunded", "void"}
    /\ r.clean =>
          /\ payment[p].status \in {"succeeded", "partially_refunded"}
          /\ r.after.status = "void" => payment[p].status = "succeeded"
          /\ r.after.status = "void" => r.after.refunded = payment[p].refunded /\ r.amount = payment[p].amount
          /\ r.after.status # "void" => r.after.refunded = payment[p].refunded + r.amount

Holding(r) ==
    /\ r.pc = "return" => \E p \in Payments : r.pays = {p} /\ GivesBack(r, p)
    /\ r.pc \in {"sum", "merge"} => \A p \in r.pays : Used(p) /\ payment[p].owner = r.dup
    /\ r.pc = "delete" => \A p \in r.pays : Used(p) /\ payment[p].owner \in r.on

Exact(r) ==
    r.clean =>
      /\ r.pc \in Merging => r.on = {r.c, r.dup}
      /\ r.pc \in {"sum", "merge"} => OwnedPays(r.dup) \subseteq r.pays
      /\ r.pc = "merge" => r.total = Recount(OwnedPays(r.c) \cup r.pays)
      /\ r.pc = "delete" => r.total = Recount(OwnedPays(r.c) \ r.pays)

Carrying(r) == Placed(r) /\ Holding(r) /\ Exact(r)

RowsMoney ==
    /\ IsFiniteSet({p \in Payments : Used(p)})
    /\ \A p \in Payments : payment[p].refunded <= payment[p].amount /\ Known(payment[p].owner)
    /\ \A p \in Payments : payment[p].status = "succeeded" => payment[p].refunded = 0
    /\ \A d \in Docs : Known(doc[d].owner)

Collected(c) == Recount(OwnedPays(c))
LtvOK == \A c \in Customers : /\ customer[c].ltv \in Nat
                              /\ c \notin drifted => customer[c].ltv = Collected(c)

MoneyInv == RowsMoney /\ Met /\ Locks /\ LtvOK /\ \A h \in Requests : Carrying(req[h])

LEMMA MoneyIsCollected == ASSUME Types, LtvOK PROVE LtvIsCollected
<1>0. \A p \in Payments : payment[p].status \in PaymentStatus
  BY DEF Types, PaymentRow
<1>1. ASSUME NEW c \in Customers
      PROVE  {p \in OwnedPays(c) : payment[p].status \notin {"void", "failed"}} = {p \in OwnedPays(c) : payment[p].status \in Counted}
  BY <1>0 DEF OwnedPays, There, PaymentStatus, Counted
<1> QED
  BY <1>1 DEF LtvOK, LtvIsCollected, CollectedFrom, Collected, Recount

\* Conflicts only depend on these.
Alike(r, s) == r.pc = s.pc /\ r.on = s.on /\ r.pays = s.pays /\ r.email = s.email /\ r.key = s.key

LEMMA ConflictAlike ==
  ASSUME NEW r, NEW s, NEW q, NEW t, Alike(r, q), Alike(s, t), Conflict(r, s)
  PROVE  Conflict(q, t)
  BY DEF Alike, Conflict, Recounts

LEMMA ConflictBack == ASSUME NEW r, NEW s, Conflict(r, s) PROVE Conflict(s, r)
  BY DEF Conflict

\* The handlers that stay where they are have met as before.
LEMMA OthersMet ==
  ASSUME Met, NEW h \in Requests, \A g \in Requests \ {h} : Onward(g), Steady(h),
         NEW g \in Requests, NEW k \in Requests, g # h, k # h, g # k, Conflict(req'[g], req'[k])
  PROVE  ~ req'[g].clean
<1>1. Alike(req'[g], req[g]) /\ Alike(req'[k], req[k]) /\ (req'[g].clean => req[g].clean)
  BY DEF Onward, Steady, Alike
<1>2. Conflict(req[g], req[k])
  BY <1>1, ConflictAlike
<1> QED
  BY <1>1, <1>2 DEF Met

LEMMA MetMoves ==
  ASSUME Met, NEW h \in Requests, NEW r, Moves(h, r), Steady(h),
         \A g \in Requests \ {h} : Conflict(r, req[g]) => ~ req'[g].clean /\ ~ req'[h].clean
  PROVE  Met'
<1> SUFFICES ASSUME NEW g \in Requests, NEW k \in Requests, g # k, Conflict(req'[g], req'[k]) PROVE ~ req'[g].clean
  BY DEF Met, Conflict, Recounts
<1>1. CASE g # h /\ k # h
  BY <1>1, OthersMet DEF Moves
<1>2. Alike(req'[h], r) /\ \A x \in Requests \ {h} : Alike(req'[x], req[x])
  BY DEF Moves, Became, Onward, Steady, Alike
<1>3. CASE g = h
  <2>1. Conflict(r, req[k])
    BY <1>2, <1>3, ConflictAlike
  <2> QED
    BY <1>3, <2>1
<1>4. CASE k = h
  <2>1. Conflict(r, req[g])
    BY <1>2, <1>4, ConflictAlike, ConflictBack
  <2> QED
    BY <1>4, <2>1
<1> QED
  BY <1>1, <1>3, <1>4

LEMMA MetLeave == ASSUME Met, NEW h \in Requests, Moves(h, Idle), Steady(h) PROVE Met'
  BY MetMoves DEF Conflict, Idle

LEMMA MetAdvance ==
  ASSUME Met, NEW h \in Requests, NEW r, NEW pc, Advances(h, r, pc), req[h].pc # "idle", Recounts(r) => Recounts(req[h])
  PROVE  Met'
<1>1. ASSUME NEW g \in Requests \ {h}, Conflict(r, req[g]) PROVE ~ req'[g].clean /\ ~ req'[h].clean
  <2>1. Conflict(req[h], req[g])
    BY <1>1 DEF Conflict, Advances
  <2>2. ~ req[h].clean /\ ~ req[g].clean
    BY <2>1, ConflictBack DEF Met
  <2> QED
    BY <2>2 DEF Advances, Moves, Became, Onward
<1> QED
  BY <1>1, MetMoves DEF Advances

-----------------------------------------------------------------------------
\* Recounts, before and after a step.
RecountNext(ps) == SumFunctionOnSet(Kept', {p \in ps : payment'[p].status \in Counted})
NowOwned(p, c)  == payment'[p].status \notin {"unused", "gone"} /\ payment'[p].owner = c

LEMMA RowTypes ==
  ASSUME Types, NEW p \in Payments
  PROVE  /\ payment[p].status \in PaymentStatus /\ payment[p].owner \in Customers \cup {None}
         /\ payment[p].amount \in Nat /\ payment[p].refunded \in Nat
         /\ Kept[p] = payment[p].amount - payment[p].refunded
  BY DEF Types, PaymentRow, Kept

LEMMA CountedFinite ==
  ASSUME RowsMoney, NEW ps, ps \subseteq Payments
  PROVE  IsFiniteSet({p \in ps : payment[p].status \in Counted})
<1>1. {p \in ps : payment[p].status \in Counted} \subseteq {p \in Payments : Used(p)}
  BY DEF Used, Counted
<1> QED
  BY <1>1, FS_Subset DEF RowsMoney

LEMMA KeptIsNat == ASSUME Types, RowsMoney, NEW p \in Payments PROVE Kept[p] \in Nat
  BY RowTypes DEF RowsMoney

LEMMA RecountIsNat == ASSUME Types, RowsMoney, NEW ps, ps \subseteq Payments PROVE Recount(ps) \in Nat
<1>1. \A p \in {q \in ps : payment[q].status \in Counted} : Kept[p] \in Nat
  BY KeptIsNat
<1>2. IsFiniteSet({p \in ps : payment[p].status \in Counted})
  BY CountedFinite
<1> HIDE DEF Kept
<1> QED
  BY <1>1, <1>2, SumIsNat DEF Recount

\* The rows that are added up are the same, with the same in them.
LEMMA RecountKept ==
  ASSUME Types, Types', RowsMoney, NEW ps, NEW qs, ps \subseteq Payments, qs \subseteq Payments,
         \A p \in Payments : (p \in ps /\ payment[p].status \in Counted) <=> (p \in qs /\ payment'[p].status \in Counted),
         \A p \in ps : payment[p].status \in Counted =>
             payment'[p].amount = payment[p].amount /\ payment'[p].refunded = payment[p].refunded
  PROVE  RecountNext(qs) = Recount(ps)
<1> DEFINE S == {p \in ps : payment[p].status \in Counted}
<1>1. S = {p \in qs : payment'[p].status \in Counted}
  OBVIOUS
<1>2. \A p \in S : Kept[p] = (Kept')[p]
  BY DEF Kept
<1>3. IsFiniteSet(S)
  BY CountedFinite
<1>4. SumFunctionOnSet(Kept, S) = SumFunctionOnSet(Kept', S)
  <2> HIDE DEF S, Kept
  <2> QED
    BY <1>2, <1>3, SumOfSame
<1> QED
  BY <1>1, <1>4 DEF Recount, RecountNext

-----------------------------------------------------------------------------
\* What a step leaves alone of the rows that handler g has summed.
Aside(g) ==
    \A p \in Payments :
        \/ payment'[p] = payment[p]
        \/ ~ PayOf(p, req[g].c) /\ ~ NowOwned(p, req[g].c) /\ p \notin req[g].pays

\* What a step leaves alone of the rows that handler g has read or is to write.
Safe(g) ==
    /\ req[g].pc = "return" => \A p \in req[g].pays : payment'[p].owner \in req'[g].on
    /\ Writing(g) => \A p \in req[g].pays : payment'[p].owner = payment[p].owner
    /\ req'[g].clean =>
          /\ req[g].pc = "return" => \A p \in req[g].pays : payment'[p].status = payment[p].status
                                                            /\ payment'[p].refunded = payment[p].refunded
          /\ req[g].pc \in Merging => req'[g].on = req[g].on
          /\ req[g].pc \in {"sum", "merge"} => \A p \in Payments : NowOwned(p, req[g].dup) => PayOf(p, req[g].dup)
          /\ req[g].pc \in {"merge", "delete"} => Aside(g)

RowsStay == \A p \in Payments : Used(p) => Used(p)' /\ payment'[p].amount = payment[p].amount

LEMMA PlacedStays ==
  ASSUME Lasting, NEW g, Onward(g), Placed(req[g])
  PROVE  Placed(req[g])'
<1>1. Recounts(req'[g]) = Recounts(req[g])
  BY DEF Recounts, Onward
<1>2. Known(req[g].c)' /\ req'[g].total = req[g].total
  <2>1. PICK c : c = req[g].c
    OBVIOUS
  <2>2. req'[g].c = c
    BY <2>1 DEF Onward
  <2>3. Known(c) => Known(c)'
    BY DEF Known, Lasting
  <2> QED
    BY <2>1, <2>2, <2>3 DEF Onward, SameMoney, Placed, Known
<1>3. req'[g].after = req[g].after
  BY DEF Onward, SameMoney
<1> QED
  BY <1>1, <1>2, <1>3 DEF Placed, Onward, Merging

LEMMA HoldingStays ==
  ASSUME RowsStay, NEW g, Onward(g), Holding(req[g]), Safe(g), req[g].pays \subseteq Payments
  PROVE  Holding(req[g])'
<1> PICK r : r = req[g]
  OBVIOUS
<1> PICK s : s = req'[g]
  OBVIOUS
<1>0. /\ s.pc = r.pc /\ s.dup = r.dup /\ s.pays = r.pays /\ s.amount = r.amount /\ s.after = r.after
      /\ r.on \subseteq s.on /\ (s.clean => r.clean)
  BY DEF Onward, SameMoney
<1>1. ASSUME r.pc = "return" PROVE \E p \in Payments : s.pays = {p} /\ GivesBack(s, p)'
  <2>1. PICK p \in Payments : r.pays = {p} /\ GivesBack(r, p)
    BY <1>1 DEF Holding
  <2>2. Used(p)' /\ payment'[p].amount = payment[p].amount
    BY <2>1 DEF GivesBack, RowsStay
  <2>3. payment'[p].owner \in s.on
    BY <1>1, <2>1 DEF Safe
  <2>4. s.clean => payment'[p].status = payment[p].status /\ payment'[p].refunded = payment[p].refunded
    BY <1>1, <2>1 DEF Safe
  <2>5. GivesBack(s, p)'
    BY <1>0, <2>1, <2>2, <2>3, <2>4 DEF GivesBack
  <2> QED
    BY <1>0, <2>1, <2>5
<1>2. ASSUME r.pc \in {"sum", "merge"}, NEW p \in r.pays PROVE Used(p)' /\ payment'[p].owner = r.dup
  BY <1>2 DEF Holding, Safe, Writing, RowsStay
<1>3. ASSUME r.pc = "delete", NEW p \in r.pays PROVE Used(p)' /\ payment'[p].owner \in s.on
  BY <1>0, <1>3 DEF Holding, Safe, Writing, RowsStay
<1>4. Holding(s)'
  BY <1>0, <1>1, <1>2, <1>3 DEF Holding
<1> QED
  BY <1>4 DEF Holding, GivesBack

LEMMA ExactStays ==
  ASSUME Types, Types', RowsMoney, NEW g, Onward(g), Exact(req[g]), Safe(g), req[g].pays \subseteq Payments
  PROVE  Exact(req[g])'
<1>1. PICK r : r = req[g]
  OBVIOUS
<1>2. /\ req'[g].pc = r.pc /\ req'[g].c = r.c /\ req'[g].dup = r.dup /\ req'[g].pays = r.pays /\ req'[g].total = r.total
      /\ req'[g].clean => r.clean
  BY <1>1 DEF Onward, SameMoney
<1> SUFFICES ASSUME req'[g].clean
             PROVE  /\ r.pc \in Merging => req'[g].on = {r.c, r.dup}
                    /\ r.pc \in {"sum", "merge"} => OwnedPays(r.dup)' \subseteq r.pays
                    /\ r.pc = "merge" => r.total = Recount(OwnedPays(r.c) \cup r.pays)'
                    /\ r.pc = "delete" => r.total = Recount(OwnedPays(r.c) \ r.pays)'
  BY <1>2 DEF Exact, Recount, OwnedPays
<1>3. r.pc \in Merging => req'[g].on = {r.c, r.dup}
  BY <1>1, <1>2 DEF Exact, Safe
<1>4. ASSUME r.pc \in {"sum", "merge"} PROVE OwnedPays(r.dup)' \subseteq r.pays
  <2>1. \A p \in Payments : NowOwned(p, r.dup) => PayOf(p, r.dup)
    BY <1>1, <1>4 DEF Safe
  <2>2. OwnedPays(r.dup) \subseteq r.pays
    BY <1>1, <1>2, <1>4 DEF Exact
  <2> QED
    BY <2>1, <2>2 DEF OwnedPays, NowOwned, PayOf, There
<1>5. ASSUME r.pc \in {"merge", "delete"}
      PROVE  \A p \in Payments : payment'[p] = payment[p] \/ (~ PayOf(p, r.c) /\ ~ NowOwned(p, r.c) /\ p \notin r.pays)
  BY <1>1, <1>5 DEF Safe, Aside
<1>6. \A p \in Payments : /\ PayOf(p, r.c) <=> p \in OwnedPays(r.c)
                          /\ NowOwned(p, r.c) <=> p \in OwnedPays(r.c)'
                          /\ payment'[p] = payment[p] => (PayOf(p, r.c) <=> NowOwned(p, r.c))
  BY DEF PayOf, NowOwned, OwnedPays, There
<1>7. OwnedPays(r.c) \subseteq Payments /\ OwnedPays(r.c)' \subseteq Payments
  BY DEF OwnedPays
<1>8. ASSUME r.pc = "merge" PROVE r.total = Recount(OwnedPays(r.c) \cup r.pays)'
  <2>1. RecountNext(OwnedPays(r.c)' \cup r.pays) = Recount(OwnedPays(r.c) \cup r.pays)
    <3> DEFINE ps == OwnedPays(r.c) \cup r.pays
               qs == OwnedPays(r.c)' \cup r.pays
    <3>1. \A p \in Payments : (payment'[p] = payment[p] /\ (p \in ps <=> p \in qs)) \/ (p \notin ps /\ p \notin qs)
      BY <1>5, <1>6, <1>8
    <3>2. ps \subseteq Payments /\ qs \subseteq Payments
      BY <1>1, <1>7
    <3> HIDE DEF ps, qs
    <3>3. RecountNext(qs) = Recount(ps)
      BY <3>1, <3>2, RecountKept
    <3> QED
      BY <3>3 DEF ps, qs
  <2>2. Recount(OwnedPays(r.c) \cup r.pays)' = RecountNext(OwnedPays(r.c)' \cup r.pays)
    BY DEF Recount, RecountNext
  <2> QED
    BY <1>1, <1>2, <1>8, <2>1, <2>2 DEF Exact
<1>9. ASSUME r.pc = "delete" PROVE r.total = Recount(OwnedPays(r.c) \ r.pays)'
  <2>1. RecountNext(OwnedPays(r.c)' \ r.pays) = Recount(OwnedPays(r.c) \ r.pays)
    <3> DEFINE ps == OwnedPays(r.c) \ r.pays
               qs == OwnedPays(r.c)' \ r.pays
    <3>1. \A p \in Payments : (payment'[p] = payment[p] /\ (p \in ps <=> p \in qs)) \/ (p \notin ps /\ p \notin qs)
      BY <1>5, <1>6, <1>9
    <3>2. ps \subseteq Payments /\ qs \subseteq Payments
      BY <1>1, <1>7
    <3> HIDE DEF ps, qs
    <3>3. RecountNext(qs) = Recount(ps)
      BY <3>1, <3>2, RecountKept
    <3> QED
      BY <3>3 DEF ps, qs
  <2>2. Recount(OwnedPays(r.c) \ r.pays)' = RecountNext(OwnedPays(r.c)' \ r.pays)
    BY DEF Recount, RecountNext
  <2> QED
    BY <1>1, <1>2, <1>9, <2>1, <2>2 DEF Exact
<1> QED
  BY <1>3, <1>4, <1>8, <1>9

LEMMA CarriesOn ==
  ASSUME Types, Types', RowsMoney, RowsStay, Lasting, NEW g \in Requests, Onward(g), Safe(g), Carrying(req[g])
  PROVE  Carrying(req[g])'
<1>1. req[g].pays \subseteq Payments
  BY DEF Types, Shapes, Handler
<1> QED
  BY <1>1, PlacedStays, HoldingStays, ExactStays DEF Carrying

-----------------------------------------------------------------------------
\* The rows of r are written by nobody else.
Lockfree(h, r) ==
    r.pc \in {"sum", "merge", "delete"} =>
        \A g \in Requests \ {h} : Writing(g) => req[g].pays \cap r.pays = {}

LEMMA LocksMove ==
  ASSUME Locks, NEW h \in Requests, NEW r, Moves(h, r), Lockfree(h, r)
  PROVE  Locks'
<1> SUFFICES ASSUME NEW g \in Requests, NEW k \in Requests, g # k, Writing(g)', Writing(k)'
             PROVE  req'[g].pays \cap req'[k].pays = {}
  BY DEF Locks
<1>1. \A x \in Requests \ {h} : (Writing(x)' <=> Writing(x)) /\ req'[x].pays = req[x].pays
  BY DEF Moves, Onward, Writing
<1>2. req'[h].pays = r.pays /\ (Writing(h)' => r.pc \in {"sum", "merge", "delete"})
  BY DEF Moves, Became, Writing
<1>3. CASE g # h /\ k # h
  BY <1>1, <1>3 DEF Locks
<1>4. CASE g = h
  BY <1>1, <1>2, <1>4 DEF Lockfree
<1>5. CASE k = h
  BY <1>1, <1>2, <1>5 DEF Lockfree
<1> QED
  BY <1>3, <1>4, <1>5

\* A mark on a handler only takes away from what it promises.
LEMMA CarriesAs ==
  ASSUME NEW h, NEW r, Became(h, r), Carrying(r)'
  PROVE  Carrying(req[h])'
<1> PICK s : s = req'[h]
  OBVIOUS
<1>1. /\ s.pc = r.pc /\ s.c = r.c /\ s.dup = r.dup /\ s.pays = r.pays /\ s.on = r.on
      /\ s.amount = r.amount /\ s.after = r.after /\ s.total = r.total /\ (s.clean => r.clean)
  BY DEF Became, SameMoney
<1>2. Placed(s)'
  BY <1>1 DEF Carrying, Placed, Recounts
<1>3. Holding(s)'
  <2>1. \A p \in Payments : GivesBack(r, p)' => GivesBack(s, p)'
    BY <1>1 DEF GivesBack
  <2> QED
    BY <1>1, <2>1 DEF Carrying, Holding
<1>4. Exact(s)'
  BY <1>1 DEF Carrying, Exact
<1> QED
  BY <1>2, <1>3, <1>4 DEF Carrying, Placed, Holding, Exact, GivesBack, Recounts, Recount

LEMMA MoneyMoves ==
  ASSUME Types, Types', MoneyInv, RowsStay, Lasting, NEW h \in Requests, NEW r, Moves(h, r), Lockfree(h, r),
         \A g \in Requests \ {h} : Safe(g), RowsMoney', LtvOK', Met', Carrying(r)'
  PROVE  MoneyInv'
<1>1. ASSUME NEW g \in Requests PROVE Carrying(req[g])'
  <2>1. CASE g = h
    BY <2>1, CarriesAs DEF Moves
  <2>2. CASE g # h
    BY <2>2, CarriesOn DEF Moves, MoneyInv
  <2> QED
    BY <2>1, <2>2
<1>2. Locks'
  BY LocksMove DEF MoneyInv
<1> QED
  BY <1>1, <1>2 DEF MoneyInv

LEMMA IdleCarries == Carrying(Idle)
  BY NoneAssumption DEF Carrying, Placed, Holding, Exact, Idle, Known, Recounts, Merging

LEMMA IdleCarriesOn == Carrying(Idle)'
  BY NoneAssumption DEF Carrying, Placed, Holding, Exact, Idle, Known, Recounts, Merging

LEMMA IdleIsFree == ASSUME NEW h PROVE Lockfree(h, Idle)
  BY DEF Lockfree, Idle

-----------------------------------------------------------------------------
\* While no payment moves, nothing is lost of what the others have read.
LEMMA SafeWhenStill ==
  ASSUME UNCHANGED payment, NEW h, Steady(h), NEW g \in Requests \ {h}, Carrying(req[g])
  PROVE  Safe(g)
<1>1. req'[g].on = req[g].on
  BY DEF Steady
<1>2. req[g].pc = "return" => \A p \in req[g].pays : payment[p].owner \in req[g].on
  BY DEF Carrying, Holding, GivesBack
<1>3. Aside(g) /\ \A p \in Payments : NowOwned(p, req[g].dup) => PayOf(p, req[g].dup)
  BY DEF Aside, NowOwned, PayOf, There
<1> QED
  BY <1>1, <1>2, <1>3 DEF Safe

LEMMA RowsWhenStill ==
  ASSUME RowsMoney, UNCHANGED payment, Lasting, \A d \in Docs : Known(doc[d].owner)'
  PROVE  RowsMoney' /\ RowsStay
<1>2. {p \in Payments : Used(p)} = {p \in Payments : Used(p)'} /\ \A p \in Payments : payment'[p] = payment[p]
  BY DEF Used
<1>3. RowsStay
  BY <1>2 DEF RowsStay, Used
<1>4. ASSUME NEW p \in Payments
      PROVE  /\ payment'[p].refunded <= payment'[p].amount
             /\ payment'[p].status = "succeeded" => payment'[p].refunded = 0
             /\ payment'[p].owner \in Customers => customer'[payment'[p].owner].state # "unused"
  BY <1>2 DEF RowsMoney, Known, Lasting
<1>5. IsFiniteSet({p \in Payments : Used(p)'})
  BY <1>2 DEF RowsMoney
<1> QED
  BY <1>3, <1>4, <1>5 DEF RowsMoney, Used, Known

LEMMA CarriesWhenStill ==
  ASSUME UNCHANGED payment, Lasting, NEW r, Carrying(r)
  PROVE  Carrying(r)'
<1>1. Placed(r)'
  BY DEF Carrying, Placed, Known, Lasting
<1>2. Holding(r)'
  BY DEF Carrying, Holding, GivesBack, Used
<1>3. Exact(r)'
  BY DEF Carrying, Exact, OwnedPays, There, Recount, Kept
<1> QED
  BY <1>1, <1>2, <1>3 DEF Carrying

\* Every customer has the lifetime value it had, or comes with none.
LEMMA LtvWhenStill ==
  ASSUME Types, RowsMoney, LtvOK, UNCHANGED <<payment, drifted>>,
         \A c \in Customers : \/ customer'[c].ltv = customer[c].ltv
                              \/ customer[c].state = "unused" /\ customer'[c].ltv = 0
  PROVE  LtvOK'
<1> SUFFICES ASSUME NEW c \in Customers
             PROVE  customer'[c].ltv \in Nat /\ (c \notin drifted => customer'[c].ltv = Collected(c)')
  BY DEF LtvOK
<1>1. Collected(c)' = Collected(c)
  BY DEF Collected, Recount, OwnedPays, There, Kept
<1>2. CASE customer'[c].ltv = customer[c].ltv
  BY <1>1, <1>2 DEF LtvOK
<1>3. CASE customer[c].state = "unused" /\ customer'[c].ltv = 0
  <2>1. \A p \in Payments : payment[p].owner # c
    BY <1>3 DEF RowsMoney, Known
  <2>2. {p \in OwnedPays(c) : payment[p].status \in Counted} = {}
    BY <2>1 DEF OwnedPays
  <2>3. Collected(c) = 0
    BY <2>2, SumEmpty DEF Collected, Recount
  <2> QED
    BY <1>1, <1>3, <2>3
<1> QED
  BY <1>2, <1>3

\* A handler arrives, or goes on, and touches nothing but itself.
LEMMA MoneyEnters ==
  ASSUME Types, Types', MoneyInv, UNCHANGED <<customer, doc, payment, drifted>>,
         NEW h \in Requests, NEW r, Entered(h, r), Carrying(r), Lockfree(h, r)
  PROVE  MoneyInv'
<1>1. Moves(h, r) /\ Steady(h) /\ Lasting
  BY DEF Entered, Lasting
<1>2. Met'
  BY <1>1, MetMoves DEF Entered, MoneyInv
<1>3. \A g \in Requests \ {h} : Safe(g)
  BY <1>1, SafeWhenStill DEF MoneyInv
<1>4. \A d \in Docs : Known(doc[d].owner)'
  BY DEF MoneyInv, RowsMoney, Known
<1>5. RowsMoney' /\ RowsStay
  BY <1>1, <1>4, RowsWhenStill DEF MoneyInv
<1>6. LtvOK'
  BY LtvWhenStill DEF MoneyInv
<1>7. Carrying(r)'
  BY <1>1, CarriesWhenStill
<1> QED
  BY <1>1, <1>2, <1>3, <1>5, <1>6, <1>7, MoneyMoves

\* A handler that moved no money is done.
LEMMA MoneyLeaves ==
  ASSUME Types, Types', MoneyInv, UNCHANGED <<payment, drifted>>, Lasting,
         \A d \in Docs : Known(doc[d].owner)', NEW h \in Requests, Moves(h, Idle), Steady(h),
         \A c \in Customers : \/ customer'[c].ltv = customer[c].ltv
                              \/ customer[c].state = "unused" /\ customer'[c].ltv = 0
  PROVE  MoneyInv'
<1>1. Met'
  BY MetLeave DEF MoneyInv
<1>2. \A g \in Requests \ {h} : Safe(g)
  BY SafeWhenStill DEF MoneyInv
<1>3. RowsMoney' /\ RowsStay
  BY RowsWhenStill DEF MoneyInv
<1>4. LtvOK'
  BY LtvWhenStill DEF MoneyInv
<1> QED
  BY <1>1, <1>2, <1>3, <1>4, IdleCarriesOn, IdleIsFree, MoneyMoves

-----------------------------------------------------------------------------
(* Handlers that arrive, and steps that write nothing yet. *)

LEMMA EnterMoney ==
  ASSUME Types, MoneyInv, NEW N, 0 \in N, Shapes(N), NEW h \in Requests, NEW r \in Handler(N), r.pc # "idle",
         Enter(h, r), UNCHANGED <<customer, doc, payment, drifted>>, Carrying(r), Lockfree(h, r)
  PROVE  MoneyInv'
<1>1. Types' /\ Entered(h, r)
  BY EnterDoes
<1> QED
  BY <1>1, MoneyEnters

\* A handler that deals with no money.
Simple == {"insert", "edit", "find", "quote", "conclude"}

LEMMA SimpleCarries ==
  ASSUME NEW r, r.pc \in Simple, Known(r.c), r.total \in Nat, NEW h
  PROVE  Carrying(r) /\ Lockfree(h, r) /\ r.pc # "idle"
  BY DEF Simple, Carrying, Placed, Holding, Exact, Recounts, Merging, Lockfree

LEMMA BeginCreateMoney ==
  ASSUME Types, MoneyInv, NEW h \in Requests, NEW e \in Emails, BeginCreate(h, e)
  PROVE  MoneyInv'
<1> PICK N : 0 \in N /\ Shapes(N)
  BY DEF Types
<1>1. PICK knowing \in BOOLEAN : Enter(h, [Idle EXCEPT !.pc = "insert", !.email = e, !.knowing = knowing])
  BY DEF BeginCreate
<1> DEFINE r == [Idle EXCEPT !.pc = "insert", !.email = e, !.knowing = knowing]
<1>2. r \in Handler(N) /\ r.pc = "insert" /\ r.c = None /\ r.total = 0
  BY DEF Idle, Handler, Phases, PaymentStatus
<1>3. Enter(h, r) /\ UNCHANGED <<customer, doc, payment, drifted>>
  BY <1>1 DEF BeginCreate, ghostVars
<1> HIDE DEF r
<1>4. Carrying(r) /\ Lockfree(h, r) /\ r.pc # "idle"
  BY <1>2, SimpleCarries, NoneAssumption DEF Simple, Known
<1> QED
  BY <1>2, <1>3, <1>4, EnterMoney

LEMMA BeginEditMoney ==
  ASSUME Types, MoneyInv, NEW h \in Requests, NEW c \in Customers, NEW e \in Emails, BeginEdit(h, c, e)
  PROVE  MoneyInv'
<1> PICK N : 0 \in N /\ Shapes(N)
  BY DEF Types
<1>1. PICK knowing \in BOOLEAN : Enter(h, [Idle EXCEPT !.pc = "edit", !.email = e, !.c = c, !.knowing = knowing])
  BY DEF BeginEdit
<1> DEFINE r == [Idle EXCEPT !.pc = "edit", !.email = e, !.c = c, !.knowing = knowing]
<1>2. r \in Handler(N) /\ r.pc = "edit" /\ r.c = c /\ r.total = 0
  BY DEF Idle, Handler, Phases, PaymentStatus
<1>3. Enter(h, r) /\ UNCHANGED <<customer, doc, payment, drifted>> /\ Known(c)
  BY <1>1 DEF BeginEdit, ghostVars, Live, Known
<1> HIDE DEF r
<1>4. Carrying(r) /\ Lockfree(h, r) /\ r.pc # "idle"
  BY <1>2, <1>3, SimpleCarries DEF Simple
<1> QED
  BY <1>2, <1>3, <1>4, EnterMoney

LEMMA SubmitMoney ==
  ASSUME Types, MoneyInv, NEW h \in Requests, NEW k \in Keys, NEW e \in Emails, Submit(h, k, e)
  PROVE  MoneyInv'
<1> PICK N : 0 \in N /\ Shapes(N)
  BY DEF Types
<1> DEFINE r == [Idle EXCEPT !.pc = "find", !.key = k, !.email = e]
<1>2. r \in Handler(N) /\ r.pc = "find" /\ r.c = None /\ r.total = 0
  BY DEF Idle, Handler, Phases, PaymentStatus
<1>3. Enter(h, r) /\ UNCHANGED <<customer, doc, payment, drifted>>
  BY DEF Submit, ghostVars
<1> HIDE DEF r
<1>4. Carrying(r) /\ Lockfree(h, r) /\ r.pc # "idle"
  BY <1>2, SimpleCarries, NoneAssumption DEF Simple, Known
<1> QED
  BY <1>2, <1>3, <1>4, EnterMoney

LEMMA FindMoney ==
  ASSUME Types, MoneyInv, NEW h \in Requests, Find(h)
  PROVE  MoneyInv'
<1> PICK N : 0 \in N /\ Shapes(N)
  BY DEF Types
<1>1. /\ req[h] \in Handler(N) /\ Known(req[h].c) /\ req[h].total \in Nat
      /\ UNCHANGED <<customer, doc, payment, drifted>>
  BY DEF Shapes, Find, ghostVars, MoneyInv, Carrying, Placed
<1>2. CASE Enter(h, [req[h] EXCEPT !.pc = "quote"])
  <2> DEFINE r == [req[h] EXCEPT !.pc = "quote"]
  <2>1. r \in Handler(N) /\ r.pc = "quote" /\ r.c = req[h].c /\ r.total = req[h].total
    BY <1>1 DEF Handler, Phases
  <2>2. Enter(h, r)
    BY <1>2
  <2> HIDE DEF r
  <2>3. Carrying(r) /\ Lockfree(h, r) /\ r.pc # "idle"
    BY <1>1, <2>1, SimpleCarries DEF Simple
  <2> QED
    BY <1>1, <2>1, <2>2, <2>3, EnterMoney
<1>3. ASSUME NEW c \in Customers, Live(c), Enter(h, [req[h] EXCEPT !.pc = "quote", !.c = c, !.on = {c}])
      PROVE  MoneyInv'
  <2> DEFINE r == [req[h] EXCEPT !.pc = "quote", !.c = c, !.on = {c}]
  <2>1. r \in Handler(N) /\ r.pc = "quote" /\ r.c = c /\ r.total = req[h].total
    BY <1>1 DEF Handler, Phases
  <2>2. Enter(h, r) /\ Known(c)
    BY <1>3 DEF Known, Live
  <2> HIDE DEF r
  <2>3. Carrying(r) /\ Lockfree(h, r) /\ r.pc # "idle"
    BY <1>1, <2>1, <2>2, SimpleCarries DEF Simple
  <2> QED
    BY <1>1, <2>1, <2>2, <2>3, EnterMoney
<1>4. \/ Enter(h, [req[h] EXCEPT !.pc = "quote"])
      \/ \E c \in Customers : Live(c) /\ Enter(h, [req[h] EXCEPT !.pc = "quote", !.c = c, !.on = {c}])
  BY DEF Find
<1> QED
  BY <1>2, <1>3, <1>4

LEMMA BeginMergeMoney ==
  ASSUME Types, MoneyInv, NEW h \in Requests, NEW c \in Customers, NEW dup \in Customers, BeginMerge(h, c, dup)
  PROVE  MoneyInv'
<1> PICK N : 0 \in N /\ Shapes(N)
  BY DEF Types
<1> DEFINE r == [Idle EXCEPT !.pc = "move", !.c = c, !.dup = dup, !.on = {c, dup}]
<1>2. r \in Handler(N) /\ r.pc = "move" /\ r.c = c /\ r.dup = dup /\ r.on = {c, dup} /\ r.total = 0
  BY DEF Idle, Handler, Phases, PaymentStatus
<1>3. Enter(h, r) /\ UNCHANGED <<customer, doc, payment, drifted>> /\ Known(c)
  BY DEF BeginMerge, ghostVars, Live, Known
<1> HIDE DEF r
<1>4. Carrying(r) /\ Lockfree(h, r)
  BY <1>2, <1>3 DEF Carrying, Placed, Holding, Exact, Lockfree
<1> QED
  BY <1>2, <1>3, <1>4, EnterMoney

\* From here the rows of the duplicate are written, and those of nobody else's.
LEMMA MoveMoney ==
  ASSUME Types, MoneyInv, NEW h \in Requests, Move(h)
  PROVE  MoneyInv'
<1> PICK N : 0 \in N /\ Shapes(N)
  BY DEF Types
<1> DEFINE ds == {d \in Docs : doc[d].state = "there" /\ doc[d].owner = req[h].dup}
           ps == OwnedPays(req[h].dup)
           r  == [req[h] EXCEPT !.pc = "sum", !.docs = ds, !.pays = ps]
<1>1. /\ Enter(h, r) /\ UNCHANGED <<customer, doc, payment, drifted>> /\ ds \in SUBSET Docs /\ ps \in SUBSET Payments
      /\ \A g \in Requests \ {h} : Writing(g) => req[g].pays \cap ps = {}
  BY DEF Move, Repointed, OwnedPays, Unlocked, ghostVars
<1>2. \A p \in ps : Used(p) /\ payment[p].owner = req[h].dup
  BY DEF OwnedPays, There, Used
<1> HIDE DEF ds, ps
<1>3. req[h] \in Handler(N) /\ Carrying(req[h]) /\ req[h].pc = "move"
  BY DEF Shapes, MoneyInv, Move
<1>4. /\ r \in Handler(N) /\ r.pc = "sum" /\ r.c = req[h].c /\ r.dup = req[h].dup /\ r.pays = ps
      /\ r.on = req[h].on /\ r.clean = req[h].clean /\ r.total = req[h].total
  BY <1>1, <1>3 DEF Handler, Phases
<1> HIDE DEF r
<1>5. Placed(r)
  BY <1>3, <1>4 DEF Carrying, Placed, Recounts, Merging
<1>6. Holding(r)
  BY <1>2, <1>4 DEF Holding
<1>7. Exact(r)
  <2>1. OwnedPays(r.dup) \subseteq r.pays
    BY <1>4 DEF ps
  <2> QED
    BY <1>3, <1>4, <2>1 DEF Carrying, Exact, Merging
<1>8. Lockfree(h, r)
  BY <1>1, <1>4 DEF Lockfree
<1> QED
  BY <1>1, <1>4, <1>5, <1>6, <1>7, <1>8, EnterMoney DEF Carrying

LEMMA BeginPayMoney ==
  ASSUME Types, MoneyInv, NEW h \in Requests, NEW a \in Amounts, BeginPay(h, a)
  PROVE  MoneyInv'
<1> PICK N : 0 \in N /\ Shapes(N)
  BY DEF Types
<1>1. UNCHANGED <<customer, doc, payment, drifted>> /\ a \in Nat
  BY AmountsAssumption DEF BeginPay, ghostVars
<1>2. ASSUME NEW c \in Customers \cup {None}, Known(c), NEW r, r \in Handler(N), r.pc = "pay", r.c = c, r.on = {c},
             r.total = 0, r.after.status \in {"succeeded", "failed"}, Enter(h, r)
      PROVE  MoneyInv'
  <2>1. Carrying(r) /\ Lockfree(h, r)
    BY <1>2 DEF Carrying, Placed, Holding, Exact, Lockfree, Merging
  <2> QED
    BY <1>1, <1>2, <2>1, EnterMoney
<1>3. ASSUME NEW d \in Docs, NEW status \in {"succeeded", "failed"},
             Enter(h, [Idle EXCEPT !.pc = "pay", !.c = doc[d].owner, !.on = {doc[d].owner},
                          !.docs = {d}, !.amount = a, !.after = [status |-> status, refunded |-> 0]])
      PROVE  MoneyInv'
  <2> PICK c \in Customers \cup {None} : c = doc[d].owner
    BY DEF Types, DocRow
  <2> DEFINE r == [Idle EXCEPT !.pc = "pay", !.c = c, !.on = {c}, !.docs = {d}, !.amount = a,
                               !.after = [status |-> status, refunded |-> 0]]
  <2>1. r \in Handler(N) /\ r.pc = "pay" /\ r.c = c /\ r.on = {c} /\ r.total = 0 /\ r.after.status = status
    BY <1>1 DEF Idle, Handler, Phases, PaymentStatus, Counted
  <2>2. Enter(h, r)
    BY <1>3
  <2>3. Known(c)
    BY DEF MoneyInv, RowsMoney
  <2> HIDE DEF r
  <2> QED
    BY <1>2, <2>1, <2>2, <2>3
<1>4. ASSUME NEW c \in Customers, Known(c),
             Enter(h, [Idle EXCEPT !.pc = "pay", !.c = c, !.on = {c}, !.amount = a,
                                   !.after = [status |-> "succeeded", refunded |-> 0]])
      PROVE  MoneyInv'
  <2> DEFINE r == [Idle EXCEPT !.pc = "pay", !.c = c, !.on = {c}, !.amount = a,
                               !.after = [status |-> "succeeded", refunded |-> 0]]
  <2>1. r \in Handler(N) /\ r.pc = "pay" /\ r.c = c /\ r.on = {c} /\ r.total = 0 /\ r.after.status = "succeeded"
    BY <1>1 DEF Idle, Handler, Phases, PaymentStatus, Counted
  <2>2. Enter(h, r)
    BY <1>4
  <2> HIDE DEF r
  <2> QED
    BY <1>2, <1>4, <2>1, <2>2
<1>5. \/ \E d \in Docs, status \in {"succeeded", "failed"} :
             Enter(h, [Idle EXCEPT !.pc = "pay", !.c = doc[d].owner, !.on = {doc[d].owner},
                          !.docs = {d}, !.amount = a, !.after = [status |-> status, refunded |-> 0]])
      \/ \E c \in Customers :
             Known(c) /\ Enter(h, [Idle EXCEPT !.pc = "pay", !.c = c, !.on = {c}, !.amount = a,
                                               !.after = [status |-> "succeeded", refunded |-> 0]])
  BY DEF BeginPay, Known
<1> QED
  BY <1>3, <1>4, <1>5

LEMMA BeginReturnMoney ==
  ASSUME CarefulStaff, Types, MoneyInv, NEW h \in Requests, NEW p \in Payments, BeginReturn(h, p)
  PROVE  MoneyInv'
<1> PICK N : 0 \in N /\ Shapes(N)
  BY DEF Types
<1> PICK row \in PaymentRow : row = payment[p]
  BY DEF Types
<1> DEFINE r(a, status, back) ==
      [Idle EXCEPT !.pc = "return", !.pays = {p}, !.docs = row.docs, !.c = row.owner,
          !.on = {row.owner}, !.amount = a, !.after = [status |-> status, refunded |-> back]]
           Fits(a, status, back) ==
             /\ a \in Nat /\ back \in Nat /\ back <= row.amount /\ status \in {"refunded", "partially_refunded", "void"}
             /\ status = "void" => row.status = "succeeded" /\ back = row.refunded /\ a = row.amount
             /\ status # "void" => back = row.refunded + a
<1>1. UNCHANGED <<customer, doc, payment, drifted>> /\ row.status \in {"succeeded", "partially_refunded"}
  BY DEF BeginReturn, ghostVars
<1>2. \/ \E a \in 1 .. row.amount - row.refunded + Cent :
             a <= row.amount - row.refunded /\ Enter(h, r(a, AfterRefund(row, a), row.refunded + a))
      \/ row.status = "succeeded" /\ Enter(h, r(row.amount, "void", row.refunded))
  BY DEF BeginReturn
<1>3. /\ row.owner \in Customers \cup {None} /\ row.docs \in SUBSET Docs /\ row.amount \in Nat /\ row.refunded \in Nat
      /\ row.refunded <= row.amount /\ Known(row.owner)
  BY DEF PaymentRow, MoneyInv, RowsMoney
<1>4. ASSUME NEW a, NEW status, NEW back, Fits(a, status, back)
      PROVE  LET s == r(a, status, back)
             IN  /\ s \in Handler(N) /\ s.pc = "return" /\ s.c = row.owner /\ s.on = {row.owner} /\ s.pays = {p}
                 /\ s.amount = a /\ s.after.status = status /\ s.after.refunded = back /\ s.total = 0
  BY <1>3, <1>4 DEF Idle, Handler, Phases, PaymentStatus, Counted
<1>5. /\ \A a \in 1 .. row.amount - row.refunded + Cent :
             a <= row.amount - row.refunded => Fits(a, AfterRefund(row, a), row.refunded + a)
      /\ row.status = "succeeded" => Fits(row.amount, "void", row.refunded)
  BY <1>3 DEF AfterRefund, Cent
<1> HIDE DEF r, Fits
<1>6. ASSUME NEW a, NEW status, NEW back, Fits(a, status, back), Enter(h, r(a, status, back))
      PROVE  MoneyInv'
  <2> PICK s : s = r(a, status, back)
    OBVIOUS
  <2>1. /\ s \in Handler(N) /\ s.pc = "return" /\ s.c = row.owner /\ s.on = {row.owner} /\ s.pays = {p}
        /\ s.amount = a /\ s.after.status = status /\ s.after.refunded = back /\ s.total = 0
    BY <1>4, <1>6
  <2>2. Placed(s) /\ Exact(s) /\ Lockfree(h, s)
    BY <1>3, <2>1 DEF Placed, Exact, Lockfree, Recounts, Merging
  <2>3. GivesBack(s, p)
    BY <1>1, <1>3, <1>6, <2>1 DEF GivesBack, Used, Fits
  <2>4. Holding(s)
    BY <2>1, <2>3 DEF Holding
  <2> QED
    BY <1>1, <1>6, <2>1, <2>2, <2>4, EnterMoney DEF Carrying
<1> QED
  BY <1>2, <1>5, <1>6

LEMMA BeginDeleteMoney ==
  ASSUME Types, MoneyInv, NEW h \in Requests, BeginDelete(h)
  PROVE  MoneyInv'
<1> PICK N : 0 \in N /\ Shapes(N)
  BY DEF Types
<1>1. UNCHANGED <<customer, doc, payment, drifted>>
  BY DEF BeginDelete, ghostVars
<1>2. ASSUME NEW c \in Customers \cup {None}, Known(c), NEW r, r \in Handler(N), r.pc = "strike", r.c = c, r.on = {c},
             r.total = 0, Enter(h, r)
      PROVE  MoneyInv'
  <2>1. Carrying(r) /\ Lockfree(h, r)
    BY <1>2 DEF Carrying, Placed, Holding, Exact, Lockfree, Merging
  <2> QED
    BY <1>1, <1>2, <2>1, EnterMoney
<1>3. ASSUME NEW p \in Payments, Enter(h, [Idle EXCEPT !.pc = "strike", !.pays = {p}, !.c = payment[p].owner,
                                                       !.on = {payment[p].owner}])
      PROVE  MoneyInv'
  <2> PICK c \in Customers \cup {None} : c = payment[p].owner
    BY RowTypes
  <2> DEFINE r == [Idle EXCEPT !.pc = "strike", !.pays = {p}, !.c = c, !.on = {c}]
  <2>1. r \in Handler(N) /\ r.pc = "strike" /\ r.c = c /\ r.on = {c} /\ r.total = 0
    BY <1>1 DEF Idle, Handler, Phases, PaymentStatus
  <2>2. Enter(h, r)
    BY <1>3
  <2>3. Known(c)
    BY DEF MoneyInv, RowsMoney
  <2> HIDE DEF r
  <2> QED
    BY <1>2, <2>1, <2>2, <2>3
<1>4. ASSUME NEW c \in Customers, NEW ds \in SUBSET Docs, Known(c),
             Enter(h, [Idle EXCEPT !.pc = "strike", !.docs = ds, !.c = c, !.on = {c}])
      PROVE  MoneyInv'
  <2> DEFINE r == [Idle EXCEPT !.pc = "strike", !.docs = ds, !.c = c, !.on = {c}]
  <2>1. r \in Handler(N) /\ r.pc = "strike" /\ r.c = c /\ r.on = {c} /\ r.total = 0
    BY <1>1 DEF Idle, Handler, Phases, PaymentStatus
  <2>2. Enter(h, r)
    BY <1>4
  <2> HIDE DEF r
  <2> QED
    BY <1>2, <1>4, <2>1, <2>2
<1>5. \/ \E p \in Payments : Enter(h, [Idle EXCEPT !.pc = "strike", !.pays = {p}, !.c = payment[p].owner,
                                                   !.on = {payment[p].owner}])
      \/ \E c \in Customers : \E ds \in SUBSET Docs :
             Known(c) /\ Enter(h, [Idle EXCEPT !.pc = "strike", !.docs = ds, !.c = c, !.on = {c}])
  <2>1. ASSUME NEW c \in Customers,
               NEW ds \in (SUBSET {d \in Docs : doc[d].state = "there" /\ doc[d].owner = c}) \ {{}}
        PROVE  ds \in SUBSET Docs /\ Known(c)
    <3> PICK d \in Docs : doc[d].owner = c
      OBVIOUS
    <3> QED
      BY DEF MoneyInv, RowsMoney
  <2>2. \/ \E p \in Payments : Enter(h, [Idle EXCEPT !.pc = "strike", !.pays = {p}, !.c = payment[p].owner,
                                                     !.on = {payment[p].owner}])
        \/ \E c \in Customers : \E ds \in (SUBSET {d \in Docs : doc[d].state = "there" /\ doc[d].owner = c}) \ {{}} :
               Enter(h, [Idle EXCEPT !.pc = "strike", !.docs = ds, !.c = c, !.on = {c}])
    BY DEF BeginDelete
  <2> QED
    BY <2>1, <2>2
<1> QED
  BY <1>3, <1>4, <1>5

\* From here the rows are written, and the recount that leaves them out is worked out.
LEMMA StrikeMoney ==
  ASSUME Types, MoneyInv, NEW h \in Requests, Strike(h)
  PROVE  MoneyInv'
<1> PICK N : 0 \in N /\ Shapes(N)
  BY DEF Types
<1> DEFINE pays == req[h].pays \cup {p \in Payments : There(p) /\ payment[p].docs \cap req[h].docs # {}}
           total == Recount(OwnedPays(req[h].c) \ pays)
           on == req[h].on \cup {payment[p].owner : p \in pays}
           M == N \cup {total}
           r == [req[h] EXCEPT !.pc = "delete", !.pays = pays, !.total = total, !.on = on]
<1>1. /\ Enter(h, r) /\ req[h].pc = "strike" /\ UNCHANGED <<customer, doc, payment, drifted>>
      /\ \A p \in pays : There(p)
      /\ \A g \in Requests \ {h} : Writing(g) => req[g].pays \cap pays = {}
  BY DEF Strike, ghostVars, Unlocked
<1>2. 0 \in M /\ total \in M /\ N \subseteq M
  OBVIOUS
<1>3. req[h] \in Handler(N) /\ Carrying(req[h]) /\ \A p \in Payments : payment[p].owner \in Customers \cup {None}
  BY DEF Shapes, Types, PaymentRow, MoneyInv
<1>4. pays \in SUBSET Payments
  BY <1>3 DEF Handler
<1>5. on \in SUBSET (Customers \cup {None})
  <2>1. req[h].on \subseteq Customers \cup {None}
    BY <1>3 DEF Handler
  <2>2. {payment[p].owner : p \in pays} \subseteq Customers \cup {None}
    BY <1>3, <1>4
  <2> QED
    BY <2>1, <2>2
<1>6. \A p \in pays : payment[p].owner \in on /\ Used(p)
  BY <1>1 DEF There, Used
<1>7. req[h].on \subseteq on
  OBVIOUS
<1>8. total \in Nat
  <2>1. OwnedPays(req[h].c) \ pays \subseteq Payments
    BY DEF OwnedPays
  <2> HIDE DEF pays
  <2> QED
    BY <2>1, RecountIsNat DEF MoneyInv
<1> HIDE DEF pays, on, M
<1>9. total = Recount(OwnedPays(req[h].c) \ pays)
  OBVIOUS
<1> HIDE DEF total
<1>10. Shapes(M)
  BY <1>2, ShapesWiden
<1>11. /\ r \in Handler(M) /\ r.pc = "delete" /\ r.c = req[h].c /\ r.pays = pays /\ r.on = on
       /\ r.total = total
  <2>1. req[h] \in Handler(M)
    BY <1>10 DEF Shapes
  <2> QED
    BY <1>2, <1>4, <1>5, <2>1 DEF Handler, Phases
<1> HIDE DEF r
<1>12. Placed(r)
  <2>1. Known(req[h].c) /\ req[h].c \in req[h].on
    BY <1>1, <1>3 DEF Carrying, Placed, Recounts
  <2> QED
    BY <1>7, <1>8, <1>11, <2>1 DEF Placed, Merging
<1>13. Holding(r)
  BY <1>6, <1>11 DEF Holding
<1>14. Exact(r)
  BY <1>9, <1>11 DEF Exact, Merging
<1>15. Lockfree(h, r)
  BY <1>1, <1>11 DEF Lockfree
<1> QED
  BY <1>1, <1>2, <1>10, <1>11, <1>12, <1>13, <1>14, <1>15, EnterMoney DEF Carrying

-----------------------------------------------------------------------------
(* Steps that write, but no payment. *)

LEMMA MoneyGoesOn ==
  ASSUME Types, Types', MoneyInv, UNCHANGED <<payment, drifted>>, Lasting,
         \A d \in Docs : Known(doc[d].owner)',
         \A c \in Customers : \/ customer'[c].ltv = customer[c].ltv
                              \/ customer[c].state = "unused" /\ customer'[c].ltv = 0,
         NEW h \in Requests, NEW r, Moves(h, r), Steady(h), Met', Carrying(r), Lockfree(h, r)
  PROVE  MoneyInv'
<1>1. \A g \in Requests \ {h} : Safe(g)
  BY SafeWhenStill DEF MoneyInv
<1>2. RowsMoney' /\ RowsStay
  BY RowsWhenStill DEF MoneyInv
<1>3. LtvOK'
  BY LtvWhenStill DEF MoneyInv
<1>4. Carrying(r)'
  BY CarriesWhenStill
<1> QED
  BY <1>1, <1>2, <1>3, <1>4, MoneyMoves

\* No handler moves.
LEMMA MoneyUntouched ==
  ASSUME Types, MoneyInv, UNCHANGED <<req, payment, drifted>>, Lasting,
         \A d \in Docs : Known(doc[d].owner)', \A c \in Customers : customer'[c].ltv = customer[c].ltv
  PROVE  MoneyInv'
<1>1. RowsMoney'
  BY RowsWhenStill DEF MoneyInv
<1>2. LtvOK'
  BY LtvWhenStill DEF MoneyInv
<1>3. Met' /\ Locks'
  BY DEF MoneyInv, Met, Locks, Conflict, Recounts, Writing
<1>4. ASSUME NEW g \in Requests PROVE Carrying(req[g])'
  <2> PICK r : r = req[g]
    OBVIOUS
  <2>1. Carrying(r)'
    BY CarriesWhenStill DEF MoneyInv
  <2>2. req'[g] = r
    OBVIOUS
  <2> QED
    BY <2>1, <2>2 DEF Carrying, Placed, Holding, GivesBack, Exact, Recounts, Recount, OwnedPays
<1> QED
  BY <1>1, <1>2, <1>3, <1>4 DEF MoneyInv

\* Only handler h moves, and it is r from now on.
LEMMA MovesTo ==
  ASSUME NEW h \in Requests, NEW r, req'[h] = r, \A g \in Requests \ {h} : req'[g] = req[g]
  PROVE  Moves(h, r) /\ Steady(h)
  BY DEF Moves, Steady, Became, Onward, SameMoney

\* The recount reads the rows of the customer that is kept and those that are to come.
LEMMA SumMoney ==
  ASSUME Types, Types', MoneyInv, NEW h \in Requests, Sum(h)
  PROVE  MoneyInv'
<1> PICK N : 0 \in N /\ Shapes(N)
  BY DEF Types
<1> DEFINE total == Recount(OwnedPays(req[h].c) \cup req[h].pays)
           r == [req[h] EXCEPT !.pc = "merge", !.total = total]
<1>1. req' = [req EXCEPT ![h].pc = "merge", ![h].total = total] /\ req[h].pc = "sum"
  BY DEF Sum
<1>2. UNCHANGED <<customer, doc, payment, drifted>>
  BY DEF Sum, ghostVars
<1>3. req[h] \in Handler(N) /\ Carrying(req[h])
  BY DEF Shapes, MoneyInv
<1>4. total \in Nat
  <2>1. OwnedPays(req[h].c) \cup req[h].pays \subseteq Payments
    BY <1>3 DEF OwnedPays, Handler
  <2> QED
    BY <2>1, RecountIsNat DEF MoneyInv
<1>5. PICK t : t = total
  OBVIOUS
<1> HIDE DEF total
<1>6. req'[h] = r /\ \A g \in Requests \ {h} : req'[g] = req[g]
  BY <1>1 DEF Shapes
<1>7. /\ r.on = req[h].on /\ r.pc = "merge" /\ r.c = req[h].c /\ r.dup = req[h].dup /\ r.docs = req[h].docs
      /\ r.pays = req[h].pays /\ r.email = req[h].email /\ r.key = req[h].key /\ r.knowing = req[h].knowing
      /\ r.clean = req[h].clean /\ r.total = total
  BY <1>3 DEF Handler
<1> HIDE DEF r
<1>8. Moves(h, r) /\ Steady(h)
  BY <1>6, MovesTo
<1>9. Met'
  <2>1. Advances(h, r, "merge") /\ (Recounts(r) => Recounts(req[h]))
    BY <1>1, <1>7, <1>8 DEF Advances, Recounts
  <2> QED
    BY <1>1, <2>1, MetAdvance DEF MoneyInv
<1>10. Placed(r)
  BY <1>1, <1>3, <1>4, <1>7 DEF Carrying, Placed, Recounts, Merging
<1>11. Holding(r)
  BY <1>1, <1>3, <1>7 DEF Carrying, Holding
<1>12. Exact(r)
  BY <1>1, <1>3, <1>7 DEF Carrying, Exact, Merging, total
<1>13. Lockfree(h, r)
  BY <1>1, <1>7 DEF Lockfree, MoneyInv, Locks, Writing
<1>14. Lasting /\ \A d \in Docs : Known(doc[d].owner)'
  BY <1>2 DEF Lasting, MoneyInv, RowsMoney, Known
<1> QED
  BY <1>2, <1>8, <1>9, <1>10, <1>11, <1>12, <1>13, <1>14, MoneyGoesOn DEF Carrying

LEMMA OwnersLast ==
  ASSUME RowsMoney, Lasting, NEW d \in Docs, doc'[d].owner = doc[d].owner
  PROVE  Known(doc[d].owner)'
<1> PICK c : c = doc[d].owner
  OBVIOUS
<1>1. Known(c)'
  BY DEF RowsMoney, Known, Lasting
<1> QED
  BY <1>1 DEF Known

\* A new customer has paid nothing.
LEMMA NewCustomerMoney ==
  ASSUME NEW N, 0 \in N, Shapes(N), NEW h \in Requests, NEW c \in Customers, customer[c].state = "unused",
         customer' = [customer EXCEPT ![c] = [state |-> "live", email |-> req[h].email, ltv |-> 0]]
  PROVE  /\ Lasting /\ customer'[c].state = "live"
         /\ \A x \in Customers : \/ customer'[x].ltv = customer[x].ltv
                                 \/ customer[x].state = "unused" /\ customer'[x].ltv = 0
  BY DEF Shapes, Lasting

LEMMA QuoteMoney ==
  ASSUME Types, Types', MoneyInv, NEW h \in Requests, Quote(h)
  PROVE  MoneyInv'
<1> PICK N : 0 \in N /\ Shapes(N)
  BY DEF Types
<1> DEFINE r == [req[h] EXCEPT !.pc = "conclude"]
<1>1. req' = [req EXCEPT ![h].pc = "conclude"] /\ req[h].pc = "quote" /\ UNCHANGED <<payment, drifted>>
  BY DEF Quote
<1>2. PICK d \in Docs, c \in Customers :
         /\ IF req[h].c = None
            THEN /\ customer[c].state = "unused"
                 /\ customer' = [customer EXCEPT ![c] = [state |-> "live", email |-> req[h].email, ltv |-> 0]]
            ELSE c = req[h].c /\ UNCHANGED customer
         /\ NewDoc(d, c, req[h].key)
  BY DEF Quote
<1>3. req[h] \in Handler(N) /\ Carrying(req[h])
  BY DEF Shapes, MoneyInv
<1>4. req'[h] = r /\ \A g \in Requests \ {h} : req'[g] = req[g]
  BY <1>1 DEF Shapes
<1>5. /\ r.on = req[h].on /\ r.pc = "conclude" /\ r.c = req[h].c /\ r.dup = req[h].dup /\ r.docs = req[h].docs
      /\ r.pays = req[h].pays /\ r.email = req[h].email /\ r.key = req[h].key /\ r.knowing = req[h].knowing
      /\ r.clean = req[h].clean /\ r.total = req[h].total
  BY <1>3 DEF Handler
<1> HIDE DEF r
<1>6. Moves(h, r) /\ Steady(h)
  BY <1>4, MovesTo
<1>7. Met'
  <2>1. Advances(h, r, "conclude") /\ (Recounts(r) => Recounts(req[h]))
    BY <1>1, <1>5, <1>6 DEF Advances, Recounts
  <2> QED
    BY <1>1, <2>1, MetAdvance DEF MoneyInv
<1>8. Carrying(r) /\ Lockfree(h, r)
  BY <1>3, <1>5, SimpleCarries DEF Simple, Carrying, Placed
<1>9. /\ Lasting /\ customer'[c].state # "unused"
      /\ \A x \in Customers : \/ customer'[x].ltv = customer[x].ltv
                              \/ customer[x].state = "unused" /\ customer'[x].ltv = 0
  <2>1. CASE req[h].c = None
    BY <1>2, <2>1, NewCustomerMoney
  <2>2. CASE req[h].c # None
    BY <1>2, <1>3, <2>2 DEF Lasting, Carrying, Placed, Known
  <2> QED
    BY <2>1, <2>2
<1>10. doc'[d].owner = c /\ \A x \in Docs \ {d} : doc'[x].owner = doc[x].owner
  BY <1>2 DEF NewDoc, Types
<1>11. ASSUME NEW x \in Docs PROVE Known(doc[x].owner)'
  <2>1. CASE x = d
    BY <1>9, <1>10, <2>1 DEF Known
  <2>2. CASE x # d
    BY <1>9, <1>10, <2>2, OwnersLast DEF MoneyInv
  <2> QED
    BY <2>1, <2>2
<1> QED
  BY <1>1, <1>6, <1>7, <1>8, <1>9, <1>11, MoneyGoesOn

LEMMA InsertMoney ==
  ASSUME Types, Types', MoneyInv, NEW h \in Requests, Insert(h)
  PROVE  MoneyInv'
<1> PICK N : 0 \in N /\ Shapes(N)
  BY DEF Types
<1>1. PICK c \in Customers :
          /\ customer[c].state = "unused"
          /\ customer' = [customer EXCEPT ![c] = [state |-> "live", email |-> req[h].email, ltv |-> 0]]
  BY DEF Insert
<1>2. Finish(h) /\ UNCHANGED <<doc, payment, drifted>>
  BY DEF Insert
<1>3. /\ Lasting
      /\ \A x \in Customers : \/ customer'[x].ltv = customer[x].ltv
                              \/ customer[x].state = "unused" /\ customer'[x].ltv = 0
  BY <1>1, NewCustomerMoney
<1>4. \A d \in Docs : Known(doc[d].owner)'
  BY <1>2, <1>3, OwnersLast DEF MoneyInv
<1> QED
  BY <1>2, <1>3, <1>4, FinishDoes, MoneyLeaves

LEMMA EditMoney ==
  ASSUME Types, Types', MoneyInv, NEW h \in Requests, Edit(h)
  PROVE  MoneyInv'
<1> PICK N : 0 \in N /\ Shapes(N)
  BY DEF Types
<1>1. PICK e : customer' = [customer EXCEPT ![req[h].c].email = e]
  BY DEF Edit
<1>2. Finish(h) /\ UNCHANGED <<doc, payment, drifted>>
  BY DEF Edit
<1>3. ASSUME NEW x \in Customers PROVE customer'[x].state = customer[x].state /\ customer'[x].ltv = customer[x].ltv
  <2>1. PICK row \in CustomerRow(N) : row = customer[x]
    BY DEF Shapes
  <2>2. customer'[x] = row \/ customer'[x] = [row EXCEPT !.email = e]
    BY <1>1, <2>1 DEF Shapes
  <2> QED
    BY <2>1, <2>2 DEF CustomerRow
<1>4. Lasting
  BY <1>3 DEF Lasting
<1>5. \A d \in Docs : Known(doc[d].owner)'
  BY <1>2, <1>4, OwnersLast DEF MoneyInv
<1> QED
  BY <1>2, <1>3, <1>4, <1>5, FinishDoes, MoneyLeaves

LEMMA LeaveMoney ==
  ASSUME Types, Types', MoneyInv, NEW h \in Requests, Abort(h) \/ Conclude(h)
  PROVE  MoneyInv'
<1> PICK N : 0 \in N /\ Shapes(N)
  BY DEF Types
<1>1. Finish(h) /\ UNCHANGED <<customer, doc, payment, drifted>>
  BY DEF Abort, Conclude, ghostVars
<1>2. Lasting
  BY <1>1 DEF Lasting
<1>3. \A d \in Docs : Known(doc[d].owner)'
  BY <1>1, <1>2, OwnersLast DEF MoneyInv
<1> QED
  BY <1>1, <1>2, <1>3, FinishDoes, MoneyLeaves

LEMMA SoftDeleteMoney ==
  ASSUME Types, MoneyInv, NEW c \in Customers, SoftDelete(c)
  PROVE  MoneyInv'
<1> PICK N : 0 \in N /\ Shapes(N)
  BY DEF Types
<1>1. customer' = [customer EXCEPT ![c].state = "deleted"] /\ UNCHANGED <<req, doc, payment, drifted>>
  BY DEF SoftDelete, ghostVars
<1>2. ASSUME NEW x \in Customers
      PROVE  (customer[x].state # "unused" => customer'[x].state # "unused") /\ customer'[x].ltv = customer[x].ltv
  BY <1>1 DEF Shapes, CustomerRow
<1>3. Lasting
  BY <1>2 DEF Lasting
<1>4. \A d \in Docs : Known(doc[d].owner)'
  BY <1>1, <1>3, OwnersLast DEF MoneyInv
<1> QED
  BY <1>1, <1>2, <1>3, <1>4, MoneyUntouched

LEMMA NewInvoiceMoney ==
  ASSUME Types, MoneyInv, NEW c \in Customers, NEW d \in Docs, NewInvoice(c, d)
  PROVE  MoneyInv'
<1>1. UNCHANGED <<customer, req, payment, drifted>> /\ customer[c].state # "unused" /\ NewDoc(d, c, None)
  BY DEF NewInvoice
<1>2. Lasting
  BY <1>1 DEF Lasting
<1>3. doc'[d].owner = c /\ \A x \in Docs \ {d} : doc'[x].owner = doc[x].owner
  BY <1>1 DEF NewDoc, Types
<1>4. ASSUME NEW x \in Docs PROVE Known(doc[x].owner)'
  <2>1. CASE x = d
    BY <1>1, <1>3, <2>1 DEF Known
  <2>2. CASE x # d
    BY <1>2, <1>3, <2>2, OwnersLast DEF MoneyInv
  <2> QED
    BY <2>1, <2>2
<1> QED
  BY <1>1, <1>2, <1>4, MoneyUntouched

-----------------------------------------------------------------------------
(* Steps that write payments. *)

LEMMA SharedCustomer ==
  ASSUME Met, NEW h \in Requests, NEW g \in Requests, g # h, Onward(g), NEW x, x \in req[h].on, x \in req[g].on,
         req[h].pc # "idle", req[g].pc # "idle", Recounts(req[h]) \/ Recounts(req[g])
  PROVE  ~ req'[g].clean
<1>1. Conflict(req[g], req[h])
  BY DEF Conflict
<1> QED
  BY <1>1 DEF Met, Onward

LEMMA SharedRow ==
  ASSUME Met, NEW h \in Requests, NEW g \in Requests, g # h, Onward(g), NEW x, x \in req[h].pays, x \in req[g].pays,
         req[h].pc # "idle", req[g].pc # "idle"
  PROVE  ~ req'[g].clean
<1>1. Conflict(req[g], req[h])
  BY DEF Conflict
<1> QED
  BY <1>1 DEF Met, Onward

LEMMA RowsKept ==
  ASSUME RowsMoney, Lasting, \A d \in Docs : Known(doc[d].owner)',
         NEW F, IsFiniteSet(F), \A q \in Payments : Used(q)' => Used(q) \/ q \in F,
         \A q \in Payments : payment'[q].refunded <= payment'[q].amount,
         \A q \in Payments : payment'[q].status = "succeeded" => payment'[q].refunded = 0,
         \A q \in Payments : payment'[q].owner = payment[q].owner \/ Known(payment[q].owner)'
  PROVE  RowsMoney'
<1>1. IsFiniteSet({q \in Payments : Used(q)'})
  <2>1. {q \in Payments : Used(q)'} \subseteq {q \in Payments : Used(q)} \cup F
    OBVIOUS
  <2>2. IsFiniteSet({q \in Payments : Used(q)} \cup F)
    BY FS_Union DEF RowsMoney
  <2> QED
    BY <2>1, <2>2, FS_Subset
<1>2. ASSUME NEW q \in Payments PROVE Known(payment[q].owner)'
  <2>1. CASE payment'[q].owner = payment[q].owner
    <3> PICK c : c = payment[q].owner
      OBVIOUS
    <3>1. Known(c)'
      BY DEF RowsMoney, Known, Lasting
    <3> QED
      BY <2>1, <3>1 DEF Known
  <2> QED
    BY <2>1
<1> QED
  BY <1>1, <1>2 DEF RowsMoney, Used

\* The rows of a customer that the step leaves alone add up to the same.
LEMMA CollectedSame ==
  ASSUME Types, Types', RowsMoney, NEW c,
         \A q \in Payments : payment'[q] = payment[q] \/ (~ PayOf(q, c) /\ ~ NowOwned(q, c))
  PROVE  Collected(c)' = Collected(c)
<1> DEFINE ps == OwnedPays(c)
           qs == OwnedPays(c)'
<1>1. ps \subseteq Payments /\ qs \subseteq Payments
  BY DEF OwnedPays
<1>2. \A q \in Payments : /\ (q \in ps <=> PayOf(q, c)) /\ (q \in qs <=> NowOwned(q, c))
                          /\ payment'[q] = payment[q] => (PayOf(q, c) <=> NowOwned(q, c))
  BY DEF OwnedPays, PayOf, NowOwned, There
<1>3. \A q \in Payments : (payment'[q] = payment[q] /\ (q \in ps <=> q \in qs)) \/ (q \notin ps /\ q \notin qs)
  BY <1>2
<1>4. Collected(c) = Recount(ps) /\ Collected(c)' = RecountNext(qs)
  BY DEF Collected, Recount, RecountNext
<1> HIDE DEF ps, qs
<1>5. RecountNext(qs) = Recount(ps)
  BY <1>1, <1>3, RecountKept
<1> QED
  BY <1>4, <1>5


\* One row is written.
LEMMA CollectedMoves ==
  ASSUME Types, Types', RowsMoney, RowsMoney', NEW c, NEW p \in Payments,
         \A q \in Payments \ {p} : payment'[q] = payment[q]
  PROVE  LET was == Part(Kept, {q \in OwnedPays(c) : payment[q].status \in Counted}, p)
             is  == Part(Kept', {q \in OwnedPays(c) : payment[q].status \in Counted}', p)
         IN  /\ Collected(c)' = Collected(c) - was + is
             /\ Collected(c) \in Nat /\ was \in Nat /\ was <= Collected(c) /\ is \in Nat
<1> DEFINE S == {q \in OwnedPays(c) : payment[q].status \in Counted}
           T == {q \in OwnedPays(c) : payment[q].status \in Counted}'
<1>1. IsFiniteSet(S)
  BY CountedFinite DEF OwnedPays
<1>2. IsFiniteSet(T)
  <2>1. T \subseteq {q \in Payments : Used(q)'}
    BY DEF OwnedPays, There, Used
  <2>2. IsFiniteSet({q \in Payments : Used(q)'})
    BY DEF RowsMoney, Used
  <2> QED
    BY <2>1, <2>2, FS_Subset
<1>3. \A y \in S : Kept[y] \in Nat
  BY KeptIsNat DEF OwnedPays
<1>4. \A y \in T : (Kept')[y] \in Nat
  <2>1. \A y \in Payments : (Kept')[y] = payment'[y].amount - payment'[y].refunded
    BY DEF Kept
  <2>2. \A y \in Payments : /\ payment'[y].amount \in Nat /\ payment'[y].refunded \in Nat
                            /\ payment'[y].refunded <= payment'[y].amount
    BY DEF Types, PaymentRow, RowsMoney
  <2>3. T \subseteq Payments
    BY DEF OwnedPays
  <2> QED
    BY <2>1, <2>2, <2>3
<1>5. S \ {p} = T \ {p}
  BY DEF OwnedPays, There
<1>6. \A y \in S \ {p} : Kept[y] = (Kept')[y]
  BY DEF OwnedPays, Kept
<1>7. Collected(c) = SumFunctionOnSet(Kept, S) /\ Collected(c)' = SumFunctionOnSet(Kept', T)
  BY DEF Collected, Recount
<1> HIDE DEF S, T, Kept
<1>8. SumFunctionOnSet(Kept', T) = SumFunctionOnSet(Kept, S) - Part(Kept, S, p) + Part(Kept', T, p)
  BY <1>1, <1>2, <1>3, <1>4, <1>5, <1>6, SumMoves
<1>9. /\ SumFunctionOnSet(Kept, S) \in Nat /\ Part(Kept, S, p) \in Nat /\ Part(Kept', T, p) \in Nat
      /\ Part(Kept, S, p) <= SumFunctionOnSet(Kept, S)
  BY <1>1, <1>2, <1>3, <1>4, SumIsNat, SumBounds
<1> USE DEF S, T
<1> QED
  BY <1>7, <1>8, <1>9

\* A payment is put where none was, and added to the value of its customer.
LEMMA PayMoney ==
  ASSUME Types, Types', MoneyInv, NEW h \in Requests, Pay(h)
  PROVE  MoneyInv'
<1> PICK N : 0 \in N /\ Shapes(N)
  BY DEF Types
<1> PICK r \in Handler(N) : r = req[h]
  BY DEF Shapes
<1>1. PICK p \in Payments :
          /\ payment[p].status = "unused"
          /\ payment' = [payment EXCEPT ![p] = [status |-> r.after.status, owner |-> r.c, docs |-> r.docs,
                                                amount |-> r.amount, refunded |-> 0]]
  BY DEF Pay
<1> DEFINE added == IF r.after.status = "failed" THEN 0 ELSE r.amount
<1>2. /\ r.pc = "pay" /\ Finish(h) /\ doc' = doc /\ drifted' = Drift(h, r.on)
      /\ IF r.after.status = "failed" THEN customer' = customer
         ELSE customer' = [customer EXCEPT ![r.c].ltv = @ + r.amount]
  BY DEF Pay
<1>3. /\ payment'[p].status = r.after.status /\ payment'[p].owner = r.c /\ payment'[p].amount = r.amount
      /\ payment'[p].refunded = 0 /\ \A q \in Payments \ {p} : payment'[q] = payment[q]
  BY <1>1 DEF Types
<1>4. /\ r.amount \in Nat /\ added \in Nat /\ r.c \in r.on /\ Known(r.c)
      /\ r.after.status \in {"succeeded", "failed"}
  BY <1>2 DEF Handler, MoneyInv, Carrying, Placed
<1>5. ASSUME NEW c \in Customers
      PROVE  /\ customer'[c].state = customer[c].state
             /\ customer'[c].ltv = IF c = r.c THEN customer[c].ltv + added ELSE customer[c].ltv
  <2>1. PICK row \in CustomerRow(N) : row = customer[c]
    BY DEF Shapes
  <2>2. CASE r.after.status = "failed"
    BY <1>2, <2>2 DEF MoneyInv, LtvOK
  <2>3. CASE r.after.status # "failed"
    <3>1. customer'[c] = IF c = r.c THEN [row EXCEPT !.ltv = @ + r.amount] ELSE row
      BY <1>2, <2>1, <2>3 DEF Shapes
    <3> QED
      BY <2>1, <2>3, <3>1 DEF CustomerRow
  <2> QED
    BY <2>2, <2>3
<1>6. Lasting
  BY <1>5 DEF Lasting
<1>7. Moves(h, Idle) /\ Steady(h) /\ Met'
  BY <1>2, FinishDoes, MetLeave DEF MoneyInv
<1>8. RowsStay
  BY <1>1, <1>3 DEF RowsStay, Used
<1> HIDE DEF added
<1>9. RowsMoney'
  <2>1. \A d \in Docs : Known(doc[d].owner)'
    BY <1>2, <1>6, OwnersLast DEF MoneyInv
  <2>2. \A q \in Payments : Used(q)' => Used(q) \/ q \in {p}
    BY <1>3 DEF Used
  <2>3. \A q \in Payments : payment'[q].refunded <= payment'[q].amount
    BY <1>3, <1>4 DEF MoneyInv, RowsMoney
  <2>7. \A q \in Payments : payment'[q].status = "succeeded" => payment'[q].refunded = 0
    BY <1>3 DEF MoneyInv, RowsMoney
  <2>4. Known(payment[p].owner)'
    <3>1. Known(r.c)'
      BY <1>4, <1>6 DEF Known, Lasting
    <3> QED
      BY <1>3, <3>1 DEF Known
  <2>5. \A q \in Payments : payment'[q].owner = payment[q].owner \/ Known(payment[q].owner)'
    BY <1>3, <2>4
  <2>6. IsFiniteSet({p})
    BY FS_Singleton
  <2> QED
    BY <1>6, <2>1, <2>2, <2>3, <2>5, <2>6, <2>7, RowsKept DEF MoneyInv
<1>10. ASSUME NEW g \in Requests \ {h} PROVE Safe(g)
  <2> PICK s \in Handler(N) : s = req[g]
    BY DEF Shapes
  <2>1. Onward(g) /\ req'[g].on = s.on /\ Carrying(s)
    BY <1>7 DEF Moves, Steady, MoneyInv
  <2>2. s.pays \subseteq Payments
    BY DEF Handler
  <2>3. ASSUME s.pc \in {"return", "sum", "merge", "delete"}, NEW q \in s.pays PROVE q # p /\ payment'[q] = payment[q]
    <3>1. Used(q)
      BY <2>1, <2>3 DEF Carrying, Holding, GivesBack
    <3> QED
      BY <1>1, <1>3, <2>2, <3>1 DEF Used
  <2>4. ASSUME req'[g].clean, Recounts(s) PROVE r.c \notin s.on
    BY <1>2, <1>4, <1>7, <2>1, <2>4, SharedCustomer DEF Recounts, Moves, MoneyInv
  <2>5. s.pc = "return" => \A q \in s.pays : payment[q].owner \in s.on
    BY <2>1 DEF Carrying, Holding, GivesBack
  <2>6. ASSUME req'[g].clean, s.pc \in {"sum", "merge"}, NEW q \in Payments, NowOwned(q, s.dup) PROVE PayOf(q, s.dup)
    <3>1. r.c # s.dup
      BY <2>1, <2>4, <2>6 DEF Recounts, Carrying, Placed, Merging
    <3> QED
      BY <1>3, <2>6, <3>1 DEF NowOwned, PayOf, There
  <2>7. ASSUME req'[g].clean, s.pc \in {"merge", "delete"} PROVE Aside(g)
    <3>1. r.c # s.c
      BY <2>1, <2>4, <2>7 DEF Recounts, Carrying, Placed
    <3>2. ~ PayOf(p, s.c) /\ ~ NowOwned(p, s.c) /\ p \notin s.pays
      BY <1>1, <1>3, <2>3, <2>7, <3>1 DEF PayOf, NowOwned, There
    <3> QED
      BY <1>3, <3>2 DEF Aside
  <2> QED
    BY <2>1, <2>3, <2>5, <2>6, <2>7 DEF Safe, Writing
<1>11. LtvOK'
  <2>1. drifted \subseteq drifted'
    BY <1>2 DEF Drift
  <2> SUFFICES ASSUME NEW c \in Customers
               PROVE  customer'[c].ltv \in Nat /\ (c \notin drifted => customer'[c].ltv = Collected(c)')
    BY <2>1 DEF LtvOK
  <2>2. customer[c].ltv \in Nat /\ (c \notin drifted => customer[c].ltv = Collected(c))
    BY DEF MoneyInv, LtvOK
  <2>3. CASE c # r.c
    <3>1. \A q \in Payments : payment'[q] = payment[q] \/ (~ PayOf(q, c) /\ ~ NowOwned(q, c))
      BY <1>1, <1>3, <2>3 DEF PayOf, NowOwned, There
    <3>2. Collected(c)' = Collected(c)
      BY <3>1, CollectedSame DEF MoneyInv
    <3> QED
      BY <1>5, <2>2, <2>3, <3>2
  <2>4. CASE c = r.c
    <3> DEFINE S == {q \in OwnedPays(c) : payment[q].status \in Counted}
               T == {q \in OwnedPays(c) : payment[q].status \in Counted}'
    <3>1. p \notin S /\ (p \in T <=> r.after.status = "succeeded")
      BY <1>1, <1>3, <1>4, <2>4 DEF OwnedPays, There, Counted
    <3>2. (Kept')[p] = r.amount
      BY <1>3, <1>4 DEF Kept
    <3>3. Part(Kept, S, p) = 0 /\ Part(Kept', T, p) = added
      BY <1>4, <3>1, <3>2 DEF Part, added
    <3>4. Collected(c)' = Collected(c) - Part(Kept, S, p) + Part(Kept', T, p) /\ Collected(c) \in Nat
      BY <1>3, <1>9, CollectedMoves DEF MoneyInv
    <3>5. Collected(c)' = Collected(c) + added
      <4> HIDE DEF S, T
      <4> QED
        BY <1>4, <3>3, <3>4
    <3> QED
      BY <1>4, <1>5, <2>2, <2>4, <3>5
  <2> QED
    BY <2>3, <2>4
<1> QED
  BY <1>6, <1>7, <1>8, <1>9, <1>10, <1>11, IdleCarriesOn, IdleIsFree, MoneyMoves

\* A refund, or a void: exact when nothing came between what the handler read and this.
LEMMA ReturnMoney ==
  ASSUME Types, Types', MoneyInv, NEW h \in Requests, Return(h)
  PROVE  MoneyInv'
<1> PICK N : 0 \in N /\ Shapes(N)
  BY DEF Types
<1> PICK r \in Handler(N) : r = req[h]
  BY DEF Shapes
<1>1. PICK p \in Payments : r.pays = {p} /\ GivesBack(r, p)
  BY DEF Return, MoneyInv, Carrying, Holding
<1>2. PICK c : /\ customer' = [customer EXCEPT ![c].ltv = Reduced(@, r.amount)]
               /\ drifted' = IF r.clean /\ c = payment[p].owner THEN drifted ELSE drifted \cup {c, payment[p].owner}
  <2> DEFINE owner == IF r.docs = {} THEN r.c ELSE doc[CHOOSE d \in Docs : r.docs = {d}].owner
  <2>1. p = CHOOSE q \in Payments : r.pays = {q}
    BY <1>1
  <2>2. /\ customer' = [customer EXCEPT ![owner].ltv = Reduced(@, r.amount)]
        /\ drifted' = IF r.clean /\ owner = payment[p].owner THEN drifted ELSE drifted \cup {owner, payment[p].owner}
    BY <2>1 DEF Return
  <2> HIDE DEF owner
  <2> QED
    BY <2>2
<1>3. /\ r.pc = "return" /\ Finish(h) /\ doc' = doc /\ There(p)
      /\ payment' = [payment EXCEPT ![p].status = r.after.status,
                                    ![p].refunded = IF r.after.status = "void" THEN @ ELSE r.after.refunded]
      /\ \A g \in Requests \ {h} : Writing(g) => p \notin req[g].pays
  <2>1. p = CHOOSE q \in Payments : r.pays = {q}
    BY <1>1
  <2> QED
    BY <1>1, <2>1 DEF Return, Unlocked
<1>4. /\ r.amount \in Nat /\ r.after.refunded \in Nat /\ payment[p].refunded \in Nat /\ payment[p].amount \in Nat
      /\ payment[p].refunded <= payment[p].amount /\ r.after.refunded <= payment[p].amount
  BY <1>1, RowTypes DEF Handler, GivesBack, MoneyInv, RowsMoney
<1>5. /\ payment'[p].status = r.after.status /\ payment'[p].owner = payment[p].owner
      /\ payment'[p].amount = payment[p].amount
      /\ payment'[p].refunded = IF r.after.status = "void" THEN payment[p].refunded ELSE r.after.refunded
      /\ \A q \in Payments \ {p} : payment'[q] = payment[q]
  <2>1. PICK row \in PaymentRow : row = payment[p]
    BY DEF Types
  <2>2. payment'[p] = [row EXCEPT !.status = r.after.status,
                                  !.refunded = IF r.after.status = "void" THEN row.refunded ELSE r.after.refunded]
    BY <1>3, <2>1 DEF Types
  <2>3. \A q \in Payments \ {p} : payment'[q] = payment[q]
    BY <1>3 DEF Types
  <2> QED
    BY <2>1, <2>2, <2>3 DEF PaymentRow
<1>6. ASSUME NEW x \in Customers
      PROVE  /\ customer'[x].state = customer[x].state
             /\ customer'[x].ltv = IF x = c THEN Reduced(customer[x].ltv, r.amount) ELSE customer[x].ltv
  <2>1. PICK row \in CustomerRow(N) : row = customer[x]
    BY DEF Shapes
  <2>2. customer'[x] = IF x = c THEN [row EXCEPT !.ltv = Reduced(@, r.amount)] ELSE row
    BY <1>2, <2>1 DEF Shapes
  <2> QED
    BY <2>1, <2>2 DEF CustomerRow
<1>7. Lasting
  BY <1>6 DEF Lasting
<1>8. Moves(h, Idle) /\ Steady(h) /\ Met'
  BY <1>3, FinishDoes, MetLeave DEF MoneyInv
<1>9. r.after.status \in {"refunded", "partially_refunded", "void"} /\ Used(p) /\ payment[p].owner \in r.on
  BY <1>1 DEF GivesBack
<1>10. RowsStay
  BY <1>5, <1>9 DEF RowsStay, Used
<1>11. RowsMoney'
  <2>1. \A d \in Docs : Known(doc[d].owner)'
    BY <1>3, <1>7, OwnersLast DEF MoneyInv
  <2>2. \A q \in Payments : Used(q)' => Used(q) \/ q \in {}
    BY <1>5, <1>9 DEF Used
  <2>3. \A q \in Payments : payment'[q].refunded <= payment'[q].amount
    BY <1>4, <1>5 DEF MoneyInv, RowsMoney
  <2>6. \A q \in Payments : payment'[q].status = "succeeded" => payment'[q].refunded = 0
    BY <1>5, <1>9 DEF MoneyInv, RowsMoney
  <2>4. \A q \in Payments : payment'[q].owner = payment[q].owner
    BY <1>5
  <2>5. IsFiniteSet({})
    BY FS_EmptySet
  <2> QED
    BY <1>7, <2>1, <2>2, <2>3, <2>4, <2>5, <2>6, RowsKept DEF MoneyInv
<1>12. ASSUME NEW g \in Requests \ {h} PROVE Safe(g)
  <2> PICK s \in Handler(N) : s = req[g]
    BY DEF Shapes
  <2>1. Onward(g) /\ req'[g].on = s.on /\ Carrying(s)
    BY <1>8 DEF Moves, Steady, MoneyInv
  <2>2. s.pays \subseteq Payments
    BY DEF Handler
  <2>3. \A q \in Payments : payment'[q].owner = payment[q].owner
    BY <1>5
  <2>4. s.pc = "return" => \A q \in s.pays : payment[q].owner \in s.on
    BY <2>1 DEF Carrying, Holding, GivesBack
  <2>5. ASSUME req'[g].clean, s.pc = "return", NEW q \in s.pays PROVE payment'[q] = payment[q]
    <3>1. q # p
      BY <1>1, <1>3, <1>8, <2>5, SharedRow DEF Moves, MoneyInv
    <3> QED
      BY <1>5, <2>2, <3>1
  <2>6. ASSUME NEW q \in Payments, NowOwned(q, s.dup) PROVE PayOf(q, s.dup)
    BY <1>3, <1>5, <2>6 DEF NowOwned, PayOf, There
  <2>7. ASSUME req'[g].clean, s.pc \in {"merge", "delete"} PROVE Aside(g)
    <3>1. payment[p].owner # s.c
      <4>1. s.c \in s.on /\ Recounts(s)
        BY <2>1, <2>7 DEF Recounts, Carrying, Placed
      <4> QED
        BY <1>3, <1>8, <1>9, <2>7, <4>1, SharedCustomer DEF Moves, MoneyInv
    <3>2. p \notin s.pays
      BY <1>3, <2>7 DEF Writing
    <3>3. ~ PayOf(p, s.c) /\ ~ NowOwned(p, s.c)
      BY <1>5, <3>1 DEF PayOf, NowOwned
    <3> QED
      BY <1>5, <3>2, <3>3 DEF Aside
  <2> QED
    BY <2>1, <2>2, <2>3, <2>4, <2>5, <2>6, <2>7 DEF Safe, Writing
<1>13. LtvOK'
  <2> SUFFICES ASSUME NEW x \in Customers
               PROVE  customer'[x].ltv \in Nat /\ (x \notin drifted' => customer'[x].ltv = Collected(x)')
    BY DEF LtvOK
  <2>1. customer[x].ltv \in Nat /\ (x \notin drifted => customer[x].ltv = Collected(x))
    BY DEF MoneyInv, LtvOK
  <2>2. customer'[x].ltv \in Nat
    BY <1>4, <1>6, <2>1 DEF Reduced
  <2>3. CASE x # c /\ x # payment[p].owner
    <3>1. \A q \in Payments : payment'[q] = payment[q] \/ (~ PayOf(q, x) /\ ~ NowOwned(q, x))
      BY <1>5, <2>3 DEF PayOf, NowOwned
    <3>2. Collected(x)' = Collected(x)
      BY <3>1, CollectedSame DEF MoneyInv
    <3> QED
      BY <1>2, <1>6, <2>1, <2>2, <2>3, <3>2
  <2>4. ASSUME x = c, x = payment[p].owner, r.clean, x \notin drifted
        PROVE  customer'[x].ltv = Collected(x)'
    <3> DEFINE S == {q \in OwnedPays(x) : payment[q].status \in Counted}
               T == {q \in OwnedPays(x) : payment[q].status \in Counted}'
    <3>1. payment[p].status \in Counted
      BY <1>1, <2>4 DEF GivesBack, Counted
    <3>2. p \in S /\ (p \in T <=> r.after.status # "void")
      BY <1>3, <1>5, <1>9, <2>4, <3>1 DEF OwnedPays, There, Counted
    <3>3. Part(Kept, S, p) = payment[p].amount - payment[p].refunded
      BY <3>2 DEF Part, Kept
    <3>4. Part(Kept', T, p) = IF r.after.status = "void" THEN 0 ELSE payment[p].amount - r.after.refunded
      BY <1>5, <3>2 DEF Part, Kept
    <3>5. /\ Collected(x)' = Collected(x) - Part(Kept, S, p) + Part(Kept', T, p) /\ Collected(x) \in Nat
          /\ Part(Kept, S, p) <= Collected(x)
      BY <1>5, <1>11, CollectedMoves DEF MoneyInv
    <3> HIDE DEF S, T
    <3>6. /\ r.after.status = "void" => r.after.refunded = payment[p].refunded /\ r.amount = payment[p].amount
          /\ r.after.status # "void" => r.after.refunded = payment[p].refunded + r.amount
      BY <1>1, <2>4 DEF GivesBack
    <3>7. Collected(x)' = Collected(x) - r.amount /\ r.amount <= Collected(x)
      <4>1. CASE r.after.status = "void"
        <5>1. payment[p].refunded = 0
          BY <1>1, <2>4, <4>1 DEF GivesBack, MoneyInv, RowsMoney
        <5> QED
          BY <1>4, <3>3, <3>4, <3>5, <3>6, <4>1, <5>1
      <4>2. CASE r.after.status # "void"
        BY <1>4, <3>3, <3>4, <3>5, <3>6, <4>2
      <4> QED
        BY <4>1, <4>2
    <3> QED
      BY <1>4, <1>6, <2>1, <2>4, <3>5, <3>7 DEF Reduced
  <2> QED
    BY <1>2, <2>2, <2>3, <2>4
<1> QED
  BY <1>7, <1>8, <1>10, <1>11, <1>12, <1>13, IdleCarriesOn, IdleIsFree, MoneyMoves

\* The others are on the customer that is kept, where they were on the duplicate.
Widened(g, c, dup) == req'[g].on = IF dup \in req[g].on THEN req[g].on \cup {c} ELSE req[g].on

\* Whoever goes on with a moved row had met the merge already.
LEMMA MetMerge ==
  ASSUME Met, NEW h \in Requests, Moves(h, Idle), NEW c, NEW dup, c \in req[h].on, dup \in req[h].on,
         Recounts(req[h]), \A g \in Requests \ {h} : Widened(g, c, dup)
  PROVE  Met'
<1> SUFFICES ASSUME NEW g \in Requests, NEW k \in Requests, g # k, Conflict(req'[g], req'[k]), req'[g].clean PROVE FALSE
  BY DEF Met, Conflict, Recounts
<1>1. g # h /\ k # h
  BY DEF Moves, Became, Idle, Conflict
<1>2. Onward(g) /\ Onward(k) /\ req[h].pc # "idle"
  BY <1>1 DEF Moves, Recounts
<1>3. req[g].pc # "idle" /\ req[k].pc # "idle"
  BY <1>2 DEF Conflict, Onward
<1>4. dup \notin req[g].on /\ c \notin req[g].on
  BY <1>1, <1>2, <1>3, SharedCustomer
<1>5. req'[g].on = req[g].on
  BY <1>1, <1>4 DEF Widened
<1>6. req'[g].on \cap req'[k].on = req[g].on \cap req[k].on
  BY <1>1, <1>4, <1>5 DEF Widened
<1>7. Conflict(req[g], req[k])
  BY <1>2, <1>3, <1>6 DEF Conflict, Onward, Recounts
<1> QED
  BY <1>2, <1>7 DEF Met, Onward

\* The rows that were summed go to the customer that is kept, with the sum.
LEMMA MergeMoney ==
  ASSUME Types, Types', HandlersInv, MoneyInv, NEW h \in Requests, Merge(h)
  PROVE  MoneyInv'
<1> PICK N : 0 \in N /\ Shapes(N)
  BY DEF Types
<1> PICK r \in Handler(N) : r = req[h]
  BY DEF Shapes
<1>1. /\ r.pc = "merge"
      /\ payment' = [p \in Payments |-> IF p \in r.pays THEN [payment[p] EXCEPT !.owner = r.c] ELSE payment[p]]
      /\ customer' = [customer EXCEPT ![r.c].ltv = r.total, ![r.dup].state = "merged", ![r.dup].ltv = 0]
      /\ drifted' = IF r.clean THEN drifted \ r.on ELSE drifted \cup r.on
      /\ req' = [g \in Requests |->
             IF g = h THEN Idle ELSE IF r.dup \in req[g].on THEN [req[g] EXCEPT !.on = @ \cup {r.c}] ELSE req[g]]
  BY DEF Merge, Recounted
<1>2. /\ Carrying(r) /\ r.dup \in Customers /\ r.c # r.dup
      /\ r.total \in Nat /\ Known(r.c) /\ r.c \in r.on /\ r.dup \in r.on /\ Recounts(r)
      /\ r.pays \subseteq Payments
  BY <1>1 DEF Handler, HandlersInv, HandlerOK, Merging, MoneyInv, Carrying, Placed, Recounts
<1>3. ASSUME NEW q \in Payments
      PROVE  /\ payment'[q].status = payment[q].status /\ payment'[q].amount = payment[q].amount
             /\ payment'[q].refunded = payment[q].refunded
             /\ payment'[q].owner = IF q \in r.pays THEN r.c ELSE payment[q].owner
             /\ q \notin r.pays => payment'[q] = payment[q]
  BY <1>1 DEF Types, PaymentRow
<1>4. \A q \in r.pays : Used(q) /\ payment[q].owner = r.dup
  BY <1>1, <1>2 DEF Carrying, Holding
<1>5. ASSUME NEW x \in Customers
      PROVE  /\ customer'[x].state = IF x = r.dup THEN "merged" ELSE customer[x].state
             /\ customer'[x].ltv = IF x = r.dup THEN 0 ELSE IF x = r.c THEN r.total ELSE customer[x].ltv
  <2>1. PICK row \in CustomerRow(N) : row = customer[x]
    BY DEF Shapes
  <2>2. customer'[x] = IF x = r.dup THEN [row EXCEPT !.state = "merged", !.ltv = 0]
                       ELSE IF x = r.c THEN [row EXCEPT !.ltv = r.total] ELSE row
    BY <1>1, <1>2, <2>1 DEF Shapes
  <2> QED
    BY <2>1, <2>2 DEF CustomerRow
<1>6. Lasting
  BY <1>5 DEF Lasting
<1>7. Moves(h, Idle)
  BY MergeDoes
<1>8. ASSUME NEW g \in Requests \ {h} PROVE Widened(g, r.c, r.dup)
  <2>1. PICK s \in Handler(N) : s = req[g]
    BY DEF Shapes
  <2>2. req'[g] = IF r.dup \in s.on THEN [s EXCEPT !.on = @ \cup {r.c}] ELSE s
    BY <1>1, <2>1
  <2> QED
    BY <2>1, <2>2 DEF Widened, Handler
<1>9. Met'
  BY <1>2, <1>7, <1>8, MetMerge DEF MoneyInv
<1>10. RowsStay
  BY <1>3 DEF RowsStay, Used
<1>11. Known(r.c)'
  BY <1>2, <1>6 DEF Known, Lasting
<1>12. RowsMoney'
  <2>1. ASSUME NEW d \in Docs PROVE Known(doc[d].owner)'
    <3>1. doc'[d].owner = IF d \in r.docs THEN r.c ELSE doc[d].owner
      BY MergeDoes
    <3>2. CASE d \in r.docs
      BY <1>11, <3>1, <3>2 DEF Known
    <3>3. CASE d \notin r.docs
      BY <1>6, <3>1, <3>3, OwnersLast DEF MoneyInv
    <3> QED
      BY <3>2, <3>3
  <2>2. \A q \in Payments : Used(q)' => Used(q) \/ q \in {}
    BY <1>3 DEF Used
  <2>3. \A q \in Payments : payment'[q].refunded <= payment'[q].amount
    BY <1>3 DEF MoneyInv, RowsMoney
  <2>6. \A q \in Payments : payment'[q].status = "succeeded" => payment'[q].refunded = 0
    BY <1>3 DEF MoneyInv, RowsMoney
  <2>4. ASSUME NEW q \in Payments PROVE payment'[q].owner = payment[q].owner \/ Known(payment[q].owner)'
    <3>1. CASE q \in r.pays
      BY <1>3, <1>11, <3>1 DEF Known
    <3>2. CASE q \notin r.pays
      BY <1>3, <3>2
    <3> QED
      BY <3>1, <3>2
  <2>5. IsFiniteSet({})
    BY FS_EmptySet
  <2> QED
    BY <1>6, <2>1, <2>2, <2>3, <2>4, <2>5, <2>6, RowsKept DEF MoneyInv
<1>13. ASSUME NEW g \in Requests \ {h} PROVE Safe(g)
  <2> PICK s \in Handler(N) : s = req[g]
    BY DEF Shapes
  <2>1. Onward(g) /\ Carrying(s) /\ s.pays \subseteq Payments
    BY <1>7 DEF Moves, MoneyInv, Handler
  <2>2. req'[g].on = IF r.dup \in s.on THEN s.on \cup {r.c} ELSE s.on
    BY <1>8 DEF Widened
  <2>3. ASSUME req'[g].clean, s.pc # "idle" PROVE r.c \notin s.on /\ r.dup \notin s.on
    BY <1>1, <1>2, <2>1, <2>3, SharedCustomer DEF MoneyInv
  <2>4. ASSUME Writing(g), NEW q \in s.pays PROVE q \notin r.pays /\ payment'[q] = payment[q]
    BY <1>1, <1>3, <2>1, <2>4 DEF MoneyInv, Locks, Writing
  <2>5. ASSUME s.pc = "return", NEW q \in s.pays PROVE payment'[q].owner \in req'[g].on
    <3>1. q \in Payments /\ payment[q].owner \in s.on
      BY <2>1, <2>5 DEF Carrying, Holding, GivesBack
    <3> QED
      BY <1>3, <1>4, <2>2, <3>1
  <2>6. \A q \in s.pays : payment'[q].status = payment[q].status /\ payment'[q].refunded = payment[q].refunded
    BY <1>3, <2>1
  <2>7. ASSUME req'[g].clean, s.pc \in {"sum", "merge"}, NEW q \in Payments, NowOwned(q, s.dup) PROVE PayOf(q, s.dup)
    <3>1. r.c # s.dup
      BY <2>1, <2>3, <2>7 DEF Carrying, Placed, Merging
    <3> QED
      BY <1>3, <2>7, <3>1 DEF NowOwned, PayOf, There
  <2>8. ASSUME req'[g].clean, s.pc \in {"merge", "delete"} PROVE Aside(g)
    <3>1. s.c # r.c /\ s.c # r.dup
      BY <2>1, <2>3, <2>8 DEF Carrying, Placed, Recounts
    <3>2. ASSUME NEW q \in r.pays PROVE ~ PayOf(q, s.c) /\ ~ NowOwned(q, s.c) /\ q \notin s.pays
      BY <1>2, <1>3, <1>4, <2>4, <2>8, <3>1 DEF PayOf, NowOwned, Writing
    <3> QED
      BY <1>3, <3>2 DEF Aside
  <2>9. ASSUME req'[g].clean, s.pc \in Merging PROVE req'[g].on = s.on
    BY <2>2, <2>3, <2>9 DEF Merging
  <2> QED
    BY <2>4, <2>5, <2>6, <2>7, <2>8, <2>9 DEF Safe
<1>14. LtvOK'
  <2> SUFFICES ASSUME NEW x \in Customers
               PROVE  customer'[x].ltv \in Nat /\ (x \notin drifted' => customer'[x].ltv = Collected(x)')
    BY DEF LtvOK
  <2>1. customer[x].ltv \in Nat /\ (x \notin drifted => customer[x].ltv = Collected(x))
    BY DEF MoneyInv, LtvOK
  <2>2. customer'[x].ltv \in Nat
    BY <1>2, <1>5, <2>1
  <2>3. ASSUME NEW q \in Payments
        PROVE  /\ q \in OwnedPays(x) <=> There(q) /\ payment[q].owner = x
               /\ q \in OwnedPays(x)' <=> There(q) /\ (IF q \in r.pays THEN r.c ELSE payment[q].owner) = x
    BY <1>3 DEF OwnedPays, There
  <2>4. CASE x # r.c /\ x # r.dup
    <3>1. \A q \in Payments : payment'[q] = payment[q] \/ (~ PayOf(q, x) /\ ~ NowOwned(q, x))
      BY <1>3, <1>4, <2>4 DEF PayOf, NowOwned
    <3>2. Collected(x)' = Collected(x)
      BY <3>1, CollectedSame DEF MoneyInv
    <3>3. x \notin drifted' => x \notin drifted
      <4>1. r.clean => r.on = {r.c, r.dup}
        BY <1>1, <1>2 DEF Carrying, Exact, Merging
      <4> QED
        BY <1>1, <2>4, <4>1
    <3> QED
      BY <1>5, <2>1, <2>2, <2>4, <3>2, <3>3
  <2>5. ASSUME r.clean, x = r.dup PROVE Collected(x)' = 0
    <3>1. OwnedPays(r.dup) \subseteq r.pays
      BY <1>1, <1>2, <2>5 DEF Carrying, Exact
    <3>2. \A q \in Payments : q \notin OwnedPays(x)'
      BY <1>2, <2>3, <2>5, <3>1
    <3>3. {q \in OwnedPays(x)' : payment'[q].status \in Counted} = {}
      BY <3>2 DEF OwnedPays
    <3>4. Collected(x)' = SumFunctionOnSet(Kept', {q \in OwnedPays(x)' : payment'[q].status \in Counted})
      BY DEF Collected, Recount
    <3> QED
      BY <3>3, <3>4, SumEmpty
  <2>6. ASSUME r.clean, x = r.c PROVE Collected(x)' = r.total
    <3> DEFINE ps == OwnedPays(r.c) \cup r.pays
               qs == OwnedPays(r.c)'
    <3>1. r.total = Recount(ps)
      BY <1>1, <1>2, <2>6 DEF Carrying, Exact
    <3>2. ps \subseteq Payments /\ qs \subseteq Payments
      BY <1>2 DEF OwnedPays
    <3>3. \A q \in Payments : (q \in ps /\ payment[q].status \in Counted) <=> (q \in qs /\ payment'[q].status \in Counted)
      BY <1>3, <1>4, <2>3, <2>6 DEF There, Counted
    <3>4. \A q \in ps : payment[q].status \in Counted =>
              payment'[q].amount = payment[q].amount /\ payment'[q].refunded = payment[q].refunded
      BY <1>3, <3>2
    <3>5. Collected(x)' = RecountNext(qs)
      BY <2>6 DEF Collected, Recount, RecountNext, OwnedPays
    <3> HIDE DEF ps, qs
    <3>6. RecountNext(qs) = Recount(ps)
      BY <3>2, <3>3, <3>4, RecountKept DEF MoneyInv
    <3> QED
      BY <3>1, <3>5, <3>6
  <2>7. CASE x = r.c \/ x = r.dup
    <3>1. x \notin drifted' => r.clean
      BY <1>1, <1>2, <2>7
    <3> QED
      BY <1>2, <1>5, <2>2, <2>5, <2>6, <2>7, <3>1
  <2> QED
    BY <2>4, <2>7
<1> QED
  BY <1>6, <1>7, <1>9, <1>10, <1>12, <1>13, <1>14, IdleCarriesOn, IdleIsFree, MoneyMoves

\* The rows go, and the customer that was recounted without them has the sum of the rest.
LEMMA DeleteMoney ==
  ASSUME Types, Types', MoneyInv, NEW h \in Requests, Delete(h)
  PROVE  MoneyInv'
<1> PICK N : 0 \in N /\ Shapes(N)
  BY DEF Types
<1> PICK r \in Handler(N) : r = req[h]
  BY DEF Shapes
<1> DEFINE owners == {payment[p].owner : p \in r.pays}
<1>1. /\ r.pc = "delete" /\ Finish(h)
      /\ doc' = [d \in Docs |-> IF d \in r.docs THEN [doc[d] EXCEPT !.state = "gone"] ELSE doc[d]]
      /\ payment' = [p \in Payments |-> IF p \in r.pays THEN [payment[p] EXCEPT !.status = "gone"] ELSE payment[p]]
      /\ customer' = IF r.pays = {} THEN customer ELSE [customer EXCEPT ![r.c].ltv = r.total]
      /\ drifted' = (IF r.pays = {} THEN drifted ELSE IF r.clean THEN drifted \ {r.c} ELSE drifted \cup r.on)
                    \cup (owners \ {r.c})
  BY DEF Delete, Recounted
<1>2. /\ Carrying(r) /\ r.total \in Nat /\ r.c \in r.on /\ Recounts(r) /\ r.pays \subseteq Payments
  BY <1>1 DEF Handler, MoneyInv, Carrying, Placed, Recounts
<1>3. ASSUME NEW q \in Payments
      PROVE  /\ payment'[q].status = IF q \in r.pays THEN "gone" ELSE payment[q].status
             /\ payment'[q].amount = payment[q].amount /\ payment'[q].refunded = payment[q].refunded
             /\ payment'[q].owner = payment[q].owner
             /\ q \notin r.pays => payment'[q] = payment[q]
  BY <1>1 DEF Types, PaymentRow
<1>4. \A q \in r.pays : Used(q) /\ payment[q].owner \in r.on
  BY <1>1, <1>2 DEF Carrying, Holding
<1>5. ASSUME NEW x \in Customers
      PROVE  /\ customer'[x].state = customer[x].state
             /\ customer'[x].ltv = IF r.pays # {} /\ x = r.c THEN r.total ELSE customer[x].ltv
  <2>1. PICK row \in CustomerRow(N) : row = customer[x]
    BY DEF Shapes
  <2>2. customer'[x] = IF r.pays # {} /\ x = r.c THEN [row EXCEPT !.ltv = r.total] ELSE row
    BY <1>1, <1>2, <2>1 DEF Shapes
  <2> QED
    BY <2>1, <2>2 DEF CustomerRow
<1>6. Lasting
  BY <1>5 DEF Lasting
<1>7. Moves(h, Idle) /\ Steady(h) /\ Met'
  BY <1>1, FinishDoes, MetLeave DEF MoneyInv
<1>8. RowsStay
  BY <1>3 DEF RowsStay, Used
<1>9. RowsMoney'
  <2>1. ASSUME NEW d \in Docs PROVE Known(doc[d].owner)'
    <3>1. doc'[d].owner = doc[d].owner
      BY DeleteDoes
    <3> QED
      BY <1>6, <3>1, OwnersLast DEF MoneyInv
  <2>2. \A q \in Payments : Used(q)' => Used(q) \/ q \in {}
    BY <1>3, <1>4 DEF Used
  <2>3. \A q \in Payments : payment'[q].refunded <= payment'[q].amount
    BY <1>3 DEF MoneyInv, RowsMoney
  <2>6. \A q \in Payments : payment'[q].status = "succeeded" => payment'[q].refunded = 0
    BY <1>3 DEF MoneyInv, RowsMoney
  <2>4. \A q \in Payments : payment'[q].owner = payment[q].owner
    BY <1>3
  <2>5. IsFiniteSet({})
    BY FS_EmptySet
  <2> QED
    BY <1>6, <2>1, <2>2, <2>3, <2>4, <2>5, <2>6, RowsKept DEF MoneyInv
<1>10. ASSUME NEW g \in Requests \ {h} PROVE Safe(g)
  <2> PICK s \in Handler(N) : s = req[g]
    BY DEF Shapes
  <2>1. Onward(g) /\ req'[g].on = s.on /\ Carrying(s) /\ s.pays \subseteq Payments
    BY <1>7 DEF Moves, Steady, MoneyInv, Handler
  <2>2. \A q \in s.pays : payment'[q].owner = payment[q].owner
    BY <1>3, <2>1
  <2>3. s.pc = "return" => \A q \in s.pays : payment[q].owner \in s.on
    BY <2>1 DEF Carrying, Holding, GivesBack
  <2>4. ASSUME req'[g].clean, s.pc = "return", NEW q \in s.pays PROVE payment'[q] = payment[q]
    <3>1. q \notin r.pays
      BY <1>1, <2>1, <2>4, SharedRow DEF MoneyInv
    <3> QED
      BY <1>3, <2>1, <3>1
  <2>5. ASSUME NEW q \in Payments, NowOwned(q, s.dup) PROVE PayOf(q, s.dup)
    BY <1>3, <2>5 DEF NowOwned, PayOf, There
  <2>6. ASSUME req'[g].clean, s.pc \in {"merge", "delete"} PROVE Aside(g)
    <3>1. s.c \notin r.on
      <4>1. s.c \in s.on
        BY <2>1, <2>6 DEF Carrying, Placed, Recounts
      <4> QED
        BY <1>1, <1>2, <2>1, <2>6, <4>1, SharedCustomer DEF MoneyInv
    <3>2. ASSUME NEW q \in r.pays PROVE q \notin s.pays
      BY <1>1, <2>6, <3>2 DEF MoneyInv, Locks, Writing
    <3>3. ASSUME NEW q \in r.pays PROVE ~ PayOf(q, s.c) /\ ~ NowOwned(q, s.c)
      BY <1>2, <1>3, <1>4, <3>1 DEF PayOf, NowOwned
    <3> QED
      BY <1>3, <3>2, <3>3 DEF Aside
  <2> QED
    BY <2>1, <2>2, <2>3, <2>4, <2>5, <2>6 DEF Safe
<1>11. LtvOK'
  <2> SUFFICES ASSUME NEW x \in Customers
               PROVE  customer'[x].ltv \in Nat /\ (x \notin drifted' => customer'[x].ltv = Collected(x)')
    BY DEF LtvOK
  <2>1. customer[x].ltv \in Nat /\ (x \notin drifted => customer[x].ltv = Collected(x))
    BY DEF MoneyInv, LtvOK
  <2>2. customer'[x].ltv \in Nat
    BY <1>2, <1>5, <2>1
  <2>3. ASSUME NEW q \in Payments
        PROVE  /\ q \in OwnedPays(x) <=> There(q) /\ payment[q].owner = x
               /\ q \in OwnedPays(x)' <=> There(q) /\ q \notin r.pays /\ payment[q].owner = x
    BY <1>3 DEF OwnedPays, There
  <2>4. ASSUME r.pays = {} \/ x # r.c, x \notin drifted' PROVE customer'[x].ltv = Collected(x)'
    <3>1. ASSUME NEW q \in r.pays PROVE payment[q].owner # x
      BY <1>1, <2>4
    <3>2. \A q \in Payments : payment'[q] = payment[q] \/ (~ PayOf(q, x) /\ ~ NowOwned(q, x))
      BY <1>3, <3>1 DEF PayOf, NowOwned
    <3>3. Collected(x)' = Collected(x)
      BY <3>2, CollectedSame DEF MoneyInv
    <3>4. x \notin drifted
      BY <1>1, <2>4
    <3> QED
      BY <1>5, <2>1, <2>4, <3>3, <3>4
  <2>5. ASSUME r.pays # {}, x = r.c, x \notin drifted' PROVE customer'[x].ltv = Collected(x)'
    <3> DEFINE ps == OwnedPays(r.c) \ r.pays
               qs == OwnedPays(r.c)'
    <3>1. r.clean
      BY <1>1, <1>2, <2>5
    <3>2. r.total = Recount(ps)
      BY <1>1, <1>2, <3>1 DEF Carrying, Exact
    <3>3. ps \subseteq Payments /\ qs \subseteq Payments
      BY DEF OwnedPays
    <3>4. \A q \in Payments : (q \in ps /\ payment[q].status \in Counted) <=> (q \in qs /\ payment'[q].status \in Counted)
      BY <1>3, <2>3, <2>5
    <3>5. \A q \in ps : payment[q].status \in Counted =>
              payment'[q].amount = payment[q].amount /\ payment'[q].refunded = payment[q].refunded
      BY <1>3, <3>3
    <3>6. Collected(x)' = RecountNext(qs)
      BY <2>5 DEF Collected, Recount, RecountNext, OwnedPays
    <3> HIDE DEF ps, qs
    <3>7. RecountNext(qs) = Recount(ps)
      BY <3>3, <3>4, <3>5, RecountKept DEF MoneyInv
    <3> QED
      BY <1>5, <2>5, <3>2, <3>6, <3>7
  <2> QED
    BY <2>2, <2>4, <2>5
<1> QED
  BY <1>6, <1>7, <1>8, <1>9, <1>10, <1>11, IdleCarriesOn, IdleIsFree, MoneyMoves

LEMMA NextMoney == CarefulStaff /\ Types /\ Types' /\ HandlersInv /\ MoneyInv /\ [Next]_vars => MoneyInv'
<1> SUFFICES ASSUME CarefulStaff, Types, Types', HandlersInv, MoneyInv, [Next]_vars PROVE MoneyInv'
  OBVIOUS
<1>1. CASE UNCHANGED vars
  <2>1. UNCHANGED <<customer, doc, payment, req, drifted>>
    BY <1>1 DEF vars
  <2>2. Lasting /\ \A d \in Docs : Known(doc[d].owner)'
    BY <2>1 DEF Lasting, MoneyInv, RowsMoney, Known
  <2> QED
    BY <2>1, <2>2, MoneyUntouched
<1>2. ASSUME NEW c \in Customers, SoftDelete(c) \/ \E d \in Docs : NewInvoice(c, d) PROVE MoneyInv'
  BY <1>2, SoftDeleteMoney, NewInvoiceMoney
<1>3. ASSUME NEW h \in Requests,
             \/ \E e \in Emails : \/ BeginCreate(h, e)
                                  \/ \E c \in Customers : BeginEdit(h, c, e)
                                  \/ \E k \in Keys : Submit(h, k, e)
             \/ Insert(h) \/ Edit(h) \/ Find(h) \/ Quote(h) \/ Conclude(h) \/ Abort(h)
      PROVE  MoneyInv'
  BY <1>3, BeginCreateMoney, BeginEditMoney, SubmitMoney, InsertMoney, EditMoney, FindMoney, QuoteMoney, LeaveMoney
<1>4. ASSUME NEW h \in Requests,
             \/ \E c, dup \in Customers : BeginMerge(h, c, dup)
             \/ Move(h) \/ Sum(h) \/ Merge(h) \/ BeginDelete(h) \/ Strike(h) \/ Delete(h)
      PROVE  MoneyInv'
  BY <1>4, BeginMergeMoney, MoveMoney, SumMoney, MergeMoney, BeginDeleteMoney, StrikeMoney, DeleteMoney
<1>5. ASSUME NEW h \in Requests,
             \/ \E a \in Amounts : BeginPay(h, a)
             \/ \E p \in Payments : BeginReturn(h, p)
             \/ Pay(h) \/ Return(h)
      PROVE  MoneyInv'
  BY <1>5, BeginPayMoney, BeginReturnMoney, PayMoney, ReturnMoney
<1>7. ASSUME NEW k \in Keys, Forget(k) PROVE MoneyInv'
  <2>1. UNCHANGED <<customer, doc, payment, req, drifted>>
    BY <1>7, ForgetDoes
  <2>2. Lasting /\ \A d \in Docs : Known(doc[d].owner)'
    BY <2>1 DEF Lasting, MoneyInv, RowsMoney, Known
  <2> QED
    BY <2>1, <2>2, MoneyUntouched
<1>6. CASE Next
  BY <1>2, <1>3, <1>4, <1>5, <1>6, <1>7 DEF Next
<1> QED
  BY <1>1, <1>6

LEMMA InitMoney == Init => MoneyInv
<1> SUFFICES ASSUME Init PROVE MoneyInv
  OBVIOUS
<1>1. /\ \A h \in Requests : req[h] = Idle
      /\ \A p \in Payments : payment[p] = [status |-> "unused", owner |-> None, docs |-> {}, amount |-> 0, refunded |-> 0]
      /\ \A d \in Docs : doc[d].owner = None
      /\ \A c \in Customers : customer[c].ltv = 0
  BY DEF Init
<1>2. Met /\ Locks
  BY <1>1 DEF Met, Locks, Conflict, Writing, Idle
<1>3. RowsMoney
  <2>1. {p \in Payments : Used(p)} = {}
    BY <1>1 DEF Used
  <2>2. IsFiniteSet({p \in Payments : Used(p)})
    BY <2>1, FS_EmptySet
  <2>3. Known(None)
    BY NoneAssumption DEF Known
  <2>4. \A p \in Payments : payment[p].refunded = 0 /\ payment[p].amount = 0 /\ payment[p].owner = None
    BY <1>1
  <2>5. \A p \in Payments : payment[p].refunded <= payment[p].amount
    BY <2>4
  <2>6. (\A p \in Payments : Known(payment[p].owner)) /\ \A d \in Docs : Known(doc[d].owner)
    BY <1>1, <2>3, <2>4
  <2>7. \A p \in Payments : payment[p].status = "succeeded" => payment[p].refunded = 0
    BY <2>4
  <2> QED
    BY <2>2, <2>5, <2>6, <2>7 DEF RowsMoney
<1>4. LtvOK
  <2>1. ASSUME NEW c \in Customers PROVE Collected(c) = 0
    <3>1. {p \in OwnedPays(c) : payment[p].status \in Counted} = {}
      BY <1>1 DEF OwnedPays, There
    <3> QED
      BY <3>1, SumEmpty DEF Collected, Recount
  <2> QED
    BY <1>1, <2>1 DEF LtvOK
<1>5. ASSUME NEW h \in Requests PROVE Carrying(req[h])
  BY <1>1, IdleCarries
<1> QED
  BY <1>2, <1>3, <1>4, <1>5 DEF MoneyInv

\* Whatever payments, failed attempts, refunds, voids, merges and deletions are under way,
\* the lifetime_value of a customer is what is kept of that customer's payments, as
\* PaymentsService moves it up and down and CustomersService.merge and AdminDataService
\* recount it, except for customers whose money two handlers moved at once; a recount that
\* nothing overlapped repairs it.  The staff void and refund where the payments section
\* offers it: voidPayment itself would void a failed or half-refunded payment.
THEOREM LifetimeValueIsCollected ==
  ASSUME CarefulStaff
  PROVE  Spec => []LtvIsCollected
<1>1. Init => MoneyInv
  BY InitMoney
<1>2. RecordsInv /\ RecordsInv' /\ MoneyInv /\ [Next]_vars => MoneyInv'
  BY NextMoney DEF RecordsInv
<1>3. RecordsInv /\ MoneyInv => LtvIsCollected
  BY MoneyIsCollected DEF RecordsInv, MoneyInv
<1> QED
  BY <1>1, <1>2, <1>3, Invariance, PTL DEF Spec

=============================================================================
