------------------------------- MODULE Quotes --------------------------------
(***************************************************************************)
(* What the estimate handlers promise, with no handler in it: a quote is   *)
(* revised while it is a draft, offered, and decided once; only reopening  *)
(* makes it a draft again; an accepted quote is sold once, at its terms,   *)
(* and a sold one is billed once.                                          *)
(***************************************************************************)
CONSTANTS Estimates, Jobs, Invoices, Totals

VARIABLES
    decision,   \* "draft", "offered", "accepted", "declined" or "expired"
    terms,      \* the total the customer is quoted
    sold,       \* the job made of the quote, with its price
    billed      \* the invoice made of the job

vars == <<decision, terms, sold, billed>>

Init ==
    /\ decision = [e \in Estimates |-> "draft"]
    /\ terms \in [Estimates -> Totals]
    /\ sold = [e \in Estimates |-> {}]
    /\ billed = [e \in Estimates |-> {}]

Revise(e, t) ==
    /\ decision[e] = "draft"
    /\ terms' = [terms EXCEPT ![e] = t]
    /\ UNCHANGED <<decision, sold, billed>>

Offer(e) ==
    /\ decision[e] = "draft"
    /\ decision' = [decision EXCEPT ![e] = "offered"]
    /\ UNCHANGED <<terms, sold, billed>>

\* The staff may record a decision on a draft; the portal lets a customer
\* decline a quote that has expired.
Decide(e, d) ==
    /\ decision[e] \in {"draft", "offered"} \/ (decision[e] = "expired" /\ d = "declined")
    /\ decision' = [decision EXCEPT ![e] = d]
    /\ UNCHANGED <<terms, sold, billed>>

Reopen(e) ==
    /\ decision[e] # "draft"
    /\ decision' = [decision EXCEPT ![e] = "draft"]
    /\ UNCHANGED <<terms, sold, billed>>

Sell(e, j) ==
    /\ decision[e] = "accepted" /\ sold[e] = {}
    /\ sold' = [sold EXCEPT ![e] = {<<j, terms[e]>>}]
    /\ UNCHANGED <<decision, terms, billed>>

Bill(e, v) ==
    /\ sold[e] # {} /\ billed[e] = {}
    /\ billed' = [billed EXCEPT ![e] = {v}]
    /\ UNCHANGED <<decision, terms, sold>>

Next ==
    \E e \in Estimates :
        \/ \E t \in Totals : Revise(e, t)
        \/ \E d \in {"accepted", "declined", "expired"} : Decide(e, d)
        \/ Offer(e) \/ Reopen(e)
        \/ \E j \in Jobs : Sell(e, j)
        \/ \E v \in Invoices : Bill(e, v)

Spec == Init /\ [][Next]_vars
=============================================================================
