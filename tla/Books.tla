-------------------------------- MODULE Books --------------------------------
(***************************************************************************)
(* What the payment handlers promise, with no handler in it: a customer's  *)
(* money is collected by a payment and given back from it, and whenever    *)
(* the value of a payment changes, amount_paid of its invoice and          *)
(* lifetime_value of its customer move by the same amount, in the same     *)
(* step, and never below zero.                                             *)
(***************************************************************************)
EXTENDS Integers, Functions

CONSTANTS Invoices, Customers, Payments, None

VARIABLES
    account,        \* the invoice a payment was collected for, None if for none
    holder,         \* the customer who paid it, None while nothing was collected
    net,            \* what is kept of the payment
    amountPaid,     \* per invoice
    lifetimeValue   \* per customer

vars == <<account, holder, net, amountPaid, lifetimeValue>>

Init ==
    /\ account = [p \in Payments |-> None]
    /\ holder = [p \in Payments |-> None]
    /\ net = [p \in Payments |-> 0]
    /\ amountPaid = [i \in Invoices |-> 0]
    /\ lifetimeValue = [c \in Customers |-> 0]

Move(n, change) == IF n + change < 0 THEN 0 ELSE n + change

\* Payment p now keeps another amount; its invoice and its customer follow.
Post(p, i, c) ==
    LET change == net'[p] - net[p] IN
    /\ net' = [net EXCEPT ![p] = net'[p]]
    /\ amountPaid' = IF i = None THEN amountPaid
                     ELSE [amountPaid EXCEPT ![i] = Move(@, change)]
    /\ lifetimeValue' = [lifetimeValue EXCEPT ![c] = Move(@, change)]

Collect(p, i, c) ==
    /\ holder[p] = None
    /\ holder' = [holder EXCEPT ![p] = c]
    /\ account' = [account EXCEPT ![p] = i]
    /\ net'[p] > 0
    /\ Post(p, i, c)

GiveBack(p) ==
    /\ holder[p] # None
    /\ 0 <= net'[p] /\ net'[p] < net[p]
    /\ Post(p, account[p], holder[p])
    /\ UNCHANGED <<account, holder>>

Next ==
    \E p \in Payments :
        \/ \E i \in Invoices \cup {None}, c \in Customers : Collect(p, i, c)
        \/ GiveBack(p)

Spec == Init /\ [][Next]_vars

-----------------------------------------------------------------------------
\* What is kept of the payments of an invoice, and of those of a customer.
KeptFor(i)  == SumFunctionOnSet(net, {p \in Payments : account[p] = i})
KeptFrom(c) == SumFunctionOnSet(net, {p \in Payments : holder[p] = c})

\* amount_paid of every invoice is what is kept of its payments, and
\* lifetime_value of every customer what is kept of theirs: the formula the
\* customer merge and the permanent deletions recompute it with.
Balanced ==
    /\ \A i \in Invoices : amountPaid[i] = KeptFor(i)
    /\ \A c \in Customers : lifetimeValue[c] = KeptFrom(c)
=============================================================================
