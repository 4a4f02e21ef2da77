------------------------------- MODULE Notices --------------------------------
(***************************************************************************)
(* What the automation runs promise of every reminder, with no run in it:  *)
(* it is taken in hand once, for good, and entered in the log as sent;     *)
(* then one copy leaves or none does, and it is never taken in hand again. *)
(* That none left may be entered later, never taken back.                  *)
(***************************************************************************)
EXTENDS Naturals

CONSTANT Messages

VARIABLES
    phase,      \* "open", "pending" while it is in hand, "closed"
    copies,     \* how often it left
    record      \* what the log says: "none", "sent" or "failed"

vars == <<phase, copies, record>>

Init ==
    /\ phase = [m \in Messages |-> "open"]
    /\ copies = [m \in Messages |-> 0]
    /\ record = [m \in Messages |-> "none"]

Undertake(m) ==
    /\ phase[m] = "open"
    /\ phase' = [phase EXCEPT ![m] = "pending"]
    /\ record' = [record EXCEPT ![m] = "sent"]
    /\ UNCHANGED copies

Tell(m) ==
    /\ phase[m] = "pending"
    /\ phase' = [phase EXCEPT ![m] = "closed"]
    /\ copies' = [copies EXCEPT ![m] = @ + 1]
    /\ UNCHANGED record

\* A crash loses whatever was in hand at once.
Lose(lost) ==
    /\ \A m \in lost : phase[m] = "pending"
    /\ phase' = [m \in Messages |-> IF m \in lost THEN "closed" ELSE phase[m]]
    /\ UNCHANGED <<copies, record>>

Admit(m) ==
    /\ phase[m] = "closed"
    /\ record' = [record EXCEPT ![m] = "failed"]
    /\ UNCHANGED <<phase, copies>>

Next ==
    \/ \E m \in Messages : Undertake(m) \/ Tell(m) \/ Admit(m)
    \/ \E lost \in SUBSET Messages : Lose(lost)

Spec == Init /\ [][Next]_vars
=============================================================================
