---------------------------- MODULE MCReminders ----------------------------
(* A job, its invoice and an estimate, in the mixes of rules that meet on a *)
(* subject: the two that read a completed job's times, the one of a job     *)
(* beside the one of its invoice, the two of an estimate.                   *)
EXTENDS Reminders

CONSTANTS e1, v1, j1, now

Mix(rules, subjects, deaths) == [rules |-> rules, subjects |-> subjects, crashes |-> deaths]

MCMixes == {Mix({"recurring_reminder", "job_thank_you"}, {j1}, 1),
            Mix({"review_request", "payment_reminder"}, {v1, j1}, 1),
            Mix({"estimate_followup", "estimate_expiration_reminder"}, {e1}, 0)}
MCThanks    == {Mix({"job_thank_you"}, {j1}, 1)}
MCFollowups == {Mix({"estimate_followup", "estimate_expiration_reminder"}, {e1}, 1)}
MCLapse     == [e \in {e1} |-> 0]
MCScheduled == [j \in {j1} |-> 0]
MCProperty  == [j \in {j1} |-> "p"]
=============================================================================
