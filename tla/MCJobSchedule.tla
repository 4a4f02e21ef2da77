---------------------------- MODULE MCJobSchedule ----------------------------
(***************************************************************************)
(* The instances of JobSchedule that TLC checks.                           *)
(***************************************************************************)
EXTENDS JobSchedule, TLC

\* Two spans that touch and one that overlaps both.
MCSpans    == {<<0, 1>>, <<1, 2>>, <<0, 2>>}
MCSymmetry == Permutations(Jobs) \cup Permutations(Appts) \cup Permutations(Technicians)
              \cup Permutations(Requests)
=============================================================================
