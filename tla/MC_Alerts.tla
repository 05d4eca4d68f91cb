----------------------------- MODULE MC_Alerts -----------------------------
(* Alerts and the sessions that mail them. *)
EXTENDS Alerts, TLC

Symmetry == Permutations(AlertId) \cup Permutations(Worker)
=============================================================================
