---------------------------- MODULE MCWeekSheet ----------------------------
(* Instances of WeekSheet for TLC. *)
EXTENDS WeekSheet, TLC

Symmetric == Permutations(Sync) \union Permutations(Client)
=============================================================================
