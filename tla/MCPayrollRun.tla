---------------------------- MODULE MCPayrollRun ----------------------------
(* Instances of PayrollRun for TLC. *)
EXTENDS PayrollRun

(* A salary on the early pay day, and a bonus after the weekend that belongs to
   the review windows of both pay days. *)
Days == [t \in Tx |-> IF t \in Labor THEN 3 ELSE 7]
=============================================================================
