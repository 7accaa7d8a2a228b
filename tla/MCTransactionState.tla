------------------------- MODULE MCTransactionState -------------------------
(* Instances of TransactionState for TLC. *)
EXTENDS TransactionState
=============================================================================
