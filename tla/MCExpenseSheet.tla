-------------------------- MODULE MCExpenseSheet --------------------------
(* Instances of ExpenseSheet for TLC: two lines of the same date and       *)
(* counterparty and one without a counterparty.                            *)
EXTENDS ExpenseSheet

Lines == {"a", "b", "c"}
Keys == [l \in Lines |-> IF l = "c" THEN "" ELSE "k"]
Uploads == {<<"c", "a">>, <<"b", "a", "a">>}
=============================================================================
