----------------------------- MODULE MCAuditChain -----------------------------
(* Instances of AuditChain for TLC: writers are alike, and so are the values
   that an entry may tell. *)
EXTENDS AuditChain, TLC

Symmetry == Permutations(Writer) \union Permutations(Data)
=============================================================================
