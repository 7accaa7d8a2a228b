-------------------------- MODULE MCProjectReview --------------------------
(* Instances of ProjectReview for TLC. *)
EXTENDS ProjectReview, TLC

Symmetric == Permutations(Portal) \union Permutations(Console)
             \union Permutations(Data)
=============================================================================
