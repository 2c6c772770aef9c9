--------------------------- MODULE MCCirculation ---------------------------
(* Instances of Circulation for TLC. *)
EXTENDS Circulation, TLC

Symmetry == Permutations(Item) \cup Permutations(Student) \cup Permutations(Clerk)
=============================================================================
