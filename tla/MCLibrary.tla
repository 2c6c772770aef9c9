----------------------------- MODULE MCLibrary -----------------------------
(* Instances of Library for TLC. *)
EXTENDS Library, TLC

Symmetry == Permutations(Item) \cup Permutations(Student)
                \cup Permutations(Clerk) \cup Permutations(Editor)
=============================================================================
