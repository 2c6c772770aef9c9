---------------------------- MODULE MCBookCache ----------------------------
(* Instances of BookCache for TLC. *)
EXTENDS BookCache, TLC

\* One list page, over every book.
WholeCatalogue == {Item}

Symmetry == Permutations(Reader)
=============================================================================
