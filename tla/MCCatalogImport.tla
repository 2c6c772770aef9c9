-------------------------- MODULE MCCatalogImport --------------------------
(* Instances of CatalogImport for TLC. *)
EXTENDS CatalogImport, TLC

Symmetry == Permutations(Title) \cup Permutations(Tool) \cup Permutations(Ticket)
=============================================================================
