----------------------------- MODULE MCCatalogue ----------------------------
(* A small instance of Catalogue for TLC.                                   *)
EXTENDS Catalogue, TLC

Symmetry == Permutations(Readers) \cup Permutations(Editors)
=============================================================================
