----------------------------- MODULE MCDataFile -----------------------------
(* An instance of DataFile for TLC: two file names, which are alike.       *)
EXTENDS DataFile

Symmetry == Permutations(Bases)
=============================================================================
