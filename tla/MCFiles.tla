------------------------------ MODULE MCFiles ------------------------------
(* Instances of Files.                                                     *)
EXTENDS Files, TLC

Symmetry == Permutations(Fibers)
=============================================================================
