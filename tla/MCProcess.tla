----------------------------- MODULE MCProcess -----------------------------
(* Instances of Process.                                                   *)
EXTENDS Process, TLC

Symmetry == Permutations(Fibers)
=============================================================================
