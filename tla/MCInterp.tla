------------------------------ MODULE MCInterp ------------------------------
(* A program of three functions: one with a local, one with a parameter   *)
(* and another local, and one with two parameters, of which its closure    *)
(* captures the first.                                                     *)
EXTENDS Interp

MCFunctions == {"main", "show", "both"}
MCParams == [main |-> 0, show |-> 1, both |-> 2]
MCLocals == [main |-> 1, show |-> 2, both |-> 2]
MCClosure == [k \in {"K0", "K1"} |->
  IF k = "K0" THEN [func |-> "main", captures |-> <<>>]
  ELSE [func |-> "both", captures |-> <<"K0">>]]
=============================================================================
