---------------------------- MODULE Subsequences ----------------------------
(***************************************************************************)
(* The order-preserving filters the runtime applies to its queues          *)
(* (`Vec::retain`, and "push the ones that are not there yet"), defined    *)
(* by position and without recursion.                                      *)
(***************************************************************************)
EXTENDS Integers, Sequences, FiniteSets, Functions

\* The place of position i among the positions K that are kept.
Rank(K, i) == Cardinality({j \in K : j =< i})

\* The subsequence of s at the positions K, in order.
Keep(s, K) ==
  [k \in 1 .. Cardinality(K) |-> s[CHOOSE i \in K : Rank(K, i) = k]]

\* `v.retain(|x| x != e)`.
Without(s, e) == Keep(s, {i \in DOMAIN s : s[i] # e})

\* The first occurrence in s of every element outside S.
FirstsOutside(s, S) ==
  Keep(s, {i \in DOMAIN s : s[i] \notin S /\ \A j \in 1 .. (i - 1) : s[j] # s[i]})
=============================================================================
