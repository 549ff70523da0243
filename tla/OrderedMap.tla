----------------------------- MODULE OrderedMap -----------------------------
(***************************************************************************)
(* What Map<K, V> promises a program (src/sdk/std/core/map.thera): keyed   *)
(* access to entries kept in insertion order, an update leaving its key    *)
(* where it was.  There is no hash and no table here.                      *)
(***************************************************************************)
EXTENDS Integers, Sequences

CONSTANTS
  Keys,        \* the values a program uses as keys
  Vals,        \* and those it stores under them
  Same(_, _),  \* equality of keys, ==
  None,        \* Option.None
  Done         \* what insert and clear return

VARIABLES
  omap,  \* the entries, in insertion order
  ret    \* what the last operation returned

Init == omap = <<>> /\ ret = Done

Position(k) == {i \in DOMAIN omap : Same(omap[i].key, k)}
At(k) == CHOOSE i \in Position(k) : TRUE
Lookup(k) == IF Position(k) = {} THEN None ELSE omap[At(k)].val

Get(k) == ret' = Lookup(k) /\ UNCHANGED omap

Insert(k, v) ==
  /\ omap' = IF Position(k) = {} THEN Append(omap, [key |-> k, val |-> v])
             ELSE [i \in DOMAIN omap |-> IF i \in Position(k) THEN [omap[i] EXCEPT !.val = v]
                                         ELSE omap[i]]
  /\ ret' = Done

Remove(k) ==
  /\ ret' = Lookup(k)
  /\ omap' = IF Position(k) = {} THEN omap
             ELSE [i \in 1 .. (Len(omap) - 1) |-> IF i < At(k) THEN omap[i] ELSE omap[i + 1]]

Clear == omap' = <<>> /\ ret' = Done

Next == \/ \E k \in Keys : Get(k) \/ Remove(k) \/ \E v \in Vals : Insert(k, v)
        \/ Clear

Spec == Init /\ [][Next]_<<omap, ret>>
=============================================================================
