----------------------------- MODULE MCMapIndex -----------------------------
(* Instances of MapIndex for TLC: the values of the key objects.            *)
EXTENDS MapIndex

Num(k, n, neg) == [kind |-> k, num |-> n, neg |-> neg]
List(items) == [kind |-> "list", items |-> items]

\* A double's two zeros, a NaN, and two equal lists, into each of which the
\* program may write a NaN.
NaN == Num("nan", 1, FALSE)
FixedKeys == <<Num("double", 0, FALSE), Num("double", 0, TRUE), NaN,
               List(<<Num("int", 1, FALSE)>>), List(<<Num("int", 1, FALSE)>>)>>
FixedWrites == {List(<<NaN>>)}

\* Lists that the program may empty, or make equal to one another.
ListKeys == <<List(<<>>), List(<<Num("int", 1, FALSE)>>), List(<<Num("int", 2, FALSE)>>),
              List(<<Num("int", 1, FALSE), Num("int", 1, FALSE)>>)>>
ListWrites == {List(<<>>), List(<<Num("int", 1, FALSE)>>)}
=============================================================================
