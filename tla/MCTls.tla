------------------------------- MODULE MCTls -------------------------------
(* Instances of Tls, which includes Sockets.                               *)
EXTENDS Tls

Writes(c, s) == [side \in {"client", "server"} |-> IF side = "client" THEN c ELSE s]

\* Two connections and their listener; one connection from its connect to its
\* use; one that is used plain and with a session over it, one way by three fibers
\* and both ways by two.
Accept == [does |-> "accept", trusts |-> {TRUE}, writes |-> Writes(0, 0),
           conns |-> {1, 2}, handles |-> 4, fibers |-> 3]
UsePlain == [does |-> "plain", trusts |-> {TRUE}, writes |-> Writes(4, 0),
             conns |-> {1}, handles |-> 3, fibers |-> 2]
UseTls == [UsePlain EXCEPT !.does = "tls", !.fibers = 3]
UseTlsBothWays == [UseTls EXCEPT !.trusts = BOOLEAN, !.writes = Writes(4, 2), !.fibers = 2]
AllPrograms == {Accept, UsePlain, UseTls, UseTlsBothWays}

\* Both sides write more than a buffer and a queue hold.
WriteMuch == {[UseTlsBothWays EXCEPT !.writes = Writes(4, 4)]}

Symmetry == Permutations(Fibers)
=============================================================================
