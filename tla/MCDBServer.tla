----------------------------- MODULE MCDBServer -----------------------------
(* TLC instance of DBServer: a short name, of one or both types, a long one *)
(* and the empty one.                                                       *)
EXTENDS DBServer, TLC

CONSTANTS r1, r2, n1, long, empty

It(n, ty) == [id |-> n, mtype |-> ty, data |-> TRUE, sig |-> TRUE]
Empty(n, ty) == [It(n, ty) EXCEPT !.data = FALSE]

MCTags == Requests \X (1..2)
MCBodies == { <<It(n1, "counter")>>, <<It(long, "counter")>>, <<It(empty, "counter")>>,
              <<It(n1, "counter"), It(n1, "gauge")>>,
              <<Empty(n1, "gauge")>>, <<Empty(n1, "counter")>> }
AnyRequest == Permutations(Requests)
=============================================================================
