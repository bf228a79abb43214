-------------------------- MODULE MCMetricsManager --------------------------
(* TLC instances of MetricsManager.                                        *)
EXTENDS MetricsManager, TLC

CONSTANTS r1, r2, n1

It(n, ty) == [id |-> n, mtype |-> ty, data |-> TRUE, sig |-> TRUE]
Forged(n, ty) == [It(n, ty) EXCEPT !.sig = FALSE]
Empty(n, ty) == [It(n, ty) EXCEPT !.data = FALSE]

\* Two items at most per request.
MCTags == Requests \X (1..2)
OneCounter == { <<It(n1, "counter")>> }
WithForged == { <<It(n1, "counter")>>, <<Forged(n1, "counter"), It(n1, "gauge")>>,
                <<It(n1, "counter"), Forged(n1, "gauge")>> }
WithUndecoded == { <<It(n1, "counter")>>, <<Forged(n1, "counter")>>, <<It(n1, "gauge")>>,
                   <<Empty(n1, "counter")>>, <<Empty(n1, "gauge"), It(n1, "counter")>>,
                   <<[It(n1, "counter") EXCEPT !.mtype = Nil]>> }

AnyRequest == Permutations(Requests)
=============================================================================
