---------------------------- MODULE MCFileServer ----------------------------
(* TLC instances of FileServer: one metric, or two, and short bodies.      *)
EXTENDS ServerAsService, TLC

CONSTANTS r1, r2, n1, n2

It(n, ty) == [id |-> n, mtype |-> ty, data |-> TRUE, sig |-> TRUE]
Forged(n, ty) == [It(n, ty) EXCEPT !.sig = FALSE]

MCTags == Requests \X (1..4)
OneCounter == { <<It(n1, "counter")>> }
TwoNames == { <<It(n1, "counter")>>, <<It(n2, "counter")>> }
\* Four items, of which the last is refused: with three, one request's append can undo
\* the growth of another's, which then finds its metric past the end.
Mixed == { <<It(n1, "counter")>>,
           <<It(n1, "counter"), It(n1, "counter")>>,
           <<It(n1, "gauge"), It(n1, "counter"), It(n1, "counter"), Forged(n1, "counter")>>,
           <<It(n1, "gauge"), It(n2, "counter")>>,
           <<Forged(n1, "counter")>>,
           << >> }
WithGauge == TwoNames \cup { <<It(n1, "gauge")>> }
\* r2's gauge is NaN.  It comes alone and where no key is configured: by URL or
\* gRPC, whose requests have one metric and no hash.
R2NaN == { <<r2, 1>> }
AnyRequest == Permutations(Requests)
=============================================================================
