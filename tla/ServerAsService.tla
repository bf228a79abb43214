--------------------------- MODULE ServerAsService ---------------------------
(* The server with its file as the service that MetricsService describes.   *)
EXTENDS FileServer, StoreAsMap

\* Without a key a metric is stored without its value too, if that is how it comes;
\* what the service promises is about metrics that have theirs.
ASSUME ServiceAssumption ==
    /\ Nil \notin Bodies
    /\ \A b \in Bodies : \A i \in 1..Len(b) :
            Verified(b[i]) /\ b[i].mtype \in Types => b[i].data

\* What the store shows of a name, and how many of its items a request has applied.
CounterOf(n) ==
    IF Stored(<<n, "counter">>) = Nil THEN Nil ELSE Stored(<<n, "counter">>).delta
GaugeOf(n) ==
    IF Stored(<<n, "gauge">>) = Nil THEN Nil ELSE Stored(<<n, "gauge">>).value
Applied(r) == IF In(r, "store") /\ At(r, "done") THEN st[r].i ELSE st[r].i - 1
Progress(r) ==
    [body |-> IF In(r, "new") THEN Nil ELSE st[r].body,
     applied |-> Applied(r),
     answer |-> IF st[r].pc \in Outcomes THEN st[r].pc ELSE Nil]

Promised == INSTANCE MetricsService WITH
    counters <- [n \in Names |-> CounterOf(n)],
    gauges <- [n \in Names |-> GaugeOf(n)],
    progress <- [r \in Requests |-> Progress(r)]

\* A batch that is refused after an item that passed.  The service would apply none
\* of it; the code has stored what came before (RejectedDiscarded shows it).
RefusedLate(b) ==
    /\ b # <<>> /\ Verified(b[1])
    /\ \E i \in 1..Len(b) : ~Verified(b[i])
NoneRefusedLate == \A r \in Requests : ~RefusedLate(st[r].body)

\* As long as requests do not overlap, and none is refused late, every step of a
\* process that is up, the restored one too, is a step of the service it promises or
\* none: each item is applied once and in order, or the whole request refused, and
\* then it is answered (manager.go:87-163).
ServedAsPromised ==
    /\ Promised!Init
    /\ [][Up /\ Up' /\ ~overlapped' /\ NoneRefusedLate'
            => [Promised!Next]_(Promised!vars)]_vars
=============================================================================
