------------------------------ MODULE MCAgent -------------------------------
(* TLC instances of Agent: one runtime gauge, PollCount, workload gauges.  *)
EXTENDS Agent

CONSTANTS g1, g2, g3

Gauge(n) == [id |-> n, mtype |-> "gauge"]
MCRuntime == <<Gauge(g1), PollCount>>
MCWorkload == <<Gauge(g2)>>
MCNames == {g1, g2, g3, "PollCount"}
MCTags == (1..MaxScans) \X MCNames
=============================================================================
