----------------------------- MODULE MCDelivery ------------------------------
(* TLC instance of Delivery: one agent and one server, over the settings    *)
(* that tell the routes, the keys, the lists and the sources apart.         *)
EXTENDS Delivery, TLC

CONSTANTS p1, p2   \* two key pairs

\* The files and what is in them.
MCKeyFiles == [path \in {"public1", "public2", "private1", "private2", "letter"} |->
    CASE path = "public1"  -> "PUBLIC 1"
      [] path = "public2"  -> "PUBLIC 2"
      [] path = "private1" -> "PRIVATE 1"
      [] path = "private2" -> "PRIVATE 2"
      [] OTHER             -> "DEAR ALL"]
MCPublic == ("PUBLIC 1" :> p1) @@ ("PUBLIC 2" :> p2)
MCPrivate == ("PRIVATE 1" :> p1) @@ ("PRIVATE 2" :> p2)
MCSize == (p1 :> 5) @@ (p2 :> 4)
MCEscaped == "a b" :> "a%20b"

\* What an operator gives: one source each, then overlaid by another.
NoneOf(defaults) == [f \in DOMAIN defaults |-> Absent]
Given(defaults) ==
    [flags |-> NoneOf(defaults), conf |-> NoneOf(defaults), env |-> NoneOf(defaults),
     readable |-> TRUE]
Sources == {"flags", "conf", "env"}
With(gs, sources, f, values) ==
    {[g EXCEPT ![s][f] = v] : g \in gs, s \in sources, v \in values}
ByFlag(gs, f, values) == With(gs, {"flags"}, f, values)
By_(gs, s, f, v) == With(gs, {s}, f, {v})

Plainly == {Given(AgentDefaults)}
RPCPort == Addr("", 3200)
Bodies == ByFlag(Plainly, "type", {"JSON", "BatchJSON"})
WithSign(gs) == gs \cup ByFlag(gs, "key", {"S"})
MCAgentGiven ==
    WithSign(Bodies \cup ByFlag(Bodies, "crypto", {"public1"}) \cup By_(Plainly, "conf", "crypto", "public2")
             \cup ByFlag(Plainly, "type", {"URL"})
             \cup By_(ByFlag(Plainly, "type", {"GRPC"}), "flags", "addr", RPCPort))
    \cup By_(By_(Plainly, "flags", "crypto", "public1"), "env", "crypto", "public1")
    \cup ByFlag(Plainly, "crypto", {"letter", "private1", "missing"})
    \cup By_(By_(Plainly, "flags", "type", "URL"), "conf", "type", "XML")
    \cup By_(By_(Plainly, "flags", "type", "URL"), "env", "type", "GRPC")
    \cup By_(By_(Plainly, "flags", "key", "S"), "conf", "key", "T")
    \cup With(Plainly, Sources, "addr", {Addr("no such host", 8080)})
    \cup By_(Plainly, "conf", "type", "")
    \cup {[Given(AgentDefaults) EXCEPT !.readable = FALSE]}

Served == {Given(ServerDefaults)}
List == <<Entry("10.0.0.1", TRUE), Entry("125.3.21.1", TRUE)>>
Elsewhere == <<Entry("10.0.0.2", FALSE)>>
Subnets(gs) ==
    gs \cup ByFlag(gs, "subnet", {List, Elsewhere}) \cup By_(gs, "env", "subnet", List)
Opening(gs) == gs \cup ByFlag(gs, "crypto", {"private1"}) \cup By_(gs, "conf", "crypto", "private2")
MCServerGiven ==
    Subnets(Opening(WithSign(Served)))
    \cup By_(By_(Served, "flags", "key", "T"), "env", "key", "S")
    \cup By_(Served, "env", "crypto", "private1")
    \cup By_(Subnets(Served), "flags", "subnet", <<Entry("10.0.0.0/8", FALSE)>>)
    \cup By_(By_(Served, "flags", "dsn", "db"), "conf", "interval", 300)
    \cup By_(By_(Served, "flags", "dsn", "db"), "conf", "dsn", "")
    \cup By_(By_(Served, "env", "dsn", "db"), "flags", "file", "f")
    \cup By_(By_(Served, "conf", "file", "f"), "flags", "interval", -1)
    \cup ByFlag(Served, "rpc", {NoAddr, Addr("", 8080), Addr("no such host", 3200)})
    \cup By_(By_(Served, "flags", "addr", Addr("localhost", 8080)), "conf", "addr", Addr("", 9090))
    \cup With(Served, Sources, "addr", {Addr("", Absent)})

G1 == Unsigned("gauge", "g", 1)
Count(n) == Unsigned("counter", "PollCount", n)
MCScanned == <<G1, Count(1)>>

\* Others send paths that are right and wrong, bodies and calls.
Get_(ip, m) == [route |-> "url", ip |-> ip, ms |-> <<m>>]
Body(ms, pub, json) == [route |-> "json", ip |-> "10.0.0.1", ms |-> ms, pub |-> pub, json |-> json]
Call(m) == [route |-> "rpc", ip |-> "none", ms |-> <<m>>]
MCOthers ==
    {Get_("10.0.0.1", m) : m \in {Unsigned("gauge", "a b", 2), Unsigned("gauge", "g", NaN),
        Unsigned("counter", "c", NaN), Unsigned("gauge", "g", None), Unsigned("set", "g", 1),
        Unsigned("gauge", "update", 1), Unsigned("gauge", "", 1)}}
    \cup {Get_("10.0.0.2", Count(2))}
    \cup {Body(<<m>>, NoKey, TRUE) : m \in {Count(None), Signed("S", Count(2)),
            Unsigned("set", "", None), Unsigned("", "u", 1), Unsigned("gauge", "a b", 2)}}
    \cup {Body(Garbage, NoKey, TRUE), Body(<<G1>>, NoKey, FALSE), Body(<<Signed("S", Count(2))>>, p1, TRUE),
          Body(<<Signed("S", G1), Signed("T", G1)>>, NoKey, TRUE)}
    \cup {Call(Signed("S", Count(2))), Call(Unsigned("gauge", "", 1))}
=============================================================================
