------------------------------ MODULE Delivery -------------------------------
(***************************************************************************)
(* A report on its whole way: an agent and a server, each with the         *)
(* settings its operator gave it, the four ways to report                  *)
(* (agent/services/reporter/reporter.go), the body through Encrypt and     *)
(* Decrypt, the middlewares and the routes, the metrics that are then      *)
(* stored and shown.  Other clients send requests of their own meanwhile.  *)
(*                                                                         *)
(* The network is reliable here (Agent has one that is not) and a request  *)
(* takes effect in one step (MetricsManager has its steps).  Host names    *)
(* resolve to nothing; all else is on one machine.                         *)
(***************************************************************************)
EXTENDS Settings, Routes, Cipher

CONSTANTS
    AgentGiven, ServerGiven,   \* what the operators may give the two processes
    Public, Private,           \* [PEM texts -> the pair whose half they are]
    Scanned,                   \* the metrics the agent holds, in order
    Others,                    \* the requests other clients may send
    Lengths,                   \* how long the text of a body may be
    MaxReports, MaxOthers      \* bounds on the reports and on the other requests

Lists == Seq([ip : STRING \ {"none"}, spaced : BOOLEAN])
Sendable == {m \in Message : /\ m.mtype \in Types /\ m.val \in Int
                             /\ m.id \notin {"", "update"} \cup DOMAIN Escaped}

ASSUME DeliveryAssumption ==
    /\ Lengths \subseteq Nat \ {0} /\ MaxReports \in Nat
    /\ Scanned \in Seq(Sendable) \ {<<>>}
    /\ \A text \in DOMAIN Public : Public[text] \in Pairs
    /\ \A text \in DOMAIN Private : Private[text] \in Pairs
    /\ \A g \in AgentGiven : {g.flags.key, g.conf.key, g.env.key} \subseteq {Absent} \cup STRING
    /\ \A g \in ServerGiven : /\ g.env.dsn # "" /\ g.env.interval = Absent
                              /\ g.flags.subnet \in {Absent} \cup (Lists \ {<<>>})
                              /\ {g.conf.subnet, g.env.subnet} \subseteq {Absent} \cup Lists
    /\ \A rq \in Others :
        /\ rq.route = "url" => rq.ms = <<rq.ms[1]>> /\ rq.ms[1] \in Path
        /\ rq.route = "json" => rq.ms \in {Garbage} \cup Seq(Message)
        /\ rq.route = "rpc" => rq.ms = <<rq.ms[1]>> /\ rq.ms[1] \in Message

VARIABLES
    given,    \* what the operators gave
    agent,    \* the agent: its phase, its settings
    server,   \* the server: its phase, its settings, whether its HTTP port is open
    store,    \* the metrics the server holds
    rep,      \* the report under way: its step, its metric, how the last one ended
    taken,    \* the metrics of the requests answered 200, in order
    seen,     \* the last request the server answered
    partly,   \* a batch has been stored in part
    others    \* how many requests others have sent

vars == <<given, agent, server, store, job, rep, taken, seen, partly, others>>

Process(cfg) == [pc |-> "down", cfg |-> cfg]
NoMetrics == [k \in {} |-> None]
NotSeen == [route |-> "none", ip |-> "none", status |-> "none"]

Init ==
    /\ given \in [agent : AgentGiven, server : ServerGiven]
    /\ agent = Process(AgentDefaults)
    /\ server = [pc |-> "down", cfg |-> ServerDefaults, http |-> FALSE]
    /\ store = NoMetrics
    /\ CipherInit
    /\ rep = [pc |-> "idle", i |-> 1, n |-> 0, last |-> "none"]
    /\ taken = <<>> /\ seen = NotSeen /\ partly = FALSE /\ others = 0

-----------------------------------------------------------------------------
(* Start *)

Resolves(host) == host \in {"", "localhost"} \cup IPs
CanListen(a) == Resolves(a.host) /\ a.port # Absent
OnePort(cfg) == cfg.rpc # NoAddr /\ cfg.rpc.port = cfg.addr.port

Dead == [server EXCEPT !.pc = "dead"]
Serving(http) == [pc |-> "up", cfg |-> ServerSettings(given.server), http |-> http]

\* A server that cannot open its HTTP port goes on without; without the gRPC port it
\* does not.  The HTTP port is opened by a goroutine: if the two are one, either may
\* come first.
ServerStart ==
    /\ server.pc = "down"
    /\ IF ServerParses(given.server)
       THEN LET cfg == ServerSettings(given.server)
            IN  \/ /\ cfg.rpc = NoAddr \/ CanListen(cfg.rpc)
                   /\ server' = Serving(CanListen(cfg.addr) /\ ~OnePort(cfg))
                \/ /\ cfg.rpc # NoAddr
                   /\ ~CanListen(cfg.rpc) \/ (OnePort(cfg) /\ CanListen(cfg.addr))
                   /\ server' = Dead
       ELSE server' = Dead
    /\ UNCHANGED <<given, agent, store, job, rep, taken, seen, partly, others>>

AgentStart ==
    /\ agent.pc = "down"
    /\ agent' = IF AgentParses(given.agent) /\ AgentSettings(given.agent).type # ""
                THEN [pc |-> "up", cfg |-> AgentSettings(given.agent)]
                ELSE [agent EXCEPT !.pc = "dead"]
    /\ UNCHANGED <<given, server, store, job, rep, taken, seen, partly, others>>

\* A text that is not PEM, or not of the kind it should be, is no key, and no error.
PublicKey == IF agent.cfg.crypto \in DOMAIN Public THEN Public[agent.cfg.crypto] ELSE NoKey
PrivateKey == IF server.cfg.crypto \in DOMAIN Private THEN Private[server.cfg.crypto] ELSE NoKey
Key == server.cfg.key

\* Ports the agent finds something behind: the one of its address, for gRPC too.
Reaches(from, to) ==
    /\ from.port = to.port
    /\ Resolves(from.host)
    /\ to.host \in {"", IF from.host = "" THEN "localhost" ELSE from.host}
HTTPOpen == server.pc = "up" /\ server.http
RPCOpen == server.pc = "up" /\ server.cfg.rpc # NoAddr
ReachesHTTP == HTTPOpen /\ Reaches(agent.cfg.addr, server.cfg.addr)
ReachesRPC == RPCOpen /\ Reaches(Addr("", agent.cfg.addr.port), server.cfg.rpc)

-----------------------------------------------------------------------------
(* An answer, and what it leaves behind *)

\* The server answers a, to a request with metrics ms (Garbage: none that decode).
\* A panic cuts an HTTP request off, and ends the process in a gRPC one.
Answered(route, ip, a, ms) ==
    LET dies == a.status = "panic" /\ route = "rpc"
    IN  /\ store' = IF dies THEN NoMetrics ELSE a.store
        /\ server' = IF dies THEN Dead ELSE server
        /\ taken' = IF a.status = "200" THEN taken \o ms ELSE taken
        /\ partly' = (partly \/ (/\ ms # Garbage /\ Len(ms) > 1
                                 /\ a.status # "200" /\ a.store # store))
        /\ seen' = [route |-> route, ip |-> ip, status |-> a.status]

Ended(how) == [rep EXCEPT !.pc = "idle", !.last = how]
EndOf(a) == Ended(IF a.status = "panic" THEN "lost" ELSE "refused")
Then(a, next) == rep' = IF a.status = "200" THEN next ELSE EndOf(a)

\* Mutant: a report stops, and with it the loop.
StuckReport == rep' = [rep EXCEPT !.pc = "stuck"]
LostReport == rep' = Ended("lost")

Nothing == UNCHANGED <<store, server, taken, partly, seen>>

-----------------------------------------------------------------------------
(* The agent's report *)

By(type) == agent.pc = "up" /\ agent.cfg.type = type
Current == Unsigned(Scanned[rep.i].mtype, Scanned[rep.i].id, Scanned[rep.i].val)
More == rep.i <= Len(Scanned)
Following == [rep EXCEPT !.i = @ + 1, !.pc = "next"]

ReportTick ==
    /\ agent.pc = "up" /\ rep.pc = "idle" /\ rep.n < MaxReports
    /\ rep' = [rep EXCEPT !.pc = "next", !.i = 1, !.n = @ + 1]
    /\ Nothing /\ UNCHANGED <<given, agent, job, others>>

UnknownType ==
    /\ rep.pc = "next"
    /\ \A type \in {"URL", "JSON", "BatchJSON", "GRPC"} : ~By(type)
    /\ rep' = Ended("lost")
    /\ Nothing /\ UNCHANGED <<given, agent, job, others>>

\* The middleware, then the route; the agent sends no X-Real-IP with a path.
URLAnswer(ip, rq) ==
    IF Admits(Trusted(server.cfg), ip) THEN UpdateURL(store, Key, rq) ELSE Answer("403", store)

SendURL ==
    /\ rep.pc = "next" /\ By("URL") /\ More
    /\ \/ /\ ReachesHTTP
          /\ LET a == URLAnswer("none", Current)
             IN  Answered("url", "none", a, <<Current>>) /\ Then(a, Following)
       \/ ~ReachesHTTP /\ LostReport /\ Nothing
    /\ UNCHANGED <<given, agent, job, others>>

SendRPC ==
    /\ rep.pc = "next" /\ By("GRPC") /\ More
    /\ LET m == Signed(agent.cfg.key, Current)
           a == UpsertRPC(store, Key, m)
       IN  \/ ReachesRPC /\ Answered("rpc", "none", a, <<m>>) /\ Then(a, Following)
           \/ ~ReachesRPC /\ LostReport /\ Nothing
    /\ UNCHANGED <<given, agent, job, others>>

\* A batch has all there is; it alone names an address, always the same one.
InBody ==
    LET ms == IF By("BatchJSON") THEN [i \in DOMAIN Scanned |->
                    Unsigned(Scanned[i].mtype, Scanned[i].id, Scanned[i].val)]
              ELSE <<Current>>
    IN  [i \in DOMAIN ms |-> Signed(agent.cfg.key, ms[i])]
RealIP == IF By("BatchJSON") THEN "125.3.21.1" ELSE "none"

SealBody ==
    /\ rep.pc = "next" /\ (By("BatchJSON") \/ (By("JSON") /\ More))
    /\ \E n \in Lengths : Seal(n, PublicKey)
    /\ rep' = [rep EXCEPT !.pc = "body"]
    /\ Nothing /\ UNCHANGED <<given, agent, others>>

\* A handler opens the body of a client it admits.
Post ==
    /\ rep.pc = "body" /\ Doing("sent")
    /\ \/ /\ ReachesHTTP /\ Admits(Trusted(server.cfg), RealIP)
          /\ Arrive(PrivateKey)
          /\ Nothing /\ UNCHANGED rep
       \/ /\ ReachesHTTP /\ ~Admits(Trusted(server.cfg), RealIP)
          /\ Answered("json", RealIP, Answer("403", store), InBody)
          /\ rep' = Ended("refused")
          /\ Drop
       \/ ~ReachesHTTP /\ LostReport /\ Nothing /\ Drop
    /\ UNCHANGED <<given, agent, others>>

CipherWork ==
    /\ CipherStep
    /\ Nothing /\ UNCHANGED <<given, agent, rep, others>>

Decoded == IF Doing("read") /\ job.got = job.text THEN InBody ELSE Garbage

\* The whole batch, or the next metric.
Handle ==
    /\ rep.pc = "body" /\ Over
    /\ \/ /\ HTTPOpen
          /\ LET a == UpdateJSON(store, Key, TRUE, Decoded)
             IN  /\ Answered("json", RealIP, a, Decoded)
                 /\ Then(a, IF By("BatchJSON") THEN Ended("delivered") ELSE Following)
       \/ ~HTTPOpen /\ LostReport /\ Nothing
    /\ CipherDone
    /\ UNCHANGED <<given, agent, others>>

AllSent ==
    /\ rep.pc = "next" /\ ~More /\ (By("URL") \/ By("JSON") \/ By("GRPC"))
    /\ rep' = Ended("delivered")
    /\ Nothing /\ UNCHANGED <<given, agent, job, others>>

-----------------------------------------------------------------------------
(* Other clients: a path, a JSON body (sealed or not), or a gRPC call. *)

Readable(rq) == IF rq.pub = PrivateKey THEN rq.ms ELSE Garbage
OtherAnswer(rq) ==
    CASE rq.route = "rpc" -> UpsertRPC(store, Key, rq.ms[1])
      [] rq.route = "url" -> URLAnswer(rq.ip, rq.ms[1])
      [] rq.route = "json" /\ Admits(Trusted(server.cfg), rq.ip) ->
            UpdateJSON(store, Key, rq.json, Readable(rq))
      [] OTHER -> Answer("403", store)

\* The metrics it carries: by path, named as the path was.
Carried(rq) ==
    CASE rq.route = "url" -> <<[rq.ms[1] EXCEPT !.id = PathName(@)]>>
      [] rq.route = "json" -> Readable(rq)
      [] OTHER -> rq.ms

OtherRequest ==
    /\ others < MaxOthers
    /\ others' = others + 1
    /\ \E rq \in Others :
        /\ IF rq.route = "rpc" THEN RPCOpen ELSE HTTPOpen
        /\ Answered(rq.route, rq.ip, OtherAnswer(rq), Carried(rq))
    /\ UNCHANGED <<given, agent, job, rep>>

ReporterStep ==
    \/ UnknownType \/ SendURL \/ SendRPC \/ SealBody \/ Post \/ CipherWork \/ Handle \/ AllSent

Next == ServerStart \/ AgentStart \/ ReportTick \/ ReporterStep \/ OtherRequest

Spec == Init /\ [][Next]_vars

\* A reporter, and the server that serves it, are scheduled while they can run.
FairSpec == Spec /\ WF_vars(ReporterStep)

-----------------------------------------------------------------------------
\* The processes, the report and the body are in states their types allow.
DeliveryTypeOK ==
    /\ agent.pc \in {"down", "up", "dead"} /\ server.pc \in {"down", "up", "dead"}
    /\ server.http \in BOOLEAN
    /\ rep.pc \in {"idle", "next", "body"} /\ rep.i \in 1..(Len(Scanned) + 1)
    /\ rep.n \in 0..MaxReports /\ rep.last \in {"none", "delivered", "refused", "lost"}
    /\ \A k \in DOMAIN store : store[k] \in Int \/ store[k] \in {None, NaN}
    /\ CipherTypeOK /\ (rep.pc = "body" <=> ~Doing("idle"))

\* What the metrics ms come to: the last of a gauge, the sum of a counter.
Of(ms, k) == {i \in DOMAIN ms : KeyOf(ms[i]) = k}
LastOf(ms, k) == ms[CHOOSE i \in Of(ms, k) : \A j \in Of(ms, k) : j <= i].val
SumOf(ms, k) ==
    LET Up[i \in 0..Len(ms)] ==
            IF i = 0 THEN 0 ELSE Up[i - 1] + (IF i \in Of(ms, k) THEN ms[i].val ELSE 0)
    IN  Up[Len(ms)]
Valueless(ms, k) == \E i \in Of(ms, k) : ms[i].val = None
Total(ms, k) ==
    IF k[1] = "counter" /\ ~Valueless(ms, k) THEN SumOf(ms, k) ELSE LastOf(ms, k)

\* Whatever routes metrics came in by, and whatever was refused in between, a reader
\* finds what was answered 200, all of it and nothing else, the same as text and as
\* JSON, with the hash that the server's key makes of it (metrics_write.go,
\* metrics_read.go).  As a text it is not found if a path escapes its name, or if its
\* type, or name, is "", which a body may have and GetAsText refuses.
ReadersSeeTaken ==
    server.pc = "up" /\ ~partly =>
        /\ DOMAIN store = {KeyOf(taken[i]) : i \in DOMAIN taken}
        /\ \A k \in DOMAIN store :
            LET total == Total(taken, k)
                text == GetAsText(store, k[1], k[2])
                json == GetAsJSON(store, Key, TRUE, k[1], k[2])
            IN  /\ <<k[1], k[2], total>> \in GetMetrics(store)
                /\ "" \notin {k[1], k[2]} /\ k[2] \notin DOMAIN Escaped =>
                        text = [status |-> "200", val |-> total]
                /\ total # NaN => json.m = Signed(Key, Unsigned(k[1], k[2], total))

\* The operators agree: a report that is signed is signed with the server's key, if it
\* has one (the hash is a field of a body and of a gRPC call, a path has none); a body
\* is sealed for the server's key; an HTTP client's address is on the list, if there is
\* one, and only a batch names an address (devopstest.yml:287-289, handler.go:107-108).
Bodily == agent.cfg.type \in {"JSON", "BatchJSON"}
Signs == Bodily \/ agent.cfg.type = "GRPC"
Listed == {i \in DOMAIN server.cfg.subnet : server.cfg.subnet[i].ip = "125.3.21.1"}
Agree ==
    /\ Key \in {"", IF Signs THEN agent.cfg.key ELSE ""}
    /\ Bodily => PublicKey = PrivateKey
    /\ \/ agent.cfg.type = "GRPC" \/ server.cfg.subnet = <<>>
       \/ agent.cfg.type = "BatchJSON" /\ Listed # {}

\* Where the code does not let in a report of those who agree: a gRPC call's hash is
\* dropped before it is verified (grpc_server.go:52-84), and of a list from the file or
\* the environment an entry after a space matches no address (handler.go:99, 118-119).
DropsHash == agent.cfg.type = "GRPC" /\ Key # ""
MissesEntry ==
    /\ agent.cfg.type = "BatchJSON" /\ server.cfg.subnet # <<>>
    /\ \A i \in Listed : i # 1 /\ server.cfg.subnet[i].spaced
GoesThrough == Agree /\ ~DropsHash /\ ~MissesEntry

\* A report that gets answers goes through if the operators agree, but for those two
\* cases, and in no others: no combination of keys, lists and types lets one half-way
\* in, or shuts another out, whatever others have sent before it.
OutcomeTellsAgreement ==
    server.pc = "up" => /\ rep.last = "delivered" => GoesThrough
                        /\ rep.last = "refused" => ~GoesThrough

\* A report of an agent whose operator agrees with the server's is not refused: the
\* hash of the request is compared with the computed one, and an address that is on
\* the list is let in (devopstest.yml:288, handler.go:107-108).  The code breaks it in
\* both cases above.
AgreedIsTaken == server.pc = "up" /\ Agree => rep.last # "refused"

\* An agent that was given a public key's file, by -crypto-key or in its file, and no
\* CRYPTO_KEY, sends no byte of a JSON report in clear (config.go:85-97,
\* reporter.go:64-130).
KeyFileGiven(g) ==
    /\ g.env.crypto = Absent
    /\ \E path \in DOMAIN KeyFiles :
        /\ KeyFiles[path] \in DOMAIN Public
        /\ g.flags.crypto = path \/ (g.flags.crypto = Absent /\ g.conf.crypto = path)
SealedOnWire ==
    KeyFileGiven(given.agent) => \A i \in DOMAIN job.wire : job.wire[i].pair # NoKey

\* A list given by -t, and no TRUSTED_SUBNET, holds however it is spaced: of the HTTP
\* clients those on it are let in, and no others (config.go:141-151, handler.go:88-124).
ListHolds ==
    LET list == given.server.flags.subnet
    IN  /\ list # Absent /\ given.server.env.subnet = Absent
        /\ seen.route \in {"url", "json"}
        => (seen.status = "403" <=> \A i \in DOMAIN list : list[i].ip # seen.ip)

\* A DSN from the environment, or from -d if the file has none, puts the database in
\* force over every other storage, and each update is then saved before its answer
\* (main.go:51-80), whatever interval and file were given.
DSNGiven(g) ==
    \/ g.env.dsn # Absent
    \/ g.flags.dsn \notin {Absent, ""} /\ g.conf.dsn = Absent
DatabaseFirst ==
    server.pc = "up" /\ DSNGiven(given.server) =>
        Backend(server.cfg) = "database" /\ Flushes(server.cfg) = "each update"

\* Of one setting given several times, the environment's value is in force, then, for
\* a flag that is bound to it, the file's, else the flag's (config.go:84-186).
Ranked(g, f, bound) ==
    LET ranks == <<g.env[f],
                   IF f \in bound THEN g.conf[f] ELSE g.flags[f],
                   IF f \in bound THEN g.flags[f] ELSE g.conf[f]>>
        given_ == {i \in DOMAIN ranks : ranks[i] # Absent}
    IN  IF given_ = {} THEN Absent ELSE ranks[CHOOSE i \in given_ : \A j \in given_ : i <= j]
InForce ==
    /\ server.pc = "up" => \A f \in {"key", "dsn", "file", "rpc", "addr", "interval"} :
        LET v == Ranked(given.server, f, ServerBound) IN v # Absent => server.cfg[f] = v
    /\ agent.pc = "up" => \A f \in {"key", "type"} :
        LET v == Ranked(given.agent, f, AgentBound) IN v # Absent => agent.cfg[f] = v

\* A report that begins ends, and the next can begin: Encrypt and Decrypt come to the
\* end of every body, and every failure is returned (reporter.go:100-130, 202-329).
EveryReportEnds == rep.pc # "idle" ~> rep.pc = "idle"
=============================================================================
