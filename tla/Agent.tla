------------------------------- MODULE Agent --------------------------------
(***************************************************************************)
(* The agent (internal/agent): one goroutine scans the machine into an     *)
(* in-memory store on every poll tick, another sends what the store holds  *)
(* to the server on every report tick and then deletes PollCount.  They    *)
(* share the store with nothing to order their steps.                      *)
(*                                                                         *)
(* A contribution <<k, n>> is what scan k measured for metric n.  The      *)
(* server is reduced to what it received: it adds counters and replaces    *)
(* gauges.  The network may refuse a report, or lose the answer to one the *)
(* server has applied.                                                     *)
(***************************************************************************)
EXTENDS StoreAsMap

CONSTANTS
    Scanner, Reporter,   \* the two goroutines
    Runtime, Workload,   \* the metrics of updateRuntime and of updateWorkload, in order
    ReportTypes,         \* the report types to choose from: "URL", "JSON", "BatchJSON", "GRPC"
    SignKey,             \* TRUE iff reports are signed
    MaxScans, MaxFailures   \* bounds on the scans and on the network failures

All == Runtime \o Workload
PollCount == [id |-> "PollCount", mtype |-> "counter"]

ASSUME AgentAssumption ==
    /\ Scanner \in Callers /\ Reporter \in Callers /\ Scanner # Reporter
    /\ MaxScans \in Nat /\ MaxFailures \in Nat
    /\ Runtime \in Seq([id : Names, mtype : Types]) /\ Workload \in Seq([id : Names, mtype : Types])
    /\ \A i \in 1..Len(All) : /\ \A k \in 1..MaxScans : <<k, All[i].id>> \in Tags
                              /\ All[i].mtype = "counter" => All[i] = PollCount
    /\ \E i \in 1..Len(Runtime) : Runtime[i] = PollCount

VARIABLES
    scan,      \* the scan under way: its number, the metric it is at
    rep,       \* the type of reports, and the report under way: the slice it walks,
               \* where it is, what it has collected
    server,    \* what the server has: the sum of the PollCounts, the gauges
    failures,  \* network failures so far
    dead,      \* a goroutine panicked, and with it the process
    overlapped \* whether a task has ever begun before the other's ended

vars == <<heap, hdr, call, scan, rep, server, failures, dead, overlapped>>

Init ==
    /\ StoreInit
    /\ scan = [pc |-> "idle", k |-> 0, n |-> 1]
    /\ rep \in [pc : {"idle"}, at : {hdr}, i : {1}, batch : {<<>>}, by : ReportTypes]
    /\ server = [count |-> [t \in Tags |-> 0], gauge |-> [n \in Names |-> Nil]]
    /\ failures = 0
    /\ dead = FALSE
    /\ overlapped = FALSE

Free(p) == At(p, "idle") \/ At(p, "done")

-----------------------------------------------------------------------------
(* Scan *)

Measured(n) ==
    LET t == <<scan.k, All[n].id>>
    IN  [id |-> All[n].id, mtype |-> All[n].mtype,
         delta |-> IF All[n].mtype = "counter" THEN Counted(t) ELSE Nil,
         value |-> IF All[n].mtype = "gauge" THEN t ELSE Nil]

ScanTick ==
    /\ ~dead
    /\ scan.pc = "idle" /\ scan.k < MaxScans
    /\ scan' = [pc |-> "scan", k |-> scan.k + 1, n |-> 1]
    /\ overlapped' = (overlapped \/ rep.pc # "idle")
    /\ UNCHANGED <<heap, hdr, call, rep, server, failures, dead>>

\* memory.UpsertBatch over the runtime metrics, then over the workload ones.
ScanNext ==
    /\ ~dead
    /\ scan.pc = "scan" /\ Free(Scanner) /\ scan.n <= Len(All)
    /\ call' = [call EXCEPT ![Scanner] = NewCall("upsert", Measured(scan.n))]
    /\ scan' = [scan EXCEPT !.n = @ + 1]
    /\ UNCHANGED <<heap, hdr, rep, server, failures, dead, overlapped>>

\* The scan ends after its last metric, or after the runtime metrics if the
\* workload cannot be read.
ScanEnd ==
    /\ ~dead
    /\ scan.pc = "scan" /\ Free(Scanner)
    /\ scan.n > Len(All) \/ scan.n = Len(Runtime) + 1
    /\ scan' = [scan EXCEPT !.pc = "idle"]
    /\ call' = [call EXCEPT ![Scanner] = NoCall]
    /\ UNCHANGED <<heap, hdr, rep, server, failures, dead, overlapped>>

-----------------------------------------------------------------------------
(* Report *)

Batched == rep.by = "BatchJSON"
Typed(m) == m.mtype \in Types

\* What the server makes of one metric.
Received(srv, m) ==
    CASE m.mtype = "counter" -> [srv EXCEPT !.count = [t \in Tags |-> @[t] + m.delta[t]]]
      [] m.mtype = "gauge"   -> [srv EXCEPT !.gauge[m.id] = m.value]
      [] OTHER               -> srv

\* A metric with no type (an element not yet written) cannot be signed, and has
\* no URL the server knows; a gRPC report skips it, an unsigned JSON one sends it.
Sendable(m) == Typed(m) \/ (~SignKey /\ rep.by # "URL")

ReportTick ==
    /\ ~dead
    /\ rep.pc = "idle"
    /\ rep' = [rep EXCEPT !.pc = "send", !.at = hdr, !.i = 1, !.batch = <<>>]
    /\ overlapped' = (overlapped \/ scan.pc # "idle")
    /\ UNCHANGED <<heap, hdr, call, scan, server, failures, dead>>

Element == CellAt(rep.at.ptr, rep.i)
\* Mutant: the last element is forgotten.
MoreButLast == rep.i < rep.at.len
MoreElements == rep.i <= rep.at.len

\* A request fails before or after the server applied it.
FailsTo(applied, step) ==
    /\ failures < MaxFailures
    /\ failures' = failures + 1
    /\ rep' = [rep EXCEPT !.pc = step]
    /\ server' \in {server, applied}

\* Mutants of Fails: the loop skips the delete, or ends.
FailsKeeping(applied) == FailsTo(applied, "idle")
FailsForGood(applied) == FailsTo(applied, "ended")

\* Either way the report is given up.
Fails(applied) == FailsTo(applied, "reset")

Unsendable ==
    /\ ~dead
    /\ rep.pc = "send" /\ MoreElements /\ ~Sendable(Element)
    /\ rep' = [rep EXCEPT !.pc = "reset"]
    /\ UNCHANGED <<heap, hdr, call, scan, server, failures, dead, overlapped>>

Collect ==
    /\ ~dead
    /\ rep.pc = "send" /\ MoreElements /\ Sendable(Element)
    /\ Batched
    /\ rep' = [rep EXCEPT !.i = @ + 1, !.batch = Append(@, Element)]
    /\ UNCHANGED <<heap, hdr, call, scan, server, failures, dead, overlapped>>

SendOne ==
    /\ ~dead
    /\ rep.pc = "send" /\ MoreElements /\ Sendable(Element)
    /\ ~Batched
    /\ \/ /\ server' = Received(server, Element)
          /\ rep' = [rep EXCEPT !.i = @ + 1]
          /\ UNCHANGED failures
       \/ Fails(Received(server, Element))
    /\ UNCHANGED <<heap, hdr, call, scan, dead, overlapped>>

\* What the server makes of a batch.
AllReceived(batch) ==
    LET First[n \in 0..Len(batch)] ==
            IF n = 0 THEN server ELSE Received(First[n - 1], batch[n])
    IN  First[Len(batch)]

SendBatch ==
    /\ ~dead
    /\ rep.pc = "send" /\ ~MoreElements
    /\ Batched
    /\ \/ /\ server' = AllReceived(rep.batch)
          /\ rep' = [rep EXCEPT !.pc = "reset"]
          /\ UNCHANGED failures
       \/ Fails(AllReceived(rep.batch))
    /\ UNCHANGED <<heap, hdr, call, scan, dead, overlapped>>

AllSent ==
    /\ ~dead
    /\ rep.pc = "send" /\ ~MoreElements /\ ~Batched
    /\ rep' = [rep EXCEPT !.pc = "reset"]
    /\ UNCHANGED <<heap, hdr, call, scan, server, failures, dead, overlapped>>

\* Whether or not the report succeeded, PollCount is deleted.
Reset ==
    /\ ~dead
    /\ rep.pc = "reset"
    /\ rep' = [rep EXCEPT !.pc = "delete"]
    /\ call' = [call EXCEPT ![Reporter] =
                    NewCall("delete", [Zero EXCEPT !.id = PollCount.id, !.mtype = PollCount.mtype])]
    /\ UNCHANGED <<heap, hdr, scan, server, failures, dead, overlapped>>

ReportEnd ==
    /\ ~dead
    /\ rep.pc = "delete" /\ At(Reporter, "done")
    /\ rep' = [rep EXCEPT !.pc = "idle"]
    /\ call' = [call EXCEPT ![Reporter] = NoCall]
    /\ UNCHANGED <<heap, hdr, scan, server, failures, dead, overlapped>>

\* A panic in either goroutine ends the process.
Panic ==
    /\ ~dead
    /\ At(Scanner, "panic") \/ At(Reporter, "panic")
    /\ dead' = TRUE
    /\ UNCHANGED <<heap, hdr, call, scan, rep, server, failures, overlapped>>

StoreCall(p) ==
    /\ ~dead
    /\ StoreStep(p)
    /\ UNCHANGED <<scan, rep, server, failures, dead, overlapped>>

ScannerStep == ScanNext \/ ScanEnd \/ StoreCall(Scanner)
ReporterStep ==
    \/ Unsendable \/ Collect \/ SendOne \/ SendBatch \/ AllSent \/ Reset \/ ReportEnd
    \/ StoreCall(Reporter)

Next == ScanTick \/ ReportTick \/ ScannerStep \/ ReporterStep \/ Panic

Spec == Init /\ [][Next]_vars

\* The tickers tick, and a goroutine that can run is scheduled.
FairSpec ==
    /\ Spec
    /\ WF_vars(ScannerStep) /\ WF_vars(ReporterStep) /\ WF_vars(ReportTick)

-----------------------------------------------------------------------------
\* Types of the agent's own state.
AgentTypeOK ==
    /\ StoreTypeOK
    /\ scan \in [pc : {"idle", "scan"}, k : 0..MaxScans, n : 1..(Len(All) + 1)]
    /\ rep \in [pc : {"idle", "send", "reset", "delete"}, at : Header, i : Nat,
                batch : Seq(Metric), by : ReportTypes]
    /\ server.count \in Delta /\ server.gauge \in [Names -> Tags \cup {Nil}]
    /\ failures \in 0..MaxFailures /\ dead \in BOOLEAN
    /\ overlapped \in BOOLEAN

Alone == ~overlapped

\* Between tasks every metric the agent holds carries a value measured for it,
\* and no two hold the same key: a Delete that moves the elements does not
\* redirect an Upsert that has already found its place.
OwnValues ==
    scan.pc = "idle" /\ rep.pc = "idle" =>
        \A i, j \in 1..hdr.len :
            /\ Visible[i].value # Nil => Visible[i].value[2] = Visible[i].id
            /\ SameKey(Visible[i], Visible[j]) => i = j

\* Deleting PollCount from among the gauges moves none of their values to another
\* name, as long as each task ends before the next begins (agent.go:158-166).
OwnValuesAlone == Alone => OwnValues

\* In the same case no scan is counted twice by the server, also when the answer
\* to a report is lost: PollCount is deleted before the next report.
CountedOnce == Alone => \A t \in Tags : server.count[t] <= 1

\* In the same case, and if no request has failed, the PollCount of the last scan has
\* reached the server when it is deleted here: Delete takes nothing that Report has
\* not sent, wherever the metric stands in the slice by then (agent.go:157-166).
LastScanCounted ==
    [][ReportEnd /\ Alone /\ failures = 0 /\ scan.k > 0
        => server.count[<<scan.k, PollCount.id>>] = 1]_vars

\* As long as tasks do not overlap, the slice is an atomic map for both goroutines:
\* an Upsert finds its key wherever a Delete has moved it, and a key that was deleted
\* is gone (memory.go:33-110).
MapAlone == AsMap!Init /\ [][Alone' => [AsMap!Next]_(AsMap!vars)]_vars

\* A scan that ends is eventually reported: the server comes to hold its gauges,
\* or those of a later scan (agent.go:152-166).
Newer(n, k) == server.gauge[n] # Nil /\ server.gauge[n][1] >= k
GaugesArrive ==
    \A k \in 1..MaxScans : \A i \in 1..Len(Runtime) :
        Runtime[i].mtype = "gauge" =>
            ((scan.k = k /\ scan.pc = "idle") ~> Newer(Runtime[i].id, k) \/ ~Alone)
=============================================================================
