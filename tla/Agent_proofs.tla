---------------------------- MODULE Agent_proofs ----------------------------
(***************************************************************************)
(* What the agent's goroutines keep however scans and reports overlap: the *)
(* types.  As long as a scan and a report do not overlap, the two find a   *)
(* map in the store they share: every metric keeps its own value, and the  *)
(* server counts each scan once.                                           *)
(*                                                                         *)
(* The invariant of that case (Steady) says which calls there can be       *)
(* (Apart), that a held counter not yet sent has not been counted          *)
(* (Tallied), and that the last scan's count is held or was counted        *)
(* (Latest).  What a batch adds is shown by a least counterexample, as     *)
(* AllReceived is a recursive function over the batch.                     *)
(***************************************************************************)
EXTENDS Agent, MemStore_proofs, NaturalsInduction, WellFoundedInduction

-----------------------------------------------------------------------------
(* Definitions *)

\* A counter that can be sent; the goroutines store no other.
Whole == {m \in Metric : m.mtype = "counter" => m.delta # Nil}

\* The arrays hold such metrics, and only such are on their way there.
Filled ==
    /\ heap \in Seq(Seq(Whole))
    /\ \A p \in Callers :
        /\ call[p].pc \in {"update", "append", "extend", "swap", "fill"} => call[p].op = "upsert"
        /\ call[p].op = "upsert" => call[p].m \in Whole

Server == [count : Delta, gauge : [Names -> Tags \cup {Nil}]]
AgentTypes ==
    /\ StoreIn(Metric, heap, hdr, call) /\ Filled
    /\ scan \in [pc : {"idle", "scan"}, k : 0..MaxScans, n : 1..(Len(All) + 1)]
    /\ scan.pc = "scan" => scan.k > 0
    /\ rep \in [pc : {"idle", "send", "reset", "delete"}, at : Header, i : Nat \ {0},
                batch : Seq(Whole), by : ReportTypes]
    /\ rep.at.ptr \in DOMAIN heap
    /\ server \in Server
    /\ failures \in 0..MaxFailures /\ dead \in BOOLEAN /\ overlapped \in BOOLEAN

\* What a scan stores: a gauge with a value measured for it, PollCount with its count.
Scanned == {m \in Metric :
    /\ m.id \in Names
    /\ \/ m.mtype = "gauge" /\ m.delta = Nil /\ m.value # Nil /\ m.value[2] = m.id
       \/ m.mtype = "counter" /\ m.id = PollCount.id /\ m.delta # Nil /\ m.value = Nil}

\* Tasks that do not overlap: which calls there are, and what a report walks.
Deleted == [Zero EXCEPT !.id = PollCount.id, !.mtype = PollCount.mtype]
Slot(i) == heap[hdr.ptr][i]
Apart ==
    /\ \A p \in Callers \ {Scanner, Reporter} : At(p, "idle")
    /\ scan.pc = "idle" \/ scan.n = 1 => At(Scanner, "idle")
    /\ scan.pc = "scan" => rep.pc = "idle"
    /\ scan.pc = "scan" /\ scan.n > 1 =>
        /\ ~At(Scanner, "idle") /\ call[Scanner].op = "upsert"
        /\ call[Scanner].m = Measured(scan.n - 1)
    /\ rep.pc # "delete" => At(Reporter, "idle")
    /\ rep.pc = "delete" =>
        ~At(Reporter, "idle") /\ call[Reporter].op = "delete" /\ call[Reporter].m = Deleted
    /\ rep.pc = "send" =>
        /\ rep.at = hdr /\ rep.i \in 1..(hdr.len + 1)
        /\ Batched => Len(rep.batch) = rep.i - 1 /\ \A j \in 1..(rep.i - 1) : rep.batch[j] = Slot(j)

\* The tag of a scan's PollCount, and the counters that are still to be sent.
Scan(k) == <<k, PollCount.id>>
Uncounted(x) == \A t \in Tags : x.delta[t] + server.count[t] <= 1
ToSend(x) ==
    \/ rep.pc = "idle"
    \/ rep.pc = "send" /\ (Batched \/ \E j \in rep.i..hdr.len : x = Slot(j))
Tallied ==
    /\ \A t \in Tags : server.count[t] <= 1
    /\ \A t \in Tags : server.count[t] > 0 =>
        \E k \in 1..scan.k : t = Scan(k) /\ (scan.pc = "scan" => k < scan.k)
    /\ \A x \in Held : x.mtype = "counter" =>
        /\ \E k \in 1..scan.k : x.delta = Counted(Scan(k))
        /\ ToSend(x) => Uncounted(x)
        /\ rep.pc = "delete" => Status(Reporter) = "called"

\* The last scan's PollCount, if no request has failed.
Has(x) == x.mtype = "counter" /\ x.delta = Counted(Scan(scan.k))
Latest ==
    failures = 0 /\ scan.k > 0 =>
        /\ scan.pc = "scan" =>
            \A i \in 1..(scan.n - 1) : All[i] = PollCount =>
                (\E x \in Held : Has(x)) \/ (i = scan.n - 1 /\ Status(Scanner) = "called")
        /\ scan.pc = "idle" /\ rep.pc \in {"idle", "send"} =>
            server.count[Scan(scan.k)] = 1 \/ \E x \in Held : Has(x) /\ ToSend(x)
        /\ rep.pc \in {"reset", "delete"} => server.count[Scan(scan.k)] = 1

Steady == Orderly(Scanned) /\ Apart /\ Tallied /\ Latest
AgentInv == AgentTypes /\ (Alone => Steady)

-----------------------------------------------------------------------------
(* The store holds only counters that can be sent *)

LEMMA WholeClosed == Closed(Whole)
<1>1. Zero \in Whole
  BY NilAssumption DEF Zero, Metric, Whole, Types
<1>2. ASSUME NEW a \in Whole, NEW b \in Whole PROVE Overwrite(a, b) \in Whole
  <2>1. a \in Metric /\ b \in Metric /\ Overwrite(a, b) \in Metric
    BY MetricClosed DEF Closed, Whole
  <2>2. CASE b.mtype = "counter"
    BY <2>1, <2>2 DEF Whole, Overwrite, Metric
  <2>3. CASE b.mtype # "counter"
    BY <2>1, <2>3 DEF Whole, Overwrite, Metric
  <2> QED BY <2>2, <2>3
<1> QED BY <1>1, <1>2 DEF Closed

\* A step of a call keeps what it stores, and only an upsert comes to write.
LEMMA CallKeeps ==
    ASSUME StoreIn(Metric, heap, hdr, call), Filled, NEW p \in Callers, StoreStep(p)
    PROVE  \A q \in Callers :
            /\ call'[q].op = call[q].op /\ call'[q].m = call[q].m
            /\ call'[q].pc \in {"update", "append", "extend", "swap", "fill"} => call'[q].op = "upsert"
<1>a. call \in [Callers -> CallIn(Metric)]
  BY DEF StoreIn
<1> DEFINE To(step) == [call[p] EXCEPT !.pc = step]
           Writes(pc) == pc \in {"update", "append", "extend", "swap", "fill"}
           Kept(c) == c.op = call[p].op /\ c.m = call[p].m /\ (Writes(c.pc) => c.op = "upsert")
<1>b. call[p] \in CallIn(Metric) /\ (Writes(call[p].pc) => call[p].op = "upsert")
  BY <1>a DEF Filled
<1>1. \E c : call' = [call EXCEPT ![p] = c] /\ Kept(c)
  <2>1. ASSUME NEW step, call' = [call EXCEPT ![p] = To(step)], Writes(step) => call[p].op = "upsert"
        PROVE  \E c : call' = [call EXCEPT ![p] = c] /\ Kept(c)
    <3>1. Kept(To(step))
      BY <1>b, <2>1 DEF CallIn
    <3> HIDE DEF To, Kept
    <3> QED BY <2>1, <3>1
  <2>2. CASE FindHit(p)
    BY <2>1, <2>2 DEF FindHit
  <2>3. CASE FindMiss(p)
    BY <2>1, <2>3 DEF FindMiss
  <2>4. CASE Update(p) \/ Extend(p) \/ Swap(p) \/ Fill(p) \/ Shrink(p)
    BY <1>b, <2>1, <2>4 DEF Update, Extend, Swap, Fill, Shrink, Panics, At
  <2>5. CASE Shift(p) /\ ~InRange(p)
    BY <2>1, <2>5 DEF Shift, Panics
  <2>6. CASE FindNext(p)
    <3> DEFINE c == [call[p] EXCEPT !.idx = @ + 1]
    <3>1. call' = [call EXCEPT ![p] = c] /\ Kept(c)
      BY <1>b, <2>6 DEF FindNext, CallIn
    <3> QED BY <3>1
  <2>7. CASE Fetch(p)
    <3> DEFINE c == [call[p] EXCEPT !.pc = "done", !.got = Here(p)]
    <3>1. call' = [call EXCEPT ![p] = c] /\ Kept(c)
      BY <1>b, <2>7 DEF Fetch, CallIn
    <3> QED BY <3>1
  <2>8. CASE LoadRoom(p)
    <3> DEFINE c == [call[p] EXCEPT !.pc = "extend", !.at = hdr]
    <3>1. call' = [call EXCEPT ![p] = c] /\ Kept(c)
      BY <1>b, <2>8 DEF LoadRoom, CallIn, At
    <3> QED BY <3>1
  <2>9. CASE LoadFull(p)
    <3> DEFINE c == [call[p] EXCEPT !.pc = "swap", !.at = [ptr |-> Len(heap) + 1, len |-> hdr.len]]
    <3>1. call' = [call EXCEPT ![p] = c] /\ Kept(c)
      BY <1>b, <2>9 DEF LoadFull, CallIn, At
    <3> QED BY <3>1
  <2>10. CASE Shift(p) /\ InRange(p)
    <3> DEFINE c == [call[p] EXCEPT !.pc = "shrink", !.at = hdr]
    <3>1. call' = [call EXCEPT ![p] = c] /\ Kept(c)
      BY <1>b, <2>10 DEF Shift, CallIn
    <3> QED BY <3>1
  <2> QED BY <2>2, <2>3, <2>4, <2>5, <2>6, <2>7, <2>8, <2>9, <2>10 DEF StoreStep
<1> HIDE DEF To
<1> QED BY <1>a, <1>1 DEF Filled

\* Every step of a call keeps the arrays within them (memory.go:40-110).
LEMMA FilledStep ==
    ASSUME StoreIn(Metric, heap, hdr, call), Filled, NEW p \in Callers, StoreStep(p)
    PROVE  Filled'
<1>a. /\ hdr.ptr \in DOMAIN heap /\ hdr.len \in Nat /\ heap \in Seq(Seq(Whole))
      /\ call[p] \in CallIn(Metric) /\ call[p].at.ptr \in DOMAIN heap
      /\ call[p].pc \in {"update", "fill"} => call[p].m \in Whole
  BY DEF StoreIn, Filled
<1>b. call[p].idx \in Nat /\ call[p].at.len + 1 \in Nat
  BY SMTT(20), <1>a DEF CallIn, Header
<1>1. heap' \in Seq(Seq(Whole))
  <2>1. CASE UNCHANGED heap
    BY <1>a, <2>1
  <2>2. CASE Update(p) /\ InRange(p)
    <3> DEFINE i == call[p].idx
               m == Overwrite(CellAt(hdr.ptr, i), call[p].m)
    <3>1. heap' = Written(hdr.ptr, i, m) /\ call[p].m \in Whole
      BY <1>a, <2>2 DEF Update, At
    <3>2. CellAt(hdr.ptr, i) \in Whole
      BY <1>a, <1>b, WholeClosed, CellAtIn
    <3>3. m \in Whole
      BY <3>1, <3>2, WholeClosed DEF Closed
    <3> HIDE DEF m
    <3> QED BY <1>a, <1>b, <3>1, <3>3, WrittenIn
  <2>3. CASE LoadFull(p)
    <3>1. Grown(heap[hdr.ptr]) \in Seq(Whole)
      BY <1>a, WholeClosed, GrownIn
    <3> QED BY <1>a, <2>3, <3>1 DEF LoadFull
  <2>4. CASE Fill(p)
    <3> DEFINE i == call[p].at.len + 1
    <3>1. heap' = Written(call[p].at.ptr, i, call[p].m) /\ call[p].m \in Whole
      BY <1>a, <2>4 DEF Fill, At
    <3> HIDE DEF i
    <3> QED BY <1>a, <1>b, <3>1, WrittenIn DEF i
  <2>5. CASE Shift(p) /\ InRange(p)
    <3> DEFINE a == heap[hdr.ptr]
               moved == [i \in DOMAIN a |-> IF i \in call[p].idx..(hdr.len - 1)
                                            THEN CellAt(hdr.ptr, i + 1) ELSE a[i]]
    <3>1. a \in Seq(Whole) /\ heap' = [heap EXCEPT ![hdr.ptr] = moved]
      BY <1>a, <2>5 DEF Shift
    <3>2. ASSUME NEW i \in 1..Len(a) PROVE moved[i] \in Whole
      <4>1. i + 1 \in Nat /\ i \in DOMAIN a /\ a[i] \in Whole
        BY <3>1
      <4>2. CellAt(hdr.ptr, i + 1) \in Whole
        BY <1>a, <4>1, WholeClosed, CellAtIn
      <4> QED BY <4>1, <4>2
    <3>3. DOMAIN a = 1..Len(a) /\ Len(a) \in Nat
      BY <3>1
    <3>4. moved \in [1..Len(a) -> Whole]
      BY <3>2, <3>3
    <3>5. moved \in Seq(Whole)
      BY <3>3, <3>4
    <3> HIDE DEF moved
    <3> QED BY <1>a, <3>1, <3>5
  <2> QED BY <2>1, <2>2, <2>3, <2>4, <2>5 DEF StoreStep, FindNext, FindHit, FindMiss, Fetch,
         Update, LoadRoom, Extend, Swap, Shift, Shrink, Panics
<1>2. \A q \in Callers :
        /\ call'[q].op = call[q].op /\ call'[q].m = call[q].m
        /\ call'[q].pc \in {"update", "append", "extend", "swap", "fill"} => call'[q].op = "upsert"
  BY CallKeeps
<1> QED BY <1>1, <1>2 DEF Filled

\* A call that starts, or is forgotten, writes nothing yet.
LEMMA FilledStart ==
    ASSUME StoreIn(Metric, heap, hdr, call), Filled, NEW p \in Callers,
           NEW STATE c, c \in CallIn(Metric), c.pc \in {"idle", "find"}, c.at.ptr \in DOMAIN heap,
           c.op = "upsert" => c.m \in Whole,
           call' = [call EXCEPT ![p] = c], UNCHANGED <<heap, hdr>>
    PROVE  StoreIn(Metric, heap, hdr, call)' /\ Filled'
<1>1. call' \in [Callers -> CallIn(Metric)] /\ \A q \in Callers : call'[q] = IF q = p THEN c ELSE call[q]
  BY DEF StoreIn
<1>2. Filled'
  BY <1>1 DEF Filled
<1>3. StoreIn(Metric, heap, hdr, call)'
  BY <1>1 DEF StoreIn
<1> QED BY <1>2, <1>3

-----------------------------------------------------------------------------
(* What the server makes of a batch *)

\* One metric adds to the counters, or replaces a gauge.
LEMMA ReceivedIn ==
    ASSUME NEW srv \in Server, NEW m \in Whole
    PROVE  /\ Received(srv, m) \in Server
           /\ \A t \in Tags : Received(srv, m).count[t] =
                IF m.mtype = "counter" THEN srv.count[t] + m.delta[t] ELSE srv.count[t]
<1>a. m \in Metric /\ (m.mtype = "counter" => m.delta \in Delta)
  BY DEF Whole, Metric
<1>b. srv.count \in Delta /\ srv.gauge \in [Names -> Tags \cup {Nil}]
  BY DEF Server
<1>1. CASE m.mtype = "counter"
  <2> DEFINE sum == [t \in Tags |-> srv.count[t] + m.delta[t]]
  <2>1. sum \in Delta
    BY <1>a, <1>b, <1>1 DEF Delta
  <2>2. Received(srv, m) = [srv EXCEPT !.count = sum]
    BY <1>1, <1>b DEF Received, Server
  <2>3. \A t \in Tags : sum[t] = srv.count[t] + m.delta[t]
    OBVIOUS
  <2> HIDE DEF sum
  <2> QED BY <1>1, <2>1, <2>2, <2>3 DEF Server
<1>2. CASE m.mtype = "gauge"
  <2> DEFINE new == [srv.gauge EXCEPT ![m.id] = m.value]
  <2>1. new \in [Names -> Tags \cup {Nil}]
    BY <1>a, <1>b DEF Metric
  <2>2. Received(srv, m) = [srv EXCEPT !.gauge = new]
    BY <1>2 DEF Received, Server
  <2> HIDE DEF new
  <2> QED BY <1>2, <2>1, <2>2 DEF Server
<1>3. CASE m.mtype # "counter" /\ m.mtype # "gauge"
  BY <1>3 DEF Received
<1> QED BY <1>1, <1>2, <1>3

LT == {ss \in Nat \X Nat : ss[1] < ss[2]}

\* A set of numbers that is not empty has a least one.
LEMMA LeastOf ==
    ASSUME NEW T \in SUBSET Nat, T # {}
    PROVE  \E x \in T : \A y \in T : x <= y
<1>1. IsWellFoundedOn(LT, Nat)
  BY NatLessThanWellFounded DEF OpToRel, LT
<1> HIDE DEF LT
<1>2. PICK x \in T : \A y \in T : ~ (<<y, x>> \in LT)
  BY <1>1, WFMin
<1>3. \A y \in T : ~(y < x)
  BY <1>2 DEF LT
<1> QED BY <1>3

\* What the server has after each of the first n metrics of a batch.
InTurn(h, batch, n) ==
    h = [i \in 0..n |-> IF i = 0 THEN server ELSE Received(h[i - 1], batch[i])]

LEMMA InTurnExists ==
    ASSUME NEW STATE batch PROVE \A n \in Nat : \E h : InTurn(h, batch, n)
<1> DEFINE T == {n \in Nat : ~\E h : InTurn(h, batch, n)}
<1> SUFFICES ASSUME T # {} PROVE FALSE
  OBVIOUS
<1>1. PICK x \in T : \A y \in T : x <= y
  <2>1. T \in SUBSET Nat
    OBVIOUS
  <2> HIDE DEF T
  <2> QED BY <2>1, LeastOf
<1>2. CASE x = 0
  <2>1. InTurn([i \in 0..0 |-> server], batch, 0)
    BY DEF InTurn
  <2> QED BY <2>1, <1>2
<1>3. CASE x # 0
  <2>1. x - 1 \in Nat /\ x - 1 \notin T
    BY <1>1, <1>3
  <2>2. PICK h : InTurn(h, batch, x - 1)
    BY <2>1
  <2> DEFINE g == [i \in 0..x |-> IF i = x THEN Received(h[x - 1], batch[x]) ELSE h[i]]
  <2>3. \A i \in 0..(x - 1) : h[i] = IF i = 0 THEN server ELSE Received(h[i - 1], batch[i])
    BY <2>2 DEF InTurn
  <2>4. \A i \in 0..x : g[i] = IF i = 0 THEN server ELSE Received(g[i - 1], batch[i])
    BY <2>3, <1>3, <2>1
  <2>5. InTurn(g, batch, x)
    <3> HIDE DEF g
    <3>1. g = [i \in 0..x |-> g[i]]
      BY DEF g
    <3> QED BY <2>4, <3>1 DEF InTurn
  <2> QED BY <2>5
<1> QED BY <1>2, <1>3

LEMMA ReceivedInTurn ==
    ASSUME NEW STATE batch, Len(batch) \in Nat
    PROVE  \E h : /\ AllReceived(batch) = h[Len(batch)] /\ h[0] = server
                  /\ \A n \in 1..Len(batch) : h[n] = Received(h[n - 1], batch[n])
<1> DEFINE f == CHOOSE h : InTurn(h, batch, Len(batch))
<1>1. InTurn(f, batch, Len(batch))
  BY InTurnExists
<1>2. AllReceived(batch) = f[Len(batch)]
  BY DEF AllReceived, InTurn
<1>3. \A n \in 0..Len(batch) : f[n] = IF n = 0 THEN server ELSE Received(f[n - 1], batch[n])
  <2> HIDE DEF f
  <2> QED BY <1>1 DEF InTurn
<1> HIDE DEF f
<1> QED BY <1>2, <1>3

\* A batch leaves the server with counters and gauges.
LEMMA AllReceivedIn ==
    ASSUME server \in Server, NEW STATE batch, batch \in Seq(Whole)
    PROVE  AllReceived(batch) \in Server
<1>1. PICK h : /\ AllReceived(batch) = h[Len(batch)] /\ h[0] = server
               /\ \A n \in 1..Len(batch) : h[n] = Received(h[n - 1], batch[n])
  BY ReceivedInTurn
<1> DEFINE T == {n \in 0..Len(batch) : h[n] \notin Server}
<1>2. CASE T = {}
  BY <1>1, <1>2
<1>3. CASE T # {}
  <2>1. PICK x \in T : \A y \in T : x <= y
    <3>1. T \in SUBSET Nat
      OBVIOUS
    <3> HIDE DEF T
    <3> QED BY <1>3, <3>1, LeastOf
  <2>2. x # 0 /\ x \in 1..Len(batch) /\ x - 1 \in 0..Len(batch)
    BY <1>1, <2>1
  <2>3. h[x - 1] \in Server
    BY <2>1, <2>2
  <2>4. batch[x] \in Whole
    BY <2>2
  <2> QED BY <1>1, <2>1, <2>2, <2>3, <2>4, ReceivedIn
<1> QED BY <1>2, <1>3

-----------------------------------------------------------------------------
(* Types *)

\* All is a list of keys, PollCount among the first.
LEMMA AllTyped ==
    /\ All \in Seq([id : Names, mtype : Types]) /\ Len(All) = Len(Runtime) + Len(Workload)
    /\ Len(Runtime) \in Nat
    /\ \E i \in 1..Len(Runtime) : All[i] = PollCount
    /\ PollCount.id \in Names
<1> DEFINE Keys == [id : Names, mtype : Types]
<1>1. Runtime \in Seq(Keys) /\ Workload \in Seq(Keys)
  BY AgentAssumption
<1>2. PICK i \in 1..Len(Runtime) : Runtime[i] = PollCount
  BY AgentAssumption
<1>3. PollCount \in Keys => PollCount.id \in Names
  OBVIOUS
<1> HIDE DEF Keys
<1>4. All \in Seq(Keys) /\ Len(All) = Len(Runtime) + Len(Workload)
      /\ \A j \in 1..Len(Runtime) : All[j] = Runtime[j]
  BY <1>1 DEF All
<1>5. Len(Runtime) \in Nat /\ Runtime[i] \in Keys
  BY <1>1
<1> QED BY <1>2, <1>3, <1>4, <1>5 DEF Keys

LEMMA AllOfTypes == \A i \in 1..Len(All) : All[i].id \in Names /\ All[i].mtype \in Types
<1> DEFINE Keys == [id : Names, mtype : Types]
<1> SUFFICES ASSUME NEW i \in 1..Len(All) PROVE All[i].id \in Names /\ All[i].mtype \in Types
  OBVIOUS
<1>1. All \in Seq(Keys)
  BY AllTyped
<1>2. \A x \in Keys : x.id \in Names /\ x.mtype \in Types
  OBVIOUS
<1> HIDE DEF Keys
<1>3. All[i] \in Keys
  BY <1>1
<1> QED BY <1>2, <1>3

\* A scan measures whole metrics, each with its own name (scanner.go:48-141).
LEMMA MeasuredIn ==
    ASSUME AgentTypes, scan.pc = "scan", NEW n \in 1..Len(All)
    PROVE  /\ Measured(n) \in Scanned /\ Measured(n) \in Whole
           /\ <<scan.k, All[n].id>> \in Tags
           /\ Measured(n).mtype = "counter" =>
                All[n] = PollCount /\ Measured(n).delta = Counted(Scan(scan.k))
           /\ All[n] = PollCount => SameKey(Measured(n), PollCount)
           /\ Measured(n).id = All[n].id /\ Measured(n).mtype = All[n].mtype
<1> DEFINE t == <<scan.k, All[n].id>>
           m == Measured(n)
<1>1. All[n].id \in Names /\ All[n].mtype \in Types
  BY AllOfTypes
<1>2. t \in Tags /\ (All[n].mtype = "counter" => All[n] = PollCount)
  BY AgentAssumption DEF AgentTypes
<1>3. Counted(t) \in Delta
  BY DEF Counted, Delta
<1>4. /\ m.id = All[n].id /\ m.mtype = All[n].mtype
      /\ m.delta = IF All[n].mtype = "counter" THEN Counted(t) ELSE Nil
      /\ m.value = IF All[n].mtype = "gauge" THEN t ELSE Nil
  BY DEF Measured
<1>5. m \in Metric
  BY <1>1, <1>2, <1>3 DEF Measured, Metric
<1>6. Nil \notin Delta /\ Nil \notin Tags
  BY NilAssumption
<1> HIDE DEF m
<1>7. m \in Whole
  BY <1>3, <1>4, <1>5, <1>6 DEF Whole
<1>8. m \in Scanned
  BY <1>1, <1>2, <1>3, <1>4, <1>5, <1>6 DEF Scanned, Types
<1>9. m.mtype = "counter" => All[n] = PollCount /\ m.delta = Counted(Scan(scan.k))
  BY <1>2, <1>4 DEF Scan
<1> QED BY <1>2, <1>4, <1>7, <1>8, <1>9 DEF m, SameKey, PollCount

LEMMA TypesInit == ASSUME Init PROVE AgentTypes
<1>1. StoreIn(Metric, heap, hdr, call)
  BY MetricClosed, StoreInitIn DEF Init, Closed
<1>2. Filled
  BY DEF Init, StoreInit, NoCall, Filled
<1>3. server \in Server
  BY DEF Init, Server, Delta
<1>4. rep \in [pc : {"idle"}, at : {hdr}, i : {1}, batch : {<<>>}, by : ReportTypes]
      /\ hdr \in Header /\ hdr.ptr \in DOMAIN heap
  BY DEF Init, StoreInit, Header
<1>5. scan \in [pc : {"idle", "scan"}, k : 0..MaxScans, n : 1..(Len(All) + 1)] /\ scan.pc = "idle"
  BY AllTyped, AgentAssumption DEF Init
<1>6. failures \in 0..MaxFailures
  BY AgentAssumption DEF Init
<1>7. dead \in BOOLEAN /\ overlapped \in BOOLEAN
  BY DEF Init
<1>8. <<>> \in Seq(Whole)
  OBVIOUS
<1>9. /\ rep \in [pc : {"idle", "send", "reset", "delete"}, at : Header, i : Nat \ {0},
                   batch : Seq(Whole), by : ReportTypes]
      /\ rep.at.ptr \in DOMAIN heap
  <2> DEFINE Batches == Seq(Whole)
             none == <<>>
  <2>1. none \in Batches
    BY <1>8
  <2>2. rep \in [pc : {"idle"}, at : {hdr}, i : {1}, batch : {none}, by : ReportTypes]
    BY <1>4
  <2> HIDE DEF Batches, none
  <2>3. rep \in [pc : {"idle", "send", "reset", "delete"}, at : Header, i : Nat \ {0},
                 batch : Batches, by : ReportTypes]
    BY <1>4, <2>1, <2>2
  <2> QED BY <1>4, <2>2, <2>3 DEF Batches
<1> QED BY <1>1, <1>2, <1>3, <1>5, <1>6, <1>7, <1>9 DEF AgentTypes

\* A report reads metrics that can be sent.
LEMMA ElementIn == ASSUME AgentTypes PROVE Element \in Whole
BY WholeClosed, CellAtIn DEF AgentTypes, Filled, Element

\* A step of the report that leaves the store alone.
LEMMA TypesReport ==
    ASSUME AgentTypes, UNCHANGED <<heap, hdr, call, scan, dead>>, overlapped' \in BOOLEAN,
           failures' \in 0..MaxFailures, server' \in Server,
           NEW STATE new, rep' = new, new.at.ptr \in DOMAIN heap,
           new \in [pc : {"idle", "send", "reset", "delete"}, at : Header, i : Nat \ {0},
                    batch : Seq(Whole), by : ReportTypes]
    PROVE  AgentTypes'
BY DEF AgentTypes, StoreIn, Filled, Server

LEMMA TypesNext == ASSUME AgentTypes, Next PROVE AgentTypes'
<1> DEFINE Reports == [pc : {"idle", "send", "reset", "delete"}, at : Header, i : Nat \ {0},
                       batch : Seq(Whole), by : ReportTypes]
           Scans == [pc : {"idle", "scan"}, k : 0..MaxScans, n : 1..(Len(All) + 1)]
<1>a. /\ StoreIn(Metric, heap, hdr, call) /\ Filled /\ scan \in Scans
      /\ rep \in Reports /\ rep.at.ptr \in DOMAIN heap /\ server \in Server
      /\ failures \in 0..MaxFailures /\ dead \in BOOLEAN /\ overlapped \in BOOLEAN
      /\ hdr.ptr \in DOMAIN heap /\ hdr \in Header /\ DOMAIN heap \subseteq Nat
  BY SMTT(20) DEF AgentTypes, StoreIn, Header
<1>b. Scanner \in Callers /\ Reporter \in Callers
  BY AgentAssumption
\* A report that goes on, or that is given up.
<1>c. ASSUME NEW pc \in {"idle", "send", "reset", "delete"}
      PROVE  [rep EXCEPT !.pc = pc] \in Reports /\ [rep EXCEPT !.pc = pc].at = rep.at
  BY <1>a, <1>c
<1>d. ASSUME NEW pc \in {"idle", "send", "reset", "delete"}, rep' = [rep EXCEPT !.pc = pc],
             UNCHANGED <<heap, hdr, call, scan, dead, overlapped>>,
             failures' \in 0..MaxFailures, server' \in Server
      PROVE  AgentTypes'
  <2> DEFINE new == [rep EXCEPT !.pc = pc]
  <2>1. new \in Reports /\ new.at = rep.at
    BY <1>c
  <2> HIDE DEF new
  <2>2. rep' = new
    BY <1>d DEF new
  <2> QED BY <1>a, <1>d, <2>1, <2>2, TypesReport
<1>e. ASSUME NEW STATE applied, applied \in Server, Fails(applied),
             UNCHANGED <<heap, hdr, call, scan, dead, overlapped>>
      PROVE  AgentTypes'
  <2>1. failures' \in 0..MaxFailures
    BY SMTT(20), <1>a, <1>e, AgentAssumption DEF Fails, FailsTo
  <2>2. server' \in Server /\ rep' = [rep EXCEPT !.pc = "reset"]
    BY <1>a, <1>e DEF Fails, FailsTo
  <2> QED BY <1>d, <1>e, <2>1, <2>2
\* A call that begins or is forgotten.
<1>f. ASSUME NEW p \in Callers, NEW STATE c, c \in CallIn(Metric), c.pc \in {"idle", "find"},
             c.at.ptr \in DOMAIN heap, c.op = "upsert" => c.m \in Whole,
             call' = [call EXCEPT ![p] = c],
             UNCHANGED <<heap, hdr, server, failures, dead, overlapped>>,
             scan' \in Scans, scan'.pc = "scan" => scan'.k > 0,
             rep' \in Reports, rep'.at = rep.at
      PROVE  AgentTypes'
  <2>1. StoreIn(Metric, heap, hdr, call)' /\ Filled'
    BY <1>a, <1>f, FilledStart
  <2> QED BY <1>a, <1>f, <2>1 DEF AgentTypes, Server
<1>g. ASSUME NEW op \in {"upsert", "delete"}, NEW m \in Metric
      PROVE  /\ NewCall(op, m) \in CallIn(Metric) /\ NewCall(op, m).pc = "find"
             /\ NewCall(op, m).op = op /\ NewCall(op, m).m = m /\ NewCall(op, m).at = hdr
  BY <1>a, <1>g DEF NewCall, CallIn, Steps
<1>h. /\ NoCall \in CallIn(Metric) /\ NoCall.pc = "idle" /\ NoCall.op = "get"
      /\ NoCall.at.ptr \in DOMAIN heap
  <2>1. Zero \in Metric
    BY MetricClosed DEF Closed
  <2>2. 1 \in DOMAIN heap
    BY <1>a DEF StoreIn
  <2> QED BY <2>1, <2>2 DEF NoCall, CallIn, Header, Steps
<1>1. CASE ScanTick
  <2> DEFINE new == [pc |-> "scan", k |-> scan.k + 1, n |-> 1]
  <2>1. new \in Scans /\ new.k > 0
    BY SMTT(20), <1>a, <1>1, AllTyped, AgentAssumption DEF ScanTick
  <2> HIDE DEF new
  <2>2. scan' = new /\ overlapped' \in BOOLEAN /\ UNCHANGED <<heap, hdr, call, rep, server, failures, dead>>
    BY <1>1 DEF ScanTick, new
  <2> QED BY <1>a, <2>1, <2>2 DEF AgentTypes, StoreIn, Filled, Server
<1>2. CASE ScanNext
  <2> DEFINE m == Measured(scan.n)
             c == NewCall("upsert", m)
  <2>n. scan.n \in 1..Len(All) /\ scan.pc = "scan" /\ scan' = [scan EXCEPT !.n = @ + 1]
    BY <1>a, <1>2 DEF ScanNext
  <2>1. m \in Whole
    BY <2>n, MeasuredIn
  <2>5. m \in Metric
    BY <2>1 DEF Whole
  <2>2. scan' \in Scans /\ scan'.k > 0
    <3>1. scan.n + 1 \in 1..(Len(All) + 1) /\ scan.k > 0
      BY <2>n DEF AgentTypes
    <3> QED BY <1>a, <2>n, <3>1
  <2>3. call' = [call EXCEPT ![Scanner] = c] /\ UNCHANGED <<heap, hdr, server, failures, dead, overlapped, rep>>
    BY <1>2 DEF ScanNext
  <2>4. c \in CallIn(Metric) /\ c.pc = "find" /\ c.op = "upsert" /\ c.m = m /\ c.at = hdr
    BY <1>g, <2>5
  <2> HIDE DEF c, m
  <2> QED BY <1>a, <1>b, <1>f, <2>1, <2>2, <2>3, <2>4, <2>5
<1>3. CASE ScanEnd
  <2>1. scan' \in Scans /\ scan'.pc = "idle"
    BY <1>a, <1>3 DEF ScanEnd
  <2>2. call' = [call EXCEPT ![Scanner] = NoCall] /\ UNCHANGED <<heap, hdr, server, failures, dead, overlapped, rep>>
    BY <1>3 DEF ScanEnd
  <2> HIDE DEF NoCall
  <2> QED BY <1>a, <1>b, <1>f, <1>h, <2>1, <2>2
<1>4. CASE ReportTick
  <2> DEFINE none == <<>>
             new == [rep EXCEPT !.pc = "send", !.at = hdr, !.i = 1, !.batch = none]
  <2>1. none \in Seq(Whole)
    OBVIOUS
  <2>2. new \in Reports /\ new.at = hdr
    <3> DEFINE Batches == Seq(Whole)
               All4 == [pc : {"idle", "send", "reset", "delete"}, at : Header, i : Nat \ {0},
                        batch : Batches, by : ReportTypes]
    <3>1. rep \in All4 /\ none \in Batches /\ hdr \in Header
      BY <1>a, <2>1
    <3> HIDE DEF none, Batches
    <3> DEFINE begun == [[rep EXCEPT !.pc = "send"] EXCEPT !.at = hdr]
    <3>2. begun \in All4 /\ begun.at = hdr /\ new = [[begun EXCEPT !.i = 1] EXCEPT !.batch = none]
      BY <3>1
    <3> DEFINE first == [begun EXCEPT !.i = 1]
    <3>3. first \in All4 /\ first.at = hdr /\ new = [first EXCEPT !.batch = none]
      <4> HIDE DEF begun, new
      <4> QED BY <3>2
    <3> HIDE DEF begun, first, new
    <3>4. new \in All4 /\ new.at = hdr
      BY <3>1, <3>3
    <3> QED BY <3>4 DEF Batches
  <2> HIDE DEF new
  <2>3. /\ rep' = new /\ overlapped' \in BOOLEAN
        /\ UNCHANGED <<heap, hdr, call, scan, server, failures, dead>>
    BY <1>4 DEF ReportTick, new
  <2> QED BY <1>a, <2>2, <2>3, TypesReport
<1>5. CASE Unsendable \/ AllSent
  BY <1>a, <1>d, <1>5 DEF Unsendable, AllSent
<1>6. CASE Collect
  <2> DEFINE new == [rep EXCEPT !.i = @ + 1, !.batch = Append(@, Element)]
  <2>1. Append(rep.batch, Element) \in Seq(Whole) /\ rep.i + 1 \in Nat \ {0}
    BY <1>a, ElementIn
  <2>2. new \in Reports /\ new.at = rep.at
    BY <1>a, <2>1
  <2> HIDE DEF new
  <2>3. rep' = new /\ UNCHANGED <<heap, hdr, call, scan, server, failures, dead, overlapped>>
    BY <1>6 DEF Collect, new
  <2> QED BY <1>a, <2>2, <2>3, TypesReport
<1>7. CASE SendOne
  <2> DEFINE applied == Received(server, Element)
             new == [rep EXCEPT !.i = @ + 1]
  <2>1. applied \in Server
    BY <1>a, ElementIn, ReceivedIn
  <2>2. rep.i + 1 \in Nat \ {0}
    BY <1>a
  <2>3. new \in Reports /\ new.at = rep.at
    BY <1>a, <2>2
  <2> HIDE DEF new, applied
  <2>4. UNCHANGED <<heap, hdr, call, scan, dead, overlapped>>
    BY <1>7 DEF SendOne
  <2>5. \/ server' = applied /\ rep' = new /\ failures' = failures
        \/ Fails(applied)
    BY <1>7 DEF SendOne, applied, new
  <2>6. CASE Fails(applied)
    BY <1>e, <2>1, <2>4, <2>6
  <2>7. CASE server' = applied /\ rep' = new /\ failures' = failures
    BY <1>a, <2>1, <2>3, <2>4, <2>7, TypesReport
  <2> QED BY <2>5, <2>6, <2>7
<1>8. CASE SendBatch
  <2> DEFINE applied == AllReceived(rep.batch)
  <2>1. applied \in Server
    BY <1>a, AllReceivedIn
  <2> HIDE DEF applied
  <2>2. UNCHANGED <<heap, hdr, call, scan, dead, overlapped>>
    BY <1>8 DEF SendBatch
  <2>3. \/ server' = applied /\ rep' = [rep EXCEPT !.pc = "reset"] /\ failures' = failures
        \/ Fails(applied)
    BY <1>8 DEF SendBatch, applied
  <2> QED BY <1>a, <1>d, <1>e, <2>1, <2>2, <2>3
<1>9. CASE Reset
  <2> DEFINE c == NewCall("delete", Deleted)
  <2>1. Deleted \in Metric
    BY AllTyped DEF Deleted, Zero, Metric, PollCount, Types
  <2>2. c \in CallIn(Metric) /\ c.pc = "find" /\ c.op = "delete" /\ c.at = hdr
    BY <1>g, <2>1
  <2>3. /\ call' = [call EXCEPT ![Reporter] = c] /\ rep' = [rep EXCEPT !.pc = "delete"]
        /\ UNCHANGED <<heap, hdr, server, failures, dead, overlapped, scan>>
    BY <1>9 DEF Reset, Deleted
  <2>4. rep' \in Reports /\ rep'.at = rep.at
    BY <1>c, <2>3
  <2>5. scan.pc = "scan" => scan.k > 0
    BY DEF AgentTypes
  <2> HIDE DEF c
  <2> QED BY <1>a, <1>b, <1>f, <2>2, <2>3, <2>4, <2>5
<1>10. CASE ReportEnd
  <2>1. /\ call' = [call EXCEPT ![Reporter] = NoCall] /\ rep' = [rep EXCEPT !.pc = "idle"]
        /\ UNCHANGED <<heap, hdr, server, failures, dead, overlapped, scan>>
    BY <1>10 DEF ReportEnd
  <2>2. rep' \in Reports /\ rep'.at = rep.at
    BY <1>c, <2>1
  <2>3. scan.pc = "scan" => scan.k > 0
    BY DEF AgentTypes
  <2> HIDE DEF NoCall
  <2> QED BY <1>a, <1>b, <1>f, <1>h, <2>1, <2>2, <2>3
<1>11. CASE Panic
  BY <1>a, <1>11 DEF Panic, AgentTypes, StoreIn, Filled, Server
<1>12. ASSUME NEW p \in Callers, StoreCall(p) PROVE AgentTypes'
  <2>1. StoreStep(p) /\ UNCHANGED <<scan, rep, server, failures, dead, overlapped>>
    BY <1>12 DEF StoreCall
  <2>2. StoreIn(Metric, heap', hdr', call')
    BY <1>a, <2>1, MetricClosed, StoreStepIn
  <2>3. Filled'
    BY <1>a, <2>1, FilledStep
  <2>4. DOMAIN heap \subseteq DOMAIN heap'
    BY <1>a, <2>1, ArraysStay
  <2> QED BY <1>a, <2>1, <2>2, <2>3, <2>4 DEF AgentTypes, Server
<1> QED
  BY <1>b, <1>1, <1>2, <1>3, <1>4, <1>5, <1>6, <1>7, <1>8, <1>9, <1>10, <1>11, <1>12
     DEF Next, ScannerStep, ReporterStep

\* The agent's own state has its types, however scans and reports overlap.
THEOREM AgentTypeCorrect == Spec => []AgentTypeOK
<1>1. AgentTypes /\ UNCHANGED vars => AgentTypes'
  BY DEF AgentTypes, StoreIn, Filled, Server, vars
<1>2. AgentTypes => AgentTypeOK
  <2> SUFFICES ASSUME AgentTypes PROVE AgentTypeOK
    OBVIOUS
  <2>1. StoreTypeOK
    <3>1. CallIn(Metric) \subseteq Call
      BY DEF CallIn, Call
    <3> QED BY <3>1 DEF AgentTypes, StoreIn, StoreTypeOK
  <2>2. rep \in [pc : {"idle", "send", "reset", "delete"}, at : Header, i : Nat,
                 batch : Seq(Metric), by : ReportTypes]
    <3> DEFINE Some == Seq(Whole)
               Any == Seq(Metric)
    <3>1. Some \subseteq Any
      BY DEF Whole
    <3>2. rep \in [pc : {"idle", "send", "reset", "delete"}, at : Header, i : Nat \ {0},
                   batch : Some, by : ReportTypes]
      BY DEF AgentTypes
    <3> HIDE DEF Some, Any
    <3>3. rep \in [pc : {"idle", "send", "reset", "delete"}, at : Header, i : Nat,
                   batch : Any, by : ReportTypes]
      BY <3>1, <3>2
    <3> QED BY <3>3 DEF Any
  <2>3. server.count \in Delta /\ server.gauge \in [Names -> Tags \cup {Nil}]
    BY DEF AgentTypes, Server
  <2> QED BY <2>1, <2>2, <2>3 DEF AgentTypes, AgentTypeOK
<1> QED BY TypesInit, TypesNext, <1>1, <1>2, PTL DEF Spec

-----------------------------------------------------------------------------
(* Tasks that do not overlap *)

\* A scanned metric is replaced as a whole by another with its key.
LEMMA ScannedReplaces == Replaces(Scanned) /\ Overwrites(Scanned)
<1> SUFFICES ASSUME NEW old \in Scanned, NEW m \in Scanned, SameKey(old, m)
             PROVE  Overwrite(old, m) = m
  BY DEF Replaces, Overwrites, Scanned
<1>1. /\ old \in Metric /\ m \in Metric /\ old.id = m.id /\ old.mtype = m.mtype
      /\ \/ m.mtype = "gauge" /\ m.delta = Nil /\ old.delta = Nil
         \/ m.mtype = "counter" /\ m.value = Nil /\ old.value = Nil
  BY DEF Scanned, SameKey
<1>2. \A x, y \in Metric : x.id = y.id /\ x.mtype = y.mtype /\ x.delta = y.delta /\ x.value = y.value => x = y
  BY DEF Metric
<1>3. Overwrite(old, m) \in Metric
  BY <1>1, MetricClosed DEF Closed
<1>4. CASE m.mtype = "gauge"
  <2>1. Overwrite(old, m) = [old EXCEPT !.value = m.value]
    BY <1>4 DEF Overwrite
  <2>2. /\ [old EXCEPT !.value = m.value].id = old.id
        /\ [old EXCEPT !.value = m.value].mtype = old.mtype
        /\ [old EXCEPT !.value = m.value].delta = old.delta
        /\ [old EXCEPT !.value = m.value].value = m.value
    BY <1>1 DEF Metric
  <2> QED BY <1>1, <1>2, <1>3, <1>4, <2>1, <2>2
<1>5. CASE m.mtype = "counter"
  <2>1. Overwrite(old, m) = [old EXCEPT !.delta = m.delta]
    BY <1>5 DEF Overwrite
  <2>2. /\ [old EXCEPT !.delta = m.delta].id = old.id
        /\ [old EXCEPT !.delta = m.delta].mtype = old.mtype
        /\ [old EXCEPT !.delta = m.delta].delta = m.delta
        /\ [old EXCEPT !.delta = m.delta].value = old.value
    BY <1>1 DEF Metric
  <2> QED BY <1>1, <1>2, <1>3, <1>5, <2>1, <2>2
<1> QED BY <1>1, <1>4, <1>5

\* PollCount is the only counter there is, and the one that is deleted.
LEMMA OneCounter ==
    ASSUME NEW x \in Scanned, x.mtype = "counter"
    PROVE  /\ SameKey(x, Deleted) /\ x.id = PollCount.id /\ x.delta \in Delta
           /\ \A y \in Scanned : y.mtype = "counter" => SameKey(x, y)
BY DEF Scanned, SameKey, Deleted, PollCount, Zero, Metric

LEMMA HeldScanned == ASSUME Orderly(Scanned) PROVE Held \subseteq Scanned
BY DEF Orderly, Keyed, Held

\* Without a call under way the store holds what its slots hold.
LEMMA HeldSlots ==
    ASSUME AgentTypes, Orderly(Scanned), Apart, Free(Scanner), Free(Reporter)
    PROVE  /\ \A q \in Callers : ~Busy(q)
           /\ LastInUse = hdr.len /\ hdr.len \in Nat /\ hdr.len <= Len(heap[hdr.ptr])
           /\ Held = {Slot(i) : i \in 1..hdr.len}
           /\ \A i \in 1..hdr.len : Slot(i) \in Scanned /\ Visible[i] = Slot(i)
           /\ \A i, j \in 1..hdr.len : SameKey(Slot(i), Slot(j)) => i = j
<1>1. \A q \in Callers : ~Busy(q)
  BY DEF Apart, Free, At, Busy
<1>2. LastInUse = hdr.len
  BY <1>1 DEF LastInUse, Busy, At
<1>3. hdr.len \in Nat /\ hdr.len <= Len(heap[hdr.ptr]) /\ heap[hdr.ptr] \in Seq(Metric)
  BY DEF AgentTypes, StoreIn, Orderly
<1>4. \A i \in 1..hdr.len : Visible[i] = Slot(i)
  BY <1>3 DEF Visible, CellAt, Slot
<1> QED BY <1>1, <1>2, <1>3, <1>4 DEF Orderly, Keyed, Held, Slot

\* What does not touch the store leaves what it holds, and where its calls are.
LEMMA StoreSame ==
    ASSUME UNCHANGED <<heap, hdr, call>>
    PROVE  /\ Held' = Held /\ (Orderly(Scanned) => Orderly(Scanned)')
           /\ \A p : Status(p)' = Status(p) /\ \A step : At(p, step)' <=> At(p, step)
           /\ \A i : Slot(i)' = Slot(i)
<1>1. Held' = Held
  BY DEF Held, LastInUse, At
<1>2. Orderly(Scanned) => Orderly(Scanned)'
  BY OrderlyStays
<1> QED BY <1>1, <1>2 DEF Status, At, Slot

\* The calls between tasks' own steps.
LEMMA WhoIsFree ==
    ASSUME Apart PROVE /\ scan.pc = "idle" \/ scan.n = 1 => Free(Scanner)
                       /\ rep.pc # "delete" => Free(Reporter)
BY DEF Apart, Free

LEMMA ScanTickSteady ==
    ASSUME AgentTypes, Steady, ScanTick, rep.pc = "idle" PROVE Steady'
<1>a. /\ scan.pc = "idle" /\ scan'.pc = "scan" /\ scan'.k = scan.k + 1 /\ scan'.n = 1
      /\ scan.k \in Nat /\ UNCHANGED <<heap, hdr, call, rep, server, failures>>
  BY DEF ScanTick, AgentTypes
<1>b. /\ Held' = Held /\ Orderly(Scanned)'
      /\ \A p : \A step : At(p, step)' <=> At(p, step)
  BY <1>a, StoreSame DEF Steady
<1>1. Apart'
  BY <1>a, <1>b DEF Steady, Apart
<1>2. Tallied'
  <2>1. \A k \in 1..scan.k : k \in 1..(scan'.k) /\ k < scan'.k
    BY <1>a
  <2>2. \A t \in Tags : server'.count[t] <= 1
    BY <1>a DEF Steady, Tallied
  <2>3. \A t \in Tags : server'.count[t] > 0 => \E k \in 1..(scan'.k) : t = Scan(k) /\ k < scan'.k
    BY <1>a, <2>1 DEF Steady, Tallied
  <2>4. \A x \in Held : x.mtype = "counter" =>
            (\E k \in 1..(scan'.k) : x.delta = Counted(Scan(k))) /\ Uncounted(x)'
    BY <1>a, <2>1 DEF Steady, Tallied, ToSend, Uncounted
  <2> QED BY <1>a, <1>b, <2>2, <2>3, <2>4 DEF Tallied
<1>3. Latest'
  BY <1>a DEF Latest
<1> QED BY <1>b, <1>1, <1>2, <1>3 DEF Steady

LEMMA ScanNextSteady ==
    ASSUME AgentTypes, Steady, ScanNext PROVE Steady'
<1> DEFINE m == Measured(scan.n)
           c == NewCall("upsert", m)
<1>a. /\ scan.pc = "scan" /\ scan'.pc = "scan" /\ scan'.k = scan.k /\ scan'.n = scan.n + 1
      /\ scan.n \in 1..Len(All) /\ rep.pc = "idle" /\ Free(Scanner) /\ Free(Reporter)
      /\ call' = [call EXCEPT ![Scanner] = c] /\ UNCHANGED <<heap, hdr, rep, server, failures>>
  BY DEF ScanNext, AgentTypes, Steady, Apart, Free
<1>b. Scanner \in Callers /\ Reporter \in Callers /\ Scanner # Reporter
  BY AgentAssumption
<1>c. m \in Scanned
  BY <1>a, MeasuredIn
<1>d. Orderly(Scanned)' /\ Held' = Held /\ call'[Scanner] = c
      /\ \A q \in Callers \ {Scanner} : call'[q] = call[q]
  <2>1. \A q \in Callers : ~Busy(q)
    BY <1>a, HeldSlots DEF Steady
  <2>2. c = NewCall("upsert", m)
    OBVIOUS
  <2> HIDE DEF m, c
  <2>3. \E op, x : c = NewCall(op, x) /\ (op = "upsert" => x \in Scanned)
    BY <1>c, <2>2
  <2>4. StoreIn(Metric, heap, hdr, call) /\ Orderly(Scanned)
    BY DEF Steady, AgentTypes
  <2>5. call' = [call EXCEPT ![Scanner] = c] /\ UNCHANGED <<heap, hdr>>
    BY <1>a
  <2> HIDE DEF Scanned, Orderly, Held
  <2> QED BY <1>b, <2>1, <2>3, <2>4, <2>5, StartOrderly
<1>e. scan'.n - 1 = scan.n
  BY <1>a
<1>g. Measured(scan.n - 1)' = m
  BY <1>a, <1>e DEF Measured
<1> HIDE DEF m
<1>f. c.pc = "find" /\ c.op = "upsert" /\ c.m = m
  BY DEF NewCall
<1> HIDE DEF c
<1>1. Apart'
  <2>1. call'[Scanner].m = Measured(scan.n - 1)'
    BY <1>d, <1>f, <1>g
  <2>2. ~At(Scanner, "idle")' /\ call'[Scanner].op = "upsert" /\ scan'.n # 1
    BY <1>a, <1>d, <1>f DEF At
  <2>3. \A q \in Callers \ {Scanner} : At(q, "idle")' <=> At(q, "idle")
    BY <1>d DEF At
  <2> HIDE DEF Measured
  <2> QED BY <1>a, <1>b, <2>1, <2>2, <2>3 DEF Steady, Apart
<1>2. Tallied'
  BY <1>a, <1>d DEF Steady, Tallied, ToSend, Uncounted
<1>3. Latest'
  <2>1. Status(Scanner) # "called" /\ Status(Scanner)' = "called"
    BY <1>a, <1>d, <1>f DEF Status, Free, At
  <2>2. \A i \in 1..scan.n : i = scan.n \/ i \in 1..(scan.n - 1)
    BY <1>a
  <2>3. \A x : Has(x)' <=> Has(x)
    BY <1>a DEF Has
  <2> HIDE DEF Has
  <2> QED BY <1>a, <1>d, <1>e, <2>1, <2>2, <2>3 DEF Steady, Latest
<1> QED BY <1>d, <1>1, <1>2, <1>3 DEF Steady

LEMMA ScanEndSteady ==
    ASSUME AgentTypes, Steady, ScanEnd PROVE Steady'
<1>b. Scanner \in Callers /\ Reporter \in Callers /\ Scanner # Reporter
  BY AgentAssumption
<1>a. /\ scan.pc = "scan" /\ scan'.pc = "idle" /\ scan'.k = scan.k /\ scan'.n = scan.n
      /\ scan.n \in Nat /\ (scan.n > Len(All) \/ scan.n = Len(Runtime) + 1)
      /\ rep.pc = "idle" /\ Free(Scanner) /\ Free(Reporter)
      /\ call' = [call EXCEPT ![Scanner] = NoCall] /\ UNCHANGED <<heap, hdr, rep, server, failures>>
  BY DEF ScanEnd, AgentTypes, Steady, Apart, Free
<1>d. Orderly(Scanned)' /\ Held' = Held /\ call'[Scanner] = NoCall
      /\ \A q \in Callers \ {Scanner} : call'[q] = call[q]
  <2>1. \A q \in Callers : ~Busy(q)
    BY <1>a, HeldSlots DEF Steady
  <2>2. StoreIn(Metric, heap, hdr, call) /\ Orderly(Scanned)
    BY DEF Steady, AgentTypes
  <2> HIDE DEF NoCall
  <2> QED BY <1>a, <1>b, <2>1, <2>2, StartOrderly
<1>1. Apart'
  BY <1>a, <1>b, <1>d DEF Steady, Apart, At, NoCall
<1>2. Tallied'
  BY <1>a, <1>d DEF Steady, Tallied, ToSend, Uncounted
<1>3. Latest'
  <2>1. PICK i \in 1..Len(Runtime) : All[i] = PollCount
    BY AllTyped
  <2>2. i \in 1..(scan.n - 1)
    BY <1>a, <2>1, AllTyped DEF AgentTypes
  <2>3. Status(Scanner) # "called"
    BY <1>a DEF Status, Free, At
  <2>4. failures = 0 /\ scan.k > 0 => \E x \in Held : Has(x)
    BY <1>a, <2>1, <2>2, <2>3 DEF Steady, Latest
  <2>5. \A x : (Has(x)' <=> Has(x)) /\ ToSend(x)'
    BY <1>a DEF Has, ToSend
  <2> HIDE DEF Has, ToSend
  <2> QED BY <1>a, <1>d, <2>4, <2>5 DEF Latest
<1> QED BY <1>d, <1>1, <1>2, <1>3 DEF Steady

\* The scan's call takes a step in the store: it may replace one metric by the one
\* that was measured.
LEMMA ScannerCallSteady ==
    ASSUME AgentTypes, Steady, StoreCall(Scanner) PROVE Steady'
<1> DEFINE m == call[Scanner].m
<1>b. Scanner \in Callers /\ Reporter \in Callers /\ Scanner # Reporter
  BY AgentAssumption
<1>a. StoreStep(Scanner) /\ UNCHANGED <<scan, rep, server, failures>>
  BY DEF StoreCall
<1>c. /\ scan.pc = "scan" /\ scan.n > 1 /\ scan.n - 1 \in 1..Len(All) /\ scan.k \in Nat
      /\ rep.pc = "idle" /\ call[Scanner].op = "upsert" /\ m = Measured(scan.n - 1)
      /\ ~At(Scanner, "idle") /\ Status(Scanner) # "idle"
  <2>1. ~At(Scanner, "idle") /\ Status(Scanner) # "idle"
    BY <1>a DEF StoreStep, FindNext, FindHit, FindMiss, Fetch, Update, LoadRoom, LoadFull,
                Extend, Swap, Fill, Shift, Shrink, At, Status
  <2>2. scan.pc = "scan" /\ scan.n # 1
    BY <2>1 DEF Steady, Apart, AgentTypes
  <2>3. scan.n \in 1..(Len(All) + 1) /\ scan.k \in Nat /\ Len(All) \in Nat
    BY AllTyped DEF AgentTypes
  <2>4. scan.n > 1 /\ scan.n - 1 \in 1..Len(All)
    BY <2>2, <2>3
  <2> QED BY <2>1, <2>2, <2>3, <2>4 DEF Steady, Apart
<1>d. /\ m \in Scanned
      /\ m.mtype = "counter" => m.delta = Counted(Scan(scan.k))
      /\ All[scan.n - 1] = PollCount => m.mtype = "counter"
  <2> DEFINE n == scan.n - 1
  <2>1. n \in 1..Len(All) /\ m = Measured(n)
    BY <1>c
  <2> HIDE DEF n, m
  <2>2. /\ Measured(n) \in Scanned
        /\ Measured(n).mtype = "counter" => Measured(n).delta = Counted(Scan(scan.k))
        /\ Measured(n).mtype = All[n].mtype
    BY <1>c, <2>1, MeasuredIn
  <2> QED BY <2>1, <2>2 DEF n, PollCount
<1>e. /\ \A q \in Callers \ {Scanner} : ~Busy(q) /\ call'[q] = call[q]
      /\ Orderly(Scanned)' /\ (Quiet(Scanner) \/ Lands(Scanner))
  <2>1. \A q \in Callers \ {Scanner} : ~Busy(q)
    BY <1>c DEF Steady, Apart, At, Busy
  <2> QED BY <1>a, <1>b, <2>1, StepOrderly, ScannedReplaces DEF Steady, AgentTypes
<1>f. call'[Scanner].op = "upsert" /\ call'[Scanner].m = m
  BY <1>a, <1>b, <1>c, CallKeeps DEF AgentTypes
<1>g. Status(Scanner)' # "idle" /\ (Quiet(Scanner) => Status(Scanner)' = Status(Scanner))
  <2>1. CASE Quiet(Scanner)
    <3>1. Asked(Scanner)'.st = Asked(Scanner).st
      BY <2>1 DEF Quiet
    <3>2. Status(Scanner)' = Status(Scanner)
      BY <3>1 DEF Asked
    <3> QED BY <1>c, <3>2
  <2>2. CASE Lands(Scanner) /\ ~Quiet(Scanner)
    BY <2>2 DEF Lands
  <2> QED BY <1>e, <2>1, <2>2
<1>h. ~At(Scanner, "idle")'
  <2>1. At(Scanner, "idle")' => Status(Scanner)' = "idle"
    BY DEF Status, At
  <2> HIDE DEF Status
  <2> QED BY <1>g, <2>1
\* What is held afterwards.
<1>i. \/ Held' = Held /\ Status(Scanner)' = Status(Scanner)
      \/ Held' = Besides(m) \cup {m} /\ Status(Scanner)' = "done"
  <2>1. CASE Quiet(Scanner)
    BY <1>g, <2>1 DEF Quiet
  <2>2. CASE Lands(Scanner)
    <3>1. \/ Held' = Held \cup {m} /\ \A x \in Held : ~SameKey(x, m)
          \/ \E old \in Held : /\ SameKey(old, m)
                               /\ Held' = Besides(m) \cup {Overwrite(old, m)}
      BY <1>c, <2>2 DEF Lands
    <3>2. \A old \in Held : SameKey(old, m) => Overwrite(old, m) = m
      BY <1>d, HeldScanned, ScannedReplaces DEF Steady, Replaces
    <3>3. Held' = Besides(m) \cup {m}
      BY <3>1, <3>2 DEF Besides
    <3>4. Status(Scanner)' = "done"
      BY <2>2 DEF Lands
    <3> QED BY <3>3, <3>4
  <2> QED BY <1>e, <2>1, <2>2
<1>1. Apart'
  <2>1. Measured(scan.n - 1)' = Measured(scan.n - 1)
    BY <1>a DEF Measured
  <2>2. \A q \in Callers \ {Scanner} : At(q, "idle")' <=> At(q, "idle")
    BY <1>e DEF At
  <2>3. scan'.pc = "scan" /\ scan'.n # 1 /\ rep'.pc = "idle"
    BY <1>a, <1>c
  <2> HIDE DEF Measured, m
  <2> QED BY <1>b, <1>c, <1>f, <1>h, <2>1, <2>2, <2>3 DEF Steady, Apart
<1> HIDE DEF m
<1>2. Tallied'
  <2>1. \A x \in Held' : x \in Held \/ x = m
    BY <1>i DEF Besides
  <2>2. m.mtype = "counter" => \E k \in 1..scan.k : m.delta = Counted(Scan(k))
    <3>1. scan.k \in 1..scan.k
      BY <1>c DEF AgentTypes
    <3> QED BY <1>d, <3>1
  <2>3. m.mtype = "counter" => Uncounted(m)
    <3> SUFFICES ASSUME m.mtype = "counter", NEW t \in Tags
                 PROVE  m.delta[t] + server.count[t] <= 1
      BY DEF Uncounted
    <3>1. m.delta[t] = IF t = Scan(scan.k) THEN 1 ELSE 0
      BY <1>d DEF Counted
    <3>2. server.count[t] \in Nat /\ server.count[t] <= 1
      BY DEF AgentTypes, Server, Delta, Steady, Tallied
    <3>3. ASSUME t = Scan(scan.k), server.count[t] > 0 PROVE FALSE
      <4>1. PICK k \in 1..scan.k : t = Scan(k) /\ k < scan.k
        BY <1>c, <3>3 DEF Steady, Tallied
      <4>2. k = scan.k
        BY <3>3, <4>1 DEF Scan
      <4> QED BY <1>c, <4>1, <4>2
    <3> QED BY <3>1, <3>2, <3>3
  <2>4. \A x : Uncounted(x)' <=> Uncounted(x)
    BY <1>a DEF Uncounted
  <2>5. \A x \in Held' : x.mtype = "counter" =>
            (\E k \in 1..scan.k : x.delta = Counted(Scan(k))) /\ Uncounted(x)
    BY <1>c, <2>1, <2>2, <2>3 DEF Steady, Tallied, ToSend
  <2> HIDE DEF Uncounted
  <2> QED BY <1>a, <1>c, <2>4, <2>5 DEF Steady, Tallied
<1>3. Latest'
  <2> SUFFICES ASSUME failures = 0, scan.k > 0, NEW i \in 1..(scan.n - 1), All[i] = PollCount
               PROVE  (\E x \in Held' : Has(x)) \/ (i = scan.n - 1 /\ Status(Scanner)' = "called")
    <3>1. \A x : Has(x)' <=> Has(x)
      BY <1>a DEF Has
    <3> HIDE DEF Has
    <3> QED BY <1>a, <1>c, <3>1 DEF Latest
  <2>1. (\E x \in Held : Has(x)) \/ (i = scan.n - 1 /\ Status(Scanner) = "called")
    BY <1>c DEF Steady, Latest
  <2>2. CASE Held' = Held /\ Status(Scanner)' = Status(Scanner)
    BY <2>1, <2>2
  <2>3. CASE Held' = Besides(m) \cup {m}
    <3>1. m.mtype = "counter" => Has(m)
      BY <1>d DEF Has
    <3>2. ASSUME NEW x \in Held, Has(x) PROVE \E y \in Held' : Has(y)
      <4>1. CASE SameKey(x, m)
        BY <2>3, <3>1, <3>2, <4>1 DEF Has, SameKey
      <4>2. CASE ~SameKey(x, m)
        BY <2>3, <3>2, <4>2 DEF Besides
      <4> QED BY <4>1, <4>2
    <3>3. i = scan.n - 1 => m \in Held' /\ Has(m)
      BY <1>d, <2>3, <3>1
    <3> QED BY <2>1, <3>2, <3>3
  <2> QED BY <1>i, <2>2, <2>3
<1> QED BY <1>e, <1>1, <1>2, <1>3 DEF Steady

\* A report under way has the store to itself, and can send what it finds there.
LEMMA Sending ==
    ASSUME AgentTypes, Steady, rep.pc = "send"
    PROVE  /\ scan.pc = "idle" /\ Free(Scanner) /\ Free(Reporter)
           /\ hdr.len \in Nat /\ rep.i \in 1..(hdr.len + 1) /\ rep.at = hdr
           /\ MoreElements <=> rep.i <= hdr.len
           /\ Held = {Slot(i) : i \in 1..hdr.len}
           /\ \A i \in 1..hdr.len : Slot(i) \in Scanned
           /\ \A i, j \in 1..hdr.len : SameKey(Slot(i), Slot(j)) => i = j
           /\ MoreElements => /\ Element = Slot(rep.i) /\ Element \in Held
                              /\ Element \in Scanned /\ Sendable(Element)
<1>1. scan.pc = "idle" /\ Free(Scanner) /\ Free(Reporter)
  <2>1. scan.pc = "idle"
    BY DEF AgentTypes, Steady, Apart
  <2> QED BY <2>1 DEF Steady, Apart, Free
<1>2. /\ hdr.len \in Nat /\ hdr.len <= Len(heap[hdr.ptr])
      /\ Held = {Slot(i) : i \in 1..hdr.len}
      /\ \A i \in 1..hdr.len : Slot(i) \in Scanned
      /\ \A i, j \in 1..hdr.len : SameKey(Slot(i), Slot(j)) => i = j
  BY <1>1, HeldSlots DEF Steady
<1>3. rep.i \in 1..(hdr.len + 1) /\ rep.at = hdr
  BY DEF Steady, Apart
<1>4. MoreElements <=> rep.i <= hdr.len
  BY <1>3 DEF MoreElements
<1>5. ASSUME MoreElements
      PROVE  Element = Slot(rep.i) /\ Element \in Held /\ Element \in Scanned /\ Sendable(Element)
  <2>1. rep.i \in 1..hdr.len
    BY <1>2, <1>3, <1>4, <1>5
  <2>2. rep.i \in DOMAIN heap[hdr.ptr]
    <3>1. heap[hdr.ptr] \in Seq(Metric)
      BY DEF AgentTypes, StoreIn
    <3> QED BY <1>2, <2>1, <3>1
  <2>3. Element = Slot(rep.i)
    BY <1>3, <2>2 DEF Element, CellAt, Slot
  <2>4. Element \in Held /\ Element \in Scanned
    BY <1>2, <2>1, <2>3
  <2>5. Sendable(Element)
    BY <2>4 DEF Sendable, Typed, Scanned, Types
  <2> QED BY <2>3, <2>4, <2>5
<1> QED BY <1>1, <1>2, <1>3, <1>4, <1>5

\* The tag of a scan is one of those there are.
LEMMA ScanTagged == \A k \in 1..MaxScans : Scan(k) \in Tags
<1>1. PICK i \in 1..Len(Runtime) : All[i] = PollCount
  BY AllTyped
<1>2. i \in 1..Len(All)
  <2>1. Len(Workload) \in Nat /\ Len(Runtime) \in Nat
    BY AgentAssumption
  <2> QED BY <2>1, AllTyped
<1> QED BY <1>1, <1>2, AgentAssumption DEF Scan

\* Counters to which what x counts has been added.
Sums(cnt, x) ==
    \A t \in Tags : cnt[t] = server.count[t] + (IF x.mtype = "counter" THEN x.delta[t] ELSE 0)
Counts(cnt) ==
    \A t \in Tags : cnt[t] <= 1 /\ (cnt[t] > 0 => \E k \in 1..scan.k : t = Scan(k))

\* They count no scan twice if x was still to be sent.
LEMMA SumsCount ==
    ASSUME AgentTypes, Steady, scan.pc = "idle",
           NEW x \in Held, ToSend(x), NEW STATE cnt, Sums(cnt, x)
    PROVE  /\ Counts(cnt)
           /\ scan.k > 0 /\ server.count[Scan(scan.k)] = 1 => cnt[Scan(scan.k)] = 1
           /\ scan.k > 0 /\ Has(x) => cnt[Scan(scan.k)] = 1
<1>a. \A t \in Tags : server.count[t] \in Nat /\ server.count[t] <= 1
  BY DEF AgentTypes, Server, Delta, Steady, Tallied
<1>b. x \in Scanned /\ (x.mtype = "counter" => x.delta \in Delta)
  BY HeldScanned, OneCounter DEF Steady
<1>1. ASSUME NEW t \in Tags
      PROVE  /\ cnt[t] \in Nat /\ cnt[t] <= 1 /\ cnt[t] >= server.count[t]
             /\ cnt[t] > 0 => \E k \in 1..scan.k : t = Scan(k)
  <2>1. server.count[t] > 0 => \E k \in 1..scan.k : t = Scan(k)
    BY DEF Steady, Tallied
  <2>2. CASE x.mtype = "counter"
    <3>1. x.delta[t] + server.count[t] <= 1 /\ x.delta[t] \in Nat
      BY <1>b, <2>2 DEF Steady, Tallied, Uncounted, Delta
    <3>2. PICK k \in 1..scan.k : x.delta = Counted(Scan(k))
      BY <2>2 DEF Steady, Tallied
    <3>3. x.delta[t] > 0 => t = Scan(k)
      BY <3>2 DEF Counted
    <3> QED BY <1>a, <2>1, <2>2, <3>1, <3>3 DEF Sums
  <2>3. CASE x.mtype # "counter"
    BY <1>a, <2>1, <2>3 DEF Sums
  <2> QED BY <2>2, <2>3
<1>2. ASSUME scan.k > 0 PROVE Scan(scan.k) \in Tags
  BY <1>2, ScanTagged DEF AgentTypes
<1>3. ASSUME scan.k > 0, Has(x) PROVE cnt[Scan(scan.k)] = 1
  <2>1. x.delta[Scan(scan.k)] = 1
    BY <1>2, <1>3 DEF Has, Counted
  <2>2. cnt[Scan(scan.k)] = server.count[Scan(scan.k)] + 1
    BY <1>2, <1>3, <2>1 DEF Sums, Has
  <2> QED BY <1>a, <1>1, <1>2, <1>3, <2>2
<1>4. ASSUME scan.k > 0, server.count[Scan(scan.k)] = 1 PROVE cnt[Scan(scan.k)] = 1
  BY <1>1, <1>2, <1>4
<1> QED BY <1>1, <1>3, <1>4 DEF Counts

LEMMA ReportTickSteady ==
    ASSUME AgentTypes, Steady, ReportTick, scan.pc = "idle" PROVE Steady'
<1>a. /\ rep.pc = "idle" /\ UNCHANGED <<heap, hdr, call, scan, server, failures>>
      /\ rep'.pc = "send" /\ rep'.at = hdr /\ rep'.i = 1 /\ rep'.batch = <<>> /\ rep'.by = rep.by
  BY DEF ReportTick, AgentTypes
<1>b. /\ Held' = Held /\ Orderly(Scanned)'
      /\ \A p : \A step : At(p, step)' <=> At(p, step)
  BY <1>a, StoreSame DEF Steady
<1>c. Held = {Slot(i) : i \in 1..hdr.len} /\ hdr.len \in Nat
  BY <1>a, WhoIsFree, HeldSlots DEF Steady
<1>1. Apart'
  <2>1. 1 \in 1..(hdr.len + 1)
    BY <1>c
  <2>2. Len(rep'.batch) = rep'.i - 1 /\ 1..(rep'.i - 1) = {}
    BY <1>a
  <2> QED BY <1>a, <1>b, <2>1, <2>2 DEF Steady, Apart
<1>2. Tallied'
  <2>1. \A x : Uncounted(x)' <=> Uncounted(x)
    BY <1>a DEF Uncounted
  <2>2. \A x \in Held : x.mtype = "counter" => Uncounted(x)
    BY <1>a DEF Steady, Tallied, ToSend
  <2> HIDE DEF Uncounted
  <2> QED BY <1>a, <1>b, <2>1, <2>2 DEF Steady, Tallied
<1>3. Latest'
  <2>1. \A x : Has(x)' <=> Has(x)
    BY <1>a DEF Has
  <2>2. \A x \in Held : ToSend(x)'
    BY <1>a, <1>c DEF ToSend, Slot
  <2> HIDE DEF Has, ToSend
  <2> QED BY <1>a, <1>b, <2>1, <2>2 DEF Steady, Latest
<1> QED BY <1>b, <1>1, <1>2, <1>3 DEF Steady

LEMMA CollectSteady ==
    ASSUME AgentTypes, Steady, Collect PROVE Steady'
<1>a. /\ rep.pc = "send" /\ Batched /\ MoreElements
      /\ UNCHANGED <<heap, hdr, call, scan, server, failures>>
      /\ rep'.pc = "send" /\ rep'.at = rep.at /\ rep'.i = rep.i + 1
      /\ rep'.batch = Append(rep.batch, Element) /\ rep'.by = rep.by
  BY DEF Collect, AgentTypes
<1>b. /\ Held' = Held /\ Orderly(Scanned)'
      /\ \A p : \A step : At(p, step)' <=> At(p, step)
      /\ \A i : Slot(i)' = Slot(i)
  BY <1>a, StoreSame DEF Steady
<1>c. /\ scan.pc = "idle" /\ hdr.len \in Nat /\ rep.i \in 1..hdr.len /\ rep.at = hdr
      /\ Element = Slot(rep.i)
  BY <1>a, Sending
<1>1. Apart'
  <2>1. rep.batch \in Seq(Whole) /\ Len(rep.batch) = rep.i - 1
        /\ \A j \in 1..(rep.i - 1) : rep.batch[j] = Slot(j)
    BY <1>a DEF AgentTypes, Steady, Apart
  <2>2. Len(rep'.batch) = rep.i
    BY <1>a, <1>c, <2>1
  <2>3. \A j \in 1..rep.i : rep'.batch[j] = Slot(j)
    BY <1>a, <1>c, <2>1
  <2>4. rep'.i - 1 = rep.i /\ rep'.i \in 1..(hdr.len + 1)
    BY <1>a, <1>c
  <2> HIDE DEF Slot
  <2> QED BY <1>a, <1>b, <1>c, <2>2, <2>3, <2>4 DEF Steady, Apart
<1>2. \A x : (ToSend(x)' <=> ToSend(x)) /\ (Uncounted(x)' <=> Uncounted(x)) /\ (Has(x)' <=> Has(x))
  BY <1>a DEF ToSend, Uncounted, Has, Batched
<1> HIDE DEF ToSend, Uncounted, Has
<1>3. Tallied'
  BY <1>a, <1>b, <1>2 DEF Steady, Tallied
<1>4. Latest'
  BY <1>a, <1>b, <1>c, <1>2 DEF Steady, Latest
<1> QED BY <1>b, <1>1, <1>3, <1>4 DEF Steady

\* A report that ends, with the server's counters as they are or added to.
LEMMA EndsSteady ==
    ASSUME AgentTypes, Steady, rep.pc = "send", rep' = [rep EXCEPT !.pc = "reset"],
           UNCHANGED <<heap, hdr, call, scan>>, Counts(server'.count),
           failures' = 0 /\ scan.k > 0 => server'.count[Scan(scan.k)] = 1
    PROVE  Steady'
<1>a. rep'.pc = "reset" /\ scan.pc = "idle"
  BY Sending DEF AgentTypes
<1>b. /\ Held' = Held /\ Orderly(Scanned)'
      /\ \A p : \A step : At(p, step)' <=> At(p, step)
  BY StoreSame DEF Steady
<1>1. Apart'
  BY <1>a, <1>b DEF Steady, Apart
<1>2. Tallied'
  BY <1>a, <1>b DEF Steady, Tallied, ToSend, Counts
<1>3. Latest'
  BY <1>a DEF Latest
<1> QED BY <1>b, <1>1, <1>2, <1>3 DEF Steady

\* A failed request leaves the counters as they are, or the server has the report.
LEMMA FailsSteady ==
    ASSUME AgentTypes, Steady, rep.pc = "send", UNCHANGED <<heap, hdr, call, scan>>,
           NEW STATE applied, Counts(applied.count), Fails(applied)
    PROVE  Steady'
<1>1. rep' = [rep EXCEPT !.pc = "reset"] /\ server' \in {server, applied} /\ failures' # 0
  BY DEF Fails, FailsTo, AgentTypes
<1>2. Counts(server.count)
  BY Sending DEF Steady, Tallied, Counts
<1>3. Counts(server'.count)
  BY <1>1, <1>2
<1> QED BY <1>1, <1>3, EndsSteady

LEMMA SendOneSteady ==
    ASSUME AgentTypes, Steady, SendOne PROVE Steady'
<1> DEFINE applied == Received(server, Element)
           cnt == applied.count
<1>a. /\ rep.pc = "send" /\ ~Batched /\ MoreElements /\ UNCHANGED <<heap, hdr, call, scan>>
      /\ \/ server' = applied /\ rep' = [rep EXCEPT !.i = @ + 1] /\ failures' = failures
         \/ Fails(applied)
  BY DEF SendOne
<1>b. /\ Held' = Held /\ Orderly(Scanned)'
      /\ \A p : \A step : At(p, step)' <=> At(p, step)
      /\ \A i : Slot(i)' = Slot(i)
  BY <1>a, StoreSame DEF Steady
<1>c. /\ scan.pc = "idle" /\ hdr.len \in Nat /\ rep.i \in 1..hdr.len /\ rep.at = hdr
      /\ Element = Slot(rep.i) /\ Element \in Held /\ Element \in Scanned
      /\ Held = {Slot(i) : i \in 1..hdr.len}
      /\ \A i \in 1..hdr.len : Slot(i) \in Scanned
      /\ \A i, j \in 1..hdr.len : SameKey(Slot(i), Slot(j)) => i = j
  BY <1>a, Sending
<1>d. /\ \A t \in Tags : cnt[t] = IF Element.mtype = "counter"
                              THEN server.count[t] + Element.delta[t] ELSE server.count[t]
      /\ \A t \in Tags : server.count[t] \in Nat
  BY ElementIn, ReceivedIn DEF AgentTypes, Server, Delta
<1>e. Sums(cnt, Element) /\ ToSend(Element)
  <2>1. rep.i \in rep.i..hdr.len
    BY <1>c
  <2> HIDE DEF cnt
  <2> QED BY <1>a, <1>c, <1>d, <2>1 DEF Sums, ToSend
<1>f. /\ Counts(cnt)
      /\ scan.k > 0 /\ server.count[Scan(scan.k)] = 1 => cnt[Scan(scan.k)] = 1
      /\ scan.k > 0 /\ Has(Element) => cnt[Scan(scan.k)] = 1
  <2> HIDE DEF cnt
  <2> QED BY <1>c, <1>e, SumsCount
<1>1. CASE Fails(applied)
  <2> HIDE DEF applied
  <2> QED BY <1>a, <1>f, <1>1, FailsSteady
<1>2. CASE server' = applied /\ rep' = [rep EXCEPT !.i = @ + 1] /\ failures' = failures
  <2>a. /\ rep'.pc = "send" /\ rep'.i = rep.i + 1 /\ rep'.at = rep.at /\ rep'.by = rep.by
        /\ server'.count = cnt
    <3>1. server'.count = cnt
      BY <1>2
    <3> HIDE DEF applied
    <3>2. rep'.pc = rep.pc /\ rep'.i = rep.i + 1 /\ rep'.at = rep.at /\ rep'.by = rep.by
      BY <1>2 DEF AgentTypes
    <3> QED BY <1>a, <3>1, <3>2
  <2>1. Apart'
    <3>1. rep'.i \in 1..(hdr.len + 1)
      BY <1>c, <2>a
    <3> QED BY <1>a, <1>b, <1>c, <2>a, <3>1 DEF Steady, Apart, Batched
  <2> HIDE DEF cnt
\* No other counter is left to be sent if this was one.
  <2>2. ASSUME NEW x \in Held, ToSend(x)'
        PROVE  \E j \in (rep.i + 1)..hdr.len : x = Slot(j) /\ j # rep.i /\ ToSend(x)
    <3>1. PICK j \in (rep.i + 1)..hdr.len : x = Slot(j)
      BY <1>a, <1>b, <2>a, <2>2 DEF ToSend, Batched
    <3>2. j \in rep.i..hdr.len /\ j # rep.i
      BY <1>c
    <3> QED BY <1>a, <3>1, <3>2 DEF ToSend
  <2>3. Tallied'
    <3>1. ASSUME NEW x \in Held, x.mtype = "counter", ToSend(x)' PROVE Uncounted(x)'
      <4>1. PICK j \in (rep.i + 1)..hdr.len : x = Slot(j) /\ j # rep.i /\ ToSend(x)
        BY <2>2, <3>1
      <4>2. Element.mtype # "counter"
        <5>1. j \in 1..hdr.len /\ x \in Scanned
          BY <1>c, <4>1
        <5>2. Element.mtype = "counter" => SameKey(Element, x)
          BY <1>c, <3>1, <5>1, OneCounter
        <5> QED BY <1>c, <4>1, <5>1, <5>2
      <4>3. Uncounted(x)
        BY <3>1, <4>1 DEF Steady, Tallied
      <4> QED BY <1>d, <2>a, <4>2, <4>3 DEF Uncounted
    <3> HIDE DEF Uncounted, ToSend
    <3> QED BY <1>a, <1>b, <1>c, <1>f, <2>a, <3>1 DEF Steady, Tallied, Counts
  <2>4. Latest'
    <3>1. ASSUME failures = 0, scan.k > 0
          PROVE  cnt[Scan(scan.k)] = 1 \/ \E x \in Held : Has(x) /\ ToSend(x)'
      <4>1. CASE server.count[Scan(scan.k)] = 1
        BY <1>f, <3>1, <4>1
      <4>2. CASE \E x \in Held : Has(x) /\ ToSend(x)
        <5>1. PICK x \in Held : Has(x) /\ ToSend(x)
          BY <4>2
        <5>2. PICK j \in rep.i..hdr.len : x = Slot(j)
          BY <1>a, <5>1 DEF ToSend
        <5>3. CASE j = rep.i
          BY <1>c, <1>f, <3>1, <5>1, <5>2, <5>3
        <5>4. CASE j # rep.i
          <6>1. j \in (rep.i + 1)..hdr.len
            BY <1>c, <5>4
          <6>2. ToSend(x)'
            BY <1>a, <1>b, <2>a, <5>2, <6>1 DEF ToSend
          <6> QED BY <5>1, <6>2
        <5> QED BY <5>3, <5>4
      <4> QED BY <1>a, <1>c, <3>1, <4>1, <4>2 DEF Steady, Latest
    <3>2. \A x : Has(x)' <=> Has(x)
      BY <1>a DEF Has
    <3> HIDE DEF Has, ToSend
    <3> QED BY <1>a, <1>b, <1>c, <1>2, <2>a, <3>1, <3>2 DEF Latest
  <2> QED BY <1>b, <2>1, <2>3, <2>4 DEF Steady
<1> QED BY <1>a, <1>1, <1>2

\* A batch adds what its one counter counts, if it has one.
LEMMA BatchSums ==
    ASSUME AgentTypes, Steady, rep.pc = "send", Batched, ~MoreElements
    PROVE  \/ \E x \in Held : Sums(AllReceived(rep.batch).count, x) /\ \A y \in Held : Has(y) => Has(x)
           \/ Held = {} /\ AllReceived(rep.batch) = server
<1> DEFINE n == Len(rep.batch)
<1>a. /\ scan.pc = "idle" /\ hdr.len \in Nat
      /\ Held = {Slot(i) : i \in 1..hdr.len}
      /\ \A i \in 1..hdr.len : Slot(i) \in Scanned
      /\ \A i, j \in 1..hdr.len : SameKey(Slot(i), Slot(j)) => i = j
      /\ rep.i \in 1..(hdr.len + 1) /\ ~(rep.i <= hdr.len)
  BY Sending
<1>b. n = hdr.len /\ \A j \in 1..hdr.len : rep.batch[j] = Slot(j)
  <2>1. n = rep.i - 1 /\ \A j \in 1..(rep.i - 1) : rep.batch[j] = Slot(j)
    BY DEF Steady, Apart
  <2>2. rep.i - 1 = hdr.len
    BY <1>a
  <2> QED BY <2>1, <2>2
<1>c. rep.batch \in Seq(Whole) /\ n \in Nat /\ server \in Server
  BY DEF AgentTypes
<1> HIDE DEF n
<1>d. \A j \in 1..n : rep.batch[j] \in Whole
  BY <1>c DEF n
<1>1. PICK h : /\ AllReceived(rep.batch) = h[n] /\ h[0] = server
               /\ \A i \in 1..n : h[i] = Received(h[i - 1], rep.batch[i])
  BY <1>c, ReceivedInTurn DEF n
\* c is the one counter among the slots, or any slot if there is none.
<1>2. CASE n = 0
  BY <1>a, <1>b, <1>1, <1>2
<1>3. CASE n # 0
  <2>1. PICK c \in 1..n : \A j \in 1..n : Slot(j).mtype = "counter" => j = c
    <3>1. CASE \E c \in 1..n : Slot(c).mtype = "counter"
      <4>1. PICK c \in 1..n : Slot(c).mtype = "counter"
        BY <3>1
      <4>2. ASSUME NEW j \in 1..n, Slot(j).mtype = "counter" PROVE j = c
        <5>1. SameKey(Slot(j), Slot(c))
          BY <1>a, <1>b, <4>1, <4>2, OneCounter
        <5> QED BY <1>a, <1>b, <5>1
      <4> QED BY <4>2
    <3>2. CASE \A c \in 1..n : Slot(c).mtype # "counter"
      <4>1. 1 \in 1..n
        BY <1>3, <1>c
      <4> QED BY <3>2, <4>1
    <3> QED BY <3>1, <3>2
  <2> DEFINE Part(i, t) == IF c <= i /\ Slot(c).mtype = "counter" THEN Slot(c).delta[t] ELSE 0
             T == {i \in 0..n : ~(h[i] \in Server /\ \A t \in Tags : h[i].count[t] = server.count[t] + Part(i, t))}
  <2>a. \A t \in Tags : server.count[t] \in Nat
    BY <1>c DEF Server, Delta
  <2>2. T = {}
    <3> SUFFICES ASSUME T # {} PROVE FALSE
      OBVIOUS
    <3>1. PICK x \in T : \A y \in T : x <= y
      <4>1. T \in SUBSET Nat
        BY <1>c
      <4> HIDE DEF T
      <4> QED BY <4>1, LeastOf
    <3>2. x \in 0..n /\ ~(h[x] \in Server /\ \A t \in Tags : h[x].count[t] = server.count[t] + Part(x, t))
      BY <3>1
    <3>3. x # 0
      <4>1. \A t \in Tags : Part(0, t) = 0
        OBVIOUS
      <4> HIDE DEF Part
      <4> QED BY <1>1, <1>c, <2>a, <3>2, <4>1
    <3>4. x \in 1..n /\ x - 1 \in 0..n /\ x - 1 \notin T
      BY <1>c, <3>1, <3>2, <3>3
    <3>5. h[x - 1] \in Server /\ \A t \in Tags : h[x - 1].count[t] = server.count[t] + Part(x - 1, t)
      BY <3>4
    <3>6. rep.batch[x] \in Whole /\ rep.batch[x] = Slot(x) /\ h[x] = Received(h[x - 1], rep.batch[x])
      BY <1>1, <1>b, <1>d, <3>4
    <3> HIDE DEF T, Part
    <3>7. /\ h[x] \in Server
          /\ \A t \in Tags : h[x].count[t] =
                IF Slot(x).mtype = "counter" THEN h[x - 1].count[t] + Slot(x).delta[t] ELSE h[x - 1].count[t]
      BY <3>5, <3>6, ReceivedIn
    <3>8. ASSUME NEW t \in Tags PROVE h[x].count[t] = server.count[t] + Part(x, t)
      <4>1. CASE Slot(x).mtype = "counter"
        <5>1. x = c /\ Part(x - 1, t) = 0 /\ Part(x, t) = Slot(x).delta[t]
          BY <2>1, <3>4, <4>1 DEF Part
        <5> QED BY <2>a, <3>5, <3>7, <4>1, <5>1
      <4>2. CASE Slot(x).mtype # "counter"
        <5>1. Part(x - 1, t) = Part(x, t)
          <6>1. x = c => Slot(c).mtype # "counter"
            BY <4>2
          <6>2. x # c => (c <= x <=> c <= x - 1)
            BY <3>4
          <6> QED BY <6>1, <6>2 DEF Part
        <5> QED BY <3>5, <3>7, <4>2, <5>1
      <4> QED BY <4>1, <4>2
    <3> QED BY <3>2, <3>7, <3>8
  <2>3. h[n] \in Server /\ \A t \in Tags : h[n].count[t] = server.count[t] + Part(n, t)
    <3>1. n \in 0..n /\ n \notin T
      BY <1>c, <2>2
    <3> QED BY <3>1
  <2>4. Sums(AllReceived(rep.batch).count, Slot(c))
    BY <1>1, <2>1, <2>3 DEF Sums
  <2>5. Slot(c) \in Held
    BY <1>a, <1>b
  <2>6. \A y \in Held : Has(y) => y = Slot(c)
    BY <1>a, <1>b, <2>1 DEF Has
  <2> QED BY <2>4, <2>5, <2>6
<1> QED BY <1>2, <1>3

LEMMA SendBatchSteady ==
    ASSUME AgentTypes, Steady, SendBatch PROVE Steady'
<1> DEFINE applied == AllReceived(rep.batch)
           cnt == applied.count
<1>a. /\ rep.pc = "send" /\ Batched /\ ~MoreElements /\ UNCHANGED <<heap, hdr, call, scan>>
      /\ \/ server' = applied /\ rep' = [rep EXCEPT !.pc = "reset"] /\ failures' = failures
         \/ Fails(applied)
  BY DEF SendBatch
<1>b. scan.pc = "idle"
  BY <1>a, Sending
<1>1. /\ Counts(cnt)
      /\ failures = 0 /\ scan.k > 0 => cnt[Scan(scan.k)] = 1
  <2>1. failures = 0 /\ scan.k > 0 => server.count[Scan(scan.k)] = 1 \/ \E x \in Held : Has(x)
    BY <1>a, <1>b DEF Steady, Latest
  <2>2. CASE Held = {} /\ applied = server
    <3>1. Counts(server.count)
      BY <1>b DEF Steady, Tallied, Counts
    <3> QED BY <2>1, <2>2, <3>1
  <2>3. CASE \E x \in Held : Sums(cnt, x) /\ \A y \in Held : Has(y) => Has(x)
    <3>1. PICK x \in Held : Sums(cnt, x) /\ \A y \in Held : Has(y) => Has(x)
      BY <2>3
    <3>2. ToSend(x)
      BY <1>a DEF ToSend
    <3> HIDE DEF cnt
    <3>3. /\ Counts(cnt)
          /\ scan.k > 0 /\ server.count[Scan(scan.k)] = 1 => cnt[Scan(scan.k)] = 1
          /\ scan.k > 0 /\ Has(x) => cnt[Scan(scan.k)] = 1
      BY <1>b, <3>1, <3>2, SumsCount
    <3> QED BY <2>1, <3>1, <3>3
  <2> QED BY <1>a, <2>2, <2>3, BatchSums
<1>2. CASE Fails(applied)
  <2> HIDE DEF applied
  <2> QED BY <1>a, <1>1, <1>2, FailsSteady
<1>3. CASE server' = applied /\ rep' = [rep EXCEPT !.pc = "reset"] /\ failures' = failures
  <2> HIDE DEF applied
  <2> QED BY <1>a, <1>1, <1>3, EndsSteady
<1> QED BY <1>a, <1>2, <1>3

LEMMA AllSentSteady ==
    ASSUME AgentTypes, Steady, AllSent PROVE Steady'
<1>a. /\ rep.pc = "send" /\ ~MoreElements /\ ~Batched /\ rep' = [rep EXCEPT !.pc = "reset"]
      /\ UNCHANGED <<heap, hdr, call, scan, server, failures>>
  BY DEF AllSent
<1>b. scan.pc = "idle" /\ hdr.len \in Nat /\ rep.i \in 1..(hdr.len + 1) /\ ~(rep.i <= hdr.len)
  BY <1>a, Sending
<1>1. Counts(server'.count)
  BY <1>a, <1>b DEF Steady, Tallied, Counts
<1>2. \A x : ~ToSend(x)
  BY <1>a, <1>b DEF ToSend
<1>3. failures = 0 /\ scan.k > 0 => server.count[Scan(scan.k)] = 1
  BY <1>a, <1>b, <1>2 DEF Steady, Latest
<1> QED BY <1>a, <1>1, <1>3, EndsSteady

LEMMA ResetSteady ==
    ASSUME AgentTypes, Steady, Reset PROVE Steady'
<1> DEFINE c == NewCall("delete", Deleted)
<1>b. Scanner \in Callers /\ Reporter \in Callers /\ Scanner # Reporter
  BY AgentAssumption
<1>a. /\ rep.pc = "reset" /\ rep'.pc = "delete" /\ scan.pc = "idle" /\ Free(Scanner) /\ Free(Reporter)
      /\ call' = [call EXCEPT ![Reporter] = c] /\ UNCHANGED <<heap, hdr, scan, server, failures>>
  BY DEF Reset, Deleted, AgentTypes, Steady, Apart, Free
<1>d. Orderly(Scanned)' /\ Held' = Held /\ call'[Reporter] = c
      /\ \A q \in Callers \ {Reporter} : call'[q] = call[q]
  <2>1. \A q \in Callers : ~Busy(q)
    BY <1>a, HeldSlots DEF Steady
  <2>2. c = NewCall("delete", Deleted)
    OBVIOUS
  <2> HIDE DEF c
  <2>3. \E op, x : c = NewCall(op, x) /\ (op = "upsert" => x \in Scanned)
    BY <2>2
  <2>4. StoreIn(Metric, heap, hdr, call) /\ Orderly(Scanned)
    BY DEF Steady, AgentTypes
  <2>5. call' = [call EXCEPT ![Reporter] = c] /\ UNCHANGED <<heap, hdr>>
    BY <1>a
  <2> HIDE DEF Scanned, Orderly, Held
  <2> QED BY <1>b, <2>1, <2>3, <2>4, <2>5, StartOrderly
<1>f. c.pc = "find" /\ c.op = "delete" /\ c.m = Deleted
  BY DEF NewCall
<1> HIDE DEF c
<1>1. Apart'
  BY <1>a, <1>b, <1>d, <1>f DEF Steady, Apart, At
<1>2. Tallied'
  <2>1. Status(Reporter)' = "called"
    BY <1>d, <1>f DEF Status, At
  <2> QED BY <1>a, <1>d, <2>1 DEF Steady, Tallied, ToSend
<1>3. Latest'
  BY <1>a DEF Steady, Latest
<1> QED BY <1>d, <1>1, <1>2, <1>3 DEF Steady

\* The report's call takes a step: it takes the one counter away.
LEMMA ReporterCallSteady ==
    ASSUME AgentTypes, Steady, StoreCall(Reporter) PROVE Steady'
<1>b. Scanner \in Callers /\ Reporter \in Callers /\ Scanner # Reporter
  BY AgentAssumption
<1>a. StoreStep(Reporter) /\ UNCHANGED <<scan, rep, server, failures>>
  BY DEF StoreCall
<1>c. /\ rep.pc = "delete" /\ scan.pc = "idle"
      /\ call[Reporter].op = "delete" /\ call[Reporter].m = Deleted
      /\ ~At(Reporter, "idle") /\ Status(Reporter) # "idle"
  <2>1. ~At(Reporter, "idle") /\ Status(Reporter) # "idle"
    BY <1>a DEF StoreStep, FindNext, FindHit, FindMiss, Fetch, Update, LoadRoom, LoadFull,
                Extend, Swap, Fill, Shift, Shrink, At, Status
  <2> QED BY <2>1 DEF Steady, Apart, AgentTypes
<1>e. /\ \A q \in Callers \ {Reporter} : ~Busy(q) /\ call'[q] = call[q]
      /\ Orderly(Scanned)' /\ (Quiet(Reporter) \/ Lands(Reporter))
  <2>1. \A q \in Callers \ {Reporter} : ~Busy(q)
    BY <1>c DEF Steady, Apart, At, Busy
  <2> QED BY <1>a, <1>b, <2>1, StepOrderly, ScannedReplaces DEF Steady, AgentTypes
<1>f. call'[Reporter].op = "delete" /\ call'[Reporter].m = Deleted
  BY <1>a, <1>b, <1>c, CallKeeps DEF AgentTypes
<1>i. /\ Status(Reporter)' # "idle"
      /\ \/ Held' = Held /\ Status(Reporter)' = Status(Reporter)
         \/ Held' = Besides(Deleted)
  <2>1. CASE Quiet(Reporter)
    <3>1. Asked(Reporter)'.st = Asked(Reporter).st /\ Held' = Held
      BY <2>1 DEF Quiet
    <3>2. Status(Reporter)' = Status(Reporter)
      BY <3>1 DEF Asked
    <3> QED BY <1>c, <3>1, <3>2
  <2>2. CASE Lands(Reporter)
    BY <1>c, <2>2 DEF Lands
  <2> QED BY <1>e, <2>1, <2>2
<1>h. ~At(Reporter, "idle")'
  <2>1. At(Reporter, "idle")' => Status(Reporter)' = "idle"
    BY DEF Status, At
  <2> HIDE DEF Status
  <2> QED BY <1>i, <2>1
<1>1. Apart'
  <2>1. \A q \in Callers \ {Reporter} : At(q, "idle")' <=> At(q, "idle")
    BY <1>e DEF At
  <2> QED BY <1>a, <1>b, <1>c, <1>f, <1>h, <2>1 DEF Steady, Apart
<1>2. Tallied'
  <2>1. \A x \in Held' : x \in Held /\ (x.mtype = "counter" => Status(Reporter)' = Status(Reporter))
    <3>1. CASE Held' = Besides(Deleted)
      <4>1. \A x \in Held : x.mtype = "counter" => SameKey(x, Deleted)
        BY HeldScanned, OneCounter DEF Steady
      <4> QED BY <3>1, <4>1 DEF Besides
    <3> QED BY <1>i, <3>1
  <2> QED BY <1>a, <1>c, <2>1 DEF Steady, Tallied, ToSend
<1>3. Latest'
  BY <1>a, <1>c DEF Steady, Latest
<1> QED BY <1>e, <1>1, <1>2, <1>3 DEF Steady

LEMMA ReportEndSteady ==
    ASSUME AgentTypes, Steady, ReportEnd PROVE Steady'
<1>b. Scanner \in Callers /\ Reporter \in Callers /\ Scanner # Reporter
  BY AgentAssumption
<1>a. /\ rep.pc = "delete" /\ rep'.pc = "idle" /\ scan.pc = "idle" /\ Free(Scanner)
      /\ At(Reporter, "done") /\ Free(Reporter)
      /\ call' = [call EXCEPT ![Reporter] = NoCall] /\ UNCHANGED <<heap, hdr, scan, server, failures>>
  BY DEF ReportEnd, AgentTypes, Steady, Apart, Free
<1>d. Orderly(Scanned)' /\ Held' = Held /\ call'[Reporter] = NoCall
      /\ \A q \in Callers \ {Reporter} : call'[q] = call[q]
  <2>1. \A q \in Callers : ~Busy(q)
    BY <1>a, HeldSlots DEF Steady
  <2>2. StoreIn(Metric, heap, hdr, call) /\ Orderly(Scanned)
    BY DEF Steady, AgentTypes
  <2> HIDE DEF NoCall
  <2> QED BY <1>a, <1>b, <2>1, <2>2, StartOrderly
<1>1. Apart'
  BY <1>a, <1>b, <1>d DEF Steady, Apart, At, NoCall
<1>2. Tallied'
  <2>1. Status(Reporter) = "done"
    BY <1>a DEF Status, At
  <2>2. \A x \in Held : x.mtype # "counter"
    BY <1>a, <2>1 DEF Steady, Tallied
  <2> QED BY <1>a, <1>d, <2>2 DEF Steady, Tallied
<1>3. Latest'
  BY <1>a DEF Steady, Latest
<1> QED BY <1>d, <1>1, <1>2, <1>3 DEF Steady

LEMMA SteadyStays ==
    ASSUME Steady, UNCHANGED <<heap, hdr, call, scan, rep, server, failures>> PROVE Steady'
<1>1. /\ Held' = Held /\ Orderly(Scanned)'
      /\ \A p : Status(p)' = Status(p) /\ \A step : At(p, step)' <=> At(p, step)
      /\ \A i : Slot(i)' = Slot(i)
  BY StoreSame DEF Steady
<1>2. \A x : (ToSend(x)' <=> ToSend(x)) /\ (Uncounted(x)' <=> Uncounted(x)) /\ (Has(x)' <=> Has(x))
  BY <1>1 DEF ToSend, Uncounted, Has, Batched
<1>3. Measured(scan.n - 1)' = Measured(scan.n - 1)
  BY DEF Measured
<1>4. Apart'
  <2> HIDE DEF Measured
  <2> QED BY <1>1, <1>3 DEF Steady, Apart, Batched
<1> HIDE DEF ToSend, Uncounted, Has, Status
<1>5. Tallied'
  BY <1>1, <1>2 DEF Steady, Tallied
<1>6. Latest'
  BY <1>1, <1>2 DEF Steady, Latest
<1> QED BY <1>1, <1>4, <1>5, <1>6 DEF Steady

\* A task that begins or ends a call invokes the map or returns from it; a step of a
\* call is one of the map's, or none; the other steps do not touch it.
MapStep == (\E p \in Callers : AsMap!Invoke(p) \/ AsMap!Effect(p) \/ AsMap!Return(p))
           \/ UNCHANGED AsMap!vars

LEMMA MapSame == ASSUME UNCHANGED <<heap, hdr, call>> PROVE UNCHANGED AsMap!vars
BY DEF AsMap!vars, Stored, Listed, Visible, CellAt, LastInUse, At, Asked, Status

LEMMA TaskOfMap ==
    ASSUME AgentTypes, Steady, AgentTypes',
           ScanNext \/ ScanEnd \/ Reset \/ ReportEnd
    PROVE  MapStep
<1>a. Scanner \in Callers /\ Reporter \in Callers
  BY AgentAssumption
<1>b. StoreIn(Metric, heap, hdr, call) /\ StoreIn(Metric, heap, hdr, call)' /\ Orderly(Scanned)
  BY DEF AgentTypes, Steady
<1>1. ASSUME NEW p \in Callers, NEW STATE c, call' = [call EXCEPT ![p] = c], UNCHANGED <<heap, hdr>>,
             Free(Scanner), Free(Reporter),
             \/ c = NoCall /\ At(p, "done")
             \/ \E op \in {"get", "upsert", "delete"}, m \in Metric :
                  c = NewCall(op, m) /\ (op = "upsert" => m \in Scanned)
      PROVE  MapStep
  <2>1. \A q \in Callers : ~Busy(q)
    BY <1>1, HeldSlots DEF Steady
  <2> HIDE DEF Scanned, Orderly, NoCall, NewCall
  <2>2. AsMap!Invoke(p) \/ AsMap!Return(p)
    BY <1>b, <1>1, <2>1, ScannedReplaces, StartOfMap
  <2> QED BY <2>2 DEF MapStep
<1>2. CASE ScanNext
  <2> DEFINE m == Measured(scan.n)
             c == NewCall("upsert", m)
  <2>1. /\ call' = [call EXCEPT ![Scanner] = c] /\ UNCHANGED <<heap, hdr>>
        /\ scan.n \in 1..Len(All) /\ scan.pc = "scan" /\ Free(Scanner) /\ Free(Reporter)
    BY <1>2 DEF ScanNext, AgentTypes, Steady, Apart, Free
  <2>2. m \in Scanned
    BY <2>1, MeasuredIn
  <2>3. m \in Metric
    BY <2>2 DEF Scanned
  <2>4. \E op \in {"get", "upsert", "delete"}, x \in Metric :
            c = NewCall(op, x) /\ (op = "upsert" => x \in Scanned)
    <3> HIDE DEF m
    <3> QED BY <2>2, <2>3
  <2> HIDE DEF c
  <2> QED BY <1>a, <1>1, <2>1, <2>4
<1>3. CASE ScanEnd
  <2>1. /\ call' = [call EXCEPT ![Scanner] = NoCall] /\ UNCHANGED <<heap, hdr>>
        /\ Free(Scanner) /\ Free(Reporter) /\ scan.pc = "scan"
        /\ scan.n > Len(All) \/ scan.n = Len(Runtime) + 1
    BY <1>3 DEF ScanEnd, Steady, Apart, Free
  <2>2. scan.n > 1
    <3>1. Len(All) \in Nat /\ Len(Runtime) \in Nat /\ Len(All) >= Len(Runtime) /\ Len(Runtime) > 0
      <4>1. Len(Workload) \in Nat
        BY AgentAssumption
      <4> QED BY <4>1, AllTyped
    <3> QED BY <2>1, <3>1 DEF AgentTypes
  <2>3. At(Scanner, "done")
    BY <2>1, <2>2 DEF Steady, Apart, Free
  <2> HIDE DEF NoCall
  <2> QED BY <1>a, <1>1, <2>1, <2>3
<1>4. CASE Reset
  <2> DEFINE c == NewCall("delete", Deleted)
  <2>1. /\ call' = [call EXCEPT ![Reporter] = c] /\ UNCHANGED <<heap, hdr>>
        /\ Free(Scanner) /\ Free(Reporter)
    BY <1>4 DEF Reset, Deleted, AgentTypes, Steady, Apart, Free
  <2>2. Deleted \in Metric
    BY AllTyped DEF Deleted, Zero, Metric, PollCount, Types
  <2>4. \E op \in {"get", "upsert", "delete"}, x \in Metric :
            c = NewCall(op, x) /\ (op = "upsert" => x \in Scanned)
    <3> HIDE DEF Deleted
    <3> QED BY <2>2
  <2> HIDE DEF c
  <2> QED BY <1>a, <1>1, <2>1, <2>4
<1>5. CASE ReportEnd
  <2>1. /\ call' = [call EXCEPT ![Reporter] = NoCall] /\ UNCHANGED <<heap, hdr>>
        /\ Free(Scanner) /\ Free(Reporter) /\ At(Reporter, "done")
    BY <1>5 DEF ReportEnd, AgentTypes, Steady, Apart, Free
  <2> HIDE DEF NoCall
  <2> QED BY <1>a, <1>1, <2>1
<1> QED BY <1>2, <1>3, <1>4, <1>5

LEMMA CallOfMap ==
    ASSUME AgentTypes, Steady, NEW p \in {Scanner, Reporter}, StoreCall(p)
    PROVE  MapStep
<1>a. Scanner \in Callers /\ Reporter \in Callers /\ Scanner # Reporter
  BY AgentAssumption
<1>1. StoreStep(p) /\ ~At(p, "idle")
  BY DEF StoreCall, StoreStep, FindNext, FindHit, FindMiss, Fetch, Update, LoadRoom, LoadFull,
         Extend, Swap, Fill, Shift, Shrink, At
<1>2. call[p].op # "get" /\ \A q \in Callers \ {p} : ~Busy(q)
  <2>1. CASE p = Scanner
    <3>1. scan.pc = "scan" /\ scan.n > 1 /\ rep.pc = "idle"
      BY <1>1, <2>1 DEF Steady, Apart, AgentTypes
    <3> QED BY <1>a, <2>1, <3>1 DEF Steady, Apart, At, Busy
  <2>2. CASE p = Reporter
    <3>1. rep.pc = "delete" /\ scan.pc = "idle"
      BY <1>1, <2>2 DEF Steady, Apart, AgentTypes
    <3> QED BY <1>a, <2>2, <3>1 DEF Steady, Apart, At, Busy
  <2> QED BY <2>1, <2>2
<1>3. StoreIn(Metric, heap, hdr, call) /\ Orderly(Scanned) /\ p \in Callers
  BY <1>a DEF AgentTypes, Steady
<1> HIDE DEF Scanned, Orderly
<1>4. AsMap!Effect(p) \/ UNCHANGED AsMap!vars
  BY <1>1, <1>2, <1>3, ScannedReplaces, StepOfMap
<1> QED BY <1>3, <1>4 DEF MapStep

LEMMA SteadyNext ==
    ASSUME AgentTypes, AgentTypes', Alone => Steady, Next, Alone'
    PROVE  Alone /\ Steady' /\ MapStep
<1>a. Scanner \in Callers /\ Reporter \in Callers
  BY AgentAssumption
<1>1. CASE ScanTick
  <2>1. Alone /\ rep.pc = "idle" /\ UNCHANGED <<heap, hdr, call>>
    BY <1>1 DEF ScanTick, Alone, AgentTypes
  <2> QED BY <1>1, <2>1, ScanTickSteady, MapSame DEF MapStep
<1>2. CASE ReportTick
  <2>1. Alone /\ scan.pc = "idle" /\ UNCHANGED <<heap, hdr, call>>
    BY <1>2 DEF ReportTick, Alone, AgentTypes
  <2> QED BY <1>2, <2>1, ReportTickSteady, MapSame DEF MapStep
<1>3. CASE ScanNext \/ ScanEnd \/ Reset \/ ReportEnd
  <2>1. Alone
    BY <1>3 DEF ScanNext, ScanEnd, Reset, ReportEnd, Alone
  <2>2. MapStep
    BY <1>3, <2>1, TaskOfMap
  <2> QED BY <1>3, <2>1, <2>2, ScanNextSteady, ScanEndSteady, ResetSteady, ReportEndSteady
<1>4. CASE Collect \/ SendOne \/ SendBatch \/ AllSent
  <2>1. Alone /\ UNCHANGED <<heap, hdr, call>>
    BY <1>4 DEF Collect, SendOne, SendBatch, AllSent, Alone
  <2>2. Steady'
    BY <1>4, <2>1, CollectSteady, SendOneSteady, SendBatchSteady, AllSentSteady
  <2> QED BY <2>1, <2>2, MapSame DEF MapStep
<1>5. CASE Unsendable
  <2>1. Alone /\ rep.pc = "send" /\ MoreElements /\ ~Sendable(Element)
    BY <1>5 DEF Unsendable, Alone
  <2> QED BY <2>1, Sending
<1>6. CASE Panic
  <2>1. Alone /\ UNCHANGED <<heap, hdr, call, scan, rep, server, failures>>
    BY <1>6 DEF Panic, Alone
  <2> QED BY <2>1, SteadyStays, MapSame DEF MapStep
<1>7. CASE StoreCall(Scanner) \/ StoreCall(Reporter)
  <2>1. Alone
    BY <1>7 DEF StoreCall, Alone
  <2> QED BY <1>7, <2>1, ScannerCallSteady, ReporterCallSteady, CallOfMap
<1> QED
  BY <1>1, <1>2, <1>3, <1>4, <1>5, <1>6, <1>7 DEF Next, ScannerStep, ReporterStep

-----------------------------------------------------------------------------
(* The invariant and what follows from it *)

LEMMA AgentInvInit == Init => AgentInv /\ AsMap!Init
<1> SUFFICES ASSUME Init PROVE AgentInv /\ AsMap!Init
  OBVIOUS
<1>1. AgentTypes
  BY TypesInit
<1>a. /\ hdr.len = 0 /\ heap[hdr.ptr] = <<>> /\ \A p \in Callers : call[p].pc = "idle"
      /\ scan.pc = "idle" /\ scan.k = 0 /\ rep.pc = "idle"
  BY DEF Init, StoreInit, NoCall
<1>2. Orderly(Scanned) /\ Held = {}
  BY <1>a, OrderlyInit
<1>3. Apart
  BY <1>a, AgentAssumption DEF Apart, At
<1>4. Tallied
  BY <1>2 DEF Init, Tallied
<1>5. Latest
  BY <1>a DEF Latest
<1>6. AsMap!Init
  <2>1. StoreIn(Metric, heap, hdr, call) /\ \A k : Stored(k) = Nil
    BY <1>1, <1>2, StoredIs DEF AgentTypes, StoredRight
  <2>2. \A p \in Callers : Asked(p) = AsMap!Idle
    BY DEF Init, StoreInit, NoCall, Asked, Status, At, AsMap!Idle
  <2> QED BY <2>1, <2>2 DEF AsMap!Init, AsMap!Keys
<1> QED BY <1>1, <1>2, <1>3, <1>4, <1>5, <1>6 DEF AgentInv, Steady

LEMMA AgentInvNext ==
    AgentInv /\ [Next]_vars => AgentInv' /\ (Alone' => [AsMap!Next]_(AsMap!vars))
<1> SUFFICES ASSUME AgentInv, [Next]_vars
             PROVE  AgentInv' /\ (Alone' => [AsMap!Next]_(AsMap!vars))
  OBVIOUS
<1>1. CASE Next
  <2>1. AgentTypes'
    BY <1>1, TypesNext DEF AgentInv
  <2>2. Alone' => Steady' /\ MapStep
    BY <1>1, <2>1, SteadyNext DEF AgentInv
  <2> QED BY <2>1, <2>2 DEF AgentInv, MapStep, AsMap!Next
<1>2. CASE UNCHANGED vars
  <2>1. AgentTypes'
    BY <1>2 DEF AgentInv, AgentTypes, StoreIn, Filled, Server, vars
  <2>2. UNCHANGED <<heap, hdr, call, scan, rep, server, failures>> /\ (Alone' => Alone)
    BY <1>2 DEF vars, Alone
  <2>3. Alone' => Steady'
    BY <2>2, SteadyStays DEF AgentInv
  <2> QED BY <2>1, <2>2, <2>3, MapSame DEF AgentInv
<1> QED BY <1>1, <1>2

LEMMA AgentInvHolds == Spec => []AgentInv
BY AgentInvInit, AgentInvNext, PTL DEF Spec

\* Between tasks every metric carries a value measured for it, and every key is there
\* once (agent.go:158-166, memory.go:80-92).
THEOREM OwnValuesAlways == Spec => []OwnValuesAlone
<1>1. AgentInv => OwnValuesAlone
  <2> SUFFICES ASSUME AgentInv, Alone, scan.pc = "idle", rep.pc = "idle",
                      NEW i \in 1..hdr.len, NEW j \in 1..hdr.len
               PROVE  /\ Visible[i].value # Nil => Visible[i].value[2] = Visible[i].id
                      /\ SameKey(Visible[i], Visible[j]) => i = j
    BY DEF OwnValuesAlone, OwnValues
  <2>1. AgentTypes /\ Orderly(Scanned) /\ Apart /\ Free(Scanner) /\ Free(Reporter)
    BY WhoIsFree DEF AgentInv, Steady
  <2>2. /\ \A h \in 1..hdr.len : Slot(h) \in Scanned /\ Visible[h] = Slot(h)
        /\ \A g, h \in 1..hdr.len : SameKey(Slot(g), Slot(h)) => g = h
    BY <2>1, HeldSlots
  <2>3. Visible[i] \in Scanned
    BY <2>2
  <2> QED BY <2>2, <2>3 DEF Scanned
<1> QED BY <1>1, AgentInvHolds, PTL

\* The server counts no scan twice: PollCount is deleted before the next report, also
\* when the answer to this one was lost (agent.go:157-166).
THEOREM CountedOnceAlways == Spec => []CountedOnce
<1>1. AgentInv => CountedOnce
  BY DEF AgentInv, Steady, Tallied, CountedOnce
<1> QED BY <1>1, AgentInvHolds, PTL

\* The delete takes no count that has not been sent, if no request has failed
\* (agent.go:157-166).
THEOREM LastScanIsCounted == Spec => LastScanCounted
<1>1. AgentInv /\ [Next]_vars =>
        [ReportEnd /\ Alone /\ failures = 0 /\ scan.k > 0
            => server.count[<<scan.k, PollCount.id>>] = 1]_vars
  BY DEF AgentInv, Steady, Latest, ReportEnd, Scan
<1> QED BY <1>1, AgentInvHolds, PTL DEF Spec, LastScanCounted

\* The slice is an atomic map for the two goroutines (memory.go:33-110).
THEOREM MapForBoth == Spec => MapAlone
<1>1. AgentInv /\ [Next]_vars => [Alone' => [AsMap!Next]_(AsMap!vars)]_vars
  BY AgentInvNext
<1>2. Init => AsMap!Init
  BY AgentInvInit
<1> QED BY <1>1, <1>2, AgentInvHolds, PTL DEF Spec, MapAlone
=============================================================================
