-------------------------- MODULE FileServer_proofs -------------------------
(***************************************************************************)
(* Saving and restoring never make a counter count a report twice: what    *)
(* is on disk, and what a flush is about to write there, is made of        *)
(* metrics the memory held, and a restart puts those back as they are.     *)
(* The invariant is stated for any set of metrics (Serial), so that types, *)
(* contributions and whole metrics are three uses of the same steps.       *)
(*                                                                         *)
(* With SyncFlush, a flush that ends leaves the file as the memory is      *)
(* (Dirty names what may differ meanwhile), a clean stop leaves the same   *)
(* on disk, and a start loads it: what was acknowledged survives.          *)
(*                                                                         *)
(* And each process serves as MetricsService says: Pending tells what a    *)
(* request that is alone is about to store, a landing upsert is Apply, a   *)
(* rejection is Refuse, and flushes and the ticker leave the service alone *)
(***************************************************************************)
EXTENDS ServerAsService, MetricsManager_proofs

FileIn(S) == [kind : {"none", "empty", "whole", "torn"}, data : Seq(S)]
FlushIn(S) == [pc : {"idle", "open", "list", "marshal", "done"},
               at : Header, data : Seq(S)]

SavedIn(S, h, f, fl) ==
    /\ f \in FileIn(S)
    /\ fl \in [Callers -> FlushIn(S)]
    /\ \A p \in Callers : fl[p].at.ptr \in DOMAIN h

ServerInv ==
    /\ ManagerInv
    /\ SavedIn(OnceSet, heap, file, flush)
    /\ ioErrors \in Nat /\ srv \in [pc : Phases, n : Nat] /\ exits \in Nat
    /\ overlapped \in BOOLEAN

\* What is saved stays saved metrics when more metrics are allowed and more
\* arrays exist.
LEMMA SavedInMonotone ==
    ASSUME NEW S, NEW T, S \subseteq T, NEW h, NEW g, DOMAIN h \subseteq DOMAIN g,
           NEW f, NEW fl, SavedIn(S, h, f, fl)
    PROVE  SavedIn(T, g, f, fl)
<1>1. Seq(S) \subseteq Seq(T)
  OBVIOUS
<1>2. FileIn(S) \subseteq FileIn(T) /\ FlushIn(S) \subseteq FlushIn(T)
  BY <1>1 DEF FileIn, FlushIn
<1> QED BY <1>2 DEF SavedIn

\* One goroutine's flush moved on to x; the others are as they were.
LEMMA FlushChanges ==
    ASSUME NEW S, NEW h, NEW f, NEW fl, SavedIn(S, h, f, fl),
           NEW p \in Callers, NEW x \in FlushIn(S), x.at.ptr \in DOMAIN h
    PROVE  SavedIn(S, h, f, [fl EXCEPT ![p] = x])
BY DEF SavedIn

\* A file with no metrics holds none outside S.
LEMMA HoldingIn ==
    ASSUME NEW S, NEW kind \in {"none", "empty", "whole", "torn"}
    PROVE  Holding(kind) \in FileIn(S)
BY DEF Holding, FileIn

\* A goroutine that flushes nothing has read nothing (file.go:41).
LEMMA NoFlushIn == ASSUME NEW S PROVE NoFlush \in FlushIn(S) /\ NoFlush.at.ptr = 1
BY DEF NoFlush, FlushIn, Header

\* What Restore decodes was counted before it was saved (file.go:85-98).
LEMMA LoadableIn == ServerInv => Loadable \in Seq(OnceSet)
BY DEF ServerInv, SavedIn, FileIn, Loadable

\* The steps of a flush (file.go:41-70) copy metrics of memory to the file.
LEMMA FlushKeeps ==
    ASSUME ServerInv, NEW p \in Callers, FlushStep(p),
           UNCHANGED <<managerVars, srv, exits, overlapped>>
    PROVE  ServerInv'
<1> DEFINE To(step) == [flush[p] EXCEPT !.pc = step]
<1>a. /\ ManagerInv' /\ OnceSet' = OnceSet
      /\ srv' \in [pc : Phases, n : Nat] /\ exits' \in Nat /\ ioErrors \in Nat
      /\ overlapped' \in BOOLEAN
  BY DEF ServerInv, ManagerInv, managerVars, RequestsTypeOK, MoreItems, OnceSet, Once, Spent
<1>b. /\ flush[p] \in FlushIn(OnceSet) /\ flush[p].at.ptr \in DOMAIN heap
      /\ file \in FileIn(OnceSet) /\ heap \in Seq(Seq(OnceSet))
      /\ hdr \in Header /\ hdr.ptr \in DOMAIN heap /\ heap' = heap
      /\ flush \in [Callers -> FlushIn(OnceSet)]
      /\ \A q \in Callers : flush[q].at.ptr \in DOMAIN heap
  BY DEF ServerInv, SavedIn, ManagerInv, StoreIn, Header, managerVars
<1>c. ASSUME NEW x \in FlushIn(OnceSet), x.at.ptr \in DOMAIN heap,
             flush' = [flush EXCEPT ![p] = x],
             file' \in FileIn(OnceSet), ioErrors' \in Nat
      PROVE  ServerInv'
  <2>1. SavedIn(OnceSet, heap, file', flush)
    BY <1>b, <1>c DEF SavedIn
  <2>2. SavedIn(OnceSet, heap, file', flush')
    BY <1>c, <2>1, FlushChanges
  <2> QED BY <1>a, <1>b, <1>c, <2>2 DEF ServerInv
<1>d. ASSUME NEW step \in {"list", "done"}
      PROVE  To(step) \in FlushIn(OnceSet) /\ To(step).at = flush[p].at
  BY <1>b DEF FlushIn
<1>1. CASE OpenTrunc(p)
  <2>1. /\ flush' = [flush EXCEPT ![p] = To("list")] /\ file' = Holding("empty")
        /\ ioErrors' = ioErrors
    BY <1>1 DEF OpenTrunc
  <2> HIDE DEF To
  <2> QED BY <1>a, <1>b, <1>c, <1>d, <2>1, HoldingIn
<1>2. CASE GetBatch(p)
  <2> DEFINE x == [flush[p] EXCEPT !.pc = "marshal", !.at = hdr]
  <2>1. flush' = [flush EXCEPT ![p] = x] /\ UNCHANGED <<file, ioErrors>>
    BY <1>2 DEF GetBatch
  <2>2. x \in FlushIn(OnceSet) /\ x.at = hdr
    BY <1>b DEF FlushIn
  <2> HIDE DEF x
  <2> QED BY <1>a, <1>b, <1>c, <2>1, <2>2
<1>3. CASE Marshal(p)
  <2> DEFINE cell == NextCell(p)
             x == [flush[p] EXCEPT !.data = Append(@, cell)]
  <2>1. flush' = [flush EXCEPT ![p] = x] /\ UNCHANGED <<file, ioErrors>>
    BY <1>3 DEF Marshal
  <2>2. flush[p].data \in Seq(OnceSet) /\ Len(flush[p].data) + 1 \in Nat
    BY <1>b DEF FlushIn
  <2>3. cell \in OnceSet
    BY <1>b, <2>2, CellAtIn, OnceSetClosed DEF NextCell
  <2> HIDE DEF cell
  <2>4. Append(flush[p].data, cell) \in Seq(OnceSet)
    BY <2>2, <2>3
  <2>5. x \in FlushIn(OnceSet) /\ x.at = flush[p].at
    BY <1>b, <2>4 DEF FlushIn
  <2> HIDE DEF x
  <2> QED BY <1>a, <1>b, <1>c, <2>1, <2>5
<1>4. CASE MarshalFails(p) \/ Write(p) \/ IOError(p)
  <2>1. /\ flush' = [flush EXCEPT ![p] = To("done")]
        /\ ioErrors' \in {ioErrors, ioErrors + 1}
        /\ file' \in {file, Holding("torn"), [kind |-> "whole", data |-> flush[p].data]}
    BY <1>4 DEF MarshalFails, Write, IOError
  <2>2. [kind |-> "whole", data |-> flush[p].data] \in FileIn(OnceSet)
    BY <1>b DEF FlushIn, FileIn
  <2>3. file' \in FileIn(OnceSet) /\ ioErrors' \in Nat
    BY <1>a, <1>b, <2>1, <2>2, HoldingIn
  <2> HIDE DEF To
  <2> QED BY <1>b, <1>c, <1>d, <2>1, <2>3
<1> QED BY <1>1, <1>2, <1>3, <1>4 DEF FlushStep

\* A process that ends loses its memory; the requests it was serving spent what
\* they had spent, so the file still counts nothing that was not spent.
LEMMA EndKeeps ==
    ASSUME ServerInv, NEW phase \in Phases, EndProcess(phase)
    PROVE  ServerInv'
<1>1. ManagerInv' /\ OnceSet \subseteq OnceSet'
  BY ProcessEnds DEF ServerInv, EndProcess, MemoryLost, GoroutinesEnd
<1>2. SavedIn(OnceSet', heap', file', flush')
  <2>1. DOMAIN heap' = {1} /\ flush' = [p \in Callers |-> NoFlush] /\ file' = file
    BY DEF EndProcess, MemoryLost, GoroutinesEnd
  <2>2. file \in FileIn(OnceSet')
    <3>1. file \in FileIn(OnceSet)
      BY DEF ServerInv, SavedIn
    <3>2. Seq(OnceSet) \subseteq Seq(OnceSet')
      BY <1>1
    <3> QED BY <3>1, <3>2 DEF FileIn
  <2> QED BY <2>1, <2>2, NoFlushIn DEF SavedIn
<1>3. /\ ioErrors' \in Nat /\ srv' \in [pc : Phases, n : Nat] /\ exits' \in Nat
      /\ overlapped' \in BOOLEAN
  BY DEF EndProcess, ServerInv
<1> QED BY <1>1, <1>2, <1>3 DEF ServerInv

\* The first process finds no file and an empty store.
LEMMA ServerInitInv == Init => ServerInv
<1> SUFFICES ASSUME Init PROVE ServerInv
  OBVIOUS
<1>1. ManagerInv
  BY ManagerInitInv DEF Init
<1>2. SavedIn(OnceSet, heap, file, flush)
  <2>1. file \in FileIn(OnceSet)
    BY HoldingIn DEF Init, FileInit
  <2>2. 1 \in DOMAIN heap /\ flush = [p \in Callers |-> NoFlush]
    BY DEF Init, ManagerInit, StoreInit, FileInit
  <2> QED BY <2>1, <2>2, NoFlushIn DEF SavedIn
<1> QED BY <1>1, <1>2 DEF Init, FileInit, ServerInv, Phases

\* Every step of the server, of its flushes and of its ends keeps ServerInv.
LEMMA ServerNextInv == ServerInv /\ [Next]_vars => ServerInv'
<1> SUFFICES ASSUME ServerInv, [Next]_vars PROVE ServerInv'
  OBVIOUS
<1>a. /\ ManagerInv /\ SavedIn(OnceSet, heap, file, flush)
      /\ heap \in Seq(Seq(OnceSet)) /\ 1 \in DOMAIN heap
      /\ Main \in Callers /\ Requests \subseteq Callers
      /\ ioErrors \in Nat /\ srv \in [pc : Phases, n : Nat] /\ srv.n \in Nat /\ exits \in Nat
      /\ overlapped \in BOOLEAN
  <2>1. heap # <<>>
    BY DEF ServerInv, ManagerInv, StoreIn
  <2> QED BY <2>1, ServerAssumption, ManagerAssumption DEF ServerInv, ManagerInv, StoreIn
<1>b. ASSUME UNCHANGED managerVars
      PROVE  ManagerInv' /\ OnceSet' = OnceSet /\ heap' = heap
  BY <1>a, <1>b DEF ManagerInv, managerVars, RequestsTypeOK, MoreItems, OnceSet, Once, Spent
<1>c. ASSUME UNCHANGED st
      PROVE  RequestsTypeOK' /\ OnceSet' = OnceSet
  BY <1>a, <1>c DEF ManagerInv, RequestsTypeOK, MoreItems, OnceSet, Once, Spent
\* The manager's part moved, the file and the flushes did not.
<1>d. ASSUME ManagerInv', OnceSet \subseteq OnceSet', DOMAIN heap \subseteq DOMAIN heap',
             UNCHANGED <<fileVars, exits>>, srv' \in [pc : Phases, n : Nat],
             overlapped' \in BOOLEAN
      PROVE  ServerInv'
  BY <1>a, <1>d, SavedInMonotone DEF ServerInv, fileVars
<1>1. CASE Boot
  <2>1. UNCHANGED <<managerVars, fileVars, exits, overlapped>> /\ srv' \in [pc : Phases, n : Nat]
    BY <1>1 DEF Boot, Phases
  <2> QED BY <1>a, <1>b, <1>d, <2>1
<1>2. CASE LoadNext
  <2> DEFINE m == Loadable[srv.n + 1]
             x == NewCall("upsert", m)
  <2>1. /\ call' = [call EXCEPT ![Main] = x] /\ UNCHANGED <<heap, hdr, st, fileVars, exits, overlapped>>
        /\ srv' = [srv EXCEPT !.n = @ + 1] /\ srv.n < Len(Loadable)
    BY <1>2 DEF LoadNext, Calls
  <2>2. m \in OnceSet
    BY <1>a, <2>1, LoadableIn
  <2> HIDE DEF m
  <2>3. StoreIn(OnceSet, heap, hdr, call)
    BY <1>a DEF ManagerInv
  <2>4. x \in CallIn(OnceSet) /\ x.at.ptr \in DOMAIN heap /\ x.pc # "shrink"
    BY <2>2, <2>3, NewCallIn
  <2> HIDE DEF x
  <2>5. StoreIn(OnceSet, heap, hdr, call')
    BY <1>a, <2>1, <2>3, <2>4, CallChanges
  <2>6. ManagerInv' /\ OnceSet' = OnceSet
    BY <1>c, <2>1, <2>5 DEF ManagerInv
  <2>7. srv' \in [pc : Phases, n : Nat]
    BY <1>a, <2>1
  <2> QED BY <1>a, <1>d, <2>1, <2>6, <2>7
<1>3. CASE LoadStep
  <2>1. StoreStep(Main) /\ UNCHANGED <<st, fileVars, srv, exits, overlapped>>
    BY <1>3 DEF LoadStep
  <2>2. ManagerInv' /\ OnceSet' = OnceSet
    BY <1>a, <2>1, StoreCallKeeps
  <2>3. DOMAIN heap \subseteq DOMAIN heap'
    BY <1>a, <2>1, ArraysStay DEF ManagerInv
  <2> QED BY <1>a, <1>d, <2>1, <2>2, <2>3
<1>4. CASE Loaded
  <2>1. /\ call' = [call EXCEPT ![Main] = NoCall] /\ UNCHANGED <<heap, hdr, st, fileVars, exits, overlapped>>
        /\ srv' = [srv EXCEPT !.pc = "up"]
    BY <1>4 DEF Loaded
  <2>2. NoCall \in CallIn(OnceSet) /\ NoCall.at.ptr = 1 /\ NoCall.pc # "shrink"
    BY ZeroOnce DEF NoCall, CallIn, Header, Steps
  <2> HIDE DEF NoCall
  <2>3. StoreIn(OnceSet, heap, hdr, call')
    BY <1>a, <2>1, <2>2, CallChanges DEF ManagerInv
  <2>4. ManagerInv' /\ OnceSet' = OnceSet
    BY <1>c, <2>1, <2>3 DEF ManagerInv
  <2>5. srv' \in [pc : Phases, n : Nat]
    BY <1>a, <2>1 DEF Phases
  <2> QED BY <1>a, <1>d, <2>1, <2>4, <2>5
<1>5. ASSUME NEW r \in Requests, Accept(r) \/ Serve(r)
      PROVE  ServerInv'
  <2>1. UNCHANGED <<fileVars, srv, exits>> /\ overlapped' \in BOOLEAN
    BY <1>a, <1>5 DEF Accept, Serve
  <2>2. CASE Receive(r) \/ RequestStep(r)
    <3>1. ManagerInv' /\ OnceSet \subseteq OnceSet'
      BY <1>a, <2>2, RequestKeeps
    <3>2. heap' = heap
      BY <2>2 DEF Receive, RequestStep, Reject, StoreOther, AskKnown, Accumulate,
         NilDelta, Abort, NextItem, AllStored
    <3> QED BY <1>a, <1>d, <2>1, <3>1, <3>2
  <2>3. CASE StoreStep(r) /\ UNCHANGED st
    <3>1. ManagerInv' /\ OnceSet' = OnceSet
      BY <1>a, <2>3, StoreCallKeeps
    <3>2. DOMAIN heap \subseteq DOMAIN heap'
      BY <1>a, <2>3, ArraysStay DEF ManagerInv
    <3> QED BY <1>a, <1>d, <2>1, <3>1, <3>2
  <2> QED BY <1>5, <2>2, <2>3 DEF Accept, Serve
\* A flush starts.
<1>6. ASSUME NEW p \in Callers, StartFlush(p), UNCHANGED <<managerVars, file, ioErrors, srv, exits, overlapped>>
      PROVE  ServerInv'
  <2> DEFINE x == [NoFlush EXCEPT !.pc = "open"]
  <2>1. x \in FlushIn(OnceSet) /\ x.at.ptr = 1
    <3>1. NoFlush \in FlushIn(OnceSet) /\ NoFlush.at.ptr = 1
      BY NoFlushIn
    <3> HIDE DEF NoFlush
    <3> QED BY <3>1 DEF FlushIn
  <2>2. flush' = [flush EXCEPT ![p] = x]
    BY <1>6 DEF StartFlush
  <2> HIDE DEF x
  <2>3. SavedIn(OnceSet, heap, file, flush')
    BY <1>a, <2>1, <2>2, FlushChanges
  <2> QED BY <1>a, <1>b, <1>6, <2>3 DEF ServerInv
<1>7. ASSUME NEW r \in Requests, Answer(r)
      PROVE  ServerInv'
  <2>1. /\ Reply(r) /\ flush' = [flush EXCEPT ![r] = NoFlush]
        /\ UNCHANGED <<file, ioErrors, srv, exits, overlapped>> /\ heap' = heap
    BY <1>7 DEF Answer, Reply
  <2>2. ManagerInv' /\ OnceSet \subseteq OnceSet'
    BY <1>a, <2>1, RequestKeeps
  <2>3. SavedIn(OnceSet', heap, file, flush)
    BY <1>a, <2>2, SavedInMonotone
  <2>4. SavedIn(OnceSet', heap, file, flush')
    BY <1>a, <2>1, <2>3, FlushChanges, NoFlushIn
  <2> QED BY <1>a, <2>1, <2>2, <2>4 DEF ServerInv
<1>8. ASSUME NEW p \in Callers, FlushProgress(p)
      PROVE  ServerInv'
  BY <1>8, FlushKeeps DEF FlushProgress
<1>9. CASE Crash \/ Shutdown
  BY <1>9, EndKeeps DEF Crash, Shutdown, Phases
<1>10. CASE UNCHANGED vars
  <2>1. UNCHANGED <<managerVars, fileVars, srv, exits, overlapped>>
    BY <1>10 DEF vars, managerVars, fileVars
  <2> QED BY <1>a, <1>b, <1>d, <2>1
<1> QED
  BY <1>a, <1>1, <1>2, <1>3, <1>4, <1>5, <1>6, <1>7, <1>8, <1>9, <1>10
  DEF Next, FlushAfterUpdate, Tick

\* The inductive invariant gives the two invariants that are checked.
LEMMA ServerInvImplies == ServerInv => ServerTypeOK /\ CountsOnce
<1> SUFFICES ASSUME ServerInv PROVE ServerTypeOK /\ CountsOnce
  OBVIOUS
<1>1. ManagerTypeOK /\ CountedAtMostOnce
  BY ManagerInvImplies DEF ServerInv
<1>2. SavedIn(Metric, heap, file, flush)
  BY SavedInMonotone DEF ServerInv, OnceSet
<1>3. FileTypeOK
  BY <1>2 DEF SavedIn, FileIn, FlushIn, FileTypeOK, File, FlushCall, ServerInv
<1>4. \A j \in 1..Len(file.data) : Once(file.data[j])
  BY DEF ServerInv, SavedIn, FileIn, OnceSet
<1> QED BY <1>1, <1>3, <1>4 DEF ServerTypeOK, CountsOnce, ServerInv

\* Every variable of the server keeps its type.
THEOREM ServerTypeCorrect == Spec => []ServerTypeOK
<1> QED BY ServerInitInv, ServerNextInv, ServerInvImplies, PTL DEF Spec

\* Whatever requests, interleavings, failed writes, crashes and restarts there
\* are, no counter in memory or on disk counts a reported item twice.
THEOREM ServerCountsOnce == Spec => []CountsOnce
<1> QED BY ServerInitInv, ServerNextInv, ServerInvImplies, PTL DEF Spec

-----------------------------------------------------------------------------
(* The ticker alone *)

\* Only the ticker flushes, and what it has truncated stays empty until it writes.
TickerInv ==
    /\ \A p \in Callers \ {Main} : Flushing(p, "idle")
    /\ ioErrors = 0 =>
        /\ file.kind # "torn"
        /\ flush[Main].pc \in {"list", "marshal"} => file.kind = "empty"

\* The steps of a flush that is the only one (file.go:41-70).
LEMMA TickerFlushes ==
    ASSUME ServerInv, TickerInv, NEW p \in Callers, FlushStep(p)
    PROVE  TickerInv'
<1>1. p = Main
  BY DEF TickerInv, Flushing, FlushStep, OpenTrunc, GetBatch, Marshal, MarshalFails, Write, IOError
<1>2. /\ flush \in [Callers -> FlushIn(OnceSet)] /\ ioErrors \in Nat /\ Main \in Callers
  BY <1>1 DEF ServerInv, SavedIn
<1>3. \A q \in Callers \ {Main} : flush'[q] = flush[q]
  BY <1>1, <1>2 DEF FlushStep, OpenTrunc, GetBatch, Marshal, MarshalFails, Write, IOError
<1>4. (\A q \in Callers \ {Main} : Flushing(q, "idle"))'
  BY <1>3 DEF TickerInv, Flushing
<1>5. CASE OpenTrunc(p)
  <2>1. file'.kind = "empty"
    BY <1>5 DEF OpenTrunc, Holding
  <2> QED BY <1>4, <2>1 DEF TickerInv
<1>6. CASE GetBatch(p)
  <2>1. flush[Main].pc = "list" /\ UNCHANGED <<file, ioErrors>>
    BY <1>1, <1>6 DEF GetBatch, Flushing
  <2> QED BY <1>4, <2>1 DEF TickerInv
<1>7. CASE Marshal(p)
  <2>1. flush[Main].pc = "marshal" /\ UNCHANGED <<file, ioErrors>>
    BY <1>1, <1>7 DEF Marshal, Flushing
  <2> QED BY <1>4, <2>1 DEF TickerInv
<1>8. CASE MarshalFails(p)
  <2>1. flush'[Main].pc = "done" /\ UNCHANGED <<file, ioErrors>>
    BY <1>1, <1>2, <1>8 DEF MarshalFails, FlushIn
  <2> QED BY <1>4, <2>1 DEF TickerInv
<1>9. CASE Write(p)
  <2>1. flush'[Main].pc = "done" /\ ioErrors' = ioErrors /\ flush[Main].pc = "marshal"
    BY <1>1, <1>2, <1>9 DEF Write, Flushing, FlushIn
  <2>2. ioErrors = 0 => file'.kind = "whole"
    BY <1>9, <2>1 DEF Write, TickerInv
  <2> QED BY <1>4, <2>1, <2>2 DEF TickerInv
<1>10. CASE IOError(p)
  <2>1. ioErrors' # 0
    BY <1>2, <1>10 DEF IOError
  <2> QED BY <1>4, <2>1 DEF TickerInv
<1> QED BY <1>5, <1>6, <1>7, <1>8, <1>9, <1>10 DEF FlushStep

LEMMA TickerNext ==
    ASSUME ~SyncFlush, ServerInv, TickerInv, [Next]_vars
    PROVE  TickerInv'
<1>a. /\ flush \in [Callers -> FlushIn(OnceSet)] /\ Main \in Callers \ Requests
      /\ Requests \subseteq Callers
  BY ServerAssumption, ManagerAssumption DEF ServerInv, SavedIn
<1>b. ASSUME UNCHANGED fileVars
      PROVE  TickerInv'
  BY <1>b DEF TickerInv, Flushing, fileVars
<1>1. CASE Boot \/ LoadNext \/ LoadStep \/ Loaded \/ UNCHANGED vars
  BY <1>1, <1>b DEF Boot, LoadNext, LoadStep, Loaded, vars, fileVars
<1>2. ASSUME NEW r \in Requests, Accept(r) \/ Serve(r)
      PROVE  TickerInv'
  BY <1>2, <1>b DEF Accept, Serve
<1>3. ASSUME NEW r \in Requests, FlushAfterUpdate(r)
      PROVE  TickerInv'
  BY <1>3 DEF FlushAfterUpdate, FlushesNow
<1>4. ASSUME NEW r \in Requests, Answer(r)
      PROVE  TickerInv'
  <2>1. flush' = [flush EXCEPT ![r] = NoFlush] /\ UNCHANGED <<file, ioErrors>>
    BY <1>4 DEF Answer
  <2>2. NoFlush.pc = "idle" /\ r # Main
    BY <1>a DEF NoFlush
  <2> HIDE DEF NoFlush
  <2>3. flush'[Main] = flush[Main] /\ \A p \in Callers \ {Main} : flush'[p] \in {flush[p], NoFlush}
    BY <1>a, <2>1, <2>2
  <2> QED BY <2>1, <2>2, <2>3 DEF TickerInv, Flushing
<1>5. CASE Tick
  <2> DEFINE x == [NoFlush EXCEPT !.pc = "open"]
  <2>1. flush' = [flush EXCEPT ![Main] = x] /\ UNCHANGED <<file, ioErrors>>
    BY <1>5 DEF Tick, StartFlush
  <2>2. x.pc = "open"
    BY DEF NoFlush
  <2> HIDE DEF x
  <2>3. flush'[Main].pc = "open" /\ \A p \in Callers \ {Main} : flush'[p] = flush[p]
    BY <1>a, <2>1, <2>2
  <2> QED BY <2>1, <2>3 DEF TickerInv, Flushing
<1>6. ASSUME NEW p \in Callers, FlushProgress(p)
      PROVE  TickerInv'
  BY <1>6, TickerFlushes DEF FlushProgress
<1>7. CASE Crash \/ Shutdown
  <2>1. flush' = [p \in Callers |-> NoFlush] /\ UNCHANGED <<file, ioErrors>>
    BY <1>7 DEF Crash, Shutdown, EndProcess, GoroutinesEnd
  <2>2. NoFlush.pc = "idle"
    BY DEF NoFlush
  <2> HIDE DEF NoFlush
  <2>3. \A p \in Callers : flush'[p].pc = "idle"
    BY <2>1, <2>2
  <2> QED BY <1>a, <2>1, <2>3 DEF TickerInv, Flushing
<1> QED BY <1>1, <1>2, <1>3, <1>4, <1>5, <1>6, <1>7 DEF Next

\* With a positive interval, and as long as no open or write has failed, the file
\* decodes at every moment of every process, for any requests and any ends
\* (manager.go:70-85).
THEOREM NeverTornByTicks == ~SyncFlush => (Spec => []NeverTorn)
<1> SUFFICES ASSUME ~SyncFlush
             PROVE  Spec => []NeverTorn
  OBVIOUS
<1>1. Init => TickerInv
  <2> SUFFICES ASSUME Init PROVE TickerInv
    OBVIOUS
  <2>1. \A p \in Callers : flush[p].pc = "idle"
    BY DEF Init, FileInit, NoFlush
  <2>2. file.kind = "none" /\ Main \in Callers
    BY ServerAssumption DEF Init, FileInit, Holding
  <2> QED BY <2>1, <2>2 DEF TickerInv, Flushing
<1>2. ServerInv /\ TickerInv /\ [Next]_vars => TickerInv'
  BY TickerNext
<1>3. TickerInv => NeverTorn
  BY DEF TickerInv, NeverTorn
<1>4. Spec => [](ServerInv /\ TickerInv)
  <2>1. Init => ServerInv /\ TickerInv
    BY <1>1, ServerInitInv
  <2>2. ServerInv /\ TickerInv /\ [Next]_vars => (ServerInv /\ TickerInv)'
    BY <1>2, ServerNextInv
  <2> QED BY <2>1, <2>2, PTL DEF Spec
<1> QED BY <1>3, <1>4, PTL

-----------------------------------------------------------------------------
(* Interval 0, and requests one at a time *)

\* Metrics among which a counter may grow.
Takes(S) ==
    /\ S \subseteq Proper
    /\ \A m \in S, d \in Delta : m.delta # Nil => [m EXCEPT !.delta = d] \in S

\* The metrics requests report, and are to store, are of S.
Fits(S) ==
    \A r \in Requests :
        /\ MoreItems(r)
        /\ In(r, "known") \/ (In(r, "item") /\ Verified(Current(r)))
        => Reported(r) \in S

\* One request at a time is served, only once the process is up; it calls the store
\* or flushes, and before that the restore calls it.
OneAtATime ==
    /\ \A r, q \in InFlight : r = q
    /\ InFlight # {} => Up
    /\ \A p \in Callers : Busy(p) =>
          \/ p \in Requests /\ st[p].pc \in {"known", "store"}
          \/ p = Main /\ srv.pc = "restoring"
    /\ \A p \in Callers : ~Flushing(p, "idle") => p \in Requests /\ In(p, "flush")

\* A flush finds the file as it left it, and has copied the elements it went past.
Copied(p) ==
    /\ flush[p].pc \in {"list", "marshal"} => file = Holding("empty")
    /\ flush[p].pc \in {"open", "list"} => flush[p].data = <<>>
    /\ Flushing(p, "marshal") =>
        /\ flush[p].at = hdr /\ Len(flush[p].data) <= hdr.len
        /\ \A j \in 1..Len(flush[p].data) : flush[p].data[j] = heap[hdr.ptr][j]

\* A file that is complete has each key once; any other has no metric.
OnDisk(S) ==
    /\ Keyed(S, file.data, Len(file.data))
    /\ file.kind # "whole" => file.data = <<>>

\* The slice is empty before a start, and holds what it has loaded of the file.
Loading ==
    /\ srv.pc \in {"down", "stopped"} => LastInUse = 0
    /\ srv.pc = "restoring" =>
        /\ Loadable = file.data /\ srv.n <= Len(file.data)
        /\ At(Main, "idle") => srv.n = 0
        /\ Busy(Main) => srv.n > 0 /\ call[Main].op = "upsert" /\ call[Main].m = file.data[srv.n]
        /\ LastInUse = IF Busy(Main) THEN srv.n - 1 ELSE srv.n
        /\ \A j \in 1..LastInUse : heap[hdr.ptr][j] = file.data[j]

Serial(S) ==
    /\ Orderly(S) /\ OneAtATime
    /\ \A r \in Requests : r \in InFlight \/ In(r, "new") => Served(r)
    /\ \A p \in Callers : Copied(p)
    /\ OnDisk(S) /\ Loading

LEMMA ProperTakes == Takes(Proper)
<1> SUFFICES ASSUME NEW m \in Proper, NEW d \in Delta, m.delta # Nil
             PROVE  [m EXCEPT !.delta = d] \in Proper
  BY DEF Takes
<1>1. m \in Metric /\ m.mtype = "counter" /\ m.id \in Names /\ m.value = Nil
  BY DEF Proper
<1>2. [m EXCEPT !.delta = d] \in Metric
  BY <1>1 DEF Metric
<1> QED BY <1>1, <1>2 DEF Proper, Metric

\* A smaller set of metrics takes on what Proper does.
LEMMA TakesOverwrites == ASSUME NEW S, Takes(S) PROVE Overwrites(S)
<1> SUFFICES ASSUME NEW old \in S, NEW m \in S, SameKey(old, m)
             PROVE  Overwrite(old, m) \in S
  BY DEF Takes, Overwrites, Proper
<1> QED BY ProperReplaces DEF Takes, Replaces

LEMMA OrderlyProper == ASSUME NEW S, S \subseteq Proper, Orderly(S) PROVE Orderly(Proper)
BY DEF Orderly, Keyed, CallOrderly

\* Types that the steps below rely on.
LEMMA SerialTypes ==
    ASSUME ServerInv
    PROVE  /\ StoreIn(Metric, heap, hdr, call) /\ SavedIn(Metric, heap, file, flush)
           /\ Requests \subseteq Callers /\ Main \in Callers \ Requests
           /\ st \in [Requests -> Request] /\ srv \in [pc : Phases, n : Nat]
           /\ hdr.ptr \in DOMAIN heap /\ hdr.len \in Nat /\ heap[hdr.ptr] \in Seq(Metric)
           /\ ManagerInv /\ RequestsTypeOK /\ file.data \in Seq(Metric)
<1>1. StoreIn(Metric, heap, hdr, call)
  BY StoreInMonotone DEF ServerInv, ManagerInv, OnceSet
<1>2. SavedIn(Metric, heap, file, flush)
  BY SavedInMonotone DEF ServerInv, OnceSet
<1>3. st \in [Requests -> Request] /\ RequestsTypeOK /\ ManagerInv
  BY DEF ServerInv, ManagerInv, RequestsTypeOK, Request
<1>4. heap \in Seq(Seq(Metric)) /\ hdr.ptr \in DOMAIN heap /\ hdr.len \in Nat
  BY <1>1 DEF StoreIn
<1>5. srv \in [pc : Phases, n : Nat] /\ file.data \in Seq(Metric)
  BY <1>2 DEF ServerInv, SavedIn, FileIn
<1> QED BY <1>1, <1>2, <1>3, <1>4, <1>5, ServerAssumption, ManagerAssumption

\* A step of the one request that is served stores what it reports, or a sum.
LEMMA ServeWithin ==
    ASSUME ManagerInv, NEW S, Takes(S), Orderly(S), Fits(S), NEW r \in Requests,
           ServeStep(r), \A q \in Callers \ {r} : ~Busy(q),
           Busy(r) => st[r].pc \in {"known", "store"}
    PROVE  Orderly(S)'
<1>a. /\ StoreIn(Metric, heap, hdr, call) /\ RequestsTypeOK /\ r \in Callers
      /\ Overwrites(S)
  BY StoreInMonotone, ManagerAssumption, TakesOverwrites DEF ManagerInv, OnceSet
\* A call that begins, or is forgotten.
<1>b. ASSUME NEW STATE c, call' = [call EXCEPT ![r] = c], UNCHANGED <<heap, hdr>>, ~Busy(r),
             \/ c = NoCall
             \/ \E op, m : c = NewCall(op, m) /\ (op = "upsert" => m \in S)
      PROVE  Orderly(S)'
  <2>1. \A q \in Callers : ~Busy(q)
    BY <1>b
  <2> QED BY <1>a, <1>b, <2>1, StartOrderly
<1>1. CASE StoreStep(r) /\ UNCHANGED st
  BY <1>1, <1>a, StepOrderly
<1>2. CASE Reject(r) \/ NilDelta(r) \/ Abort(r) \/ AllStored(r)
  <2>1. UNCHANGED <<heap, hdr, call>>
    BY <1>2 DEF Reject, NilDelta, Abort, AllStored
  <2> QED BY <2>1, OrderlyStays
<1>3. CASE StoreOther(r)
  <2> DEFINE c == NewCall("upsert", Reported(r))
  <2>1. /\ call' = [call EXCEPT ![r] = c] /\ UNCHANGED <<heap, hdr>>
        /\ st[r].pc = "item" /\ MoreItems(r) /\ Verified(Current(r))
    BY <1>3 DEF StoreOther, Calls, In
  <2>2. \E op, m : c = NewCall(op, m) /\ (op = "upsert" => m \in S)
    BY <2>1 DEF Fits, In
  <2>3. ~Busy(r)
    BY <2>1
  <2> HIDE DEF c
  <2> QED BY <1>b, <2>1, <2>2, <2>3
<1>4. CASE AskKnown(r)
  <2> DEFINE c == NewCall("get", [Reported(r) EXCEPT !.delta = Nil])
  <2>1. /\ call' = [call EXCEPT ![r] = c] /\ UNCHANGED <<heap, hdr>> /\ st[r].pc = "item"
    BY <1>4 DEF AskKnown, Calls, In
  <2>2. \E op, m : c = NewCall(op, m) /\ (op = "upsert" => m \in S)
    OBVIOUS
  <2>3. ~Busy(r)
    BY <2>1
  <2> HIDE DEF c
  <2> QED BY <1>b, <2>1, <2>2, <2>3
<1>5. CASE Accumulate(r)
  <2> DEFINE new == Reported(r)
             old == call[r].got
  <2>1. /\ st[r].pc = "known" /\ At(r, "done") /\ UNCHANGED <<heap, hdr>>
        /\ \/ Calls(r, "upsert", new)
           \/ /\ old # Nil /\ old.delta # Nil /\ new.delta # Nil
              /\ Calls(r, "upsert", [new EXCEPT !.delta = Sum(new.delta, old.delta)])
    BY <1>5 DEF Accumulate, In
  <2>2. new \in S /\ ~Busy(r)
    BY <1>a, <2>1 DEF RequestsTypeOK, Fits, Busy, At, In
  <2>3. \E m \in S : call' = [call EXCEPT ![r] = NewCall("upsert", m)]
    <3>1. CASE Calls(r, "upsert", new)
      BY <2>2, <3>1 DEF Calls
    <3>2. CASE /\ old # Nil /\ old.delta # Nil /\ new.delta # Nil
               /\ Calls(r, "upsert", [new EXCEPT !.delta = Sum(new.delta, old.delta)])
      <4>1. old \in Metric /\ new \in Metric
        BY <1>a, <2>2, <3>2 DEF StoreIn, CallIn, Takes, Proper
      <4>2. Sum(new.delta, old.delta) \in Delta
        BY <3>2, <4>1 DEF Sum, Metric, Delta
      <4>3. [new EXCEPT !.delta = Sum(new.delta, old.delta)] \in S
        BY <2>2, <3>2, <4>2 DEF Takes
      <4> QED BY <3>2, <4>3 DEF Calls
    <3> QED BY <2>1, <3>1, <3>2
  <2>4. PICK m \in S : call' = [call EXCEPT ![r] = NewCall("upsert", m)]
    BY <2>3
  <2> DEFINE c == NewCall("upsert", m)
  <2>5. \E op, x : c = NewCall(op, x) /\ (op = "upsert" => x \in S)
    OBVIOUS
  <2>6. call' = [call EXCEPT ![r] = c]
    BY <2>4
  <2> HIDE DEF c
  <2> QED BY <1>b, <2>1, <2>2, <2>5, <2>6
<1>6. CASE NextItem(r)
  <2>1. /\ call' = [call EXCEPT ![r] = NoCall] /\ UNCHANGED <<heap, hdr>> /\ ~Busy(r)
    BY <1>6 DEF NextItem, Busy, At
  <2> QED BY <1>b, <2>1
<1> QED BY <1>1, <1>2, <1>3, <1>4, <1>5, <1>6 DEF ServeStep, RequestStep

\* A request that is served and does not flush, and a process that is not up, leave
\* no flush under way.
LEMMA NoneFlushes ==
    ASSUME OneAtATime, ~Up \/ \E r \in InFlight : ~In(r, "flush")
    PROVE  \A p \in Callers : Flushing(p, "idle")
<1> SUFFICES ASSUME NEW p \in Callers, ~Flushing(p, "idle") PROVE FALSE
  OBVIOUS
<1>1. p \in InFlight /\ In(p, "flush")
  BY DEF OneAtATime, InFlight, Working, In
<1> QED BY <1>1 DEF OneAtATime

\* The requests and the store are as they were.
LEMMA ServiceStays ==
    ASSUME NEW S, Serial(S), UNCHANGED <<heap, hdr, call, st>>
    PROVE  /\ Orderly(S)' /\ Held' = Held /\ InFlight' = InFlight /\ LastInUse' = LastInUse
           /\ \A q \in Callers : Busy(q)' = Busy(q)
           /\ \A r \in Requests : r \in InFlight' \/ In(r, "new")' => Served(r)'
<1>1. Orderly(S)' /\ Held' = Held
  BY OrderlyStays DEF Serial
<1>2. \A r \in Requests : Served(r) => Served(r)'
  BY ServedStays
<1> QED BY <1>1, <1>2 DEF Serial, InFlight, In, Busy, LastInUse, At

\* The steps of a request other than its flush and its answer (manager.go:87-163).
LEMMA ServeSerial ==
    ASSUME ServerInv, NEW S, Takes(S), Serial(S), Fits(S), NEW r \in Requests, Serve(r)
    PROVE  /\ Serial(S)' /\ HeldGrows /\ r \in InFlight /\ ~In(r, "flush")
           /\ Alone(r) /\ ServeStep(r) /\ Served(r)' /\ st'[r].body = st[r].body
           /\ \A q \in Callers \ {r} : call'[q] = call[q]
           /\ \A q \in Requests \ {r} : st'[q] = st[q] /\ q \notin InFlight
           /\ \A q \in Callers : Flushing(q, "idle")
           /\ st'[r].pc # "ok"
<1>a. /\ Orderly(S) /\ OneAtATime /\ Up /\ srv' = srv /\ UNCHANGED <<file, flush>>
      /\ Requests \subseteq Callers /\ Main \in Callers \ Requests
      /\ ServeStep(r) /\ ManagerInv /\ RequestsTypeOK /\ Orderly(Proper)
  BY SerialTypes, OrderlyProper DEF Takes, Serial, Serve, fileVars, ServeStep
<1>b. r \in InFlight /\ ~In(r, "flush")
  BY <1>a, ServeInFlight DEF OneAtATime, Up
<1>c. /\ \A q \in Callers : Flushing(q, "idle")
      /\ \A q \in Requests \ {r} : q \notin InFlight
      /\ Alone(r)
  <2>1. \A q \in Callers : Flushing(q, "idle")
    BY <1>a, <1>b, NoneFlushes
  <2>2. \A q \in Requests \ {r} : q \notin InFlight
    BY <1>a, <1>b DEF OneAtATime
  <2>3. Alone(r)
    BY <1>a, <1>b, <2>2 DEF Serial, OneAtATime, InFlight, Working, Up, Alone
  <2> QED BY <2>1, <2>2, <2>3
<1>d. /\ HeldGrows /\ Served(r)'
      /\ \A q \in Callers \ {r} : call'[q] = call[q]
      /\ Busy(r)' => st'[r].pc \in {"known", "store"}
      /\ \A q \in Requests \ {r} : st'[q] = st[q]
      /\ st'[r].body = st[r].body /\ st'[r].pc \notin {"new", "ok"}
  BY <1>a, <1>c, ServeServed
<1>e. Orderly(S)'
  BY <1>a, <1>c, ServeWithin DEF Alone
<1>1. InFlight' \subseteq {r}
  BY <1>c, <1>d DEF InFlight
<1>2. OneAtATime'
  <2>1. \A q \in Callers : Busy(q)' => q = r /\ st'[r].pc \in {"known", "store"}
    BY <1>a, <1>c, <1>d DEF Busy, Alone
  <2>2. \A q \in Callers : Flushing(q, "idle")'
    BY <1>a, <1>c DEF Flushing
  <2> QED BY <1>a, <1>1, <2>1, <2>2 DEF OneAtATime, Up
<1>3. \A q \in Requests : q \in InFlight' \/ In(q, "new")' => Served(q)'
  <2> SUFFICES ASSUME NEW q \in Requests \ {r}, In(q, "new")' PROVE Served(q)'
    BY <1>1, <1>d
  <2>1. st'[q] = st[q] /\ In(q, "new") /\ Served(q)
    BY <1>d DEF Serial, In
  <2> QED BY <2>1 DEF Served, Knows, In, Working
<1>4. (\A p \in Callers : Copied(p))'
  BY <1>a, <1>c DEF Copied, Flushing
<1>5. OnDisk(S)' /\ Loading'
  BY <1>a DEF Serial, OnDisk, Loading, Up
<1> QED BY <1>a, <1>b, <1>c, <1>d, <1>e, <1>2, <1>3, <1>4, <1>5 DEF Serial

\* While a flush is under way the slice is as long as it says, its keys apart.
LEMMA FlushAlone ==
    ASSUME ServerInv, NEW S, Serial(S), NEW p \in Callers, ~Flushing(p, "idle")
    PROVE  /\ p \in InFlight /\ In(p, "flush") /\ Up
           /\ \A q \in Callers \ {p} : Flushing(q, "idle")
           /\ \A q \in Callers : ~Busy(q)
           /\ LastInUse = hdr.len
           /\ Keyed(S, heap[hdr.ptr], hdr.len) /\ hdr.len <= Len(heap[hdr.ptr])
<1>1. p \in InFlight /\ In(p, "flush")
  BY DEF Serial, OneAtATime, InFlight, Working, In
<1>2. \A q \in Callers \ {p} : Flushing(q, "idle")
  BY <1>1 DEF Serial, OneAtATime, InFlight, Working, In
<1>3. Up /\ \A q \in Callers : ~Busy(q)
  BY <1>1 DEF Serial, OneAtATime, InFlight, Working, In, Up
<1>4. LastInUse = hdr.len
  BY <1>3 DEF LastInUse, Busy, At
<1> QED BY <1>1, <1>2, <1>3, <1>4 DEF Serial, Orderly

\* The steps of a flush that is the only one (file.go:41-70): what it writes is what
\* memory holds.
LEMMA FlushSerial ==
    ASSUME ServerInv, NEW S, Takes(S), Serial(S), NEW p \in Callers, FlushStep(p),
           UNCHANGED <<managerVars, srv>>
    PROVE  /\ Serial(S)'
           /\ Write(p) => /\ file'.kind = "whole" /\ Len(file'.data) = LastInUse
                          /\ \A j \in 1..LastInUse : file'.data[j] = heap[hdr.ptr][j]
<1> DEFINE h == heap[hdr.ptr]
           n == hdr.len
           f == flush[p]
<1>a. /\ p \in InFlight /\ In(p, "flush") /\ Up /\ ~Flushing(p, "idle")
      /\ \A q \in Callers \ {p} : Flushing(q, "idle")
      /\ LastInUse = n
      /\ Keyed(S, h, n) /\ n <= Len(h) /\ n \in Nat /\ h \in Seq(Metric)
      /\ f \in FlushIn(Metric) /\ flush \in [Callers -> FlushIn(Metric)]
      /\ Copied(p) /\ OnDisk(S) /\ p \in Requests
  <2>1. ~Flushing(p, "idle")
    BY DEF FlushStep, OpenTrunc, GetBatch, Marshal, MarshalFails, Write, IOError, Flushing
  <2>2. p \in Requests
    BY <2>1 DEF Serial, OneAtATime
  <2> QED BY <2>1, <2>2, FlushAlone, SerialTypes DEF Serial, SavedIn
<1>e. OnDisk(S)' <=> Keyed(S, file'.data, Len(file'.data)) /\ (file'.kind # "whole" => file'.data = <<>>)
  BY DEF OnDisk, Keyed
\* What is left to show is what becomes of this flush.
<1>b. ASSUME NEW STATE x, flush' = [flush EXCEPT ![p] = x], x.pc # "idle",
             OnDisk(S)', Copied(p)'
      PROVE  Serial(S)'
  <2>1. flush'[p] = x /\ \A q \in Callers \ {p} : flush'[q] = flush[q]
    BY <1>a, <1>b
  <2>2. /\ Orderly(S)' /\ InFlight' = InFlight
        /\ \A r \in Requests : r \in InFlight' \/ In(r, "new")' => Served(r)'
    BY ServiceStays DEF managerVars
  <2>3. OneAtATime'
    <3>1. \A q \in Callers : ~Flushing(q, "idle")' => q = p
      BY <1>a, <2>1 DEF Flushing
    <3>2. UNCHANGED <<call, st, srv>>
      BY DEF managerVars
    <3> QED BY <1>a, <2>2, <3>1, <3>2 DEF Serial, OneAtATime, Busy, Up, In
  <2>4. \A q \in Callers : Copied(q)'
    BY <1>a, <1>b, <2>1 DEF Copied, Flushing
  <2>5. Loading'
    BY <1>a DEF Loading, Up
  <2> QED BY <1>b, <2>2, <2>3, <2>4, <2>5 DEF Serial
<1>c. UNCHANGED <<heap, hdr>>
  BY DEF managerVars
<1>d. ASSUME NEW kind PROVE Holding(kind).data = <<>> /\ Holding(kind).kind = kind
  BY DEF Holding
<1>1. CASE OpenTrunc(p)
  <2> DEFINE x == [f EXCEPT !.pc = "list"]
  <2>1. flush' = [flush EXCEPT ![p] = x] /\ f.pc = "open" /\ file' = Holding("empty")
    BY <1>1 DEF OpenTrunc, Flushing
  <2>2. x.pc = "list" /\ x.data = <<>> /\ flush'[p] = x
    BY <1>a, <2>1 DEF FlushIn, Copied
  <2> HIDE DEF x
  <2>3. Copied(p)'
    BY <2>1, <2>2 DEF Copied, Flushing
  <2>4. OnDisk(S)'
    <3>1. file'.data = <<>>
      BY <1>d, <2>1
    <3> QED BY <1>e, <3>1 DEF Keyed
  <2> QED BY <1>1, <1>b, <2>1, <2>2, <2>3, <2>4 DEF Write, Flushing
<1>2. CASE GetBatch(p)
  <2> DEFINE x == [f EXCEPT !.pc = "marshal", !.at = hdr]
  <2>1. flush' = [flush EXCEPT ![p] = x] /\ f.pc = "list" /\ file' = file
    BY <1>2 DEF GetBatch, Flushing
  <2>2. x.pc = "marshal" /\ x.at = hdr /\ x.data = <<>> /\ flush'[p] = x
    BY <1>a, <2>1 DEF FlushIn, Copied
  <2> HIDE DEF x
  <2>3. Copied(p)'
    BY <1>a, <1>c, <2>1, <2>2 DEF Copied, Flushing
  <2>4. OnDisk(S)'
    BY <1>a, <2>1 DEF OnDisk
  <2> QED BY <1>2, <1>b, <2>1, <2>2, <2>3, <2>4 DEF Write, Flushing
<1>3. CASE Marshal(p)
  <2> DEFINE cell == NextCell(p)
             d == Append(f.data, cell)
             x == [f EXCEPT !.data = d]
  <2>1. /\ flush' = [flush EXCEPT ![p] = x] /\ f.pc = "marshal" /\ file' = file
        /\ f.at = hdr /\ Len(f.data) < n
    BY <1>3, <1>a DEF Marshal, MoreToMarshal, Flushing, Copied
  <2>2. cell = h[Len(f.data) + 1] /\ f.data \in Seq(Metric) /\ file = Holding("empty")
        /\ \A j \in 1..Len(f.data) : f.data[j] = h[j]
    BY <1>a, <2>1 DEF NextCell, CellAt, FlushIn, Copied, Flushing
  <2> HIDE DEF cell
  <2>3. Len(d) = Len(f.data) + 1 /\ Len(d) <= n /\ \A j \in 1..Len(d) : d[j] = h[j]
    BY <1>a, <2>1, <2>2
  <2>4. x.pc = "marshal" /\ x.at = hdr /\ x.data = d /\ flush'[p] = x
    BY <1>a, <2>1 DEF FlushIn
  <2> HIDE DEF x, d
  <2>5. Copied(p)'
    BY <1>c, <2>1, <2>2, <2>3, <2>4 DEF Copied, Flushing
  <2>6. OnDisk(S)'
    BY <1>a, <2>1 DEF OnDisk
  <2>7. ~Write(p)
    BY <1>3 DEF Marshal, Write
  <2> QED BY <1>b, <2>1, <2>4, <2>5, <2>6, <2>7
<1>4. CASE MarshalFails(p) \/ Write(p) \/ IOError(p)
  <2> DEFINE x == [f EXCEPT !.pc = "done"]
             mine == [kind |-> "whole", data |-> f.data]
  <2>1. flush' = [flush EXCEPT ![p] = x]
    BY <1>4 DEF MarshalFails, Write, IOError
  <2>2. x.pc = "done" /\ flush'[p] = x
    BY <1>a, <2>1 DEF FlushIn
  <2> HIDE DEF x
  <2>3. Copied(p)'
    BY <2>2 DEF Copied, Flushing
  <2>4. Write(p) => /\ file' = mine /\ Len(f.data) = n
                    /\ \A j \in 1..n : f.data[j] = h[j]
    <3> SUFFICES ASSUME Write(p)
                 PROVE  /\ file' = mine /\ Len(f.data) = n
                        /\ \A j \in 1..n : f.data[j] = h[j]
      OBVIOUS
    <3>1. /\ f.pc = "marshal" /\ f.at = hdr /\ Len(f.data) <= n /\ file = Holding("empty")
          /\ \A j \in 1..Len(f.data) : f.data[j] = h[j]
      BY <1>a DEF Write, Copied, Flushing
    <3>2. Len(f.data) \in Nat /\ ~(Len(f.data) < n)
      BY <1>a, <3>1 DEF Write, MoreToMarshal, FlushIn
    <3>3. file' = mine
      BY <1>d, <3>1 DEF Write
    <3> QED BY <1>a, <3>1, <3>2, <3>3
  <2>5. OnDisk(S)'
    <3>1. CASE Write(p)
      <4>1. file'.data = f.data /\ file'.kind = "whole" /\ Len(f.data) = n
        BY <2>4, <3>1
      <4> QED BY <1>a, <1>e, <2>4, <3>1, <4>1 DEF Keyed
    <3>2. CASE MarshalFails(p) \/ IOError(p)
      <4>1. file' = file \/ file' = Holding("torn")
        BY <3>2 DEF MarshalFails, IOError
      <4>2. CASE file' = file
        BY <1>a, <4>2 DEF OnDisk
      <4>3. CASE file' = Holding("torn")
        <5>1. file'.data = <<>>
          BY <1>d, <4>3
        <5> QED BY <1>e, <5>1 DEF Keyed
      <4> QED BY <4>1, <4>2, <4>3
    <3> QED BY <1>4, <3>1, <3>2
  <2>6. Serial(S)'
    <3>1. x.pc # "idle"
      BY <2>2
    <3> QED BY <1>b, <2>1, <2>3, <2>5, <3>1
  <2>7. Write(p) => file'.kind = "whole" /\ file'.data = f.data
    BY <2>4
  <2> QED BY <1>a, <2>4, <2>6, <2>7
<1> QED BY <1>1, <1>2, <1>3, <1>4 DEF FlushStep

\* The file has the metrics of memory, in their order.
Mirrors ==
    /\ Len(file.data) = LastInUse
    /\ \A j \in 1..LastInUse : file.data[j] = heap[hdr.ptr][j]

\* The start of a process, with no request open (main.go:31-74): what it finds in the
\* file it has in memory once it is up.
LEMMA StartSerial ==
    ASSUME ServerInv, NEW S, Takes(S), Serial(S), Boot \/ LoadNext \/ LoadStep \/ Loaded
    PROVE  /\ Serial(S)' /\ UNCHANGED <<st, file, flush, ioErrors, exits>> /\ ~Up
           /\ Up' /\ Restore /\ Len(file.data) <= ScanLimit => Mirrors'
<1>a. /\ Orderly(S) /\ OneAtATime /\ ~Up /\ InFlight = {} /\ Loading /\ OnDisk(S)
      /\ UNCHANGED <<st, file, flush, ioErrors, exits>>
      /\ StoreIn(Metric, heap, hdr, call) /\ Overwrites(S)
      /\ Requests \subseteq Callers /\ Main \in Callers \ Requests
      /\ srv \in [pc : Phases, n : Nat] /\ file.data \in Seq(Metric)
  <2>1. ~Up /\ UNCHANGED <<st, file, flush, ioErrors, exits>>
    BY DEF Boot, LoadNext, LoadStep, Loaded, Up, managerVars, fileVars
  <2> QED BY <2>1, SerialTypes, TakesOverwrites DEF Serial, OneAtATime
<1>b. /\ \A q \in Callers : Flushing(q, "idle")
      /\ \A q \in Callers : Busy(q) => q = Main /\ srv.pc = "restoring"
  <2>1. \A q \in Callers : Flushing(q, "idle")
    BY <1>a, NoneFlushes
  <2> QED BY <1>a, <2>1 DEF OneAtATime, InFlight, Working
\* What is left to show is what becomes of Main's call, and of what it loads.
<1>c. ASSUME Orderly(S)', \A q \in Callers \ {Main} : call'[q] = call[q],
             Busy(Main)' => srv'.pc = "restoring", Loading'
      PROVE  Serial(S)'
  <2>1. InFlight' = {}
    BY <1>a DEF InFlight
  <2>2. \A q \in Callers : Busy(q)' => q = Main
    BY <1>b, <1>c DEF Busy
  <2>3. \A q \in Callers : Flushing(q, "idle")'
    BY <1>a, <1>b DEF Flushing
  <2>4. OneAtATime'
    BY <1>c, <2>1, <2>2, <2>3 DEF OneAtATime
  <2>5. \A r \in Requests : r \in InFlight' \/ In(r, "new")' => Served(r)'
    <3> SUFFICES ASSUME NEW r \in Requests, In(r, "new") PROVE Served(r)'
      BY <1>a, <2>1 DEF In
    <3> QED BY <1>a DEF Serial, Served, Knows, In, Working
  <2>6. (\A p \in Callers : Copied(p))'
    BY <2>3 DEF Copied, Flushing
  <2>7. OnDisk(S)'
    BY <1>a DEF OnDisk
  <2> QED BY <1>c, <2>4, <2>5, <2>6, <2>7 DEF Serial
<1>1. CASE Boot
  <2>1. /\ UNCHANGED <<heap, hdr, call>> /\ srv.pc \in {"down", "stopped"} /\ LastInUse = 0
        /\ srv' = [pc |-> IF Restore /\ Loadable # <<>> THEN "restoring" ELSE "up", n |-> 0]
    BY <1>1, <1>a DEF Boot, managerVars, Loading
  <2>2. ~Busy(Main)' /\ call' = call /\ LastInUse' = 0
    BY <1>a, <1>b, <2>1 DEF Busy, LastInUse, At
  <2>3. srv'.n = 0 /\ srv'.pc = IF Restore /\ Loadable # <<>> THEN "restoring" ELSE "up"
    BY <2>1
  <2>4. Loading'
    <3>1. CASE Restore /\ Loadable # <<>>
      <4>1. Loadable = file.data /\ Loadable' = Loadable
        BY <1>a, <3>1 DEF Loadable
      <4> QED BY <1>a, <2>2, <2>3, <3>1, <4>1 DEF Loading
    <3>2. CASE ~(Restore /\ Loadable # <<>>)
      BY <2>3, <3>2 DEF Loading
    <3> QED BY <3>1, <3>2
  <2>5. Up' /\ Restore /\ Len(file.data) <= ScanLimit => Mirrors'
    <3> SUFFICES ASSUME Up', Restore, Len(file.data) <= ScanLimit PROVE Mirrors'
      OBVIOUS
    <3>1. Loadable = <<>>
      BY <2>3 DEF Up
    <3>2. file.data = <<>>
      BY <1>a, <3>1 DEF Loadable, OnDisk
    <3> QED BY <1>a, <2>2, <3>2 DEF Mirrors
  <2>6. Orderly(S)'
    BY <1>a, <2>1, OrderlyStays
  <2> QED BY <1>a, <1>c, <2>2, <2>4, <2>5, <2>6
<1>2. CASE LoadNext
  <2> DEFINE m == file.data[srv.n + 1]
             c == NewCall("upsert", m)
  <2>1. /\ srv.pc = "restoring" /\ srv.n < Len(file.data) /\ Loadable = file.data
        /\ srv' = [srv EXCEPT !.n = @ + 1] /\ UNCHANGED <<heap, hdr>>
        /\ call' = [call EXCEPT ![Main] = c] /\ ~Busy(Main)
    BY <1>2, <1>a DEF LoadNext, Loading, Calls, Busy, At
  <2>2. m \in S
    BY <1>a, <2>1 DEF OnDisk, Keyed
  <2>3. \E op, x : c = NewCall(op, x) /\ (op = "upsert" => x \in S)
    BY <2>2
  <2>4. \A q \in Callers : ~Busy(q)
    BY <1>b, <2>1
  <2>5. c.op = "upsert" /\ c.m = m /\ c.pc = "find"
    BY DEF NewCall
  <2> HIDE DEF c
  <2>6. /\ Orderly(S)' /\ Held' = Held
        /\ call'[Main] = c /\ \A q \in Callers \ {Main} : call'[q] = call[q]
    BY <1>a, <2>1, <2>3, <2>4, StartOrderly
  <2>7. LastInUse' = LastInUse
    BY <2>1, <2>4, <2>5, <2>6 DEF LastInUse, Busy, At
  <2>8. srv'.pc = "restoring" /\ srv'.n = srv.n + 1
    BY <1>a, <2>1
  <2>9. LastInUse = srv.n /\ \A j \in 1..LastInUse : heap[hdr.ptr][j] = file.data[j]
    BY <1>a, <2>1 DEF Loading
  <2>a. Busy(Main)' /\ ~At(Main, "idle")'
    BY <2>5, <2>6 DEF Busy, At
  <2>b. /\ Loadable' = file'.data /\ srv'.n <= Len(file'.data)
        /\ srv'.n > 0 /\ call'[Main].op = "upsert" /\ call'[Main].m = file'.data[srv'.n]
        /\ LastInUse' = srv'.n - 1
    <3>1. Loadable' = Loadable
      BY <1>a DEF Loadable
    <3> QED BY <1>a, <2>1, <2>5, <2>6, <2>7, <2>8, <2>9, <3>1
  <2>c. Loading'
    BY <1>a, <2>1, <2>7, <2>8, <2>9, <2>a, <2>b DEF Loading
  <2> QED BY <1>a, <1>c, <2>6, <2>8, <2>c DEF Up
<1>3. CASE LoadStep
  <2>1. /\ srv.pc = "restoring" /\ srv' = srv /\ StoreStep(Main)
        /\ \A q \in Callers \ {Main} : ~Busy(q)
    BY <1>3, <1>a, <1>b DEF LoadStep
  <2>2. Orderly(S)' /\ \A q \in Callers \ {Main} : call'[q] = call[q]
    BY <1>a, <2>1, StepOrderly
  <2>3. Busy(Main)
    BY <2>1 DEF StoreStep, FindNext, FindHit, FindMiss, Fetch, Update, LoadRoom,
       LoadFull, Extend, Swap, Fill, Shift, Shrink, Busy, At
  <2> DEFINE n == srv.n
             d == file.data
             u == LastInUse
  <2>4. /\ Loadable = d /\ n <= Len(d) /\ n > 0 /\ n \in Nat
        /\ call[Main].op = "upsert" /\ call[Main].m = d[n] /\ u = n - 1
        /\ \A j \in 1..u : heap[hdr.ptr][j] = d[j]
    BY <1>a, <2>1, <2>3 DEF Loading
  <2>5. Fresh(heap[hdr.ptr], d[n], u)
    <3> SUFFICES ASSUME NEW j \in 1..u PROVE ~SameKey(d[j], d[n])
      BY <2>4 DEF Fresh
    <3>1. j \in 1..Len(d) /\ n \in 1..Len(d) /\ j # n
      BY <1>a, <2>4
    <3> QED BY <1>a, <3>1 DEF OnDisk, Keyed
  <2>6. /\ call'[Main].op = "upsert" /\ call'[Main].m = d[n] /\ ~At(Main, "idle")'
        /\ LastInUse' = IF Busy(Main)' THEN u ELSE u + 1
        /\ \A j \in 1..u : heap'[hdr'.ptr][j] = heap[hdr.ptr][j]
        /\ ~Busy(Main)' => heap'[hdr'.ptr][LastInUse'] = d[n]
    BY <1>a, <2>1, <2>4, <2>5, AppendsInOrder
  <2>7. Loadable' = d /\ srv'.n = n /\ file'.data = d
    BY <1>a, <2>1, <2>4 DEF Loadable
  <2> HIDE DEF n, d, u
  <2>8. LastInUse' = IF Busy(Main)' THEN n - 1 ELSE n
    BY <2>4, <2>6
  <2>9. \A j \in 1..LastInUse' : heap'[hdr'.ptr][j] = d[j]
    <3> TAKE j \in 1..LastInUse'
    <3>1. j \in 1..u \/ (~Busy(Main)' /\ j = LastInUse' /\ j = n)
      BY <2>4, <2>6, <2>8
    <3> QED BY <2>4, <2>6, <3>1
  <2>a. Loading'
    BY <2>1, <2>4, <2>6, <2>7, <2>8, <2>9 DEF Loading
  <2> QED BY <1>a, <1>c, <2>1, <2>2, <2>a DEF Up
<1>4. CASE Loaded
  <2>1. /\ srv.pc = "restoring" /\ srv.n = Len(file.data) /\ ~Busy(Main)
        /\ srv'.pc = "up" /\ UNCHANGED <<heap, hdr>> /\ call' = [call EXCEPT ![Main] = NoCall]
    BY <1>4, <1>a DEF Loaded, Loading, Busy, At
  <2>2. \A q \in Callers : ~Busy(q)
    BY <1>b, <2>1
  <2>3. Orderly(S)' /\ call'[Main] = NoCall /\ \A q \in Callers \ {Main} : call'[q] = call[q]
    BY <1>a, <2>1, <2>2, StartOrderly
  <2>4. ~Busy(Main)' /\ LastInUse' = LastInUse
    <3>1. NoCall.pc = "idle"
      BY DEF NoCall
    <3> HIDE DEF NoCall
    <3> QED BY <2>1, <2>2, <2>3, <3>1 DEF Busy, LastInUse, At
  <2>5. Mirrors'
    BY <1>a, <2>1, <2>4 DEF Loading, Mirrors
  <2>6. Loading'
    BY <2>1 DEF Loading
  <2> QED BY <1>a, <1>c, <2>3, <2>4, <2>5, <2>6
<1> QED BY <1>1, <1>2, <1>3, <1>4

\* A process that ends leaves an empty slice, and the file.
LEMMA EndSerial ==
    ASSUME ServerInv, NEW S, Serial(S), NEW phase \in Phases, EndProcess(phase),
           phase # "restoring"
    PROVE  Serial(S)'
<1>1. /\ heap' = << <<>> >> /\ hdr' = [ptr |-> 1, len |-> 0]
      /\ \A p \in Callers : call'[p] = NoCall /\ flush'[p] = NoFlush
      /\ file' = file /\ srv'.pc = phase
  BY DEF EndProcess, MemoryLost, GoroutinesEnd
<1>2. \A p \in Callers : call'[p].pc = "idle" /\ flush'[p].pc = "idle"
  <2>1. NoCall.pc = "idle" /\ NoFlush.pc = "idle"
    BY DEF NoCall, NoFlush
  <2> HIDE DEF NoCall, NoFlush
  <2> QED BY <1>1, <2>1
<1>3. Orderly(S)' /\ LastInUse' = 0
  <2>1. hdr'.len = 0 /\ heap'[hdr'.ptr] = <<>>
    BY <1>1
  <2>2. \A p \in Callers : CallOrderly(S, p)'
    BY <1>2 DEF CallOrderly, Busy, At
  <2>3. LastInUse' = 0
    BY <1>2, <2>1 DEF LastInUse, At
  <2> QED BY <2>1, <2>2, <2>3 DEF Orderly, Keyed
<1>4. \A r \in Requests : st'[r].pc \notin Working /\ (In(r, "new")' => st'[r] = st[r])
  <2> SUFFICES ASSUME NEW r \in Requests
               PROVE  st'[r].pc \notin Working /\ (st'[r].pc = "new" => st'[r] = st[r])
    BY DEF In
  <2>1. st'[r] = IF r \in InFlight THEN [st[r] EXCEPT !.pc = "aborted"] ELSE st[r]
    BY DEF EndProcess
  <2> QED BY <2>1, SerialTypes DEF InFlight, Working, Request
<1>5. OneAtATime'
  BY <1>2, <1>4 DEF OneAtATime, Busy, Flushing, InFlight
<1>6. \A r \in Requests : r \in InFlight' \/ In(r, "new")' => Served(r)'
  <2> SUFFICES ASSUME NEW r \in Requests, In(r, "new")' PROVE Served(r)'
    BY <1>4 DEF InFlight
  <2>1. st'[r] = st[r] /\ In(r, "new")
    BY <1>4 DEF In
  <2> QED BY <2>1 DEF Serial, Served, Knows, In, Working
<1>7. \A p \in Callers : Copied(p)'
  BY <1>2 DEF Copied, Flushing
<1>8. OnDisk(S)'
  BY <1>1 DEF Serial, OnDisk
<1>9. Loading'
  BY <1>1, <1>3 DEF Loading
<1> QED BY <1>3, <1>5, <1>6, <1>7, <1>8, <1>9 DEF Serial

\* A request is received, flushes first, or is answered.
LEMMA RequestSerial ==
    ASSUME ServerInv, NEW S, Serial(S), NEW r \in Requests,
           \/ Accept(r) /\ InFlight = {}
           \/ FlushAfterUpdate(r)
           \/ Answer(r)
    PROVE  Serial(S)' /\ Up /\ UNCHANGED <<file, srv, heap, hdr, call, ioErrors, exits>>
<1>a. /\ Orderly(S) /\ OneAtATime /\ Up /\ UNCHANGED <<file, srv, heap, hdr, call, ioErrors, exits>>
      /\ OnDisk(S) /\ \A q \in Callers : Copied(q)
      /\ Requests \subseteq Callers /\ Main \in Callers \ Requests
      /\ st \in [Requests -> Request] /\ flush \in [Callers -> FlushIn(Metric)]
  BY SerialTypes DEF Serial, Accept, FlushAfterUpdate, Answer, Receive, Reply, managerVars,
     fileVars, SavedIn
<1>b. /\ Orderly(S)' /\ \A q \in Callers : Busy(q)' = Busy(q)
      /\ OnDisk(S)' /\ Loading' /\ Up'
  BY <1>a, OrderlyStays DEF Busy, OnDisk, Loading, Up
\* A request that is not yet received stays so.
<1>c. ASSUME NEW q \in Requests \ {r}, st'[q] = st[q], In(q, "new")'
      PROVE  Served(q)'
  BY <1>c DEF Serial, Served, Knows, In, Working
<1>1. CASE Accept(r) /\ InFlight = {}
  <2>1. /\ flush' = flush /\ \A q \in Callers : ~Busy(q) /\ Flushing(q, "idle")
    <3>1. flush' = flush
      BY <1>1 DEF Accept, fileVars
    <3>2. \A q \in Requests : st[q].pc \notin Working
      BY <1>1 DEF InFlight
    <3>3. \A q \in Callers : ~Busy(q)
      BY <1>a, <3>2 DEF OneAtATime, Working, Up
    <3>4. \A q \in Callers : Flushing(q, "idle")
      BY <1>a, <3>2 DEF OneAtATime, Working, In
    <3> QED BY <3>1, <3>3, <3>4
  <2>2. /\ \A q \in Requests \ {r} : st'[q] = st[q]
        /\ Served(r)'
    <3>1. Receive(r) /\ Served(r)
      BY <1>1 DEF Accept, Receive, Serial
    <3> QED BY <1>a, <3>1, ReceiveServed
  <2>3. InFlight' \subseteq {r}
    BY <1>1, <2>2 DEF InFlight
  <2>4. OneAtATime'
    <3>1. \A q \in Callers : ~Busy(q)' /\ Flushing(q, "idle")'
      BY <1>b, <2>1 DEF Flushing
    <3>2. \A q, k \in InFlight' : q = k
      BY <2>3
    <3> QED BY <1>b, <3>1, <3>2 DEF OneAtATime
  <2>5. \A q \in Requests : q \in InFlight' \/ In(q, "new")' => Served(q)'
    BY <1>c, <2>2, <2>3
  <2>6. \A q \in Callers : Copied(q)'
    BY <2>1 DEF Copied, Flushing
  <2> QED BY <1>a, <1>b, <2>4, <2>5, <2>6 DEF Serial
<1>2. CASE FlushAfterUpdate(r)
  <2> DEFINE x == [NoFlush EXCEPT !.pc = "open"]
  <2>1. flush' = [flush EXCEPT ![r] = x] /\ In(r, "flush") /\ UNCHANGED st
    BY <1>2 DEF FlushAfterUpdate, StartFlush, managerVars
  <2>2. x.pc = "open" /\ x.data = <<>>
    BY DEF NoFlush
  <2> HIDE DEF x
  <2>3. flush'[r] = x /\ \A q \in Callers \ {r} : flush'[q] = flush[q]
    BY <1>a, <2>1
  <2>4. OneAtATime'
    BY <1>a, <1>b, <2>1, <2>3 DEF OneAtATime, InFlight, Flushing, Up, In
  <2>5. \A q \in Callers \ {r} : Flushing(q, "idle")
    BY <1>a, <2>1 DEF OneAtATime, InFlight, Working, In
  <2>6. \A q \in Callers : Copied(q)'
    BY <1>a, <2>2, <2>3, <2>5 DEF Copied, Flushing
  <2>7. \A q \in Requests : q \in InFlight' \/ In(q, "new")' => Served(q)'
    BY <1>a, <2>1, ServiceStays
  <2> QED BY <1>a, <1>b, <2>4, <2>6, <2>7 DEF Serial
<1>3. CASE Answer(r)
  <2>1. /\ flush' = [flush EXCEPT ![r] = NoFlush] /\ In(r, "flush")
        /\ st' = [st EXCEPT ![r].pc = "ok"]
    BY <1>3 DEF Answer, Reply, Goto
  <2>2. NoFlush.pc = "idle"
    BY DEF NoFlush
  <2>3. \A q \in Callers \ {r} : Flushing(q, "idle") /\ (q \in Requests => q \notin InFlight)
    BY <1>a, <2>1 DEF OneAtATime, InFlight, Working, In
  <2> HIDE DEF NoFlush
  <2>4. flush'[r] = NoFlush /\ \A q \in Callers \ {r} : flush'[q] = flush[q]
    BY <1>a, <2>1
  <2>5. \A q \in Callers : Flushing(q, "idle")'
    BY <2>2, <2>3, <2>4 DEF Flushing
  <2>6. InFlight' = {}
    <3>1. \A q \in Requests : st'[q].pc \notin Working
      BY <1>a, <2>1, <2>3 DEF InFlight, Working, Request
    <3> QED BY <3>1 DEF InFlight
  <2>7. \A q \in Callers : ~Busy(q)
    BY <1>a, <2>1 DEF OneAtATime, InFlight, Working, In, Up
  <2>8. OneAtATime'
    BY <1>b, <2>5, <2>6, <2>7 DEF OneAtATime
  <2>9. \A q \in Callers : Copied(q)'
    BY <2>5 DEF Copied, Flushing
  <2>10. \A q \in Requests : q \in InFlight' \/ In(q, "new")' => Served(q)'
    <3>1. st'[r].pc = "ok" /\ \A q \in Requests \ {r} : st'[q] = st[q]
      BY <1>a, <2>1
    <3> QED BY <1>c, <2>6, <3>1 DEF In
  <2> QED BY <1>a, <1>b, <2>8, <2>9, <2>10 DEF Serial
<1> QED BY <1>1, <1>2, <1>3

\* Before the first process nothing is under way, and nothing on disk.
LEMMA SerialInit == ASSUME Init, NEW S PROVE Serial(S)
<1>1. /\ heap = << <<>> >> /\ hdr = [ptr |-> 1, len |-> 0] /\ file = Holding("none")
      /\ \A p \in Callers : call[p] = NoCall /\ flush[p] = NoFlush
      /\ \A r \in Requests : st[r].pc = "new" /\ st[r].i = 1
      /\ srv.pc = "down"
  <2>1. heap = << <<>> >> /\ hdr = [ptr |-> 1, len |-> 0] /\ \A p \in Callers : call[p] = NoCall
    BY DEF Init, ManagerInit, StoreInit
  <2>2. file = Holding("none") /\ (\A p \in Callers : flush[p] = NoFlush) /\ srv.pc = "down"
    BY DEF Init, FileInit
  <2>3. \A r \in Requests : st[r].pc = "new" /\ st[r].i = 1
    BY DEF Init, ManagerInit
  <2> QED BY <2>1, <2>2, <2>3
<1>2. \A p \in Callers : call[p].pc = "idle" /\ flush[p].pc = "idle"
  <2>1. NoCall.pc = "idle" /\ NoFlush.pc = "idle"
    BY DEF NoCall, NoFlush
  <2> HIDE DEF NoCall, NoFlush
  <2> QED BY <1>1, <2>1
<1>3. Orderly(S) /\ LastInUse = 0
  <2>1. LastInUse = 0
    BY <1>1, <1>2 DEF LastInUse, At
  <2> QED BY <1>1, <1>2, <2>1, OrderlyInit
<1>4. OneAtATime
  BY <1>1, <1>2 DEF OneAtATime, InFlight, Working, Busy, Flushing
<1>5. \A p \in Callers : Copied(p)
  BY <1>2 DEF Copied, Flushing
<1>6. OnDisk(S)
  BY <1>1 DEF OnDisk, Keyed, Holding
<1>7. \A r \in Requests : Served(r)
  BY <1>1 DEF Served, Knows, In, Working
<1>8. Loading
  BY <1>1, <1>3 DEF Loading
<1> QED BY <1>3, <1>4, <1>5, <1>6, <1>7, <1>8 DEF Serial

\* Every step keeps it, unless it is one that makes requests overlap, or that
\* brings a metric outside S.
LEMMA SerialNext ==
    ASSUME SyncFlush, ServerInv, NEW S, Takes(S), Serial(S), Fits(S), [Next]_vars, ~overlapped'
    PROVE  Serial(S)'
<1>1. CASE Boot \/ LoadNext \/ LoadStep \/ Loaded
  BY <1>1, StartSerial
<1>2. ASSUME NEW r \in Requests, Accept(r) \/ FlushAfterUpdate(r) \/ Answer(r)
      PROVE  Serial(S)'
  <2>1. Accept(r) => InFlight = {}
    BY DEF Accept
  <2> QED BY <1>2, <2>1, RequestSerial
<1>3. ASSUME NEW r \in Requests, Serve(r)
      PROVE  Serial(S)'
  BY <1>3, ServeSerial
<1>4. ASSUME NEW p \in Callers, FlushProgress(p)
      PROVE  Serial(S)'
  BY <1>4, FlushSerial DEF FlushProgress
<1>5. CASE Crash \/ Shutdown
  BY <1>5, EndSerial DEF Crash, Shutdown, Phases
<1>6. CASE UNCHANGED vars
  <2>1. UNCHANGED <<heap, hdr, call, st, file, flush, srv>>
    BY <1>6 DEF vars
  <2>2. /\ Orderly(S)' /\ InFlight' = InFlight /\ \A q \in Callers : Busy(q)' = Busy(q)
        /\ \A r \in Requests : r \in InFlight' \/ In(r, "new")' => Served(r)'
    BY <2>1, ServiceStays
  <2>3. OneAtATime'
    BY <2>1, <2>2 DEF Serial, OneAtATime, Up, Flushing, In
  <2>4. (\A p \in Callers : Copied(p)') /\ OnDisk(S)' /\ Loading'
    BY <2>1 DEF Serial, Copied, OnDisk, Loading, Flushing, LastInUse, At, Busy, Loadable
  <2> QED BY <2>2, <2>3, <2>4 DEF Serial
<1> QED BY <1>1, <1>2, <1>3, <1>4, <1>5, <1>6 DEF Next, Tick

-----------------------------------------------------------------------------
(* What requests carry *)

\* Metrics that JSON can hold, and those that have what their type says.
Sane == {m \in Proper : m.value \notin NotFinite}
Full == {m \in Sane : m.mtype = "counter" => m.delta # Nil}

AllPresent == \A r \in Requests : \A i \in 1..Len(st[r].body) : st[r].body[i].data
Unopened == \A r \in Requests : In(r, "new") => st[r].body = <<>>

\* How much of it holds depends on what the requests have carried so far.
SerialInv ==
    /\ ServerInv /\ Unopened
    /\ SyncFlush /\ ~overlapped => Serial(Proper)
    /\ SyncFlush /\ ~overlapped /\ AllFinite => Serial(Sane)
    /\ SyncFlush /\ ~overlapped /\ AllFinite /\ AllPresent => Serial(Full)

LEMMA SaneTakes == Takes(Sane)
<1> SUFFICES ASSUME NEW m \in Sane, NEW d \in Delta, m.delta # Nil
             PROVE  [m EXCEPT !.delta = d] \in Sane
  BY DEF Takes, Sane
<1>1. [m EXCEPT !.delta = d] \in Proper
  BY ProperTakes DEF Takes, Sane
<1>2. m \in Metric
  BY DEF Sane, Proper
<1>3. [m EXCEPT !.delta = d].value = m.value
  BY <1>2 DEF Metric
<1> QED BY <1>1, <1>3 DEF Sane

LEMMA FullTakes == Takes(Full)
<1> SUFFICES ASSUME NEW m \in Full, NEW d \in Delta, m.delta # Nil
             PROVE  [m EXCEPT !.delta = d] \in Full
  BY SaneTakes DEF Takes, Full
<1>1. [m EXCEPT !.delta = d] \in Sane
  BY SaneTakes DEF Takes, Full
<1>2. m \in Metric
  BY DEF Full, Sane, Proper
<1>3. [m EXCEPT !.delta = d].delta = d
  BY <1>2 DEF Metric
<1> QED BY <1>1, <1>3, NilAssumption DEF Full

\* What requests report is among the metrics they are said to carry.
LEMMA ReportedFits ==
    ASSUME RequestsTypeOK
    PROVE  /\ Fits(Proper)
           /\ AllFinite => Fits(Sane)
           /\ AllFinite /\ AllPresent => Fits(Full)
<1>1. Fits(Proper)
  BY ReportedProper DEF Fits
<1>2. ASSUME AllFinite, NEW r \in Requests, MoreItems(r) PROVE Reported(r) \in Sane
  <2>1. /\ Reported(r) \in Proper /\ st[r].i \in 1..Len(st[r].body)
        /\ Current(r) = st[r].body[st[r].i]
    BY <1>2, ReportedProper DEF Current
  <2>2. /\ Reported(r).value = IF Current(r).mtype = "gauge" /\ Current(r).data
                               THEN <<r, st[r].i>> ELSE Nil
    BY DEF Reported
  <2>3. Nil \notin NotFinite
    BY NilAssumption, FileAssumption
  <2>4. Current(r).mtype = "gauge" => <<r, st[r].i>> \notin NotFinite
    BY <1>2, <2>1 DEF AllFinite
  <2> QED BY <2>1, <2>2, <2>3, <2>4 DEF Sane
<1>3. ASSUME AllFinite, AllPresent, NEW r \in Requests, MoreItems(r) PROVE Reported(r) \in Full
  <2>1. /\ Reported(r) \in Sane /\ st[r].i \in 1..Len(st[r].body)
        /\ Reported(r).mtype = Current(r).mtype
        /\ Counter(r, st[r].i) => Reported(r).delta # Nil
        /\ Current(r) = st[r].body[st[r].i]
    BY <1>2, <1>3, ReportedProper DEF Current
  <2>2. Current(r).mtype = "counter" => Counter(r, st[r].i)
    BY <1>3, <2>1 DEF AllPresent, Counter
  <2> QED BY <2>1, <2>2 DEF Full
<1> QED BY <1>1, <1>2, <1>3 DEF Fits

\* No step but the first gives a request its body, and a request that is rejected
\* stays so.
LEMMA BodiesStay ==
    ASSUME ServerInv, [Next]_vars
    PROVE  \A r \in Requests :
              /\ \/ st'[r].body = st[r].body /\ (In(r, "new")' => In(r, "new"))
                 \/ In(r, "new") /\ ~In(r, "new")'
              /\ In(r, "rejected") => st'[r] = st[r]
              /\ In(r, "ok")' => In(r, "ok") \/ Answer(r)
<1>0. st \in [Requests -> Request] /\ Requests \subseteq Callers
  BY SerialTypes
<1> DEFINE Goal(r) ==
       /\ \/ st'[r].body = st[r].body /\ (In(r, "new")' => In(r, "new"))
          \/ In(r, "new") /\ ~In(r, "new")'
       /\ In(r, "rejected") => st'[r] = st[r]
       /\ In(r, "ok")' => In(r, "ok") \/ Answer(r)
<1> SUFFICES ASSUME NEW r \in Requests, st' # st PROVE Goal(r)
  BY DEF In
<1>1. CASE Crash \/ Shutdown
  <2>1. st' = [q \in Requests |-> IF q \in InFlight THEN [st[q] EXCEPT !.pc = "aborted"] ELSE st[q]]
    BY <1>1 DEF Crash, Shutdown, EndProcess
  <2>2. st'[r] = IF r \in InFlight THEN [st[r] EXCEPT !.pc = "aborted"] ELSE st[r]
    BY <2>1
  <2> QED BY <1>0, <2>2 DEF In, Request, InFlight, Working
<1>2. ASSUME NEW q \in Requests, Receive(q)
      PROVE  Goal(r)
  <2>1. /\ \E b : st' = [st EXCEPT ![q] = [st[q] EXCEPT !.pc = "item", !.body = b]]
        /\ st[q].pc = "new"
    BY <1>2 DEF Receive, In
  <2> QED BY <1>0, <2>1 DEF In, Request
<1>3. ASSUME NEW q \in Requests, RequestStep(q)
      PROVE  Goal(r)
  <2>1. /\ \E s : st' = [st EXCEPT ![q] = s]
        /\ st'[q].body = st[q].body /\ st'[q].pc \notin {"new", "ok"} /\ st[q].pc \in Working
    BY <1>0, <1>3 DEF RequestStep, Reject, StoreOther, AskKnown, Accumulate, NilDelta, Abort,
       NextItem, AllStored, Goto, Request, In, Working
  <2> QED BY <1>0, <2>1 DEF In, Working
<1>4. ASSUME NEW q \in Requests, Answer(q)
      PROVE  Goal(r)
  <2>1. /\ st' = [st EXCEPT ![q].pc = "ok"] /\ st[q].pc = "flush"
    BY <1>4 DEF Answer, Reply, Goto, In
  <2>2. st'[q].body = st[q].body /\ st'[q].pc = "ok" /\ (r # q => st'[r] = st[r])
    BY <1>0, <2>1 DEF Request
  <2> QED BY <1>4, <2>1, <2>2 DEF In
<1> QED BY <1>1, <1>2, <1>3, <1>4 DEF Next, Boot, LoadNext, LoadStep, Loaded, Tick,
       Accept, Serve, FlushAfterUpdate, FlushProgress, managerVars, vars

LEMMA UnopenedNext ==
    ASSUME ServerInv, Unopened, [Next]_vars PROVE Unopened'
BY BodiesStay DEF Unopened, In

\* A step that does not fail, and what it may do to the bounds of a behaviour.
LEMMA CountsGrow ==
    ASSUME ServerInv, [Next]_vars
    PROVE  /\ overlapped => overlapped'
           /\ ioErrors' = ioErrors \/ ioErrors' = ioErrors + 1
           /\ exits' = exits \/ exits' = exits + 1
<1>1. CASE Crash \/ Shutdown
  BY <1>1 DEF Crash, Shutdown, EndProcess
<1>2. ASSUME NEW r \in Requests, Accept(r)
      PROVE  overlapped => overlapped'
  BY <1>2, Zenon DEF Accept
<1>3. ASSUME NEW p \in Callers, FlushProgress(p)
      PROVE  ioErrors' = ioErrors \/ ioErrors' = ioErrors + 1
  BY <1>3 DEF FlushProgress, FlushStep, OpenTrunc, GetBatch, Marshal, MarshalFails, Write, IOError
<1> QED BY <1>1, <1>2, <1>3 DEF Next, Boot, LoadNext, LoadStep, Loaded, Tick, Accept, Serve,
       FlushAfterUpdate, FlushProgress, Answer, fileVars, vars

\* What is clean now has been so, and so have the requests.
LEMMA CleanBefore ==
    ASSUME ServerInv, Unopened, [Next]_vars
    PROVE  /\ AllFinite' => AllFinite
           /\ AllPresent' => AllPresent
           /\ NoHalfBatch' => NoHalfBatch
           /\ Clean' => Clean
<1>1. \A r \in Requests : st[r].body = <<>> \/ st'[r].body = st[r].body
  BY BodiesStay DEF Unopened
<1>2. AllFinite' => AllFinite
  BY <1>1 DEF AllFinite
<1>3. AllPresent' => AllPresent
  BY <1>1 DEF AllPresent
<1>4. NoHalfBatch' => NoHalfBatch
  BY <1>1, BodiesStay DEF NoHalfBatch, In
<1>5. (overlapped => overlapped') /\ (ioErrors' = 0 => ioErrors = 0)
  BY CountsGrow DEF ServerInv
<1> QED BY <1>2, <1>3, <1>4, <1>5 DEF Clean

LEMMA SerialInvInit == Init => SerialInv
<1> SUFFICES ASSUME Init PROVE SerialInv
  OBVIOUS
<1>1. Unopened
  BY DEF Init, ManagerInit, Unopened
<1>2. Serial(Proper) /\ Serial(Sane) /\ Serial(Full)
  BY SerialInit
<1> QED BY <1>1, <1>2, ServerInitInv DEF SerialInv

LEMMA SerialInvNext == SerialInv /\ [Next]_vars => SerialInv'
<1> SUFFICES ASSUME SerialInv, [Next]_vars PROVE SerialInv'
  OBVIOUS
<1>1. ServerInv /\ ServerInv' /\ Unopened' /\ Unopened /\ RequestsTypeOK
  BY ServerNextInv, UnopenedNext, SerialTypes DEF SerialInv
<1>2. (overlapped => overlapped') /\ (AllFinite' => AllFinite) /\ (AllPresent' => AllPresent)
  BY <1>1, CountsGrow, CleanBefore
<1>3. ASSUME SyncFlush, ~overlapped' PROVE Serial(Proper)'
  BY <1>1, <1>2, <1>3, SerialNext, ProperTakes, ReportedFits DEF SerialInv
<1>4. ASSUME SyncFlush, ~overlapped', AllFinite' PROVE Serial(Sane)'
  BY <1>1, <1>2, <1>4, SerialNext, SaneTakes, ReportedFits DEF SerialInv
<1>5. ASSUME SyncFlush, ~overlapped', AllFinite', AllPresent' PROVE Serial(Full)'
  BY <1>1, <1>2, <1>5, SerialNext, FullTakes, ReportedFits DEF SerialInv
<1> QED BY <1>1, <1>3, <1>4, <1>5 DEF SerialInv

-----------------------------------------------------------------------------
(* The file and memory, what is saved, and what a start finds *)

\* A request that has changed memory, or is about to, and has not flushed it.
Dirty(r) == ~(In(r, "item") /\ st[r].i = 1) /\ ~(In(r, "flush") /\ Flushing(r, "done"))

MirrorInv ==
    SyncFlush /\ Clean /\ NoHalfBatch /\ Restore /\ Up =>
        Len(file.data) > ScanLimit \/ (\E r \in InFlight : Dirty(r)) \/ Mirrors

\* In between the truncation and the write nothing is on disk.
Copying == \E p \in Callers : flush[p].pc \in {"list", "marshal"}
SavedInv ==
    SyncFlush /\ Clean =>
        /\ exits = 0 =>
            /\ srv.pc # "stopped"
            /\ \A r \in Requests : In(r, "ok") => Up /\ Served(r)
            /\ \A r \in Requests :
                  In(r, "ok") \/ (In(r, "flush") /\ Flushing(r, "done")) => AllSaved(r) \/ Copying
        /\ exits = 1 /\ ~Up =>
            \A r \in Requests : In(r, "ok") => AllSaved(r) \/ (srv.pc # "stopped" /\ file.kind # "whole")

\* The file and memory stay as they are.
LEMMA MirrorsStay ==
    ASSUME UNCHANGED <<heap, hdr, call>>, file' = file PROVE Mirrors' <=> Mirrors
BY DEF Mirrors, LastInUse, At

\* A flush that is under way does not fail, and is done once it has written.
LEMMA FlushMoves ==
    ASSUME ServerInv, Serial(Sane), ioErrors' = 0, NEW p \in Callers, FlushStep(p)
    PROVE  /\ p \in Requests /\ In(p, "flush")
           /\ ~Write(p) => flush'[p].pc \in {"list", "marshal"}
<1>a. /\ p \in InFlight /\ In(p, "flush") /\ ~Flushing(p, "idle")
      /\ Keyed(Sane, heap[hdr.ptr], hdr.len) /\ hdr.len <= Len(heap[hdr.ptr])
      /\ hdr.len \in Nat /\ heap[hdr.ptr] \in Seq(Metric)
      /\ flush \in [Callers -> FlushIn(Metric)] /\ ioErrors \in Nat /\ Copied(p)
  <2>1. ~Flushing(p, "idle")
    BY DEF FlushStep, OpenTrunc, GetBatch, Marshal, MarshalFails, Write, IOError, Flushing
  <2> QED BY <2>1, FlushAlone, SerialTypes DEF Serial, SavedIn, ServerInv
<1>1. ~IOError(p)
  BY <1>a DEF IOError
<1>2. ~MarshalFails(p)
  <2> SUFFICES ASSUME MarshalFails(p) PROVE FALSE
    OBVIOUS
  <2> DEFINE j == Len(flush[p].data) + 1
  <2>1. /\ flush[p].at = hdr /\ Len(flush[p].data) < hdr.len /\ Len(flush[p].data) \in Nat
        /\ NextCell(p).value \in NotFinite
    BY <1>a DEF MarshalFails, MoreToMarshal, Copied, FlushIn, Flushing
  <2>2. j \in 1..hdr.len /\ j \in DOMAIN heap[hdr.ptr]
    BY <1>a, <2>1
  <2>3. NextCell(p) = heap[hdr.ptr][j]
    BY <2>1, <2>2 DEF NextCell, CellAt
  <2>4. heap[hdr.ptr][j] \in Sane
    BY <1>a, <2>2 DEF Keyed
  <2> QED BY <2>1, <2>3, <2>4 DEF Sane
<1>3. OpenTrunc(p) \/ GetBatch(p) \/ Marshal(p) => flush'[p].pc \in {"list", "marshal"}
  BY <1>a DEF OpenTrunc, GetBatch, Marshal, FlushIn, Flushing
<1> QED BY <1>a, <1>1, <1>2, <1>3 DEF FlushStep, InFlight

\* A request that is served does not panic, and has changed nothing as long as it is at
\* its first item.
LEMMA ServeDirty ==
    ASSUME ServerInv, Serial(Full), Fits(Full), NoHalfBatch', NEW r \in Requests, Serve(r)
    PROVE  \/ Dirty(r)' /\ r \in InFlight'
           \/ ~Dirty(r) /\ UNCHANGED <<heap, hdr, call>>
<1>a. /\ r \in InFlight /\ ~In(r, "flush") /\ ServeStep(r) /\ Alone(r) /\ r \in Callers
      /\ \A q \in Callers : Flushing(q, "idle")
      /\ flush' = flush /\ st[r] \in Request /\ st \in [Requests -> Request]
  BY ServeSerial, FullTakes, SerialTypes DEF Serve, fileVars
<1>1. CASE Reject(r)
  <2>1. st[r].pc = "item" /\ st' = [st EXCEPT ![r].pc = "rejected"] /\ UNCHANGED <<heap, hdr, call>>
    BY <1>1 DEF Reject, In, Goto
  <2>2. st'[r].pc = "rejected" /\ st'[r].i = st[r].i
    BY <1>a, <2>1 DEF Request
  <2>3. st[r].i = 1
    BY <2>2 DEF NoHalfBatch, In
  <2> QED BY <2>1, <2>3 DEF Dirty, In
<1>2. ~NilDelta(r)
  <2> SUFFICES ASSUME NilDelta(r) PROVE FALSE
    OBVIOUS
  <2> DEFINE got == call[r].got
             new == Reported(r)
  <2>1. /\ st[r].pc = "known" /\ At(r, "done") /\ got # Nil
        /\ got.delta = Nil \/ new.delta = Nil
    BY DEF NilDelta, In
  <2>2. new \in Full /\ new.mtype = "counter" /\ Found(got, new)
    <3>1. MoreItems(r)
      BY <2>1, SerialTypes DEF RequestsTypeOK
    <3>2. Knows(r)
      BY <1>a DEF Alone, Served
    <3> QED BY <2>1, <3>1, <3>2 DEF Knows, In, Fits
  <2>3. got \in Full /\ got.mtype = "counter"
    <3>1. Held \subseteq Full
      BY DEF Serial, Orderly, Keyed, Held
    <3> HIDE DEF Held
    <3> QED BY <2>1, <2>2, <3>1 DEF Found, SameKey
  <2> QED BY <2>1, <2>2, <2>3 DEF Full
<1>3. ~Abort(r)
  BY <1>a DEF Abort, Alone, Orderly, CallOrderly
<1>4. CASE StoreOther(r) \/ AskKnown(r) \/ Accumulate(r)
  <2>1. \E pc \in {"known", "store"} : st' = [st EXCEPT ![r].pc = pc]
    BY <1>4 DEF StoreOther, AskKnown, Accumulate, Goto
  <2>2. st'[r].pc \in {"known", "store"}
    BY <1>a, <2>1 DEF Request
  <2> QED BY <2>2 DEF Dirty, In, InFlight, Working
<1>5. CASE NextItem(r)
  <2>1. st' = [st EXCEPT ![r].pc = "item", ![r].i = @ + 1]
    BY <1>5 DEF NextItem
  <2>2. st[r].i \in Nat \ {0} /\ st'[r].pc = "item" /\ st'[r].i = st[r].i + 1
    BY <1>a, <2>1 DEF Request
  <2>3. st'[r].i # 1
    BY <2>2
  <2> QED BY <2>2, <2>3 DEF Dirty, In, InFlight, Working
<1>6. CASE AllStored(r)
  <2>1. st' = [st EXCEPT ![r].pc = "flush"]
    BY <1>6 DEF AllStored, Goto
  <2>2. st'[r].pc = "flush" /\ ~Flushing(r, "done")'
    BY <1>a, <2>1 DEF Request, Flushing
  <2> QED BY <2>2 DEF Dirty, In, InFlight, Working
<1>7. CASE StoreStep(r) /\ UNCHANGED st
  <2>1. Busy(r)
    BY <1>7 DEF StoreStep, FindNext, FindHit, FindMiss, Fetch, Update, LoadRoom, LoadFull,
       Extend, Swap, Fill, Shift, Shrink, At, Busy
  <2>2. st'[r].pc \in {"known", "store"}
    BY <1>7, <1>a, <2>1 DEF Alone
  <2> QED BY <2>2 DEF Dirty, In, InFlight, Working
<1> QED BY <1>a, <1>1, <1>2, <1>3, <1>4, <1>5, <1>6, <1>7 DEF ServeStep, RequestStep

\* What the file does not mirror is what the request that is served has changed.
LEMMA MirrorNext ==
    ASSUME SerialInv, SerialInv', MirrorInv, [Next]_vars
    PROVE  MirrorInv'
<1> SUFFICES ASSUME SyncFlush, Clean', NoHalfBatch', Restore, Up'
             PROVE  (Len(file.data) > ScanLimit \/ (\E r \in InFlight : Dirty(r)) \/ Mirrors)'
  BY DEF MirrorInv
<1>a. /\ Clean /\ NoHalfBatch /\ ServerInv /\ Serial(Full) /\ Serial(Sane)
      /\ AllFinite /\ AllPresent /\ Fits(Full) /\ ioErrors' = 0
      /\ Requests \subseteq Callers /\ ScanLimit \in Nat
      /\ Up => Len(file.data) > ScanLimit \/ (\E r \in InFlight : Dirty(r)) \/ Mirrors
  <2>1. ServerInv /\ Unopened
    BY DEF SerialInv
  <2>2. Clean /\ NoHalfBatch
    BY <2>1, CleanBefore
  <2>3. AllFinite /\ AllPresent /\ ~overlapped
    BY <2>2 DEF Clean, NoHalfBatch, AllPresent
  <2>4. Fits(Full)
    BY <2>1, <2>3, ReportedFits, SerialTypes
  <2> QED BY <2>1, <2>2, <2>3, <2>4, FileAssumption, SerialTypes DEF SerialInv, MirrorInv, Clean
<1>1. CASE Boot \/ LoadNext \/ LoadStep \/ Loaded
  <2>1. /\ UNCHANGED file
        /\ Up' /\ Restore /\ Len(file.data) <= ScanLimit => Mirrors'
    BY <1>a, <1>1, StartSerial, FullTakes
  <2>2. Len(file.data) \in Nat
    BY <1>a, SerialTypes
  <2> QED BY <1>a, <2>1, <2>2
\* Nothing is dirty, and nothing changes.
<1>b. ASSUME Up, UNCHANGED <<heap, hdr, call, file>>, \A r \in InFlight : ~Dirty(r)
      PROVE  (Len(file.data) > ScanLimit \/ (\E r \in InFlight : Dirty(r)) \/ Mirrors)'
  BY <1>a, <1>b, MirrorsStay
<1>2. ASSUME NEW r \in Requests, Accept(r)
      PROVE  (Len(file.data) > ScanLimit \/ (\E q \in InFlight : Dirty(q)) \/ Mirrors)'
  <2>1. InFlight = {} /\ UNCHANGED <<heap, hdr, call, file>> /\ Up
    BY <1>2 DEF Accept, Receive, fileVars, Clean
  <2> QED BY <1>b, <2>1
<1>3. ASSUME NEW r \in Requests, Serve(r)
      PROVE  (Len(file.data) > ScanLimit \/ (\E q \in InFlight : Dirty(q)) \/ Mirrors)'
  <2>1. \/ Dirty(r)' /\ r \in InFlight'
        \/ ~Dirty(r) /\ UNCHANGED <<heap, hdr, call>>
    BY <1>a, <1>3, ServeDirty
  <2>2. /\ \A q \in Requests \ {r} : q \notin InFlight
        /\ file' = file /\ Up
    BY <1>a, <1>3, ServeSerial, FullTakes DEF Serve, fileVars
  <2>3. CASE Dirty(r)' /\ r \in InFlight'
    BY <2>3
  <2>4. CASE ~Dirty(r) /\ UNCHANGED <<heap, hdr, call>>
    BY <1>b, <2>2, <2>4 DEF InFlight
  <2> QED BY <2>1, <2>3, <2>4
<1>4. ASSUME NEW r \in Requests, FlushAfterUpdate(r)
      PROVE  (Len(file.data) > ScanLimit \/ (\E q \in InFlight : Dirty(q)) \/ Mirrors)'
  <2> DEFINE x == [NoFlush EXCEPT !.pc = "open"]
  <2>1. flush' = [flush EXCEPT ![r] = x] /\ st[r].pc = "flush" /\ UNCHANGED st
    BY <1>4 DEF FlushAfterUpdate, StartFlush, managerVars, In
  <2>2. x.pc = "open"
    BY DEF NoFlush
  <2> HIDE DEF x
  <2>3. flush'[r] = x
    BY <1>a, <2>1, SerialTypes DEF SavedIn
  <2>4. Dirty(r)' /\ r \in InFlight'
    BY <2>1, <2>2, <2>3 DEF Dirty, In, Flushing, InFlight, Working
  <2> QED BY <2>4
<1>5. ASSUME NEW r \in Requests, Answer(r)
      PROVE  (Len(file.data) > ScanLimit \/ (\E q \in InFlight : Dirty(q)) \/ Mirrors)'
  <2>1. /\ In(r, "flush") /\ Flushing(r, "done") /\ Up
        /\ UNCHANGED <<heap, hdr, call, file>>
    BY <1>5 DEF Answer, Reply, Flushed, FlushesNow
  <2>2. \A q \in InFlight : q = r
    BY <1>a, <2>1 DEF Serial, OneAtATime, InFlight, Working, In
  <2> QED BY <1>b, <2>1, <2>2 DEF Dirty
<1>6. ASSUME NEW p \in Callers, FlushProgress(p)
      PROVE  (Len(file.data) > ScanLimit \/ (\E q \in InFlight : Dirty(q)) \/ Mirrors)'
  <2>1. FlushStep(p) /\ UNCHANGED <<heap, hdr, call, st, srv>> /\ UNCHANGED <<managerVars, srv>>
    BY <1>6 DEF FlushProgress, managerVars
  <2>2. CASE Write(p)
    <3>1. LastInUse' = LastInUse
      BY <2>1 DEF LastInUse, At
    <3>2. Mirrors'
      BY <1>a, <2>1, <2>2, <3>1, FlushSerial, FullTakes DEF Mirrors
    <3> QED BY <3>2
  <2>3. CASE ~Write(p)
    <3>1. p \in Requests /\ In(p, "flush") /\ flush'[p].pc # "done"
      BY <1>a, <2>1, <2>3, FlushMoves
    <3>2. Dirty(p)' /\ p \in InFlight'
      BY <2>1, <3>1 DEF Dirty, In, Flushing, InFlight, Working
    <3> QED BY <3>2
  <2> QED BY <2>2, <2>3
<1>7. CASE Crash \/ Shutdown
  BY <1>7 DEF Crash, Shutdown, EndProcess, Up
<1>8. CASE UNCHANGED vars
  <2>1. UNCHANGED <<heap, hdr, call, st, file, flush, srv>>
    BY <1>8 DEF vars
  <2>2. Mirrors' <=> Mirrors
    BY <2>1, MirrorsStay
  <2> QED BY <1>a, <2>1, <2>2 DEF Dirty, In, Flushing, InFlight, Up
<1> QED BY <1>1, <1>2, <1>3, <1>4, <1>5, <1>6, <1>7, <1>8 DEF Next, Tick

\* Nothing happened to what is saved.
LEMMA SavedStays ==
    ASSUME NEW r \in Requests, AllSaved(r), file' = file, st'[r].body = st[r].body
    PROVE  AllSaved(r)'
BY DEF AllSaved, Saved, Counter

\* A file that has what memory has counts what the store keeps.
LEMMA WrittenSaves ==
    ASSUME ServerInv, NEW r \in Requests, Served(r), st[r].pc \in {"flush", "ok"},
           LastInUse \in 0..hdr.len, Len(heap[hdr.ptr]) >= hdr.len,
           st'[r].body = st[r].body,
           Len(file'.data) = LastInUse,
           \A j \in 1..LastInUse : file'.data[j] = heap[hdr.ptr][j]
    PROVE  AllSaved(r)'
<1> SUFFICES ASSUME NEW i \in 1..Len(st[r].body), Counter(r, i)
             PROVE  Saved(<<r, i>>)'
  BY DEF AllSaved, Counter
<1> DEFINE t == <<r, i>>
<1>1. Keeps(t) /\ t \in Tags
  <2>1. i < st[r].i /\ t \in Tags
    BY SerialTypes DEF Served, MoreItems, RequestsTypeOK
  <2> QED BY <2>1 DEF Served, ItemsKept, Past, Working
<1>2. PICK j \in 1..LastInUse :
          LET x == heap[hdr.ptr][j]
          IN  /\ x.id = st[r].body[i].id /\ x.mtype = "counter"
              /\ x.delta # Nil /\ x.delta[t] >= 1
  BY <1>1 DEF Keeps, Held
<1> DEFINE x == heap[hdr.ptr][j]
<1>3. x \in OnceSet
  <2>1. heap[hdr.ptr] \in Seq(OnceSet) /\ hdr.len \in Nat
    BY DEF ServerInv, ManagerInv, StoreIn
  <2> QED BY <2>1
<1>4. x.delta[t] = 1
  <2>0. x.delta # Nil /\ x.delta[t] >= 1
    BY <1>2
  <2> HIDE DEF x, t
  <2>1. x.delta \in Delta /\ x.delta[t] <= (IF Spent(t) THEN 1 ELSE 0)
    BY <1>1, <1>3, <2>0 DEF OnceSet, Once, Metric
  <2>2. x.delta[t] \in Nat /\ x.delta[t] <= 1 /\ x.delta[t] >= 1
    BY <1>1, <2>0, <2>1 DEF Delta
  <2> QED BY <2>2
<1>5. file'.data[j] = x /\ j \in 1..Len(file'.data)
  OBVIOUS
<1> QED BY <1>2, <1>4, <1>5 DEF Saved

LEMMA SavedInit == Init => MirrorInv /\ SavedInv
<1> SUFFICES ASSUME Init PROVE MirrorInv /\ SavedInv
  OBVIOUS
<1>1. srv.pc = "down" /\ exits = 0 /\ \A r \in Requests : st[r].pc = "new"
  BY DEF Init, ManagerInit
<1> QED BY <1>1 DEF MirrorInv, SavedInv, Up, In

\* Every write brings the file up to what has been answered by then, and to what the
\* request that flushes has stored.
LEMMA SavedNext ==
    ASSUME SerialInv, SerialInv', SavedInv, [Next]_vars
    PROVE  SavedInv'
<1> DEFINE Lasts(r) == In(r, "ok") \/ (In(r, "flush") /\ Flushing(r, "done")) => AllSaved(r) \/ Copying
           First == /\ srv.pc # "stopped"
                    /\ \A r \in Requests : In(r, "ok") => Up /\ Served(r)
                    /\ \A r \in Requests : Lasts(r)
           Left(r) == In(r, "ok") => AllSaved(r) \/ (srv.pc # "stopped" /\ file.kind # "whole")
<1> SUFFICES ASSUME SyncFlush, Clean'
             PROVE  /\ exits' = 0 => First'
                    /\ exits' = 1 /\ ~Up' => \A r \in Requests : Left(r)'
  BY DEF SavedInv
<1>a. /\ Clean /\ ServerInv /\ Serial(Sane) /\ Orderly(Proper) /\ Orderly(Proper)'
      /\ AllFinite /\ Fits(Sane) /\ ioErrors' = 0
      /\ InFlight # {} => Up
      /\ Requests \subseteq Callers /\ exits \in Nat /\ RequestsTypeOK
      /\ st \in [Requests -> Request]
      /\ exits = 0 => First
      /\ exits = 1 /\ ~Up => \A r \in Requests : Left(r)
  <2>1. ServerInv /\ Unopened
    BY DEF SerialInv
  <2>2. Clean /\ AllFinite /\ ~overlapped
    BY <2>1, CleanBefore DEF Clean
  <2>3. Fits(Sane) /\ RequestsTypeOK
    BY <2>1, <2>2, ReportedFits, SerialTypes
  <2>4. Serial(Sane) /\ Serial(Proper) /\ Serial(Proper)'
    BY <2>2 DEF SerialInv, Clean
  <2> QED BY <2>1, <2>2, <2>3, <2>4, SerialTypes DEF SavedInv, Clean, Serial, OneAtATime, ServerInv
\* A step of a process that is up.
<1>b. ASSUME Up, srv' = srv, exits' = exits,
             \A r \in Requests : exits = 0 /\ First /\ In(r, "ok")' => Served(r)',
             \A r \in Requests : exits = 0 /\ First => Lasts(r)'
      PROVE  /\ exits' = 0 => First'
             /\ exits' = 1 /\ ~Up' => \A r \in Requests : Left(r)'
  BY <1>a, <1>b DEF Up
<1>1. CASE Boot \/ LoadNext \/ LoadStep \/ Loaded
  <2>1. UNCHANGED <<st, file, flush, exits>> /\ ~Up
    BY <1>a, <1>1, StartSerial, SaneTakes
  <2>2. srv'.pc # "stopped"
    <3>1. srv \in [pc : Phases, n : Nat]
      BY <1>a, SerialTypes
    <3> QED BY <1>1, <3>1 DEF Boot, LoadNext, LoadStep, Loaded
  <2>3. ASSUME exits' = 0 PROVE First'
    <3>1. \A r \in Requests : ~In(r, "ok") /\ ~In(r, "flush")
      BY <1>a, <2>1, <2>3 DEF InFlight, Working, In
    <3>2. \A r \in Requests : ~In(r, "ok")' /\ ~In(r, "flush")'
      BY <2>1, <3>1 DEF In
    <3> QED BY <2>2, <3>2
  <2>4. ASSUME exits' = 1, NEW r \in Requests PROVE Left(r)'
    <3>1. In(r, "ok")' => In(r, "ok") /\ (AllSaved(r) => AllSaved(r)')
      BY <2>1, SavedStays DEF In
    <3> QED BY <1>a, <2>1, <2>2, <2>4, <3>1
  <2> QED BY <2>3, <2>4
<1>2. ASSUME NEW r \in Requests, Accept(r) \/ Serve(r)
      PROVE  /\ exits' = 0 => First'
             /\ exits' = 1 /\ ~Up' => \A q \in Requests : Left(q)'
  <2>1. /\ Up /\ UNCHANGED <<file, flush, srv, exits>>
        /\ \A q \in Requests \ {r} : st'[q] = st[q] /\ st[q].pc \notin Working
        /\ st'[r].pc # "ok" /\ HeldGrows /\ \A q \in Callers : Flushing(q, "idle")
    <3>1. CASE Accept(r)
      <4>1. Receive(r) /\ InFlight = {} /\ Up /\ UNCHANGED <<file, flush, srv, exits, heap, hdr, call>>
        BY <3>1 DEF Accept, Receive, fileVars, Clean
      <4>2. Served(r)
        BY <1>a, <4>1 DEF Serial, Receive
      <4>3. st'[r].pc = "item" /\ \A q \in Requests \ {r} : st'[q] = st[q]
        BY <1>a, <4>1, <4>2, ReceiveServed
      <4>4. HeldGrows
        BY <1>a, <4>1, OrderlyStays, SameGrows
      <4>5. \A q \in Requests : st[q].pc \notin Working
        BY <4>1 DEF InFlight
      <4>6. \A q \in Callers : Flushing(q, "idle")
        BY <1>a, <4>5 DEF Serial, OneAtATime, Working, In
      <4> QED BY <4>1, <4>3, <4>4, <4>5, <4>6
    <3>2. CASE Serve(r)
      <4>1. Up /\ UNCHANGED <<file, flush, srv, exits>>
        BY <3>2 DEF Serve, fileVars
      <4>2. /\ HeldGrows /\ st'[r].pc # "ok"
            /\ \A q \in Requests \ {r} : st'[q] = st[q] /\ q \notin InFlight
            /\ \A q \in Callers : Flushing(q, "idle")
        BY <1>a, <3>2, ServeSerial, SaneTakes
      <4> QED BY <4>1, <4>2 DEF InFlight
    <3> QED BY <1>2, <3>1, <3>2
  <2>2. ASSUME NEW q \in Requests, exits = 0, First, In(q, "ok")'
        PROVE  q # r /\ In(q, "ok") /\ Served(q)'
    <3>1. q # r /\ In(q, "ok") /\ st'[q] = st[q] /\ st[q].pc \notin {"known", "store"}
      BY <2>1, <2>2 DEF In
    <3> QED BY <1>a, <2>1, <2>2, <3>1, OthersServed
  <2>3. ASSUME NEW q \in Requests, exits = 0, First PROVE Lasts(q)'
    <3> SUFFICES ASSUME In(q, "ok")' PROVE (AllSaved(q) \/ Copying)'
      BY <1>a, <2>1 DEF Flushing
    <3>1. q # r /\ In(q, "ok") /\ st'[q] = st[q]
      BY <2>1, <2>2, <2>3
    <3>2. AllSaved(q) => AllSaved(q)'
      BY <2>1, <3>1, SavedStays
    <3> QED BY <2>1, <2>3, <3>1, <3>2 DEF Copying
  <2> HIDE DEF First, Lasts, Left
  <2> QED BY <1>b, <2>1, <2>2, <2>3
<1>3. ASSUME NEW r \in Requests, FlushAfterUpdate(r)
      PROVE  /\ exits' = 0 => First'
             /\ exits' = 1 /\ ~Up' => \A q \in Requests : Left(q)'
  <2> DEFINE y == [NoFlush EXCEPT !.pc = "open"]
  <2>1. /\ Up /\ UNCHANGED <<file, srv, exits, st, heap, hdr, call>>
        /\ flush' = [flush EXCEPT ![r] = y] /\ Flushing(r, "idle")
    BY <1>3 DEF FlushAfterUpdate, StartFlush, managerVars
  <2>2. y.pc = "open"
    BY DEF NoFlush
  <2> HIDE DEF y
  <2>3. flush'[r] = y /\ \A q \in Callers \ {r} : flush'[q] = flush[q]
    BY <1>a, <2>1, SerialTypes DEF SavedIn
  <2>4. Copying => Copying'
    BY <2>1, <2>3 DEF Copying, Flushing
  <2>5. ASSUME NEW q \in Requests, exits = 0, First PROVE Lasts(q)' /\ (In(q, "ok")' => Served(q)')
    <3>1. AllSaved(q) => AllSaved(q)'
      BY <2>1, SavedStays
    <3>2. Served(q) => Served(q)'
      BY <2>1, ServedStays
    <3>3. (In(q, "flush") /\ Flushing(q, "done"))' => In(q, "flush") /\ Flushing(q, "done")
      BY <1>a, <2>1, <2>2, <2>3 DEF Flushing, In
    <3> QED BY <2>1, <2>4, <2>5, <3>1, <3>2, <3>3 DEF In
  <2> HIDE DEF First, Lasts, Left
  <2> QED BY <1>b, <2>1, <2>5
<1>4. ASSUME NEW r \in Requests, Answer(r)
      PROVE  /\ exits' = 0 => First'
             /\ exits' = 1 /\ ~Up' => \A q \in Requests : Left(q)'
  <2>1. /\ Up /\ UNCHANGED <<file, srv, exits, heap, hdr, call>>
        /\ In(r, "flush") /\ Flushing(r, "done") /\ Reply(r)
        /\ st' = [st EXCEPT ![r].pc = "ok"]
    BY <1>4 DEF Answer, Reply, Flushed, FlushesNow, Goto
  <2>2. /\ st'[r].pc = "ok" /\ st'[r].body = st[r].body /\ st'[r].i = st[r].i
        /\ \A q \in Requests \ {r} : st'[q] = st[q] /\ q \notin InFlight
    <3>1. \A q \in Requests \ {r} : q \notin InFlight
      BY <1>a, <2>1 DEF Serial, OneAtATime, InFlight, Working, In
    <3> QED BY <1>a, <2>1, <3>1 DEF Request
  <2>3. ~Copying
    <3> SUFFICES ASSUME NEW p \in Callers, flush[p].pc \in {"list", "marshal"} PROVE FALSE
      BY DEF Copying
    <3>1. p \in InFlight
      BY <1>a, FlushAlone DEF Flushing
    <3>2. p = r
      BY <2>2, <3>1 DEF InFlight
    <3> QED BY <2>1, <3>2 DEF Flushing
  <2>4. HeldGrows
    BY <1>a, <2>1, OrderlyStays, SameGrows
  <2>5. Served(r)'
    <3>1. Served(r)
      BY <1>a, <2>1 DEF Serial, InFlight, Working, In
    <3>2. Held' = Held
      BY <1>a, <2>1, OrderlyStays
    <3>3. \A t : Keeps(t) /\ t[1] = r => Keeps(t)'
      <4> HIDE DEF Held
      <4> QED BY <2>2, <3>2 DEF Keeps
    <3>4. ItemsKept(r)'
      <4> SUFFICES ASSUME NEW i \in 1..Len(st[r].body), Past(r, i)', Counter(r, i)
                   PROVE  Keeps(<<r, i>>)'
        BY <2>2 DEF ItemsKept, Counter
      <4>1. Past(r, i)
        BY <2>2 DEF Past, In
      <4>2. Keeps(<<r, i>>)
        BY <2>1, <3>1, <4>1 DEF Served, ItemsKept, Working, In
      <4> QED BY <3>3, <4>2
    <3>5. ~MoreItems(r)'
      BY <2>1, <2>2, <3>1 DEF Served, MoreItems, In
    <3> QED BY <2>2, <3>4, <3>5 DEF Served, Knows, In
  <2>6. ASSUME NEW q \in Requests, exits = 0, First PROVE Lasts(q)' /\ (In(q, "ok")' => Served(q)')
    <3>1. CASE q = r
      <4>1. AllSaved(r)
        BY <2>1, <2>3, <2>6
      <4>2. AllSaved(r)'
        BY <2>1, <2>2, <4>1, SavedStays
      <4> QED BY <2>5, <3>1, <4>2
    <3>2. CASE q # r
      <4>1. st'[q] = st[q] /\ st[q].pc \notin {"known", "store", "flush"}
        BY <2>2, <3>2 DEF InFlight, Working
      <4>2. In(q, "ok") => Served(q)'
        BY <1>a, <2>4, <2>6, <3>2, <4>1, OthersServed
      <4>3. In(q, "ok") => AllSaved(q)'
        BY <2>1, <2>3, <2>6, <4>1, SavedStays
      <4> QED BY <4>1, <4>2, <4>3 DEF In
    <3> QED BY <3>1, <3>2
  <2> HIDE DEF First, Lasts, Left
  <2> QED BY <1>b, <2>1, <2>6
<1>5. ASSUME NEW p \in Callers, FlushProgress(p)
      PROVE  /\ exits' = 0 => First'
             /\ exits' = 1 /\ ~Up' => \A q \in Requests : Left(q)'
  <2>1. /\ FlushStep(p) /\ UNCHANGED <<heap, hdr, call, st, srv, exits>> /\ UNCHANGED <<managerVars, srv>>
        /\ Up
    BY <1>5 DEF FlushProgress, managerVars
  <2>2. ASSUME NEW q \in Requests, Served(q) PROVE Served(q)'
    BY <2>1, <2>2, ServedStays
  <2>3. ASSUME Write(p), NEW q \in Requests, Served(q), st[q].pc \in {"flush", "ok"}
        PROVE  AllSaved(q)'
    <3>1. /\ Len(file'.data) = LastInUse
          /\ \A j \in 1..LastInUse : file'.data[j] = heap[hdr.ptr][j]
      BY <1>a, <2>1, <2>3, FlushSerial, SaneTakes
    <3>2. LastInUse \in 0..hdr.len /\ Len(heap[hdr.ptr]) >= hdr.len
      BY <1>a, UsedWithin, SerialTypes DEF Orderly
    <3>3. st'[q].body = st[q].body
      BY <2>1
    <3> QED BY <1>a, <2>3, <3>1, <3>2, <3>3, WrittenSaves
  <2>4. ~Write(p) => Copying'
    <3>1. ~Write(p) => flush'[p].pc \in {"list", "marshal"}
      BY <1>a, <2>1, FlushMoves
    <3> QED BY <3>1 DEF Copying
  <2>5. ASSUME NEW q \in Requests, exits = 0, First PROVE Lasts(q)' /\ (In(q, "ok")' => Served(q)')
    <3>1. In(q, "ok") \/ In(q, "flush") => Served(q)
      BY <1>a, <2>5 DEF Serial, InFlight, Working, In
    <3>2. In(q, "ok")' = In(q, "ok") /\ In(q, "flush")' = In(q, "flush")
      BY <2>1 DEF In
    <3>3. Write(p) /\ (In(q, "ok") \/ In(q, "flush")) => AllSaved(q)'
      BY <2>3, <3>1 DEF In
    <3> QED BY <2>2, <2>4, <3>1, <3>2, <3>3
  <2> HIDE DEF First, Lasts, Left
  <2> QED BY <1>b, <2>1, <2>5
<1>6. ASSUME Crash \/ Shutdown
      PROVE  /\ exits' = 0 => First'
             /\ exits' = 1 /\ ~Up' => \A q \in Requests : Left(q)'
  <2>1. /\ exits' = exits + 1 /\ file' = file
        /\ \A q \in Requests : st'[q] = IF q \in InFlight THEN [st[q] EXCEPT !.pc = "aborted"] ELSE st[q]
        /\ srv'.pc = "stopped" => InFlight = {}
    BY <1>6 DEF Crash, Shutdown, EndProcess
  <2>2. Copying => file.kind # "whole" /\ InFlight # {}
    <3> SUFFICES ASSUME NEW p \in Callers, flush[p].pc \in {"list", "marshal"}
                 PROVE  file.kind # "whole" /\ p \in InFlight
      BY DEF Copying
    <3>1. file = Holding("empty")
      BY <1>a DEF Serial, Copied
    <3> QED BY <1>a, <3>1, FlushAlone DEF Flushing, Holding
  <2>3. ASSUME exits = 0, NEW q \in Requests, In(q, "ok")' PROVE Left(q)'
    <3>1. In(q, "ok") /\ st'[q] = st[q]
      <4>1. st[q] \in Request /\ (q \in InFlight => st'[q] = [st[q] EXCEPT !.pc = "aborted"])
        BY <1>a, <2>1
      <4>2. q \notin InFlight
        BY <2>3, <4>1 DEF In, Request
      <4>3. st'[q] = st[q]
        BY <2>1, <4>2
      <4> QED BY <2>3, <4>3 DEF In
    <3>2. AllSaved(q) => AllSaved(q)'
      BY <2>1, <3>1, SavedStays
    <3>3. AllSaved(q) \/ Copying
      BY <1>a, <2>3, <3>1
    <3> QED BY <2>1, <2>2, <3>2, <3>3
  <2>4. exits' # 0 /\ (exits' = 1 => exits = 0)
    BY <1>a, <2>1
  <2>5. ASSUME exits = 0, NEW q \in Requests PROVE Left(q)'
    BY <2>3, <2>5
  <2> HIDE DEF First, Lasts, Left
  <2> QED BY <2>4, <2>5
<1>7. CASE UNCHANGED vars
  <2>1. UNCHANGED <<heap, hdr, call, st, file, flush, srv, exits>>
    BY <1>7 DEF vars
  <2>2. \A r \in Requests : (AllSaved(r) => AllSaved(r)') /\ (Served(r) => Served(r)')
    BY <2>1, SavedStays, ServedStays
  <2> QED BY <1>a, <2>1, <2>2 DEF In, Flushing, Copying, Up
<1> HIDE DEF First, Lasts, Left
<1> QED BY <1>1, <1>2, <1>3, <1>4, <1>5, <1>6, <1>7 DEF Next, Tick

FileInv == SerialInv /\ MirrorInv /\ SavedInv

LEMMA FileNext == FileInv /\ [Next]_vars => FileInv'
BY SerialInvNext, MirrorNext, SavedNext DEF FileInv

\* What the file mirrors is what the store shows, if no call is under way.
LEMMA MirrorsVisible ==
    ASSUME ServerInv, Orderly(Proper), Mirrors, \A p \in Callers : ~Busy(p)
    PROVE  file.data = Visible
<1>1. /\ hdr.len \in Nat /\ hdr.ptr \in DOMAIN heap /\ heap[hdr.ptr] \in Seq(Metric)
      /\ file.data \in Seq(Metric) /\ hdr.len <= Len(heap[hdr.ptr])
  BY SerialTypes DEF Orderly
<1>2. LastInUse = hdr.len
  BY DEF LastInUse, Busy, At
<1>3. \A j \in 1..hdr.len : CellAt(hdr.ptr, j) = heap[hdr.ptr][j]
  BY <1>1 DEF CellAt
<1>4. DOMAIN file.data = 1..hdr.len /\ \A j \in 1..hdr.len : file.data[j] = CellAt(hdr.ptr, j)
  BY <1>1, <1>2, <1>3 DEF Mirrors
<1>5. file.data = [j \in 1..hdr.len |-> file.data[j]]
  BY <1>1, <1>4
<1> QED BY <1>4, <1>5 DEF Visible

LEMMA FileImplies == FileInv => FileMirrorsMemory /\ SavedAtCleanStop
<1> SUFFICES ASSUME FileInv PROVE FileMirrorsMemory /\ SavedAtCleanStop
  OBVIOUS
<1>1. FileMirrorsMemory
  <2> SUFFICES ASSUME SyncFlush, Clean, NoHalfBatch, Restore, Len(file.data) <= ScanLimit,
                      Up, InFlight = {}
               PROVE  file.data = Visible
    BY DEF FileMirrorsMemory
  <2>1. ServerInv /\ Serial(Proper)
    BY DEF FileInv, SerialInv, Clean
  <2>2. Mirrors
    <3>1. ~(Len(file.data) > ScanLimit)
      BY <2>1, SerialTypes, FileAssumption
    <3> QED BY <3>1 DEF FileInv, MirrorInv
  <2>3. \A p \in Callers : ~Busy(p)
    BY <2>1 DEF Serial, OneAtATime, InFlight, Working, Up
  <2> QED BY <2>1, <2>2, <2>3, MirrorsVisible DEF Serial
<1>2. SavedAtCleanStop
  <2>1. exits \in Nat /\ exits <= 1 => exits \in {0, 1}
    OBVIOUS
  <2>2. exits \in Nat
    BY DEF FileInv, SerialInv, ServerInv
  <2>3. srv.pc = "stopped" => ~Up
    BY DEF Up
  <2> QED BY <2>1, <2>2, <2>3 DEF SavedAtCleanStop, SavedAtStop, FileInv, SavedInv
<1> QED BY <1>1, <1>2

\* A process has loaded, by the time it is up, all the file had.
LEMMA UpLoads ==
    ASSUME FileInv, [Next]_vars, ~Up, Up', Restore, SyncFlush, Readable, ~overlapped
    PROVE  /\ UNCHANGED <<st, file, exits>> /\ Visible' = file.data
           /\ InFlight' = {}
<1>1. ServerInv /\ ServerInv' /\ Serial(Proper)
  BY ServerNextInv DEF FileInv, SerialInv
<1>2. Boot \/ LoadNext \/ LoadStep \/ Loaded
  BY DEF Next, Up, Accept, Serve, FlushAfterUpdate, Answer, Tick, FlushProgress, Crash,
     Shutdown, EndProcess, vars
<1>3. /\ Serial(Proper)' /\ UNCHANGED <<st, file, flush, ioErrors, exits>>
      /\ Mirrors'
  BY <1>1, <1>2, StartSerial, ProperTakes DEF Readable
<1>4. InFlight = {}
  BY <1>1 DEF Serial, OneAtATime
<1>5. InFlight' = {}
  BY <1>3, <1>4 DEF InFlight
<1>6. \A p \in Callers : ~Busy(p)'
  BY <1>3, <1>5 DEF Serial, OneAtATime, InFlight, Working, Up
<1>7. ServerInv /\ Orderly(Proper) /\ Mirrors /\ (\A p \in Callers : ~Busy(p)) => file.data = Visible
  BY MirrorsVisible
<1>8. (ServerInv /\ Orderly(Proper) /\ Mirrors /\ (\A p \in Callers : ~Busy(p)) => file.data = Visible)'
  BY MirrorsVisible, PTL
<1> QED BY <1>1, <1>3, <1>5, <1>6, <1>8 DEF Serial

LEMMA FileInitInv == Init => FileInv
BY SerialInvInit, SavedInit DEF FileInv

\* With interval 0, for any requests, names and limits: when requests come one at a time,
\* no write fails and no batch ends half-way, the file is the memory whenever no
\* request is open (manager.go:120-163, 216-223; file.go:41-98).
THEOREM FileMirrors == Spec => []FileMirrorsMemory
BY FileInitInv, FileNext, FileImplies, PTL DEF Spec

\* And the first process leaves every counter it acknowledged on disk when it stops.
THEOREM StopSaves == Spec => []SavedAtCleanStop
BY FileInitInv, FileNext, FileImplies, PTL DEF Spec

\* A start that can read the file back has exactly its metrics, in its order, whatever
\* crash or failed write came before (file.go:72-98).
THEOREM RestoreLoads == Spec => RestoreLoadsFile
<1>1. FileInv /\ [Next]_vars => [~Up /\ Up' /\ Restore /\ SyncFlush /\ Readable /\ ~overlapped
                                 => Visible' = file.data]_vars
  BY UpLoads
<1> QED BY <1>1, FileInitInv, FileNext, PTL DEF Spec, RestoreLoadsFile

\* The counters the first process acknowledged are served by the second, unless a crash
\* fell between the truncation of the file and the write (file.go:43, 69).
THEOREM AcknowledgedSurvive == Spec => AcknowledgedSurvives
<1>1. ASSUME FileInv, [Next]_vars, ~Up, Up', Restore, SyncFlush, Clean, Readable, exits <= 1
      PROVE  AcknowledgedKept'
  <2>1. UNCHANGED <<st, file, exits>> /\ Visible' = file.data
    BY <1>1, UpLoads DEF Clean
  <2> SUFFICES ASSUME NEW r \in Requests, In(r, "ok"), NEW i \in 1..Len(st[r].body), Counter(r, i)
               PROVE  Kept(<<r, i>>)'
    BY <2>1 DEF AcknowledgedKept, In, Counter
  <2>2. exits = 1
    <3>1. exits \in Nat
      BY <1>1 DEF FileInv, SerialInv, ServerInv
    <3>2. exits # 0
      BY <1>1 DEF FileInv, SavedInv
    <3> QED BY <1>1, <3>1, <3>2
  <2>3. Saved(<<r, i>>)
    BY <1>1, <2>2 DEF FileInv, SavedInv, AllSaved, Readable
  <2>4. PICK j \in 1..Len(file.data) :
            /\ file.data[j].id = st[r].body[i].id /\ file.data[j].mtype = "counter"
            /\ file.data[j].delta # Nil /\ file.data[j].delta[<<r, i>>] = 1
    BY <2>3 DEF Saved
  <2>5. j \in 1..hdr'.len
    <3>1. DOMAIN Visible' = 1..hdr'.len
      BY DEF Visible
    <3>2. file.data \in Seq(Metric)
      BY <1>1, SerialTypes DEF FileInv, SerialInv
    <3>3. DOMAIN file.data = 1..Len(file.data)
      BY <3>2
    <3> QED BY <2>1, <2>4, <3>1, <3>3
  <2> QED BY <2>1, <2>4, <2>5 DEF Kept
<1>2. FileInv /\ [Next]_vars =>
        [~Up /\ Up' /\ Restore /\ SyncFlush /\ Clean /\ Readable /\ exits <= 1 => AcknowledgedKept']_vars
  BY <1>1
<1> QED BY <1>2, FileInitInv, FileNext, PTL DEF Spec, AcknowledgedSurvives

-----------------------------------------------------------------------------
(* The service that is promised *)

\* Counters that have a sum to add to.
Whole == {m \in Proper : m.mtype = "counter" => m.delta # Nil}

\* A sum replaces a sum: what is whole stays whole (manager.go:97).
LEMMA WholeTakes == Takes(Whole) /\ Replaces(Whole)
<1>1. Takes(Whole)
  <2> SUFFICES ASSUME NEW m \in Whole, NEW d \in Delta, m.delta # Nil
               PROVE  [m EXCEPT !.delta = d] \in Whole
    BY DEF Takes, Whole
  <2>1. [m EXCEPT !.delta = d] \in Proper
    BY ProperTakes DEF Takes, Whole
  <2>2. m \in Metric
    BY DEF Whole, Proper
  <2>3. [m EXCEPT !.delta = d].delta = d
    BY <2>2 DEF Metric
  <2> QED BY <2>1, <2>3, NilAssumption DEF Whole
<1>2. Replaces(Whole)
  BY ProperReplaces DEF Replaces, Whole, Proper
<1> QED BY <1>1, <1>2

\* What a request is about to store: the item it is at, added to the counter of its
\* name.
Tag(r) == <<r, st[r].i>>
Sums(r) ==
    /\ call[r].m.value = Reported(r).value
    /\ Reported(r).mtype = "counter" =>
        call[r].m.delta = Promised!AddTo(CounterOf(Reported(r).id), Tag(r))
Pending(r) ==
    /\ st[r].pc \in {"known", "store"} => Verified(Current(r))
    /\ In(r, "store") => At(r, "done") \/ Sums(r)

\* The items a request is past, and the one it is storing, have been verified.
Checked(r) ==
    /\ In(r, "new") => st[r].i = 1
    /\ \A i \in 1..Len(st[r].body) :
        i < st[r].i \/ (i = st[r].i /\ st[r].pc \in {"known", "store"})
            => Verified(st[r].body[i])

\* AddTo and the manager's Sum are the same addition (manager.go:92-98).
LEMMA AddedToNone ==
    ASSUME NEW t \in Tags
    PROVE  Promised!AddTo(Nil, t) = Counted(t)
BY DEF Promised!AddTo, Counted

LEMMA AddedToSome ==
    ASSUME NEW d \in Delta, NEW t \in Tags
    PROVE  Promised!AddTo(d, t) = Sum(Counted(t), d)
<1>1. d # Nil
  BY NilAssumption
<1>2. \A u \in Tags : d[u] \in Nat
  BY DEF Delta
<1>3. \A u \in Tags : d[u] + (IF u = t THEN 1 ELSE 0) = (IF u = t THEN 1 ELSE 0) + d[u]
  BY <1>2
<1>4. Sum(Counted(t), d) = [u \in Tags |-> (IF u = t THEN 1 ELSE 0) + d[u]]
  BY DEF Sum, Counted
<1> QED BY <1>1, <1>3, <1>4 DEF Promised!AddTo

\* What is open has been sent.
Sent == \A r \in Requests : In(r, "new") \/ st[r].body \in Bodies

\* What a name shows is the metric held under it.
LEMMA ShownIs ==
    ASSUME StoreIn(Metric, heap, hdr, call), NEW S, S \subseteq Metric, Orderly(S), NEW n
    PROVE  /\ \A x \in Held : x.id = n /\ x.mtype = "counter" => CounterOf(n) = x.delta
           /\ (\A x \in Held : ~(x.id = n /\ x.mtype = "counter")) => CounterOf(n) = Nil
<1>1. /\ \A x \in Held : <<x.id, x.mtype>> = <<n, "counter">> => Stored(<<n, "counter">>) = x
      /\ (\A x \in Held : <<x.id, x.mtype>> # <<n, "counter">>) => Stored(<<n, "counter">>) = Nil
  BY StoredIs DEF StoredRight
<1>2. \A x \in Held : x # Nil
  BY NilAssumption DEF Orderly, Keyed, Held
<1> HIDE DEF Held, Stored
<1> QED BY <1>1, <1>2 DEF CounterOf

\* What is shown changes with what is held only.
LEMMA ShownStays ==
    ASSUME NEW S, Replaces(S), StoreIn(Metric, heap, hdr, call), Orderly(S),
           StoreIn(Metric, heap, hdr, call)', Orderly(S)', NEW p \in Callers, Held' = Held
    PROVE  \A n : CounterOf(n)' = CounterOf(n) /\ GaugeOf(n)' = GaugeOf(n)
<1>1. \A k : Stored(k)' = Stored(k)
  BY StoredAfter
<1> QED BY <1>1 DEF CounterOf, GaugeOf

\* The service stands still, or only a request moves on.
LEMMA ServiceMoves ==
    ASSUME NEW r \in Requests, \A q \in Requests \ {r} : Progress(q)' = Progress(q)
    PROVE  /\ [q \in Requests |-> Progress(q)]' =
                [[q \in Requests |-> Progress(q)] EXCEPT ![r] = Progress(r)']
           /\ /\ Progress(r)' = Progress(r)
              /\ \A n : CounterOf(n)' = CounterOf(n) /\ GaugeOf(n)' = GaugeOf(n)
              => UNCHANGED Promised!vars
<1> DEFINE prog == [q \in Requests |-> Progress(q)]
<1>1. prog' = [prog EXCEPT ![r] = Progress(r)']
  OBVIOUS
<1>2. ASSUME /\ Progress(r)' = Progress(r)
             /\ \A n : CounterOf(n)' = CounterOf(n) /\ GaugeOf(n)' = GaugeOf(n)
      PROVE  UNCHANGED Promised!vars
  BY <1>2 DEF Promised!vars
<1> QED BY <1>1, <1>2

\* An upsert that lands applies the item.
LEMMA ItemApplied ==
    ASSUME ManagerInv, Sent, NEW r \in Requests, In(r, "store"), MoreItems(r), ~At(r, "done"),
           UNCHANGED st, At(r, "done")', \A q \in Requests \ {r} : Progress(q)' = Progress(q),
           \A j \in 1..Len(st[r].body) : Verified(st[r].body[j]),
           Current(r).mtype \in Types => Current(r).data,
           NEW m \in Metric, SameKey(m, Reported(r)), m.value = Reported(r).value,
           m.mtype = "counter" => m.delta = Promised!AddTo(CounterOf(m.id), Tag(r)),
           \A k : Stored(k)' = IF k = <<m.id, m.mtype>> THEN m ELSE Stored(k)
    PROVE  Promised!Apply(r)
<1> DEFINE it == Current(r)
           i == st[r].i
           prog == [q \in Requests |-> Progress(q)]
           body == st[r].body
<1>1. /\ it \in Item /\ i \in Nat /\ i \in 1..Len(body) /\ m.id = it.id /\ m.mtype = it.mtype
      /\ Reported(r).value = IF it.mtype = "gauge" /\ it.data THEN Tag(r) ELSE Nil
  <2>1. RequestsTypeOK
    BY DEF ManagerInv
  <2>2. /\ it \in Item /\ i \in 1..Len(body)
        /\ Reported(r).id = it.id /\ Reported(r).mtype = it.mtype
    BY <2>1, ReportedProper
  <2>3. Reported(r).value = IF it.mtype = "gauge" /\ it.data THEN Tag(r) ELSE Nil
    BY DEF Reported, Tag
  <2> QED BY <2>2, <2>3 DEF SameKey
<1>2. body # Nil
  BY ServiceAssumption DEF Sent, In
<1>3. /\ Progress(r) = [body |-> body, applied |-> i - 1, answer |-> Nil]
      /\ Progress(r)' = [body |-> body, applied |-> i, answer |-> Nil]
  <2>1. st[r].pc = "store" /\ st'[r] = st[r] /\ "store" \notin Outcomes
    BY DEF In, Outcomes
  <2> QED BY <2>1 DEF Progress, Applied, In
<1>4. prog' = [prog EXCEPT ![r] = Progress(r)']
  BY ServiceMoves
<1>5. prog' = [prog EXCEPT ![r].applied = @ + 1]
  <2>1. prog[r] = Progress(r)
    OBVIOUS
  <2>2. [prog[r] EXCEPT !.applied = @ + 1] = Progress(r)'
    BY <1>1, <1>3, <2>1
  <2> HIDE DEF prog
  <2> QED BY <1>4, <2>2
<1>6. /\ Promised!Open(r) /\ Promised!Remains(r) /\ Promised!Following(r) = it
      /\ Promised!Matches(r) /\ prog[r].applied + 1 = i
  <2>1. prog[r] = [body |-> body, applied |-> i - 1, answer |-> Nil]
    BY <1>3
  <2>2. (i - 1) + 1 = i /\ i - 1 < Len(body)
    BY <1>1
  <2>3. it = body[i]
    BY DEF Current
  <2> QED BY <1>2, <2>1, <2>2, <2>3
    DEF Promised!Open, Promised!Remains, Promised!Following, Promised!Matches
<1> DEFINE counts == [n \in Names |-> CounterOf(n)]
           shows == [n \in Names |-> GaugeOf(n)]
<1>7. m # Nil /\ it.id \in Names
  BY <1>1, NilAssumption DEF Item
<1>8. CASE it.mtype = "counter"
  <2>1. \A n : CounterOf(n)' = IF n = it.id THEN m.delta ELSE CounterOf(n)
    BY <1>1, <1>7, <1>8 DEF CounterOf
  <2>2. \A n : GaugeOf(n)' = GaugeOf(n)
    BY <1>1, <1>8 DEF GaugeOf
  <2>3. m.delta = Promised!AddTo(counts[it.id], <<r, prog[r].applied + 1>>)
    BY <1>1, <1>6, <1>7, <1>8 DEF Tag
  <2>4. counts' = [counts EXCEPT ![it.id] = m.delta]
    BY <2>1
  <2>5. shows' = shows
    BY <2>2
  <2> QED BY <1>5, <1>6, <1>8, <2>3, <2>4, <2>5 DEF Promised!Apply
<1>9. CASE it.mtype = "gauge"
  <2>1. \A n : GaugeOf(n)' = IF n = it.id THEN m.value ELSE GaugeOf(n)
    BY <1>1, <1>7, <1>9 DEF GaugeOf
  <2>2. \A n : CounterOf(n)' = CounterOf(n)
    BY <1>1, <1>9 DEF CounterOf
  <2>3. m.value = <<r, prog[r].applied + 1>>
    BY <1>1, <1>6, <1>9 DEF Tag, Types
  <2>4. shows' = [shows EXCEPT ![it.id] = m.value]
    BY <2>1
  <2>5. counts' = counts
    BY <2>2
  <2> QED BY <1>5, <1>6, <1>9, <2>3, <2>4, <2>5 DEF Promised!Apply
<1>10. CASE it.mtype = Nil
  <2>1. counts' = counts /\ shows' = shows
    BY <1>1, <1>10, NilAssumption DEF CounterOf, GaugeOf, Types
  <2> QED BY <1>5, <1>6, <1>10, <2>1 DEF Promised!Apply
<1> QED BY <1>1, <1>8, <1>9, <1>10 DEF Item, Types

\* A request that stores an item, and is not refused late, has none that is refused.
LEMMA AllChecked ==
    ASSUME RequestsTypeOK, NEW r \in Requests, Checked(r), In(r, "store"), MoreItems(r),
           ~RefusedLate(st[r].body)
    PROVE  \A j \in 1..Len(st[r].body) : Verified(st[r].body[j])
<1>1. st[r].i \in 1..Len(st[r].body) /\ st[r].body \in Seq(Item)
  BY ReportedProper DEF RequestsTypeOK
<1>2. 1 \in 1..Len(st[r].body) /\ (1 < st[r].i \/ 1 = st[r].i) /\ st[r].body # <<>>
  BY <1>1
<1>3. Verified(st[r].body[1])
  BY <1>2 DEF Checked, In
<1> QED BY <1>2, <1>3 DEF RefusedLate

\* One that is refused, and not late, is refused at its first item.
LEMMA RefusedAtOnce ==
    ASSUME RequestsTypeOK, NEW r \in Requests, Checked(r), In(r, "item"), MoreItems(r),
           ~Verified(Current(r)), ~RefusedLate(st[r].body)
    PROVE  st[r].i = 1
<1>1. st[r].i \in 1..Len(st[r].body) /\ st[r].body \in Seq(Item)
  BY ReportedProper DEF RequestsTypeOK
<1>2. ~Verified(st[r].body[st[r].i]) /\ st[r].body # <<>> /\ 1 \in 1..Len(st[r].body)
  BY <1>1 DEF Current
<1>3. ~Verified(st[r].body[1])
  BY <1>1, <1>2 DEF RefusedLate
<1>4. ~(1 < st[r].i)
  BY <1>2, <1>3 DEF Checked
<1> QED BY <1>1, <1>4

\* A step of a storage call that a request has made (memory.go:22-110).
LEMMA StorePromise ==
    ASSUME ManagerInv, Sent, Orderly(Whole), NEW r \in Requests, Alone(r), Pending(r),
           Checked(r), StoreStep(r), UNCHANGED st
    PROVE  /\ Pending(r)'
           /\ ~RefusedLate(st[r].body) => Promised!Apply(r) \/ UNCHANGED Promised!vars
<1>a. /\ StoreIn(Metric, heap, hdr, call) /\ RequestsTypeOK /\ r \in Callers
      /\ StoreIn(Metric, heap, hdr, call)'
  <2>1. StoreIn(Metric, heap, hdr, call)
    BY StoreInMonotone DEF ManagerInv, OnceSet
  <2>2. r \in Callers
    BY ManagerAssumption
  <2> QED BY <2>1, <2>2, MetricClosed, StoreStepIn DEF ManagerInv
<1>b. /\ st[r].pc \in {"known", "store"} /\ MoreItems(r) /\ ~At(r, "done") /\ ~At(r, "idle")
      /\ Knows(r) /\ Verified(Current(r)) /\ CallOrderly(Whole, r)
  <2>1. Busy(r) /\ ~At(r, "done") /\ ~At(r, "idle")
    BY DEF StoreStep, FindNext, FindHit, FindMiss, Fetch, Update, LoadRoom, LoadFull,
       Extend, Swap, Fill, Shift, Shrink, At, Busy
  <2>2. st[r].pc \in {"known", "store"} /\ MoreItems(r) /\ Knows(r)
    BY <1>a, <2>1 DEF Alone, RequestsTypeOK, Served
  <2> QED BY <1>a, <2>1, <2>2 DEF Pending, Orderly
<1>c. /\ Orderly(Whole)' /\ (Quiet(r) \/ Lands(r))
      /\ \A q \in Callers \ {r} : call'[q] = call[q]
  BY <1>a, WholeTakes, TakesOverwrites, StepOrderly DEF Alone
<1>d. \A q \in Requests \ {r} : Progress(q)' = Progress(q)
  BY <1>c, ManagerAssumption DEF Progress, Applied, In, At
<1>e. /\ Held' = Held => \A n : CounterOf(n)' = CounterOf(n) /\ GaugeOf(n)' = GaugeOf(n)
      /\ Reported(r)' = Reported(r) /\ Current(r)' = Current(r) /\ Tag(r)' = Tag(r)
      /\ \A step : In(r, step)' = In(r, step)
  <2>1. Held' = Held => \A n : CounterOf(n)' = CounterOf(n) /\ GaugeOf(n)' = GaugeOf(n)
    BY <1>a, <1>c, WholeTakes, ShownStays
  <2> QED BY <2>1 DEF Reported, Current, Tag, In
<1>f. call[r].op # "delete" /\ (In(r, "store") <=> call[r].op = "upsert")
  BY <1>b DEF Knows, In
<1>1. CASE Quiet(r)
  <2>1. Asked(r)' = Asked(r) /\ Held' = Held
    BY <1>1 DEF Quiet
  <2>2. ~At(r, "shrink")
    BY <1>b, <1>f DEF CallOrderly, At
  <2>3. Status(r) = "called"
    BY <1>b, <2>2 DEF Status, At
  <2>4. ~At(r, "done")' /\ ~At(r, "idle")'
    BY <2>1, <2>3 DEF Asked, Status, At
  <2>5. call'[r].m = call[r].m
    BY <1>b, <2>1, <2>4 DEF Asked
  <2>6. Progress(r)' = Progress(r)
    BY <1>b, <2>4 DEF Progress, Applied, In
  <2>7. \A n : CounterOf(n)' = CounterOf(n) /\ GaugeOf(n)' = GaugeOf(n)
    BY <1>e, <2>1
  <2>8. UNCHANGED Promised!vars
    BY <1>d, <2>6, <2>7, ServiceMoves
  <2>9. Pending(r)'
    <3>1. Sums(r) => Sums(r)'
      BY <1>e, <2>5, <2>7 DEF Sums, Promised!AddTo
    <3> QED BY <1>b, <1>e, <2>4, <3>1 DEF Pending
  <2> QED BY <2>8, <2>9
<1>2. CASE Lands(r) /\ ~In(r, "store")
  <2>1. Held' = Held
    BY <1>2, <1>f DEF Lands
  <2>2. Progress(r)' = Progress(r)
    BY <1>2, <1>e DEF Progress, Applied, In
  <2>3. UNCHANGED Promised!vars
    BY <1>d, <1>e, <2>1, <2>2, ServiceMoves
  <2> QED BY <1>2, <1>b, <1>e, <2>3 DEF Pending
<1>3. CASE Lands(r) /\ In(r, "store")
  <2> DEFINE m == call[r].m
  <2>1. m \in Whole /\ m \in Metric
    <3>1. Busy(r)
      BY <1>b DEF Busy, At
    <3> QED BY <1>3, <1>b, <1>f, <3>1 DEF CallOrderly, Whole, Proper
  <2>2. SameKey(m, Reported(r)) /\ Sums(r)
    BY <1>3, <1>b DEF Knows, Carries, Pending
  <2>3. Held \subseteq Whole
    BY DEF Orderly, Keyed, Held
  <2>4. Held' = Besides(m) \cup {m}
    <3>1. \/ Held' = Held \cup {m} /\ \A x \in Held : ~SameKey(x, m)
          \/ \E old \in Held : SameKey(old, m) /\ Held' = Besides(m) \cup {Overwrite(old, m)}
      BY <1>3, <1>f DEF Lands
    <3>2. \A old \in Held : SameKey(old, m) => Overwrite(old, m) = m
      BY <2>1, <2>3, WholeTakes DEF Replaces
    <3> QED BY <3>1, <3>2 DEF Besides
  <2>5. \A k : Stored(k)' = IF k = <<m.id, m.mtype>> THEN m ELSE Stored(k)
    BY <1>a, <1>c, <2>4, WholeTakes, StoredAfter
  <2>6. At(r, "done")'
    <3>1. Status(r)' = "done" /\ call'[r].op = call[r].op
      BY <1>3 DEF Lands
    <3>2. ~At(r, "shrink")'
      BY <1>a, <1>c, <1>f, <3>1 DEF Orderly, CallOrderly, At
    <3> QED BY <3>1, <3>2 DEF Status, At
  <2>7. Current(r).mtype \in Types => Current(r).data
    <3>1. st[r].body \in Bodies /\ st[r].i \in 1..Len(st[r].body)
      BY <1>3, <1>a, <1>b, ReportedProper DEF Sent, In
    <3> QED BY <1>b, <3>1, ServiceAssumption DEF Current
  <2>8. m.value = Reported(r).value
    BY <2>2 DEF Sums
  <2>9. m.mtype = "counter" => m.delta = Promised!AddTo(CounterOf(m.id), Tag(r))
    BY <2>2 DEF Sums, SameKey
  <2> HIDE DEF m
  <2>10. ~RefusedLate(st[r].body) => Promised!Apply(r)
    <3> SUFFICES ASSUME ~RefusedLate(st[r].body) PROVE Promised!Apply(r)
      OBVIOUS
    <3>1. \A j \in 1..Len(st[r].body) : Verified(st[r].body[j])
      BY <1>3, <1>a, <1>b, AllChecked DEF In
    <3> QED BY <1>3, <1>b, <1>d, <2>1, <2>2, <2>5, <2>6, <2>7, <2>8, <2>9, <3>1, ItemApplied
  <2> QED BY <1>b, <1>e, <2>6, <2>10 DEF Pending
<1> QED BY <1>c, <1>1, <1>2, <1>3

\* The items that requests store have their values, and the rest is refused.
LEMMA WholeFits ==
    ASSUME RequestsTypeOK, Sent, \A r \in Requests : Pending(r)
    PROVE  Fits(Whole)
<1> SUFFICES ASSUME NEW r \in Requests, MoreItems(r),
                    In(r, "known") \/ (In(r, "item") /\ Verified(Current(r)))
             PROVE  Reported(r) \in Whole
  BY DEF Fits
<1>1. Verified(Current(r)) /\ ~In(r, "new")
  BY DEF Pending, In
<1>2. /\ Reported(r) \in Proper /\ Reported(r).mtype = Current(r).mtype
      /\ Counter(r, st[r].i) => Reported(r).delta # Nil
      /\ st[r].i \in 1..Len(st[r].body)
  BY ReportedProper
<1>3. Current(r).mtype \in Types => Current(r).data
  BY <1>1, <1>2, ServiceAssumption DEF Sent, Current
<1> QED BY <1>2, <1>3 DEF Whole, Counter, Current, Types

\* A step of the request itself: its last ones are the service's, too (manager.go:87-163).
LEMMA RequestPromise ==
    ASSUME ManagerInv, Sent, Orderly(Whole), NEW r \in Requests, Alone(r), Pending(r),
           Checked(r), Fits(Whole), RequestStep(r)
    PROVE  /\ Pending(r)'
           /\ ~RefusedLate(st[r].body) => Promised!Refuse(r) \/ UNCHANGED Promised!vars
<1>a. /\ StoreIn(Metric, heap, hdr, call) /\ RequestsTypeOK /\ r \in Callers
      /\ StoreIn(Metric, heap, hdr, call)' /\ st \in [Requests -> Request]
  <2>1. StoreIn(Metric, heap, hdr, call)
    BY StoreInMonotone DEF ManagerInv, OnceSet
  <2>2. ManagerInv'
    BY RequestKeeps
  <2>3. StoreIn(Metric, heap, hdr, call)'
    BY <2>2, StoreInMonotone DEF ManagerInv, OnceSet
  <2>4. r \in Callers /\ st \in [Requests -> Request]
    BY ManagerAssumption DEF ManagerInv, RequestsTypeOK, Request
  <2> QED BY <2>1, <2>3, <2>4 DEF ManagerInv
<1>b. /\ Orderly(Proper) /\ Orderly(Proper)' /\ Held' = Held
      /\ \A q \in Callers \ {r} : call'[q] = call[q]
      /\ Knows(r) /\ CallOrderly(Whole, r) /\ Held \subseteq Whole /\ Held \subseteq Metric
  <2>1. /\ Orderly(Proper)' /\ Held' = Held /\ \A q \in Callers \ {r} : call'[q] = call[q]
    BY RequestStepServed
  <2>2. Held \subseteq Whole
    BY DEF Orderly, Keyed, Held
  <2>3. Whole \subseteq Metric
    BY WholeTakes DEF Replaces
  <2> HIDE DEF Held
  <2> QED BY <1>a, <2>1, <2>2, <2>3 DEF Alone, Served, Orderly
<1>c. \A n : CounterOf(n)' = CounterOf(n) /\ GaugeOf(n)' = GaugeOf(n)
  BY <1>a, <1>b, ProperReplaces, ShownStays
<1>d. /\ \E s : st' = [st EXCEPT ![r] = s]
      /\ \A q \in Requests \ {r} : st'[q] = st[q]
      /\ st'[r].body = st[r].body
  <2>1. \E s : st' = [st EXCEPT ![r] = s]
    BY DEF RequestStep, Reject, StoreOther, AskKnown, Accumulate, NilDelta, Abort,
       NextItem, AllStored, Goto
  <2>2. st'[r].body = st[r].body
    BY <1>a DEF RequestStep, Reject, StoreOther, AskKnown, Accumulate, NilDelta, Abort,
       NextItem, AllStored, Goto, Request
  <2>3. \A q \in Requests \ {r} : st'[q] = st[q]
    BY <1>a, <2>1
  <2> QED BY <2>1, <2>2, <2>3
<1>e. \A q \in Requests \ {r} : Progress(q)' = Progress(q)
  BY <1>b, <1>d, ManagerAssumption DEF Progress, Applied, In, At
\* A step that the service does not notice.
<1>f. ASSUME Progress(r)' = Progress(r) PROVE UNCHANGED Promised!vars
  BY <1>c, <1>e, <1>f, ServiceMoves
<1>1. CASE Reject(r)
  <2> DEFINE prog == [q \in Requests |-> Progress(q)]
             i == st[r].i
             body == st[r].body
  <2>1. /\ st[r].pc = "item" /\ MoreItems(r) /\ ~Verified(Current(r))
        /\ st' = [st EXCEPT ![r].pc = "rejected"]
    BY <1>1 DEF Reject, In, Goto
  <2>2. st'[r].pc = "rejected" /\ st'[r].i = i /\ st'[r].body = body
    BY <1>a, <2>1 DEF Request
  <2>3. i \in Nat \ {0} /\ body # Nil /\ i \in 1..Len(body)
    <3>1. body \in Bodies
      BY <2>1 DEF Sent, In
    <3>2. i \in 1..Len(body)
      BY <1>a, <2>1, ReportedProper
    <3> QED BY <3>1, <3>2, ServiceAssumption
  <2>4. /\ Progress(r) = [body |-> body, applied |-> i - 1, answer |-> Nil]
        /\ Progress(r)' = [body |-> body, applied |-> i - 1, answer |-> "rejected"]
    BY <2>1, <2>2 DEF Progress, Applied, In, Outcomes
  <2>5. prog' = [prog EXCEPT ![r] = Progress(r)']
    BY <1>e, ServiceMoves
  <2>6. prog' = [prog EXCEPT ![r].answer = "rejected"]
    <3>1. prog[r] = Progress(r)
      OBVIOUS
    <3>2. [prog[r] EXCEPT !.answer = "rejected"] = Progress(r)'
      BY <2>4, <3>1
    <3> HIDE DEF prog
    <3> QED BY <2>5, <3>2
  <2>7. ASSUME ~RefusedLate(body)
        PROVE  Promised!Open(r) /\ prog[r].applied = 0 /\ ~Promised!Matches(r)
    <3>1. prog[r] = [body |-> body, applied |-> i - 1, answer |-> Nil]
      BY <2>4
    <3>2. i - 1 = 0
      BY <1>a, <2>1, <2>7, RefusedAtOnce DEF In
    <3>3. ~Verified(body[i])
      BY <2>1 DEF Current
    <3> QED BY <2>3, <3>1, <3>2, <3>3 DEF Promised!Open, Promised!Matches
  <2>8. [n \in Names |-> CounterOf(n)]' = [n \in Names |-> CounterOf(n)]
    BY <1>c
  <2>9. [n \in Names |-> GaugeOf(n)]' = [n \in Names |-> GaugeOf(n)]
    BY <1>c
  <2>10. ~RefusedLate(body) => Promised!Refuse(r)
    BY <2>6, <2>7, <2>8, <2>9 DEF Promised!Refuse
  <2> QED BY <2>2, <2>10 DEF Pending, In
<1>2. CASE StoreOther(r)
  <2>1. /\ st[r].pc = "item" /\ MoreItems(r) /\ Verified(Current(r)) /\ Current(r).mtype # "counter"
        /\ call' = [call EXCEPT ![r] = NewCall("upsert", Reported(r))]
        /\ st' = [st EXCEPT ![r].pc = "store"]
    BY <1>2 DEF StoreOther, In, Goto, Calls
  <2>2. /\ st'[r].pc = "store" /\ st'[r].i = st[r].i
        /\ call'[r].pc = "find" /\ call'[r].m = Reported(r)
    BY <1>a, <2>1 DEF Request, StoreIn, NewCall
  <2>3. Current(r)' = Current(r) /\ Reported(r)' = Reported(r)
    BY <1>d, <2>2 DEF Current, Reported
  <2>4. Progress(r)' = Progress(r)
    BY <1>d, <2>1, <2>2 DEF Progress, Applied, In, At, Outcomes
  <2>5. Pending(r)'
    <3>1. Reported(r).mtype # "counter"
      BY <2>1 DEF Reported
    <3> QED BY <2>1, <2>2, <2>3, <3>1 DEF Pending, Sums
  <2> QED BY <1>f, <2>4, <2>5
<1>3. CASE AskKnown(r)
  <2>1. /\ st[r].pc = "item" /\ Verified(Current(r)) /\ st' = [st EXCEPT ![r].pc = "known"]
    BY <1>3 DEF AskKnown, In, Goto
  <2>2. /\ st'[r].pc = "known" /\ st'[r].i = st[r].i
    BY <1>a, <2>1 DEF Request
  <2>3. Current(r)' = Current(r)
    BY <1>d, <2>2 DEF Current
  <2>4. Progress(r)' = Progress(r)
    BY <1>d, <2>1, <2>2 DEF Progress, Applied, In, Outcomes
  <2> QED BY <1>f, <2>1, <2>2, <2>3, <2>4 DEF Pending, In
<1>4. CASE Accumulate(r)
  <2> DEFINE new == Reported(r)
             old == call[r].got
             t == Tag(r)
  <2>1. /\ st[r].pc = "known" /\ At(r, "done") /\ st' = [st EXCEPT ![r].pc = "store"]
        /\ \/ old = Nil /\ call' = [call EXCEPT ![r] = NewCall("upsert", new)]
           \/ /\ old # Nil /\ old.delta # Nil /\ new.delta # Nil
              /\ call' = [call EXCEPT ![r] = NewCall("upsert",
                                [new EXCEPT !.delta = Sum(new.delta, old.delta)])]
    BY <1>4 DEF Accumulate, In, Goto, Calls
  <2>2. MoreItems(r) /\ Verified(Current(r)) /\ Found(old, new) /\ new.mtype = "counter"
    BY <1>a, <1>b, <2>1 DEF RequestsTypeOK, Pending, Knows, In
  <2>3. /\ new \in Whole /\ new \in Metric /\ t \in Tags
        /\ new.delta = Counted(t) /\ new.delta \in Delta
    <3>1. new \in Whole
      BY <2>1, <2>2 DEF Fits, In
    <3>2. new.delta # Nil /\ new \in Proper
      BY <2>2, <3>1 DEF Whole
    <3> QED BY <1>a, <2>2, <3>1, <3>2, ReportedProper DEF Proper, Metric, Tag
  <2>4. PICK m : /\ call' = [call EXCEPT ![r] = NewCall("upsert", m)]
                 /\ m.value = new.value
                 /\ m.delta = Promised!AddTo(CounterOf(new.id), t)
    <3>1. CASE old = Nil /\ call' = [call EXCEPT ![r] = NewCall("upsert", new)]
      <4>1. \A x \in Held : ~(x.id = new.id /\ x.mtype = "counter")
        BY <1>b, <2>2, <3>1, NilAssumption DEF Found, SameKey
      <4>2. CounterOf(new.id) = Nil
        BY <1>a, <1>b, <4>1, ShownIs, ProperReplaces DEF Replaces
      <4> HIDE DEF new
      <4> QED BY <2>3, <3>1, <4>2, AddedToNone
    <3>2. CASE /\ old # Nil /\ old.delta # Nil /\ new.delta # Nil
               /\ call' = [call EXCEPT ![r] = NewCall("upsert",
                                [new EXCEPT !.delta = Sum(new.delta, old.delta)])]
      <4>1. old \in Held /\ SameKey(old, new) /\ old \in Metric
        BY <1>b, <2>2, <3>2 DEF Found
      <4>2. old.delta \in Delta
        BY <3>2, <4>1 DEF Metric
      <4>3. CounterOf(new.id) = old.delta
        BY <1>a, <1>b, <2>2, <4>1, ShownIs, ProperReplaces DEF Replaces, SameKey
      <4>4. Promised!AddTo(CounterOf(new.id), t) = Sum(new.delta, old.delta)
        BY <2>3, <4>2, <4>3, AddedToSome
      <4> DEFINE m == [new EXCEPT !.delta = Sum(new.delta, old.delta)]
      <4>5. m.value = new.value /\ m.delta = Sum(new.delta, old.delta)
        BY <2>3 DEF Metric
      <4> QED BY <3>2, <4>4, <4>5
    <3> QED BY <2>1, <3>1, <3>2
  <2>5. /\ st'[r].pc = "store" /\ st'[r].i = st[r].i
        /\ call'[r].pc = "find" /\ call'[r].m = m
    BY <1>a, <2>1, <2>4 DEF Request, StoreIn, NewCall
  <2>6. Current(r)' = Current(r) /\ Reported(r)' = Reported(r) /\ Tag(r)' = Tag(r)
    BY <1>d, <2>5 DEF Current, Reported, Tag
  <2>7. Progress(r)' = Progress(r)
    BY <1>d, <2>1, <2>5 DEF Progress, Applied, In, At, Outcomes
  <2>8. Sums(r)'
    BY <1>c, <2>4, <2>5, <2>6 DEF Sums, Promised!AddTo
  <2> QED BY <1>f, <2>2, <2>5, <2>6, <2>7, <2>8 DEF Pending
<1>5. ~NilDelta(r)
  <2> SUFFICES ASSUME NilDelta(r) PROVE FALSE
    OBVIOUS
  <2> DEFINE got == call[r].got
             new == Reported(r)
  <2>1. /\ st[r].pc = "known" /\ At(r, "done") /\ got # Nil
        /\ got.delta = Nil \/ new.delta = Nil
    BY DEF NilDelta, In
  <2>2. new \in Whole /\ new.mtype = "counter" /\ Found(got, new)
    BY <1>a, <1>b, <2>1 DEF RequestsTypeOK, Knows, In, Fits
  <2>3. got \in Whole /\ got.mtype = "counter"
    BY <1>b, <2>1, <2>2 DEF Found, SameKey
  <2> QED BY <2>1, <2>2, <2>3 DEF Whole
<1>6. ~Abort(r)
  BY <1>b DEF Abort, CallOrderly
<1>7. CASE NextItem(r)
  <2>1. /\ st[r].pc = "store" /\ At(r, "done") /\ st' = [st EXCEPT ![r].pc = "item", ![r].i = @ + 1]
    BY <1>7 DEF NextItem, In
  <2>2. st'[r].pc = "item" /\ st'[r].i = st[r].i + 1 /\ st[r].i \in Nat
    BY <1>a, <2>1 DEF Request
  <2>3. (st[r].i + 1) - 1 = st[r].i
    BY <2>2
  <2>4. Progress(r)' = Progress(r)
    BY <1>d, <2>1, <2>2, <2>3 DEF Progress, Applied, In, Outcomes
  <2> QED BY <1>f, <2>2, <2>4 DEF Pending, In
<1>8. CASE AllStored(r)
  <2>1. st[r].pc = "item" /\ st' = [st EXCEPT ![r].pc = "flush"]
    BY <1>8 DEF AllStored, In, Goto
  <2>2. st'[r].pc = "flush" /\ st'[r].i = st[r].i
    BY <1>a, <2>1 DEF Request
  <2>3. Progress(r)' = Progress(r)
    BY <1>d, <2>1, <2>2 DEF Progress, Applied, In, Outcomes
  <2> QED BY <1>f, <2>2, <2>3 DEF Pending, In
<1> QED BY <1>1, <1>2, <1>3, <1>4, <1>5, <1>6, <1>7, <1>8 DEF RequestStep

PromiseInv ==
    /\ Sent /\ \A r \in Requests : Checked(r)
    /\ SyncFlush /\ ~overlapped => Serial(Whole) /\ \A r \in Requests : Pending(r)

\* A body that has come stays what it is.
LEMMA SentNext ==
    ASSUME ServerInv, Sent, [Next]_vars
    PROVE  Sent'
<1>0. st \in [Requests -> Request]
  BY SerialTypes
<1> SUFFICES ASSUME NEW r \in Requests, ~In(r, "new")', st'[r].body \notin Bodies PROVE FALSE
  BY DEF Sent
<1>1. In(r, "new") /\ st' # st
  BY BodiesStay DEF Sent, In
<1>2. ASSUME NEW q \in Requests, Receive(q) PROVE FALSE
  <2>1. PICK b \in Bodies : st' = [st EXCEPT ![q].pc = "item", ![q].body = b]
    BY <1>2 DEF Receive
  <2>2. st'[q].body = b /\ (r # q => st'[r] = st[r])
    BY <1>0, <2>1 DEF Request
  <2> QED BY <1>1, <2>2 DEF In
<1>3. ASSUME NEW q \in Requests, RequestStep(q) \/ Reply(q) PROVE FALSE
  <2>1. (\E s : st' = [st EXCEPT ![q] = s]) /\ ~In(q, "new")
    BY <1>3 DEF RequestStep, Reject, StoreOther, AskKnown, Accumulate, NilDelta, Abort,
       NextItem, AllStored, Reply, Goto, In
  <2>2. r # q => st'[r] = st[r]
    BY <1>0, <2>1
  <2> QED BY <1>1, <2>1, <2>2 DEF In
<1>4. CASE Crash \/ Shutdown
  <2>1. st' = [q \in Requests |-> IF q \in InFlight THEN [st[q] EXCEPT !.pc = "aborted"] ELSE st[q]]
    BY <1>4 DEF Crash, Shutdown, EndProcess
  <2>2. r \notin InFlight
    BY <1>1 DEF InFlight, Working, In
  <2> QED BY <1>1, <2>1, <2>2 DEF In
<1> QED BY <1>1, <1>2, <1>3, <1>4 DEF Next, Boot, LoadNext, LoadStep, Loaded, Tick,
       Accept, Serve, FlushAfterUpdate, FlushProgress, Answer, managerVars, vars

\* No item is passed unverified (manager.go:120-163).
LEMMA CheckedNext ==
    ASSUME RequestsTypeOK, NEW r \in Requests, Checked(r), [Next]_vars
    PROVE  Checked(r)'
<1>0. st \in [Requests -> Request] /\ st[r].i \in Nat \ {0}
  BY DEF RequestsTypeOK, Request
<1>1. ASSUME st'[r] = st[r] PROVE Checked(r)'
  BY <1>1 DEF Checked, In
<1>2. ASSUME /\ st'[r].i = st[r].i /\ st'[r].body = st[r].body /\ st'[r].pc # "new"
             /\ st'[r].pc \in {"known", "store"} => In(r, "known") \/ Verified(Current(r))
      PROVE  Checked(r)'
  BY <1>2 DEF Checked, In, Current
<1>3. ASSUME NEW q \in Requests, Receive(q) PROVE Checked(r)'
  <2>1. PICK b \in Bodies : In(q, "new") /\ st' = [st EXCEPT ![q].pc = "item", ![q].body = b]
    BY <1>3 DEF Receive
  <2>2. CASE q = r
    <3>1. st'[r].pc = "item" /\ st'[r].i = 1
      BY <1>0, <2>1, <2>2 DEF Request, Checked
    <3>2. \A i \in 1..Len(st'[r].body) : ~(i < 1)
      OBVIOUS
    <3> QED BY <3>1, <3>2 DEF Checked, In
  <2>3. CASE q # r
    BY <1>0, <1>1, <2>1, <2>3
  <2> QED BY <2>2, <2>3
<1>4. ASSUME NEW q \in Requests, RequestStep(q) \/ Reply(q) PROVE Checked(r)'
  <2>1. CASE q # r
    <3>1. \E s : st' = [st EXCEPT ![q] = s]
      BY <1>4 DEF RequestStep, Reject, StoreOther, AskKnown, Accumulate, NilDelta, Abort,
         NextItem, AllStored, Reply, Goto
    <3> QED BY <1>0, <1>1, <2>1, <3>1
  <2>2. CASE q = r /\ ~NextItem(r)
    <3>1. PICK pc : /\ st' = [st EXCEPT ![r].pc = pc] /\ pc # "new"
                    /\ pc \in {"known", "store"} => In(r, "known") \/ Verified(Current(r))
      BY <1>4, <2>2 DEF RequestStep, Reject, StoreOther, AskKnown, Accumulate, NilDelta, Abort,
         AllStored, Reply, Goto
    <3>2. st'[r].pc = pc /\ st'[r].i = st[r].i /\ st'[r].body = st[r].body
      BY <1>0, <3>1 DEF Request
    <3> QED BY <1>2, <3>1, <3>2
  <2>3. CASE q = r /\ NextItem(r)
    <3>1. /\ st[r].pc = "store" /\ st'[r].pc = "item" /\ st'[r].i = st[r].i + 1
          /\ st'[r].body = st[r].body
      BY <1>0, <2>3 DEF NextItem, In, Request
    <3>2. \A i \in 1..Len(st[r].body) : i < st[r].i + 1 => i < st[r].i \/ i = st[r].i
      BY <1>0
    <3> QED BY <3>1, <3>2 DEF Checked, In
  <2> QED BY <2>1, <2>2, <2>3
<1>5. CASE Crash \/ Shutdown
  <2>1. st'[r] = st[r] \/ (r \in InFlight /\ st'[r] = [st[r] EXCEPT !.pc = "aborted"])
    BY <1>5 DEF Crash, Shutdown, EndProcess
  <2> QED BY <1>0, <1>1, <1>2, <2>1 DEF Request
<1> QED BY <1>1, <1>3, <1>4, <1>5 DEF Next, Boot, LoadNext, LoadStep, Loaded, Tick,
       Accept, Serve, FlushAfterUpdate, FlushProgress, Answer, managerVars, vars

\* A request that is not served is where it was.
LEMMA PendingStays ==
    ASSUME NEW r \in Requests, st'[r].pc \notin {"known", "store"}
    PROVE  Pending(r)'
BY DEF Pending, In

\* One that neither moves nor sees another sum has as much to store as before.
LEMMA PendingAsBefore ==
    ASSUME NEW r \in Requests, st'[r] = st[r], UNCHANGED call, Pending(r),
           \A n : CounterOf(n)' = CounterOf(n)
    PROVE  Pending(r)'
<1>1. /\ Reported(r)' = Reported(r) /\ Current(r)' = Current(r) /\ Tag(r)' = Tag(r)
      /\ \A step : In(r, step)' = In(r, step) /\ At(r, step)' = At(r, step)
  BY DEF Reported, Current, Tag, In, At
<1>2. Sums(r)' = Sums(r)
  <2>1. \A n, t : Promised!AddTo(CounterOf(n), t)' = Promised!AddTo(CounterOf(n), t)
    BY DEF Promised!AddTo
  <2> QED BY <1>1, <2>1 DEF Sums
<1> QED BY <1>1, <1>2 DEF Pending

\* The manager stands still.
LEMMA NothingServed ==
    ASSUME UNCHANGED managerVars
    PROVE  UNCHANGED Promised!vars /\ \A r \in Requests : Pending(r) => Pending(r)'
<1>1. \A k : Stored(k)' = Stored(k)
  BY DEF managerVars, Stored, Listed, Visible, CellAt, LastInUse, At
<1>2. \A n : CounterOf(n)' = CounterOf(n) /\ GaugeOf(n)' = GaugeOf(n)
  BY <1>1 DEF CounterOf, GaugeOf
<1>3. \A r : Progress(r)' = Progress(r)
  BY DEF managerVars, Progress, Applied, In, At
<1>4. UNCHANGED Promised!vars
  BY <1>2, <1>3 DEF Promised!vars
<1>5. \A r \in Requests : Pending(r) => Pending(r)'
  BY <1>2, PendingAsBefore DEF managerVars
<1> QED BY <1>4, <1>5

\* A request that comes, or is answered, is the service's (main.go, manager.go:120-163).
LEMMA EndsPromised ==
    ASSUME ServerInv, Sent, NEW r \in Requests, Served(r), Receive(r) \/ Reply(r),
           \A q \in Requests : Pending(q)
    PROVE  /\ Promised!Submit(r) \/ Promised!Accept(r)
           /\ \A q \in Requests : Pending(q)'
<1>0. st \in [Requests -> Request] /\ UNCHANGED <<heap, hdr, call>> /\ RequestsTypeOK
  BY SerialTypes DEF Receive, Reply
<1> DEFINE prog == [q \in Requests |-> Progress(q)]
           counts == [n \in Names |-> CounterOf(n)]
           shows == [n \in Names |-> GaugeOf(n)]
<1>1. /\ \A n : CounterOf(n)' = CounterOf(n) /\ GaugeOf(n)' = GaugeOf(n)
      /\ counts' = counts /\ shows' = shows
  <2>1. \A k : Stored(k)' = Stored(k)
    BY <1>0 DEF Stored, Listed, Visible, CellAt, LastInUse, At
  <2>2. \A n : CounterOf(n)' = CounterOf(n) /\ GaugeOf(n)' = GaugeOf(n)
    BY <2>1 DEF CounterOf, GaugeOf
  <2> QED BY <2>2
<1>2. \E s : st' = [st EXCEPT ![r] = s]
  BY DEF Receive, Reply, Goto
<1>3. \A q \in Requests \ {r} : st'[q] = st[q]
  BY <1>0, <1>2
<1>4. \A q \in Requests \ {r} : Progress(q)' = Progress(q) /\ Pending(q)'
  <2>1. \A q \in Requests \ {r} : Progress(q)' = Progress(q)
    BY <1>0, <1>3 DEF Progress, Applied, In, At
  <2> QED BY <1>0, <1>1, <1>3, <2>1, PendingAsBefore
<1>5. prog' = [prog EXCEPT ![r] = Progress(r)']
  BY <1>4, ServiceMoves
<1>6. CASE Receive(r)
  <2>1. PICK b \in Bodies : st' = [st EXCEPT ![r].pc = "item", ![r].body = b]
    BY <1>6 DEF Receive
  <2>2. st[r].pc = "new" /\ st'[r].pc = "item" /\ st'[r].body = b /\ st'[r].i = st[r].i
    <3>1. st[r].pc = "new"
      BY <1>6 DEF Receive, In
    <3>2. st[r] \in Request
      BY <1>0
    <3>3. st'[r] = [st[r] EXCEPT !.pc = "item", !.body = b]
      BY <1>0, <2>1
    <3> QED BY <3>1, <3>2, <3>3 DEF Request
  <2>3. /\ Progress(r) = [body |-> Nil, applied |-> st[r].i - 1, answer |-> Nil]
        /\ Progress(r)' = [body |-> b, applied |-> st[r].i - 1, answer |-> Nil]
    BY <2>2 DEF Progress, Applied, In, Outcomes
  <2>4. prog[r].body = Nil /\ prog' = [prog EXCEPT ![r].body = b]
    <3>1. prog[r] = Progress(r)
      OBVIOUS
    <3>2. [prog[r] EXCEPT !.body = b] = Progress(r)'
      BY <2>3, <3>1
    <3>3. prog[r].body = Nil
      BY <2>3, <3>1
    <3> HIDE DEF prog
    <3> QED BY <1>5, <3>2, <3>3
  <2> HIDE DEF prog, counts, shows
  <2>5. Promised!Submit(r)
    BY <1>1, <2>4 DEF Promised!Submit, prog, counts, shows
  <2> QED BY <1>4, <2>2, <2>5, PendingStays
<1>7. CASE Reply(r)
  <2>1. st[r].pc = "flush" /\ st' = [st EXCEPT ![r].pc = "ok"]
    BY <1>7 DEF Reply, In, Goto
  <2>2. st'[r].pc = "ok" /\ st'[r].body = st[r].body /\ st'[r].i = st[r].i
    BY <1>0, <2>1 DEF Request
  <2>3. /\ Progress(r) = [body |-> st[r].body, applied |-> st[r].i - 1, answer |-> Nil]
        /\ Progress(r)' = [body |-> st[r].body, applied |-> st[r].i - 1, answer |-> "ok"]
    BY <2>1, <2>2 DEF Progress, Applied, In, Outcomes
  <2>4. prog[r] = Progress(r) /\ prog' = [prog EXCEPT ![r].answer = "ok"]
    <3>1. prog[r] = Progress(r)
      OBVIOUS
    <3>2. [prog[r] EXCEPT !.answer = "ok"] = Progress(r)'
      BY <2>3, <3>1
    <3> HIDE DEF prog
    <3> QED BY <1>5, <3>1, <3>2
  <2>5. st[r].body # Nil /\ ~(st[r].i - 1 < Len(st[r].body))
    <3>1. st[r].body \in Bodies
      BY <2>1 DEF Sent, In
    <3>2. ~MoreItems(r)
      BY <2>1 DEF Served
    <3>3. st[r].i \in Nat /\ Len(st[r].body) \in Nat
      BY <1>0 DEF Request
    <3> QED BY <3>1, <3>2, <3>3, ServiceAssumption DEF MoreItems
  <2> HIDE DEF prog, counts, shows
  <2>6. Promised!Accept(r)
    BY <1>1, <2>3, <2>4, <2>5 DEF Promised!Accept, Promised!Open, Promised!Remains,
       prog, counts, shows
  <2> QED BY <1>4, <2>2, <2>6, PendingStays
<1> QED BY <1>6, <1>7

\* No request has come and nothing is held.
LEMMA PromiseInit == Init => PromiseInv /\ Promised!Init
<1> SUFFICES ASSUME Init PROVE PromiseInv /\ Promised!Init
  OBVIOUS
<1>1. /\ \A r \in Requests : st[r].pc = "new" /\ st[r].i = 1
      /\ hdr.len = 0 /\ st = [r \in Requests |-> [pc |-> "new", body |-> <<>>, i |-> 1]]
      /\ heap = << <<>> >>
  BY DEF Init, ManagerInit, StoreInit
<1>2. Serial(Whole)
  BY SerialInit
<1>3. Sent /\ \A r \in Requests : Pending(r) /\ Checked(r)
  <2>1. Sent /\ \A r \in Requests : Pending(r)
    BY <1>1 DEF Sent, Pending, In
  <2>2. \A r \in Requests : Checked(r)
    BY <1>1 DEF Checked, In
  <2> QED BY <2>1, <2>2
<1>4. \A k : Stored(k) = Nil
  <2>1. \A k : Listed(k) = {}
    BY <1>1 DEF Listed
  <2> QED BY <2>1 DEF Stored
<1>5. \A n : CounterOf(n) = Nil /\ GaugeOf(n) = Nil
  BY <1>4 DEF CounterOf, GaugeOf
<1>6. \A r \in Requests : Progress(r) = [body |-> Nil, applied |-> 0, answer |-> Nil]
  BY <1>1 DEF Progress, Applied, In, Outcomes
<1>7. Promised!Init
  BY <1>5, <1>6 DEF Promised!Init
<1> QED BY <1>2, <1>3, <1>7 DEF PromiseInv

\* Every step keeps the invariant, and while the process is up is the service's.
LEMMA PromiseNext ==
    ASSUME SyncFlush, SerialInv, PromiseInv, [Next]_vars
    PROVE  /\ PromiseInv'
           /\ Up /\ Up' /\ ~overlapped' /\ NoneRefusedLate'
                => [Promised!Next]_(Promised!vars)
<1>a. /\ ServerInv /\ Sent' /\ Sent /\ RequestsTypeOK /\ st \in [Requests -> Request]
      /\ \A r \in Requests : Checked(r) /\ Checked(r)'
  BY SentNext, SerialTypes, CheckedNext DEF SerialInv, PromiseInv
<1> SUFFICES ASSUME ~overlapped'
             PROVE  /\ Serial(Whole)' /\ \A r \in Requests : Pending(r)'
                    /\ Up /\ Up' /\ NoneRefusedLate' => [Promised!Next]_(Promised!vars)
  BY <1>a DEF PromiseInv
<1>b. /\ Serial(Whole) /\ Serial(Proper) /\ \A r \in Requests : Pending(r)
      /\ Fits(Whole) /\ Takes(Whole)
  <2>1. ~overlapped
    BY <1>a, CountsGrow
  <2>2. Serial(Whole) /\ Serial(Proper) /\ \A r \in Requests : Pending(r)
    BY <2>1 DEF SerialInv, PromiseInv
  <2> QED BY <1>a, <2>2, WholeFits, WholeTakes
<1>c. Serial(Whole)'
  BY <1>a, <1>b, SerialNext
<1>1. CASE Boot \/ LoadNext \/ LoadStep \/ Loaded
  <2>1. ~Up /\ st' = st
    BY <1>1 DEF Boot, LoadNext, LoadStep, Loaded, Up, managerVars
  <2>2. \A r \in Requests : st[r].pc \notin {"known", "store"}
    BY <1>b, <2>1 DEF Serial, OneAtATime, InFlight, Working
  <2> QED BY <1>c, <2>1, <2>2, PendingStays
<1>2. ASSUME NEW r \in Requests, Accept(r) \/ Answer(r)
      PROVE  /\ \A q \in Requests : Pending(q)'
             /\ [Promised!Next]_(Promised!vars)
  <2>1. Receive(r) \/ Reply(r)
    BY <1>2 DEF Accept, Answer
  <2>2. Served(r)
    BY <1>b, <2>1 DEF Serial, Receive, Reply, InFlight, Working, In
  <2>3. /\ Promised!Submit(r) \/ Promised!Accept(r)
        /\ \A q \in Requests : Pending(q)'
    BY <1>a, <1>b, <2>1, <2>2, EndsPromised
  <2> QED BY <2>3 DEF Promised!Next
<1>3. ASSUME NEW r \in Requests, Serve(r)
      PROVE  /\ \A q \in Requests : Pending(q)'
             /\ NoneRefusedLate' => [Promised!Next]_(Promised!vars)
  <2>1. /\ Alone(r) /\ ServeStep(r) /\ ManagerInv /\ Orderly(Whole)
        /\ \A q \in Requests \ {r} : st'[q] = st[q] /\ q \notin InFlight
    BY <1>a, <1>b, <1>3, ServeSerial, SerialTypes DEF Serial
  <2>2. \A q \in Requests \ {r} : Pending(q)'
    BY <2>1, PendingStays DEF InFlight, Working
  <2>3. /\ Pending(r)'
        /\ ~RefusedLate(st[r].body) =>
            Promised!Apply(r) \/ Promised!Refuse(r) \/ UNCHANGED Promised!vars
    BY <1>a, <1>b, <2>1, StorePromise, RequestPromise DEF ServeStep
  <2>4. st'[r].body = st[r].body
    BY <1>a, <2>1 DEF ServeStep, RequestStep, Reject, StoreOther, AskKnown, Accumulate, NilDelta,
       Abort, NextItem, AllStored, Goto, Request
  <2>5. NoneRefusedLate' => ~RefusedLate(st[r].body)
    BY <2>4 DEF NoneRefusedLate
  <2> QED BY <2>2, <2>3, <2>5 DEF Promised!Next
<1>4. CASE Crash \/ Shutdown
  <2>1. st' = [q \in Requests |-> IF q \in InFlight THEN [st[q] EXCEPT !.pc = "aborted"] ELSE st[q]]
    BY <1>4 DEF Crash, Shutdown, EndProcess
  <2>2. \A q \in Requests : st'[q].pc \notin {"known", "store"}
    BY <1>a, <2>1 DEF Request, InFlight, Working
  <2>3. ~Up'
    BY <1>4 DEF Crash, Shutdown, EndProcess, Up
  <2> QED BY <1>c, <2>2, <2>3, PendingStays
<1>5. CASE UNCHANGED managerVars
  BY <1>5, <1>b, <1>c, NothingServed
<1>6. \/ \E r \in Requests : Accept(r) \/ Answer(r) \/ Serve(r)
      \/ Boot \/ LoadNext \/ LoadStep \/ Loaded \/ Crash \/ Shutdown
      \/ UNCHANGED managerVars
  BY DEF Next, FlushAfterUpdate, Tick, FlushProgress, vars, managerVars
<1> QED BY <1>c, <1>1, <1>2, <1>3, <1>4, <1>5, <1>6

\* With interval 0, and as long as requests do not overlap, each process serves as
\* MetricsService says (manager.go:87-163).
THEOREM ServesAsPromised == SyncFlush => (Spec => ServedAsPromised)
<1> SUFFICES ASSUME SyncFlush PROVE Spec => ServedAsPromised
  OBVIOUS
<1>1. Init => SerialInv /\ PromiseInv /\ Promised!Init
  BY SerialInvInit, PromiseInit
<1>2. SerialInv /\ PromiseInv /\ [Next]_vars => (SerialInv /\ PromiseInv)'
  BY SerialInvNext, PromiseNext
<1>3. SerialInv /\ PromiseInv /\ [Next]_vars =>
        [Up /\ Up' /\ ~overlapped' /\ NoneRefusedLate' => [Promised!Next]_(Promised!vars)]_vars
  BY PromiseNext
<1> QED BY <1>1, <1>2, <1>3, PTL DEF Spec, ServedAsPromised
=============================================================================
