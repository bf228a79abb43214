-------------------------- MODULE DBDurable_proofs --------------------------
(***************************************************************************)
(* What was acknowledged is in the table, and served again after a start,  *)
(* under the conditions Clean.  A row never holds what memory does not (a  *)
(* transaction writes what is held, and a start restores each row as it    *)
(* is), so a commit that saves what is held loses nothing; a start has     *)
(* loaded every row before it serves, and memory then only grows.          *)
(***************************************************************************)
EXTENDS DBServer_proofs

\* A metric that some request carried, and a row that memory has caught up with.
Wanted(m) == \E it \in Received : SameKey(it, m)
Shown(row) == \E x \in Held : SameKey(x, row) /\ Covers(x, row)
FineRow(n) == table[n] # Nil => table[n] \in Proper /\ table[n].id = n /\ Wanted(table[n])

\* The rows and the metrics held are those requests carried, as they stored them.
Fine ==
    /\ \A n \in Names : FineRow(n)
    /\ \A x \in Held : Wanted(x)

\* A process that is not up has loaded the rows it has gone past, and nothing else;
\* one that is up has at least what is in the table.
RowLoaded(n) == table[n] # Nil => Shown(table[n]) \/ (Busy(Main) /\ call[Main].m = table[n])
Loading ==
    /\ srv.pc \in {"querying", "restoring", "up"} => open
    /\ ~Up => \A x \in Held : table[x.id] = x
    /\ Busy(Main) => \E n \in Names \ srv.todo :
          table[n] # Nil /\ call[Main].op = "upsert" /\ call[Main].m = table[n]
    /\ Up => \A n \in Names : table[n] # Nil => Shown(table[n])
    /\ srv.pc = "restoring" => \A n \in Names \ srv.todo : RowLoaded(n)

\* A transaction writes what is held; what it has committed is in the table.
RowKeeps(t) ==
    LET row == table[st[t[1]].body[t[2]].id]
    IN  row # Nil /\ row.delta # Nil /\ row.delta[t] >= 1
Saved(r) == \A i \in 1..Len(st[r].body) : Counter(r, i) => RowKeeps(<<r, i>>)
Committed ==
    /\ \A p \in Callers, n \in Names :
          ~InTx(p, "idle") /\ tx[p].rows[n] # Nil => tx[p].rows[n] \in Held
    /\ \A r \in Requests : In(r, "ok") \/ (In(r, "flush") /\ InTx(r, "done")) => Saved(r)

Durable == Fine /\ Loading /\ Committed
Unopened == \A r \in Requests : In(r, "new") => st[r].body = <<>>
CleanInv == SerialInv /\ Unopened /\ (Clean => Durable)

\* The steps of the process, by what they do to the requests.
Starts ==
    \/ Boot \/ Migrate \/ Query
    \/ LoadNext \/ SkipRow \/ LoadStep \/ Loaded \/ LoadFails

\* No step takes an item out of what was received, and none but the first gives a
\* request its body.
LEMMA BodiesStay ==
    ASSUME DBInv, [Next]_vars
    PROVE  \A r \in Requests :
              \/ st'[r].body = st[r].body /\ (In(r, "new")' => In(r, "new"))
              \/ In(r, "new") /\ ~In(r, "new")'
<1>0. st \in [Requests -> Request] /\ Requests \subseteq Callers
  BY SerialTypes
<1> SUFFICES ASSUME NEW r \in Requests, st' # st
             PROVE  \/ st'[r].body = st[r].body /\ (In(r, "new")' => In(r, "new"))
                    \/ In(r, "new") /\ ~In(r, "new")'
  BY DEF In
<1>1. CASE Crash \/ Shutdown
  <2>1. st' = [q \in Requests |-> IF q \in InFlight THEN [st[q] EXCEPT !.pc = "aborted"] ELSE st[q]]
    BY <1>1 DEF Crash, Shutdown, EndProcess
  <2>2. st'[r] = IF r \in InFlight THEN [st[r] EXCEPT !.pc = "aborted"] ELSE st[r]
    BY <2>1
  <2> QED BY <1>0, <2>2 DEF In, Request
<1>2. ASSUME NEW q \in Requests, Receive(q)
      PROVE  \/ st'[r].body = st[r].body /\ (In(r, "new")' => In(r, "new"))
             \/ In(r, "new") /\ ~In(r, "new")'
  <2>1. /\ \E b : st' = [st EXCEPT ![q] = [st[q] EXCEPT !.pc = "item", !.body = b]]
        /\ st[q].pc = "new"
    BY <1>2 DEF Receive, In
  <2> QED BY <1>0, <2>1 DEF In, Request
<1>3. ASSUME NEW q \in Requests, RequestStep(q) \/ Reply(q)
      PROVE  st'[r].body = st[r].body /\ (In(r, "new")' => In(r, "new"))
  <2>1. /\ \E s : st' = [st EXCEPT ![q] = s]
        /\ st'[q].body = st[q].body /\ st'[q].pc # "new"
    BY <1>0, <1>3 DEF RequestStep, Reject, StoreOther, AskKnown, Accumulate, NilDelta, Abort,
       NextItem, AllStored, Reply, Goto, Request
  <2> QED BY <1>0, <2>1 DEF In
<1> QED BY <1>1, <1>2, <1>3 DEF Next, Boot, Migrate, Query, LoadNext, SkipRow, LoadStep, Loaded,
       LoadFails, Accept, Serve, FlushAfterUpdate, FlushProgress, Answer, managerVars, vars

LEMMA UnopenedNext ==
    ASSUME DBInv, Unopened, [Next]_vars PROVE Unopened'
BY BodiesStay DEF Unopened, In

\* What is clean now has been so, no statement has just failed, and what was
\* received still is.
LEMMA CleanBefore ==
    ASSUME DBInv, Unopened, [Next]_vars, Clean'
    PROVE  /\ Clean /\ ~DBError /\ Received \subseteq Received'
           /\ \A a \in Received : a.id \notin LongNames \cup Unnamed
           /\ \A m : Wanted(m) => Wanted(m)'
<1>1. Received \subseteq Received'
  <2> SUFFICES ASSUME NEW r \in Requests, NEW i \in 1..Len(st[r].body)
               PROVE  i \in 1..Len(st'[r].body) /\ st'[r].body[i] = st[r].body[i]
    BY DEF Received, Bodily
  <2>1. ~In(r, "new")
    BY DEF Unopened
  <2> QED BY <2>1, BodiesStay
<1>2. dbErrors \in Nat /\ (dbErrors' = dbErrors \/ dbErrors' = dbErrors + 1)
      /\ (overlapped => overlapped')
  <2>1. dbErrors \in Nat
    BY DEF DBInv
  <2>2. CASE UNCHANGED vars
    BY <2>1, <2>2 DEF vars
  <2>3. CASE Starts \/ Crash \/ Shutdown
    BY <2>1, <2>3 DEF Starts, Boot, Migrate, Query, LoadNext, SkipRow, LoadStep, Loaded,
       LoadFails, Crash, Shutdown, EndProcess, dbVars, DBError
  <2>4. ASSUME NEW r \in Requests,
               Accept(r) \/ Serve(r) \/ FlushAfterUpdate(r) \/ FlushProgress(r) \/ Answer(r)
        PROVE  (dbErrors' = dbErrors \/ dbErrors' = dbErrors + 1) /\ (overlapped => overlapped')
    <3>1. CASE FlushProgress(r)
      <4>1. FlushStep(r) /\ overlapped' = overlapped
        BY <3>1 DEF FlushProgress
      <4>2. dbErrors' = dbErrors \/ DBError
        BY <4>1 DEF FlushStep, BeginTx, GetBatch, NextMetric, Exec, Commit, Refused, StatementFails
      <4> QED BY <4>1, <4>2 DEF DBError
    <3>2. CASE Accept(r)
      <4>1. dbErrors' = dbErrors /\ overlapped' = (overlapped \/ InFlight # {})
        BY <3>2 DEF Accept, dbVars
      <4> QED BY <4>1
    <3>3. CASE Serve(r) \/ FlushAfterUpdate(r) \/ Answer(r)
      BY <3>3 DEF Serve, FlushAfterUpdate, Answer, dbVars
    <3> QED BY <2>4, <3>1, <3>2, <3>3
  <2> QED BY <2>1, <2>2, <2>3, <2>4 DEF Next, Starts
<1>3. dbErrors' = 0 /\ ~overlapped' /\ dbErrors = 0 /\ ~overlapped
  BY <1>2 DEF Clean
<1>4. OneTypePerName /\ \A a \in Received : a.id \notin LongNames \cup Unnamed
  BY <1>1 DEF Clean, OneTypePerName
<1>5. ~DBError
  BY <1>3 DEF DBError
<1> HIDE DEF Received
<1> QED BY <1>1, <1>3, <1>4, <1>5 DEF Clean, Wanted

\* What shows a row goes on showing it as the memory grows.
LEMMA ShownGrows ==
    ASSUME Orderly(Proper), Orderly(Proper)', HeldGrows, NEW row \in Metric, Shown(row)
    PROVE  \E y \in Held' : SameKey(y, row) /\ Covers(y, row)
<1>1. PICK x \in Held : SameKey(x, row) /\ Covers(x, row)
  BY DEF Shown
<1>2. PICK y \in Held' : SameKey(x, y) /\ Covers(y, x)
  BY DEF HeldGrows
<1>3. x \in Metric /\ y \in Metric
  BY DEF Orderly, Keyed, Held, Proper
<1>4. SameKey(y, row)
  BY <1>1, <1>2 DEF SameKey
<1>5. ASSUME row.delta # Nil
      PROVE  y.delta # Nil /\ \A t \in Tags : row.delta[t] <= y.delta[t]
  <2>1. /\ x.delta # Nil /\ y.delta # Nil
        /\ \A t \in Tags : row.delta[t] <= x.delta[t] /\ x.delta[t] <= y.delta[t]
    BY <1>1, <1>2, <1>5 DEF Covers
  <2>2. \A t \in Tags : row.delta[t] \in Nat /\ x.delta[t] \in Nat /\ y.delta[t] \in Nat
    BY <1>3, <1>5, <2>1 DEF Metric, Delta
  <2> QED BY <2>1, <2>2
<1> HIDE DEF Held
<1> QED BY <1>4, <1>5 DEF Covers

\* A proper metric shows itself.
LEMMA ShowsItself ==
    ASSUME NEW x \in Proper PROVE SameKey(x, x) /\ Covers(x, x)
BY DEF SameKey, Covers, Proper, Metric, Delta

\* Restoring a row that a request stored gives what was stored (postgres.go:210-226).
LEMMA RestoredIsRow ==
    ASSUME NEW row \in Proper PROVE Restored(row) = row
<1>1. /\ row.delta = (IF row.mtype = "counter" THEN row.delta ELSE Nil)
      /\ row.value = (IF row.mtype = "gauge" THEN row.value ELSE Nil)
      /\ row \in Metric
  BY DEF Proper
<1>2. Restored(row) = [[row EXCEPT !.delta = row.delta] EXCEPT !.value = row.value]
  BY <1>1 DEF Restored
<1> QED BY <1>1, <1>2 DEF Metric

\* Starting loads what the table has, and no more.
LEMMA StartDurable ==
    ASSUME DBInv, Serial, Serial', Durable, Starts, ~DBError,
           \A a \in Received : a.id \notin Unnamed
    PROVE  Durable'
<1>a. /\ Orderly(Proper) /\ OneAtATime /\ ~Up /\ InFlight = {} /\ UNCHANGED <<st, table, tx>>
      /\ StoreIn(Metric, heap, hdr, call)
      /\ Requests \subseteq Callers /\ Main \in Callers \ Requests
      /\ Held \subseteq Proper
  <2>1. ~Up /\ UNCHANGED <<st, table, tx>>
    BY DEF Starts, Boot, Migrate, Query, LoadNext, SkipRow, LoadStep, Loaded, LoadFails, Up,
       managerVars, dbVars
  <2> QED BY <2>1, SerialTypes, HeldProper DEF Serial, OneAtATime
<1>b. /\ \A q \in Callers : InTx(q, "idle")
      /\ \A q \in Callers : Busy(q) => q = Main /\ srv.pc = "restoring"
  <2>1. \A q \in Callers : InTx(q, "idle")
    BY <1>a, NoFlush
  <2> QED BY <1>a, <2>1 DEF OneAtATime, InFlight, Working
<1>c. Received' = Received /\ Committed'
  <2>1. Received' = Received
    BY <1>a DEF Received, Bodily
  <2>2. \A r \in Requests : Saved(r) => Saved(r)'
    BY <1>a DEF Saved, Counter, RowKeeps
  <2>3. \A q \in Callers : InTx(q, "idle")'
    BY <1>a, <1>b DEF InTx
  <2>4. \A r \in Requests : (In(r, "ok")' => In(r, "ok")) /\ ~InTx(r, "done")'
    BY <1>a, <2>3 DEF In, InTx
  <2> QED BY <2>1, <2>2, <2>3, <2>4 DEF Durable, Committed
<1>d. \A n \in Names : FineRow(n)'
  BY <1>a, <1>c DEF Durable, Fine, FineRow, Wanted
\* Nothing is loaded by this step.
<1>e. ASSUME Held' = Held, Loading' PROVE Durable'
  <2>1. \A x \in Held' : Wanted(x)'
    BY <1>c, <1>e DEF Durable, Fine, Wanted
  <2> QED BY <1>c, <1>d, <1>e, <2>1 DEF Durable, Fine
<1>f. \A n \in Names : Shown(table[n]) /\ Held' = Held => Shown(table[n])'
  BY <1>a DEF Shown
<1>1. CASE Boot \/ Migrate \/ Query
  <2>1. /\ UNCHANGED <<heap, hdr, call>> /\ srv.pc # "restoring"
        /\ ~Up'
        /\ srv'.pc \in {"querying", "restoring"} => open'
        /\ srv'.pc = "restoring" => \A n \in Names \ srv'.todo : table[n] = Nil
    <3>0. srv \in Srv /\ (srv.pc = "querying" => open)
      BY DEF DBInv, StartOK, Durable, Loading
    <3>1. CASE Boot
      BY <3>1 DEF Boot, managerVars, Up
    <3>2. CASE Migrate
      BY <3>0, <3>2 DEF Migrate, managerVars, Up, Srv
    <3>3. CASE Query
      BY <3>0, <3>3 DEF Query, managerVars, dbVars, Up, Srv
    <3> QED BY <1>1, <3>1, <3>2, <3>3
  <2>2. Held' = Held /\ ~Busy(Main)'
    BY <1>a, <1>b, <2>1, OrderlyStays DEF Busy
  <2>3. \A x \in Held' : table'[x.id] = x
    BY <1>a, <2>2 DEF Durable, Loading
  <2>4. Loading'
    <3>1. \A n \in Names \ srv'.todo : srv'.pc = "restoring" => RowLoaded(n)'
      BY <1>a, <2>1 DEF RowLoaded
    <3>2. srv'.pc = "up" => open'
      BY <2>1 DEF Up
    <3> QED BY <2>1, <2>2, <2>3, <3>1, <3>2 DEF Loading, Up
  <2> QED BY <1>e, <2>2, <2>4
<1>2. CASE LoadNext
  <2>1. PICK n \in srv.todo :
            /\ Calls(Main, "upsert", Restored(table[n])) /\ srv' = [srv EXCEPT !.todo = @ \ {n}]
            /\ UNCHANGED <<heap, hdr, open>> /\ srv.pc = "restoring" /\ ~Busy(Main)
    BY <1>2 DEF LoadNext, dbVars, Free, At, Busy
  <2>2. /\ n \in Names /\ table[n] # Nil /\ Restored(table[n]) = table[n]
        /\ table[n] \in Proper /\ srv \in Srv
    <3>1. n \in Names /\ table[n] # Nil /\ srv \in Srv
      BY <2>1 DEF DBInv, StartOK, Srv
    <3> QED BY <3>1, RestoredIsRow DEF Durable, Fine, FineRow
  <2> DEFINE c == NewCall("upsert", table[n])
  <2>3. call' = [call EXCEPT ![Main] = c]
    BY <2>1, <2>2 DEF Calls
  <2>4. \E op, m : c = NewCall(op, m) /\ (op = "upsert" => m \in Proper)
    BY <2>2
  <2>5. c.pc = "find" /\ c.op = "upsert" /\ c.m = table[n]
    BY DEF NewCall
  <2>6. \A q \in Callers : ~Busy(q)
    BY <1>b, <2>1
  <2> HIDE DEF c
  <2>7. Held' = Held /\ call'[Main] = c
    <3>1. UNCHANGED <<heap, hdr>> /\ Main \in Callers
      BY <1>a, <2>1
    <3>2. /\ Orderly(Proper)' /\ Held' = Held
          /\ call'[Main] = c /\ \A q \in Callers \ {Main} : call'[q] = call[q]
      BY <1>a, <2>3, <2>4, <2>6, <3>1, StartOrderly
    <3> QED BY <3>2
  <2>8. srv'.pc = "restoring" /\ srv'.todo = srv.todo \ {n}
    BY <2>1, <2>2 DEF Srv
  <2>9. \A k \in Names \ srv'.todo : RowLoaded(k)'
    <3> TAKE k \in Names \ srv'.todo
    <3>1. CASE k = n
      <4>1. call'[Main].pc = "find" /\ call'[Main].m = table[n] /\ table' = table
        BY <1>a, <2>5, <2>7
      <4> QED BY <3>1, <4>1 DEF RowLoaded, Busy
    <3>2. CASE k # n
      <4>1. table[k] # Nil => Shown(table[k])
        BY <2>1, <2>8, <3>2 DEF Durable, Loading, RowLoaded
      <4> QED BY <1>a, <1>f, <2>7, <4>1 DEF RowLoaded
    <3> QED BY <3>1, <3>2
  <2>10. Loading'
    <3>1. open'
      BY <2>1 DEF Durable, Loading
    <3>2. \A x \in Held' : table'[x.id] = x
      BY <1>a, <2>7 DEF Durable, Loading
    <3>3. n \in Names \ srv'.todo /\ table'[n] # Nil /\ call'[Main].op = "upsert" /\ call'[Main].m = table'[n]
      BY <1>a, <2>2, <2>5, <2>7, <2>8
    <3> QED BY <2>8, <2>9, <3>1, <3>2, <3>3 DEF Loading, Up
  <2> QED BY <1>e, <2>7, <2>10
\* Every row is of a metric that was received, and those have names.
<1>s. CASE SkipRow
  <2>1. PICK n \in srv.todo : n \in Unnamed
    BY <1>s DEF SkipRow, Creatable
  <2>2. n \in Names /\ table[n] # Nil
    BY <2>1 DEF DBInv, StartOK, Srv
  <2>3. table[n].id = n /\ Wanted(table[n])
    BY <2>2 DEF Durable, Fine, FineRow
  <2> QED BY <2>1, <2>3 DEF Wanted, SameKey
<1>3. CASE LoadStep
  <2>1. /\ Orderly(Proper)' /\ (Quiet(Main) \/ Lands(Main))
        /\ StoreStep(Main) /\ UNCHANGED <<srv, open>> /\ srv.pc = "restoring"
    BY <1>3, <1>a, <1>b, ProperOverwrites, StepOrderly DEF LoadStep, dbVars
  <2>2. Busy(Main) /\ ~At(Main, "idle") /\ ~At(Main, "done")
    BY <2>1 DEF StoreStep, FindNext, FindHit, FindMiss, Fetch, Update, LoadRoom, LoadFull,
       Extend, Swap, Fill, Shift, Shrink, At, Busy
  <2>3. PICK n \in Names \ srv.todo :
            table[n] # Nil /\ call[Main].op = "upsert" /\ call[Main].m = table[n]
    BY <2>2 DEF Durable, Loading
  <2> DEFINE m == call[Main].m
  <2>4. m \in Proper /\ m.id = n /\ Wanted(m)
    BY <2>3 DEF Durable, Fine, FineRow
  <2>5. \A x \in Held : SameKey(x, m) => x = m
    BY <1>a, <2>3, <2>4 DEF Durable, Loading, SameKey
  <2>6. /\ Held' = Held \/ Held' = Held \cup {m}
        /\ (Busy(Main)' /\ Held' = Held) \/ m \in Held'
        /\ Busy(Main)' => call'[Main].op = "upsert" /\ call'[Main].m = m
    <3>1. CASE Quiet(Main)
      <4>1. Asked(Main)' = Asked(Main) /\ Held' = Held
        BY <3>1 DEF Quiet
      <4>2. Asked(Main) = [st |-> Status(Main), op |-> call[Main].op, m |-> m, got |-> call[Main].got]
        BY <2>2 DEF Asked
      <4>3. /\ Asked(Main)'.st = Status(Main)'
            /\ ~At(Main, "idle")' => Asked(Main)'.op = call'[Main].op /\ Asked(Main)'.m = call'[Main].m
        BY DEF Asked
      <4>4. Status(Main) = "called"
        <5>1. call[Main].pc # "shrink"
          BY <1>a, <2>3 DEF Orderly, CallOrderly
        <5> QED BY <2>2, <5>1 DEF Status, At
      <4>5. (At(Main, "idle")' => Status(Main)' = "idle") /\ (At(Main, "done")' => Status(Main)' = "done")
        BY DEF Status, At
      <4> HIDE DEF Status, Asked
      <4>6. ~At(Main, "idle")' /\ ~At(Main, "done")' /\ call'[Main].op = "upsert" /\ call'[Main].m = m
        BY <2>3, <4>1, <4>2, <4>3, <4>4, <4>5
      <4> QED BY <4>1, <4>6 DEF Busy, At
    <3>2. CASE Lands(Main)
      <4>1. /\ call'[Main].op = "upsert" /\ call'[Main].m = m
            /\ \/ Held' = Held \cup {m}
               \/ \E old \in Held : SameKey(old, m) /\ Held' = Besides(m) \cup {Overwrite(old, m)}
        BY <2>3, <3>2 DEF Lands
      <4>2. Held' = Held \cup {m}
        <5>1. SameKey(m, m) => Overwrite(m, m) = m
          BY <2>4, ProperReplaces DEF Replaces
        <5>2. SameKey(m, m)
          BY DEF SameKey
        <5> HIDE DEF m, Held
        <5> QED BY <2>5, <4>1, <5>1, <5>2 DEF Besides
      <4> QED BY <4>1, <4>2
    <3> QED BY <2>1, <3>1, <3>2
  <2>7. m = table[n]
    BY <2>3
  <2>8. \A k \in Names \ srv.todo : RowLoaded(k)
    BY <2>1 DEF Durable, Loading
  <2> HIDE DEF m
  <2>9. \A k \in Names \ srv.todo : RowLoaded(k)'
    <3> SUFFICES ASSUME NEW k \in Names \ srv.todo, table[k] # Nil
                 PROVE  \/ \E y \in Held' : SameKey(y, table[k]) /\ Covers(y, table[k])
                        \/ Busy(Main)' /\ call'[Main].m = table[k]
      BY <1>a DEF RowLoaded, Shown
    <3>1. CASE Shown(table[k])
      BY <2>6, <3>1 DEF Shown
    <3>2. CASE call[Main].m = table[k]
      <4>1. table[k] = m
        BY <3>2 DEF m
      <4>2. CASE m \in Held'
        BY <2>4, <4>1, <4>2, ShowsItself
      <4>3. CASE m \notin Held'
        BY <2>6, <4>1, <4>3
      <4> QED BY <4>2, <4>3
    <3> QED BY <2>8, <3>1, <3>2 DEF RowLoaded
  <2>10. Loading'
    <3>1. open'
      BY <2>1 DEF Durable, Loading
    <3>2. \A x \in Held' : table'[x.id] = x
      BY <1>a, <2>4, <2>6, <2>7 DEF Durable, Loading
    <3>3. Busy(Main)' => n \in Names \ srv'.todo /\ table'[n] # Nil
                         /\ call'[Main].op = "upsert" /\ call'[Main].m = table'[n]
      BY <1>a, <2>1, <2>3, <2>6, <2>7
    <3> QED BY <2>1, <2>9, <3>1, <3>2, <3>3 DEF Loading, Up
  <2>11. \A x \in Held' : Wanted(x)'
    BY <1>c, <2>4, <2>6 DEF Durable, Fine, Wanted
  <2> QED BY <1>c, <1>d, <2>10, <2>11 DEF Durable, Fine
<1>4. CASE Loaded
  <2>1. /\ call' = [call EXCEPT ![Main] = NoCall] /\ UNCHANGED <<heap, hdr, open>>
        /\ srv.pc = "restoring" /\ srv.todo = {} /\ srv'.pc \in {"up", "querying"}
        /\ ~Busy(Main)
    BY <1>4 DEF Loaded, AfterRestore, dbVars, Free, At, Busy
  <2>2. \A q \in Callers : ~Busy(q)
    BY <1>b, <2>1
  <2>3. Held' = Held /\ call'[Main] = NoCall
    BY <1>a, <2>1, <2>2, StartOrderly
  <2>4. ~Busy(Main)'
    BY <2>3 DEF Busy, NoCall
  <2>5. \A n \in Names : table[n] # Nil => Shown(table[n])
    BY <2>1 DEF Durable, Loading, RowLoaded
  <2>6. \A n \in Names : table'[n] # Nil => Shown(table[n])'
    BY <1>a, <1>f, <2>3, <2>5
  <2>7. open' /\ \A x \in Held' : table'[x.id] = x
    BY <1>a, <2>1, <2>3 DEF Durable, Loading
  <2>8. Loading'
    BY <2>1, <2>4, <2>6, <2>7 DEF Loading, Up
  <2> QED BY <1>e, <2>3, <2>8
<1>5. CASE LoadFails
  BY <1>5 DEF LoadFails, Durable, Loading
<1> QED BY <1>1, <1>2, <1>s, <1>3, <1>4, <1>5 DEF Starts

\* Once the process is up, what the table and the transactions hold is at most what
\* the memory held before: a step that only adds to the memory leaves them right.
LEMMA RowsStay ==
    ASSUME Serial, Serial', Durable, HeldGrows, Received \subseteq Received', Up, Up',
           UNCHANGED <<table, open>>, ~Busy(Main)'
    PROVE  (\A n \in Names : FineRow(n)') /\ Loading'
<1>1. ASSUME NEW n \in Names, table[n] # Nil
      PROVE  Shown(table[n])' /\ FineRow(n)'
  <2>1. table[n] \in Proper /\ table[n].id = n /\ Wanted(table[n]) /\ Shown(table[n])
    BY <1>1 DEF Durable, Fine, FineRow, Loading
  <2>2. \E y \in Held' : SameKey(y, table[n]) /\ Covers(y, table[n])
    BY <2>1, ShownGrows DEF Serial, Proper
  <2> HIDE DEF Received
  <2> QED BY <2>1, <2>2 DEF Shown, FineRow, Wanted
<1>2. \A n \in Names : FineRow(n)'
  BY <1>1 DEF FineRow
<1>3. srv'.pc # "restoring" /\ srv.pc = "up" /\ open'
  BY DEF Up, Durable, Loading
<1> QED BY <1>1, <1>2, <1>3 DEF Loading

\* A step of a request that is served: what it stores is an item it carried.
LEMMA ServeDurable ==
    ASSUME DBInv, Serial, Serial', Durable, NEW r \in Requests, Serve(r),
           Received \subseteq Received'
    PROVE  Durable'
<1>a. /\ HeldGrows /\ r \in InFlight /\ st'[r].body = st[r].body /\ st'[r].pc # "ok"
      /\ \A x \in Held' : x \in Held \/ (MoreItems(r) /\ SameKey(x, Reported(r)))
      /\ \A q \in Callers \ {r} : call'[q] = call[q]
      /\ \A q \in Requests \ {r} : st'[q] = st[q]
  BY ServeSerial
<1>b. /\ Up /\ Up' /\ UNCHANGED <<table, open, tx>> /\ RequestsTypeOK
      /\ Requests \subseteq Callers /\ Main \in Callers \ Requests
  BY SerialTypes DEF Serve, dbVars, Up, DBInv, ManagerInv
<1>c. ~Busy(Main)'
  BY <1>b DEF Serial, OneAtATime, Up
<1>d. \A q \in Callers : InTx(q, "idle")'
  <2>1. \A q \in Callers : InTx(q, "idle")
    <3>1. OneAtATime /\ (Busy(r) => st[r].pc \in {"known", "store"}) /\ ServeStep(r)
      BY <1>b DEF Serial, OneAtATime, Serve, ServeStep, Up
    <3>2. ~In(r, "flush")
      BY <1>b, <3>1, ServeInFlight
    <3> QED BY <1>a, <3>1, <3>2, NoFlush
  <2> QED BY <1>b, <2>1 DEF InTx
<1>1. (\A n \in Names : FineRow(n)') /\ Loading'
  BY <1>a, <1>b, <1>c, RowsStay
<1>2. \A x \in Held' : Wanted(x)'
  <2> TAKE x \in Held'
  <2>1. CASE x \in Held
    <3>1. Wanted(x)
      BY <2>1 DEF Durable, Fine
    <3> HIDE DEF Received
    <3> QED BY <3>1 DEF Wanted
  <2>2. CASE MoreItems(r) /\ SameKey(x, Reported(r))
    <3>1. /\ st[r].i \in 1..Len(st[r].body) /\ SameKey(Current(r), x)
      BY <1>b, <2>2, ReportedProper DEF SameKey
    <3>2. Current(r) \in Received
      BY <3>1 DEF Received, Bodily, Current
    <3> HIDE DEF Received
    <3> QED BY <3>1, <3>2 DEF Wanted
  <2> QED BY <1>a, <2>1, <2>2
<1>3. Committed'
  <2>1. ASSUME NEW q \in Requests, In(q, "ok")' PROVE Saved(q)'
    <3>1. q # r /\ st'[q] = st[q]
      BY <1>a, <2>1 DEF In
    <3>2. Saved(q)
      BY <2>1, <3>1 DEF Durable, Committed, In
    <3> QED BY <1>b, <3>1, <3>2 DEF Saved, Counter, RowKeeps
  <2> QED BY <1>b, <1>d, <2>1 DEF Committed, InTx
<1> QED BY <1>1, <1>2, <1>3 DEF Durable, Fine

\* A row that was of the metric's key, or new, becomes the metric.
LEMMA PutIsMetric ==
    ASSUME NEW m \in Proper, Storable(m), NEW old, old = Nil \/ (old \in Proper /\ SameKey(old, m))
    PROVE  Put(old, m) = m
<1>1. m \in Metric /\ (m.delta # Nil => m.mtype = "counter") /\ (m.value # Nil => m.mtype = "gauge")
  BY DEF Proper
<1>2. CASE old = Nil
  <2> DEFINE base == [Zero EXCEPT !.id = m.id]
  <2>1. base = [id |-> m.id, mtype |-> Nil, delta |-> Nil, value |-> Nil]
    BY DEF Zero
  <2>2. Put(old, m) = [Overwrite(base, m) EXCEPT !.mtype = m.mtype]
    BY <1>2 DEF Put
  <2> HIDE DEF base
  <2>3. CASE m.mtype = "gauge"
    <3>1. Overwrite(base, m) = [id |-> m.id, mtype |-> Nil, delta |-> Nil, value |-> m.value]
      BY <2>1, <2>3 DEF Overwrite
    <3> QED BY <1>1, <2>2, <2>3, <3>1 DEF Metric
  <2>4. CASE m.mtype = "counter"
    <3>1. Overwrite(base, m) = [id |-> m.id, mtype |-> Nil, delta |-> m.delta, value |-> Nil]
      BY <2>1, <2>4 DEF Overwrite
    <3> QED BY <1>1, <2>2, <2>4, <3>1 DEF Metric
  <2> QED BY <2>3, <2>4 DEF Storable
<1>3. CASE old # Nil
  <2>1. Put(old, m) = [Overwrite(old, m) EXCEPT !.mtype = m.mtype]
    BY <1>3 DEF Put
  <2>2. Overwrite(old, m) = m
    BY <1>3, ProperReplaces DEF Replaces
  <2>3. [m EXCEPT !.mtype = m.mtype] = m
    BY <1>1 DEF Metric
  <2> QED BY <2>1, <2>2, <2>3
<1> QED BY <1>2, <1>3

\* A counter that is held and that the committed rows hold is in the table.
LEMMA KeepsInRow ==
    ASSUME NEW rows, NEW t \in Tags, Keeps(t), Held \subseteq Proper,
           \A x \in Held : Holds(rows[x.id], x)
    PROVE  LET row == rows[st[t[1]].body[t[2]].id]
           IN  row # Nil /\ row.delta # Nil /\ row.delta[t] >= 1
<1>1. PICK x \in Held : /\ x.id = st[t[1]].body[t[2]].id /\ x.mtype = "counter"
                        /\ x.delta # Nil /\ x.delta[t] >= 1
  BY DEF Keeps
<1> HIDE DEF Held
<1> QED BY <1>1 DEF Holds, Storable

\* A transaction writes over a row what is held of the row's metric; what it commits
\* counts what the table counted, and the request that flushes (postgres.go:101-178).
LEMMA FlushDurable ==
    ASSUME DBInv, Serial, Serial', Durable, Clean, NEW p \in Requests, FlushStep(p),
           UNCHANGED <<managerVars, srv>>, ~DBError
    PROVE  Durable'
<1> DEFINE h == heap[hdr.ptr]
           n == hdr.len
           t == tx[p]
<1>a. /\ p \in Callers /\ Requests \subseteq Callers /\ Main \in Callers \ Requests
      /\ ~InTx(p, "idle") /\ p \in InFlight /\ In(p, "flush") /\ Up
      /\ \A q \in Callers \ {p} : InTx(q, "idle")
      /\ \A q \in Callers : ~Busy(q)
      /\ Keyed(Proper, h, n) /\ n <= Len(h) /\ n \in Nat /\ h \in Seq(Metric)
      /\ t \in TxIn(Metric) /\ tx \in [Callers -> TxIn(Metric)]
      /\ table \in RowsIn(Metric)
      /\ Walked(p) /\ Served(p)
  <2>1. p \in Callers /\ Requests \subseteq Callers /\ Main \in Callers \ Requests
    BY SerialTypes
  <2>2. ~InTx(p, "idle")
    BY DEF FlushStep, BeginTx, GetBatch, NextMetric, Exec, Commit, Refused, StatementFails, InTx
  <2>3. p \in InFlight /\ In(p, "flush") /\ Up
    BY <2>1, <2>2, FlushAlone DEF Serial, OneAtATime
  <2> QED BY <2>1, <2>2, <2>3, FlushAlone, SerialTypes DEF Serial, SavedIn
<1>b. /\ Held = {h[j] : j \in 1..n} /\ Held \subseteq Proper
      /\ \A x, y \in Held : SameKey(x, y) => x = y
  <2>1. LastInUse = n
    BY <1>a DEF LastInUse, Busy, At
  <2> QED BY <1>a, <2>1 DEF Held, Keyed
<1>c. /\ Held' = Held /\ Received' = Received /\ UNCHANGED <<call, st, srv>>
      /\ \A q \in Callers : ~Busy(q)'
  <2>1. UNCHANGED <<heap, hdr, call, st, srv>>
    BY DEF managerVars
  <2>2. Held' = Held
    BY <2>1, OrderlyStays DEF Serial
  <2> QED BY <1>a, <2>1, <2>2 DEF Received, Bodily, Busy
<1> HIDE DEF Held
<1>d. \A k \in Names : Seen(p)[k] # Nil =>
         /\ Seen(p)[k] \in Proper /\ Seen(p)[k].id = k
         /\ Wanted(Seen(p)[k]) /\ Shown(Seen(p)[k])
  <2> SUFFICES ASSUME NEW k \in Names, Seen(p)[k] # Nil
               PROVE  /\ Seen(p)[k] \in Proper /\ Seen(p)[k].id = k
                      /\ Wanted(Seen(p)[k]) /\ Shown(Seen(p)[k])
    OBVIOUS
  <2>1. CASE t.rows[k] # Nil
    <3>1. Seen(p)[k] = t.rows[k]
      BY <2>1 DEF Seen
    <3>2. t.rows[k] \in Held /\ t.rows[k].id = k
      BY <1>a, <2>1 DEF Durable, Committed, Serial, Named
    <3> QED BY <1>b, <3>1, <3>2, ShowsItself DEF Durable, Fine, Shown
  <2>2. CASE t.rows[k] = Nil
    <3>1. Seen(p)[k] = table[k]
      BY <2>2 DEF Seen
    <3> QED BY <1>a, <3>1 DEF Durable, Fine, FineRow, Loading
  <2> QED BY <2>1, <2>2
<1>e. \A a, b : Wanted(a) /\ Wanted(b) /\ a.id = b.id => SameKey(a, b)
  <2> HIDE DEF Received
  <2> QED BY DEF Clean, OneTypePerName, Wanted, SameKey
\* What is left to show is what becomes of the table and of this transaction.
<1>f. ASSUME NEW STATE x, tx' = [tx EXCEPT ![p] = x], open' = open,
             \A k \in Names : x.rows[k] # Nil => x.rows[k] \in Held,
             \/ table' = table /\ x.pc # "done"
             \/ table' = Seen(p) /\ Saved(p)' /\ \A r \in Requests : Saved(r) => Saved(r)'
      PROVE  Durable'
  <2>1. tx'[p] = x /\ \A q \in Callers \ {p} : tx'[q] = tx[q]
    BY <1>a, <1>f
  <2>2. \A k \in Names : table'[k] # Nil =>
            table'[k] \in Proper /\ table'[k].id = k /\ Wanted(table'[k]) /\ Shown(table'[k])
    <3>1. CASE table' = table
      BY <1>a, <3>1 DEF Durable, Fine, FineRow, Loading
    <3>2. CASE table' = Seen(p)
      BY <1>d, <3>2
    <3> QED BY <1>f, <3>1, <3>2
  <2>3. Fine'
    BY <1>c, <2>2 DEF Durable, Fine, FineRow, Wanted
  <2>4. Loading'
    <3>1. \A k \in Names : table'[k] # Nil => Shown(table[k])'
      BY <1>c, <2>2 DEF Shown
    <3>2. open' /\ srv'.pc = "up" /\ ~Busy(Main)'
      BY <1>a, <1>c, <1>f DEF Durable, Loading, Up
    <3> QED BY <3>1, <3>2 DEF Loading, Up
  <2>5. Committed'
    <3>1. ASSUME NEW q \in Callers, NEW k \in Names, ~InTx(q, "idle")', tx'[q].rows[k] # Nil
          PROVE  tx'[q].rows[k] \in Held'
      <4>1. q = p
        BY <1>a, <2>1, <3>1 DEF InTx
      <4> QED BY <1>c, <1>f, <2>1, <3>1, <4>1
    <3>2. ASSUME NEW r \in Requests, In(r, "ok")' PROVE Saved(r)'
      <4>1. Saved(r)
        BY <1>c, <3>2 DEF Durable, Committed, In
      <4>2. table' = table => Saved(r)'
        BY <1>c, <4>1 DEF Saved, RowKeeps, Counter
      <4> QED BY <1>f, <4>1, <4>2
    <3>3. ASSUME NEW r \in Requests, InTx(r, "done")' PROVE Saved(r)'
      <4>1. r = p
        BY <1>a, <2>1, <3>3 DEF InTx
      <4>2. x.pc = "done"
        BY <2>1, <3>3, <4>1 DEF InTx
      <4> QED BY <1>f, <4>1, <4>2
    <3> QED BY <3>1, <3>2, <3>3 DEF Committed
  <2> QED BY <2>3, <2>4, <2>5 DEF Durable
<1>g. \A k \in Names : t.rows[k] # Nil => t.rows[k] \in Held
  BY <1>a DEF Durable, Committed
<1>1. CASE BeginTx(p) \/ GetBatch(p) \/ NextMetric(p)
  <2>2. UNCHANGED <<table, open>>
    BY <1>1 DEF BeginTx, GetBatch, NextMetric
  <2>3. ASSUME NEW STATE x, tx' = [tx EXCEPT ![p] = x], x.pc # "done", x.rows = t.rows
        PROVE  Durable'
    BY <1>f, <1>g, <2>2, <2>3
  <2>4. CASE BeginTx(p)
    <3> DEFINE x == [t EXCEPT !.pc = "list"]
    <3>1. x.pc # "done" /\ x.rows = t.rows /\ tx' = [tx EXCEPT ![p] = x]
      BY <1>a, <2>4 DEF BeginTx, TxIn
    <3> QED BY <2>3, <3>1
  <2>5. CASE GetBatch(p)
    <3> DEFINE x == [t EXCEPT !.pc = "next", !.at = hdr]
    <3>1. x.pc # "done" /\ x.rows = t.rows /\ tx' = [tx EXCEPT ![p] = x]
      BY <1>a, <2>5 DEF GetBatch, TxIn
    <3> QED BY <2>3, <3>1
  <2>6. CASE NextMetric(p)
    <3> DEFINE m == CellAt(t.at.ptr, t.i)
               x == [t EXCEPT !.pc = IF Storable(m) THEN "exec" ELSE @, !.m = m, !.i = @ + 1]
    <3>1. x.pc # "done" /\ x.rows = t.rows /\ tx' = [tx EXCEPT ![p] = x]
      BY <1>a, <2>6 DEF NextMetric, TxIn, InTx
    <3> QED BY <2>3, <3>1
  <2> QED BY <1>1, <2>4, <2>5, <2>6
<1>2. CASE Exec(p)
  <2> DEFINE m == t.m
             row == Put(Seen(p)[m.id], m)
             x == [t EXCEPT !.pc = "next", !.rows = [t.rows EXCEPT ![m.id] = row]]
  <2>1. /\ tx' = [tx EXCEPT ![p] = x] /\ UNCHANGED <<table, open>> /\ t.pc = "exec"
        /\ t.i <= n + 1 /\ t.i > 1 /\ m = h[t.i - 1] /\ Storable(m)
    BY <1>2, <1>a DEF Exec, InTx, Walked
  <2>2. t.i - 1 \in 1..n /\ m \in Held /\ m \in Proper /\ m.id \in Names
    <3>1. t.i - 1 \in 1..n
      BY <1>a, <2>1 DEF TxIn
    <3> QED BY <1>b, <2>1, <3>1 DEF Proper
  <2>3. row = m
    <3> DEFINE old == Seen(p)[m.id]
    <3>1. old # Nil => old \in Proper /\ SameKey(old, m)
      <4>1. Wanted(m)
        BY <2>2 DEF Durable, Fine
      <4> QED BY <1>d, <1>e, <2>2, <4>1
    <3> HIDE DEF old, m
    <3> QED BY <2>1, <2>2, <3>1, PutIsMetric DEF old
  <2>4. x.pc = "next" /\ x.rows = [t.rows EXCEPT ![m.id] = row] /\ t.rows \in RowsIn(Metric)
    BY <1>a, <2>1 DEF TxIn
  <2> HIDE DEF x, row
  <2>5. \A k \in Names : x.rows[k] # Nil => x.rows[k] \in Held
    BY <1>g, <2>2, <2>3, <2>4 DEF RowsIn
  <2> QED BY <1>f, <2>1, <2>4, <2>5
<1>3. CASE Commit(p)
  <2> DEFINE x == [NoTx EXCEPT !.pc = "done"]
  <2>1. /\ tx' = [tx EXCEPT ![p] = x] /\ table' = Seen(p) /\ open' = open
        /\ InTx(p, "next") /\ ~MoreToFlush(p)
    BY <1>3 DEF Commit
  <2>2. x.rows = NoRows
    BY DEF NoTx
  <2> HIDE DEF x
  <2>3. \A k \in Names : x.rows[k] # Nil => x.rows[k] \in Held
    BY <2>2 DEF NoRows
  <2>4. \A y \in Held : Holds(Seen(p)[y.id], y)
    <3>1. t.i = n + 1
      BY <1>a, <2>1 DEF MoreToFlush, Walked, InTx, TxIn
    <3> QED BY <1>a, <1>b, <2>1, <3>1 DEF Walked
  <2>5. Saved(p)'
    <3> SUFFICES ASSUME NEW i \in 1..Len(st[p].body), Counter(p, i)
                 PROVE  LET row == Seen(p)[st[p].body[i].id]
                        IN  row # Nil /\ row.delta # Nil /\ row.delta[<<p, i>>] >= 1
      BY <1>c, <2>1 DEF Saved, RowKeeps, Counter
    <3>1. Keeps(<<p, i>>) /\ <<p, i>> \in Tags
      <4>1. i < st[p].i /\ <<p, i>> \in Tags
        BY <1>a DEF DBInv, ManagerInv, RequestsTypeOK, Served, MoreItems, In
      <4> QED BY <1>a, <4>1 DEF Served, ItemsKept, Past, In, Working
    <3> DEFINE rows == Seen(p)
    <3>2. \A y \in Held : Holds(rows[y.id], y)
      BY <2>4
    <3>3. <<p, i>>[1] = p /\ <<p, i>>[2] = i
      OBVIOUS
    <3> HIDE DEF rows
    <3>4. LET row == rows[st[<<p, i>>[1]].body[<<p, i>>[2]].id]
          IN  row # Nil /\ row.delta # Nil /\ row.delta[<<p, i>>] >= 1
      BY <1>b, <3>1, <3>2, KeepsInRow
    <3> QED BY <3>3, <3>4 DEF rows
  <2>6. ASSUME NEW r \in Requests, NEW i \in 1..Len(st[r].body), RowKeeps(<<r, i>>)
        PROVE  LET row == Seen(p)[st[r].body[i].id]
               IN  row # Nil /\ row.delta # Nil /\ row.delta[<<r, i>>] >= 1
    <3> DEFINE k == st[r].body[i].id
               row == table[k]
               new == Seen(p)[k]
    <3>1. row # Nil /\ row.delta # Nil /\ row.delta[<<r, i>>] >= 1
      BY <2>6 DEF RowKeeps
    <3>2. k \in Names /\ <<r, i>> \in Tags
      <4>1. st[r].body \in Seq(Item) /\ <<r, i>> \in Tags
        BY DEF DBInv, ManagerInv, RequestsTypeOK
      <4>2. st[r].body[i] \in Item
        BY <4>1
      <4> QED BY <4>1, <4>2 DEF Item
    <3>3. CASE t.rows[k] = Nil
      <4>1. new = row
        BY <3>2, <3>3 DEF Seen
      <4> QED BY <3>1, <4>1
    <3>4. CASE t.rows[k] # Nil
      <4>1. new = t.rows[k]
        BY <3>2, <3>4 DEF Seen
      <4>2. new \in Held /\ new.id = k /\ Wanted(new)
        BY <1>a, <1>d, <1>g, <3>2, <3>4, <4>1
      <4>3. row \in Proper /\ row.id = k /\ Wanted(row) /\ Shown(row)
        BY <1>a, <3>1, <3>2 DEF Durable, Fine, FineRow, Loading
      <4>4. PICK x2 \in Held : SameKey(x2, row) /\ Covers(x2, row)
        BY <4>3 DEF Shown
      <4> HIDE DEF k, row, new
      <4>5. SameKey(new, row)
        BY <1>e, <4>2, <4>3
      <4>6. SameKey(x2, new)
        BY <4>4, <4>5 DEF SameKey
      <4>7. x2 = new
        BY <1>b, <4>2, <4>6
      <4>8. new.delta # Nil /\ row.delta[<<r, i>>] <= new.delta[<<r, i>>]
        BY <3>1, <3>2, <4>4, <4>7 DEF Covers
      <4>9. row.delta[<<r, i>>] \in Nat /\ new.delta[<<r, i>>] \in Nat
        BY <1>b, <3>1, <3>2, <4>2, <4>3, <4>8 DEF Proper, Metric, Delta
      <4>10. new.delta[<<r, i>>] >= 1
        BY <3>1, <4>8, <4>9
      <4>11. new # Nil
        BY <4>2, <1>b, NilAssumption DEF Proper
      <4> QED BY <4>8, <4>10, <4>11 DEF new, k
    <3> QED BY <3>3, <3>4
  <2>7. \A r \in Requests : Saved(r) => Saved(r)'
    BY <1>c, <2>1, <2>6 DEF Saved, RowKeeps, Counter
  <2> QED BY <1>f, <2>1, <2>3, <2>5, <2>7
<1>4. CASE Refused(p)
  <2>1. InTx(p, "exec") /\ t.m.id \in LongNames
    BY <1>4, <1>a DEF Refused, Durable, Loading, Up
  <2>2. t.i - 1 \in 1..n /\ t.m = h[t.i - 1]
    BY <1>a, <2>1 DEF Walked, TxIn, InTx
  <2>3. Wanted(t.m)
    BY <1>b, <2>2 DEF Durable, Fine
  <2> HIDE DEF Received
  <2> QED BY <2>1, <2>3 DEF Wanted, Clean, SameKey
<1>5. CASE StatementFails(p)
  BY <1>5 DEF StatementFails
<1> QED BY <1>1, <1>2, <1>3, <1>4, <1>5 DEF FlushStep

\* A process that ends leaves the table, and an empty memory.
LEMMA EndDurable ==
    ASSUME DBInv, Durable, NEW phase \in {"down", "stopped"}, EndProcess(phase),
           Received \subseteq Received'
    PROVE  Durable'
<1>0. /\ st \in [Requests -> Request]
      /\ st' = [r \in Requests |-> IF r \in InFlight THEN [st[r] EXCEPT !.pc = "aborted"] ELSE st[r]]
      /\ Requests \subseteq Callers /\ Main \in Callers
  BY SerialTypes DEF EndProcess
<1>1. /\ hdr'.len = 0 /\ heap'[hdr'.ptr] = <<>> /\ table' = table
      /\ srv'.pc = phase /\ srv'.todo = {}
      /\ \A q \in Callers : call'[q].pc = "idle" /\ tx'[q].pc = "idle"
  BY DEF EndProcess, NoCall, NoTx
<1>2. Held' = {}
  <2>1. LastInUse' = 0
    BY <1>1 DEF LastInUse, At
  <2> QED BY <2>1 DEF Held
<1>3. \A n \in Names : FineRow(n)'
  <2> HIDE DEF Received
  <2> QED BY <1>1 DEF Durable, Fine, FineRow, Wanted
<1>4. Loading'
  BY <1>0, <1>1, <1>2 DEF Loading, Busy, Up
<1>5. Committed'
  <2>1. ASSUME NEW r \in Requests, In(r, "ok")'
        PROVE  In(r, "ok") /\ st'[r].body = st[r].body
    <3>1. st'[r] = IF r \in InFlight THEN [st[r] EXCEPT !.pc = "aborted"] ELSE st[r]
      BY <1>0
    <3> QED BY <1>0, <2>1, <3>1 DEF In, Request
  <2>2. ASSUME NEW r \in Requests, In(r, "ok")' PROVE Saved(r)'
    <3>1. In(r, "ok") /\ st'[r].body = st[r].body /\ table' = table
      BY <1>1, <2>1, <2>2
    <3>2. Saved(r)
      BY <1>1, <3>1 DEF Durable, Committed
    <3> QED BY <3>1, <3>2 DEF Saved, RowKeeps, Counter
  <2> QED BY <1>0, <1>1, <2>2 DEF Committed, InTx
<1> QED BY <1>2, <1>3, <1>4, <1>5 DEF Durable, Fine

\* A request is received, flushes first, or is answered: its counters are in the
\* table by then.
LEMMA RequestDurable ==
    ASSUME DBInv, Serial, Serial', Durable, NEW r \in Requests,
           Accept(r) \/ FlushAfterUpdate(r) \/ Answer(r),
           Received \subseteq Received'
    PROVE  Durable'
<1>a. /\ Up /\ UNCHANGED <<table, open, srv, heap, hdr, call>>
      /\ Requests \subseteq Callers /\ Main \in Callers \ Requests
      /\ st \in [Requests -> Request] /\ tx \in [Callers -> TxIn(Metric)]
  BY SerialTypes DEF Accept, FlushAfterUpdate, Answer, Receive, Reply, managerVars, dbVars, SavedIn
<1>b. Held' = Held /\ ~Busy(Main)'
  <2>1. ~Busy(Main)
    BY <1>a DEF Serial, OneAtATime, Up
  <2> QED BY <1>a, <2>1, OrderlyStays DEF Serial, Busy
<1>1. (\A n \in Names : FineRow(n)') /\ Loading'
  <2>1. HeldGrows /\ Up'
    BY <1>a, <1>b, SameGrows DEF Serial, Up
  <2> QED BY <1>a, <1>b, <2>1, RowsStay
<1>2. \A x \in Held' : Wanted(x)'
  <2> HIDE DEF Received, Held
  <2> QED BY <1>b DEF Durable, Fine, Wanted
\* What is left to show is what the table has of the requests that are answered.
<1>c. ASSUME Committed' PROVE Durable'
  BY <1>1, <1>2, <1>c DEF Durable, Fine
<1>d. ASSUME NEW q \in Requests, Saved(q), st'[q].body = st[q].body PROVE Saved(q)'
  BY <1>a, <1>d DEF Saved, RowKeeps, Counter
<1>3. CASE Accept(r)
  <2>1. /\ tx' = tx
        /\ \E b : st' = [st EXCEPT ![r] = [st[r] EXCEPT !.pc = "item", !.body = b]]
    BY <1>3 DEF Accept, Receive, dbVars
  <2>2. st'[r].pc = "item" /\ \A q \in Requests \ {r} : st'[q] = st[q]
    BY <1>a, <2>1 DEF Request
  <2>3. Committed'
    BY <1>b, <1>d, <2>1, <2>2 DEF Durable, Committed, In, InTx
  <2> QED BY <1>c, <2>3
<1>4. CASE FlushAfterUpdate(r)
  <2> DEFINE x == [NoTx EXCEPT !.pc = "begin"]
  <2>1. tx' = [tx EXCEPT ![r] = x] /\ UNCHANGED st
    BY <1>4 DEF FlushAfterUpdate, StartFlush, managerVars
  <2>2. x.pc = "begin" /\ x.rows = NoRows
    BY DEF NoTx
  <2> HIDE DEF x
  <2>3. tx'[r] = x /\ \A q \in Callers \ {r} : tx'[q] = tx[q]
    BY <1>a, <2>1
  <2>4. Committed'
    BY <1>a, <1>b, <1>d, <2>1, <2>2, <2>3 DEF Durable, Committed, In, InTx, NoRows
  <2> QED BY <1>c, <2>4
<1>5. CASE Answer(r)
  <2>1. /\ tx' = [tx EXCEPT ![r] = NoTx] /\ In(r, "flush") /\ InTx(r, "done")
        /\ st' = [st EXCEPT ![r].pc = "ok"]
    BY <1>5 DEF Answer, Reply, Goto, Flushed
  <2>2. NoTx.pc = "idle"
    BY DEF NoTx
  <2> HIDE DEF NoTx
  <2>3. tx'[r] = NoTx /\ \A q \in Callers \ {r} : tx'[q] = tx[q]
    BY <1>a, <2>1
  <2>4. st'[r].pc = "ok" /\ st'[r].body = st[r].body /\ \A q \in Requests \ {r} : st'[q] = st[q]
    BY <1>a, <2>1 DEF Request
  <2>5. Saved(r)
    BY <2>1 DEF Durable, Committed
  <2>6. \A q \in Requests : In(q, "ok")' \/ (In(q, "flush") /\ InTx(q, "done"))' => Saved(q)'
    <3> SUFFICES ASSUME NEW q \in Requests, In(q, "ok")' \/ (In(q, "flush") /\ InTx(q, "done"))'
                 PROVE  Saved(q)'
      OBVIOUS
    <3>1. CASE q = r
      BY <1>d, <2>4, <2>5, <3>1
    <3>2. CASE q # r
      BY <1>a, <1>d, <2>3, <2>4, <3>2 DEF Durable, Committed, In, InTx
    <3> QED BY <3>1, <3>2
  <2>7. Committed'
    BY <1>a, <1>b, <2>2, <2>3, <2>6 DEF Durable, Committed, InTx, In
  <2> QED BY <1>c, <2>7
<1> QED BY <1>3, <1>4, <1>5

LEMMA CleanInit == Init => CleanInv
<1> SUFFICES ASSUME Init PROVE Unopened /\ Durable
  BY SerialInit DEF CleanInv
<1>1. /\ hdr.len = 0 /\ heap[hdr.ptr] = <<>> /\ table = NoRows /\ srv.pc = "down"
      /\ \A p \in Callers : call[p].pc = "idle" /\ tx[p].pc = "idle"
      /\ \A r \in Requests : st[r].pc = "new" /\ st[r].body = <<>>
  BY DEF Init, ManagerInit, StoreInit, DBInit, NoCall, NoTx
<1>2. Held = {}
  <2>1. LastInUse = 0
    BY <1>1 DEF LastInUse, At
  <2> QED BY <2>1 DEF Held
<1>3. Fine
  BY <1>1, <1>2 DEF Fine, FineRow, NoRows
<1>4. Loading
  BY <1>1, <1>2, ServerAssumption DEF Loading, Busy, Up
<1>5. Committed
  BY <1>1, ManagerAssumption DEF Committed, InTx, In
<1> QED BY <1>1, <1>3, <1>4, <1>5 DEF Durable, Unopened

LEMMA CleanNext == CleanInv /\ [Next]_vars => CleanInv'
<1> SUFFICES ASSUME CleanInv, [Next]_vars, Clean' PROVE Durable'
  BY SerialNext, UnopenedNext DEF CleanInv, SerialInv
<1>1. /\ Clean /\ Durable /\ ~DBError /\ Received \subseteq Received'
      /\ DBInv /\ Serial /\ Serial' /\ \A a \in Received : a.id \notin Unnamed
  <2>1. DBInv /\ Unopened /\ SerialInv
    BY DEF CleanInv, SerialInv
  <2>2. /\ Clean /\ ~DBError /\ Received \subseteq Received'
        /\ \A a \in Received : a.id \notin Unnamed
    BY <2>1, CleanBefore
  <2>3. Serial /\ Serial'
    BY <2>1, <2>2, SerialNext DEF SerialInv, Clean
  <2> QED BY <2>1, <2>2, <2>3 DEF CleanInv
<1> HIDE DEF Received, Clean
<1>2. CASE Starts
  BY <1>1, <1>2, StartDurable
<1>3. ASSUME NEW r \in Requests, Accept(r) \/ FlushAfterUpdate(r) \/ Answer(r)
      PROVE  Durable'
  BY <1>1, <1>3, RequestDurable
<1>4. ASSUME NEW r \in Requests, Serve(r) PROVE Durable'
  BY <1>1, <1>4, ServeDurable
<1>5. ASSUME NEW r \in Requests, FlushProgress(r) PROVE Durable'
  BY <1>1, <1>5, FlushDurable DEF FlushProgress
<1>6. CASE Crash \/ Shutdown
  <2>1. \E phase \in {"down", "stopped"} : EndProcess(phase)
    BY <1>6 DEF Crash, Shutdown
  <2> QED BY <1>1, <2>1, EndDurable
<1>7. CASE UNCHANGED vars
  <2>1. UNCHANGED <<heap, hdr, call, st, table, open, tx, srv>>
    BY <1>7 DEF vars
  <2>2. Held' = Held /\ Busy(Main)' = Busy(Main)
    BY <1>1, <2>1, OrderlyStays DEF Serial, Busy
  <2>3. Fine'
    BY <1>1, <2>1, <2>2 DEF Durable, Fine, FineRow, Wanted, Received, Bodily
  <2>4. Loading'
    BY <1>1, <2>1, <2>2 DEF Durable, Loading, RowLoaded, Shown, Up
  <2>5. Committed'
    BY <1>1, <2>1, <2>2 DEF Durable, Committed, Saved, RowKeeps, Counter, In, InTx
  <2> QED BY <2>3, <2>4, <2>5 DEF Durable
<1> QED BY <1>2, <1>3, <1>4, <1>5, <1>6, <1>7 DEF Next, Starts

\* What the invariant says of the requests that were answered.
LEMMA CleanImplies == CleanInv => AcknowledgedInTable /\ AcknowledgedServed
<1> SUFFICES ASSUME CleanInv, Clean, NEW r \in Requests, In(r, "ok"),
                    NEW i \in 1..Len(st[r].body), Counter(r, i)
             PROVE  /\ LET row == table[st[r].body[i].id]
                        IN  row # Nil /\ row.delta # Nil /\ row.delta[<<r, i>>] = 1
                    /\ Up => Kept(<<r, i>>)
  BY DEF AcknowledgedInTable, AcknowledgedServed, AcknowledgedKept
<1> DEFINE k == st[r].body[i].id
           row == table[k]
           t == <<r, i>>
<1>1. /\ DBInv /\ Serial /\ Fine /\ Loading /\ Saved(r)
  BY DEF CleanInv, SerialInv, Durable, Committed, Clean
<1>2. row # Nil /\ row.delta # Nil /\ row.delta[t] >= 1
  BY <1>1 DEF Saved, RowKeeps
<1>3. k \in Names /\ t \in Tags
  <2>1. st[r].body \in Seq(Item) /\ t \in Tags
    BY <1>1 DEF DBInv, ManagerInv, RequestsTypeOK
  <2>2. st[r].body[i] \in Item
    BY <2>1
  <2> QED BY <2>1, <2>2 DEF Item
<1>4. row \in Proper /\ row.id = k /\ row \in OnceSet /\ (Up => Shown(row))
  BY <1>1, <1>2, <1>3 DEF Fine, FineRow, DBInv, SavedIn, RowsIn, Loading
<1> HIDE DEF row
<1>5. row.delta[t] = 1
  <2>1. row.delta \in Delta /\ row.delta[t] <= (IF Spent(t) THEN 1 ELSE 0)
    BY <1>2, <1>3, <1>4 DEF OnceSet, Once, Metric
  <2>2. row.delta[t] \in Nat /\ row.delta[t] <= 1 /\ row.delta[t] >= 1
    BY <1>2, <1>3, <2>1 DEF Delta
  <2> QED BY <2>2
<1>6. ASSUME Up PROVE Kept(t)
  <2>1. PICK x \in Held : SameKey(x, row) /\ Covers(x, row)
    BY <1>4, <1>6 DEF Shown
  <2>2. x \in Proper
    BY <1>1, HeldProper DEF Serial
  <2>3. x.id = k /\ x.delta # Nil /\ x.delta[t] >= 1 /\ x.mtype = "counter"
    <3>1. x.delta # Nil /\ row.delta[t] <= x.delta[t]
      BY <1>2, <1>3, <2>1 DEF Covers
    <3>2. x.delta[t] \in Nat
      BY <1>3, <2>2, <3>1 DEF Proper, Metric, Delta
    <3>3. x.delta[t] >= 1
      BY <1>5, <3>1, <3>2
    <3> QED BY <1>4, <2>1, <2>2, <3>1, <3>3 DEF SameKey, Proper
  <2>4. Keeps(t)
    <3> HIDE DEF Held
    <3> QED BY <2>3 DEF Keeps
  <2>5. LastInUse \in 0..hdr.len
    BY <1>1, UsedWithin DEF DBInv, Serial
  <2> QED BY <1>1, <1>3, <2>4, <2>5, KeepsKept DEF DBInv, Serial
<1> QED BY <1>2, <1>5, <1>6 DEF row

\* For any requests, names and constants: as long as requests come one at a time, no
\* statement fails and no name is too long or has two types, every counter of an
\* answered request is in the table from before the answer on, across crashes and
\* restarts (postgres.go:101-178, manager.go:141-163).
THEOREM AcknowledgedAreInTable == Spec => []AcknowledgedInTable
BY CleanInit, CleanNext, CleanImplies, PTL DEF Spec

\* And every process that is up serves it: what was restored counts what the table
\* counted (postgres.go:180-236).
THEOREM AcknowledgedAreServed == Spec => []AcknowledgedServed
BY CleanInit, CleanNext, CleanImplies, PTL DEF Spec
=============================================================================
