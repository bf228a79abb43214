-------------------------- MODULE DBServer_proofs ---------------------------
(***************************************************************************)
(* The table never makes a counter count a report twice: rows, and what    *)
(* open transactions have written, are made of metrics the memory held,    *)
(* column by column, and two restores put them back as they are.           *)
(*                                                                         *)
(* As long as requests do not overlap, a flush that commits brings the     *)
(* table up to the memory.  One goroutine at a time then works on the      *)
(* slice, so that it has each key once and stays as it is while a          *)
(* transaction walks it: what the transaction sees holds all the metrics   *)
(* it has gone past, and a statement for one name leaves the other column  *)
(* of the row, and the other rows, as they were.                           *)
(***************************************************************************)
EXTENDS DBServer, MetricsManager_proofs

RowsIn(S) == [Names -> S \cup {Nil}]
TxIn(S) == [pc : {"idle", "begin", "list", "next", "exec", "done"},
            at : Header, i : Nat \ {0}, m : S, rows : RowsIn(S)]

SavedIn(S, h, tb, t) ==
    /\ tb \in RowsIn(S)
    /\ t \in [Callers -> TxIn(S)]
    /\ \A p \in Callers : t[p].at.ptr \in DOMAIN h

\* A process that is still starting has a restore to do, and the rows it is still
\* to load are there: nobody writes the table before it is up.
StartOK ==
    /\ srv \in Srv
    /\ srv.pc \in {"migrating", "querying", "restoring"} => srv.passes # 0
    /\ srv.pc # "restoring" => srv.todo = {}
    /\ \A n \in srv.todo : table[n] # Nil

DBInv ==
    /\ ManagerInv
    /\ SavedIn(OnceSet, heap, table, tx)
    /\ StartOK
    /\ open \in BOOLEAN /\ dbErrors \in Nat /\ exits \in Nat /\ overlapped \in BOOLEAN

\* What is saved stays saved metrics when more metrics are allowed and more
\* arrays exist.
LEMMA SavedInMonotone ==
    ASSUME NEW S, NEW T, S \subseteq T, NEW h, NEW g, DOMAIN h \subseteq DOMAIN g,
           NEW tb, NEW t, SavedIn(S, h, tb, t)
    PROVE  SavedIn(T, g, tb, t)
<1>1. RowsIn(S) \subseteq RowsIn(T)
  BY DEF RowsIn
<1>2. TxIn(S) \subseteq TxIn(T)
  BY <1>1 DEF TxIn
<1> QED BY <1>1, <1>2 DEF SavedIn

\* One goroutine's flush moved on to x; the others are as they were.
LEMMA TxChanges ==
    ASSUME NEW S, NEW h, NEW tb, NEW t, SavedIn(S, h, tb, t),
           NEW p \in Callers, NEW x \in TxIn(S), x.at.ptr \in DOMAIN h
    PROVE  SavedIn(S, h, tb, [t EXCEPT ![p] = x])
BY DEF SavedIn

\* A goroutine that flushes nothing has written nothing (postgres.go:101).
LEMMA NoTxIn ==
    ASSUME NEW S, Zero \in S, NEW step \in {"idle", "begin", "done"}
    PROVE  [NoTx EXCEPT !.pc = step] \in TxIn(S) /\ [NoTx EXCEPT !.pc = step].at.ptr = 1
<1>1. NoRows \in RowsIn(S)
  BY DEF NoRows, RowsIn
<1> HIDE DEF NoRows, Zero
<1> QED BY <1>1 DEF NoTx, TxIn, Header

\* A transaction sees committed rows and its own (postgres.go:164-175).
LEMMA SeenIn ==
    ASSUME NEW STATE S, SavedIn(S, heap, table, tx), NEW p \in Callers
    PROVE  Seen(p) \in RowsIn(S)
<1>1. table \in RowsIn(S) /\ tx[p].rows \in RowsIn(S)
  BY DEF SavedIn, TxIn
<1> QED BY <1>1 DEF Seen, RowsIn

\* A row written over by a metric counts what one of the two counted
\* (postgres.go:15-27).
LEMMA PutIn ==
    ASSUME NEW m \in OnceSet, NEW old \in OnceSet \cup {Nil}
    PROVE  Put(old, m) \in OnceSet
<1> DEFINE base == IF old = Nil THEN [Zero EXCEPT !.id = m.id] ELSE old
<1>1. base \in OnceSet
  BY DEF OnceSet, Metric, Once, Zero
<1>2. Overwrite(base, m) \in OnceSet
  BY <1>1, OnceSetClosed DEF Closed
<1>3. Put(old, m) = [Overwrite(base, m) EXCEPT !.mtype = m.mtype]
  BY DEF Put
<1> HIDE DEF base
<1> QED BY <1>2, <1>3 DEF OnceSet, Metric, Once

\* What Restore makes of a row counts what the row counts, or nothing
\* (postgres.go:210-226).
LEMMA RestoredIn == ASSUME NEW row \in OnceSet PROVE Restored(row) \in OnceSet
BY DEF Restored, OnceSet, Metric, Once

\* The steps of a flush (postgres.go:101-178) copy metrics of memory to the table.
LEMMA FlushKeeps ==
    ASSUME DBInv, NEW p \in Callers, Up, FlushStep(p),
           UNCHANGED <<managerVars, srv, exits, overlapped>>
    PROVE  DBInv'
<1>a. /\ ManagerInv' /\ OnceSet' = OnceSet /\ StartOK'
      /\ exits' \in Nat /\ overlapped' \in BOOLEAN
  <2>1. /\ ManagerInv' /\ OnceSet' = OnceSet
        /\ exits' \in Nat /\ overlapped' \in BOOLEAN
    BY DEF DBInv, ManagerInv, managerVars, RequestsTypeOK, MoreItems, OnceSet, Once, Spent
  <2>2. StartOK'
    BY DEF DBInv, StartOK, Up
  <2> QED BY <2>1, <2>2
<1>b. /\ SavedIn(OnceSet, heap, table, tx) /\ heap' = heap
      /\ tx[p] \in TxIn(OnceSet) /\ tx[p].at.ptr \in DOMAIN heap
      /\ heap \in Seq(Seq(OnceSet)) /\ 1 \in DOMAIN heap
      /\ hdr \in Header /\ hdr.ptr \in DOMAIN heap
      /\ dbErrors \in Nat /\ open \in BOOLEAN
  BY DEF DBInv, SavedIn, ManagerInv, StoreIn, Header, managerVars
<1>c. ASSUME NEW x \in TxIn(OnceSet), x.at.ptr \in DOMAIN heap,
             tx' = [tx EXCEPT ![p] = x],
             table' \in RowsIn(OnceSet), dbErrors' \in Nat, open' = open
      PROVE  DBInv'
  <2>1. SavedIn(OnceSet, heap, table', tx)
    BY <1>b, <1>c DEF SavedIn
  <2>2. SavedIn(OnceSet, heap, table', tx')
    BY <1>c, <2>1, TxChanges
  <2> QED BY <1>a, <1>b, <1>c, <2>2 DEF DBInv
<1>d. table \in RowsIn(OnceSet) /\ Seen(p) \in RowsIn(OnceSet)
  BY <1>b, SeenIn DEF SavedIn
<1>1. CASE BeginTx(p)
  <2> DEFINE x == [tx[p] EXCEPT !.pc = "list"]
  <2>1. tx' = [tx EXCEPT ![p] = x] /\ UNCHANGED <<table, open, dbErrors>>
    BY <1>1 DEF BeginTx
  <2>2. x \in TxIn(OnceSet) /\ x.at = tx[p].at
    BY <1>b DEF TxIn
  <2> HIDE DEF x
  <2> QED BY <1>b, <1>c, <1>d, <2>1, <2>2
<1>2. CASE GetBatch(p)
  <2> DEFINE x == [tx[p] EXCEPT !.pc = "next", !.at = hdr]
  <2>1. tx' = [tx EXCEPT ![p] = x] /\ UNCHANGED <<table, open, dbErrors>>
    BY <1>2 DEF GetBatch
  <2>2. x \in TxIn(OnceSet) /\ x.at = hdr
    BY <1>b DEF TxIn
  <2> HIDE DEF x
  <2> QED BY <1>b, <1>c, <1>d, <2>1, <2>2
<1>3. CASE NextMetric(p)
  <2> DEFINE m == CellAt(tx[p].at.ptr, tx[p].i)
             x == [tx[p] EXCEPT !.pc = IF Storable(m) THEN "exec" ELSE @, !.m = m, !.i = @ + 1]
  <2>1. tx' = [tx EXCEPT ![p] = x] /\ UNCHANGED <<table, open, dbErrors>>
    BY <1>3 DEF NextMetric
  <2>2. tx[p].i \in Nat /\ tx[p].i + 1 \in Nat \ {0}
    BY <1>b DEF TxIn
  <2>3. m \in OnceSet
    BY <1>b, <2>2, CellAtIn, OnceSetClosed
  <2> HIDE DEF m
  <2>4. x \in TxIn(OnceSet) /\ x.at = tx[p].at
    BY <1>b, <2>2, <2>3 DEF TxIn
  <2> HIDE DEF x
  <2> QED BY <1>b, <1>c, <1>d, <2>1, <2>4
<1>4. CASE Exec(p)
  <2> DEFINE m == tx[p].m
             row == Put(Seen(p)[m.id], m)
             rows == [tx[p].rows EXCEPT ![m.id] = row]
             x == [tx[p] EXCEPT !.pc = "next", !.rows = rows]
  <2>1. tx' = [tx EXCEPT ![p] = x] /\ UNCHANGED <<table, open, dbErrors>>
    BY <1>4 DEF Exec
  <2>2. m \in OnceSet /\ tx[p].rows \in RowsIn(OnceSet)
    BY <1>b DEF TxIn
  <2>3. rows \in RowsIn(OnceSet)
    <3>1. CASE m.id \in Names
      <4>1. Seen(p)[m.id] \in OnceSet \cup {Nil}
        BY <1>d, <3>1 DEF RowsIn
      <4>2. row \in OnceSet
        BY <2>2, <4>1, PutIn
      <4> HIDE DEF row
      <4> QED BY <2>2, <4>2 DEF RowsIn
    <3>2. CASE m.id \notin Names
      <4>1. rows = tx[p].rows
        BY <2>2, <3>2 DEF RowsIn
      <4> QED BY <2>2, <4>1
    <3> QED BY <3>1, <3>2
  <2> HIDE DEF rows
  <2>4. x \in TxIn(OnceSet) /\ x.at = tx[p].at
    BY <1>b, <2>3 DEF TxIn
  <2> HIDE DEF x
  <2> QED BY <1>b, <1>c, <1>d, <2>1, <2>4
<1>5. CASE Commit(p) \/ Refused(p) \/ StatementFails(p)
  <2> DEFINE x == [NoTx EXCEPT !.pc = "done"]
  <2>1. /\ tx' = [tx EXCEPT ![p] = x] /\ open' = open
        /\ dbErrors' \in {dbErrors, dbErrors + 1}
        /\ table' \in {table, Seen(p)}
    BY <1>5 DEF Commit, Refused, StatementFails, RollBack, DBError
  <2>2. x \in TxIn(OnceSet) /\ x.at.ptr = 1
    BY NoTxIn, ZeroOnce
  <2>3. table' \in RowsIn(OnceSet) /\ dbErrors' \in Nat
    BY <1>b, <1>d, <2>1
  <2> HIDE DEF x
  <2> QED BY <1>b, <1>c, <2>1, <2>2, <2>3
<1> QED BY <1>1, <1>2, <1>3, <1>4, <1>5 DEF FlushStep

\* A process that ends takes its memory and its transactions, not the table.
LEMMA EndKeeps ==
    ASSUME DBInv, NEW phase \in {"down", "stopped"}, EndProcess(phase)
    PROVE  DBInv'
<1>1. ManagerInv' /\ OnceSet \subseteq OnceSet'
  BY ProcessEnds DEF DBInv, EndProcess
<1>2. SavedIn(OnceSet', heap', table', tx')
  <2>1. DOMAIN heap' = {1} /\ tx' = [p \in Callers |-> NoTx] /\ table' = table
    BY DEF EndProcess
  <2>2. table \in RowsIn(OnceSet')
    BY <1>1 DEF DBInv, SavedIn, RowsIn
  <2>3. NoTx \in TxIn(OnceSet') /\ NoTx.at.ptr = 1
    <3>1. [NoTx EXCEPT !.pc = "idle"] = NoTx
      BY DEF NoTx
    <3> QED BY <1>1, <3>1, NoTxIn, ZeroOnce
  <2> HIDE DEF NoTx
  <2> QED BY <2>1, <2>2, <2>3 DEF SavedIn
<1>3. StartOK'
  BY DEF EndProcess, DBInv, StartOK, Srv, Phases
<1>4. open' \in BOOLEAN
  BY Zenon DEF EndProcess
<1>5. dbErrors' \in Nat /\ exits' \in Nat /\ overlapped' \in BOOLEAN
  BY DEF EndProcess, DBInv
<1> QED BY <1>1, <1>2, <1>3, <1>4, <1>5 DEF DBInv

\* The first process finds no rows and an empty store.
LEMMA DBInitInv == Init => DBInv
<1> SUFFICES ASSUME Init PROVE DBInv
  OBVIOUS
<1>1. ManagerInv
  BY ManagerInitInv DEF Init
<1>2. SavedIn(OnceSet, heap, table, tx)
  <2>1. table \in RowsIn(OnceSet)
    BY DEF Init, DBInit, NoRows, RowsIn
  <2>2. 1 \in DOMAIN heap /\ tx = [p \in Callers |-> NoTx]
    BY DEF Init, ManagerInit, StoreInit, DBInit
  <2>3. NoTx \in TxIn(OnceSet) /\ NoTx.at.ptr = 1
    <3>1. [NoTx EXCEPT !.pc = "idle"] = NoTx
      BY DEF NoTx
    <3> QED BY <3>1, NoTxIn, ZeroOnce
  <2> HIDE DEF NoTx
  <2> QED BY <2>1, <2>2, <2>3 DEF SavedIn
<1>3. StartOK
  BY DEF Init, StartOK, Srv, Phases
<1> QED BY <1>1, <1>2, <1>3 DEF Init, DBInit, DBInv

\* Every step of the server, of its flushes and of its ends keeps DBInv.
LEMMA DBNextInv == DBInv /\ [Next]_vars => DBInv'
<1> SUFFICES ASSUME DBInv, [Next]_vars PROVE DBInv'
  OBVIOUS
<1>a. /\ ManagerInv /\ SavedIn(OnceSet, heap, table, tx) /\ StartOK
      /\ table \in RowsIn(OnceSet) /\ 1 \in DOMAIN heap
      /\ Main \in Callers /\ Requests \subseteq Callers
      /\ dbErrors \in Nat /\ open \in BOOLEAN /\ exits \in Nat /\ overlapped \in BOOLEAN
  <2>1. heap # <<>> /\ heap \in Seq(Seq(OnceSet))
    BY DEF DBInv, ManagerInv, StoreIn
  <2> QED BY <2>1, ServerAssumption, ManagerAssumption DEF DBInv, SavedIn
<1>b. ASSUME UNCHANGED managerVars
      PROVE  ManagerInv' /\ OnceSet' = OnceSet /\ heap' = heap
  BY <1>a, <1>b DEF ManagerInv, managerVars, RequestsTypeOK, MoreItems, OnceSet, Once, Spent
\* The manager's part moved, the table and the transactions did not.
<1>c. ASSUME ManagerInv', OnceSet \subseteq OnceSet', DOMAIN heap \subseteq DOMAIN heap',
             UNCHANGED <<table, tx, exits>>, StartOK', open' \in BOOLEAN, dbErrors' \in Nat,
             overlapped' \in BOOLEAN
      PROVE  DBInv'
  BY <1>a, <1>c, SavedInMonotone DEF DBInv
\* Main ends a call, or starts one with a metric that was counted.
<1>d. ASSUME NEW x \in CallIn(OnceSet), x.at.ptr \in DOMAIN heap, x.pc # "shrink",
             call' = [call EXCEPT ![Main] = x], UNCHANGED <<heap, hdr, st>>
      PROVE  ManagerInv' /\ OnceSet' = OnceSet /\ heap' = heap
  <2>1. StoreIn(OnceSet, heap, hdr, call')
    BY <1>a, <1>d, CallChanges DEF ManagerInv
  <2>2. RequestsTypeOK' /\ OnceSet' = OnceSet
    BY <1>a, <1>d DEF ManagerInv, RequestsTypeOK, MoreItems, OnceSet, Once, Spent
  <2> QED BY <1>d, <2>1, <2>2 DEF ManagerInv
<1>e. NoCall \in CallIn(OnceSet) /\ NoCall.at.ptr = 1 /\ NoCall.pc # "shrink"
  BY ZeroOnce DEF NoCall, CallIn, Header, Steps
<1>1. CASE Boot \/ Migrate \/ Query
  <2>1. UNCHANGED <<managerVars, table, tx, exits, overlapped>>
    BY <1>1 DEF Boot, Migrate, Query, dbVars
  <2>2. open' \in BOOLEAN /\ dbErrors' \in Nat
    <3>1. open' \in {open, TRUE, FALSE}
      BY <1>1, Zenon DEF Boot, Migrate, Query, dbVars
    <3>2. dbErrors' \in {dbErrors, dbErrors + 1}
      BY <1>1 DEF Boot, Migrate, Query, DBError, dbVars
    <3>3. open' \in BOOLEAN
      BY <1>a, <3>1, Zenon
    <3> QED BY <1>a, <3>2, <3>3
  <2>3. StartOK'
    <3>1. CASE Boot
      BY <2>1, <3>1 DEF Boot, StartOK, Srv, Phases
    <3>2. CASE Migrate
      BY <1>a, <2>1, <3>2 DEF Migrate, StartOK, Srv, Phases
    <3>3. CASE Query
      BY <1>a, <2>1, <3>3 DEF Query, StartOK, Srv, Phases
    <3> QED BY <1>1, <3>1, <3>2, <3>3
  <2> QED BY <1>a, <1>b, <1>c, <2>1, <2>2, <2>3
<1>2. CASE LoadNext
  <2>1. PICK n \in srv.todo :
            /\ call' = [call EXCEPT ![Main] = NewCall("upsert", Restored(table[n]))]
            /\ srv' = [srv EXCEPT !.todo = @ \ {n}]
            /\ UNCHANGED <<heap, hdr, st, dbVars, exits, overlapped>>
            /\ srv.pc = "restoring"
    BY <1>2 DEF LoadNext, Calls
  <2>2. Restored(table[n]) \in OnceSet
    <3>1. n \in Names /\ table[n] # Nil
      BY <1>a, <2>1 DEF StartOK, Srv
    <3>2. table[n] \in OnceSet
      BY <1>a, <3>1 DEF RowsIn
    <3> QED BY <3>2, RestoredIn
  <2>3. StartOK'
    BY <1>a, <2>1 DEF StartOK, Srv, dbVars
  <2> DEFINE x == NewCall("upsert", Restored(table[n]))
  <2>4. x \in CallIn(OnceSet) /\ x.at.ptr \in DOMAIN heap /\ x.pc # "shrink"
    BY <1>a, <2>2, NewCallIn DEF ManagerInv
  <2> HIDE DEF x
  <2> QED BY <1>a, <1>c, <1>d, <2>1, <2>3, <2>4 DEF x, dbVars
<1>s. CASE SkipRow
  <2>1. /\ UNCHANGED <<managerVars, dbVars, exits, overlapped>> /\ srv.pc = "restoring"
        /\ \E n \in srv.todo : srv' = [srv EXCEPT !.todo = @ \ {n}]
    BY <1>s DEF SkipRow
  <2>2. StartOK'
    BY <1>a, <2>1 DEF StartOK, Srv, dbVars
  <2> QED BY <1>a, <1>b, <1>c, <2>1, <2>2 DEF dbVars
<1>3. CASE LoadStep
  <2>1. StoreStep(Main) /\ UNCHANGED <<st, dbVars, srv, exits, overlapped>>
    BY <1>3 DEF LoadStep
  <2>2. ManagerInv' /\ OnceSet' = OnceSet
    BY <1>a, <2>1, StoreCallKeeps
  <2>3. DOMAIN heap \subseteq DOMAIN heap'
    BY <1>a, <2>1, ArraysStay DEF ManagerInv
  <2>4. StartOK'
    BY <1>a, <2>1 DEF StartOK, dbVars
  <2> QED BY <1>a, <1>c, <2>1, <2>2, <2>3, <2>4 DEF dbVars
<1>4. CASE Loaded \/ LoadFails
  <2>1. /\ call' = [call EXCEPT ![Main] = NoCall]
        /\ UNCHANGED <<heap, hdr, st, table, open, tx, exits, overlapped>>
        /\ dbErrors' \in Nat /\ srv' = AfterRestore
        /\ srv.pc \in {"querying", "restoring"}
    BY <1>a, <1>4 DEF Loaded, LoadFails, DBError, dbVars
  <2>2. StartOK'
    BY <1>a, <2>1 DEF StartOK, AfterRestore, Srv, Phases
  <2> HIDE DEF NoCall
  <2> QED BY <1>a, <1>c, <1>d, <1>e, <2>1, <2>2
<1>5. ASSUME NEW r \in Requests, Accept(r) \/ Serve(r)
      PROVE  DBInv'
  <2>1. UNCHANGED <<dbVars, srv, exits>> /\ overlapped' \in BOOLEAN
    BY <1>a, <1>5 DEF Accept, Serve
  <2>2. StartOK'
    BY <1>a, <2>1 DEF StartOK, dbVars
  <2>3. CASE Receive(r) \/ RequestStep(r)
    <3>1. ManagerInv' /\ OnceSet \subseteq OnceSet'
      BY <1>a, <2>3, RequestKeeps
    <3>2. heap' = heap
      BY <2>3 DEF Receive, RequestStep, Reject, StoreOther, AskKnown, Accumulate,
         NilDelta, Abort, NextItem, AllStored
    <3> QED BY <1>a, <1>c, <2>1, <2>2, <3>1, <3>2 DEF dbVars
  <2>4. CASE StoreStep(r) /\ UNCHANGED st
    <3>1. ManagerInv' /\ OnceSet' = OnceSet
      BY <1>a, <2>4, StoreCallKeeps
    <3>2. DOMAIN heap \subseteq DOMAIN heap'
      BY <1>a, <2>4, ArraysStay DEF ManagerInv
    <3> QED BY <1>a, <1>c, <2>1, <2>2, <3>1, <3>2 DEF dbVars
  <2> QED BY <1>5, <2>3, <2>4 DEF Accept, Serve
<1>6. ASSUME NEW r \in Requests, FlushAfterUpdate(r)
      PROVE  DBInv'
  <2> DEFINE x == [NoTx EXCEPT !.pc = "begin"]
  <2>1. x \in TxIn(OnceSet) /\ x.at.ptr = 1
    BY NoTxIn, ZeroOnce
  <2>2. /\ tx' = [tx EXCEPT ![r] = x]
        /\ UNCHANGED <<managerVars, table, open, dbErrors, srv, exits, overlapped>>
    BY <1>6 DEF FlushAfterUpdate, StartFlush
  <2> HIDE DEF x
  <2>3. SavedIn(OnceSet, heap, table, tx')
    BY <1>a, <2>1, <2>2, TxChanges
  <2> QED BY <1>a, <1>b, <2>2, <2>3 DEF DBInv, StartOK
<1>7. ASSUME NEW r \in Requests, Answer(r)
      PROVE  DBInv'
  <2>1. /\ Reply(r) /\ tx' = [tx EXCEPT ![r] = NoTx] /\ heap' = heap
        /\ UNCHANGED <<table, open, dbErrors, srv, exits, overlapped>>
    BY <1>7 DEF Answer, Reply
  <2>2. ManagerInv' /\ OnceSet \subseteq OnceSet'
    BY <1>a, <2>1, RequestKeeps
  <2>3. SavedIn(OnceSet', heap, table, tx)
    BY <1>a, <2>2, SavedInMonotone
  <2>4. NoTx \in TxIn(OnceSet') /\ NoTx.at.ptr = 1
    <3>1. [NoTx EXCEPT !.pc = "idle"] = NoTx
      BY DEF NoTx
    <3> QED BY <2>2, <3>1, NoTxIn, ZeroOnce
  <2> HIDE DEF NoTx
  <2>5. SavedIn(OnceSet', heap, table, tx')
    BY <1>a, <2>1, <2>3, <2>4, TxChanges
  <2> QED BY <1>a, <2>1, <2>2, <2>5 DEF DBInv, StartOK
<1>8. ASSUME NEW r \in Requests, FlushProgress(r)
      PROVE  DBInv'
  BY <1>a, <1>8, FlushKeeps DEF FlushProgress
<1>9. CASE Crash \/ Shutdown
  BY <1>9, EndKeeps DEF Crash, Shutdown
<1>10. CASE UNCHANGED vars
  <2>1. UNCHANGED <<managerVars, table, open, tx, dbErrors, srv, exits, overlapped>>
    BY <1>10 DEF vars, managerVars
  <2> QED BY <1>a, <1>b, <1>c, <2>1 DEF StartOK
<1> QED BY <1>1, <1>2, <1>s, <1>3, <1>4, <1>5, <1>6, <1>7, <1>8, <1>9, <1>10 DEF Next

\* The inductive invariant gives the two invariants that are checked.
LEMMA DBInvImplies == DBInv => DBServerTypeOK /\ RowsCountOnce
<1> SUFFICES ASSUME DBInv PROVE DBServerTypeOK /\ RowsCountOnce
  OBVIOUS
<1>1. ManagerTypeOK /\ CountedAtMostOnce
  BY ManagerInvImplies DEF DBInv
<1>2. SavedIn(Metric, heap, table, tx)
  BY SavedInMonotone DEF DBInv, OnceSet
<1>3. DBTypeOK
  BY <1>2 DEF SavedIn, RowsIn, TxIn, DBTypeOK, Rows, Tx, DBInv
<1>4. \A n \in Names : table[n] # Nil => Once(table[n])
  BY DEF DBInv, SavedIn, RowsIn, OnceSet
<1> QED BY <1>1, <1>3, <1>4 DEF DBServerTypeOK, RowsCountOnce, DBInv, StartOK

\* Every variable of the server with a database keeps its type.
THEOREM DBServerTypeCorrect == Spec => []DBServerTypeOK
<1> QED BY DBInitInv, DBNextInv, DBInvImplies, PTL DEF Spec

\* Whatever requests, transactions, failed statements, crashes and restarts there
\* are, no counter in memory or in the table counts a reported item twice.
THEOREM RowsCountOnceAlways == Spec => []RowsCountOnce
<1> QED BY DBInitInv, DBNextInv, DBInvImplies, PTL DEF Spec

-----------------------------------------------------------------------------
(* Requests that do not overlap *)

Named(rows) == \A n \in Names : rows[n] # Nil => rows[n].id = n

\* One request at a time is served, only once the process is up; it calls the store
\* or flushes, and before that the restore calls it.
OneAtATime ==
    /\ \A r, q \in InFlight : r = q
    /\ InFlight # {} => Up
    /\ \A p \in Callers : Busy(p) =>
          \/ p \in Requests /\ st[p].pc \in {"known", "store"}
          \/ p = Main /\ srv.pc = "restoring"
    /\ \A p \in Callers : ~InTx(p, "idle") => p \in Requests /\ In(p, "flush")

\* A row holds what memory holds of a metric, if that can be stored.
Holds(row, m) ==
    Storable(m) =>
        /\ row # Nil
        /\ m.mtype = "gauge" => row.value = m.value
        /\ m.mtype = "counter" => row.delta = m.delta

\* The slice a transaction walks is the memory's, and it sees what it went past.
Walked(p) ==
    /\ tx[p].pc \in {"begin", "list"} => tx[p].i = 1
    /\ tx[p].pc \in {"next", "exec"} => tx[p].at = hdr /\ tx[p].i <= hdr.len + 1
    /\ InTx(p, "next") =>
        \A j \in 1..(tx[p].i - 1) : Holds(Seen(p)[heap[hdr.ptr][j].id], heap[hdr.ptr][j])
    /\ InTx(p, "exec") =>
        /\ tx[p].i > 1 /\ tx[p].m = heap[hdr.ptr][tx[p].i - 1] /\ Storable(tx[p].m)
        /\ \A j \in 1..(tx[p].i - 2) : Holds(Seen(p)[heap[hdr.ptr][j].id], heap[hdr.ptr][j])

Serial ==
    /\ Orderly(Proper) /\ OneAtATime
    /\ \A r \in Requests : r \in InFlight \/ In(r, "new") => Served(r)
    /\ Named(table) /\ \A p \in Callers : Named(tx[p].rows)
    /\ \A p \in Callers : Walked(p)

SerialInv == DBInv /\ (~overlapped => Serial)

\* Types that the steps below rely on.
LEMMA SerialTypes ==
    ASSUME DBInv
    PROVE  /\ StoreIn(Metric, heap, hdr, call) /\ SavedIn(Metric, heap, table, tx)
           /\ Requests \subseteq Callers /\ Main \in Callers \ Requests
           /\ st \in [Requests -> Request]
           /\ hdr.ptr \in DOMAIN heap /\ hdr.len \in Nat /\ heap[hdr.ptr] \in Seq(Metric)
<1>1. StoreIn(Metric, heap, hdr, call)
  BY StoreInMonotone DEF DBInv, ManagerInv, OnceSet
<1>2. SavedIn(Metric, heap, table, tx)
  BY SavedInMonotone DEF DBInv, OnceSet
<1>3. st \in [Requests -> Request]
  BY DEF DBInv, ManagerInv, RequestsTypeOK, Request
<1>4. heap \in Seq(Seq(Metric)) /\ hdr.ptr \in DOMAIN heap /\ hdr.len \in Nat
  BY <1>1 DEF StoreIn
<1> QED BY <1>1, <1>2, <1>3, <1>4, ServerAssumption, ManagerAssumption

\* A request that is served and does not flush, and a process that is not up, leave
\* no transaction open.
LEMMA NoFlush ==
    ASSUME OneAtATime, ~Up \/ \E r \in InFlight : ~In(r, "flush")
    PROVE  \A p \in Callers : InTx(p, "idle")
<1> SUFFICES ASSUME NEW p \in Callers, ~InTx(p, "idle") PROVE FALSE
  OBVIOUS
<1>1. p \in InFlight /\ In(p, "flush")
  BY DEF OneAtATime, InFlight, Working, In
<1> QED BY <1>1 DEF OneAtATime

\* Nothing is written to the table or moved in a transaction.
LEMMA TableStays ==
    ASSUME Serial, UNCHANGED <<table, tx>>, Orderly(Proper)', OneAtATime',
           \A r \in Requests : r \in InFlight' \/ In(r, "new")' => Served(r)',
           UNCHANGED <<heap, hdr>> \/ \A p \in Callers : InTx(p, "idle")
    PROVE  Serial'
<1>1. Named(table)' /\ \A p \in Callers : Named(tx[p].rows)'
  BY DEF Serial, Named
<1>2. ASSUME NEW p \in Callers PROVE Walked(p)'
  <2>1. CASE InTx(p, "idle")
    BY <2>1 DEF Walked, InTx
  <2>2. CASE UNCHANGED <<heap, hdr>>
    <3>1. Seen(p)' = Seen(p) /\ Walked(p)
      BY DEF Seen, Serial
    <3>2. hdr' = hdr /\ heap' = heap /\ tx'[p] = tx[p]
      BY <2>2
    <3> HIDE DEF Seen
    <3> QED BY <3>1, <3>2 DEF Walked, InTx
  <2> QED BY <2>1, <2>2
<1> QED BY <1>1, <1>2 DEF Serial

\* The requests and the store are as they were.
LEMMA ServiceStays ==
    ASSUME Serial, UNCHANGED <<heap, hdr, call, st>>
    PROVE  /\ Orderly(Proper)' /\ Held' = Held /\ InFlight' = InFlight
           /\ \A q \in Callers : Busy(q)' = Busy(q)
           /\ \A r \in Requests : r \in InFlight' \/ In(r, "new")' => Served(r)'
<1>1. Orderly(Proper)' /\ Held' = Held
  BY OrderlyStays DEF Serial
<1>2. \A r \in Requests : Served(r) => Served(r)'
  BY ServedStays
<1> QED BY <1>1, <1>2 DEF Serial, InFlight, In, Busy

\* The steps of a request other than its flush and its answer (manager.go:87-163).
LEMMA ServeSerial ==
    ASSUME DBInv, Serial, NEW r \in Requests, Serve(r)
    PROVE  /\ Serial' /\ HeldGrows /\ r \in InFlight /\ st'[r].body = st[r].body
           /\ \A x \in Held' : x \in Held \/ (MoreItems(r) /\ SameKey(x, Reported(r)))
           /\ \A q \in Callers \ {r} : call'[q] = call[q]
           /\ \A q \in Requests \ {r} : st'[q] = st[q]
           /\ st'[r].pc # "ok"
<1>a. /\ Orderly(Proper) /\ OneAtATime /\ Up /\ srv' = srv /\ UNCHANGED <<table, tx>>
      /\ Requests \subseteq Callers /\ Main \in Callers \ Requests
      /\ ServeStep(r) /\ ManagerInv /\ RequestsTypeOK
  BY SerialTypes DEF Serial, Serve, dbVars, ServeStep, DBInv, ManagerInv
<1>b. r \in InFlight /\ ~In(r, "flush")
  BY <1>a, ServeInFlight DEF OneAtATime, Up
<1>c. /\ \A q \in Callers : InTx(q, "idle")
      /\ \A q \in Requests \ {r} : q \notin InFlight
      /\ Alone(r)
  <2>1. \A q \in Callers : InTx(q, "idle")
    BY <1>a, <1>b, NoFlush
  <2>2. \A q \in Requests \ {r} : q \notin InFlight
    BY <1>a, <1>b DEF OneAtATime
  <2>3. Alone(r)
    BY <1>a, <1>b, <2>2 DEF Serial, OneAtATime, InFlight, Working, Up, Alone
  <2> QED BY <2>1, <2>2, <2>3
<1>d. /\ Orderly(Proper)' /\ HeldGrows /\ Served(r)'
      /\ \A x \in Held' : x \in Held \/ (MoreItems(r) /\ SameKey(x, Reported(r)))
      /\ \A q \in Callers \ {r} : call'[q] = call[q]
      /\ Busy(r)' => st'[r].pc \in {"known", "store"}
      /\ \A q \in Requests \ {r} : st'[q] = st[q]
      /\ st'[r].body = st[r].body /\ st'[r].pc \notin {"new", "ok"}
  BY <1>a, <1>c, ServeServed
<1>1. InFlight' \subseteq {r}
  BY <1>c, <1>d DEF InFlight
<1>2. OneAtATime'
  <2>1. \A q \in Callers : Busy(q)' => q = r /\ st'[r].pc \in {"known", "store"}
    BY <1>a, <1>c, <1>d DEF Busy, Alone
  <2>2. \A q \in Callers : InTx(q, "idle")'
    BY <1>a, <1>c DEF InTx
  <2> QED BY <1>a, <1>1, <2>1, <2>2 DEF OneAtATime, Up
<1>3. \A q \in Requests : q \in InFlight' \/ In(q, "new")' => Served(q)'
  <2> SUFFICES ASSUME NEW q \in Requests \ {r}, In(q, "new")' PROVE Served(q)'
    BY <1>1, <1>d
  <2>1. st'[q] = st[q] /\ In(q, "new") /\ Served(q)
    BY <1>d DEF Serial, In
  <2> QED BY <2>1 DEF Served, Knows, In, Working
<1>4. Serial'
  BY <1>a, <1>c, <1>d, <1>2, <1>3, TableStays
<1> QED BY <1>b, <1>d, <1>4

\* A row written over by a metric holds it, keeps the other column, and its name
\* (postgres.go:15-27).
LEMMA PutHolds ==
    ASSUME NEW m \in Metric, NEW old \in Metric \cup {Nil}, Storable(m)
    PROVE  LET row == Put(old, m)
           IN  /\ row \in Metric /\ row # Nil
               /\ row.id = IF old = Nil THEN m.id ELSE old.id
               /\ Holds(row, m)
               /\ old # Nil /\ m.mtype = "gauge" => row.delta = old.delta
               /\ old # Nil /\ m.mtype = "counter" => row.value = old.value
<1> DEFINE base == IF old = Nil THEN [Zero EXCEPT !.id = m.id] ELSE old
<1>1. base \in Metric /\ base.id = IF old = Nil THEN m.id ELSE old.id
  BY DEF Metric, Zero
<1>2. m.mtype \in Types
  BY DEF Storable, Types
<1>3. Put(old, m) = [Overwrite(base, m) EXCEPT !.mtype = m.mtype]
  BY DEF Put
<1>a. old # Nil => base = old
  OBVIOUS
<1> HIDE DEF base
<1>4. CASE m.mtype = "gauge"
  <2>1. Put(old, m) = [[base EXCEPT !.value = m.value] EXCEPT !.mtype = m.mtype]
    BY <1>3, <1>4 DEF Overwrite
  <2>2. Put(old, m) \in Metric
    BY <1>1, <1>2, <2>1 DEF Metric
  <2>3. DOMAIN base = {"id", "mtype", "delta", "value"}
    BY <1>1 DEF Metric
  <2>4. Put(old, m).value = m.value /\ Put(old, m).id = base.id
        /\ Put(old, m).delta = base.delta
    BY <2>1, <2>3
  <2>5. Put(old, m) # Nil
    BY <2>2, NilAssumption
  <2> QED BY <1>1, <1>4, <1>a, <2>2, <2>4, <2>5 DEF Holds
<1>5. CASE m.mtype = "counter"
  <2>1. Put(old, m) = [[base EXCEPT !.delta = m.delta] EXCEPT !.mtype = m.mtype]
    BY <1>3, <1>5 DEF Overwrite
  <2>2. Put(old, m) \in Metric
    BY <1>1, <1>2, <2>1 DEF Metric
  <2>3. DOMAIN base = {"id", "mtype", "delta", "value"}
    BY <1>1 DEF Metric
  <2>4. Put(old, m).delta = m.delta /\ Put(old, m).id = base.id
        /\ Put(old, m).value = base.value
    BY <2>1, <2>3
  <2>5. Put(old, m) # Nil
    BY <2>2, NilAssumption
  <2> QED BY <1>1, <1>5, <1>a, <2>2, <2>4, <2>5 DEF Holds
<1> QED BY <1>2, <1>4, <1>5 DEF Types

\* While a transaction is open the slice is as long as it says, its keys apart.
LEMMA FlushAlone ==
    ASSUME DBInv, Serial, NEW p \in Callers, ~InTx(p, "idle")
    PROVE  /\ p \in InFlight /\ In(p, "flush")
           /\ \A q \in Callers \ {p} : InTx(q, "idle")
           /\ \A q \in Callers : ~Busy(q)
           /\ Keyed(Proper, heap[hdr.ptr], hdr.len) /\ hdr.len <= Len(heap[hdr.ptr])
<1>1. p \in InFlight /\ In(p, "flush")
  BY DEF Serial, OneAtATime, InFlight, Working, In
<1>2. \A q \in Callers \ {p} : InTx(q, "idle")
  BY <1>1 DEF Serial, OneAtATime, InFlight, Working, In
<1>3. \A q \in Callers : ~Busy(q)
  BY <1>1 DEF Serial, OneAtATime, InFlight, Working, In, Up
<1>4. LastInUse = hdr.len
  BY <1>3 DEF LastInUse, Busy, At
<1> QED BY <1>1, <1>2, <1>3, <1>4 DEF Serial, Orderly

\* The steps of a flush (postgres.go:101-178).
LEMMA FlushSerial ==
    ASSUME DBInv, Serial, NEW p \in Requests, FlushStep(p), UNCHANGED <<managerVars, srv>>
    PROVE  Serial'
<1> DEFINE h == heap[hdr.ptr]
           n == hdr.len
           t == tx[p]
<1>a. /\ p \in Callers /\ Requests \subseteq Callers
      /\ ~InTx(p, "idle") /\ p \in InFlight /\ In(p, "flush")
      /\ \A q \in Callers \ {p} : InTx(q, "idle")
      /\ Keyed(Proper, h, n) /\ n <= Len(h) /\ n \in Nat /\ h \in Seq(Metric)
      /\ t \in TxIn(Metric) /\ tx \in [Callers -> TxIn(Metric)]
      /\ Walked(p) /\ Named(table) /\ Named(t.rows)
  <2>1. p \in Callers /\ Requests \subseteq Callers
    BY SerialTypes
  <2>2. ~InTx(p, "idle")
    BY DEF FlushStep, BeginTx, GetBatch, NextMetric, Exec, Commit, Refused, StatementFails, InTx
  <2> QED BY <2>1, <2>2, FlushAlone, SerialTypes DEF Serial, SavedIn
\* What is left to show is what becomes of this transaction.
<1>b. ASSUME NEW STATE x, tx' = [tx EXCEPT ![p] = x], Named(x.rows), Named(table'), Walked(p)'
      PROVE  Serial'
  <2>1. tx'[p] = x /\ \A q \in Callers \ {p} : tx'[q] = tx[q]
    BY <1>a, <1>b
  <2>2. /\ Orderly(Proper)' /\ InFlight' = InFlight
        /\ \A r \in Requests : r \in InFlight' \/ In(r, "new")' => Served(r)'
    BY ServiceStays DEF managerVars
  <2>3. OneAtATime'
    <3>1. \A q \in Callers : ~InTx(q, "idle")' => q = p
      BY <1>a, <2>1 DEF InTx
    <3>2. UNCHANGED <<call, st, srv>>
      BY DEF managerVars
    <3> QED BY <1>a, <2>2, <3>1, <3>2 DEF Serial, OneAtATime, Busy, Up, In
  <2>4. \A q \in Callers : Walked(q)'
    BY <1>a, <1>b, <2>1 DEF Walked, InTx
  <2>5. Named(table)' /\ \A q \in Callers : Named(tx[q].rows)'
    BY <1>b, <2>1 DEF Serial, Named
  <2> QED BY <2>2, <2>3, <2>4, <2>5 DEF Serial
<1>c. UNCHANGED <<heap, hdr>>
  BY DEF managerVars
<1>1. CASE BeginTx(p)
  <2> DEFINE x == [t EXCEPT !.pc = "list"]
  <2>1. tx' = [tx EXCEPT ![p] = x] /\ table' = table /\ t.pc = "begin"
    BY <1>1 DEF BeginTx, InTx
  <2>2. x.pc = "list" /\ x.i = t.i /\ x.rows = t.rows /\ tx'[p] = x
    BY <1>a, <2>1 DEF TxIn
  <2> HIDE DEF x
  <2>3. Walked(p)'
    BY <1>a, <2>1, <2>2 DEF Walked, InTx
  <2> QED BY <1>a, <1>b, <2>1, <2>2, <2>3
<1>2. CASE GetBatch(p)
  <2> DEFINE x == [t EXCEPT !.pc = "next", !.at = hdr]
  <2>1. tx' = [tx EXCEPT ![p] = x] /\ table' = table /\ t.pc = "list"
    BY <1>2 DEF GetBatch, InTx
  <2>2. x.pc = "next" /\ x.at = hdr /\ x.i = 1 /\ x.rows = t.rows /\ tx'[p] = x
    BY <1>a, <2>1 DEF TxIn, Walked
  <2> HIDE DEF x
  <2>3. Walked(p)'
    BY <1>a, <1>c, <2>1, <2>2 DEF Walked, InTx
  <2> QED BY <1>a, <1>b, <2>1, <2>2, <2>3
<1>3. CASE NextMetric(p)
  <2> DEFINE m == CellAt(t.at.ptr, t.i)
             step == IF Storable(m) THEN "exec" ELSE "next"
             x == [t EXCEPT !.pc = step, !.m = m, !.i = @ + 1]
  <2>1. /\ tx' = [tx EXCEPT ![p] = x] /\ table' = table /\ t.pc = "next"
        /\ t.at = hdr /\ t.i \in 1..n
    BY <1>3, <1>a DEF NextMetric, MoreToFlush, InTx, Walked, TxIn
  <2>2. m = h[t.i]
    BY <1>a, <2>1 DEF CellAt
  <2>3. /\ x.pc = step /\ x.at = hdr /\ x.i = t.i + 1 /\ x.m = h[t.i] /\ x.rows = t.rows
        /\ tx'[p] = x /\ step = IF Storable(h[t.i]) THEN "exec" ELSE "next"
    BY <1>a, <2>1, <2>2 DEF TxIn
  <2> HIDE DEF x, m, step
  <2>4. Seen(p)' = Seen(p)
    BY <2>1, <2>3 DEF Seen
  <2>5. \A j \in 1..(t.i - 1) : Holds(Seen(p)[h[j].id], h[j])
    BY <1>a, <2>1 DEF Walked, InTx
  <2>6. ~Storable(h[t.i]) => \A j \in 1..t.i : Holds(Seen(p)[h[j].id], h[j])
    BY <2>1, <2>5 DEF Holds
  <2>7. Walked(p)'
    <3>1. CASE Storable(h[t.i])
      <4>1. x.pc = "exec" /\ x.i > 1 /\ x.i - 1 = t.i /\ x.i - 2 = t.i - 1 /\ x.i <= n + 1
        BY <1>a, <2>1, <2>3, <3>1
      <4> QED BY <1>c, <2>3, <2>4, <2>5, <3>1, <4>1 DEF Walked, InTx
    <3>2. CASE ~Storable(h[t.i])
      <4>1. x.pc = "next" /\ x.i - 1 = t.i /\ x.i <= n + 1
        BY <1>a, <2>1, <2>3, <3>2
      <4> QED BY <1>c, <2>3, <2>4, <2>6, <3>2, <4>1 DEF Walked, InTx
    <3> QED BY <3>1, <3>2
  <2> QED BY <1>a, <1>b, <2>1, <2>3, <2>7
<1>4. CASE Exec(p)
  <2> DEFINE m == t.m
             row == Put(Seen(p)[m.id], m)
             x == [t EXCEPT !.pc = "next", !.rows = [t.rows EXCEPT ![m.id] = row]]
  <2>1. /\ tx' = [tx EXCEPT ![p] = x] /\ table' = table /\ t.pc = "exec"
        /\ t.at = hdr /\ t.i <= n + 1 /\ t.i > 1 /\ m = h[t.i - 1] /\ Storable(m)
        /\ \A j \in 1..(t.i - 2) : Holds(Seen(p)[h[j].id], h[j])
    BY <1>4, <1>a DEF Exec, InTx, Walked
  <2>2. t.i - 1 \in 1..n /\ m \in Metric /\ m.id \in Names
    <3>1. t.i \in Nat /\ n \in Nat
      BY <1>a DEF TxIn
    <3>2. t.i - 1 \in 1..n
      BY <2>1, <3>1
    <3>3. h[t.i - 1] \in Proper
      BY <1>a, <3>2 DEF Keyed
    <3> QED BY <2>1, <3>2, <3>3 DEF Proper
  <2>3. Seen(p) \in RowsIn(Metric) /\ Seen(p)[m.id] \in Metric \cup {Nil}
    BY <1>a, <2>2, SerialTypes, SeenIn DEF RowsIn
  <2>4. /\ row # Nil /\ row.id = m.id /\ Holds(row, m)
        /\ Seen(p)[m.id] # Nil /\ m.mtype = "gauge" => row.delta = Seen(p)[m.id].delta
        /\ Seen(p)[m.id] # Nil /\ m.mtype = "counter" => row.value = Seen(p)[m.id].value
    <3>1. Seen(p)[m.id] # Nil => Seen(p)[m.id].id = m.id
      BY <1>a, <2>2 DEF Seen, Named
    <3> QED BY <2>1, <2>2, <2>3, <3>1, PutHolds
  <2>5. /\ x.pc = "next" /\ x.at = hdr /\ x.i = t.i /\ tx'[p] = x
        /\ x.rows = [t.rows EXCEPT ![m.id] = row] /\ t.rows \in RowsIn(Metric)
    BY <1>a, <2>1 DEF TxIn
  <2> HIDE DEF x, row
  <2>6. \A k \in Names : Seen(p)'[k] = IF k = m.id THEN row ELSE Seen(p)[k]
    <3>1. \A k \in Names : x.rows[k] = IF k = m.id THEN row ELSE t.rows[k]
      BY <2>2, <2>5 DEF RowsIn
    <3>2. \A k \in Names : Seen(p)'[k] = IF x.rows[k] = Nil THEN table[k] ELSE x.rows[k]
      <4>1. tx'[p] = x /\ table' = table
        BY <2>1, <2>5
      <4> QED BY <4>1 DEF Seen
    <3>3. \A k \in Names : Seen(p)[k] = IF t.rows[k] = Nil THEN table[k] ELSE t.rows[k]
      BY DEF Seen
    <3> QED BY <2>4, <3>1, <3>2, <3>3
  <2>7. ASSUME NEW j \in 1..(t.i - 1)
        PROVE  Holds(Seen(p)'[h[j].id], h[j])
    <3>a. /\ j \in 1..n /\ h[j].id \in Names
          /\ j # t.i - 1 => j \in 1..(t.i - 2)
      <4>1. t.i \in Nat /\ t.i <= n + 1 /\ n \in Nat
        BY <1>a, <2>1 DEF TxIn
      <4>2. j \in 1..n /\ (j # t.i - 1 => j \in 1..(t.i - 2))
        BY <4>1
      <4> QED BY <1>a, <4>2 DEF Keyed, Proper
    <3>1. CASE j = t.i - 1
      BY <2>1, <2>2, <2>4, <2>6, <3>1
    <3>2. CASE j # t.i - 1 /\ h[j].id = m.id
      <4>1. h[j].mtype # m.mtype
        BY <1>a, <2>1, <2>2, <3>2, <3>a DEF Keyed, SameKey
      <4>2. Holds(Seen(p)[m.id], h[j])
        BY <2>1, <3>2, <3>a
      <4>3. Seen(p)'[h[j].id] = row
        BY <2>2, <2>6, <3>2
      <4> QED BY <2>1, <2>4, <4>1, <4>2, <4>3 DEF Holds, Storable
    <3>3. CASE j # t.i - 1 /\ h[j].id # m.id
      BY <2>1, <2>6, <3>3, <3>a
    <3> QED BY <3>1, <3>2, <3>3
  <2>8. Walked(p)'
    BY <1>c, <2>1, <2>5, <2>7 DEF Walked, InTx
  <2>9. Named(x.rows)
    BY <1>a, <2>4, <2>5 DEF Named, RowsIn
  <2> QED BY <1>a, <1>b, <2>1, <2>8, <2>9
<1>5. CASE Commit(p) \/ Refused(p) \/ StatementFails(p)
  <2> DEFINE x == [NoTx EXCEPT !.pc = "done"]
  <2>1. tx' = [tx EXCEPT ![p] = x] /\ table' \in {table, Seen(p)}
    BY <1>5 DEF Commit, Refused, StatementFails, RollBack
  <2>2. x.pc = "done" /\ x.rows = NoRows
    BY DEF NoTx
  <2> HIDE DEF x
  <2>3. Walked(p)'
    BY <1>a, <2>1, <2>2 DEF Walked, InTx
  <2>4. Named(Seen(p)) /\ Named(NoRows)
    BY <1>a DEF Named, Seen, NoRows
  <2> QED BY <1>a, <1>b, <2>1, <2>2, <2>3, <2>4
<1> QED BY <1>1, <1>2, <1>3, <1>4, <1>5 DEF FlushStep

\* A row that has its name is restored as a request would store it: the column of its
\* type, the other left out (postgres.go:210-226).
LEMMA RestoredProper ==
    ASSUME DBInv, Serial, NEW n \in Names, table[n] # Nil
    PROVE  Restored(table[n]) \in Proper
<1>1. table[n] \in Metric /\ table[n].id \in Names
  BY SerialTypes DEF Serial, Named, SavedIn, RowsIn
<1> QED BY <1>1 DEF Restored, Proper, Metric

\* The start of a process, and its end, with no request open (main.go:31-74).
LEMMA StartSerial ==
    ASSUME DBInv, Serial,
           \/ Boot \/ Migrate \/ Query
           \/ LoadNext \/ SkipRow \/ LoadStep \/ Loaded \/ LoadFails
    PROVE  Serial'
<1>a. /\ Orderly(Proper) /\ OneAtATime /\ ~Up /\ InFlight = {} /\ UNCHANGED <<st, table, tx>>
      /\ StoreIn(Metric, heap, hdr, call)
      /\ Requests \subseteq Callers /\ Main \in Callers \ Requests
  <2>1. ~Up /\ UNCHANGED <<st, table, tx>>
    BY DEF Boot, Migrate, Query, LoadNext, SkipRow, LoadStep, Loaded, LoadFails, Up,
       managerVars, dbVars
  <2> QED BY <2>1, SerialTypes DEF Serial, OneAtATime
<1>b. /\ \A q \in Callers : InTx(q, "idle")
      /\ \A q \in Callers : Busy(q) => q = Main /\ srv.pc = "restoring"
  <2>1. \A q \in Callers : InTx(q, "idle")
    BY <1>a, NoFlush
  <2> QED BY <1>a, <2>1 DEF OneAtATime, InFlight, Working
\* What is left to show is what becomes of Main's call.
<1>c. ASSUME Orderly(Proper)', \A q \in Callers \ {Main} : call'[q] = call[q],
             Busy(Main)' => srv'.pc = "restoring"
      PROVE  Serial'
  <2>1. InFlight' = {}
    BY <1>a DEF InFlight
  <2>2. \A q \in Callers : Busy(q)' => q = Main
    BY <1>b, <1>c DEF Busy
  <2>3. \A q \in Callers : InTx(q, "idle")'
    BY <1>a, <1>b DEF InTx
  <2>4. OneAtATime'
    BY <1>c, <2>1, <2>2, <2>3 DEF OneAtATime
  <2>5. \A r \in Requests : r \in InFlight' \/ In(r, "new")' => Served(r)'
    <3> SUFFICES ASSUME NEW r \in Requests, In(r, "new") PROVE Served(r)'
      BY <1>a, <2>1 DEF In
    <3> QED BY <1>a DEF Serial, Served, Knows, In, Working
  <2> QED BY <1>a, <1>b, <1>c, <2>4, <2>5, TableStays
<1>1. CASE Boot \/ Migrate \/ Query
  <2>1. UNCHANGED <<heap, hdr, call>> /\ srv.pc # "restoring"
    BY <1>1 DEF Boot, Migrate, Query, managerVars
  <2>2. ~Busy(Main)' /\ call' = call
    BY <1>a, <1>b, <2>1 DEF Busy
  <2> QED BY <1>a, <1>c, <2>1, <2>2, OrderlyStays
<1>2. CASE LoadNext
  <2>1. PICK n \in srv.todo :
            /\ Calls(Main, "upsert", Restored(table[n])) /\ srv'.pc = "restoring"
            /\ UNCHANGED <<heap, hdr>>
    BY <1>2 DEF LoadNext, DBInv, StartOK, Srv
  <2>2. Restored(table[n]) \in Proper
    BY RestoredProper DEF DBInv, StartOK, Srv
  <2> DEFINE c == NewCall("upsert", Restored(table[n]))
  <2>3. call' = [call EXCEPT ![Main] = c]
    BY <2>1 DEF Calls
  <2>4. \E op, m : c = NewCall(op, m) /\ (op = "upsert" => m \in Proper)
    BY <2>2
  <2>5. \A q \in Callers : ~Busy(q)
    BY <1>2, <1>b DEF LoadNext, Free, At, Busy
  <2> HIDE DEF c
  <2>6. Orderly(Proper)' /\ \A q \in Callers \ {Main} : call'[q] = call[q]
    BY <1>a, <2>1, <2>3, <2>4, <2>5, StartOrderly
  <2> QED BY <1>c, <2>1, <2>6
<1>s. CASE SkipRow
  <2>1. UNCHANGED <<heap, hdr, call>> /\ Free
    BY <1>s DEF SkipRow, managerVars
  <2>2. ~Busy(Main)' /\ call' = call
    BY <2>1 DEF Busy, Free, At
  <2> QED BY <1>a, <1>c, <2>1, <2>2, OrderlyStays
<1>3. CASE LoadStep
  <2>1. Orderly(Proper)' /\ \A q \in Callers \ {Main} : call'[q] = call[q]
    BY <1>3, <1>a, <1>b, ProperOverwrites, StepOrderly DEF LoadStep
  <2> QED BY <1>3, <1>c, <2>1 DEF LoadStep
<1>4. CASE Loaded \/ LoadFails
  <2>1. /\ call' = [call EXCEPT ![Main] = NoCall] /\ UNCHANGED <<heap, hdr>>
        /\ srv.pc = "querying" \/ Free
    BY <1>4 DEF Loaded, LoadFails
  <2>2. \A q \in Callers : ~Busy(q)
    BY <1>b, <2>1 DEF Free, At, Busy
  <2>3. Orderly(Proper)' /\ \A q \in Callers \ {Main} : call'[q] = call[q]
    BY <1>a, <2>1, <2>2, StartOrderly
  <2>4. ~Busy(Main)'
    BY <1>a, <2>1 DEF Busy, NoCall, StoreIn
  <2> QED BY <1>c, <2>3, <2>4
<1> QED BY <1>1, <1>2, <1>s, <1>3, <1>4

\* What a process leaves is the table, and requests that nobody serves.
LEMMA EndSerial ==
    ASSUME DBInv, Serial, NEW phase, EndProcess(phase)
    PROVE  Serial'
<1>1. /\ heap' = << <<>> >> /\ hdr' = [ptr |-> 1, len |-> 0]
      /\ \A p \in Callers : call'[p] = NoCall /\ tx'[p] = NoTx
      /\ table' = table
  BY DEF EndProcess
<1>2. Orderly(Proper)'
  <2>1. hdr'.len = 0 /\ heap'[hdr'.ptr] = <<>> /\ \A p \in Callers : call'[p].pc = "idle"
    BY <1>1 DEF NoCall
  <2>2. \A p \in Callers : CallOrderly(Proper, p)'
    BY <2>1 DEF CallOrderly, Busy, At
  <2>3. LastInUse' = 0
    BY <2>1 DEF LastInUse, At
  <2> QED BY <2>1, <2>2, <2>3 DEF Orderly, Keyed
<1>3. InFlight' = {}
  <2>1. \A r \in Requests : st'[r] = IF r \in InFlight THEN [st[r] EXCEPT !.pc = "aborted"] ELSE st[r]
    BY DEF EndProcess
  <2>2. \A r \in Requests : st'[r].pc \notin Working
    BY <2>1, SerialTypes DEF InFlight, Working, Request
  <2> QED BY <2>2 DEF InFlight
<1>4. OneAtATime'
  <2>1. \A p \in Callers : call'[p].pc = "idle" /\ tx'[p].pc = "idle"
    BY <1>1 DEF NoCall, NoTx
  <2> QED BY <1>3, <2>1 DEF OneAtATime, Busy, InTx
<1>5. \A p \in Callers : Walked(p)' /\ Named(tx[p].rows)'
  <2>1. \A p \in Callers : tx'[p].pc = "idle" /\ tx'[p].rows = NoRows
    BY <1>1 DEF NoTx
  <2> QED BY <2>1 DEF Walked, InTx, Named, NoRows
<1>6. ASSUME NEW r \in Requests, In(r, "new")' PROVE Served(r)'
  <2>1. st'[r] = IF r \in InFlight THEN [st[r] EXCEPT !.pc = "aborted"] ELSE st[r]
    BY DEF EndProcess
  <2>2. st'[r] = st[r] /\ In(r, "new")
    BY <1>6, <2>1, SerialTypes DEF Request, In
  <2> QED BY <2>2 DEF Serial, Served, Knows, In, Working
<1> QED BY <1>1, <1>2, <1>3, <1>4, <1>5, <1>6 DEF Serial, Named

\* A request is received, flushes first, or is answered.
LEMMA RequestSerial ==
    ASSUME DBInv, Serial, NEW r \in Requests,
           \/ Accept(r) /\ InFlight = {}
           \/ FlushAfterUpdate(r)
           \/ Answer(r)
    PROVE  Serial'
<1>a. /\ Orderly(Proper) /\ OneAtATime /\ Up /\ UNCHANGED <<table, srv, heap, hdr, call>>
      /\ Named(table) /\ \A q \in Callers : Named(tx[q].rows) /\ Walked(q)
      /\ Requests \subseteq Callers /\ Main \in Callers \ Requests
      /\ st \in [Requests -> Request] /\ tx \in [Callers -> TxIn(Metric)]
  BY SerialTypes DEF Serial, Accept, FlushAfterUpdate, Answer, Receive, Reply, managerVars,
     dbVars, SavedIn
<1>b. Orderly(Proper)' /\ \A q \in Callers : Busy(q)' = Busy(q)
  BY <1>a, OrderlyStays DEF Busy
\* A request that is not yet received stays so.
<1>c. ASSUME NEW q \in Requests \ {r}, st'[q] = st[q], In(q, "new")'
      PROVE  Served(q)'
  BY <1>c DEF Serial, Served, Knows, In, Working
<1>1. CASE Accept(r) /\ InFlight = {}
  <2>1. /\ tx' = tx /\ \A q \in Callers : ~Busy(q) /\ InTx(q, "idle")
    <3>1. tx' = tx
      BY <1>1 DEF Accept, dbVars
    <3>2. \A q \in Requests : st[q].pc \notin Working
      BY <1>1 DEF InFlight
    <3>3. \A q \in Callers : ~Busy(q)
      BY <1>a, <3>2 DEF OneAtATime, Working, Up
    <3>4. \A q \in Callers : InTx(q, "idle")
      BY <1>a, <3>2 DEF OneAtATime, Working, In
    <3> QED BY <3>1, <3>3, <3>4
  <2>2. \A q \in Requests \ {r} : st'[q] = st[q]
    <3>1. \E b : st' = [st EXCEPT ![r] = [st[r] EXCEPT !.pc = "item", !.body = b]]
      BY <1>1 DEF Accept, Receive
    <3> QED BY <1>a, <3>1
  <2>3. InFlight' \subseteq {r}
    BY <1>1, <2>2 DEF InFlight
  <2>4. OneAtATime'
    <3>1. \A q \in Callers : ~Busy(q)' /\ InTx(q, "idle")'
      BY <1>b, <2>1 DEF InTx
    <3>2. \A q, k \in InFlight' : q = k
      BY <2>3
    <3>3. Up'
      BY <1>a DEF Up
    <3> QED BY <3>1, <3>2, <3>3 DEF OneAtATime
  <2>5. \A q \in Requests : q \in InFlight' \/ In(q, "new")' => Served(q)'
    <3>1. Served(r)'
      <4>1. Receive(r) /\ Served(r)
        BY <1>1 DEF Accept, Receive, Serial
      <4> QED BY <1>a, <4>1, ReceiveServed
    <3> QED BY <1>c, <2>2, <2>3, <3>1
  <2> QED BY <1>a, <1>b, <2>1, <2>4, <2>5, TableStays
<1>2. CASE FlushAfterUpdate(r)
  <2> DEFINE x == [NoTx EXCEPT !.pc = "begin"]
  <2>1. tx' = [tx EXCEPT ![r] = x] /\ In(r, "flush") /\ UNCHANGED st
    BY <1>2 DEF FlushAfterUpdate, StartFlush, managerVars
  <2>2. x.pc = "begin" /\ x.rows = NoRows /\ x.i = 1
    BY DEF NoTx
  <2> HIDE DEF x
  <2>3. tx'[r] = x /\ \A q \in Callers \ {r} : tx'[q] = tx[q]
    BY <1>a, <2>1
  <2>4. OneAtATime'
    BY <1>a, <1>b, <2>1, <2>3 DEF OneAtATime, InFlight, InTx, Up, In
  <2>5. \A q \in Callers \ {r} : InTx(q, "idle")
    BY <1>a, <2>1 DEF OneAtATime, InFlight, Working, In
  <2>6. \A q \in Callers : Walked(q)' /\ Named(tx[q].rows)'
    BY <1>a, <2>2, <2>3, <2>5 DEF Walked, InTx, Named, NoRows
  <2>7. \A q \in Requests : q \in InFlight' \/ In(q, "new")' => Served(q)'
    BY <1>a, <2>1, ServiceStays
  <2> QED BY <1>a, <1>b, <2>4, <2>6, <2>7 DEF Serial, Named
<1>3. CASE Answer(r)
  <2>1. /\ tx' = [tx EXCEPT ![r] = NoTx] /\ In(r, "flush")
        /\ st' = [st EXCEPT ![r].pc = "ok"]
    BY <1>3 DEF Answer, Reply, Goto
  <2>2. NoTx.pc = "idle" /\ NoTx.rows = NoRows
    BY DEF NoTx
  <2>3. \A q \in Callers \ {r} : InTx(q, "idle") /\ (q \in Requests => q \notin InFlight)
    BY <1>a, <2>1 DEF OneAtATime, InFlight, Working, In
  <2> HIDE DEF NoTx
  <2>4. tx'[r] = NoTx /\ \A q \in Callers \ {r} : tx'[q] = tx[q]
    BY <1>a, <2>1
  <2>5. \A q \in Callers : InTx(q, "idle")'
    BY <2>2, <2>3, <2>4 DEF InTx
  <2>6. InFlight' = {}
    <3>1. \A q \in Requests : st'[q].pc \notin Working
      BY <1>a, <2>1, <2>3 DEF InFlight, Working, Request
    <3> QED BY <3>1 DEF InFlight
  <2>7. \A q \in Callers : ~Busy(q)
    BY <1>a, <2>1 DEF OneAtATime, InFlight, Working, In, Up
  <2>8. OneAtATime'
    BY <1>b, <2>5, <2>6, <2>7 DEF OneAtATime
  <2>9. \A q \in Callers : Walked(q)' /\ Named(tx[q].rows)'
    BY <1>a, <2>2, <2>4, <2>5 DEF Walked, InTx, Named, NoRows
  <2>10. \A q \in Requests : q \in InFlight' \/ In(q, "new")' => Served(q)'
    <3>1. st'[r].pc = "ok" /\ \A q \in Requests \ {r} : st'[q] = st[q]
      BY <1>a, <2>1
    <3> QED BY <1>c, <2>6, <3>1 DEF In
  <2> QED BY <1>a, <1>b, <2>8, <2>9, <2>10 DEF Serial, Named
<1> QED BY <1>1, <1>2, <1>3

\* Before the first process nothing is under way.
LEMMA SerialInit == Init => SerialInv
<1> SUFFICES ASSUME Init PROVE Serial
  BY DBInitInv DEF SerialInv
<1>1. /\ heap = << <<>> >> /\ hdr = [ptr |-> 1, len |-> 0] /\ table = NoRows
      /\ \A p \in Callers : call[p] = NoCall /\ tx[p] = NoTx
      /\ \A r \in Requests : st[r].pc = "new" /\ st[r].i = 1
  <2>1. heap = << <<>> >> /\ hdr = [ptr |-> 1, len |-> 0] /\ \A p \in Callers : call[p] = NoCall
    BY DEF Init, ManagerInit, StoreInit
  <2>2. table = NoRows /\ \A p \in Callers : tx[p] = NoTx
    BY DEF Init, DBInit
  <2>3. \A r \in Requests : st[r].pc = "new" /\ st[r].i = 1
    BY DEF Init, ManagerInit
  <2> QED BY <2>1, <2>2, <2>3
<1>2. \A p \in Callers : call[p].pc = "idle" /\ tx[p].pc = "idle" /\ tx[p].rows = NoRows
  <2>1. NoCall.pc = "idle" /\ NoTx.pc = "idle" /\ NoTx.rows = NoRows
    BY DEF NoCall, NoTx
  <2> HIDE DEF NoCall, NoTx, NoRows
  <2> QED BY <1>1, <2>1
<1>3. Orderly(Proper)
  BY <1>1, <1>2, OrderlyInit
<1>4. OneAtATime
  BY <1>1, <1>2 DEF OneAtATime, InFlight, Working, Busy, InTx
<1>5. \A p \in Callers : Walked(p) /\ Named(tx[p].rows)
  BY <1>2 DEF Walked, InTx, Named, NoRows
<1>6. Named(table)
  BY <1>1 DEF Named, NoRows
<1>7. \A r \in Requests : Served(r)
  BY <1>1 DEF Served, Knows, In, Working
<1> QED BY <1>3, <1>4, <1>5, <1>6, <1>7 DEF Serial

\* Every step keeps the invariant, unless it is one that makes requests overlap.
LEMMA SerialNext == SerialInv /\ [Next]_vars => SerialInv'
<1> SUFFICES ASSUME SerialInv, [Next]_vars, ~overlapped' PROVE Serial'
  BY DBNextInv DEF SerialInv
<1>1. DBInv /\ (~overlapped => Serial)
  BY DEF SerialInv
<1>2. CASE \/ Boot \/ Migrate \/ Query
           \/ LoadNext \/ SkipRow \/ LoadStep \/ Loaded \/ LoadFails
  <2>1. overlapped' = overlapped
    BY <1>2 DEF Boot, Migrate, Query, LoadNext, SkipRow, LoadStep, Loaded, LoadFails
  <2> QED BY <1>1, <1>2, <2>1, StartSerial
<1>3. ASSUME NEW r \in Requests, Accept(r)
      PROVE  Serial'
  <2>1. ~overlapped /\ InFlight = {}
    BY <1>3 DEF Accept
  <2> QED BY <1>1, <1>3, <2>1, RequestSerial
<1>4. ASSUME NEW r \in Requests, FlushAfterUpdate(r) \/ Answer(r)
      PROVE  Serial'
  <2>1. overlapped' = overlapped
    BY <1>4 DEF FlushAfterUpdate, Answer
  <2> QED BY <1>1, <1>4, <2>1, RequestSerial
<1>5. ASSUME NEW r \in Requests, Serve(r)
      PROVE  Serial'
  BY <1>1, <1>5, ServeSerial DEF Serve
<1>6. ASSUME NEW r \in Requests, FlushProgress(r)
      PROVE  Serial'
  BY <1>1, <1>6, FlushSerial DEF FlushProgress
<1>7. CASE Crash \/ Shutdown
  <2>1. \E phase : EndProcess(phase)
    BY <1>7 DEF Crash, Shutdown
  <2>2. overlapped' = overlapped
    BY <2>1 DEF EndProcess
  <2> QED BY <1>1, <2>1, <2>2, EndSerial
<1>8. CASE UNCHANGED vars
  <2>1. UNCHANGED <<heap, hdr, call, st, table, tx, srv, overlapped>>
    BY <1>8 DEF vars
  <2>2. /\ Serial /\ Orderly(Proper)'
        /\ \A r \in Requests : r \in InFlight' \/ In(r, "new")' => Served(r)'
    BY <1>1, <2>1, ServiceStays
  <2>3. OneAtATime'
    BY <2>1, <2>2 DEF Serial, OneAtATime, InFlight, Busy, Up, InTx, In
  <2> QED BY <2>1, <2>2, <2>3, TableStays
<1> QED BY <1>2, <1>3, <1>4, <1>5, <1>6, <1>7, <1>8 DEF Next

\* At its commit a transaction has gone past all the memory holds.
LEMMA CommitHolds ==
    ASSUME DBInv, Serial, NEW r \in Requests, Commit(r), UNCHANGED <<heap, hdr>>
    PROVE  \A j \in 1..hdr.len : InRow(Visible[j])'
<1>1. /\ r \in Callers /\ tx[r] \in TxIn(Metric) /\ hdr.len \in Nat
      /\ heap[hdr.ptr] \in Seq(Metric)
      /\ InTx(r, "next") /\ ~MoreToFlush(r) /\ table' = Seen(r) /\ Walked(r)
  BY SerialTypes DEF Commit, Serial, SavedIn
<1>2. ~InTx(r, "idle") /\ hdr.len <= Len(heap[hdr.ptr])
  BY <1>1 DEF InTx, Serial, Orderly
<1>3. tx[r].i = hdr.len + 1
  BY <1>1 DEF MoreToFlush, Walked, InTx, TxIn
<1>4. \A j \in 1..hdr.len : Holds(Seen(r)[heap[hdr.ptr][j].id], heap[hdr.ptr][j])
  BY <1>1, <1>3 DEF Walked
<1> TAKE j \in 1..hdr.len
<1>5. Visible[j]' = heap[hdr.ptr][j]
  BY <1>1, <1>2 DEF Visible, CellAt
<1> QED BY <1>1, <1>4, <1>5 DEF InRow, Holds

\* For any requests, names and constants: as long as requests do not overlap, and
\* whatever failed or was restored before, a flush that commits brings the table up
\* to the memory, the names that share a row included (postgres.go:101-178).
THEOREM CommitSavesAllAlways == Spec => CommitSavesAll
<1>1. SerialInv /\ [Next]_vars =>
        [\A r \in Requests : Commit(r) /\ ~overlapped =>
            \A j \in 1..hdr.len : InRow(Visible[j])']_vars
  <2> SUFFICES ASSUME SerialInv, [Next]_vars, vars' # vars, NEW r \in Requests,
                      Commit(r), ~overlapped
               PROVE  \A j \in 1..hdr.len : InRow(Visible[j])'
    OBVIOUS
  <2>1. /\ r \in Callers /\ tx[r].pc = "next" /\ tx'[r].pc = "done"
    BY SerialTypes DEF SerialInv, Commit, InTx, SavedIn, NoTx
  <2>2. tx' # tx
    BY <2>1
  <2>3. ~(Crash \/ Shutdown)
    <3>1. NoTx.pc = "idle"
      BY DEF NoTx
    <3> HIDE DEF NoTx
    <3> QED BY <2>1, <3>1 DEF Crash, Shutdown, EndProcess
  <2>4. \E q \in Requests : FlushAfterUpdate(q) \/ FlushProgress(q) \/ Answer(q)
    BY <2>2, <2>3 DEF Next, Boot, Migrate, Query, LoadNext, SkipRow, LoadStep, Loaded, LoadFails,
       Accept, Serve, dbVars, vars
  <2>5. UNCHANGED <<heap, hdr>>
    BY <2>4 DEF FlushAfterUpdate, FlushProgress, Answer, Reply, managerVars
  <2> QED BY <2>5, CommitHolds DEF SerialInv
<1> QED BY <1>1, SerialInit, SerialNext, PTL DEF Spec, CommitSavesAll
=============================================================================
